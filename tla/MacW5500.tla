------------------------------ MODULE MacW5500 ------------------------------
(***************************************************************************)
(* The data path of the W5500 MAC driver                                   *)
(* (src/port/ioLibrary_Driver/src/esp_eth_mac_w5500.c): the receive task   *)
(* emac_w5500_task(), and transmit() called by the network stack, over the *)
(* one hardware socket both of them command through Sn_CR and watch        *)
(* through Sn_IR.  Every SPI transfer is under the driver's mutex, so a    *)
(* register access is one step; a sequence of them is not.                 *)
(*                                                                         *)
(* Frames are numbered in the order they arrive.  RX memory is the         *)
(* sequence of the frames the chip holds, and RX_RD the number of them     *)
(* that the driver has read past without telling the chip (RECV).  What a  *)
(* board may suffer is a set of faults, fixed for a behaviour:             *)
(*   "read", "write"  a register access fails (SPI error, lock timeout)    *)
(*   "header"         a frame header is corrupted so that the length check *)
(*                    sees it                                              *)
(*   "memory"         malloc() of a frame buffer fails                     *)
(*   "slow"           a SEND is not done within tx_tmo                     *)
(*   "flap"           the link goes down and up                            *)
(*   "lag"            the chip may take longer to accept a command than    *)
(*                    the next register access takes to arrive             *)
(***************************************************************************)
EXTENDS Naturals, Sequences

CONSTANTS
    MaxFrames,    \* bound: frames that arrive
    MaxSends,     \* bound: calls of transmit()
    RxRoom,       \* frames RX memory holds
    TxRoom,       \* frames TX memory holds
    MaxGlitches,  \* bound: faults other than of the link
    FaultModes    \* the sets of faults a board is taken to have

(* TX memory has room for a frame. *)
ASSUME TxRoomAssumption == TxRoom \in Nat \ {0}

VARIABLES
    faults, glitches,   \* the board's faults; how many more may happen
    polled,             \* no interrupt line: int_gpio_num < 0
    up,                 \* PHYCFGR.LNK
    cr, ir,             \* Sn_CR, Sn_IR
    rx, rd,             \* RX memory and RX_RD
    astray,             \* RX_RD is not at a frame boundary
    wr, sending,        \* frames behind TX_WR; frames being sent
    notified,           \* the task's notification
    remain,             \* packets_remain
    task, size, frame,  \* the receive task, the RX_RSR and frame it has read
    call,               \* where transmit() is
    arrived, offered,   \* history: frames arrived, frames given to transmit()
    delivered,          \* history: frames passed to the stack
    misread,            \* history: a flush has gone by a corrupted header
    wire, told          \* history: packets sent; what transmit() returned

chip == <<up, cr, ir, rx, rd, astray, wr, sending>>
rxTask == <<notified, remain, task, size, frame>>
history == <<arrived, offered, delivered, misread, wire, told>>
vars == <<faults, glitches, polled, chip, rxTask, call, history>>

Elements(s) == {s[i] : i \in DOMAIN s}
Phantom == 0          \* what is read where the chip has put no frame

(* Registers, tasks and histories hold what they are for. *)
TypeOK ==
    /\ glitches \in 0 .. MaxGlitches
    /\ cr \in {"none", "SEND", "RECV"} /\ ir \subseteq {"RECV", "SEND"}
    /\ Len(rx) <= RxRoom /\ rd \in 0 .. Len(rx) + 1
    /\ Len(wr) + Len(sending) <= TxRoom
    /\ task \in {"wait", "status", "clear", "size", "header", "payload",
                 "recv", "recvdone", "flush", "drop", "dropdone"}
    /\ call \in {"none", "copy", "send", "sent", "done", "ack"}

(* emac_w5500_start() has opened the socket; nothing has arrived. *)
Init ==
    /\ faults \in FaultModes /\ glitches = MaxGlitches
    /\ polled \in BOOLEAN /\ up = TRUE
    /\ cr = "none" /\ ir = {} /\ rx = <<>> /\ rd = 0 /\ astray = FALSE
    /\ wr = <<>> /\ sending = <<>>
    /\ notified = FALSE /\ remain = FALSE /\ task = "wait"
    /\ size = 0 /\ frame = Phantom
    /\ call = "none"
    /\ arrived = 0 /\ offered = 0
    /\ delivered = <<>> /\ misread = FALSE
    /\ wire = <<>> /\ told = <<>>

Fails(kind) ==
    kind \in faults /\ glitches > 0 /\ glitches' = glitches - 1
Works == UNCHANGED glitches

-----------------------------------------------------------------------------
(* The chip and the network *)

(* A frame arrives; the interrupt line falls when Sn_IR.RECV becomes set,  *)
(* and w5500_isr_handler() notifies the task.                              *)
IsrHandler == notified' = (notified \/ (~polled /\ "RECV" \notin ir))

Arrive ==
    /\ arrived < MaxFrames /\ up /\ Len(rx) < RxRoom
    /\ arrived' = arrived + 1
    /\ rx' = Append(rx, arrived + 1) /\ ir' = ir \cup {"RECV"}
    /\ IsrHandler
    /\ UNCHANGED <<faults, glitches, polled, up, cr, rd, astray, wr, sending,
                   remain, task, size, frame, call, offered, delivered,
                   misread, wire, told>>

(* The chip takes the command and clears Sn_CR: RECV frees what RX_RD has  *)
(* passed, SEND sends TX_RD .. TX_WR as one packet.                        *)
Accept ==
    /\ cr # "none" /\ cr' = "none"
    /\ \/ /\ cr = "RECV" /\ rd' = 0
          /\ rx' = IF astray THEN <<>> ELSE SubSeq(rx, rd + 1, Len(rx))
          /\ UNCHANGED <<wr, sending>>
       \/ /\ cr = "SEND" /\ sending' = sending \o wr /\ wr' = <<>>
          /\ UNCHANGED <<rx, rd>>
    /\ UNCHANGED <<faults, glitches, polled, up, ir, astray, rxTask, call,
                   history>>

Sent ==
    /\ sending # <<>> /\ up
    /\ wire' = Append(wire, sending) /\ sending' = <<>>
    /\ ir' = ir \cup {"SEND"}
    /\ UNCHANGED <<faults, glitches, polled, up, cr, rx, rd, astray, wr,
                   rxTask, call, arrived, offered, delivered, misread, told>>

Flap ==
    /\ "flap" \in faults
    /\ IF up THEN Fails("flap") ELSE Works
    /\ up' = ~up
    /\ UNCHANGED <<faults, polled, cr, ir, rx, rd, astray, wr, sending,
                   rxTask, call, history>>

(* w5500_poll_timer() *)
PollTimer ==
    /\ polled /\ notified' = TRUE
    /\ UNCHANGED <<faults, glitches, polled, chip, remain, task, size, frame,
                   call, history>>

-----------------------------------------------------------------------------
(* The receive task *)

Goto(pc) == task' = pc /\ UNCHANGED <<notified, size>>
Again(more) == Goto(IF more THEN "size" ELSE "wait")

(* A command is accepted before the next access: the driver does not see   *)
(* to that (the other caller may write Sn_CR, or a failed poll go on), the *)
(* speed of the chip does.                                                 *)
Quick == cr = "none" \/ "lag" \in faults
Command(c) == Quick /\ cr' = c

(* A notification, or after a second the level of the interrupt line.      *)
Wake ==
    /\ task = "wait"
    /\ notified \/ (~polled /\ "RECV" \in ir)
    /\ task' = "status" /\ notified' = FALSE
    /\ UNCHANGED <<faults, glitches, polled, chip, remain, size, frame, call,
                   history>>

(* A read that fails leaves in status what was in the transfer buffer.     *)
ReadStatus ==
    /\ task = "status"
    /\ \/ Works /\ Goto(IF "RECV" \in ir THEN "clear" ELSE "wait")
       \/ Fails("read") /\ \E pc \in {"clear", "wait"} : Goto(pc)
    /\ UNCHANGED <<faults, polled, chip, remain, frame, call, history>>

Cleared_All == {}                                               \* mutant
Cleared == ir \ {"RECV"}
ClearStatus ==
    /\ task = "clear" /\ Goto("size")
    /\ \/ Works /\ ir' = Cleared
       \/ Fails("write") /\ UNCHANGED ir
    /\ UNCHANGED <<faults, polled, up, cr, rx, rd, astray, wr, sending,
                   remain, frame, call, history>>

(* w5500_get_rx_received_size(); a size that cannot be read counts as 0,   *)
(* and alloc_recv_buf() then succeeds without a buffer.                    *)
ReadSize ==
    /\ task = "size" /\ Quick
    /\ \/ /\ Works /\ size' = Len(rx) /\ UNCHANGED notified
          /\ task' = IF rx # <<>> THEN "header"
                     ELSE IF remain THEN "size" ELSE "wait"
       \/ Fails("read") /\ Again(remain)
    /\ UNCHANGED <<faults, polled, chip, remain, frame, call, history>>

(* The header at RX_RD, the length check and malloc().  An unexpected      *)
(* error leaves packets_remain alone; receive() and flush clear it first.  *)
Stray == astray \/ rd >= Len(rx)
Behind == IF Stray THEN Phantom ELSE rx[rd + 1]
AtStart_Kept == remain                                          \* mutant
AtStart == FALSE
BadFrame == Again(remain) /\ UNCHANGED remain
ReadHeader ==
    /\ task = "header"
    /\ \/ Works /\ Goto("payload") /\ remain' = AtStart
       \/ Fails("read") /\ BadFrame
       \/ Fails("header") /\ BadFrame
       \/ Stray /\ Works /\ BadFrame
       \/ Fails("memory") /\ Goto("flush") /\ remain' = AtStart
    /\ UNCHANGED <<faults, polled, chip, frame, call, history>>

(* emac_w5500_receive(): copy the frame, then move RX_RD past it. *)
Advanced_Not == rd                                              \* mutant
Advanced == IF Stray THEN rd ELSE rd + 1
ReadPayload ==
    /\ task = "payload"
    /\ \/ /\ Works /\ Goto("recv")
          /\ frame' = Behind /\ rd' = Advanced /\ astray' = Stray
       \/ /\ Fails("read") \/ Fails("write")
          /\ Again(remain) /\ UNCHANGED <<frame, rd, astray>>
    /\ UNCHANGED <<faults, polled, up, cr, ir, rx, wr, sending, remain, call,
                   history>>

IssueRecv(at, then) ==
    /\ task = at
    /\ \/ Works /\ Command("RECV") /\ Goto(then)
       \/ Fails("write") /\ Again(remain) /\ UNCHANGED cr
    /\ UNCHANGED <<faults, polled, up, ir, rx, rd, astray, wr, sending,
                   remain, frame, call, history>>

(* The command register reads 0.  What remains is counted from the size    *)
(* read before the frame.                                                  *)
MoreRemain == size > 1
RecvAccepted(at, passed) ==
    /\ task = at
    /\ \/ /\ cr = "none" /\ Works
          /\ remain' = MoreRemain /\ Again(MoreRemain)
          /\ delivered' = delivered \o passed
       \/ Fails("read") /\ Again(remain) /\ UNCHANGED <<remain, delivered>>
    /\ UNCHANGED <<faults, polled, chip, frame, call, arrived, offered, misread,
                   wire, told>>

IssueReceive  == IssueRecv("recv", "recvdone")
FrameReceived == RecvAccepted("recvdone", <<frame>>)

(* emac_w5500_flush_recv_frame(), when there is no memory for the frame.   *)
(* It reads size and header anew, and does not check the header: with a    *)
(* corrupted one RX_RD goes astray, or stays when the length reads 0, and  *)
(* packets_remain is what is left of the size, whatever that is.           *)
FlushWhole ==
    /\ task = "flush" /\ UNCHANGED misread
    /\ \/ /\ rx # <<>> /\ Works /\ task' = "drop" /\ size' = Len(rx)
          /\ rd' = Advanced /\ astray' = Stray /\ UNCHANGED notified
       \/ /\ Fails("read") \/ Fails("write") \/ (rx = <<>> /\ Works)
          /\ Again(remain) /\ UNCHANGED <<rd, astray>>
FlushAstray ==
    /\ task = "flush" /\ rx # <<>> /\ Fails("header") /\ misread' = TRUE
    /\ task' = "drop" /\ size' \in {1, 2} /\ UNCHANGED <<notified, rd>>
    /\ astray' \in {astray, TRUE}
Flush ==
    /\ FlushWhole \/ FlushAstray
    /\ UNCHANGED <<faults, polled, up, cr, ir, rx, wr, sending, remain, frame,
                   call, arrived, offered, delivered, wire, told>>

IssueDrop    == IssueRecv("drop", "dropdone")
FrameDropped == RecvAccepted("dropdone", <<>>)

-----------------------------------------------------------------------------
(* emac_w5500_transmit(), which esp_eth calls under a mutex of its own: one *)
(* call at a time. *)

Return(result) == call' = "none" /\ told' = Append(told, result)
CallAt(pc) == call' = pc /\ UNCHANGED told
Frame == offered                 \* the frame of the call under way

Transmit ==
    /\ call = "none" /\ offered < MaxSends
    /\ offered' = offered + 1 /\ CallAt("copy")
    /\ UNCHANGED <<faults, glitches, polled, chip, rxTask, arrived, delivered,
                   misread, wire>>

(* w5500_get_tx_free_size(), then the frame and TX_WR are written. *)
TxFree == TxRoom - Len(wr) - Len(sending)
Copy ==
    /\ call = "copy"
    /\ \/ TxFree > 0 /\ Works /\ wr' = Append(wr, Frame) /\ CallAt("send")
       \/ TxFree = 0 /\ Works /\ Return(FALSE) /\ UNCHANGED wr
       \/ (Fails("read") \/ Fails("write")) /\ Return(FALSE) /\ UNCHANGED wr
    /\ UNCHANGED <<faults, polled, up, cr, ir, rx, rd, astray, sending, rxTask,
                   arrived, offered, delivered, misread, wire>>

IssueSend ==
    /\ call = "send"
    /\ \/ Works /\ Command("SEND") /\ CallAt("sent")
       \/ Fails("write") /\ Return(FALSE) /\ UNCHANGED cr
    /\ UNCHANGED <<faults, polled, up, ir, rx, rd, astray, wr, sending, rxTask,
                   arrived, offered, delivered, misread, wire>>

SendAccepted ==
    /\ call = "sent"
    /\ \/ cr = "none" /\ Works /\ CallAt("done")
       \/ Fails("read") /\ Return(FALSE)
    /\ UNCHANGED <<faults, polled, chip, rxTask, arrived, offered, delivered,
                   misread, wire>>

(* The wait for Sn_IR.SENDOK ends when the link is seen down or tx_tmo is   *)
(* over, which is sure to happen when nothing is being sent.                *)
Sane == up                                   \* is_w5500_sane_for_rxtx()
InVain == "SEND" \notin ir /\ sending = <<>>
AwaitSent ==
    /\ call = "done"
    /\ \/ Sane /\ "SEND" \in ir /\ Works /\ CallAt("ack")
       \/ (~Sane \/ InVain) /\ Works /\ Return(FALSE)
       \/ (Fails("slow") \/ Fails("read")) /\ Return(FALSE)
    /\ UNCHANGED <<faults, polled, chip, rxTask, arrived, offered, delivered,
                   misread, wire>>

Acknowledge ==
    /\ call = "ack"
    /\ \/ Works /\ ir' = ir \ {"SEND"} /\ Return(TRUE)
       \/ Fails("write") /\ Return(FALSE) /\ UNCHANGED ir
    /\ UNCHANGED <<faults, polled, up, cr, rx, rd, astray, wr, sending, rxTask,
                   arrived, offered, delivered, misread, wire>>

-----------------------------------------------------------------------------
Chip == Accept \/ Sent
ReceiveTask ==
    \/ Wake \/ ReadStatus \/ ClearStatus \/ ReadSize \/ ReadHeader
    \/ ReadPayload \/ IssueReceive \/ FrameReceived
    \/ Flush \/ IssueDrop \/ FrameDropped
Transmission ==
    Copy \/ IssueSend \/ SendAccepted \/ AwaitSent \/ Acknowledge

Next ==
    \/ Arrive \/ Flap \/ PollTimer \/ Chip
    \/ ReceiveTask \/ Transmit \/ Transmission

Spec == Init /\ [][Next]_vars

(* The chip works, the timer fires and the receive task, whose priority is  *)
(* above the stack's, is scheduled; nothing is assumed of the network or of *)
(* who calls transmit(). *)
FairSpec ==
    Spec /\ WF_vars(ReceiveTask) /\ WF_vars(Chip) /\ WF_vars(PollTimer)

-----------------------------------------------------------------------------
(* Properties *)

Commands == faults \cap {"write", "lag"} = {}   \* none of them gets lost

(* The stack gets frames of the network only, each once and in order, also *)
(* when malloc() fails, headers are corrupted or registers cannot be read: *)
(* RX_RD is never left between two frames (esp_eth_mac_w5500.c:667-735).   *)
(* Not so once a flush has moved RX_RD by a corrupted header, which it     *)
(* reads for itself (774-779).                                             *)
FramesInOrder ==
    Commands /\ ~misread =>
        \A i \in DOMAIN delivered :
            /\ delivered[i] \in 1 .. arrived
            /\ \A j \in DOMAIN delivered : i < j => delivered[i] < delivered[j]

(* transmit() says what became of the frame: as long as nothing but memory *)
(* and headers fails, it succeeds and the frame is on the wire, alone in   *)
(* its packet, although the receive task commands and acknowledges through *)
(* the same two registers (esp_eth_mac_w5500.c:655-693).                   *)
TransmitTells ==
    faults \subseteq {"memory", "header"} =>
        \A i \in DOMAIN told : told[i] /\ i <= Len(wire) /\ wire[i] = <<i>>

(* After any number of errors the receive task, which repeats while        *)
(* packets_remain, comes to rest (esp_eth_mac_w5500.c:863).  Not so when a  *)
(* RECV gets lost: its frame is counted twice, RX memory is empty early,    *)
(* and the task repeats on it until the next frame arrives; nor when a      *)
(* flush has counted a corrupted length.                                    *)
TaskRests == Commands => []<>(task = "wait" \/ misread)

=============================================================================
