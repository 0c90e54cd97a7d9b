------------------------------ MODULE MacW6300 ------------------------------
(***************************************************************************)
(* The data path of the W6300 MAC driver                                   *)
(* (src/port/ioLibrary_Driver/src/esp_eth_mac_w6300.c) next to that of the *)
(* W5500: the same tasks over the same kind of hardware socket, with       *)
(* Sn_IRCLR to acknowledge what Sn_IR shows and PHYSR for the link.  It     *)
(* differs where a frame cannot be used: the W6300's receive task drops it *)
(* whatever the error was, the W5500's only when there was no memory.      *)
(***************************************************************************)
EXTENDS MacW5500

VARIABLE board        \* "W5500" or "W6300"

-----------------------------------------------------------------------------
(* emac_w6300_receive(), its flush, and what they share with the W5500 *)

StatusW6300   == ReadStatus \/ ClearStatus
ReceivedW6300 == ReadSize
PayloadW6300  == ReadPayload \/ IssueReceive \/ FrameReceived
CommandW6300  == IssueDrop \/ FrameDropped
SentW6300     == SendAccepted \/ AwaitSent \/ Acknowledge
TransmitW6300 == Copy \/ IssueSend \/ SentW6300

(* w6300_read_frame_header() and the length check in alloc_recv_buf(); what *)
(* they refuse is flushed, and the flush clears packets_remain first.       *)
Refused_Kept(why) == why /\ BadFrame                            \* mutant
Refused(why) == why /\ Goto("flush") /\ remain' = AtStart
HeaderW6300 ==
    /\ task = "header"
    /\ \/ Works /\ Goto("payload") /\ remain' = AtStart
       \/ Refused(Fails("read"))
       \/ Refused(Fails("header"))
       \/ Refused(Stray /\ Works)
       \/ Refused(Fails("memory"))
    /\ UNCHANGED <<faults, polled, chip, frame, call, history>>

(* emac_w6300_flush_recv_frame() reads size and header anew.  A header that *)
(* is too short even for itself ends the flush where it is, the frame still *)
(* in the chip; a wrong length is taken as the W5500's flush takes it.      *)
FlushRefused ==
    /\ task = "flush" /\ Again(remain) /\ UNCHANGED <<rd, astray>>
    /\ \/ Stray /\ Works /\ UNCHANGED misread
       \/ rx # <<>> /\ Fails("header") /\ misread' = TRUE
FlushW6300 ==
    /\ FlushWhole \/ FlushAstray \/ FlushRefused
    /\ UNCHANGED <<faults, polled, up, cr, ir, rx, wr, sending, remain, frame,
                   call, arrived, offered, delivered, wire, told>>

(* emac_w6300_task() *)
ReceiveTaskW6300 ==
    \/ Wake \/ StatusW6300 \/ ReceivedW6300 \/ HeaderW6300
    \/ PayloadW6300 \/ FlushW6300 \/ CommandW6300

NextW6300 ==
    \/ Arrive \/ Flap \/ PollTimer \/ Chip
    \/ ReceiveTaskW6300 \/ Transmit \/ TransmitW6300

-----------------------------------------------------------------------------
(* Either board *)

boardVars == <<vars, board>>
W5500 == board = "W5500" /\ UNCHANGED board
W6300 == board = "W6300" /\ UNCHANGED board

BoardInit == Init /\ board \in {"W5500", "W6300"}
BoardNext == (W5500 /\ Next) \/ (W6300 /\ NextW6300)
BoardSpec == BoardInit /\ [][BoardNext]_boardVars

(* FairSpec's assumptions; the poll timer of a board without an interrupt   *)
(* line fires whatever the task does.                                      *)
BoardFairSpec ==
    /\ BoardSpec
    /\ WF_boardVars(W5500 /\ ReceiveTask)
    /\ WF_boardVars(W6300 /\ ReceiveTaskW6300)
    /\ WF_boardVars(Chip /\ UNCHANGED board)
    /\ WF_boardVars(PollTimer /\ UNCHANGED board)

(* No frame is left in the chip: whatever the moment it arrives relative   *)
(* to the task's reading and clearing of Sn_IR, it is read or dropped      *)
(* (esp_eth_mac_w5500.c:805-867), also when there is no memory for it.  On *)
(* a W6300 also when a header is corrupted: "Drop the offending frame      *)
(* instead of retrying it: a corrupt PACKET-INFO header would otherwise be *)
(* re-read forever" (esp_eth_mac_w6300.c:1059).  The flush re-reads it,    *)
(* though: a header that is corrupted then as well leaves the frame where  *)
(* it is until the next one arrives (974).                                 *)
Suffered == IF board = "W6300" THEN {"memory", "header"} ELSE {"memory"}
FramesLeave ==
    \A f \in 1 .. MaxFrames :
        (f \in Elements(rx) /\ faults \subseteq Suffered)
            ~> (f \notin Elements(rx) \/ misread)

=============================================================================
