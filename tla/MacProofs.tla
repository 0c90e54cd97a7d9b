------------------------------ MODULE MacProofs ------------------------------
(* Proofs about MacW5500 and MacW6300, on either board: the stack gets the  *)
(* frames of the network, each once and in order, and what transmit()       *)
(* returns is what became of the frame.                                     *)
EXTENDS MCEthernet, SequenceTheorems, TLAPS

(* What of the driver and the chip decides on the order of frames *)
flow == <<cr, rx, rd, astray, task, frame, arrived, delivered>>

Increasing(s) == \A i, j \in DOMAIN s : i < j => s[i] < s[j]
Below(s, t) == \A i \in DOMAIN s, j \in DOMAIN t : s[i] < t[j]
Arrived(s) == \A i \in DOMAIN s : s[i] \in 1 .. arrived

Resting == {"wait", "status", "clear", "size"}
Looking == {"header", "payload", "flush"}
Passing == {"recv", "drop"}
Waiting == {"recvdone", "dropdone"}

Typed ==
    /\ rx \in Seq(Nat) /\ delivered \in Seq(Nat)
    /\ arrived \in Nat /\ frame \in Nat
    /\ cr \in {"none", "SEND", "RECV"}
    /\ task \in Resting \cup Looking \cup Passing \cup Waiting

(* RX_RD stands before the first frame, or behind it from the moment it has *)
(* been read to that at which the chip has accepted RECV, and the task does *)
(* not look at RX memory in between.                                        *)
Place ==
    /\ astray = FALSE
    /\ rd = IF cr = "RECV" \/ task \in Passing THEN 1 ELSE 0
    /\ task \in Looking \cup Passing => cr # "RECV" /\ rx # <<>>
    /\ cr = "RECV" => rx # <<>>

(* The frames passed on, then those in the chip, in the order of arrival *)
Order ==
    /\ Arrived(rx) /\ Arrived(delivered)
    /\ Increasing(rx) /\ Increasing(delivered) /\ Below(delivered, rx)

(* The frame in the task's hands is between the two: it is the chip's first *)
(* one until RECV is accepted. *)
Held ==
    task \in {"recv", "recvdone"} =>
        /\ frame \in 1 .. arrived /\ Below(delivered, <<frame>>)
        /\ IF rd = 1 THEN frame = rx[1] ELSE Below(<<frame>>, rx)

Good == Typed /\ Place /\ Order /\ Held
FlowInv == Commands /\ ~misread => Good

-----------------------------------------------------------------------------
(* The kinds of steps *)

Rests(d) ==                        \* the task gives up or has nothing to do
    /\ task' \in Resting /\ task \notin Passing
    /\ d => task = "recvdone" /\ cr = "none"
    /\ delivered' = IF d THEN Append(delivered, frame) ELSE delivered
    /\ UNCHANGED <<cr, rx, rd, astray, frame, arrived>>
Looks ==
    /\ \/ task = "size" /\ cr = "none" /\ rx # <<>> /\ task' = "header"
       \/ task = "header" /\ task' \in {"payload", "flush"}
    /\ UNCHANGED <<cr, rx, rd, astray, frame, arrived, delivered>>
Reads ==
    /\ \/ task = "payload" /\ task' = "recv" /\ frame' = Behind
       \/ task = "flush" /\ task' = "drop" /\ UNCHANGED frame
    /\ rd' = Advanced /\ astray' = Stray
    /\ UNCHANGED <<cr, rx, arrived, delivered>>
Tells ==
    /\ \/ task = "recv" /\ task' = "recvdone"
       \/ task = "drop" /\ task' = "dropdone"
    /\ cr = "none" /\ cr' = "RECV"
    /\ UNCHANGED <<rx, rd, astray, frame, arrived, delivered>>
Frees ==
    /\ cr = "RECV" /\ cr' = "none" /\ rd' = 0
    /\ rx' = IF astray THEN <<>> ELSE SubSeq(rx, rd + 1, Len(rx))
    /\ UNCHANGED <<astray, task, frame, arrived, delivered>>
Sends ==
    /\ cr # "RECV" /\ cr' \in {"none", "SEND"}
    /\ UNCHANGED <<rx, rd, astray, task, frame, arrived, delivered>>
Comes ==
    /\ arrived' = arrived + 1 /\ rx' = Append(rx, arrived + 1)
    /\ UNCHANGED <<cr, rd, astray, task, frame, delivered>>

Kinds ==
    \/ \E d \in BOOLEAN : Rests(d)
    \/ Looks \/ Reads \/ Tells \/ Frees \/ Sends \/ Comes \/ UNCHANGED flow

(* The chip, the network and transmit() do what Kinds says. *)
LEMMA OthersKinds ==
    ASSUME Commands, Typed,
           Arrive \/ Flap \/ PollTimer \/ Chip \/ Transmit \/ Transmission
    PROVE  Kinds
<1>1. CASE Arrive
  BY <1>1 DEF Arrive, Kinds, Comes
<1>2. CASE Flap \/ PollTimer \/ Sent \/ Transmit
  BY <1>2 DEF Flap, PollTimer, Sent, Transmit, Kinds, flow, chip, rxTask,
     history
<1>3. CASE Accept
  <2>1. CASE cr = "RECV"
    BY <1>3, <2>1 DEF Accept, Kinds, Frees, rxTask, history
  <2>2. CASE cr # "RECV"
    BY <1>3, <2>2 DEF Accept, Kinds, Sends, rxTask, history
  <2> QED BY <2>1, <2>2
<1>4. CASE Copy \/ SendAccepted \/ AwaitSent \/ Acknowledge
  BY <1>4 DEF Copy, SendAccepted, AwaitSent, Acknowledge, Kinds, flow, chip,
     rxTask
<1>5. CASE IssueSend
  <2>1. cr = "none" /\ cr' = "SEND"
    BY <1>5 DEF IssueSend, Command, Quick, Commands, Fails
  <2> QED BY <1>5, <2>1 DEF IssueSend, Kinds, Sends, rxTask
<1> QED BY <1>1, <1>2, <1>3, <1>4, <1>5 DEF Chip, Transmission

(* So does the task of the W5500. *)
LEMMA TaskKinds ==
    ASSUME Commands, ~misread', Typed, ReceiveTask
    PROVE  Kinds
<1>0. "write" \notin faults /\ "lag" \notin faults
  BY DEF Commands
<1>a. ASSUME NEW more, Again(more)
      PROVE  task' \in Resting
  BY <1>a DEF Again, Goto, Resting
<1>b. ASSUME task' \in Resting, task \notin Passing,
             UNCHANGED <<cr, rx, rd, astray, frame, arrived, delivered>>
      PROVE  Kinds
  BY <1>b DEF Kinds, Rests
<1>1. CASE Wake
  BY <1>1, <1>b DEF Wake, Resting, Passing, chip, history
<1>2. CASE ReadStatus
  BY <1>2, <1>b DEF ReadStatus, Goto, Resting, Passing, chip, history
<1>3. CASE ClearStatus
  BY <1>3, <1>b DEF ClearStatus, Goto, Resting, Passing, history
<1>4. CASE ReadSize
  <2>1. task = "size" /\ UNCHANGED <<cr, rx, rd, astray, frame, arrived, delivered>>
    BY <1>4 DEF ReadSize, chip, history
  <2>2. CASE task' = "header"
    <3>1. cr = "none" /\ rx # <<>>
      BY <1>0, <1>4, <2>2, <1>a DEF ReadSize, Quick, Resting
    <3> QED BY <2>1, <2>2, <3>1 DEF Kinds, Looks
  <2>3. CASE task' # "header"
    <3>1. task' \in Resting
      BY <1>4, <2>3, <1>a DEF ReadSize, Resting
    <3> QED BY <2>1, <3>1, <1>b DEF Passing
  <2> QED BY <2>2, <2>3
<1>5. CASE ReadHeader
  <2>1. task = "header" /\ UNCHANGED <<cr, rx, rd, astray, frame, arrived, delivered>>
    BY <1>5 DEF ReadHeader, chip, history
  <2>2. task' \in {"payload", "flush"} \/ task' \in Resting
    BY <1>5, <1>a DEF ReadHeader, BadFrame, Goto
  <2> QED BY <2>1, <2>2, <1>b DEF Kinds, Looks, Passing
<1>6. CASE ReadPayload
  <2>1. task = "payload" /\ UNCHANGED <<cr, rx, arrived, delivered>>
    BY <1>6 DEF ReadPayload, history
  <2>2. \/ task' = "recv" /\ frame' = Behind /\ rd' = Advanced /\ astray' = Stray
        \/ task' \in Resting /\ UNCHANGED <<frame, rd, astray>>
    BY <1>6, <1>a DEF ReadPayload, Goto
  <2>3. CASE task' \in Resting /\ UNCHANGED <<frame, rd, astray>>
    BY <2>1, <2>3, <1>b DEF Passing
  <2> QED BY <2>1, <2>2, <2>3 DEF Kinds, Reads
<1>7. CASE Flush
  <2>1. task = "flush" /\ UNCHANGED <<cr, rx, frame, arrived, delivered>>
    BY <1>7 DEF Flush, FlushWhole, FlushAstray
  <2>2. \/ task' = "drop" /\ rd' = Advanced /\ astray' = Stray
        \/ task' \in Resting /\ UNCHANGED <<rd, astray>>
    BY <1>7, <1>a DEF Flush, FlushWhole, FlushAstray
  <2>3. CASE task' \in Resting /\ UNCHANGED <<rd, astray>>
    BY <2>1, <2>3, <1>b DEF Passing
  <2> QED BY <2>1, <2>2, <2>3 DEF Kinds, Reads
<1>8. CASE IssueReceive \/ IssueDrop
  <2>1. ASSUME NEW at, NEW then, IssueRecv(at, then)
        PROVE  /\ cr = "none" /\ cr' = "RECV" /\ task = at /\ task' = then
               /\ UNCHANGED <<rx, rd, astray, frame, arrived, delivered>>
    BY <1>0, <2>1 DEF IssueRecv, Fails, Command, Quick, Goto, history
  <2>2. CASE IssueReceive
    <3>1. IssueRecv("recv", "recvdone")
      BY <2>2 DEF IssueReceive
    <3>2. /\ cr = "none" /\ cr' = "RECV" /\ task = "recv" /\ task' = "recvdone"
          /\ UNCHANGED <<rx, rd, astray, frame, arrived, delivered>>
      BY <2>1, <3>1
    <3>3. Tells
      BY <3>2 DEF Tells
    <3> QED BY <3>3 DEF Kinds
  <2>3. CASE IssueDrop
    <3>1. IssueRecv("drop", "dropdone")
      BY <2>3 DEF IssueDrop
    <3>2. /\ cr = "none" /\ cr' = "RECV" /\ task = "drop" /\ task' = "dropdone"
          /\ UNCHANGED <<rx, rd, astray, frame, arrived, delivered>>
      BY <2>1, <3>1
    <3>3. Tells
      BY <3>2 DEF Tells
    <3> QED BY <3>3 DEF Kinds
  <2> QED BY <1>8, <2>2, <2>3
<1>9. CASE FrameReceived \/ FrameDropped
  <2>1. ASSUME NEW at, NEW passed, RecvAccepted(at, passed)
        PROVE  /\ task = at /\ task' \in Resting
               /\ UNCHANGED <<cr, rx, rd, astray, frame, arrived>>
               /\ \/ cr = "none" /\ delivered' = delivered \o passed
                  \/ delivered' = delivered
    BY <2>1, <1>a DEF RecvAccepted, chip
  <2>2. delivered \o <<>> = delivered
    BY DEF Typed
  <2>3. delivered \o <<frame>> = Append(delivered, frame)
    BY DEF Typed
  <2>4. CASE FrameDropped
    <3>1. RecvAccepted("dropdone", <<>>)
      BY <2>4 DEF FrameDropped
    <3>2. /\ task = "dropdone" /\ task' \in Resting
          /\ UNCHANGED <<cr, rx, rd, astray, frame, arrived>>
          /\ delivered' = delivered \o <<>> \/ delivered' = delivered
      BY <2>1, <3>1
    <3>3. UNCHANGED delivered
      BY <2>2, <3>2
    <3> QED BY <3>2, <3>3, <1>b DEF Passing
  <2>5. CASE FrameReceived
    <3>1. /\ task = "recvdone" /\ task' \in Resting
          /\ UNCHANGED <<cr, rx, rd, astray, frame, arrived>>
          /\ \/ cr = "none" /\ delivered' = Append(delivered, frame)
             \/ delivered' = delivered
      BY <2>1, <2>3, <2>5 DEF FrameReceived
    <3>2. Rests(TRUE) \/ Rests(FALSE)
      BY <3>1 DEF Rests, Passing
    <3> QED BY <3>2 DEF Kinds
  <2> QED BY <1>9, <2>4, <2>5
<1> QED BY <1>1, <1>2, <1>3, <1>4, <1>5, <1>6, <1>7, <1>8, <1>9
    DEF ReceiveTask

(* What a board suffers is fixed, and a flush that has gone by a corrupted  *)
(* header stays remembered.                                                 *)
LEMMA FaultsStay ==
    ASSUME [BoardNext]_boardVars
    PROVE  UNCHANGED faults /\ (misread => misread')
<1>1. CASE UNCHANGED boardVars
  BY <1>1 DEF boardVars, vars, history
<1>2. CASE Arrive \/ Flap \/ PollTimer \/ Chip \/ Transmit \/ Transmission
  <2>1. UNCHANGED <<faults, misread>>
    BY <1>2 DEF Arrive, Flap, PollTimer, Chip, Accept, Sent, Transmit,
       Transmission, Copy, IssueSend, SendAccepted, AwaitSent, Acknowledge,
       history
  <2> QED BY <2>1, Zenon
<1>3. CASE ReceiveTask /\ ~Flush
  <2>1. UNCHANGED <<faults, misread>>
    BY <1>3 DEF ReceiveTask, Wake, ReadStatus, ClearStatus, ReadSize,
       ReadHeader, ReadPayload, IssueReceive, IssueRecv, FrameReceived,
       RecvAccepted, IssueDrop, FrameDropped, history
  <2> QED BY <2>1, Zenon
<1>4. CASE HeaderW6300
  BY <1>4 DEF HeaderW6300, history
<1>5. CASE Flush \/ FlushW6300
  <2>1. UNCHANGED faults
    BY <1>5 DEF Flush, FlushW6300
  <2>2. UNCHANGED misread \/ misread'
    BY <1>5, Zenon DEF Flush, FlushW6300, FlushWhole, FlushAstray, FlushRefused
  <2>3. CASE UNCHANGED misread
    BY <2>1, <2>3, Zenon
  <2>4. CASE misread'
    BY <2>1, <2>4, Zenon
  <2> QED BY <2>2, <2>3, <2>4, Zenon
<1> QED BY <1>1, <1>2, <1>3, <1>4, <1>5
    DEF BoardNext, W5500, W6300, Next, NextW6300, ReceiveTask,
    ReceiveTaskW6300, StatusW6300, ReceivedW6300, PayloadW6300,
    CommandW6300, Transmission, TransmitW6300, SentW6300

(* So does every step of either board. *)
LEMMA EveryStep ==
    ASSUME Commands, ~misread', Typed, [BoardNext]_boardVars
    PROVE  Kinds /\ Commands'
<1>0. Commands'
  BY FaultsStay DEF Commands
<1>1. CASE UNCHANGED boardVars
  BY <1>0, <1>1 DEF boardVars, vars, chip, rxTask, history, Kinds, flow
<1>2. CASE Arrive \/ Flap \/ PollTimer \/ Chip \/ Transmit \/ Transmission
  BY <1>0, <1>2, OthersKinds
<1>3. CASE ReceiveTask
  BY <1>0, <1>3, TaskKinds
<1>4. CASE HeaderW6300
  <2>1. task = "header" /\ task' \in {"payload", "flush"}
    BY <1>4 DEF HeaderW6300, Refused, Goto
  <2>2. UNCHANGED <<cr, rx, rd, astray, frame, arrived, delivered>>
    BY <1>4 DEF HeaderW6300, chip, history
  <2> QED BY <1>0, <2>1, <2>2 DEF Kinds, Looks
<1>5. CASE FlushW6300
  <2>1. task = "flush" /\ UNCHANGED <<cr, rx, frame, arrived, delivered>>
    BY <1>5 DEF FlushW6300, FlushWhole, FlushAstray, FlushRefused
  <2>2. CASE task' = "drop" /\ rd' = Advanced /\ astray' = Stray
    BY <1>0, <2>1, <2>2 DEF Kinds, Reads
  <2>3. CASE task' \in Resting /\ UNCHANGED <<rd, astray>>
    <3>1. Rests(FALSE)
      BY <2>1, <2>3 DEF Rests, Passing
    <3> QED BY <1>0, <3>1 DEF Kinds
  <2>4. ASSUME NEW more, Again(more)
        PROVE  task' \in Resting
    BY <2>4 DEF Again, Goto, Resting
  <2> QED BY <1>5, <2>2, <2>3, <2>4
      DEF FlushW6300, FlushWhole, FlushAstray, FlushRefused
<1> QED BY <1>1, <1>2, <1>3, <1>4, <1>5
    DEF BoardNext, W5500, W6300, Next, NextW6300, ReceiveTask,
     ReceiveTaskW6300, StatusW6300, ReceivedW6300, PayloadW6300,
     CommandW6300, Transmission, TransmitW6300, SentW6300

-----------------------------------------------------------------------------
(* Every kind keeps the invariant. *)

(* The frame a resting task passes on goes behind those passed on before,   *)
(* before those in the chip.                                                *)
LEMMA RestsStep ==
    ASSUME Good, NEW d \in BOOLEAN, Rests(d)
    PROVE  Good'
<1>1. CASE ~d
  BY <1>1 DEF Good, Rests, Typed, Place, Order, Held, Arrived, Increasing,
     Below, Resting, Passing, Looking, Waiting
<1>2. CASE d
  <2>1. /\ task = "recvdone" /\ cr = "none" /\ task' \in Resting
        /\ delivered' = Append(delivered, frame)
        /\ UNCHANGED <<cr, rx, rd, astray, frame, arrived>>
    BY <1>2 DEF Rests
  <2>2. /\ frame \in 1 .. arrived /\ Below(delivered, <<frame>>)
        /\ Below(<<frame>>, rx) /\ rd = 0
    BY <2>1 DEF Good, Place, Held, Passing
  <2>3. delivered \in Seq(Nat) /\ rx \in Seq(Nat) /\ frame \in Nat
    BY DEF Good, Typed
  <2>4. /\ delivered' \in Seq(Nat)
        /\ DOMAIN delivered' = 1 .. Len(delivered) + 1
        /\ DOMAIN delivered = 1 .. Len(delivered) /\ Len(delivered) \in Nat
        /\ \A i \in 1 .. Len(delivered) : delivered'[i] = delivered[i]
        /\ delivered'[Len(delivered) + 1] = frame
    BY <2>1, <2>3
  <2>5. \A i \in 1 .. Len(delivered) : delivered[i] < frame
    <3>1. DOMAIN <<frame>> = {1} /\ <<frame>>[1] = frame
      OBVIOUS
    <3> QED BY <2>2, <2>4, <3>1 DEF Below
  <2>6. \A j \in DOMAIN rx : frame < rx[j]
    <3>1. DOMAIN <<frame>> = {1} /\ <<frame>>[1] = frame
      OBVIOUS
    <3> QED BY <2>2, <3>1 DEF Below
  <2>7. Typed' /\ Place'
    BY <2>1, <2>2, <2>4 DEF Good, Typed, Place, Resting, Passing, Looking,
       Waiting
  <2>8. Arrived(rx)' /\ Increasing(rx)'
    BY <2>1 DEF Good, Order, Arrived, Increasing
  <2>9. Arrived(delivered)'
    BY <2>1, <2>2, <2>4 DEF Good, Order, Arrived
  <2>10. Increasing(delivered)'
    <3>1. \A i, j \in 1 .. Len(delivered) : i < j => delivered[i] < delivered[j]
      BY <2>4 DEF Good, Order, Increasing
    <3> QED BY <2>4, <2>5, <3>1 DEF Increasing
  <2>11. Below(delivered, rx)'
    <3>1. \A i \in 1 .. Len(delivered), j \in DOMAIN rx : delivered[i] < rx[j]
      BY <2>4 DEF Good, Order, Below
    <3> QED BY <2>1, <2>4, <2>6, <3>1 DEF Below
  <2>12. Held'
    BY <2>1 DEF Held, Resting
  <2> QED BY <2>7, <2>8, <2>9, <2>10, <2>11, <2>12 DEF Good, Order
<1> QED BY <1>1, <1>2

(* Looking for a frame disturbs nothing. *)
LEMMA LooksStep ==
    ASSUME Good, Looks
    PROVE  Good'
<1>1. Typed' /\ Place' /\ Held'
  BY DEF Good, Looks, Typed, Place, Held, Resting, Passing, Looking, Waiting
<1>2. Order'
  BY DEF Good, Looks, Order, Arrived, Increasing, Below
<1> QED BY <1>1, <1>2 DEF Good

(* The frame that is read is the chip's first one. *)
LEMMA ReadsStep ==
    ASSUME Good, Reads
    PROVE  Good'
<1>1. /\ rd = 0 /\ cr # "RECV" /\ rx # <<>> /\ astray = FALSE
      /\ task' \in Passing
      /\ UNCHANGED <<cr, rx, arrived, delivered>>
  BY DEF Good, Reads, Place, Looking, Passing
<1>2. rx \in Seq(Nat) /\ Len(rx) \in Nat /\ Len(rx) > 0 /\ 1 \in DOMAIN rx
      /\ DOMAIN rx = 1 .. Len(rx)
  BY <1>1 DEF Good, Typed
<1>3. ~Stray /\ Stray \in BOOLEAN
  BY <1>1, <1>2 DEF Stray
<1>4. rd' = 1 /\ astray' = FALSE /\ Behind = rx[1]
  BY <1>1, <1>3 DEF Reads, Advanced, Behind
<1>5. Order'
  BY <1>1 DEF Good, Order, Arrived, Increasing, Below
<1>6. Place'
  BY <1>1, <1>4 DEF Place, Passing, Looking
<1>7. rx[1] \in Nat
  BY <1>2
<1>8. Typed'
  BY <1>1, <1>4, <1>7 DEF Good, Reads, Typed, Passing
<1>9. ASSUME task' = "recv"
      PROVE  frame' = rx[1] /\ rx[1] \in 1 .. arrived
             /\ Below(delivered, <<rx[1]>>)
  <2>1. frame' = rx[1]
    BY <1>4, <1>9 DEF Reads
  <2>2. \A i \in DOMAIN delivered : delivered[i] < rx[1]
    BY <1>2 DEF Good, Order, Below
  <2>3. DOMAIN <<rx[1]>> = {1} /\ <<rx[1]>>[1] = rx[1]
    OBVIOUS
  <2>4. Below(delivered, <<rx[1]>>)
    BY <2>2, <2>3 DEF Below
  <2>5. rx[1] \in 1 .. arrived
    BY <1>2 DEF Good, Order, Arrived
  <2> QED BY <2>1, <2>4, <2>5
<1>10. Held'
  BY <1>1, <1>4, <1>9 DEF Held, Passing, Below
<1> QED BY <1>5, <1>6, <1>8, <1>10 DEF Good

(* RECV is written while RX_RD is behind the frame that was read. *)
LEMMA TellsStep ==
    ASSUME Good, Tells
    PROVE  Good'
<1>1. Typed' /\ Place' /\ Held'
  BY DEF Good, Tells, Typed, Place, Held, Resting, Passing, Looking, Waiting,
     Below
<1>2. Order'
  BY DEF Good, Tells, Order, Arrived, Increasing, Below
<1> QED BY <1>1, <1>2 DEF Good

(* The chip frees the one frame that was read. *)
LEMMA FreesStep ==
    ASSUME Good, Frees
    PROVE  Good'
<1>1. /\ cr = "RECV" /\ cr' = "none" /\ rd' = 0 /\ rd = 1 /\ rx # <<>>
      /\ UNCHANGED <<astray, task, frame, arrived, delivered>>
      /\ rx' = SubSeq(rx, 2, Len(rx))
      /\ task \notin Looking \cup Passing
  BY DEF Good, Place, Frees
<1>2. rx \in Seq(Nat) /\ Len(rx) \in Nat /\ Len(rx) >= 1
      /\ DOMAIN rx = 1 .. Len(rx)
  BY <1>1 DEF Good, Typed
<1>3. /\ rx' \in Seq(Nat) /\ DOMAIN rx' = 1 .. Len(rx) - 1
      /\ \A i \in 1 .. Len(rx) - 1 : rx'[i] = rx[i + 1]
  BY <1>1, <1>2
<1>4. Typed' /\ Place'
  BY <1>1, <1>3 DEF Good, Typed, Place
<1>5. \A i \in DOMAIN rx' : i + 1 \in DOMAIN rx /\ rx'[i] = rx[i + 1]
  BY <1>2, <1>3
<1>6. Arrived(rx)' /\ Arrived(delivered)'
  BY <1>1, <1>5 DEF Good, Order, Arrived
<1>7. Increasing(rx)'
  BY <1>2, <1>3, <1>5 DEF Good, Order, Increasing
<1>8. Increasing(delivered)' /\ Below(delivered, rx)'
  BY <1>1, <1>5 DEF Good, Order, Increasing, Below
<1>9. ASSUME task = "recvdone"
      PROVE  Below(<<frame>>, rx')
  <2>1. frame = rx[1]
    BY <1>1, <1>9 DEF Good, Held
  <2>2. \A i \in DOMAIN rx' : rx[1] < rx[i + 1]
    <3>1. \A i, j \in DOMAIN rx : i < j => rx[i] < rx[j]
      BY DEF Good, Order, Increasing
    <3>2. \A i \in DOMAIN rx' : i \in Nat /\ 1 < i + 1 /\ i + 1 \in DOMAIN rx
      BY <1>2, <1>3
    <3>3. 1 \in DOMAIN rx
      BY <1>2
    <3> QED BY <3>1, <3>2, <3>3
  <2>3. DOMAIN <<frame>> = {1} /\ <<frame>>[1] = frame
    OBVIOUS
  <2> QED BY <1>5, <2>1, <2>2, <2>3 DEF Below
<1>10. Held'
  BY <1>1, <1>9 DEF Good, Held, Passing, Below
<1> QED BY <1>4, <1>6, <1>7, <1>8, <1>10 DEF Good, Order

(* What transmit() writes to the command register is not in the way. *)
LEMMA SendsStep ==
    ASSUME Good, Sends
    PROVE  Good'
<1>1. Typed' /\ Place' /\ Held'
  BY DEF Good, Sends, Typed, Place, Held, Below
<1>2. Order'
  BY DEF Good, Sends, Order, Arrived, Increasing, Below
<1> QED BY <1>1, <1>2 DEF Good

(* A frame that arrives is the last one. *)
LEMMA ComesStep ==
    ASSUME Good, Comes
    PROVE  Good'
<1>1. rx \in Seq(Nat) /\ arrived \in Nat /\ delivered \in Seq(Nat)
      /\ Len(rx) \in Nat /\ DOMAIN rx = 1 .. Len(rx)
  BY DEF Good, Typed
<1>2. /\ rx' \in Seq(Nat) /\ DOMAIN rx' = 1 .. Len(rx) + 1
      /\ \A i \in 1 .. Len(rx) : rx'[i] = rx[i]
      /\ rx'[Len(rx) + 1] = arrived + 1
      /\ rx' # <<>>
      /\ arrived' = arrived + 1
      /\ UNCHANGED <<cr, rd, astray, task, frame, delivered>>
  BY <1>1 DEF Comes
<1>3. Typed' /\ Place'
  BY <1>1, <1>2 DEF Good, Typed, Place
<1>4. \A i \in 1 .. Len(rx) : rx[i] \in 1 .. arrived
  BY <1>1 DEF Good, Order, Arrived
<1>5. \A i \in DOMAIN delivered : delivered[i] \in 1 .. arrived
  BY DEF Good, Order, Arrived
<1>6. Arrived(rx)' /\ Arrived(delivered)'
  <2>1. \A n \in 1 .. arrived : n \in 1 .. arrived'
    BY <1>1, <1>2
  <2>2. arrived + 1 \in 1 .. arrived'
    BY <1>1, <1>2
  <2>3. \A i \in DOMAIN rx' : i \in 1 .. Len(rx) \/ i = Len(rx) + 1
    BY <1>1, <1>2
  <2>4. \A i \in DOMAIN rx' : rx'[i] \in 1 .. arrived'
    BY <1>2, <1>4, <2>1, <2>2, <2>3
  <2> QED BY <1>2, <1>5, <2>1, <2>4 DEF Arrived
<1>7. Increasing(rx)'
  <2>1. \A i, j \in 1 .. Len(rx) : i < j => rx[i] < rx[j]
    BY <1>1 DEF Good, Order, Increasing
  <2>2. \A i \in 1 .. Len(rx) : rx[i] < arrived + 1
    BY <1>1, <1>4
  <2>3. SUFFICES ASSUME NEW i \in 1 .. Len(rx) + 1, NEW j \in 1 .. Len(rx) + 1,
                        i < j
                 PROVE  rx'[i] < rx'[j]
    BY <1>2 DEF Increasing
  <2>4. i \in 1 .. Len(rx) /\ (j \in 1 .. Len(rx) \/ j = Len(rx) + 1)
    BY <1>1, <2>3
  <2> QED BY <1>2, <2>1, <2>2, <2>3, <2>4
<1>8. Increasing(delivered)'
  BY <1>2 DEF Good, Order, Increasing
<1>9. Below(delivered, rx)'
  <2>1. \A i \in DOMAIN delivered, j \in 1 .. Len(rx) : delivered[i] < rx[j]
    BY <1>1 DEF Good, Order, Below
  <2>2. \A i \in DOMAIN delivered : delivered[i] < arrived + 1
    BY <1>1, <1>5
  <2>3. SUFFICES ASSUME NEW i \in DOMAIN delivered, NEW j \in 1 .. Len(rx) + 1
                 PROVE  delivered[i] < rx'[j]
    BY <1>2 DEF Below
  <2>4. j \in 1 .. Len(rx) \/ j = Len(rx) + 1
    BY <1>1
  <2> QED BY <1>2, <2>1, <2>2, <2>4
<1>10. Held'
  <2>1. SUFFICES ASSUME task \in {"recv", "recvdone"}
                 PROVE  /\ frame \in 1 .. arrived' /\ Below(delivered, <<frame>>)
                        /\ IF rd = 1 THEN frame = rx'[1] ELSE Below(<<frame>>, rx')
    BY <1>2 DEF Held, Below
  <2>2. /\ frame \in 1 .. arrived /\ Below(delivered, <<frame>>)
        /\ IF rd = 1 THEN frame = rx[1] ELSE Below(<<frame>>, rx)
    BY <2>1 DEF Good, Held
  <2>3. frame \in 1 .. arrived'
    BY <1>1, <1>2, <2>2
  <2>4. CASE rd = 1
    <3>1. rx # <<>>
      BY <2>4 DEF Good, Place, Passing
    <3>2. rx'[1] = rx[1]
      BY <1>1, <1>2, <3>1
    <3> QED BY <2>2, <2>3, <2>4, <3>2
  <2>5. CASE rd # 1
    <3>1. DOMAIN <<frame>> = {1} /\ <<frame>>[1] = frame
      OBVIOUS
    <3>2. \A j \in 1 .. Len(rx) : frame < rx[j]
      BY <1>1, <2>2, <2>5, <3>1 DEF Below
    <3>3. frame < arrived + 1
      BY <1>1, <2>2
    <3>4. Below(<<frame>>, rx')
      BY <1>1, <1>2, <3>1, <3>2, <3>3 DEF Below
    <3> QED BY <2>2, <2>3, <2>5, <3>4
  <2> QED BY <2>4, <2>5
<1> QED BY <1>3, <1>6, <1>7, <1>8, <1>9, <1>10 DEF Good, Order

(* As long as no command gets lost and no flush has gone by a corrupted     *)
(* header, the frames the stack gets are frames of the network, each once   *)
(* and in the order of their arrival, on a W5500 and on a W6300, whatever   *)
(* else fails, however often, and however large the chip's memory is.       *)
THEOREM StackGetsFramesInOrder == BoardSpec => []FramesInOrder
<1>1. BoardInit => FlowInv
  <2>1. ASSUME Init
        PROVE  Good
    <3>1. /\ cr = "none" /\ rx = <<>> /\ rd = 0 /\ astray = FALSE
          /\ task = "wait" /\ frame = 0 /\ arrived = 0 /\ delivered = <<>>
      BY <2>1 DEF Init, Phantom
    <3> QED BY <3>1 DEF Good, Typed, Place, Order, Held, Arrived, Increasing,
           Below, Resting, Passing, Looking
  <2> QED BY <2>1 DEF BoardInit, FlowInv
<1>2. FlowInv /\ [BoardNext]_boardVars => FlowInv'
  <2>1. ASSUME Commands, ~misread', Good, [BoardNext]_boardVars
        PROVE  Good'
    <3>1. Kinds
      BY <2>1, EveryStep DEF Good
    <3>2. CASE UNCHANGED flow
      BY <2>1, <3>2 DEF flow, Good, Typed, Place, Order, Held, Arrived,
         Increasing, Below
    <3> QED BY <2>1, <3>1, <3>2, RestsStep, LooksStep, ReadsStep, TellsStep,
           FreesStep, SendsStep, ComesStep DEF Kinds
  <2>2. ASSUME [BoardNext]_boardVars, Commands', ~misread'
        PROVE  Commands /\ ~misread
    <3>1. UNCHANGED faults /\ (misread => misread')
      BY <2>2, FaultsStay
    <3> QED BY <2>2, <3>1 DEF Commands
  <2> QED BY <2>1, <2>2 DEF FlowInv
<1>3. FlowInv => FramesInOrder
  BY DEF FlowInv, Good, Order, Arrived, Increasing, FramesInOrder
<1> QED BY <1>1, <1>2, <1>3, PTL DEF BoardSpec

-----------------------------------------------------------------------------
(* What transmit() returns *)

Steady == faults \subseteq {"memory", "header"}

(* Where the frame of a call is: not yet written, in TX memory, on its way  *)
(* out, or on the wire with Sn_IR.SENDOK to say so.                         *)
Before  == wr = <<>> /\ cr # "SEND" /\ sending = <<>> /\ "SEND" \notin ir
Written == wr = <<offered>> /\ sending = <<>> /\ "SEND" \notin ir
Leaving == wr = <<>> /\ cr # "SEND" /\ sending = <<offered>> /\ "SEND" \notin ir
Gone    == wr = <<>> /\ cr # "SEND" /\ sending = <<>> /\ "SEND" \in ir

(* One frame at a time, and no bit of Sn_IR left from the one before it *)
OneFrame ==
    /\ up = TRUE /\ call \in {"none", "copy", "send", "sent", "done", "ack"}
    /\ call \in {"none", "copy"} => Before
    /\ call = "send" => Written /\ cr # "SEND"
    /\ call = "sent" => (Written /\ cr = "SEND") \/ Leaving \/ Gone
    /\ call = "done" => Leaving \/ Gone
    /\ call = "ack" => Gone

Counted ==
    /\ offered \in Nat /\ told \in Seq(BOOLEAN) /\ wire \in Seq(Seq(Nat))
    /\ call # "none" => offered > 0
    /\ Len(told) = IF call = "none" THEN offered ELSE offered - 1
    /\ Len(wire) = IF call = "none" \/ Gone THEN offered ELSE offered - 1
    /\ \A i \in DOMAIN told : told[i] = TRUE
    /\ \A i \in DOMAIN wire : wire[i] = <<i>>

TellInv == Steady => OneFrame /\ Counted

(* A step of the receive task, of the network or of RECV in the chip leaves *)
(* what transmit() waits for alone.                                         *)
Aside ==
    /\ UNCHANGED <<up, wr, sending, call, offered, wire, told>>
    /\ "SEND" \in ir' <=> "SEND" \in ir
    /\ cr' = "SEND" <=> cr = "SEND"

Sending ==
    \/ Accept /\ cr = "SEND"
    \/ Sent \/ Transmit \/ Transmission

(* Every step of either board is one of the two. *)
LEMMA SendersKinds ==
    ASSUME Steady, [BoardNext]_boardVars
    PROVE  Aside \/ Sending
<1>0. \A f \in {"read", "write", "slow", "flap", "lag"} : f \notin faults
  BY DEF Steady
<1>1. CASE UNCHANGED boardVars
  BY <1>1 DEF boardVars, vars, chip, history, Aside
<1>2. CASE Arrive \/ PollTimer
  BY <1>2 DEF Arrive, PollTimer, chip, history, Aside
<1>3. CASE Flap
  BY <1>0, <1>3 DEF Flap
<1>4. CASE Accept /\ cr # "SEND"
  <2>1. /\ cr = "RECV" /\ cr' = "none"
        /\ UNCHANGED <<up, ir, wr, sending, call, offered, wire, told>>
    BY <1>4 DEF Accept, history
  <2> QED BY <2>1 DEF Aside
<1>5. CASE Wake \/ ReadStatus \/ ReadSize \/ ReadHeader \/ ReadPayload \/ Flush
           \/ FrameReceived \/ FrameDropped \/ HeaderW6300 \/ FlushW6300
  <2>1. UNCHANGED <<up, cr, ir, wr, sending, call, offered, wire, told>>
    BY <1>5 DEF Wake, ReadStatus, ReadSize, ReadHeader, ReadPayload, Flush,
       FrameReceived, FrameDropped, RecvAccepted, HeaderW6300, FlushW6300,
       chip, history
  <2> QED BY <2>1 DEF Aside
<1>6. CASE ClearStatus
  <2>1. ir' = ir \ {"RECV"}
    BY <1>0, <1>6 DEF ClearStatus, Cleared, Fails
  <2>2. UNCHANGED <<up, cr, wr, sending, call, offered, wire, told>>
    BY <1>6 DEF ClearStatus, history
  <2> QED BY <2>1, <2>2 DEF Aside
<1>7. CASE IssueReceive \/ IssueDrop
  <2>1. ASSUME NEW at, NEW then, IssueRecv(at, then)
        PROVE  Aside
    <3>1. cr = "none" /\ cr' = "RECV"
      BY <1>0, <2>1 DEF IssueRecv, Fails, Command, Quick
    <3>2. UNCHANGED <<up, ir, wr, sending, call, offered, wire, told>>
      BY <2>1 DEF IssueRecv, history
    <3> QED BY <3>1, <3>2 DEF Aside
  <2> QED BY <1>7, <2>1 DEF IssueReceive, IssueDrop
<1>8. CASE Sending
  BY <1>8
<1> QED BY <1>1, <1>2, <1>3, <1>4, <1>5, <1>6, <1>7, <1>8
    DEF BoardNext, W5500, W6300, Next, NextW6300, Chip, ReceiveTask,
     ReceiveTaskW6300, StatusW6300, ReceivedW6300, PayloadW6300,
     CommandW6300, Transmission, TransmitW6300, SentW6300, Sending

(* The others leave the frame of the call where it is. *)
LEMMA AsideStep ==
    ASSUME OneFrame, Counted, Aside
    PROVE  OneFrame' /\ Counted'
<1>1. /\ Before' <=> Before
      /\ Written' <=> Written
      /\ Leaving' <=> Leaving
      /\ Gone' <=> Gone
  BY DEF Aside, Before, Written, Leaving, Gone
<1>2. OneFrame'
  BY <1>1 DEF Aside, OneFrame
<1>3. Counted'
  BY <1>1 DEF Aside, Counted
<1> QED BY <1>2, <1>3

(* What Append makes of a sequence *)
LEMMA Appended ==
    ASSUME NEW S, NEW s \in Seq(S), NEW e \in S
    PROVE  /\ Append(s, e) \in Seq(S) /\ Len(Append(s, e)) = Len(s) + 1
           /\ DOMAIN Append(s, e) = 1 .. Len(s) + 1
           /\ \A i \in 1 .. Len(s) : Append(s, e)[i] = s[i]
           /\ Append(s, e)[Len(s) + 1] = e
  OBVIOUS

(* A call that returns TRUE has its frame on the wire, and nothing but the  *)
(* last step of a call returns.                                             *)
LEMMA SendingStep ==
    ASSUME Steady, TxRoom \in Nat \ {0}, OneFrame, Counted, Sending
    PROVE  OneFrame' /\ Counted'
<1>0. \A f \in {"read", "write", "slow", "flap", "lag"} : f \notin faults
  BY DEF Steady
<1>1. /\ offered \in Nat /\ told \in Seq(BOOLEAN) /\ wire \in Seq(Seq(Nat))
      /\ Len(told) \in Nat /\ Len(wire) \in Nat
      /\ DOMAIN told = 1 .. Len(told) /\ DOMAIN wire = 1 .. Len(wire)
  BY DEF Counted
<1>2. CASE Accept /\ cr = "SEND"
  <2>1. /\ cr' = "none" /\ sending' = sending \o wr /\ wr' = <<>>
        /\ UNCHANGED <<up, ir, call, offered, wire, told>>
    BY <1>2 DEF Accept, history
  <2>2. call = "sent" /\ Written
    BY <1>2 DEF OneFrame, Before, Leaving, Gone
  <2>3. sending' = <<offered>>
    <3>1. <<>> \o <<offered>> = <<offered>>
      BY <1>1
    <3> QED BY <2>1, <2>2, <3>1 DEF Written
  <2>4. Leaving' /\ ~Gone' /\ ~Gone
    BY <2>1, <2>2, <2>3 DEF Leaving, Written, Gone
  <2>5. OneFrame'
    BY <2>1, <2>2, <2>4 DEF OneFrame
  <2>6. Counted'
    BY <2>1, <2>4 DEF Counted
  <2> QED BY <2>5, <2>6
<1>3. CASE Sent
  <2>1. /\ sending # <<>> /\ wire' = Append(wire, sending) /\ sending' = <<>>
        /\ ir' = ir \cup {"SEND"}
        /\ UNCHANGED <<up, cr, wr, call, offered, told>>
    BY <1>3 DEF Sent
  <2>2. call \in {"sent", "done"} /\ Leaving
    BY <2>1 DEF OneFrame, Before, Written, Gone
  <2>3. Gone' /\ ~Gone /\ sending = <<offered>>
    BY <2>1, <2>2 DEF Leaving, Gone
  <2>4. OneFrame'
    BY <2>1, <2>2, <2>3 DEF OneFrame
  <2>5. Len(wire) = offered - 1
    BY <2>2, <2>3 DEF Counted
  <2>6. <<offered>> \in Seq(Nat)
    BY <1>1
  <2>7. /\ wire' \in Seq(Seq(Nat)) /\ Len(wire') = offered
        /\ DOMAIN wire' = 1 .. Len(wire) + 1
        /\ \A i \in 1 .. Len(wire) : wire'[i] = wire[i]
        /\ wire'[Len(wire) + 1] = <<offered>>
    BY <1>1, <2>1, <2>3, <2>5, <2>6
  <2>8. \A i \in DOMAIN wire' : wire'[i] = <<i>>
    <3>1. \A i \in 1 .. Len(wire) : wire[i] = <<i>>
      BY <1>1 DEF Counted
    <3>2. \A i \in DOMAIN wire' : i \in 1 .. Len(wire) \/ i = Len(wire) + 1
      BY <1>1, <2>7
    <3>3. Len(wire) + 1 = offered
      BY <1>1, <2>5
    <3> QED BY <2>7, <3>1, <3>2, <3>3
  <2>9. Counted'
    BY <2>1, <2>2, <2>3, <2>7, <2>8 DEF Counted
  <2> QED BY <2>4, <2>9
<1>4. CASE Transmit
  <2>1. /\ call = "none" /\ call' = "copy" /\ offered' = offered + 1
        /\ UNCHANGED <<up, cr, ir, wr, sending, wire, told>>
    BY <1>4 DEF Transmit, CallAt, chip
  <2>2. Before' /\ ~Gone'
    BY <2>1 DEF OneFrame, Before, Gone
  <2>3. OneFrame'
    BY <2>1, <2>2 DEF OneFrame
  <2>4. Counted'
    BY <2>1, <2>2 DEF Counted
  <2> QED BY <2>3, <2>4
<1>5. CASE Copy
  <2>1. wr = <<>> /\ sending = <<>> /\ Before /\ call = "copy"
    BY <1>5 DEF Copy, OneFrame, Before
  <2>2. TxFree = TxRoom
    BY <2>1 DEF TxFree
  <2>3. TxFree > 0 /\ TxFree # 0
    BY <2>2
  <2>4. /\ wr' = Append(wr, offered) /\ call' = "send"
        /\ UNCHANGED <<up, cr, ir, sending, offered, wire, told>>
    BY <1>0, <1>5, <2>3 DEF Copy, Fails, CallAt, Frame
  <2>5. wr' = <<offered>>
    BY <1>1, <2>1, <2>4
  <2>6. Written' /\ cr' # "SEND" /\ ~Gone' /\ ~Gone
    BY <2>1, <2>4, <2>5 DEF Before, Written, Gone
  <2>7. OneFrame'
    BY <2>4, <2>6 DEF OneFrame
  <2>8. Counted'
    BY <2>1, <2>4, <2>6 DEF Counted
  <2> QED BY <2>7, <2>8
<1>6. CASE IssueSend
  <2>1. /\ call = "send" /\ call' = "sent" /\ cr' = "SEND"
        /\ UNCHANGED <<up, ir, wr, sending, offered, wire, told>>
    BY <1>0, <1>6 DEF IssueSend, Fails, CallAt, Command
  <2>2. Written' /\ ~Gone' /\ ~Gone
    BY <2>1 DEF OneFrame, Written, Gone
  <2>3. OneFrame'
    BY <2>1, <2>2 DEF OneFrame
  <2>4. Counted'
    BY <2>1, <2>2 DEF Counted
  <2> QED BY <2>3, <2>4
<1>7. CASE SendAccepted \/ (AwaitSent /\ call' # "none")
  <2>1. /\ \/ call = "sent" /\ call' = "done" /\ cr = "none"
           \/ call = "done" /\ call' = "ack" /\ "SEND" \in ir
        /\ UNCHANGED <<up, cr, ir, wr, sending, offered, wire, told>>
    <3>1. CASE SendAccepted
      BY <1>0, <3>1 DEF SendAccepted, Fails, CallAt, chip
    <3>2. CASE AwaitSent /\ call' # "none"
      BY <1>0, <3>2 DEF AwaitSent, Fails, CallAt, Return, chip
    <3> QED BY <1>7, <3>1, <3>2
  <2>2. /\ Leaving' <=> Leaving
        /\ Gone' <=> Gone
    BY <2>1 DEF Leaving, Gone
  <2>3. OneFrame'
    BY <2>1, <2>2 DEF OneFrame, Leaving
  <2>4. Counted'
    BY <2>1, <2>2 DEF Counted
  <2> QED BY <2>3, <2>4
<1>8. CASE AwaitSent /\ call' = "none"
  <2>1. call = "done" /\ up = TRUE /\ (Leaving \/ Gone)
    BY <1>8 DEF AwaitSent, OneFrame
  <2>2. ~InVain /\ Sane
    BY <2>1 DEF InVain, Sane, Leaving, Gone
  <2> QED BY <1>0, <1>8, <2>2 DEF AwaitSent, Fails, CallAt
<1>9. CASE Acknowledge
  <2>1. /\ call = "ack" /\ call' = "none" /\ ir' = ir \ {"SEND"}
        /\ told' = Append(told, TRUE)
        /\ UNCHANGED <<up, cr, wr, sending, offered, wire>>
    BY <1>0, <1>9 DEF Acknowledge, Fails, Return
  <2>2. Gone /\ Before'
    BY <2>1 DEF OneFrame, Gone, Before
  <2>3. OneFrame'
    BY <2>1, <2>2 DEF OneFrame
  <2>4. Len(wire) = offered /\ Len(told) = offered - 1
    BY <2>1, <2>2 DEF Counted
  <2>5. /\ told' \in Seq(BOOLEAN) /\ Len(told') = offered
        /\ DOMAIN told' = 1 .. Len(told) + 1
        /\ \A i \in 1 .. Len(told) : told'[i] = told[i]
        /\ told'[Len(told) + 1] = TRUE
    <3>1. TRUE \in BOOLEAN
      OBVIOUS
    <3>2. told' = Append(told, TRUE) /\ Len(told) + 1 = offered
      BY <1>1, <2>1, <2>4
    <3> QED BY <1>1, <3>1, <3>2, Appended
  <2>6. \A i \in DOMAIN told' : told'[i] = TRUE
    <3>1. \A i \in 1 .. Len(told) : told[i] = TRUE
      BY <1>1 DEF Counted
    <3>2. \A i \in DOMAIN told' : i \in 1 .. Len(told) \/ i = Len(told) + 1
      BY <1>1, <2>5
    <3> QED BY <2>5, <3>1, <3>2
  <2>7. Counted'
    BY <2>1, <2>4, <2>5, <2>6 DEF Counted
  <2> QED BY <2>3, <2>7
<1> QED BY <1>2, <1>3, <1>4, <1>5, <1>6, <1>7, <1>8, <1>9
    DEF Sending, Transmission

(* On a W5500 and on a W6300, as long as nothing but memory and headers     *)
(* fails, transmit() succeeds and its frame is on the wire, alone in its    *)
(* packet and in the order of the calls, whatever the receive task does to  *)
(* Sn_CR and Sn_IR in between.                                              *)
THEOREM TransmitIsTrue == BoardSpec => []TransmitTells
<1>1. BoardInit => TellInv
  <2>1. ASSUME Init
        PROVE  OneFrame /\ Counted
    <3>1. /\ up = TRUE /\ call = "none" /\ cr = "none" /\ ir = {}
          /\ wr = <<>> /\ sending = <<>>
          /\ offered = 0 /\ wire = <<>> /\ told = <<>>
      BY <2>1 DEF Init
    <3>2. /\ told \in Seq(BOOLEAN) /\ wire \in Seq(Seq(Nat))
          /\ Len(told) = 0 /\ Len(wire) = 0
          /\ DOMAIN told = {} /\ DOMAIN wire = {}
      BY <3>1
    <3>3. OneFrame
      BY <3>1 DEF OneFrame, Before
    <3>4. Counted
      BY <3>1, <3>2 DEF Counted
    <3> QED BY <3>3, <3>4
  <2> QED BY <2>1 DEF BoardInit, TellInv
<1>2. TellInv /\ [BoardNext]_boardVars => TellInv'
  <2>1. ASSUME Steady, OneFrame, Counted, [BoardNext]_boardVars
        PROVE  OneFrame' /\ Counted'
    <3>1. Aside \/ Sending
      BY <2>1, SendersKinds
    <3> QED BY <2>1, <3>1, AsideStep, SendingStep, TxRoomAssumption
  <2>2. ASSUME [BoardNext]_boardVars, Steady'
        PROVE  Steady
    <3>1. UNCHANGED faults
      BY <2>2, FaultsStay
    <3> QED BY <2>2, <3>1 DEF Steady
  <2> QED BY <2>1, <2>2 DEF TellInv
<1>3. TellInv => TransmitTells
  <2>1. SUFFICES ASSUME TellInv, Steady, NEW i \in DOMAIN told
                 PROVE  told[i] /\ i <= Len(wire) /\ wire[i] = <<i>>
    BY DEF TransmitTells, Steady
  <2>2. Counted
    BY <2>1 DEF TellInv
  <2>3. told[i] = TRUE
    BY <2>1, <2>2 DEF Counted
  <2>4. /\ DOMAIN told = 1 .. Len(told) /\ DOMAIN wire = 1 .. Len(wire)
        /\ Len(told) \in Nat /\ Len(wire) \in Nat /\ Len(told) <= Len(wire)
    BY <2>2 DEF Counted
  <2>5. i <= Len(wire) /\ i \in DOMAIN wire
    BY <2>1, <2>4
  <2> QED BY <2>2, <2>3, <2>5 DEF Counted
<1> QED BY <1>1, <1>2, <1>3, PTL DEF BoardSpec

-----------------------------------------------------------------------------
(* The filter: the board hears the groups the stack has joined.             *)

Asks == {"none", "join", "leave", "promiscuous", "own", "all", "some"}

Asked ==
    /\ mcast_cnt \in 0 .. CountRange - 1 /\ groups \in Nat
    /\ filter_call \in [F!Callers -> [what : Asks, smr : SUBSET F!Bits]]
    /\ smr \in SUBSET F!Bits
    /\ \A c \in F!Callers : filter_call[c].what = "none" => F!Idle(c)

(* A call that nobody has come between writes back what is there, and the  *)
(* application's calls are not the stack's.                                *)
Alone ==
    /\ F!Idle("stack") \/ F!Idle("app")
    /\ \A c \in F!Callers : ~F!Idle(c) => filter_call[c].smr = smr
    /\ filter_call["stack"].what \in {"none", "join", "leave"}
    /\ filter_call["app"].what \notin {"join", "leave"}

(* The counter holds the groups but the one that is being joined, and the  *)
(* bit is clear while it holds any.                                        *)
Pending == IF filter_call["stack"].what = "join" THEN 1 ELSE 0
Exact ==
    /\ mcast_cnt + Pending = groups
    /\ filter_call["stack"].what = "leave" => mcast_cnt = 0
    /\ mcast_cnt > 0 => "block" \notin smr

FilterInv ==
    Asked /\ (~crossed => Alone) /\ (~crossed /\ ~miscounted => Exact)

-----------------------------------------------------------------------------
(* The MACRAW socket is set up with no group and multicast blocked. *)
LEMMA FilterInitially ==
  ASSUME CountRange \in Nat \ {0}, F!Init
  PROVE  FilterInv
  BY DEF F!Init, FilterInv, Asked, Alone, Exact, Pending, F!Idle, F!None, Asks,
     F!Callers, F!Bits

(* A read keeps the types, and when the other is idle leaves two calls     *)
(* that are as they have to be.                                            *)
LEMMA ReadsKeep ==
  ASSUME FilterInv, NEW c \in F!Callers, NEW what \in Asks \ {"none"},
         F!Idle(c), F!Reads(c, what), UNCHANGED smr,
         c = "stack" => what \in {"join", "leave"},
         c = "app" => what \notin {"join", "leave"}
  PROVE  /\ filter_call' \in [F!Callers -> [what : Asks, smr : SUBSET F!Bits]]
         /\ \A d \in F!Callers : filter_call'[d].what = "none" => F!Idle(d)'
         /\ ~crossed' => ~crossed /\ Alone'
         /\ filter_call' = filter_call
              \/ filter_call' =
                   [filter_call EXCEPT ![c] = [what |-> what, smr |-> smr]]
  <1> DEFINE read == [what |-> what, smr |-> smr]
  <1>1. CASE UNCHANGED <<filter_call, crossed>>
    BY <1>1 DEF FilterInv, Asked, Alone, F!Idle
  <1>2. CASE /\ filter_call' = [filter_call EXCEPT ![c] = read]
             /\ crossed' = (crossed \/ \E d \in F!Callers \ {c} : ~F!Idle(d))
    <2>1. /\ read \in [what : Asks, smr : SUBSET F!Bits]
          /\ read.what = what /\ read.smr = smr
      BY DEF FilterInv, Asked
    <2> HIDE DEF read
    <2>2. /\ filter_call' \in [F!Callers -> [what : Asks, smr : SUBSET F!Bits]]
          /\ filter_call'[c] = read
          /\ \A d \in F!Callers \ {c} : filter_call'[d] = filter_call[d]
      BY <1>2, <2>1 DEF FilterInv, Asked
    <2>3. \A d \in F!Callers : filter_call'[d].what = "none" => F!Idle(d)'
      BY <2>1, <2>2 DEF FilterInv, Asked, F!Idle
    <2>4. ASSUME ~crossed' PROVE ~crossed /\ Alone'
      BY <1>2, <2>1, <2>2, <2>4 DEF FilterInv, Alone, F!Idle, F!Callers
    <2>5. filter_call' =
            [filter_call EXCEPT ![c] = [what |-> what, smr |-> smr]]
      BY <1>2 DEF read
    <2> QED BY <2>2, <2>3, <2>4, <2>5
  <1> QED BY <1>1, <1>2 DEF F!Reads

(* add_mac_filter(): a group that is not counted makes the claim void. *)
LEMMA JoinKeeps ==
  ASSUME CountRange \in Nat \ {0}, FilterInv, F!Join
  PROVE  FilterInv'
  <1>1. /\ filter_call' \in [F!Callers -> [what : Asks, smr : SUBSET F!Bits]]
        /\ \A d \in F!Callers : filter_call'[d].what = "none" => F!Idle(d)'
        /\ ~crossed' => ~crossed /\ Alone'
        /\ filter_call' = filter_call
             \/ filter_call' =
                  [filter_call EXCEPT !["stack"] = [what |-> "join", smr |-> smr]]
    BY ReadsKeep DEF F!Join, F!Callers, Asks
  <1>2. Asked'
    BY <1>1 DEF F!Join, FilterInv, Asked
  <1>3. ASSUME ~crossed', ~miscounted' PROVE Exact'
    <2>1. filter_call' =
            [filter_call EXCEPT !["stack"] = [what |-> "join", smr |-> smr]]
      BY <1>1, <1>3 DEF F!Join, F!Idle
    <2>2. filter_call["stack"].what = "none"
          /\ filter_call'["stack"].what = "join"
      BY <2>1 DEF F!Join, F!Idle, F!None, FilterInv, Asked, F!Callers
    <2>3. ~miscounted
      BY <1>3, Zenon DEF F!Join
    <2>4. Exact /\ groups' = groups + 1 /\ UNCHANGED <<smr, mcast_cnt>>
      BY <1>1, <1>3, <2>3 DEF F!Join, FilterInv
    <2> QED BY <2>2, <2>4 DEF FilterInv, Asked, Exact, Pending
  <1> QED BY <1>1, <1>2, <1>3 DEF FilterInv

(* rm_mac_filter(): only the last group that was counted blocks. *)
LEMMA LeaveKeeps ==
  ASSUME CountRange \in Nat \ {0}, FilterInv, F!Leave
  PROVE  FilterInv'
  <1>1. /\ filter_call' \in [F!Callers -> [what : Asks, smr : SUBSET F!Bits]]
        /\ \A d \in F!Callers : filter_call'[d].what = "none" => F!Idle(d)'
        /\ ~crossed' => ~crossed /\ Alone'
        /\ \/ filter_call' = filter_call
           \/ /\ mcast_cnt' = 0
              /\ filter_call' =
                   [filter_call EXCEPT !["stack"] = [what |-> "leave", smr |-> smr]]
    <2>1. CASE F!Left(mcast_cnt')
      BY <2>1, ReadsKeep DEF F!Leave, F!Left, F!Callers, Asks
    <2>2. CASE ~F!Left(mcast_cnt')
      BY <2>2 DEF F!Leave, FilterInv, Asked, Alone, F!Idle
    <2> QED BY <2>1, <2>2
  <1>2. Asked'
    BY <1>1 DEF F!Leave, FilterInv, Asked
  <1>3. ASSUME ~crossed', ~miscounted' PROVE Exact'
    <2>1. ~crossed /\ ~miscounted /\ filter_call["stack"].what = "none"
      BY <1>1, <1>3 DEF F!Leave, F!Idle, F!None
    <2>2. /\ filter_call'["stack"].what \in {"none", "leave"}
          /\ filter_call'["stack"].what = "leave" => mcast_cnt' = 0
      BY <1>1, <2>1 DEF FilterInv, Asked, F!Callers
    <2> QED BY <2>1, <2>2
            DEF F!Leave, FilterInv, Asked, Exact, Pending
  <1> QED BY <1>1, <1>2, <1>3 DEF FilterInv

(* set_promiscuous() and set_all_multicast() read as the group calls do. *)
LEMMA SetModeKeeps ==
  ASSUME FilterInv, F!SetMode
  PROVE  FilterInv'
  <1> PICK what \in {"promiscuous", "own", "all", "some"} :
         F!Reads("app", what)
    BY DEF F!SetMode
  <1>1. /\ filter_call' \in [F!Callers -> [what : Asks, smr : SUBSET F!Bits]]
        /\ \A d \in F!Callers : filter_call'[d].what = "none" => F!Idle(d)'
        /\ ~crossed' => ~crossed /\ Alone'
        /\ filter_call' = filter_call
             \/ filter_call' =
                  [filter_call EXCEPT !["app"] = [what |-> what, smr |-> smr]]
    BY ReadsKeep DEF F!SetMode, F!Callers, Asks
  <1>2. filter_call'["stack"] = filter_call["stack"]
    BY <1>1 DEF FilterInv, Asked, F!Callers
  <1> QED BY <1>1, <1>2 DEF F!SetMode, FilterInv, Asked, Exact, Pending

(* The write: a failed join, a wrapped counter and a cleared one excepted, *)
(* the bit and the counter agree again.                                   *)
LEMMA WriteKeeps ==
  ASSUME CountRange \in Nat \ {0}, FilterInv, NEW c \in F!Callers, F!Write(c)
  PROVE  FilterInv'
  <1> DEFINE what == filter_call[c].what
  <1>1. /\ what \in Asks \ {"none"}
        /\ filter_call' = [filter_call EXCEPT ![c] = F!None]
        /\ filter_call[c].smr \in SUBSET F!Bits
        /\ UNCHANGED <<groups, crossed>>
        /\ F!None \in [what : Asks, smr : SUBSET F!Bits]
    BY DEF F!Write, FilterInv, Asked, Asks, F!None
  <1>2. /\ \/ /\ smr' = F!Written(what, filter_call[c].smr)
              /\ mcast_cnt' = F!Counted(what)
           \/ UNCHANGED <<smr, mcast_cnt>>
        /\ mcast_cnt' \in 0 .. CountRange - 1 /\ smr' \in SUBSET F!Bits
    <2>1. /\ F!Counted(what) \in 0 .. CountRange - 1
          /\ F!Written(what, filter_call[c].smr) \in SUBSET F!Bits
      BY <1>1
      DEF FilterInv, Asked, F!Written, F!Counted, F!Bits, Asks
    <2> QED BY <2>1 DEF F!Write, FilterInv, Asked
  <1>3. Asked'
    BY <1>1, <1>2 DEF FilterInv, Asked, F!Idle, F!None
  <1>4. ASSUME ~crossed' PROVE Alone'
    <2>1. \A d \in F!Callers : F!Idle(d)'
      BY <1>1, <1>4 DEF F!Write, FilterInv, Asked, Alone, F!Callers, F!Idle
    <2> QED BY <2>1 DEF Alone, F!Idle, F!None, F!Callers
  <1>5. ASSUME ~crossed', ~miscounted' PROVE Exact'
    <2>1. /\ Alone /\ Exact /\ filter_call[c].smr = smr
          /\ filter_call'["stack"].what = "none"
      <3>1. Alone /\ Exact
        <4>1. ~miscounted /\ ~crossed
          BY <1>5, Zenon DEF F!Write
        <4> QED BY <4>1 DEF FilterInv
      <3>2. ~F!Idle(c) /\ filter_call[c].smr = smr
        BY <3>1 DEF F!Write, Alone
      <3>3. filter_call'["stack"] = F!None
        BY <3>1, <3>2, <1>1 DEF FilterInv, Asked, Alone, F!Callers, F!Idle
      <3> QED BY <3>1, <3>2, <3>3 DEF F!None
    <2>2. what = "join" \/ what = "leave" => c = "stack"
      BY <1>1, <2>1 DEF Alone, F!Callers
    <2>3. c # "stack" => filter_call["stack"].what = "none"
      BY <2>1, <1>1 DEF F!Write, Alone, F!Callers, F!Idle, F!None
    <2>4. CASE UNCHANGED <<smr, mcast_cnt>> /\ what # "join"
      BY <1>1, <2>1, <2>3, <2>4 DEF Exact, Pending
    <2>5. CASE UNCHANGED <<smr, mcast_cnt>> /\ what = "join"
      <3>1. smr' = F!Written(what, filter_call[c].smr)
            /\ mcast_cnt' = F!Counted(what)
            /\ mcast_cnt' # 0
        BY <1>5, <2>5 DEF F!Write
      <3> QED BY <3>1, <2>5 DEF F!Counted, FilterInv, Asked
    <2>6. CASE /\ smr' = F!Written(what, filter_call[c].smr)
               /\ mcast_cnt' = F!Counted(what)
               /\ ~UNCHANGED <<smr, mcast_cnt>>
      <3>1. /\ what \in {"all", "some"} => groups = 0
            /\ what = "join" => mcast_cnt' # 0
        <4>1. \/ miscounted
              \/ what \in {"all", "some"} /\ groups > 0
              \/ what = "join" /\ mcast_cnt' = 0
              => miscounted'
          BY <2>6, Zenon DEF F!Write
        <4>2. /\ ~(what \in {"all", "some"} /\ groups > 0)
              /\ ~(what = "join" /\ mcast_cnt' = 0)
          BY <1>5, <4>1
        <4> QED BY <4>2 DEF FilterInv, Asked
      <3> QED BY <1>1, <2>1, <2>2, <2>3, <2>6, <3>1
              DEF Exact, Pending, F!Written, F!Counted, Asks, FilterInv, Asked
    <2> QED BY <1>2, <2>4, <2>5, <2>6
  <1> QED BY <1>3, <1>4, <1>5 DEF FilterInv

-----------------------------------------------------------------------------
(* Every step of the driver *)
LEMMA FilterInductive ==
  ASSUME CountRange \in Nat \ {0}, FilterInv, [F!Next]_(F!vars)
  PROVE  FilterInv'
  <1>1. CASE UNCHANGED F!vars
    BY <1>1 DEF F!vars, FilterInv, Asked, Alone, Exact, Pending, F!Idle
  <1> QED BY <1>1, JoinKeeps, LeaveKeeps, SetModeKeeps, WriteKeeps DEF F!Next

(* As long as no call comes between the other's read and write of Sn_MR,   *)
(* the groups the driver has counted are not blocked by a leave, by a mode *)
(* or by a failure, however many there are and however wide the counter.   *)
THEOREM CountedAreHeard == MCFairSpec => []GroupsHeard
<1>1. MCInit => FilterInv
  BY FilterInitially, NumbersAssumption DEF MCInit
<1>2. FilterInv /\ [MCNext]_<<part, data_vars, link_vars, filter_vars>>
        => FilterInv'
  <2>1. ASSUME [MCNext]_<<part, data_vars, link_vars, filter_vars>>
        PROVE  [F!Next]_(F!vars)
    BY <2>1 DEF MCNext, filter_vars, F!vars
  <2> QED BY <2>1, FilterInductive, NumbersAssumption
<1>3. FilterInv => GroupsHeard
  BY DEF FilterInv, Asked, Exact, Pending, F!Idle, F!None, F!GroupsHeard,
     GroupsHeard
<1> QED BY <1>1, <1>2, <1>3, PTL DEF MCFairSpec

-----------------------------------------------------------------------------
(* Bring-up and link: what EthLinkProofs proves of EthLink holds of the     *)
(* driver's.                                                                *)

LP == INSTANCE EthLinkProofs
    WITH Chips <- {"W5500", "W6300"}, FaultModes <- LinkFaultModes,
         MaxGlitches <- LinkGlitches,
         chip <- kind, polled <- no_line,
         faults <- link_faults, glitches <- link_glitches

(* L is the instance of EthLink, LP that of EthLink with its proofs. *)
LEMMA SameSteps == L!Next <=> LP!Next
  BY DEF L!env, LP!env, L!phy, LP!phy, L!regs, LP!regs, L!mac, LP!mac,
     L!upper, LP!upper, L!Groups, LP!Groups, L!Fixed, LP!Fixed, L!Best,
     LP!Best, L!AutoMode, LP!AutoMode, L!Works, LP!Works, L!Fails,
     LP!Fails, L!PullOrPlug, LP!PullOrPlug, L!Negotiated, LP!Negotiated,
     L!LinkComesUp, LP!LinkComesUp, L!AfterReset, LP!AfterReset,
     L!ResetW6300, LP!ResetW6300, L!ResetW5500, LP!ResetW5500, L!Reset,
     LP!Reset, L!MacStart, LP!MacStart, L!MacStop, LP!MacStop, L!SetLink,
     LP!SetLink, L!RestartW6300, LP!RestartW6300, L!RestartW5500,
     LP!RestartW5500, L!Restart, LP!Restart, L!CheckRead, LP!CheckRead,
     L!CheckReport, LP!CheckReport, L!Remembered, LP!Remembered,
     L!CheckStore, LP!CheckStore, L!Reboot, LP!Reboot, L!Install,
     LP!Install, L!SetMacAddr, LP!SetMacAddr, L!Start, LP!Start, L!Call,
     LP!Call, L!Reports, LP!Reports, L!Stop, LP!Stop, L!AutonegoW6300,
     LP!AutonegoW6300, L!AutonegoW5500, LP!AutonegoW5500, L!Autonego,
     LP!Autonego, L!SetPhy, LP!SetPhy, L!SetSpeed, LP!SetSpeed,
     L!SetDuplex, LP!SetDuplex, L!CheckLink, LP!CheckLink, L!BringUp,
     LP!BringUp, L!Next, LP!Next

(* A behaviour of the driver is one of EthLink. *)
LEMMA DrivesLink == MCFairSpec => LP!Spec
<1>1. MCInit => LP!Init
  <2>1. L!Init => LP!Init
    BY DEF L!Init, LP!Init, L!Groups, LP!Groups, L!AutoMode, LP!AutoMode
  <2> QED BY <2>1 DEF MCInit
<1>2. [MCNext]_<<part, data_vars, link_vars, filter_vars>>
        => [LP!Next]_(LP!vars)
  BY SameSteps DEF MCNext, link_vars, LP!vars, LP!env, LP!regs, LP!phy, LP!mac,
     LP!upper
<1> QED BY <1>1, <1>2, PTL DEF MCFairSpec, LP!Spec

(* Once the backend has given the MAC address, the chip has it: no reset,   *)
(* and no failure of a reset, leaves the network registers locked when      *)
(* SHAR is written, on whichever chip and however often bring-up fails.     *)
THEOREM ChipTakesAddress == MCFairSpec => []AddressTakes
<1>1. LP!AddressTakes => AddressTakes
  BY DEF LP!AddressTakes, L!AddressTakes, AddressTakes
<1> QED BY <1>1, DrivesLink, LP!AddressIsTaken, PTL

(* After esp_eth_stop() the hardware socket is closed and the backend knows *)
(* it, whatever the chip, with or without an interrupt line, and however    *)
(* often the link went up and down before.                                  *)
THEOREM StopClosesSocket == MCFairSpec => []StoppedIsQuiet
<1>1. LP!StoppedIsQuiet => StoppedIsQuiet
  BY DEF LP!StoppedIsQuiet, L!StoppedIsQuiet, StoppedIsQuiet
<1>2. LP!Spec => []LP!StoppedIsQuiet
  BY LP!StopIsQuiet, NumbersAssumption
<1> QED BY <1>1, <1>2, DrivesLink, PTL

=============================================================================
