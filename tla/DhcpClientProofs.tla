-------------------------- MODULE DhcpClientProofs --------------------------
(* Proofs about DhcpClient, for any number of servers, any limits on tries, *)
(* turns and buffers, on a LAN that may lose, delay and repeat.            *)
EXTENDS DhcpClient, SequenceTheorems, TLAPS

(* A poll belongs to a running client, and receives in a turn it has. *)
Polling ==
    /\ pc # "idle" => running
    /\ pc = "recv" => turn < StepPackets

(* A message of the present round *)
Asks(m) == m.type = "REQUEST" /\ m.xid = xid
Acks(d) == d.type = "ACK" /\ d.xid = xid

(* Whatever asks for an address, or grants one, in the present round asks   *)
(* for the address on offer, and was sent when the client had stopped       *)
(* selecting: the last broadcast is a request of the round then.            *)
Requested == state # "SELECTING" /\ Asks(wire)
Round ==
    /\ Asks(wire) => state # "SELECTING" /\ wire.ip = offered
    /\ \A s \in Servers : Asks(heard[s]) => Requested /\ heard[s].ip = offered
    /\ \A i \in DOMAIN buffer :
           Acks(buffer[i]) => Requested /\ buffer[i].server = offered

(* Stopping leaves the requests of the last round about, and nobody to      *)
(* read what comes of them.                                                 *)
IInv == TypeOK /\ Polling /\ ChipHasLease /\ (running => Round)

-----------------------------------------------------------------------------
(* A read of the socket takes the first datagram and leaves the others. *)
LEMMA Read ==
    ASSUME TypeOK, buffer # <<>>, buffer' = Tail(buffer)
    PROVE  /\ buffer' \in Seq(Reply) /\ Len(buffer') <= BufferLen
           /\ \A i \in DOMAIN buffer' : \E j \in DOMAIN buffer : buffer'[i] = buffer[j]
           /\ Head(buffer) \in Reply
           /\ \E j \in DOMAIN buffer : Head(buffer) = buffer[j]
<1>1. buffer \in Seq(Reply) /\ Len(buffer) \in Nat \ {0} /\ BufferLen \in Nat
  BY BoundAssumption DEF TypeOK
<1>2. /\ buffer' \in Seq(Reply) /\ Len(buffer') = Len(buffer) - 1
      /\ \A i \in 1 .. Len(buffer) - 1 : buffer'[i] = buffer[i + 1]
  BY <1>1
<1>3. Head(buffer) = buffer[1] /\ 1 \in DOMAIN buffer /\ buffer[1] \in Reply
  BY <1>1
<1>4. ASSUME NEW i \in DOMAIN buffer' PROVE i + 1 \in DOMAIN buffer
  BY <1>1, <1>2, <1>4
<1>5. \A i \in DOMAIN buffer' : buffer'[i] = buffer[i + 1]
  BY <1>1, <1>2
<1> QED BY <1>1, <1>2, <1>3, <1>4, <1>5 DEF TypeOK

(* A new round begins with an id that nothing on the LAN carries. *)
LEMMA NewRound ==
    ASSUME TypeOK, EnterSelecting, UNCHANGED <<wire, heard>>,
           \A i \in DOMAIN buffer' : \E j \in DOMAIN buffer : buffer'[i] = buffer[j]
    PROVE  /\ state' = "SELECTING" /\ xid' \in Xids /\ tries' \in 0 .. XmitTries
           /\ serverId' \in Addresses /\ offered' \in Addresses
           /\ sendDue' \in BOOLEAN
           /\ Round'
<1>1. /\ xid' \in Xids /\ wire.xid # xid' /\ (\A s \in Servers : heard[s].xid # xid')
      /\ \A j \in DOMAIN buffer : buffer[j].xid # xid'
  BY DEF EnterSelecting, FreshXid, UsedXids
<1>2. Round'
  BY <1>1 DEF Round, Asks, Acks
<1> QED BY <1>1, <1>2, BoundAssumption DEF EnterSelecting, Addresses

(* A step that leaves the round, the LAN and the socket alone *)
LEMMA SameRound ==
    ASSUME Round, UNCHANGED <<state, xid, offered, wire, heard, buffer>>
    PROVE  Round'
BY DEF Round, Requested, Asks, Acks

(* wsm_dhcp_start() and wsm_dhcp_stop() *)
LEMMA StartStop ==
    ASSUME IInv, Start \/ Stop
    PROVE  IInv'
<1>0. TypeOK /\ Polling /\ ChipHasLease
  BY DEF IInv
<1>1. CASE Start
  <2>1. /\ UNCHANGED <<lease, renewDue, pc, turn, result, wire, heard, buffer>>
        /\ EnterSelecting /\ chip' = NoServer /\ bound' = FALSE
        /\ running' \in BOOLEAN /\ ~running
    BY <1>1 DEF Start, pollVars, netVars
  <2>2. /\ state' = "SELECTING" /\ xid' \in Xids /\ tries' \in 0 .. XmitTries
        /\ serverId' \in Addresses /\ offered' \in Addresses
        /\ sendDue' \in BOOLEAN /\ Round'
    BY <1>0, <2>1, NewRound
  <2>3. TypeOK'
    BY <1>0, <2>1, <2>2 DEF TypeOK, Addresses
  <2>4. Polling' /\ ChipHasLease'
    BY <1>0, <2>1 DEF Polling, ChipHasLease
  <2> QED BY <2>2, <2>3, <2>4 DEF IInv
<1>2. CASE Stop
  <2>1. /\ UNCHANGED <<xid, serverId, offered, tries, sendDue, renewDue, pc,
                       turn, result, chip, wire, heard>>
        /\ running' = FALSE /\ buffer' = <<>> /\ state' = "SELECTING"
        /\ lease' = NoServer /\ bound' = FALSE /\ pc = "idle"
    BY <1>2 DEF Stop, Forget, pollVars, timeVars
  <2>2. buffer' \in Seq(Reply) /\ Len(buffer') <= BufferLen
    BY <2>1, BoundAssumption
  <2>3. TypeOK'
    BY <1>0, <2>1, <2>2 DEF TypeOK, Addresses
  <2> QED BY <2>1, <2>3 DEF IInv, Polling, ChipHasLease
<1> QED BY <1>1, <1>2

(* A poll up to where it receives *)
LEMMA PollStep ==
    ASSUME IInv, \/ Poll \/ OutOfTurns \/ StillLeased \/ Renew \/ GiveUpRound
                 \/ Transmit \/ NotYet \/ ReceiveNothing
    PROVE  IInv'
<1>0. TypeOK /\ Polling /\ ChipHasLease /\ (running => Round)
      /\ StepPackets \in Nat
  BY BoundAssumption DEF IInv
<1>1. CASE Poll \/ OutOfTurns \/ StillLeased \/ NotYet \/ ReceiveNothing
  <2>1. /\ UNCHANGED <<clientVars, timeVars, ifVars, netVars>>
        /\ pc' \in {"idle", "turn", "recv"} /\ turn' \in 0 .. StepPackets
        /\ result' \in {"PENDING", "LEASED", "FAILED"}
        /\ running /\ (pc' = "recv" => turn' < StepPackets)
    BY <1>0, <1>1
       DEF Poll, OutOfTurns, StillLeased, NotYet, ReceiveNothing, Return,
           Polling, TypeOK
  <2>2. TypeOK'
    BY <1>0, <2>1 DEF TypeOK, clientVars, timeVars, ifVars, netVars
  <2> QED BY <1>0, <2>1, <2>2, SameRound
          DEF IInv, Polling, ChipHasLease, clientVars, ifVars, netVars
<1>2. CASE Renew \/ GiveUpRound
  <2>1. /\ UNCHANGED <<lease, bound, renewDue, running, chip, wire, heard, buffer>>
        /\ EnterSelecting /\ running
        /\ pc' \in {"idle", "turn"} /\ turn' \in 0 .. StepPackets
        /\ result' \in {"PENDING", "LEASED", "FAILED"}
    BY <1>0, <1>2 DEF Renew, GiveUpRound, KeepLease, Return, Polling, TypeOK,
       pollVars, ifVars, netVars
  <2>2. /\ state' = "SELECTING" /\ xid' \in Xids /\ tries' \in 0 .. XmitTries
        /\ serverId' \in Addresses /\ offered' \in Addresses
        /\ sendDue' \in BOOLEAN /\ Round'
    BY <1>0, <2>1, NewRound
  <2>3. TypeOK'
    BY <1>0, <2>1, <2>2 DEF TypeOK
  <2> QED BY <1>0, <2>1, <2>2, <2>3 DEF IInv, Polling, ChipHasLease
<1>3. CASE Transmit
  <2>1. /\ UNCHANGED <<state, xid, serverId, offered, lease, bound, renewDue,
                       turn, result, running, chip, heard, buffer>>
        /\ wire' = Message /\ sendDue' = FALSE /\ pc' = "recv"
        /\ tries' \in 0 .. XmitTries /\ turn < StepPackets
        /\ running /\ state # "BOUND"
    BY <1>0, <1>3, BoundAssumption
       DEF Transmit, Exhausted, Polling, TypeOK, ifVars
  <2>2. Message \in Broadcast
    BY <1>0 DEF Message, Broadcast, TypeOK, Addresses
  <2>3. TypeOK'
    BY <1>0, <2>1, <2>2 DEF TypeOK
  <2>4. Round'
    <3>1. CASE state = "SELECTING"
      <4>1. wire'.type = "DISCOVER"
        BY <2>1, <3>1 DEF Message
      <4> QED BY <1>0, <2>1, <3>1, <4>1 DEF Round, Requested, Asks, Acks
    <3>2. CASE state # "SELECTING"
      <4>1. wire'.type = "REQUEST" /\ wire'.xid = xid /\ wire'.ip = offered
        BY <2>1, <3>2 DEF Message
      <4> QED BY <1>0, <2>1, <3>2, <4>1 DEF Round, Requested, Asks, Acks
    <3> QED BY <3>1, <3>2
  <2> QED BY <1>0, <2>1, <2>3, <2>4 DEF IInv, Polling, ChipHasLease
<1> QED BY <1>1, <1>2, <1>3

(* What the client does with a datagram *)
LEMMA ReceiveStep ==
    ASSUME IInv, Receive
    PROVE  /\ IInv'
           /\ bound => bound'
           /\ chip' # chip => Requested /\ wire.ip = chip' /\ offered = chip'
<1>0. TypeOK /\ Polling /\ ChipHasLease /\ running /\ Round
      /\ StepPackets \in Nat
  BY BoundAssumption DEF IInv, Receive, Polling
<1> DEFINE d == Head(buffer)
<1>1. /\ buffer' \in Seq(Reply) /\ Len(buffer') <= BufferLen
      /\ \A i \in DOMAIN buffer' : \E j \in DOMAIN buffer : buffer'[i] = buffer[j]
      /\ d \in Reply /\ \E j \in DOMAIN buffer : d = buffer[j]
  BY <1>0, Read DEF Receive
<1>2. UNCHANGED <<running, wire, heard>>
  BY DEF Receive
<1>3. d.server \in Addresses /\ d.server # NoServer
  BY <1>1, ServerAssumption DEF Reply, Addresses
<1> HIDE DEF d
<1>4. ASSUME UNCHANGED <<state, xid, offered>> PROVE Round'
  BY <1>0, <1>1, <1>2, <1>4 DEF Round, Requested, Asks, Acks
<1>5. NextTurn => /\ pc' = "turn" /\ turn' \in 0 .. StepPackets
                  /\ result' \in {"PENDING", "LEASED", "FAILED"}
  BY <1>0 DEF NextTurn, Receive, Polling, TypeOK
<1>6. ASSUME NextTurn, UNCHANGED <<tries, xid, lease, bound, timeVars, chip>>,
             UNCHANGED <<state, offered>>, serverId' \in Addresses
      PROVE  IInv' /\ bound' = bound /\ chip' = chip
  <2>1. TypeOK'
    BY <1>0, <1>1, <1>2, <1>5, <1>6 DEF TypeOK, timeVars
  <2> QED BY <1>0, <1>2, <1>4, <1>5, <1>6, <2>1 DEF IInv, Polling, ChipHasLease
<1>7. CASE ~OfThisRound(d) \/ <<state, d.type>> \in {<<"SELECTING", "ACK">>,
                                                      <<"REQUESTING", "OFFER">>}
  <2>1. /\ NextTurn /\ UNCHANGED <<tries, xid, lease, bound, timeVars, chip>>
        /\ UNCHANGED <<state, offered>> /\ serverId' \in Addresses
    BY <1>0, <1>3, <1>7 DEF Receive, OfThisRound, clientVars, timeVars, TypeOK, d
  <2> QED BY <1>6, <2>1
<1>8. CASE OfThisRound(d) /\ d.type = "NAK"
  <2>1. /\ EnterSelecting /\ NextTurn
        /\ UNCHANGED <<lease, bound, renewDue, chip>>
    BY <1>8 DEF Receive, KeepLease, d
  <2>2. /\ state' = "SELECTING" /\ xid' \in Xids /\ tries' \in 0 .. XmitTries
        /\ serverId' \in Addresses /\ offered' \in Addresses
        /\ sendDue' \in BOOLEAN /\ Round'
    BY <1>0, <1>1, <1>2, <2>1, NewRound
  <2>3. TypeOK'
    BY <1>0, <1>1, <1>2, <1>5, <2>1, <2>2 DEF TypeOK
  <2> QED BY <1>0, <1>2, <1>5, <2>1, <2>2, <2>3 DEF IInv, Polling, ChipHasLease
<1>9. CASE OfThisRound(d) /\ d.type = "OFFER" /\ state = "SELECTING"
  <2>1. /\ serverId' = d.server /\ offered' = d.server
        /\ state' = "REQUESTING" /\ tries' = 0 /\ sendDue' = TRUE
        /\ NextTurn /\ UNCHANGED <<xid, lease, bound, renewDue, chip>>
    BY <1>9 DEF Receive, d
  <2>2. TypeOK'
    BY <1>0, <1>1, <1>2, <1>3, <1>5, <2>1, BoundAssumption DEF TypeOK
  <2>3. Round'
    BY <1>0, <1>1, <1>2, <1>9, <2>1 DEF Round, Requested, Asks, Acks
  <2> QED BY <1>0, <1>2, <1>5, <2>1, <2>2, <2>3 DEF IInv, Polling, ChipHasLease
<1>10. CASE OfThisRound(d) /\ d.type = "ACK" /\ state = "REQUESTING"
  <2>1. /\ serverId' = d.server /\ lease' = d.server /\ chip' = d.server
        /\ state' = "BOUND" /\ bound' = TRUE /\ renewDue' = FALSE
        /\ Return("LEASED") /\ UNCHANGED <<xid, offered, tries, sendDue>>
    BY <1>10 DEF Receive, d
  <2>2. /\ pc' = "idle" /\ turn' \in 0 .. StepPackets /\ result' = "LEASED"
    BY <1>0, <2>1 DEF Return
  <2>3. TypeOK'
    BY <1>0, <1>1, <1>2, <1>3, <2>1, <2>2 DEF TypeOK
  <2>4. Requested /\ wire.ip = offered /\ d.server = offered
    BY <1>0, <1>1, <1>10 DEF Round, Requested, Asks, Acks, OfThisRound
  <2>5. Round'
    BY <1>0, <1>1, <1>2, <1>10, <2>1 DEF Round, Requested, Asks, Acks
  <2>6. Polling' /\ ChipHasLease'
    BY <1>0, <1>2, <1>3, <2>1, <2>2 DEF Polling, ChipHasLease
  <2> QED BY <2>1, <2>3, <2>4, <2>5, <2>6 DEF IInv
<1>11. \/ ~OfThisRound(d)
       \/ OfThisRound(d) /\ d.type = "NAK"
       \/ OfThisRound(d) /\ d.type = "OFFER" /\ state = "SELECTING"
       \/ OfThisRound(d) /\ d.type = "ACK" /\ state = "REQUESTING"
       \/ <<state, d.type>> \in {<<"SELECTING", "ACK">>, <<"REQUESTING", "OFFER">>}
  BY DEF Receive, d
<1> QED BY <1>7, <1>8, <1>9, <1>10, <1>11

(* Time, and what the LAN does with the broadcasts *)
LEMMA LanStep ==
    ASSUME IInv, \/ TimeToSend \/ TimeToRenew
                 \/ \E s \in Servers :
                      Respond(s) \/ \E type \in {"DISCOVER", "REQUEST"} : Hear(s, type)
    PROVE  IInv' /\ UNCHANGED <<bound, chip>>
<1>0. TypeOK /\ Polling /\ ChipHasLease /\ (running => Round)
  BY DEF IInv
<1>1. CASE TimeToSend \/ TimeToRenew
  <2>1. /\ UNCHANGED <<clientVars, pollVars, ifVars, netVars>>
        /\ sendDue' \in BOOLEAN /\ renewDue' \in BOOLEAN
    BY <1>0, <1>1 DEF TimeToSend, TimeToRenew, TypeOK
  <2>2. TypeOK'
    BY <1>0, <2>1 DEF TypeOK, clientVars, pollVars, ifVars, netVars
  <2> QED BY <1>0, <2>1, <2>2, SameRound
          DEF IInv, Polling, ChipHasLease, clientVars, pollVars, ifVars, netVars
<1>2. ASSUME NEW s \in Servers, NEW type, Hear(s, type)
      PROVE  IInv' /\ UNCHANGED <<bound, chip>>
  <2>1. /\ UNCHANGED <<clientVars, timeVars, pollVars, ifVars, wire, buffer>>
        /\ heard' = [heard EXCEPT ![s] = wire]
    BY <1>2 DEF Hear
  <2>2. TypeOK'
    BY <1>0, <2>1 DEF TypeOK, clientVars, timeVars, pollVars, ifVars
  <2>3. running => Round'
    BY <1>0, <2>1 DEF Round, Requested, Asks, Acks, TypeOK, clientVars
  <2> QED BY <1>0, <2>1, <2>2, <2>3
          DEF IInv, Polling, ChipHasLease, clientVars, pollVars, ifVars
<1>3. ASSUME NEW s \in Servers, Respond(s)
      PROVE  IInv' /\ UNCHANGED <<bound, chip>>
  <2>1. /\ UNCHANGED <<clientVars, timeVars, pollVars, ifVars, wire>>
        /\ heard' = [heard EXCEPT ![s] = Silence]
    BY <1>3 DEF Respond
  <2>2. Silence \in Broadcast /\ Silence.type = "NONE"
    BY BoundAssumption DEF Silence, Broadcast, Xids, Addresses
  <2>3. CASE UNCHANGED buffer
    <3>1. TypeOK'
      BY <1>0, <2>1, <2>2, <2>3 DEF TypeOK, clientVars, timeVars, pollVars, ifVars
    <3>2. running => Round'
      BY <1>0, <2>1, <2>2, <2>3
         DEF Round, Requested, Asks, Acks, TypeOK, clientVars
    <3> QED BY <1>0, <2>1, <3>1, <3>2
            DEF IInv, Polling, ChipHasLease, clientVars, pollVars, ifVars
  <2>4. CASE ~UNCHANGED buffer
    <3>1. PICK type \in Answer(s) :
            buffer' = Append(buffer, [type |-> type, xid |-> heard[s].xid,
                                      server |-> s])
      BY <1>3, <2>4 DEF Respond
    <3>2. running /\ Len(buffer) < BufferLen
      BY <1>3, <2>4 DEF Respond
    <3> DEFINE r == [type |-> type, xid |-> heard[s].xid, server |-> s]
    <3>3. /\ type \in {"OFFER", "ACK", "NAK"}
          /\ type = "ACK" => heard[s].type = "REQUEST" /\ heard[s].ip = s
      BY DEF Answer
    <3>4. r \in Reply
      BY <1>0, <3>3 DEF Reply, TypeOK, Broadcast
    <3>5. /\ buffer' \in Seq(Reply) /\ Len(buffer') <= BufferLen
          /\ \A i \in DOMAIN buffer' : \/ buffer'[i] = r
                                       \/ i \in DOMAIN buffer /\ buffer'[i] = buffer[i]
      BY <1>0, <3>1, <3>2, <3>4, BoundAssumption DEF TypeOK
    <3>6. TypeOK'
      BY <1>0, <2>1, <2>2, <3>5
         DEF TypeOK, clientVars, timeVars, pollVars, ifVars
    <3>7. Acks(r) => Requested /\ r.server = offered
      BY <1>0, <3>2, <3>3 DEF Round, Asks, Acks
    <3> HIDE DEF r
    <3>8. Round'
      BY <1>0, <2>1, <2>2, <3>2, <3>5, <3>7
         DEF Round, Requested, Asks, Acks, TypeOK, clientVars
    <3> QED BY <1>0, <2>1, <3>6, <3>8
            DEF IInv, Polling, ChipHasLease, clientVars, pollVars, ifVars
  <2> QED BY <2>3, <2>4
<1> QED BY <1>1, <1>2, <1>3

-----------------------------------------------------------------------------
(* The client before wsm_dhcp_start() satisfies the invariant. *)
LEMMA InitHolds == Init => IInv
<1> SUFFICES ASSUME Init PROVE IInv
  OBVIOUS
<1>1. /\ Silence \in Broadcast /\ Silence.type = "NONE" /\ 1 \in Xids
      /\ <<>> \in Seq(Reply) /\ Len(<<>>) <= BufferLen
  BY BoundAssumption DEF Silence, Broadcast, Xids, Addresses
<1>2. wire \in Broadcast /\ heard \in [Servers -> Broadcast]
  BY <1>1 DEF Init
<1>3. buffer \in Seq(Reply) /\ Len(buffer) <= BufferLen
  BY <1>1 DEF Init
<1>4. /\ running = FALSE /\ state = "SELECTING" /\ xid = 1
      /\ serverId = NoServer /\ offered = NoServer /\ tries = 0
      /\ lease = NoServer /\ bound = FALSE /\ sendDue = FALSE
      /\ renewDue = FALSE /\ pc = "idle" /\ turn = 0 /\ result = "PENDING"
      /\ chip = NoServer
  BY DEF Init
<1>5. tries \in 0 .. XmitTries /\ turn \in 0 .. StepPackets
  BY <1>4, BoundAssumption
<1>6. TypeOK
  BY <1>1, <1>2, <1>3, <1>4, <1>5 DEF TypeOK, Addresses
<1> QED BY <1>4, <1>6 DEF IInv, Polling, ChipHasLease

(* What a step may do to the address and the lease *)
LEMMA Inductive ==
    ASSUME IInv, [Next]_vars
    PROVE  /\ IInv'
           /\ bound /\ running' => bound'
           /\ chip' \notin {chip, NoServer} =>
                 Requested /\ wire.ip = chip' /\ offered = chip'
<1>1. CASE UNCHANGED vars
  <2>1. UNCHANGED <<running, state, xid, serverId, offered, tries, lease, bound,
                    sendDue, renewDue, pc, turn, result, chip, wire, heard, buffer>>
    BY <1>1 DEF vars, clientVars, timeVars, pollVars, ifVars, netVars
  <2> QED BY <2>1, SameRound DEF IInv, TypeOK, Polling, ChipHasLease
<1>2. CASE Start \/ Stop
  <2>1. IInv'
    BY <1>2, StartStop
  <2> QED BY <1>2, <2>1 DEF Start, Stop, IInv, ChipHasLease
<1>3. CASE \/ Poll \/ OutOfTurns \/ StillLeased \/ Renew \/ GiveUpRound
           \/ Transmit \/ NotYet \/ ReceiveNothing
  <2>1. IInv'
    BY <1>3, PollStep
  <2>2. UNCHANGED <<bound, chip>>
    BY <1>3 DEF Poll, OutOfTurns, StillLeased, Renew, GiveUpRound, Transmit,
       NotYet, ReceiveNothing, KeepLease, clientVars, ifVars
  <2> QED BY <2>1, <2>2
<1>4. CASE Receive
  BY <1>4, ReceiveStep
<1>5. CASE \/ TimeToSend \/ TimeToRenew
           \/ \E s \in Servers :
                Respond(s) \/ \E type \in {"DISCOVER", "REQUEST"} : Hear(s, type)
  BY <1>5, LanStep
<1> QED BY <1>1, <1>2, <1>3, <1>4, <1>5 DEF Next, Turn

(* Whatever is lost, late or repeated, and whatever servers refuse, a bound *)
(* client's chip has the address of its lease.                              *)
THEOREM ChipKeepsLease == Spec => []ChipHasLease
<1>1. IInv => ChipHasLease
  BY DEF IInv
<1>2. IInv /\ [Next]_vars => IInv'
  BY Inductive
<1> QED BY InitHolds, <1>1, <1>2, PTL DEF Spec

(* An address is installed only if the last broadcast of the present round  *)
(* asked for it: every stale acknowledgement is of a round that another     *)
(* transaction id belongs to.                                               *)
THEOREM OnlyRequestedLease == Spec => LeaseRequested
<1>1. IInv /\ [Next]_vars
      => IInv' /\ [chip' \notin {chip, NoServer} =>
                      /\ wire.type = "REQUEST" /\ wire.xid = xid
                      /\ wire.ip = chip' /\ offered = chip']_vars
  BY Inductive DEF Requested, Asks
<1> QED BY InitHolds, <1>1, PTL DEF Spec, LeaseRequested

(* A client that is bound stays so from step to step until it is stopped:   *)
(* no refusal, silence or renewal clears the flag.  What the chip uses      *)
(* meanwhile is ChipKeepsLease.                                             *)
THEOREM LeaseIsKept == Spec => BoundKept
<1>1. IInv /\ [Next]_vars => IInv' /\ [bound /\ running' => bound']_vars
  BY Inductive
<1> QED BY InitHolds, <1>1, PTL DEF Spec, BoundKept
=============================================================================
