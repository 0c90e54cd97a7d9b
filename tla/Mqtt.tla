-------------------------------- MODULE Mqtt --------------------------------
(***************************************************************************)
(* The MQTT 3.1.1 client of src/examples/mqtt/src/mqtt.c: one task that    *)
(* connects, subscribes, then reads, publishes, pings and gives the        *)
(* session up by turns, for ever.  Time is counted in units of the receive *)
(* timeout (MQTT_POLL_MS) and passes only where the task waits: in recv()  *)
(* with nothing to read, and in send() while the socket is busy.           *)
(*                                                                         *)
(* The stream is a sequence of cells, each a header, a remaining length or *)
(* a unit of a packet's body, and the client finds the packets in it by    *)
(* counting.  The broker is what the client talks to; what it may do is a  *)
(* set of faults, fixed for a behaviour:                                   *)
(*   "silent"   it stops answering and the connection stays open           *)
(*   "close"    it closes the connection                                   *)
(*   "refuse"   it refuses CONNECT or SUBSCRIBE                            *)
(*   "trickle"  the cells of a packet may arrive one at a time             *)
(*   "busy"     send() may report EWOULDBLOCK for a while, or fail         *)
(***************************************************************************)
EXTENDS Naturals, Sequences

CONSTANTS
    Half,         \* half the keep-alive interval
    AckTime,      \* MQTT_ACK_TIMEOUT_MS
    PubTime,      \* pub_period_ms
    Cap,          \* the longest body the buffers hold
    PktIds,       \* packet identifiers are uint16_t: 2^16
    MaxPubs,      \* bound: publications of the broker in a session
    MaxCells,     \* bound: when the broker waits for the client to read
    FaultModes    \* the sets of faults a broker is taken to have

VARIABLES
    faults, subscribing, publishing,   \* the broker's, the configuration's
    pc, stage,             \* where mqtt_session() is, what it reads for
    out,                   \* the packet send_all() is sending
    kind, left, quiet,     \* read_packet(): type, body left, time without data
    next_pkt_id,
    tx, rx, pub, waited,   \* time since last_tx_ms, last_rx_ms, last_pub_ms,
                           \* and the start of wait_packet()
    lost,                  \* the verdict on last_rx_ms of this turn
    asked, queue, stream,  \* requests at the broker, cells under way, arrived
    silent, eof, gone,     \* gone: a send has failed, as any later one will
    pubs, owed, acked      \* history of the session: publications, the ones
                           \* of QoS 1 to be acknowledged, acknowledgements

config  == <<faults, subscribing, publishing>>
reader  == <<kind, left, quiet>>
ages    == <<tx, rx, pub, waited>>
network == <<asked, queue, stream, silent, eof, gone>>
history == <<pubs, owed, acked>>
vars == <<config, pc, stage, out, reader, next_pkt_id, ages, lost, network,
          history>>

Packet(type) == [type |-> type, qos |-> 0, id |-> 0]
Requests == {"CONNECT", "SUBSCRIBE", "PINGREQ"}
DeadTime == 3 * Half                  \* keepalive_ms + keepalive_ms / 2
Older(age, most) == IF age < most THEN age + 1 ELSE age

TypeOK ==
    /\ pc \in {"link", "connect", "send", "header", "length", "body", "drop",
               "check", "out", "pause"}
    /\ stage \in {"connack", "suback", "loop"}
    /\ asked \subseteq Requests
    /\ next_pkt_id \in 1 .. PktIds - 1
    /\ {tx, rx} \subseteq 0 .. DeadTime
    /\ pub \in 0 .. PubTime /\ waited \in 0 .. AckTime /\ quiet \in 0 .. AckTime
    /\ pubs \in 0 .. MaxPubs

Fresh ==                              \* what a new connection starts from
    /\ asked' = {} /\ queue' = <<>> /\ stream' = <<>>
    /\ silent' = FALSE /\ eof' = FALSE /\ gone' = FALSE
    /\ pubs' = 0 /\ owed' = <<>> /\ acked' = <<>>

Forget ==                             \* and what the client starts from
    /\ kind' = Packet("PINGRESP") /\ left' = 0 /\ quiet' = 0
    /\ tx' = 0 /\ rx' = 0 /\ pub' = 0 /\ waited' = 0 /\ lost' = FALSE

Init ==
    /\ faults \in FaultModes
    /\ subscribing \in BOOLEAN /\ publishing \in BOOLEAN
    /\ pc = "link" /\ stage = "connack" /\ out = "CONNECT"
    /\ kind = Packet("PINGRESP") /\ left = 0 /\ quiet = 0
    /\ next_pkt_id = 1
    /\ tx = 0 /\ rx = 0 /\ pub = 0 /\ waited = 0 /\ lost = FALSE
    /\ asked = {} /\ queue = <<>> /\ stream = <<>>
    /\ silent = FALSE /\ eof = FALSE /\ gone = FALSE
    /\ pubs = 0 /\ owed = <<>> /\ acked = <<>>

-----------------------------------------------------------------------------
(* The broker and the network *)

Reading == pc \in {"header", "length", "body", "drop"}
Cells(packet, size) ==
    <<[is |-> "header", of |-> packet], [is |-> "length", of |-> size]>>
        \o [i \in 1 .. size |-> [is |-> "body", of |-> packet]]
Say(packet, size) == queue' = queue \o Cells(packet, size)
Room == Len(queue) + Len(stream) < MaxCells
Alive == ~silent /\ ~eof /\ pc \notin {"link", "connect", "out", "pause"}

Answer ==
    /\ Alive /\ Room
    /\ \E request \in asked :
        /\ asked' = asked \ {request}
        /\ \/ request = "CONNECT"   /\ Say(Packet("CONNACK"), 1)
           \/ request = "SUBSCRIBE" /\ Say(Packet("SUBACK"), 1)
           \/ request = "PINGREQ"   /\ Say(Packet("PINGRESP"), 0)
           \/ /\ request # "PINGREQ" /\ "refuse" \in faults
              /\ Say(Packet("REFUSED"), 1)
    /\ UNCHANGED <<config, pc, stage, out, reader, next_pkt_id, ages, lost,
                   stream, silent, eof, gone, history>>

(* A publication of either QoS, which may not fit the buffer. *)
Publication ==
    /\ Alive /\ Room /\ stage # "connack" /\ pubs < MaxPubs /\ pubs' = pubs + 1
    /\ \E qos \in {0, 1}, size \in {Cap, Cap + 1} :
        /\ Say([type |-> "PUBLISH", qos |-> qos, id |-> pubs + 1], size)
        /\ owed' = IF qos = 1 /\ size <= Cap THEN Append(owed, pubs + 1)
                   ELSE owed
    /\ UNCHANGED <<config, pc, stage, out, reader, next_pkt_id, ages, lost,
                   asked, stream, silent, eof, gone, acked>>

Deliver ==
    /\ queue # <<>> /\ ~silent
    /\ \E n \in {Len(queue)} \cup (IF "trickle" \in faults THEN {1} ELSE {}) :
        /\ stream' = stream \o SubSeq(queue, 1, n)
        /\ queue' = SubSeq(queue, n + 1, Len(queue))
    /\ UNCHANGED <<config, pc, stage, out, reader, next_pkt_id, ages, lost,
                   asked, silent, eof, gone, history>>

Leave ==
    /\ Alive
    /\ \/ "silent" \in faults /\ silent' = TRUE /\ UNCHANGED eof
       \/ "close" \in faults /\ eof' = TRUE /\ UNCHANGED silent
    /\ UNCHANGED <<config, pc, stage, out, reader, next_pkt_id, ages, lost,
                   asked, queue, stream, gone, history>>

Blocked == /\ Reading /\ stream = <<>>
           /\ pc \in {"body", "drop"} => left > 0
Patience == IF pc = "header" THEN 1 ELSE AckTime

(* A unit of time: recv() finds nothing, or send() is told to wait. *)
Tick ==
    /\ \/ Blocked /\ ~eof /\ quiet < Patience /\ quiet' = quiet + 1
       \/ pc = "send" /\ "busy" \in faults /\ UNCHANGED quiet
    /\ tx' = Older(tx, DeadTime) /\ rx' = Older(rx, DeadTime)
    /\ IF stage = "loop" THEN pub' = Older(pub, PubTime) /\ UNCHANGED waited
       ELSE waited' = Older(waited, AckTime) /\ UNCHANGED pub
    /\ UNCHANGED <<config, pc, stage, out, kind, left, next_pkt_id, lost,
                   network, history>>

-----------------------------------------------------------------------------
(* mqtt_session() *)

Goto(where) == pc' = where /\ UNCHANGED <<stage, out>>
Send(packet) == pc' = "send" /\ out' = packet /\ UNCHANGED stage
Await(what) == stage' = what /\ pc' = "header" /\ UNCHANGED out

(* The task sees the link, or MQTT_RECONNECT_MS is over. *)
Start ==
    /\ pc \in {"link", "pause"} /\ Goto("connect")
    /\ UNCHANGED <<config, reader, next_pkt_id, ages, lost, network, history>>

(* tcp_connect(); then CONNECT is the first packet. *)
Connect ==
    /\ pc = "connect"
    /\ \/ pc' = "send" /\ out' = "CONNECT" /\ stage' = "connack"
       \/ Goto("pause")
    /\ UNCHANGED <<config, reader, next_pkt_id, ages, lost, network, history>>

(* The turn of the loop after a packet, or none.  `now` is taken here, and *)
(* a PUBLISH that takes a millisecond makes now - last_tx_ms wrap around,  *)
(* so that a PINGREQ follows it.                                           *)
PingDue_Late == tx >= DeadTime                                  \* mutant
PingDue == tx >= Half
Silence_Never == FALSE                                          \* mutant
Silence == rx >= DeadTime
Onward(over) == Goto(IF over THEN "out" ELSE "header")
Check ==
    /\ pc = "check" /\ quiet' = 0 /\ kind' = Packet("PINGRESP") /\ left' = 0
    /\ \/ /\ stage # "loop"
          /\ Goto(IF waited >= AckTime THEN "out" ELSE "header")
          /\ UNCHANGED <<ages, lost>>
       \/ /\ stage = "loop" /\ lost' = Silence
          /\ \/ /\ publishing /\ pub >= PubTime
                /\ pub' = 0 /\ Send("PUBLISH") /\ UNCHANGED <<tx, rx, waited>>
             \/ /\ ~(publishing /\ pub >= PubTime) /\ UNCHANGED ages
                /\ IF PingDue THEN Send("PINGREQ") ELSE Onward(Silence)
    /\ UNCHANGED <<config, next_pkt_id, network, history>>

(* send_all() has sent the packet; the broker, if there, gets it. *)
Sent ==
    /\ pc = "send" /\ ~gone /\ tx' = 0 /\ quiet' = 0
    /\ asked' = asked \cup ({out} \cap Requests)
    /\ \/ /\ out \in {"CONNECT", "SUBSCRIBE"} /\ waited' = 0
          /\ Await(IF out = "CONNECT" THEN "connack" ELSE "suback")
          /\ UNCHANGED acked
       \/ /\ out = "PUBLISH" /\ (Send("PINGREQ") \/ Onward(lost))
          /\ UNCHANGED <<waited, acked>>
       \/ out = "PINGREQ" /\ Onward(lost) /\ UNCHANGED <<waited, acked>>
       \/ /\ out = "PUBACK" /\ Goto("check")
          /\ acked' = Append(acked, kind.id) /\ UNCHANGED waited
    /\ UNCHANGED <<config, kind, left, next_pkt_id, rx, pub, lost, queue,
                   stream, silent, eof, gone, pubs, owed>>

(* It is the end of the session, but for a PUBACK, whose result nobody     *)
(* looks at: what has already arrived is read, and not acknowledged.       *)
SendFails ==
    /\ pc = "send" /\ (eof \/ "busy" \in faults)
    /\ eof' = TRUE /\ gone' = TRUE
    /\ Goto(IF out = "PUBACK" THEN "check" ELSE "out")
    /\ UNCHANGED <<config, reader, next_pkt_id, ages, lost, asked, queue,
                   stream, silent, history>>

(* recv() has a cell, and last_rx_ms is the time of it. *)
Take == rx' = 0 /\ stream' = Tail(stream)

ReadHeader ==
    /\ pc = "header" /\ stream # <<>> /\ Take
    /\ kind' = IF Head(stream).is = "header" THEN Head(stream).of
                ELSE Packet("junk")
    /\ quiet' = 0 /\ Goto("length")
    /\ UNCHANGED <<config, left, next_pkt_id, tx, pub, waited, lost, asked,
                   queue, silent, eof, gone, history>>

(* The remaining length, and whether the buffer can hold the body. *)
ReadLength ==
    /\ pc = "length" /\ stream # <<>> /\ Take
    /\ Head(stream).is = "length" /\ left' = Head(stream).of
    /\ quiet' = 0 /\ Goto(IF left' > Cap THEN "drop" ELSE "body")
    /\ UNCHANGED <<config, kind, next_pkt_id, tx, pub, waited, lost, asked,
                   queue, silent, eof, gone, history>>

(* A chunk of the body; drop_bytes() does the same and keeps nothing. *)
DropLeft_Cap == IF pc = "drop" THEN left - 1 ELSE left          \* mutant
DropLeft == left
ReadBody ==
    /\ pc \in {"body", "drop"} /\ DropLeft > 0 /\ stream # <<>> /\ Take
    /\ left' = left - 1 /\ quiet' = 0 /\ Goto(pc)
    /\ UNCHANGED <<config, kind, next_pkt_id, tx, pub, waited, lost, asked,
                   queue, silent, eof, gone, history>>

(* A dropped packet counts as none. *)
Dropped ==
    /\ pc = "drop" /\ DropLeft = 0 /\ Goto("check")
    /\ UNCHANGED <<config, reader, next_pkt_id, ages, lost, network, history>>

(* The packet is whole: the one waited for, a publication, or one that     *)
(* only shows the broker is alive.                                         *)
NextId == IF next_pkt_id + 1 = PktIds THEN 1 ELSE next_pkt_id + 1
Subscribe ==
    \/ subscribing /\ Send("SUBSCRIBE") /\ next_pkt_id' = NextId
       /\ UNCHANGED pub
    \/ ~subscribing /\ Await("loop") /\ pub' = 0 /\ UNCHANGED next_pkt_id
Whole ==
    /\ pc = "body" /\ left = 0
    /\ \/ kind.type = "CONNACK" /\ stage = "connack" /\ Subscribe
       \/ /\ kind.type = "SUBACK" /\ stage = "suback"
          /\ Await("loop") /\ pub' = 0 /\ UNCHANGED next_pkt_id
       \/ /\ kind.type = "REFUSED" /\ Goto("out") /\ UNCHANGED <<pub, next_pkt_id>>
       \/ /\ kind.type = "PUBLISH" /\ UNCHANGED <<pub, next_pkt_id>>
          /\ IF kind.qos = 1 THEN Send("PUBACK") ELSE Goto("check")
       \/ /\ kind.type = "PINGRESP" /\ Goto("check") /\ UNCHANGED <<pub, next_pkt_id>>
    /\ UNCHANGED <<config, reader, tx, rx, waited, lost, network, history>>

(* SO_RCVTIMEO: between packets none has come, inside one half a packet    *)
(* cannot be resumed; or the peer has closed.                              *)
Idle ==
    /\ pc = "header" /\ stream = <<>> /\ quiet > 0 /\ Goto("check")
    /\ UNCHANGED <<config, reader, next_pkt_id, ages, lost, network, history>>
Cut ==
    /\ Blocked /\ (eof \/ (quiet >= AckTime /\ pc # "header"))
    /\ Goto("out")
    /\ UNCHANGED <<config, reader, next_pkt_id, ages, lost, network, history>>

CloseSession ==
    /\ pc = "out" /\ Goto("pause") /\ Fresh /\ Forget
    /\ UNCHANGED <<config, next_pkt_id>>

Task ==
    \/ Start \/ Connect \/ Check \/ Sent \/ SendFails \/ ReadHeader
    \/ ReadLength \/ ReadBody \/ Dropped \/ Whole \/ Idle \/ Cut
    \/ CloseSession
Next == Answer \/ Publication \/ Deliver \/ Leave \/ Tick \/ Task

Spec == Init /\ [][Next]_vars

(* Time passes, and the task runs: send() is done or fails in the end, as  *)
(* the chip gives a connection up that acknowledges nothing.               *)
Fairness == WF_vars(Tick) /\ WF_vars(Task)
FairSpec == Spec /\ Fairness

-----------------------------------------------------------------------------
(* The client finds the packets in the stream, the ones it cannot hold     *)
(* included: it acknowledges the publications of QoS 1 that it holds, in   *)
(* their order, none twice (mqtt.c:204-279, 382-420).                      *)
AcksInOrder ==
    /\ Len(acked) <= Len(owed)
    /\ acked = SubSeq(owed, 1, Len(acked))
    /\ kind.type # "junk"

(* The broker has no reason to drop the client, whatever it sends: less    *)
(* than 1.5 keep-alive intervals go by between two packets of the client,  *)
(* as long as packets arrive whole and send() is not held up (:583-588).   *)
KeptAlive ==
    pc \notin {"link", "connect", "out", "pause"}
        /\ faults \cap {"trickle", "busy"} = {} => tx < DeadTime

(* A connection that is dead although the socket has not said so is given  *)
(* up, and the client connects again (:589-595).                           *)
DeadNoticed == silent ~> (pc = "connect")

=============================================================================
