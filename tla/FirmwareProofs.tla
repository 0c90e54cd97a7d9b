---------------------------- MODULE FirmwareProofs ----------------------------
(***************************************************************************)
(* Proofs about the examples, each of the program that is on the board,    *)
(* for every value of the constants.                                       *)
(***************************************************************************)
EXTENDS MCFirmware, Integers, Sequences, SequenceTheorems, TLAPS

-----------------------------------------------------------------------------
(* A step of the board is one of the program on it, and changes nothing of *)
(* any other program.                                                      *)
LEMMA OneProgram ==
    ASSUME [Next]_all
    PROVE  /\ T!Next \/ UNCHANGED tftp_vars
           /\ Q!Next \/ UNCHANGED mqtt_vars
           /\ P!Next \/ UNCHANGED pppoe_vars
           /\ D!Next \/ UNCHANGED dhcp_vars
           /\ S!Next \/ UNCHANGED tcp_vars
           /\ U!Next \/ UNCHANGED upnp_vars
           /\ V!Next \/ UNCHANGED udp_vars
<1>1. CASE UNCHANGED all
  BY <1>1 DEF all
<1>2. CASE Is("tftp") /\ T!Next /\ On("tftp")
  BY <1>2 DEF On
<1>3. CASE Is("mqtt") /\ Q!Next /\ On("mqtt")
  BY <1>3 DEF On
<1>4. CASE Is("pppoe") /\ P!Next /\ On("pppoe")
  BY <1>4 DEF On
<1>5. CASE Is("dhcp") /\ D!Next /\ On("dhcp")
  BY <1>5 DEF On
<1>6. CASE Is("lan") /\ C!Next /\ On("lan")
  BY <1>6 DEF On
<1>7. CASE Is("tcp") /\ S!Next /\ On("tcp")
  BY <1>7 DEF On
<1>8. CASE Is("upnp") /\ U!Next /\ On("upnp")
  BY <1>8 DEF On
<1>9. CASE Is("udp") /\ V!Next /\ On("udp")
  BY <1>9 DEF On
<1> QED BY <1>1, <1>2, <1>3, <1>4, <1>5, <1>6, <1>7, <1>8, <1>9 DEF Next

-----------------------------------------------------------------------------
(* Tftp *)

(* A file of at least one block, and fewer than block numbers wrap at; no   *)
(* server that still repeats the end of another transfer.                  *)
Counted == last \in Nat /\ 1 <= last /\ last < Wrap /\ leftover = 0

Saved == Len(saved)

(* The client is at most one block behind the server, whichever session it *)
(* talks to: a session sends a block only when the one before has been     *)
(* acknowledged, and what has been acknowledged has been saved.            *)
Behind ==
    /\ served \in [Sessions -> Int]
    /\ \A p \in Sessions : served[p] <= Saved + 1
    /\ acks \subseteq (Sessions \cup {T!Old}) \X Nat
    /\ \A a \in acks : a[2] <= Saved

(* Where the transfer is, by the client's state: the request has been       *)
(* answered only in DATA, and the file is not complete before NONE.         *)
Stage ==
    /\ state \in {"NONE", "RRQ", "OACK", "DATA"}
    /\ tftp_step = "link"
         => state = "NONE" /\ Saved = 0 /\ progress = "PROGRESS"
    /\ state \in {"RRQ", "OACK"} => Saved = 0
    /\ state # "NONE" => Saved < last
    /\ state = "DATA" => block = Saved
    /\ block \in Nat /\ block <= Saved
    /\ port \in Sessions \cup {T!Old}
    /\ progress = "SUCCESS" => state = "NONE" /\ Saved = last
    /\ tftp_outcome = "received" => Saved = last

FileInv ==
    /\ saved \in Seq(Nat) /\ saved = [i \in 1 .. Saved |-> i]
    /\ Behind /\ Stage

TftpInv == Counted => FileInv

TftpTyped == last \in 1 .. MaxBlocks

(* The datagrams that may arrive, when the server is not one of an earlier  *)
(* transfer: a block of the file, no further than the next one.             *)
LEMMA TftpArrives ==
    ASSUME Wrap \in Nat, Counted, FileInv, NEW m \in T!Arriving
    PROVE  /\ m.port \in Sessions
           /\ m.op = "DATA" => /\ m.index \in 1 .. last /\ m.num = m.index
                               /\ m.index <= Saved + 1
                               /\ m.short <=> m.index = last
<1>1. CASE m \in {T!Packet(q[1], "DATA", q[2], q[2] = last) :
             q \in {r \in Sessions \X (1 .. last) : r[2] <= served[r[1]]}}
  <2>1. PICK q \in Sessions \X (1 .. last) :
          q[2] <= served[q[1]] /\ m = T!Packet(q[1], "DATA", q[2], q[2] = last)
    BY <1>1
  <2>2. PICK p \in Sessions, i \in 1 .. last :
          i <= served[p] /\ m = T!Packet(p, "DATA", i, i = last)
    BY <2>1
  <2>3. i \in Nat /\ i < Wrap
    BY DEF Counted
  <2>4. i % Wrap = i
    BY <2>3
  <2>5. i <= Saved + 1
    BY <2>2, <2>3 DEF FileInv, Behind, Saved
  <2> QED BY <2>2, <2>4, <2>5 DEF T!Packet
<1>2. CASE m \notin {T!Packet(q[1], "DATA", q[2], q[2] = last) :
             q \in {r \in Sessions \X (1 .. last) : r[2] <= served[r[1]]}}
  <2>1. PICK p \in Sessions :
          \/ m = T!Packet(p, "OACK", 0, FALSE)
          \/ m = T!Packet(p, "ERROR", 0, FALSE)
    BY <1>2 DEF T!Arriving, Counted
  <2> QED BY <2>1 DEF T!Packet
<1> QED BY <1>1, <1>2

(* What the task makes of the protocol's result *)
LEMMA TftpReports ==
    ASSUME T!Report
    PROVE  /\ tftp_step' \in {"timeout", "done"}
           /\ tftp_outcome' = "received" => progress' = "SUCCESS"
<1>1. CASE progress' = "SUCCESS"
  BY <1>1 DEF T!Report
<1>2. CASE progress' = "FAIL"
  BY <1>2 DEF T!Report
<1>3. CASE progress' \notin {"SUCCESS", "FAIL"}
  BY <1>3 DEF T!Report
<1> QED BY <1>1, <1>2, <1>3

(* A block arrives: the next one is saved, every other one is one the       *)
(* client has, and the short one is the last.                              *)
LEMMA TftpDataStep ==
    ASSUME Wrap \in Nat, Counted, FileInv, NEW m \in T!Arriving, T!RecvData(m),
           T!Report, UNCHANGED <<last, options, leftover, served>>
    PROVE  FileInv'
<1>1. /\ m.port \in Sessions /\ m.num = m.index /\ m.index \in Nat
      /\ 1 <= m.index /\ m.index <= last /\ m.index <= Saved + 1
      /\ (m.short <=> m.index = last)
  BY TftpArrives DEF T!RecvData, Counted
<1>2. Saved \in Nat /\ Saved < last /\ last \in Nat /\ T!NextNum = Saved + 1
  BY DEF FileInv, Stage, T!NextNum, T!RecvData, Counted
<1>3. PICK from \in Sessions \cup {T!Old} :
        /\ acks' = acks \cup {<<from, m.num>>}
        /\ m.short \/ port' = from
  BY <1>1 DEF T!RecvData, T!Ack, FileInv, Stage
<1>4. CASE T!Expected(m)
  <2>1. m.index = Saved + 1 /\ saved' = Append(saved, Saved + 1)
    BY <1>1, <1>2, <1>4 DEF T!Expected, T!RecvData
  <2>2. /\ Saved' = Saved + 1 /\ saved' \in Seq(Nat)
        /\ saved' = [i \in 1 .. Saved + 1 |-> i]
    BY <1>2, <2>1 DEF FileInv, Saved
  <2>3. Behind'
    BY <1>1, <1>2, <1>3, <2>1, <2>2 DEF FileInv, Behind
  <2>4. ASSUME m.short PROVE Stage'
    <3>1. Saved' = last /\ T!InitTftp("SUCCESS")
      BY <1>1, <1>2, <2>1, <2>2, <2>4 DEF T!RecvData
    <3> QED BY <1>2, <3>1, TftpReports DEF T!InitTftp, Stage, Counted
  <2>5. ASSUME ~m.short PROVE Stage'
    <3>1. /\ state' = "DATA" /\ block' = Saved + 1 /\ port' = from
          /\ progress' = progress /\ last' = last /\ Saved + 1 < last
      BY <1>1, <1>2, <1>3, <1>4, <2>1, <2>5 DEF T!RecvData
    <3>2. progress # "SUCCESS"
      BY DEF FileInv, Stage, T!RecvData
    <3> QED BY <1>2, <2>2, <3>1, <3>2, TftpReports DEF Stage
  <2> QED BY <2>2, <2>3, <2>4, <2>5 DEF FileInv
<1>5. CASE ~T!Expected(m)
  <2>1. m.index <= Saved /\ ~m.short /\ saved' = saved
    BY <1>1, <1>2, <1>5 DEF T!Expected, T!RecvData
  <2>2. Saved' = Saved
    BY <2>1 DEF Saved
  <2>3. Behind'
    BY <1>1, <1>2, <1>3, <2>1, <2>2 DEF FileInv, Behind
  <2>4. /\ UNCHANGED <<state, block, progress, last>> /\ port' = from
        /\ progress # "SUCCESS"
    BY <1>3, <1>5, <2>1 DEF T!RecvData, FileInv, Stage
  <2>5. Stage'
    BY <1>2, <1>3, <2>2, <2>4, TftpReports DEF Stage, FileInv
  <2> QED BY <2>1, <2>2, <2>3, <2>5 DEF FileInv
<1> QED BY <1>4, <1>5

(* Every step of the client, the tick and the server keeps the invariant. *)
LEMMA TftpStep ==
    ASSUME Wrap \in Nat, TftpInv, T!Next \/ UNCHANGED tftp_vars
    PROVE  TftpInv'
<1> SUFFICES ASSUME Counted' PROVE FileInv'
  BY DEF TftpInv
<1>0. Counted /\ FileInv /\ UNCHANGED <<last, options, leftover>>
  <2>1. UNCHANGED <<last, options, leftover>>
    BY DEF T!Next, tftp_vars, T!server, T!OpenSession, T!ServeNext, T!Tick,
       T!Client, T!Request, T!RunTimeout, T!RunReceive
  <2> QED BY <2>1 DEF TftpInv, Counted
<1>n. Saved \in Nat
  BY <1>0 DEF FileInv, Saved
<1>s. ASSUME saved' = saved PROVE Saved' = Saved
  BY <1>s DEF Saved
<1>b. ASSUME saved' = saved, acks' = acks, served' = served PROVE Behind'
  BY <1>0, <1>s, <1>b DEF FileInv, Behind
<1>c. ASSUME saved' = saved, UNCHANGED <<T!client, tftp_outcome>>,
             tftp_step' # "link" \/ tftp_step' = tftp_step
      PROVE  Stage'
  BY <1>0, <1>s, <1>c DEF FileInv, Stage, T!client
<1>i. ASSUME saved' = saved, Stage', Behind' PROVE FileInv'
  BY <1>0, <1>s, <1>i DEF FileInv
<1>1. CASE UNCHANGED <<served, acks, tftp_step, T!client, saved, tftp_outcome>>
  BY <1>1, <1>b, <1>c, <1>i
<1>2. CASE T!OpenSession
  <2>1. PICK p \in Sessions, k \in {0, 1, T!Refused} :
          served' = [served EXCEPT ![p] = k]
    BY <1>2 DEF T!OpenSession
  <2>2. UNCHANGED <<acks, tftp_step, T!client, saved, tftp_outcome>>
    BY <1>2 DEF T!OpenSession
  <2>3. k \in Int /\ k <= Saved + 1
    BY <1>n DEF T!Refused
  <2>4. Behind'
    BY <1>0, <1>s, <2>1, <2>2, <2>3 DEF FileInv, Behind
  <2> QED BY <2>2, <2>4, <1>c, <1>i
<1>3. CASE T!ServeNext
  <2>1. PICK p \in Sessions :
          /\ served[p] >= 0 /\ served[p] < last
          /\ <<p, served[p] % Wrap>> \in acks
          /\ served' = [served EXCEPT ![p] = served[p] + 1]
    BY <1>3 DEF T!ServeNext
  <2>2. served[p] \in Int
    BY <1>0 DEF FileInv, Behind
  <2>3. PICK k \in Nat : k = served[p] /\ k < Wrap
    BY <1>0, <2>1, <2>2 DEF Counted
  <2>4. k % Wrap = k
    BY <2>3
  <2>5. <<p, k>> \in acks
    BY <2>1, <2>3, <2>4
  <2>6. k <= Saved
    BY <1>0, <2>5 DEF FileInv, Behind
  <2>7. UNCHANGED <<acks, tftp_step, T!client, saved, tftp_outcome>>
    BY <1>3 DEF T!ServeNext
  <2>8. Behind'
    BY <1>0, <1>n, <1>s, <2>1, <2>3, <2>6, <2>7 DEF FileInv, Behind
  <2> QED BY <2>7, <2>8, <1>c, <1>i
<1>4. CASE T!Tick
  BY <1>1, <1>4 DEF T!Tick, T!server
<1>5. CASE T!Request
  <2>1. /\ tftp_step = "link" /\ tftp_step' = "timeout" /\ state' = "RRQ"
        /\ UNCHANGED <<served, acks, block, port, progress, saved,
                       tftp_outcome>>
    BY <1>5 DEF T!Request, T!server
  <2>2. Stage'
    BY <1>0, <1>s, <2>1 DEF FileInv, Stage, Counted
  <2> QED BY <1>b, <1>i, <2>1, <2>2
<1>6. CASE T!RunTimeout
  <2>1. acks' = acks \/ acks' = acks \cup {<<port, block>>}
    BY <1>6 DEF T!RunTimeout, T!Ack
  <2>2. /\ UNCHANGED <<served, saved, tftp_outcome>>
        /\ tftp_step' = "receive" /\ Saved' = Saved
    BY <1>6 DEF T!RunTimeout, Saved
  <2>3. Behind'
    BY <1>0, <1>n, <2>1, <2>2 DEF FileInv, Behind, Stage
  <2>4. UNCHANGED T!client \/ T!InitTftp("FAIL")
    BY <1>6 DEF T!RunTimeout
  <2>5. ASSUME T!InitTftp("FAIL") PROVE Stage'
    BY <1>0, <1>n, <2>2, <2>5 DEF FileInv, Stage, T!InitTftp
  <2> QED BY <1>c, <1>i, <2>2, <2>3, <2>4, <2>5
<1>7. CASE T!RunReceive
  <2>1. T!Report /\ UNCHANGED <<last, options, leftover, served>>
    BY <1>7 DEF T!RunReceive
  <2>2. CASE UNCHANGED <<acks, T!client, saved>>
    <3>1. Stage'
      BY <1>0, <1>s, <2>1, <2>2, TftpReports DEF FileInv, Stage, T!client
    <3> QED BY <1>b, <1>i, <2>1, <2>2, <3>1
  <2>3. ASSUME NEW m \in T!Arriving, T!RecvData(m) PROVE FileInv'
    BY <1>0, <2>1, <2>3, TftpDataStep
  <2>4. ASSUME NEW m \in T!Arriving, T!RecvOack(m) PROVE FileInv'
    <3>1. m.port \in Sessions
      BY <1>0, TftpArrives
    <3>2. /\ state = "RRQ" /\ state' = "OACK" /\ port' = m.port
          /\ acks' = acks \cup {<<m.port, 0>>}
          /\ UNCHANGED <<block, progress, saved>>
      BY <2>4 DEF T!RecvOack, T!Ack
    <3>3. Behind'
      BY <1>0, <1>n, <1>s, <2>1, <3>1, <3>2 DEF FileInv, Behind
    <3>4. Stage'
      BY <1>0, <1>s, <2>1, <3>1, <3>2, TftpReports DEF FileInv, Stage
    <3> QED BY <1>i, <3>2, <3>3, <3>4
  <2>5. ASSUME NEW m \in T!Arriving, T!RecvError(m) PROVE FileInv'
    <3>1. T!InitTftp("FAIL") /\ UNCHANGED <<acks, saved, served>>
      BY <2>1, <2>5 DEF T!RecvError
    <3>2. Stage'
      BY <1>n, <1>s, <2>1, <3>1, TftpReports DEF T!InitTftp, Stage
    <3> QED BY <1>b, <1>i, <3>1, <3>2
  <2> QED BY <1>7, <2>2, <2>3, <2>4, <2>5 DEF T!RunReceive, T!Ignored
<1> QED BY <1>1, <1>2, <1>3, <1>4, <1>5, <1>6, <1>7
        DEF T!Next, T!Client, T!client, tftp_vars

(* A file reported as received is complete, each block once and in order,   *)
(* for every length below the wrap of the block numbers, every number of    *)
(* sessions the repeated requests open, and whatever the network loses,    *)
(* repeats and reorders.                                                    *)
THEOREM ReceivedIsWhole == FairSpec => []WholeFile
<1>1. Init => TftpInv
  <2>1. SUFFICES ASSUME Init, Counted PROVE FileInv
    BY DEF TftpInv
  <2>2. T!Init
    BY <2>1 DEF Init
  <2>3. Saved = 0 /\ saved \in Seq(Nat) /\ saved = [i \in 1 .. 0 |-> i]
    BY <2>2 DEF T!Init, Saved
  <2> QED BY <2>1, <2>2, <2>3
          DEF T!Init, Counted, FileInv, Behind, Stage, T!Unasked, T!Old
<1>2. TftpInv /\ [Next]_all => TftpInv'
  BY TftpStep, OneProgram, FileAssumption
<1>3. TftpInv /\ TftpTyped => WholeFile
  BY FileAssumption
     DEF TftpInv, Counted, FileInv, Stage, Saved, WholeFile, T!WholeFile,
         TftpTyped
<1>4. Init => TftpTyped
  BY DEF Init, T!Init, TftpTyped
<1>5. TftpTyped /\ [Next]_all => TftpTyped'
  <2>1. ASSUME T!Next \/ UNCHANGED tftp_vars
        PROVE  UNCHANGED last
    BY <2>1 DEF T!Next, tftp_vars, T!server, T!OpenSession, T!ServeNext,
       T!Tick, T!Client, T!Request, T!RunTimeout, T!RunReceive
  <2> QED BY <2>1, OneProgram DEF TftpTyped
<1> QED BY <1>1, <1>2, <1>3, <1>4, <1>5, PTL DEF FairSpec

-----------------------------------------------------------------------------
(* Upnp *)

(* Where the task is when it can have reported something, and what it has  *)
(* reported while another one's entry is in the way.                       *)
MappingInv ==
    /\ gateway \in BOOLEAN
    /\ upnp_at \notin {"delete", "done"} => upnp_outcome = "none"
    /\ upnp_at = "delete" => upnp_outcome = "mapped"
    /\ TrueReport

(* AddPort: an answer tells what the router has done, or is garbled. *)
LEMMA AddStep ==
    ASSUME MappingInv, U!AddPort
    PROVE  MappingInv'
<1>1. PICK a \in U!Answers : U!Answer(a) /\ upnp_outcome' \in U!Reports(a)
  BY DEF U!AddPort
<1>2. /\ upnp_at' = IF upnp_outcome' = "mapped" THEN "delete" ELSE "done"
      /\ entry' = IF obeyed' THEN "us" ELSE entry
      /\ UNCHANGED gateway
  BY DEF U!AddPort
<1>3. a \in {"none", "cut", "bad", "error", "whole"}
  BY <1>1 DEF U!Answers
<1>4. ~garbled' =>
        /\ upnp_outcome' = "mapped" => entry' = "us"
        /\ upnp_outcome' = "removed" => entry' = "free"
        /\ upnp_outcome' = "refused" => ~obeyed'
  <2>1. CASE a \in {"cut", "bad"}
    BY <1>1, <2>1 DEF U!Answer
  <2>2. CASE a = "none"
    BY <1>1, <2>2 DEF U!Reports, U!Confirmed, U!Unread
  <2>3. CASE a = "error"
    BY <1>1, <2>3 DEF U!Answer, U!Reports, U!Confirmed
  <2>4. CASE a = "whole"
    BY <1>1, <1>2, <2>4 DEF U!Answer, U!Reports, U!Confirmed
  <2> QED BY <1>3, <2>1, <2>2, <2>3, <2>4
<1> QED BY <1>2, <1>4 DEF MappingInv, TrueReport, U!TrueReport

(* DeletePort: likewise, and a mapping that is left is the one reported.   *)
LEMMA DeleteStep ==
    ASSUME MappingInv, U!DeletePort
    PROVE  MappingInv'
<1>1. upnp_at' = "done" /\ UNCHANGED gateway
  BY DEF U!DeletePort
<1>2. CASE UNCHANGED <<entry, U!report>>
  BY <1>1, <1>2 DEF MappingInv, TrueReport, U!TrueReport, U!report
<1>3. ASSUME NEW a \in U!Answers, NEW confirmed \in BOOLEAN,
             U!Answer(a), confirmed \in U!Confirmed(a),
             upnp_outcome' =
               IF confirmed THEN "removed" ELSE "delete_failed",
             entry' = IF obeyed' THEN "free" ELSE entry
      PROVE  MappingInv'
  <2>1. a \in {"none", "cut", "bad", "error", "whole"}
    BY DEF U!Answers
  <2>2. ~garbled' /\ upnp_outcome' = "removed" => entry' = "free"
    <3>1. CASE a \in {"cut", "bad"}
      BY <1>3, <3>1 DEF U!Answer
    <3>2. CASE a \in {"none", "error"}
      <4>1. ~confirmed
        BY <1>3, <3>2 DEF U!Confirmed
      <4> QED BY <1>3, <4>1
    <3>3. CASE a = "whole"
      BY <1>3, <3>3 DEF U!Answer
    <3> QED BY <2>1, <3>1, <3>2, <3>3
  <2>3. upnp_outcome' \in {"removed", "delete_failed"}
    BY <1>3
  <2> QED BY <1>1, <2>2, <2>3 DEF MappingInv, TrueReport, U!TrueReport
<1> QED BY <1>2, <1>3 DEF U!DeletePort

(* Every step of the task and the router keeps the report true. *)
LEMMA MappingStep ==
    ASSUME MappingInv, U!Next \/ UNCHANGED upnp_vars
    PROVE  MappingInv'
<1>1. CASE \/ UNCHANGED upnp_vars \/ U!LinkUp \/ U!Discover \/ U!Describe
           \/ U!Subscribe \/ U!NoListener \/ U!Listen \/ U!Acknowledge
           \/ U!Notify
  <2>1. UNCHANGED <<gateway, entry, garbled, obeyed, upnp_outcome>>
    BY <1>1 DEF upnp_vars, U!LinkUp, U!Discover, U!Describe, U!Subscribe,
       U!NoListener, U!Listen, U!Acknowledge, U!Notify, U!router, U!report
  <2>2. \/ UNCHANGED upnp_at
        \/ upnp_at \notin {"delete", "done"} /\ upnp_at' # "delete"
    BY <1>1 DEF upnp_vars, U!LinkUp, U!Discover, U!Describe, U!Subscribe,
       U!NoListener, U!Listen, U!Acknowledge, U!Notify
  <2> QED BY <2>1, <2>2 DEF MappingInv, TrueReport, U!TrueReport
<1> QED BY <1>1, AddStep, DeleteStep DEF U!Next, U!Client

(* What the UPnP task reports of the mapping is what the router has done,  *)
(* whatever answers are lost or refuse, unless the last was cut off or is  *)
(* no answer at all.                                                       *)
THEOREM ReportIsTrue == FairSpec => []TrueReport
<1>1. Init => MappingInv
  BY DEF Init, U!Init, MappingInv, TrueReport, U!TrueReport
<1>2. MappingInv /\ [Next]_all => MappingInv'
  BY MappingStep, OneProgram
<1>3. MappingInv => TrueReport
  BY DEF MappingInv
<1> QED BY <1>1, <1>2, <1>3, PTL DEF FairSpec

-----------------------------------------------------------------------------
(* DhcpDns *)

AnyServer == Servers \cup {NoServer}
LeaseClients ==
    [state : {"SELECTING", "REQUESTING", "BOUND"}, xid : {0, 1}, tries : Nat,
     due : BOOLEAN, renew : BOOLEAN, server_id : AnyServer,
     offered : AnyServer, lease : (Interfaces \X AnyServer) \cup {NoServer}]
LeaseMessages ==
    [from : Interfaces, xid : {0, 1}, type : {"DISCOVER", "REQUEST"},
     server_id : AnyServer, ip : AnyServer]

(* What interface i, whose client is k, has asked for in the transaction    *)
(* that is open is the address it was offered there; and what it holds is  *)
(* what it has asked for.  `msgs' is what the servers have been sent.      *)
AsksOffered(i, k, msgs) ==
    \A m \in msgs :
        m.from = i /\ m.xid = k.xid /\ m.type = "REQUEST"
            => k.state # "SELECTING" /\ m.ip = k.offered
HoldsAsked(i, k, msgs) ==
    k.state = "BOUND" =>
        /\ k.lease = <<i, k.offered>>
        /\ \E m \in msgs : /\ m.from = i /\ m.xid = k.xid
                           /\ m.type = "REQUEST" /\ D!Proper(m, k.offered)

LeaseInv ==
    /\ setup \in Setups
    /\ c \in [Interfaces -> LeaseClients]
    /\ sent \subseteq LeaseMessages
    /\ \A i \in Interfaces : /\ AsksOffered(i, c[i], sent)
                             /\ HoldsAsked(i, c[i], sent)

(* One client changes, and only its own messages are sent or forgotten.    *)
LEMMA OneClient ==
    ASSUME LeaseInv, NEW i \in Interfaces, NEW k \in LeaseClients,
           c' = [c EXCEPT ![i] = k], setup' = setup,
           sent' \subseteq LeaseMessages,
           \A m \in LeaseMessages : m.from # i => (m \in sent' <=> m \in sent),
           AsksOffered(i, k, sent'), HoldsAsked(i, k, sent')
    PROVE  LeaseInv'
<1>1. c' \in [Interfaces -> LeaseClients]
  BY DEF LeaseInv
<1>2. ASSUME NEW j \in Interfaces
      PROVE  AsksOffered(j, c'[j], sent') /\ HoldsAsked(j, c'[j], sent')
  <2>1. CASE j = i
    <3>1. c'[j] = k
      BY <2>1 DEF LeaseInv
    <3> QED BY <2>1, <3>1
  <2>2. CASE j # i
    <3>1. c'[j] = c[j]
      BY <2>2 DEF LeaseInv
    <3>2. AsksOffered(j, c[j], sent) /\ HoldsAsked(j, c[j], sent)
      BY DEF LeaseInv
    <3>3. \A m \in LeaseMessages : m.from = j => (m \in sent' <=> m \in sent)
      BY <2>2
    <3>4. sent \subseteq LeaseMessages
      BY DEF LeaseInv
    <3>5. AsksOffered(j, c[j], sent')
      BY <3>2, <3>3 DEF AsksOffered
    <3>6. HoldsAsked(j, c[j], sent')
      BY <3>2, <3>3, <3>4 DEF HoldsAsked
    <3> QED BY <3>1, <3>5, <3>6
  <2> QED BY <2>1, <2>2
<1> QED BY <1>1, <1>2 DEF LeaseInv

(* dhcp_enter_selecting() draws the other xid.                             *)
LEMMA SelectingIs ==
    ASSUME NEW k \in LeaseClients
    PROVE  /\ D!Selecting(k) \in LeaseClients
           /\ D!Selecting(k).state = "SELECTING"
           /\ D!Selecting(k).xid = 1 - k.xid
           /\ D!Selecting(k).due = TRUE /\ D!Selecting(k).tries = 0
<1>1. 1 - k.xid \in {0, 1}
  BY DEF LeaseClients
<1>2. NoServer \in AnyServer
  BY DEF AnyServer
<1> QED BY <1>1, <1>2 DEF D!Selecting, LeaseClients

(* Nothing has been sent in a transaction that begins. *)
LEMMA Begins ==
    ASSUME LeaseInv, NEW i \in Interfaces, NEW k \in LeaseClients
    PROVE  LET new == D!Selecting(k)
               msgs == D!Forget(i, new.xid)
           IN  /\ msgs \subseteq LeaseMessages
               /\ \A m \in LeaseMessages :
                     m.from # i => (m \in msgs <=> m \in sent)
               /\ AsksOffered(i, new, msgs) /\ HoldsAsked(i, new, msgs)
<1> DEFINE new == D!Selecting(k)
           msgs == D!Forget(i, new.xid)
<1>1. new.state = "SELECTING"
  BY SelectingIs
<1> HIDE DEF new
<1>2. \A m : m \in msgs <=> m \in sent /\ ~(m.from = i /\ m.xid = new.xid)
  BY DEF D!Forget
<1> HIDE DEF msgs
<1>3. msgs \subseteq LeaseMessages
      /\ \A m \in LeaseMessages : m.from # i => (m \in msgs <=> m \in sent)
  BY <1>2 DEF LeaseInv
<1>4. AsksOffered(i, new, msgs)
  BY <1>2 DEF AsksOffered
<1>5. HoldsAsked(i, new, msgs)
  BY <1>1 DEF HoldsAsked
<1> QED BY <1>3, <1>4, <1>5 DEF new, msgs

(* dhcp_enter_selecting(): another transaction, in which nothing is held. *)
LEMMA EnterStep ==
    ASSUME LeaseInv, NEW i \in Interfaces, NEW k \in LeaseClients,
           D!EnterSelecting(i, k), setup' = setup
    PROVE  LeaseInv'
<1>1. /\ c' = [c EXCEPT ![i] = D!Selecting(k)]
      /\ sent' = D!Forget(i, D!Selecting(k).xid)
  BY DEF D!EnterSelecting
<1>2. D!Selecting(k) \in LeaseClients
  BY SelectingIs
<1> QED BY <1>1, <1>2, Begins, OneClient

(* Transmit: a message of the transaction asks for what was offered in it. *)
LEMMA TransmitStep ==
    ASSUME LeaseInv, NEW i \in Interfaces, D!Transmit(i)
    PROVE  LeaseInv'
<1> DEFINE k == IF c[i].state = "BOUND" THEN D!Selecting(c[i]) ELSE c[i]
           was == IF c[i].state = "BOUND" THEN D!Forget(i, k.xid) ELSE sent
           type == IF k.state = "SELECTING" THEN "DISCOVER" ELSE "REQUEST"
           msg == D!Message(i, k.xid, type, k.server_id, k.offered)
           next == [k EXCEPT !.tries = @ + 1, !.due = FALSE]
<1>1. c[i] \in LeaseClients /\ AsksOffered(i, c[i], sent)
      /\ sent \subseteq LeaseMessages
  BY DEF LeaseInv
<1>2. k \in LeaseClients /\ k.state # "BOUND"
  BY <1>1, SelectingIs DEF LeaseClients
<1>3. /\ was \subseteq LeaseMessages
      /\ \A m \in LeaseMessages : m.from # i => (m \in was <=> m \in sent)
      /\ AsksOffered(i, k, was)
  <2>1. CASE c[i].state = "BOUND"
    BY <1>1, <2>1, Begins
  <2>2. CASE c[i].state # "BOUND"
    BY <1>1, <2>2
  <2> QED BY <2>1, <2>2
<1>4. /\ setup' = setup
      /\ \/ c' = [c EXCEPT ![i] = k] /\ sent' = was
         \/ c' = [c EXCEPT ![i] = next] /\ sent' = was \cup {msg}
         \/ D!EnterSelecting(i, k)
  BY DEF D!Transmit
<1> HIDE DEF k, was
<1>5. CASE c' = [c EXCEPT ![i] = k] /\ sent' = was
  <2>1. HoldsAsked(i, k, was)
    BY <1>2 DEF HoldsAsked
  <2> QED BY <1>2, <1>3, <1>4, <1>5, <2>1, OneClient
<1>6. CASE c' = [c EXCEPT ![i] = next] /\ sent' = was \cup {msg}
  <2>1. /\ next \in LeaseClients /\ next.state = k.state
        /\ next.xid = k.xid /\ next.offered = k.offered
    <3>1. k.tries + 1 \in Nat
      BY <1>2 DEF LeaseClients
    <3>2. next \in LeaseClients
      BY <1>2, <3>1 DEF LeaseClients
    <3>3. DOMAIN k = {"state", "xid", "tries", "due", "renew", "server_id",
                      "offered", "lease"}
      BY <1>2 DEF LeaseClients
    <3> QED BY <3>2, <3>3
  <2>2. type \in {"DISCOVER", "REQUEST"}
        /\ (type = "REQUEST" => k.state # "SELECTING")
    OBVIOUS
  <2>3. /\ msg \in LeaseMessages
        /\ msg.from = i /\ msg.type = type /\ msg.ip = k.offered
    BY <1>2, <2>2 DEF D!Message, LeaseMessages, LeaseClients
  <2> HIDE DEF next, msg, type
  <2>4. sent' \subseteq LeaseMessages
        /\ \A m \in LeaseMessages : m.from # i => (m \in sent' <=> m \in sent)
    BY <1>3, <1>6, <2>3
  <2>5. AsksOffered(i, next, sent')
    BY <1>3, <1>6, <2>1, <2>2, <2>3 DEF AsksOffered
  <2>6. HoldsAsked(i, next, sent')
    BY <1>2, <2>1 DEF HoldsAsked
  <2> QED BY <1>4, <1>6, <2>1, <2>4, <2>5, <2>6, OneClient
<1>7. CASE D!EnterSelecting(i, k)
  BY <1>2, <1>4, <1>7, EnterStep
<1> QED BY <1>4, <1>5, <1>6, <1>7

(* The replies that may arrive come from a server, and an ACK answers a     *)
(* request for the server's own address.                                   *)
LEMMA RepliesAre ==
    ASSUME LeaseInv, NEW m \in D!Arriving
    PROVE  /\ m.server \in AnyServer
           /\ m.type = "ACK" =>
                \E q \in sent : /\ q.type = "REQUEST" /\ m.chaddr = q.from
                                /\ m.xid = q.xid /\ m.server = q.server_id
                                /\ q.ip = q.server_id
<1>1. /\ sent \subseteq LeaseMessages /\ setup.servers \subseteq Servers
  BY SegmentAssumption DEF LeaseInv
<1>2. CASE \E q \in sent, s \in setup.servers : m = D!Reply(q, "OFFER", s)
  BY <1>1, <1>2 DEF D!Reply, AnyServer
<1>3. CASE \E q \in sent : /\ q.type = "REQUEST" /\ D!Proper(q, q.server_id)
                           /\ m = D!Reply(q, "ACK", q.server_id)
  BY <1>1, <1>3 DEF D!Reply, D!Proper, LeaseMessages
<1>4. CASE \E q \in sent : m = D!Reply(q, "NAK", q.server_id)
  BY <1>1, <1>4 DEF D!Reply, LeaseMessages
<1> QED BY <1>2, <1>3, <1>4 DEF D!Arriving

(* A reply that is received leaves the client in its transaction.          *)
LEMMA ReceiveStep ==
    ASSUME LeaseInv, NEW i \in Interfaces,
           D!RecvOther(i) \/ D!RecvNak(i) \/ D!RecvOffer(i) \/ D!RecvAck(i)
    PROVE  LeaseInv'
<1>1. /\ c[i] \in LeaseClients /\ sent \subseteq LeaseMessages
      /\ AsksOffered(i, c[i], sent) /\ HoldsAsked(i, c[i], sent)
  BY DEF LeaseInv
<1>2. CASE D!RecvNak(i)
  BY <1>1, <1>2, EnterStep DEF D!RecvNak
<1>3. CASE D!RecvOther(i)
  <2>1. UNCHANGED <<setup, sent>>
    BY <1>3 DEF D!RecvOther
  <2>2. CASE UNCHANGED c
    BY <2>1, <2>2 DEF LeaseInv
  <2>3. ASSUME NEW m \in D!Arriving, c' = [c EXCEPT ![i] = D!Parsed(i, m)]
        PROVE  LeaseInv'
    <3> DEFINE next == D!Parsed(i, m)
    <3>1. m.server \in AnyServer
      BY RepliesAre
    <3>2. /\ next \in LeaseClients /\ next.state = c[i].state
          /\ next.xid = c[i].xid /\ next.offered = c[i].offered
          /\ next.lease = c[i].lease
      BY <1>1, <3>1 DEF D!Parsed, LeaseClients
    <3> HIDE DEF next
    <3>3. AsksOffered(i, next, sent') /\ HoldsAsked(i, next, sent')
      BY <1>1, <2>1, <3>2 DEF AsksOffered, HoldsAsked
    <3>4. c' = [c EXCEPT ![i] = next]
      BY <2>3 DEF next
    <3> QED BY <1>1, <2>1, <3>2, <3>3, <3>4, OneClient
  <2> QED BY <1>3, <2>2, <2>3 DEF D!RecvOther
<1>4. CASE D!RecvOffer(i)
  <2>1. UNCHANGED <<setup, sent>> /\ c[i].state = "SELECTING"
    BY <1>4 DEF D!RecvOffer
  <2>2. PICK m \in D!Arriving :
          c' = [c EXCEPT ![i] =
                  [D!Parsed(i, m) EXCEPT
                     !.offered = m.server, !.state = "REQUESTING",
                     !.tries = 0, !.due = TRUE]]
    BY <1>4 DEF D!RecvOffer
  <2> DEFINE next == [D!Parsed(i, m) EXCEPT
                        !.offered = m.server, !.state = "REQUESTING",
                        !.tries = 0, !.due = TRUE]
  <2>3. m.server \in AnyServer
    BY RepliesAre
  <2>4. /\ next \in LeaseClients /\ next.state = "REQUESTING"
        /\ next.xid = c[i].xid
    BY <1>1, <2>3 DEF D!Parsed, LeaseClients
  <2>5. c' = [c EXCEPT ![i] = next]
    BY <2>2
  <2> HIDE DEF next
  <2>6. AsksOffered(i, next, sent') /\ HoldsAsked(i, next, sent')
    BY <1>1, <2>1, <2>4 DEF AsksOffered, HoldsAsked
  <2> QED BY <1>1, <2>1, <2>4, <2>5, <2>6, OneClient
<1>5. CASE D!RecvAck(i)
  <2>1. UNCHANGED <<setup, sent>> /\ c[i].state = "REQUESTING"
    BY <1>5 DEF D!RecvAck
  <2>2. PICK m \in D!Arriving :
          /\ m.xid = c[i].xid /\ m.chaddr = i /\ m.type = "ACK"
          /\ c' = [c EXCEPT ![i] =
                     [D!apply_lease(D!Parsed(i, m), m) EXCEPT
                        !.state = "BOUND", !.renew = FALSE]]
    BY <1>5 DEF D!RecvAck, D!ForUs
  <2> DEFINE next == [D!apply_lease(D!Parsed(i, m), m) EXCEPT
                        !.state = "BOUND", !.renew = FALSE]
  <2>3. m.server \in AnyServer
    BY RepliesAre
  <2>4. PICK q \in sent : /\ q.type = "REQUEST" /\ i = q.from
                          /\ c[i].xid = q.xid /\ m.server = q.server_id
                          /\ q.ip = q.server_id
    BY <2>2, RepliesAre
  <2>5. q.ip = c[i].offered
    BY <1>1, <2>4 DEF AsksOffered
  <2>6. /\ next \in LeaseClients /\ next.state = "BOUND"
        /\ next.xid = c[i].xid /\ next.offered = c[i].offered
        /\ next.lease = <<i, m.server>>
    BY <1>1, <2>2, <2>3 DEF D!Parsed, D!apply_lease, LeaseClients
  <2>7. c' = [c EXCEPT ![i] = next]
    BY <2>2
  <2> HIDE DEF next
  <2>8. AsksOffered(i, next, sent')
    BY <1>1, <2>1, <2>6 DEF AsksOffered
  <2>9. HoldsAsked(i, next, sent')
    BY <2>1, <2>4, <2>5, <2>6 DEF HoldsAsked, D!Proper
  <2> QED BY <1>1, <2>1, <2>6, <2>7, <2>8, <2>9, OneClient
<1> QED BY <1>2, <1>3, <1>4, <1>5

(* Every step of the tasks, the servers and time keeps leases their own.   *)
LEMMA LeaseStep ==
    ASSUME LeaseInv, D!Next \/ UNCHANGED dhcp_vars
    PROVE  LeaseInv'
<1>1. CASE UNCHANGED <<setup, c, sent>>
  BY <1>1 DEF LeaseInv
<1>2. ASSUME NEW i \in Interfaces, D!LinkUp(i)
      PROVE  LeaseInv'
  <2>1. setup' = setup /\ (D!EnterSelecting(i, c[i]) \/ UNCHANGED <<c, sent>>)
    BY <1>2 DEF D!LinkUp, D!Opens
  <2>2. c[i] \in LeaseClients
    BY DEF LeaseInv
  <2> QED BY <1>1, <2>1, <2>2, EnterStep
<1>3. ASSUME NEW i \in Interfaces,
             D!HoldLease(i) \/ D!RecvTimeout(i) \/ D!Resolve(i)
      PROVE  LeaseInv'
  BY <1>1, <1>3 DEF D!HoldLease, D!RecvTimeout, D!Resolve
<1>4. ASSUME NEW i \in Interfaces, D!Timer(i)
      PROVE  LeaseInv'
  <2>1. UNCHANGED <<setup, sent>>
    BY <1>4 DEF D!Timer
  <2>2. /\ c[i] \in LeaseClients /\ sent \subseteq LeaseMessages
        /\ AsksOffered(i, c[i], sent) /\ HoldsAsked(i, c[i], sent)
    BY DEF LeaseInv
  <2>3. PICK next \in {[c[i] EXCEPT !.renew = TRUE],
                       [c[i] EXCEPT !.due = TRUE]} :
          c' = [c EXCEPT ![i] = next]
    BY <1>4 DEF D!Timer
  <2>4. /\ next \in LeaseClients /\ next.state = c[i].state
        /\ next.xid = c[i].xid /\ next.offered = c[i].offered
        /\ next.lease = c[i].lease
    BY <2>2 DEF LeaseClients
  <2>5. AsksOffered(i, next, sent') /\ HoldsAsked(i, next, sent')
    BY <2>1, <2>2, <2>4 DEF AsksOffered, HoldsAsked
  <2> QED BY <2>1, <2>2, <2>3, <2>4, <2>5, OneClient
<1> QED BY <1>1, <1>2, <1>3, <1>4, TransmitStep, ReceiveStep
    DEF D!Next, D!Task, dhcp_vars

(* An interface holds an address only when a server has given it to that   *)
(* interface in the transaction that is open and it asked for it, however  *)
(* many interfaces share the segment, whatever the servers repeat, delay   *)
(* and refuse.                                                             *)
THEOREM LeaseIsOwn == FairSpec => []OwnLease
<1>1. Init => LeaseInv
  <2>1. SUFFICES ASSUME Init PROVE LeaseInv
    OBVIOUS
  <2>2. D!Init
    BY <2>1 DEF Init
  <2>3. /\ setup \in Setups /\ sent = {}
        /\ c = [i \in Interfaces |->
                  [state |-> "SELECTING", xid |-> 0, tries |-> 0, due |-> TRUE,
                   renew |-> FALSE, server_id |-> NoServer,
                   offered |-> NoServer, lease |-> NoServer]]
    BY <2>2 DEF D!Init
  <2>4. c \in [Interfaces -> LeaseClients]
    BY <2>3 DEF LeaseClients, AnyServer
  <2> QED BY <2>3, <2>4 DEF LeaseInv, AsksOffered, HoldsAsked
<1>2. LeaseInv /\ [Next]_all => LeaseInv'
  BY LeaseStep, OneProgram
<1>3. LeaseInv => OwnLease
  BY DEF LeaseInv, HoldsAsked, OwnLease, D!OwnLease
<1> QED BY <1>1, <1>2, <1>3, PTL DEF FairSpec

-----------------------------------------------------------------------------
(* UdpServices *)

UdpPlaces == {"open", "join", "query", "wait", "recv", "send", "done"}
ChipStates == {"closed", "udp", "multi", "tcp"}
UdpData == [id : Nat, iface : Interfaces, kind : V!Kinds]

(* The queue of a socket of interface i holds datagrams in the order they  *)
(* came in, those of that interface if the socket is bound to it.          *)
Queued(i, q, all_in) ==
    /\ q \in Seq(UdpData)
    /\ \A k \in 1 .. Len(q) :
          /\ q[k].id \in 1 .. Len(all_in)
          /\ pinned[i] => all_in[q[k].id].iface = i
          /\ \A l \in 1 .. Len(q) : k < l => q[k].id < q[l].id

(* Datagram d came in before those of queue q. *)
Before(d, q) == \A k \in 1 .. Len(q) : d < q[k].id

QueuesInv ==
    /\ came \in Seq(UdpData)
    /\ udp_inq \in [Interfaces -> Seq(UdpData)]
    /\ \A i \in Interfaces : Queued(i, udp_inq[i], came)

(* A responder has answered datagrams that are no longer in its queue, no  *)
(* responder any twice, and a bound one datagrams of its interface.        *)
Answering ==
    /\ udp_out \in Seq(Nat \X Interfaces)
    /\ \A k \in 1 .. Len(udp_out) :
          /\ udp_out[k][1] \in 1 .. Len(came)
          /\ pinned[udp_out[k][2]] =>
                came[udp_out[k][1]].iface = udp_out[k][2]
          /\ Before(udp_out[k][1], udp_inq[udp_out[k][2]])
          /\ \A l \in 1 .. Len(udp_out) : udp_out[l] = udp_out[k] => l = k

(* A datagram is taken from the queue when it has been echoed; the last    *)
(* part that was sent is of one before the queue, or of the first in it.   *)
LastSent == udp_out[Len(udp_out)]
InParts(o) ==
    \A k \in 1 .. Len(o) - 1 :
        \/ o[k][1] < o[k + 1][1] /\ o[k + 1][2] = 1
        \/ o[k][1] = o[k + 1][1] /\ o[k + 1][2] = o[k][2] + 1
HalfSent(d) == udp_out # <<>> /\ LastSent[1] = d /\ LastSent[2] = 2 - rest
Echoing ==
    /\ udp_out \in Seq(Nat \X Nat)
    /\ \A k \in 1 .. Len(udp_out) : udp_out[k][1] \in 1 .. Len(came)
    /\ rest \in 0 .. 2
    /\ InParts(udp_out)
    /\ udp_at[V!Main] = "send" => udp_inq[V!Main] # <<>>
    /\ IF udp_at[V!Main] = "send" /\ rest < 2
       THEN HalfSent(Head(udp_inq[V!Main]).id)
       ELSE udp_out # <<>> => Before(LastSent[1], udp_inq[V!Main])

(* Until the task joins there is no group, and then only on its socket. *)
GroupHere(s) == \E d \in Descriptors : fd = d + LwipOffset /\ sn[d] = s
Joining ==
    /\ chip \in [Sockets -> ChipStates]
    /\ fd \in Int /\ sn \in [Descriptors -> Sockets \cup {-1}]
    /\ \A s \in Sockets : chip[s] = "multi" => GroupHere(s)
    /\ service = "mcast" /\ udp_at[V!Main] \in {"open", "join"}
         => \A s \in Sockets : chip[s] # "multi"

UdpInv ==
    /\ udp_at \in [Interfaces -> UdpPlaces]
    /\ QueuesInv
    /\ service = "netbios" => Answering
    /\ service = "echo" => Echoing
    /\ Joining

(* A board has an interface, and a single task runs on one. *)
LEMMA MainIs == V!Main \in Interfaces
BY BoardAssumption DEF V!Main

(* A datagram that is behind the others of its queue *)
LEMMA QueueGrows ==
    ASSUME NEW i \in Interfaces, NEW q, NEW all_in \in Seq(UdpData),
           Queued(i, q, all_in), NEW d \in UdpData, d.id = Len(all_in) + 1
    PROVE  /\ Queued(i, q, Append(all_in, d))
           /\ (pinned[i] => d.iface = i) => Queued(i, Append(q, d), Append(all_in, d))
<1> DEFINE more == Append(all_in, d)
<1>1. q \in Seq(UdpData) /\ Len(q) \in Nat /\ Len(all_in) \in Nat
  BY DEF Queued
<1>2. /\ Len(more) = Len(all_in) + 1 /\ more[Len(all_in) + 1] = d
      /\ \A k \in 1 .. Len(all_in) : more[k] = all_in[k]
  BY AppendProperties
<1> HIDE DEF more
<1>3. \A k \in 1 .. Len(q) :
        /\ q[k].id \in 1 .. Len(all_in)
        /\ pinned[i] => all_in[q[k].id].iface = i
        /\ \A l \in 1 .. Len(q) : k < l => q[k].id < q[l].id
  BY DEF Queued
<1>4. \A k \in 1 .. Len(q) :
        /\ q[k].id \in 1 .. Len(more)
        /\ pinned[i] => more[q[k].id].iface = i
  BY <1>1, <1>2, <1>3
<1>5. Queued(i, q, more)
  BY <1>1, <1>3, <1>4 DEF Queued
<1>6. ASSUME pinned[i] => d.iface = i PROVE Queued(i, Append(q, d), more)
  <2> DEFINE r == Append(q, d)
  <2>1. /\ r \in Seq(UdpData) /\ Len(r) = Len(q) + 1 /\ r[Len(q) + 1] = d
        /\ \A k \in 1 .. Len(q) : r[k] = q[k]
    BY <1>1, AppendProperties
  <2> HIDE DEF r
  <2>2. ASSUME NEW k \in 1 .. Len(r)
        PROVE  /\ r[k].id \in 1 .. Len(more)
               /\ pinned[i] => more[r[k].id].iface = i
               /\ \A l \in 1 .. Len(r) : k < l => r[k].id < r[l].id
    <3>1. CASE k = Len(q) + 1
      <4>1. r[k] = d /\ d.id = Len(all_in) + 1
        BY <2>1, <3>1
      <4>2. d.id \in 1 .. Len(more) /\ more[d.id] = d
        BY <1>1, <1>2
      <4> QED BY <1>1, <1>6, <2>1, <3>1, <4>1, <4>2
    <3>2. CASE k # Len(q) + 1
      <4>1. k \in 1 .. Len(q) /\ r[k] = q[k]
        BY <1>1, <2>1, <3>2
      <4>2. ASSUME NEW l \in 1 .. Len(r), k < l PROVE r[k].id < r[l].id
        <5>1. CASE l = Len(q) + 1
          BY <1>1, <1>3, <2>1, <4>1, <5>1
        <5>2. CASE l # Len(q) + 1
          <6>1. l \in 1 .. Len(q) /\ r[l] = q[l]
            BY <1>1, <2>1, <5>2
          <6> QED BY <1>3, <4>1, <4>2, <6>1
        <5> QED BY <5>1, <5>2
      <4> QED BY <1>4, <4>1, <4>2
    <3> QED BY <3>1, <3>2
  <2>3. Queued(i, r, more)
    BY <2>1, <2>2 DEF Queued
  <2> QED BY <2>3 DEF r
<1> QED BY <1>5, <1>6 DEF more

(* What is taken from a queue came in before what is left. *)
LEMMA QueueTaken ==
    ASSUME NEW i \in Interfaces, NEW q, NEW all_in, Queued(i, q, all_in),
           q # <<>>
    PROVE  /\ Queued(i, Tail(q), all_in) /\ Tail(q) \in Seq(UdpData)
           /\ Head(q).id \in 1 .. Len(all_in) /\ Head(q).id \in Nat
           /\ pinned[i] => all_in[Head(q).id].iface = i
           /\ Before(Head(q).id, Tail(q))
           /\ \A d : Before(d, q) => Before(d, Tail(q)) /\ d < Head(q).id
<1> DEFINE r == Tail(q)
<1>1. q \in Seq(UdpData) /\ Len(q) \in Nat /\ Len(q) > 0
  BY EmptySeq DEF Queued
<1>2. /\ r \in Seq(UdpData) /\ Len(r) = Len(q) - 1 /\ Head(q) \in UdpData
      /\ \A k \in 1 .. Len(r) : r[k] = q[k + 1]
  BY <1>1, HeadTailProperties
<1>3. Head(q) = q[1] /\ Head(q).id \in Nat
  BY <1>1, <1>2 DEF UdpData
<1>4. \A k \in 1 .. Len(q) :
        /\ q[k].id \in 1 .. Len(all_in)
        /\ pinned[i] => all_in[q[k].id].iface = i
        /\ \A l \in 1 .. Len(q) : k < l => q[k].id < q[l].id
  BY DEF Queued
<1> HIDE DEF r
<1>5. \A k \in 1 .. Len(r) : k + 1 \in 1 .. Len(q)
  BY <1>1, <1>2
<1>6. 1 \in 1 .. Len(q)
  BY <1>1
<1>7. Queued(i, r, all_in)
  <2>1. ASSUME NEW k \in 1 .. Len(r)
        PROVE  /\ r[k].id \in 1 .. Len(all_in)
               /\ pinned[i] => all_in[r[k].id].iface = i
               /\ \A l \in 1 .. Len(r) : k < l => r[k].id < r[l].id
    <3>1. r[k] = q[k + 1] /\ k + 1 \in 1 .. Len(q)
      BY <1>2, <1>5
    <3>2. ASSUME NEW l \in 1 .. Len(r), k < l PROVE r[k].id < r[l].id
      <4>1. r[l] = q[l + 1] /\ l + 1 \in 1 .. Len(q) /\ k + 1 < l + 1
        BY <1>2, <1>5, <3>2
      <4> QED BY <1>4, <3>1, <4>1
    <3> QED BY <1>4, <3>1, <3>2
  <2> QED BY <1>2, <2>1 DEF Queued
<1>8. Before(Head(q).id, r)
  <2>1. ASSUME NEW k \in 1 .. Len(r) PROVE q[1].id < r[k].id
    <3>1. r[k] = q[k + 1] /\ k + 1 \in 1 .. Len(q) /\ 1 < k + 1
      BY <1>2, <1>5
    <3> QED BY <1>4, <1>6, <3>1
  <2> QED BY <1>3, <2>1 DEF Before
<1>9. ASSUME NEW d, Before(d, q) PROVE Before(d, r) /\ d < Head(q).id
  <2>1. d < Head(q).id
    BY <1>3, <1>6, <1>9 DEF Before
  <2>2. ASSUME NEW k \in 1 .. Len(r) PROVE d < r[k].id
    BY <1>2, <1>5, <1>9 DEF Before
  <2> QED BY <2>1, <2>2 DEF Before
<1> QED BY <1>2, <1>3, <1>4, <1>6, <1>7, <1>8, <1>9 DEF r

(* A datagram that came in before the queue came in before a later one. *)
LEMMA BeforeGrows ==
    ASSUME NEW d, NEW q \in Seq(UdpData), Before(d, q), NEW e \in UdpData,
           d < e.id
    PROVE  Before(d, Append(q, e))
<1> DEFINE r == Append(q, e)
<1>1. /\ Len(r) = Len(q) + 1 /\ r[Len(q) + 1] = e /\ Len(q) \in Nat
      /\ \A k \in 1 .. Len(q) : r[k] = q[k]
  BY AppendProperties, LenProperties
<1> HIDE DEF r
<1>2. ASSUME NEW k \in 1 .. Len(r) PROVE d < r[k].id
  <2>1. CASE k = Len(q) + 1
    BY <1>1, <2>1
  <2>2. CASE k # Len(q) + 1
    <3>1. k \in 1 .. Len(q)
      BY <1>1, <2>2
    <3> QED BY <1>1, <3>1 DEF Before
  <2> QED BY <2>1, <2>2
<1> QED BY <1>2 DEF Before, r

(* An empty queue *)
LEMMA NoQueue ==
    /\ \A i, all_in : Queued(i, <<>>, all_in)
    /\ \A d : Before(d, <<>>)
BY EmptySeq DEF Queued, Before

(* A datagram comes in and is queued at the socket of its interface. *)
LEMMA ArriveStep ==
    ASSUME UdpInv, V!Arrive
    PROVE  UdpInv'
<1>1. PICK i \in Interfaces, kd \in V!Kinds :
        LET d == [id |-> Len(came) + 1, iface |-> i, kind |-> kd]
        IN  /\ came' = Append(came, d)
            /\ udp_inq' = [j \in Interfaces |->
                             IF V!Open(j) /\ V!BoundTo(j, i)
                             THEN Append(udp_inq[j], d) ELSE udp_inq[j]]
            /\ UNCHANGED <<service, udp_at, udp_out, rest, fd, sn, chip,
                           pinned>>
  BY DEF V!Arrive, V!mcast, V!own
<1> DEFINE d == [id |-> Len(came) + 1, iface |-> i, kind |-> kd]
<1>2. came \in Seq(UdpData) /\ Len(came) \in Nat
      /\ udp_inq \in [Interfaces -> Seq(UdpData)]
  BY LenProperties DEF UdpInv, QueuesInv
<1>3. d \in UdpData /\ d.id = Len(came) + 1 /\ d.iface = i
  BY <1>2 DEF UdpData
<1>4. /\ came' = Append(came, d)
      /\ udp_inq' \in [Interfaces -> Seq(UdpData)]
      /\ \A j \in Interfaces : \/ udp_inq'[j] = udp_inq[j]
                               \/ /\ pinned[j] => d.iface = j
                                  /\ udp_inq'[j] = Append(udp_inq[j], d)
      /\ UNCHANGED <<service, udp_at, udp_out, rest, fd, sn, chip, pinned>>
  <2> HIDE DEF d
  <2>1. \A j \in Interfaces : Append(udp_inq[j], d) \in Seq(UdpData)
    BY <1>2, <1>3, AppendProperties
  <2> USE DEF d
  <2>2. udp_inq' = [j \in Interfaces |->
                      IF V!Open(j) /\ V!BoundTo(j, i)
                      THEN Append(udp_inq[j], d) ELSE udp_inq[j]]
    BY <1>1
  <2>3. came' = Append(came, d)
        /\ UNCHANGED <<service, udp_at, udp_out, rest, fd, sn, chip, pinned>>
    BY <1>1
  <2> HIDE DEF d
  <2> QED BY <1>2, <1>3, <2>1, <2>2, <2>3 DEF V!BoundTo
<1> HIDE DEF d
<1>5. /\ Len(came') = Len(came) + 1 /\ came' \in Seq(UdpData)
      /\ \A k \in 1 .. Len(came) : came'[k] = came[k]
  BY <1>2, <1>3, <1>4, AppendProperties
<1>6. QueuesInv'
  <2>1. ASSUME NEW j \in Interfaces PROVE Queued(j, udp_inq'[j], came')
    <3>1. Queued(j, udp_inq[j], came)
      BY DEF UdpInv, QueuesInv
    <3>2. Queued(j, udp_inq[j], Append(came, d))
      BY <1>2, <1>3, <3>1, QueueGrows
    <3>3. (pinned[j] => d.iface = j) =>
            Queued(j, Append(udp_inq[j], d), Append(came, d))
      BY <1>2, <1>3, <3>1, QueueGrows
    <3> QED BY <1>4, <3>2, <3>3, Zenon
  <2> QED BY <1>4, <1>5, <2>1 DEF QueuesInv, Queued
<1>7. ASSUME NEW j \in Interfaces, NEW x \in 1 .. Len(came),
             Before(x, udp_inq[j])
      PROVE  Before(x, udp_inq'[j])
  <2>1. x < d.id /\ udp_inq[j] \in Seq(UdpData)
    BY <1>2, <1>3
  <2>2. Before(x, Append(udp_inq[j], d))
    BY <1>3, <1>7, <2>1, BeforeGrows
  <2> QED BY <1>4, <1>7, <2>2
<1>8. ASSUME service' = "netbios" PROVE Answering'
  <2>1. Answering /\ udp_out' = udp_out
    BY <1>4, <1>8 DEF UdpInv
  <2>2. ASSUME NEW k \in 1 .. Len(udp_out)
        PROVE  /\ udp_out[k][1] \in 1 .. Len(came')
               /\ pinned[udp_out[k][2]] =>
                     came'[udp_out[k][1]].iface = udp_out[k][2]
               /\ Before(udp_out[k][1], udp_inq'[udp_out[k][2]])
    <3>1. /\ udp_out[k][1] \in 1 .. Len(came) /\ udp_out[k][2] \in Interfaces
          /\ pinned[udp_out[k][2]] =>
                came[udp_out[k][1]].iface = udp_out[k][2]
          /\ Before(udp_out[k][1], udp_inq[udp_out[k][2]])
      <4>1. udp_out[k] \in Nat \X Interfaces
        BY <2>1, ElementOfSeq DEF Answering
      <4>2. udp_out[k][2] \in Interfaces
        BY <4>1
      <4> QED BY <2>1, <4>2, Zenon DEF Answering
    <3>2. came'[udp_out[k][1]] = came[udp_out[k][1]]
          /\ udp_out[k][1] \in 1 .. Len(came')
      BY <1>2, <1>5, <3>1
    <3>3. Before(udp_out[k][1], udp_inq'[udp_out[k][2]])
      BY <1>7, <3>1
    <3> QED BY <3>1, <3>2, <3>3, Zenon
  <2> QED BY <1>4, <2>1, <2>2 DEF Answering
<1>9. ASSUME service' = "echo" PROVE Echoing'
  <2>1. Echoing /\ UNCHANGED <<udp_out, rest, udp_at>>
    BY <1>4, <1>9 DEF UdpInv
  <2>2. V!Main \in Interfaces
    BY MainIs
  <2>3. udp_inq[V!Main] # <<>> =>
          /\ udp_inq'[V!Main] # <<>>
          /\ Head(udp_inq'[V!Main]) = Head(udp_inq[V!Main])
    <3>1. udp_inq[V!Main] \in Seq(UdpData)
      BY <1>2, <2>2
    <3>2. /\ Append(udp_inq[V!Main], d) # <<>>
          /\ udp_inq[V!Main] # <<>> =>
               Head(Append(udp_inq[V!Main], d)) = Head(udp_inq[V!Main])
      BY <1>3, <3>1, AppendProperties, HeadTailAppend
    <3> QED BY <1>4, <2>2, <3>2
  <2>4. udp_out # <<>> => LastSent[1] \in 1 .. Len(came)
    <3>1. udp_out # <<>> => Len(udp_out) \in 1 .. Len(udp_out)
      BY <2>1, EmptySeq DEF Echoing
    <3> QED BY <2>1, <3>1 DEF Echoing, LastSent
  <2>5. \A k \in 1 .. Len(udp_out) : udp_out[k][1] \in 1 .. Len(came')
    <3>1. \A k \in 1 .. Len(udp_out) : udp_out[k][1] \in 1 .. Len(came)
      BY <2>1 DEF Echoing
    <3>2. \A x \in 1 .. Len(came) : x \in 1 .. Len(came')
      BY <1>2, <1>5
    <3> QED BY <3>1, <3>2
  <2>6. InParts(udp_out)' /\ LastSent' = LastSent
    BY <2>1 DEF Echoing, InParts, LastSent
  <2>7. CASE udp_at[V!Main] = "send" /\ rest < 2
    <3>1. HalfSent(Head(udp_inq[V!Main]).id) /\ udp_inq[V!Main] # <<>>
      BY <2>1, <2>7 DEF Echoing
    <3>2. HalfSent(Head(udp_inq[V!Main]).id)'
      BY <2>1, <2>3, <2>6, <3>1 DEF HalfSent
    <3> QED BY <2>1, <2>3, <2>5, <2>6, <2>7, <3>2 DEF Echoing
  <2>8. CASE ~(udp_at[V!Main] = "send" /\ rest < 2)
    <3>1. udp_out # <<>> => Before(LastSent[1], udp_inq[V!Main])
      BY <2>1, <2>8 DEF Echoing
    <3>2. udp_out # <<>> => Before(LastSent[1], udp_inq'[V!Main])
      BY <1>7, <2>2, <2>4, <3>1
    <3> QED BY <2>1, <2>3, <2>5, <2>6, <2>8, <3>2 DEF Echoing
  <2> QED BY <2>7, <2>8
<1>10. Joining' /\ udp_at' \in [Interfaces -> UdpPlaces]
  BY <1>4 DEF UdpInv, Joining, GroupHere
<1> QED BY <1>6, <1>8, <1>9, <1>10 DEF UdpInv

(* The queue of one interface changes. *)
LEMMA OneQueue ==
    ASSUME QueuesInv, NEW i \in Interfaces, NEW q, Queued(i, q, came),
           udp_inq' = [udp_inq EXCEPT ![i] = q], UNCHANGED <<came, pinned>>
    PROVE  QueuesInv' /\ udp_inq'[i] = q
<1>1. q \in Seq(UdpData)
  BY DEF Queued
<1> QED BY <1>1 DEF QueuesInv, Queued

(* The task of one interface moves. *)
LEMMA Moves ==
    ASSUME UdpInv, NEW i \in Interfaces, NEW where \in UdpPlaces,
           V!Goto(i, where)
    PROVE  udp_at' \in [Interfaces -> UdpPlaces] /\ udp_at'[i] = where
BY DEF UdpInv, V!Goto

(* The SNTP task takes part in none of it. *)
LEMMA SntpStep ==
    ASSUME UdpInv, V!SntpOpen \/ V!SntpQuery \/ V!SntpReply
    PROVE  UdpInv'
<1>1. /\ service = "sntp" /\ UNCHANGED <<service, came, fd, sn, chip, pinned>>
      /\ udp_inq' = udp_inq \/ udp_inq' = [udp_inq EXCEPT ![V!Main] = <<>>]
  <2>1. CASE V!SntpOpen
    BY <2>1 DEF V!SntpOpen, V!mcast, V!own
  <2>2. CASE V!SntpQuery
    BY <2>2 DEF V!SntpQuery, V!mcast, V!own
  <2>3. CASE V!SntpReply
    BY <2>3 DEF V!SntpReply, V!Close, V!mcast, V!own
  <2> QED BY <2>1, <2>2, <2>3
<1>2. \E where \in UdpPlaces : V!Goto(V!Main, where)
  BY DEF V!SntpOpen, V!SntpQuery, V!SntpReply, UdpPlaces
<1>3. udp_at' \in [Interfaces -> UdpPlaces]
  BY <1>2, Moves, MainIs
<1>4. QueuesInv'
  <2>1. CASE udp_inq' = udp_inq
    BY <1>1, <2>1 DEF UdpInv, QueuesInv, Queued
  <2>2. CASE udp_inq' = [udp_inq EXCEPT ![V!Main] = <<>>]
    BY <1>1, <2>2, OneQueue, NoQueue, MainIs DEF UdpInv
  <2> QED BY <1>1, <2>1, <2>2
<1>5. Joining'
  BY <1>1 DEF UdpInv, Joining, GroupHere
<1> QED BY <1>1, <1>3, <1>4, <1>5 DEF UdpInv

(* The multicast task joins on the socket bind() has opened. *)
LEMMA McastStep ==
    ASSUME UdpInv, V!McastOpen \/ V!McastJoin \/ V!McastRecv
    PROVE  UdpInv'
<1>1. service = "mcast" /\ UNCHANGED <<service, came, pinned>>
  BY DEF V!McastOpen, V!McastJoin, V!McastRecv, V!own
<1>2. /\ chip \in [Sockets -> ChipStates]
      /\ fd \in Int /\ sn \in [Descriptors -> Sockets \cup {-1}]
      /\ udp_at[V!Main] \in {"open", "join"} =>
            \A s \in Sockets : chip[s] # "multi"
      /\ udp_at \in [Interfaces -> UdpPlaces] /\ QueuesInv
  BY <1>1 DEF UdpInv, Joining
<1>3. CASE V!McastOpen
  <2>1. /\ udp_at[V!Main] = "open" /\ UNCHANGED udp_inq
        /\ \/ \E d \in Descriptors, s \in Sockets :
                /\ fd' = d + LwipOffset /\ sn' = [sn EXCEPT ![d] = s]
                /\ chip' = [chip EXCEPT ![s] = "udp"]
                /\ V!Goto(V!Main, "join")
           \/ V!Goto(V!Main, "done") /\ UNCHANGED <<fd, sn, chip>>
    BY <1>3 DEF V!McastOpen, V!mcast
  <2>2. \A s \in Sockets : chip[s] # "multi"
    BY <1>2, <2>1
  <2>3. /\ chip' \in [Sockets -> ChipStates]
        /\ \A s \in Sockets : chip'[s] # "multi"
    <3>1. \/ \E s \in Sockets : chip' = [chip EXCEPT ![s] = "udp"]
          \/ chip' = chip
      BY <2>1
    <3> QED BY <1>2, <2>2, <3>1 DEF ChipStates
  <2>4. fd' \in Int /\ sn' \in [Descriptors -> Sockets \cup {-1}]
    <3>1. \/ \E d \in Descriptors, s \in Sockets :
                fd' = d + LwipOffset /\ sn' = [sn EXCEPT ![d] = s]
          \/ UNCHANGED <<fd, sn>>
      BY <2>1
    <3> QED BY <1>2, <3>1, SocketAssumption
  <2>5. udp_at' \in [Interfaces -> UdpPlaces]
    BY <2>1, Moves, MainIs DEF UdpPlaces
  <2>6. Joining'
    BY <2>3, <2>4 DEF Joining
  <2>7. QueuesInv'
    BY <1>1, <1>2, <2>1 DEF QueuesInv, Queued
  <2> QED BY <1>1, <2>5, <2>6, <2>7 DEF UdpInv
<1>4. CASE V!McastJoin
  <2>1. /\ UNCHANGED <<udp_inq, fd>> /\ udp_at[V!Main] = "join"
        /\ \/ /\ V!SnOf \in Sockets /\ V!Goto(V!Main, "recv") /\ UNCHANGED sn
              /\ chip' = [chip EXCEPT ![V!SnOf] = "multi"]
           \/ /\ chip' = [chip EXCEPT ![V!SnOf] = "closed"]
              /\ sn' = [sn EXCEPT ![fd - LwipOffset] = -1]
              /\ V!Goto(V!Main, "done")
    BY <1>4 DEF V!McastJoin, V!SnOf, V!NoSocket
  <2>2. \A s \in Sockets : chip[s] # "multi"
    BY <1>2, <2>1
  <2>3. udp_at' \in [Interfaces -> UdpPlaces]
        /\ udp_at'[V!Main] \notin {"open", "join"}
    BY <2>1, Moves, MainIs DEF UdpPlaces
  <2>4. /\ chip' \in [Sockets -> ChipStates]
        /\ fd' \in Int /\ sn' \in [Descriptors -> Sockets \cup {-1}]
        /\ \A s \in Sockets : chip'[s] = "multi" => GroupHere(s)'
    <3>1. CASE /\ V!SnOf \in Sockets /\ UNCHANGED sn
               /\ chip' = [chip EXCEPT ![V!SnOf] = "multi"]
      <4>1. /\ fd - LwipOffset \in Descriptors
            /\ V!SnOf = sn[fd - LwipOffset]
        BY <3>1, SocketAssumption DEF V!SnOf, V!wiztoe_sn_of_fd, V!NoSocket
      <4>2. \A s \in Sockets : chip'[s] = "multi" => s = V!SnOf
        BY <1>2, <2>2, <3>1
      <4>3. fd = (fd - LwipOffset) + LwipOffset
        BY <1>2, SocketAssumption
      <4>4. GroupHere(sn[fd - LwipOffset])'
        BY <2>1, <3>1, <4>1, <4>3 DEF GroupHere
      <4>5. chip' \in [Sockets -> ChipStates]
        BY <1>2, <3>1 DEF ChipStates
      <4> QED BY <1>2, <2>1, <3>1, <4>1, <4>2, <4>3, <4>5 DEF GroupHere
    <3>2. CASE /\ chip' = [chip EXCEPT ![V!SnOf] = "closed"]
               /\ sn' = [sn EXCEPT ![fd - LwipOffset] = -1]
      <4>1. chip' \in [Sockets -> ChipStates]
            /\ \A s \in Sockets : chip'[s] # "multi"
        BY <1>2, <2>2, <3>2 DEF ChipStates
      <4>2. sn' \in [Descriptors -> Sockets \cup {-1}]
        BY <1>2, <3>2
      <4> QED BY <1>2, <2>1, <4>1, <4>2
    <3> QED BY <2>1, <3>1, <3>2
  <2>5. Joining'
    BY <2>3, <2>4 DEF Joining
  <2>6. QueuesInv'
    BY <1>1, <1>2, <2>1 DEF QueuesInv, Queued
  <2> QED BY <1>1, <2>3, <2>5, <2>6 DEF UdpInv
<1>5. CASE V!McastRecv
  <2>1. /\ udp_inq[V!Main] # <<>> /\ UNCHANGED <<udp_at, fd, sn, chip>>
        /\ udp_inq' = [udp_inq EXCEPT ![V!Main] = Tail(udp_inq[V!Main])]
    BY <1>5 DEF V!McastRecv, V!Take, V!mcast
  <2>2. Queued(V!Main, udp_inq[V!Main], came)
    BY <1>2, MainIs DEF QueuesInv
  <2>3. Queued(V!Main, Tail(udp_inq[V!Main]), came)
    BY <2>1, <2>2, QueueTaken, MainIs
  <2>4. QueuesInv'
    BY <1>1, <1>2, <2>1, <2>3, OneQueue, MainIs
  <2>5. Joining'
    BY <1>1, <2>1 DEF UdpInv, Joining, GroupHere
  <2> QED BY <1>1, <1>2, <2>1, <2>4, <2>5 DEF UdpInv
<1> QED BY <1>3, <1>4, <1>5

(* A responder answers, or not, the first datagram of its queue. *)
LEMMA NetbiosStep ==
    ASSUME UdpInv, NEW i \in Interfaces, V!NetbiosServe(i)
    PROVE  UdpInv'
<1> DEFINE q == udp_inq[i]
           h == Head(q).id
<1>1. /\ service = "netbios" /\ q # <<>>
      /\ UNCHANGED <<service, udp_at, came, fd, sn, chip, pinned>>
      /\ udp_inq' = [udp_inq EXCEPT ![i] = Tail(q)]
      /\ udp_out' = udp_out \o <<>> \/ udp_out' = udp_out \o <<<<h, i>>>>
  BY DEF V!NetbiosServe, V!Take, V!netbios_handle, V!mcast, V!own
<1>2. QueuesInv /\ Answering /\ Queued(i, q, came)
  BY <1>1 DEF UdpInv, QueuesInv
<1> HIDE DEF q
<1>3. /\ Queued(i, Tail(q), came) /\ h \in 1 .. Len(came) /\ h \in Nat
      /\ pinned[i] => came[h].iface = i
      /\ Before(h, Tail(q))
      /\ \A d : Before(d, q) => Before(d, Tail(q)) /\ d < h
  BY <1>1, <1>2, QueueTaken
<1> HIDE DEF h
<1>4. QueuesInv' /\ udp_inq'[i] = Tail(q)
  BY <1>1, <1>2, <1>3, OneQueue
<1>5. \A j \in Interfaces : j # i => udp_inq'[j] = udp_inq[j]
  BY <1>1, <1>2 DEF QueuesInv
<1>6. ASSUME NEW k \in 1 .. Len(udp_out)
      PROVE  /\ udp_out[k][1] \in 1 .. Len(came)
             /\ udp_out[k][2] \in Interfaces
             /\ pinned[udp_out[k][2]] =>
                   came[udp_out[k][1]].iface = udp_out[k][2]
             /\ Before(udp_out[k][1], udp_inq'[udp_out[k][2]])
             /\ udp_out[k] # <<h, i>>
  <2>1. udp_out[k] \in Nat \X Interfaces
    BY <1>2, ElementOfSeq DEF Answering
  <2>2. /\ udp_out[k][1] \in 1 .. Len(came) /\ udp_out[k][2] \in Interfaces
        /\ pinned[udp_out[k][2]] =>
              came[udp_out[k][1]].iface = udp_out[k][2]
        /\ Before(udp_out[k][1], udp_inq[udp_out[k][2]])
    BY <1>2, <2>1 DEF Answering
  <2>3. CASE udp_out[k][2] = i
    <3> DEFINE d == udp_out[k][1]
    <3>1. Before(d, q)
      BY <2>2, <2>3 DEF q
    <3> HIDE DEF d
    <3>2. Before(d, Tail(q)) /\ d < h
      BY <1>3, <3>1
    <3>3. Before(d, udp_inq'[udp_out[k][2]])
      BY <1>4, <2>3, <3>2
    <3>4. d # h
      BY <1>3, <2>2, <3>2 DEF d
    <3>5. udp_out[k] # <<h, i>>
      BY <3>4 DEF d
    <3> QED BY <2>2, <3>3, <3>5 DEF d
  <2>4. CASE udp_out[k][2] # i
    <3>1. Before(udp_out[k][1], udp_inq'[udp_out[k][2]])
      BY <1>5, <2>2, <2>4
    <3>2. udp_out[k] # <<h, i>>
      BY <2>4
    <3> QED BY <2>2, <3>1, <3>2
  <2> QED BY <2>3, <2>4
<1>7. udp_out \in Seq(Nat \X Interfaces) /\ Len(udp_out) \in Nat
      /\ \A k, l \in 1 .. Len(udp_out) : udp_out[l] = udp_out[k] => l = k
  BY <1>2, LenProperties DEF Answering
<1>8. CASE udp_out' = udp_out \o <<>>
  <2>1. udp_out' = udp_out
    BY <1>7, <1>8, ConcatEmptySeq
  <2>2. Answering'
    BY <1>1, <1>6, <1>7, <2>1 DEF Answering
  <2> QED BY <1>1, <1>4, <2>2 DEF UdpInv, Joining, GroupHere
<1>9. CASE udp_out' = udp_out \o <<<<h, i>>>>
  <2>1. <<h, i>> \in Nat \X Interfaces
    BY <1>3
  <2>2. udp_out' = Append(udp_out, <<h, i>>)
    BY <1>7, <1>9, <2>1, AppendIsConcat
  <2>3. /\ udp_out' \in Seq(Nat \X Interfaces)
        /\ Len(udp_out') = Len(udp_out) + 1
        /\ \A k \in 1 .. Len(udp_out) : udp_out'[k] = udp_out[k]
        /\ udp_out'[Len(udp_out) + 1] = <<h, i>>
    BY <1>7, <2>1, <2>2, AppendProperties
  <2>4. ASSUME NEW k \in 1 .. Len(udp_out')
        PROVE  /\ udp_out'[k][1] \in 1 .. Len(came)
               /\ pinned[udp_out'[k][2]] =>
                     came[udp_out'[k][1]].iface = udp_out'[k][2]
               /\ Before(udp_out'[k][1], udp_inq'[udp_out'[k][2]])
               /\ \A l \in 1 .. Len(udp_out') :
                     udp_out'[l] = udp_out'[k] => l = k
    <3>1. \A l \in 1 .. Len(udp_out') :
            \/ l \in 1 .. Len(udp_out) /\ udp_out'[l] = udp_out[l]
            \/ l = Len(udp_out) + 1 /\ udp_out'[l] = <<h, i>>
      BY <1>7, <2>3
    <3>2. CASE k \in 1 .. Len(udp_out) /\ udp_out'[k] = udp_out[k]
      <4>1. /\ udp_out'[k][1] \in 1 .. Len(came)
            /\ pinned[udp_out'[k][2]] =>
                  came[udp_out'[k][1]].iface = udp_out'[k][2]
            /\ Before(udp_out'[k][1], udp_inq'[udp_out'[k][2]])
        BY <1>6, <3>2, Zenon
      <4>2. ASSUME NEW l \in 1 .. Len(udp_out'), udp_out'[l] = udp_out'[k]
            PROVE  l = k
        <5>1. udp_out'[k] # <<h, i>>
          BY <1>6, <3>2
        <5>2. l \in 1 .. Len(udp_out) /\ udp_out'[l] = udp_out[l]
          BY <3>1, <4>2, <5>1
        <5> QED BY <1>7, <3>2, <4>2, <5>2
      <4> QED BY <4>1, <4>2
    <3>3. CASE k = Len(udp_out) + 1 /\ udp_out'[k] = <<h, i>>
      <4>1. udp_out'[k][1] = h /\ udp_out'[k][2] = i
        BY <3>3
      <4>2. ASSUME NEW l \in 1 .. Len(udp_out'), udp_out'[l] = udp_out'[k]
            PROVE  l = k
        BY <1>6, <3>1, <3>3, <4>2
      <4>3. Before(h, udp_inq'[i]) /\ h \in 1 .. Len(came)
        BY <1>3, <1>4
      <4>4. pinned[i] => came[h].iface = i
        BY <1>3, Zenon
      <4> QED BY <4>1, <4>2, <4>3, <4>4, Zenon
    <3> QED BY <3>1, <3>2, <3>3
  <2>5. Answering'
    BY <1>1, <2>3, <2>4 DEF Answering
  <2> QED BY <1>1, <1>4, <2>5 DEF UdpInv, Joining, GroupHere
<1> QED BY <1>1, <1>8, <1>9

(* A part that follows the last one, or begins the next datagram *)
LEMMA PartAdded ==
    ASSUME NEW o \in Seq(Nat \X Nat), InParts(o), NEW d \in Nat, NEW p \in Nat,
           o # <<>> =>
               \/ o[Len(o)][1] < d /\ p = 1
               \/ o[Len(o)][1] = d /\ p = o[Len(o)][2] + 1
    PROVE  LET r == Append(o, <<d, p>>)
           IN  /\ r \in Seq(Nat \X Nat) /\ r # <<>> /\ InParts(r)
               /\ r[Len(r)] = <<d, p>>
               /\ \A k \in 1 .. Len(r) :
                     r[k][1] = d \/ (k \in 1 .. Len(o) /\ r[k] = o[k])
<1> DEFINE e == <<d, p>>
           r == Append(o, e)
<1>1. /\ r \in Seq(Nat \X Nat) /\ r # <<>> /\ Len(r) = Len(o) + 1
      /\ \A k \in 1 .. Len(o) : r[k] = o[k]
      /\ r[Len(o) + 1] = <<d, p>> /\ Len(o) \in Nat
  <2>1. e \in Nat \X Nat
    OBVIOUS
  <2> HIDE DEF e
  <2>2. /\ r \in Seq(Nat \X Nat) /\ r # <<>> /\ Len(r) = Len(o) + 1
        /\ \A k \in 1 .. Len(o) : r[k] = o[k]
        /\ r[Len(o) + 1] = e
    <3> DEFINE A == Nat \X Nat
    <3>1. o \in Seq(A) /\ e \in A
      BY <2>1
    <3> HIDE DEF A
    <3>2. /\ Append(o, e) \in Seq(A) /\ Append(o, e) # <<>>
          /\ Len(Append(o, e)) = Len(o) + 1
          /\ \A k \in 1 .. Len(o) : Append(o, e)[k] = o[k]
          /\ Append(o, e)[Len(o) + 1] = e
      BY <3>1, AppendProperties
    <3> QED BY <3>2 DEF A
  <2> HIDE DEF r
  <2>3. Len(o) \in Nat
    BY LenProperties
  <2> QED BY <2>2, <2>3 DEF e
<1> HIDE DEF r
<1>2. \A k \in 1 .. Len(r) :
        r[k][1] = d \/ (k \in 1 .. Len(o) /\ r[k] = o[k])
  <2> SUFFICES ASSUME NEW k \in 1 .. Len(r)
               PROVE  r[k][1] = d \/ (k \in 1 .. Len(o) /\ r[k] = o[k])
    OBVIOUS
  <2>1. CASE k = Len(o) + 1
    <3>1. r[k] = <<d, p>>
      BY <1>1, <2>1
    <3> QED BY <3>1
  <2>2. CASE k # Len(o) + 1
    <3>1. k \in 1 .. Len(o)
      BY <1>1, <2>2
    <3> QED BY <1>1, <3>1
  <2> QED BY <2>1, <2>2
<1>3. ASSUME NEW k \in 1 .. Len(r) - 1
      PROVE  \/ r[k][1] < r[k + 1][1] /\ r[k + 1][2] = 1
             \/ r[k][1] = r[k + 1][1] /\ r[k + 1][2] = r[k][2] + 1
  <2>1. CASE k = Len(o)
    <3>1. o # <<>> /\ r[k] = o[Len(o)] /\ r[k + 1] = <<d, p>>
      BY <1>1, <2>1, EmptySeq
    <3> QED BY <3>1
  <2>2. CASE k # Len(o)
    <3>1. k \in 1 .. Len(o) - 1 /\ k \in 1 .. Len(o) /\ k + 1 \in 1 .. Len(o)
      BY <1>1, <2>2
    <3>2. r[k] = o[k] /\ r[k + 1] = o[k + 1]
      BY <1>1, <3>1
    <3> QED BY <3>1, <3>2 DEF InParts
  <2> QED BY <2>1, <2>2
<1>4. InParts(r)
  BY <1>3 DEF InParts
<1> QED BY <1>1, <1>2, <1>4 DEF r

(* One part, or two, at the end of what was sent *)
LEMMA PartsAdded ==
    ASSUME NEW o \in Seq(Nat \X Nat), NEW d \in Nat, NEW w \in 1 .. 2,
           NEW b \in Int, b + 1 \in Nat
    PROVE  LET one == Append(o, <<d, b + 1>>)
           IN  o \o [k \in 1 .. w |-> <<d, b + k>>]
                 = IF w = 1 THEN one ELSE Append(one, <<d, b + 2>>)
<1> DEFINE f == [k \in 1 .. w |-> <<d, b + k>>]
           one == Append(o, <<d, b + 1>>)
           two == Append(one, <<d, b + 2>>)
           r == o \o f
           m == Len(o)
<1>1. /\ \A k \in 1 .. w : <<d, b + k>> \in Nat \X Nat
      /\ <<d, b + 1>> \in Nat \X Nat /\ <<d, b + 2>> \in Nat \X Nat
  OBVIOUS
<1>2. f \in Seq(Nat \X Nat) /\ Len(f) = w
  BY <1>1, IsASeq
<1>3. f[1] = <<d, b + 1>> /\ (w = 2 => f[2] = <<d, b + 2>>)
  OBVIOUS
<1> HIDE DEF f
<1>4. /\ one \in Seq(Nat \X Nat) /\ Len(one) = m + 1 /\ m \in Nat
      /\ \A k \in 1 .. m : one[k] = o[k]
      /\ one[m + 1] = <<d, b + 1>>
  BY <1>1, AppendProperties, LenProperties
<1>5. /\ r \in Seq(Nat \X Nat) /\ Len(r) = m + w
      /\ \A k \in 1 .. m + w : r[k] = IF k <= m THEN o[k] ELSE f[k - m]
  BY <1>2, ConcatProperties
<1> HIDE DEF one, r, m
<1>6. /\ two \in Seq(Nat \X Nat) /\ Len(two) = m + 2
      /\ \A k \in 1 .. m + 1 : two[k] = one[k]
      /\ two[m + 2] = <<d, b + 2>>
  <2>1. (m + 1) + 1 = m + 2
    BY <1>4
  <2> QED BY <1>1, <1>4, <2>1, AppendProperties
<1> HIDE DEF two
<1>7. ASSUME NEW k \in 1 .. m PROVE r[k] = o[k]
  <2>1. m \in Nat
    BY <1>4
  <2>2. k \in 1 .. m + w /\ k <= m
    BY <2>1
  <2> QED BY <1>5, <2>2
<1>8. r[m + 1] = <<d, b + 1>> /\ (w = 2 => r[m + 2] = <<d, b + 2>>)
  <2>1. (m + 1) - m = 1 /\ (m + 2) - m = 2 /\ m + 1 \in 1 .. m + w
        /\ (w = 2 => m + 2 \in 1 .. m + w)
        /\ ~ (m + 1 <= m) /\ ~ (m + 2 <= m)
    BY <1>4
  <2> QED BY <1>3, <1>5, <2>1
<1>9. CASE w = 1
  <2>1. ASSUME NEW k \in 1 .. Len(one) PROVE one[k] = r[k]
    <3>1. k \in 1 .. m \/ k = m + 1
      BY <1>4
    <3> QED BY <1>4, <1>7, <1>8, <3>1
  <2>2. one = r
    BY <1>4, <1>5, <1>9, <2>1, SeqEqual
  <2>3. o \o f = one
    BY <2>2 DEF r
  <2> QED BY <1>9, <2>3 DEF f, one
<1>10. CASE w = 2
  <2>1. ASSUME NEW k \in 1 .. Len(two) PROVE two[k] = r[k]
    <3>1. k \in 1 .. m \/ k = m + 1 \/ k = m + 2
      <4>1. k \in 1 .. m + 2
        BY <1>6
      <4>2. m \in Nat
        BY <1>4
      <4> QED BY <4>1, <4>2
    <3>2. \A l \in 1 .. m : l \in 1 .. m + 1
      BY <1>4
    <3>3. m + 1 \in 1 .. m + 1
      BY <1>4
    <3> QED BY <1>4, <1>6, <1>7, <1>8, <1>10, <3>1, <3>2, <3>3
  <2>2. two = r
    BY <1>5, <1>6, <1>10, <2>1, SeqEqual
  <2>3. o \o f = two /\ w # 1
    BY <1>10, <2>2 DEF r
  <2> QED BY <2>3 DEF f, one, two
<1>11. w = 1 \/ w = 2
  OBVIOUS
<1> QED BY <1>9, <1>10, <1>11, Zenon

(* udp_echo_loop() takes a datagram, sends parts of it, and lets it go. *)
LEMMA EchoStep ==
    ASSUME UdpInv, V!EchoOpen \/ V!EchoRecv \/ V!EchoSend
    PROVE  UdpInv'
<1> DEFINE q == udp_inq[V!Main]
           h == Head(q).id
<1>1. /\ service = "echo" /\ UNCHANGED <<service, came, fd, sn, chip, pinned>>
      /\ V!Main \in Interfaces
  BY MainIs DEF V!EchoOpen, V!EchoRecv, V!EchoSend, V!mcast, V!own
<1>2. QueuesInv /\ Echoing /\ Queued(V!Main, q, came)
  BY <1>1 DEF UdpInv, QueuesInv
<1>3. Joining'
  BY <1>1 DEF UdpInv, Joining, GroupHere
<1>4. ASSUME udp_inq' = udp_inq PROVE QueuesInv'
  BY <1>1, <1>2, <1>4 DEF QueuesInv, Queued
<1>5. CASE V!EchoOpen
  <2>1. /\ UNCHANGED <<udp_inq, udp_out, rest>> /\ udp_at[V!Main] = "open"
        /\ \E where \in {"recv", "done"} : V!Goto(V!Main, where)
    BY <1>5 DEF V!EchoOpen
  <2>2. udp_at' \in [Interfaces -> UdpPlaces] /\ udp_at'[V!Main] # "send"
    BY <1>1, <2>1, Moves DEF UdpPlaces
  <2>3. Echoing'
    BY <1>1, <1>2, <2>1, <2>2 DEF Echoing, LastSent
  <2> QED BY <1>1, <1>3, <1>4, <2>1, <2>2, <2>3 DEF UdpInv
<1>6. CASE V!EchoRecv
  <2>1. /\ UNCHANGED <<udp_inq, udp_out>> /\ udp_at[V!Main] = "recv"
        /\ q # <<>> /\ rest' = 2 /\ V!Goto(V!Main, "send")
    BY <1>6 DEF V!EchoRecv
  <2>2. udp_at' \in [Interfaces -> UdpPlaces] /\ udp_at'[V!Main] = "send"
    BY <1>1, <2>1, Moves DEF UdpPlaces
  <2>3. Echoing'
    BY <1>1, <1>2, <2>1, <2>2 DEF Echoing, LastSent
  <2> QED BY <1>1, <1>3, <1>4, <2>1, <2>2, <2>3 DEF UdpInv
<1>7. CASE V!EchoSend
  <2>1. /\ udp_at[V!Main] = "send" /\ q # <<>>
        /\ udp_at \in [Interfaces -> UdpPlaces]
        /\ \/ \E w \in 1 .. rest :
                /\ rest' = rest - w
                /\ udp_out' = udp_out \o [k \in 1 .. w |-> <<h, 2 - rest + k>>]
                /\ UNCHANGED <<udp_at, udp_inq>>
           \/ /\ rest' = 0 /\ V!Goto(V!Main, "recv") /\ UNCHANGED udp_out
              /\ udp_inq' = [udp_inq EXCEPT ![V!Main] = Tail(q)]
    BY <1>2, <1>7 DEF V!EchoSend, V!Take, Echoing, UdpInv
  <2>2. /\ Queued(V!Main, Tail(q), came) /\ h \in 1 .. Len(came) /\ h \in Nat
        /\ Before(h, Tail(q))
        /\ \A d : Before(d, q) => Before(d, Tail(q)) /\ d < h
    BY <1>1, <1>2, <2>1, QueueTaken
  <2>3. /\ udp_out \in Seq(Nat \X Nat) /\ InParts(udp_out) /\ rest \in 0 .. 2
        /\ \A k \in 1 .. Len(udp_out) : udp_out[k][1] \in 1 .. Len(came)
        /\ rest < 2 => HalfSent(h)
        /\ rest = 2 /\ udp_out # <<>> => Before(LastSent[1], q)
    BY <1>2, <2>1 DEF Echoing
  <2>4. ASSUME NEW w \in 1 .. rest, rest' = rest - w,
               udp_out' = udp_out \o [k \in 1 .. w |-> <<h, 2 - rest + k>>],
               UNCHANGED <<udp_at, udp_inq>>
        PROVE  UdpInv'
    <3> DEFINE one == Append(udp_out, <<h, 3 - rest>>)
               two == Append(one, <<h, 4 - rest>>)
    <3>1. udp_out # <<>> => \/ udp_out[Len(udp_out)][1] < h /\ 3 - rest = 1
                            \/ /\ udp_out[Len(udp_out)][1] = h
                               /\ 3 - rest = udp_out[Len(udp_out)][2] + 1
      BY <2>2, <2>3 DEF HalfSent, LastSent
    <3>2. 3 - rest \in Nat /\ 4 - rest \in Nat
      BY <2>3
    <3>3. /\ one \in Seq(Nat \X Nat) /\ one # <<>> /\ InParts(one)
          /\ one[Len(one)] = <<h, 3 - rest>>
          /\ \A k \in 1 .. Len(one) :
               \/ one[k][1] = h
               \/ k \in 1 .. Len(udp_out) /\ one[k] = udp_out[k]
      BY <2>2, <2>3, <3>1, <3>2, PartAdded
    <3> HIDE DEF h, q
    <3>4. udp_out' = IF w = 1 THEN one ELSE two
      <4> DEFINE b == 2 - rest
      <4>1. b \in Int /\ b + 1 \in Nat /\ b + 1 = 3 - rest /\ b + 2 = 4 - rest
        BY <2>3
      <4>2. /\ w \in 1 .. 2
            /\ udp_out' = udp_out \o [k \in 1 .. w |-> <<h, b + k>>]
        BY <2>3, <2>4
      <4> HIDE DEF b
      <4>3. udp_out \o [k \in 1 .. w |-> <<h, b + k>>]
              = IF w = 1 THEN Append(udp_out, <<h, b + 1>>)
                ELSE Append(Append(udp_out, <<h, b + 1>>), <<h, b + 2>>)
        BY <2>2, <2>3, <4>1, <4>2, PartsAdded
      <4> QED BY <4>1, <4>2, <4>3
    <3>5. rest' \in 0 .. 2 /\ rest' < 2 /\ w \in 1 .. 2
      BY <2>3, <2>4
    <3>6. CASE w = 1
      <4>1. udp_out' = one /\ 3 - rest = 2 - rest'
        BY <2>3, <2>4, <3>4, <3>6
      <4> HIDE DEF one
      <4>2. udp_out' # <<>> /\ LastSent'[1] = h /\ LastSent'[2] = 2 - rest'
        BY <3>3, <4>1 DEF LastSent
      <4>3. \A k \in 1 .. Len(one) : one[k][1] \in 1 .. Len(came)
        BY <2>2, <2>3, <3>3
      <4>4. Echoing'
        BY <1>1, <2>1, <2>4, <3>3, <3>5, <4>1, <4>2, <4>3
        DEF Echoing, HalfSent, h, q
      <4> QED BY <1>1, <1>3, <1>4, <2>1, <2>4, <4>4 DEF UdpInv
    <3>7. CASE w = 2
      <4>1. rest = 2 /\ udp_out' = two /\ 4 - rest = 2 - rest'
        BY <2>3, <2>4, <3>4, <3>7
      <4> HIDE DEF one
      <4>2. one[Len(one)][1] = h /\ 4 - rest = one[Len(one)][2] + 1
        BY <3>3, <4>1
      <4>3. /\ two \in Seq(Nat \X Nat) /\ two # <<>> /\ InParts(two)
            /\ two[Len(two)] = <<h, 4 - rest>>
            /\ \A k \in 1 .. Len(two) :
                 two[k][1] = h \/ (k \in 1 .. Len(one) /\ two[k] = one[k])
        BY <2>2, <3>2, <3>3, <4>2, PartAdded
      <4> HIDE DEF two
      <4>4. udp_out' # <<>> /\ LastSent'[1] = h /\ LastSent'[2] = 2 - rest'
        BY <4>1, <4>3 DEF LastSent
      <4>5. \A k \in 1 .. Len(two) : two[k][1] \in 1 .. Len(came)
        BY <2>2, <2>3, <3>3, <4>3
      <4>6. Echoing'
        BY <1>1, <2>1, <2>4, <3>5, <4>1, <4>3, <4>4, <4>5
        DEF Echoing, HalfSent, h, q
      <4> QED BY <1>1, <1>3, <1>4, <2>1, <2>4, <4>6 DEF UdpInv
    <3> QED BY <3>5, <3>6, <3>7
  <2>5. ASSUME rest' = 0, V!Goto(V!Main, "recv"), UNCHANGED udp_out,
               udp_inq' = [udp_inq EXCEPT ![V!Main] = Tail(q)]
        PROVE  UdpInv'
    <3>1. QueuesInv' /\ udp_inq'[V!Main] = Tail(q)
      BY <1>1, <1>2, <2>2, <2>5, OneQueue
    <3>2. udp_at' \in [Interfaces -> UdpPlaces] /\ udp_at'[V!Main] = "recv"
      BY <1>1, <2>5, Moves DEF UdpPlaces
    <3>3. udp_out # <<>> => Before(LastSent[1], Tail(q))
      BY <2>2, <2>3 DEF HalfSent
    <3>4. Echoing'
      BY <1>1, <2>3, <2>5, <3>1, <3>2, <3>3 DEF Echoing, LastSent
    <3> QED BY <1>1, <1>3, <3>1, <3>2, <3>4 DEF UdpInv
  <2> QED BY <2>1, <2>4, <2>5
<1> QED BY <1>5, <1>6, <1>7

(* Every step of the examples and the network keeps replies their own. *)
LEMMA UdpStep ==
    ASSUME UdpInv, V!Next \/ UNCHANGED udp_vars
    PROVE  UdpInv'
<1>1. CASE UNCHANGED <<service, udp_at, came, udp_inq, udp_out, rest, fd, sn,
                       chip, pinned>>
  BY <1>1
  DEF UdpInv, QueuesInv, Queued, Answering, Echoing, HalfSent, LastSent,
      Joining, GroupHere
<1>2. ASSUME NEW i \in Interfaces, V!NetbiosOpen(i)
      PROVE  UdpInv'
  <2>1. /\ service = "netbios"
        /\ UNCHANGED <<service, came, udp_inq, udp_out, rest, fd, sn, chip,
                       pinned>>
        /\ \E where \in {"recv", "done"} : V!Goto(i, where)
    BY <1>2 DEF V!NetbiosOpen, V!mcast, V!own
  <2>2. udp_at' \in [Interfaces -> UdpPlaces]
    BY <2>1, Moves DEF UdpPlaces
  <2> QED BY <2>1, <2>2
          DEF UdpInv, QueuesInv, Queued, Answering, Joining, GroupHere
<1>3. ASSUME NEW i \in Interfaces, V!NewAddress(i)
      PROVE  UdpInv'
  BY <1>1, <1>3 DEF V!NewAddress, V!mcast, V!own
<1> QED BY <1>1, <1>2, <1>3, ArriveStep, SntpStep, EchoStep, McastStep,
        NetbiosStep DEF V!Next, V!Task, udp_vars

(* No responder answers a query twice, and one that is bound to its        *)
(* interface answers only what came in there; an echo is in order; and a   *)
(* group is joined on the descriptor's own socket: however many datagrams  *)
(* come in, on however many interfaces, and whatever the offset of fds.    *)
THEOREM RepliesAreOwn == FairSpec => []OwnReplies
<1>1. Init => UdpInv
  <2>1. SUFFICES ASSUME Init PROVE UdpInv
    OBVIOUS
  <2>2. V!Init
    BY <2>1 DEF Init
  <2>3. /\ came = <<>> /\ udp_out = <<>> /\ rest = 0
        /\ udp_inq = [i \in Interfaces |-> <<>>]
        /\ udp_at \in [Interfaces -> UdpPlaces] /\ udp_at[V!Main] # "send"
        /\ chip \in [Sockets -> ChipStates]
        /\ fd \in Int /\ sn \in [Descriptors -> Sockets \cup {-1}]
        /\ \A s \in Sockets : chip[s] # "multi"
    BY <2>2, MainIs DEF V!Init, V!NoSocket, UdpPlaces, ChipStates
  <2>4. QueuesInv
    BY <2>3, NoQueue, EmptySeq DEF QueuesInv
  <2>5. Answering /\ Echoing /\ Joining
    BY <2>3, EmptySeq DEF Answering, Echoing, Joining, InParts
  <2> QED BY <2>3, <2>4, <2>5 DEF UdpInv
<1>2. UdpInv /\ [Next]_all => UdpInv'
  BY UdpStep, OneProgram
<1>3. UdpInv => OwnReplies
  BY DEF UdpInv, Answering, Echoing, InParts, Joining, GroupHere, OwnReplies,
     V!OwnReplies
<1> QED BY <1>1, <1>2, <1>3, PTL DEF FairSpec

-----------------------------------------------------------------------------
(* TcpServers *)

(* What is said on a connection: chunks of the peer, parts of a response,  *)
(* and the banner.                                                         *)
Cells ==
    ((Nat \X Nat) \X {"chunk", "end"})
    \cup {<<"header">>, <<"body">>, <<"banner">>}
Typed ==
    /\ n \in Nat /\ Len(heard) <= MaxSay
    /\ heard \in Seq(Cells) /\ tcp_inq \in Seq(Cells) /\ buf \in Seq(Cells)
    /\ tcp_out \in Seq(Cells) /\ held \in Seq(Cells)

(* All that was heard has been sent back, is about to be, or is still to   *)
(* be received; a session that ends with the connection has sent it back.  *)
EchoInv ==
    /\ tcp_at = "recv" => heard = tcp_out \o tcp_inq
    /\ tcp_at = "send" => heard = (tcp_out \o buf) \o tcp_inq
    /\ tcp_at = "close" /\ ~error => peer = "fin" /\ tcp_out = heard

(* The same after the banner; a record that mbedTLS keeps is the one that  *)
(* is tried again.                                                         *)
Greeting == <<<<"banner">>>>
TlsInv ==
    /\ tcp_at \in {"handshake", "banner"}
         => heard = tcp_inq /\ tcp_out = <<>> /\ held = <<>>
    /\ tcp_at = "recv" /\ ~bannerHeld =>
         /\ held = <<>>
         /\ ~error => Greeting \o heard = tcp_out \o tcp_inq
    /\ tcp_at = "send" /\ ~bannerHeld =>
         /\ held = <<>> \/ (buf # <<>> /\ held = <<Head(buf)>>)
         /\ ~error => Greeting \o heard = (tcp_out \o buf) \o tcp_inq
    /\ tcp_at = "close" /\ ~bannerHeld /\ ~error =>
         tcp_out = <<>> \/ (peer = "fin" /\ tcp_out = Greeting \o heard)

(* A request is collected in the buffer; a response is what is in it and   *)
(* what has been sent.                                                     *)
HttpInv ==
    /\ tcp_at = "recv" => tcp_out = <<>> /\ heard = buf \o tcp_inq
    /\ tcp_at = "send" => S!RequestRead /\ tcp_out \o buf \in S!Responses
    /\ tcp_at = "close" /\ ~error =>
         tcp_out = <<>> \/ (S!RequestRead /\ tcp_out \in S!Responses)

TcpInv ==
    /\ Typed
    /\ peer = "reset" => error
    /\ prog \in {"loopback", "client", "multi"} => EchoInv
    /\ prog = "tls" => TlsInv
    /\ prog = "http" => HttpInv

(* The first of a sequence is sent, and the rest is left. *)
LEMMA Forwarded ==
    ASSUME NEW A, NEW x \in Seq(A), NEW y \in Seq(A), y # <<>>
    PROVE  /\ x \o y = Append(x, Head(y)) \o Tail(y)
           /\ Append(x, Head(y)) \in Seq(A) /\ Tail(y) \in Seq(A)
           /\ Head(y) \in A
<1> DEFINE f == Head(y)
           t == Tail(y)
<1>1. f \in A /\ t \in Seq(A) /\ Len(t) = Len(y) - 1 /\ Len(y) \in Nat
      /\ \A k \in 1 .. Len(t) : t[k] = y[k + 1]
  BY HeadTailProperties, LenProperties
<1>2. f = y[1]
  OBVIOUS
<1> HIDE DEF f, t
<1>3. <<f>> \in Seq(A) /\ Len(<<f>>) = 1 /\ <<f>>[1] = f
  BY <1>1
<1> DEFINE g == <<f>>
<1> HIDE DEF g
<1>4. /\ g \o t \in Seq(A) /\ Len(g \o t) = 1 + Len(t)
      /\ \A k \in 1 .. 1 + Len(t) :
            (g \o t)[k] = IF k <= 1 THEN g[k] ELSE t[k - 1]
  BY <1>1, <1>3, ConcatProperties DEF g
<1>5. ASSUME NEW k \in 1 .. Len(y) PROVE y[k] = (g \o t)[k]
  <2>1. k \in 1 .. 1 + Len(t) /\ (k # 1 => ~(k <= 1) /\ k - 1 \in 1 .. Len(t))
        /\ (k - 1) + 1 = k
    BY <1>1
  <2>2. CASE k = 1
    BY <1>2, <1>3, <1>4, <2>1, <2>2 DEF g
  <2>3. CASE k # 1
    <3>1. (g \o t)[k] = t[k - 1] /\ t[k - 1] = y[(k - 1) + 1]
      BY <1>1, <1>4, <2>1, <2>3
    <3> QED BY <2>1, <3>1
  <2> QED BY <2>2, <2>3
<1>6. Len(y) = Len(g \o t)
  BY <1>1, <1>4
<1>7. y = g \o t
  BY <1>4, <1>5, <1>6, SeqEqual
<1>8. Append(x, f) = x \o g /\ Append(x, f) \in Seq(A)
  BY <1>1, AppendIsConcat, AppendProperties DEF g
<1>9. g \in Seq(A)
  BY <1>3 DEF g
<1>10. (x \o g) \o t = x \o (g \o t)
  BY <1>1, <1>9, ConcatAssociative
<1> QED BY <1>1, <1>7, <1>8, <1>10 DEF f, t

(* A call takes the first part of what has arrived. *)
LEMMA Received ==
    ASSUME NEW A, tcp_inq \in Seq(A), NEW data, S!Recv(data)
    PROVE  /\ data \in Seq(A) /\ tcp_inq' \in Seq(A) /\ data # <<>>
           /\ tcp_inq = data \o tcp_inq'
<1> DEFINE z == Len(tcp_inq)
<1>1. PICK k \in 1 .. z :
        data = SubSeq(tcp_inq, 1, k) /\ tcp_inq' = SubSeq(tcp_inq, k + 1, z)
  BY DEF S!Recv
<1>2. z \in Nat /\ \A j \in 1 .. z : tcp_inq[j] \in A
  BY LenProperties, ElementOfSeq
<1> HIDE DEF z
<1>3. 1 \in Int /\ k \in Int /\ 1 <= k /\ k + 1 \in Int /\ z \in Int
      /\ \A j \in 1 .. k : j \in 1 .. z
  BY <1>2
<1>4. data \in Seq(A) /\ Len(data) = k
  <2>1. Len(data) = (k - 1) + 1 /\ data \in Seq(A)
    BY <1>1, <1>2, <1>3, SubSeqProperties
  <2> QED BY <2>1, <1>3
<1>5. tcp_inq' \in Seq(A)
  <2>1. \A j \in k + 1 .. z : j \in 1 .. z
    BY <1>2
  <2> QED BY <1>1, <1>2, <1>3, <2>1, SubSeqProperties
<1>6. data # <<>>
  BY <1>3, <1>4, EmptySeq
<1>7. SubSeq(tcp_inq, 1, k) \o SubSeq(tcp_inq, k + 1, z)
        = SubSeq(tcp_inq, 1, z)
  <2>1. 1 \in 1 .. z + 1 /\ k \in 1 - 1 .. z /\ z \in k .. z
    BY <1>2
  <2> QED BY <2>1, ConcatAdjacentSubSeq DEF z
<1>8. SubSeq(tcp_inq, 1, z) = tcp_inq
  BY SubSeqFull DEF z
<1> QED BY <1>1, <1>4, <1>5, <1>6, <1>7, <1>8

(* Nothing is claimed between connections, or of ssl_task(). *)
LEMMA Between ==
    ASSUME TcpInv, Typed', prog' = prog, peer' = "reset" => error',
           \/ tcp_at' \in {"link", "setup", "listen", "accept", "connect",
                           "delay", "done"}
           \/ prog = "tls_client"
    PROVE  TcpInv'
BY DEF TcpInv, EchoInv, TlsInv, HttpInv

(* The network: the peer speaks, goes, or acknowledges, or does not. *)
LEMMA PeerStep ==
    ASSUME TcpInv, S!Say \/ S!Leave \/ S!Acked \/ S!TimesOut
    PROVE  TcpInv'
<1>1. Typed /\ (peer = "reset" => error)
  BY DEF TcpInv
<1>2. /\ UNCHANGED <<prog, tcp_at, n, tcp_out, buf, held, bannerHeld>>
      /\ \/ /\ S!Say /\ UNCHANGED <<peer, error>>
         \/ UNCHANGED <<heard, tcp_inq>>
  BY DEF S!Say, S!Leave, S!Acked, S!TimesOut, S!tls
<1>3. /\ peer' = "reset" => error'
      /\ error => error'
      /\ peer = "fin" => peer' = "fin"
  BY <1>1 DEF S!Say, S!Leave, S!Acked, S!TimesOut
<1>4. CASE UNCHANGED <<heard, tcp_inq>>
  <2>1. Typed'
    BY <1>1, <1>2, <1>4 DEF Typed
  <2>2. EchoInv => EchoInv'
    BY <1>2, <1>3, <1>4 DEF EchoInv
  <2>3. TlsInv => TlsInv'
    BY <1>2, <1>3, <1>4 DEF TlsInv
  <2>4. HttpInv => HttpInv'
    BY <1>2, <1>3, <1>4 DEF HttpInv, S!RequestRead, S!Read
  <2> QED BY <1>2, <1>3, <2>1, <2>2, <2>3, <2>4 DEF TcpInv
<1>5. \A a, b, d \in Seq(Cells) : (a \o b) \o d = a \o (b \o d)
  BY ConcatAssociative
<1>6. CASE S!Say
  <2>0. PICK mark \in S!Marks :
          LET chunk == <<<<n, Len(heard) + 1>>, mark>>
          IN  heard' = Append(heard, chunk) /\ tcp_inq' = Append(tcp_inq, chunk)
    BY <1>6 DEF S!Say
  <2> DEFINE e == <<<<n, Len(heard) + 1>>, mark>>
  <2>1. /\ heard' = Append(heard, e) /\ tcp_inq' = Append(tcp_inq, e)
        /\ peer = "here" /\ Len(heard) < MaxSay
    BY <1>6, <2>0 DEF S!Say
  <2>2. e \in Cells
    <3>1. Len(heard) + 1 \in Nat /\ n \in Nat
      BY <1>1, LenProperties DEF Typed
    <3>2. mark \in {"chunk", "end"}
      BY DEF S!Marks
    <3> QED BY <3>1, <3>2 DEF Cells
  <2> HIDE DEF e
  <2>3. /\ heard' \in Seq(Cells) /\ tcp_inq' \in Seq(Cells)
        /\ Len(heard') = Len(heard) + 1 /\ Len(heard) \in Nat
    BY <1>1, <2>1, <2>2, AppendProperties, LenProperties DEF Typed
  <2>4. Typed'
    <3>1. Len(heard') <= MaxSay
      BY <2>1, <2>3, RequestAssumption
    <3> QED BY <1>1, <1>2, <2>3, <3>1 DEF Typed
  <2>5. ASSUME NEW w \in Seq(Cells), NEW x \in Seq(Cells),
               w \o heard = x \o tcp_inq
        PROVE  w \o heard' = x \o tcp_inq'
    <3> DEFINE f == <<e>>
    <3>1. /\ heard \in Seq(Cells) /\ tcp_inq \in Seq(Cells)
          /\ f \in Seq(Cells)
      BY <1>1, <2>2 DEF Typed
    <3>2. heard' = heard \o f /\ tcp_inq' = tcp_inq \o f
      BY <2>1, <2>2, <3>1, AppendIsConcat
    <3> HIDE DEF f
    <3>3. /\ (w \o heard) \o f = w \o (heard \o f)
          /\ (x \o tcp_inq) \o f = x \o (tcp_inq \o f)
      <4>1. (w \o heard) \o f = w \o (heard \o f)
        BY <1>5, <3>1, Zenon
      <4>2. (x \o tcp_inq) \o f = x \o (tcp_inq \o f)
        BY <1>5, <3>1, Zenon
      <4> QED BY <4>1, <4>2
    <3> QED BY <2>5, <3>2, <3>3, Zenon
  <2>6. ASSUME NEW x \in Seq(Cells), heard = x \o tcp_inq
         PROVE  heard' = x \o tcp_inq'
    <3>1. <<>> \o heard = heard /\ <<>> \o heard' = heard'
      BY <1>1, <2>3, ConcatEmptySeq DEF Typed
    <3>2. <<>> \in Seq(Cells)
      OBVIOUS
    <3> QED BY <2>5, <2>6, <3>1, <3>2
  <2>7. tcp_out \o buf \in Seq(Cells)
    BY <1>1, ConcatProperties DEF Typed
  <2>8. EchoInv => EchoInv'
    BY <1>1, <1>2, <1>3, <2>1, <2>7, <2>6 DEF EchoInv, Typed
  <2>9. TlsInv => TlsInv'
    <3>1. Greeting \in Seq(Cells)
      BY DEF Greeting, Cells
    <3> HIDE DEF Greeting
    <3>2. heard = tcp_inq => heard' = tcp_inq'
      BY <2>1
    <3> QED BY <1>1, <1>2, <1>3, <1>6, <2>1, <2>5, <2>7, <3>1, <3>2
            DEF TlsInv, Typed
  <2>10. HttpInv => HttpInv'
    <3>1. S!RequestRead => S!RequestRead'
      <4>1. Len(tcp_inq') = Len(tcp_inq) + 1 /\ Len(tcp_inq) \in Nat
        BY <1>1, <2>1, <2>2, AppendProperties, LenProperties DEF Typed
      <4>2. S!Read' = S!Read /\ S!Read <= Len(heard)
        BY <2>3, <4>1 DEF S!Read
      <4>3. \A j \in 1 .. S!Read : heard'[j] = heard[j]
        <5>1. \A j \in 1 .. Len(heard) : heard'[j] = heard[j]
          BY <1>1, <2>1, <2>2 DEF Typed
        <5>2. \A j \in 1 .. S!Read : j \in 1 .. Len(heard)
          BY <2>3, <4>1 DEF S!Read
        <5> QED BY <5>1, <5>2
      <4> QED BY <4>2, <4>3 DEF S!RequestRead
    <3> QED BY <1>1, <1>2, <1>3, <1>6, <2>6, <3>1 DEF HttpInv, Typed
  <2> QED BY <1>2, <1>3, <2>4, <2>8, <2>9, <2>10 DEF TcpInv
<1> QED BY <1>2, <1>4, <1>6

(* A connection is accepted or made. *)
LEMMA BeginStep ==
    ASSUME TcpInv, S!Begin, prog' = prog,
           \/ tcp_at' = "recv" /\ prog # "tls"
           \/ tcp_at' = "handshake"
    PROVE  TcpInv'
<1>1. /\ heard' = <<>> /\ tcp_inq' = <<>> /\ tcp_out' = <<>> /\ held' = <<>>
      /\ buf' = <<>> /\ n' \in Nat /\ peer' = "here"
  BY DEF TcpInv, Typed, S!Begin
<1>2. <<>> \in Seq(Cells) /\ Len(<<>>) = 0 /\ <<>> \o <<>> = <<>>
  BY EmptySeq, ConcatEmptySeq
<1>3. Typed'
  BY <1>1, <1>2, RequestAssumption DEF Typed
<1> QED BY <1>1, <1>2, <1>3 DEF TcpInv, EchoInv, TlsInv, HttpInv

(* What has arrived is taken into the buffer, or the peer has gone. *)
LEMMA EchoRecvStep ==
    ASSUME TcpInv, S!EchoRecv, prog \in {"loopback", "client", "multi"}
    PROVE  TcpInv'
<1>1. /\ Typed /\ EchoInv /\ (peer = "reset" => error) /\ tcp_at = "recv"
      /\ UNCHANGED <<prog, n, peer, heard, tcp_out, error, held>>
  BY DEF TcpInv, S!EchoRecv, S!tls
<1>2. heard = tcp_out \o tcp_inq
  BY <1>1 DEF EchoInv
<1>3. ASSUME NEW data, S!Recv(data), buf' = data, tcp_at' = "send"
      PROVE  TcpInv'
  <2>1. /\ data \in Seq(Cells) /\ tcp_inq' \in Seq(Cells)
        /\ tcp_inq = data \o tcp_inq'
    BY <1>1, <1>3, Received DEF Typed
  <2>2. heard = (tcp_out \o data) \o tcp_inq'
    <3>1. tcp_out \in Seq(Cells)
      BY <1>1 DEF Typed
    <3>2. (tcp_out \o data) \o tcp_inq' = tcp_out \o (data \o tcp_inq')
      <4>1. \A a, b, d \in Seq(Cells) : (a \o b) \o d = a \o (b \o d)
        BY ConcatAssociative
      <4> QED BY <2>1, <3>1, <4>1
    <3> QED BY <1>2, <2>1, <3>2, Zenon
  <2>3. Typed'
    BY <1>1, <1>3, <2>1 DEF Typed
  <2> QED BY <1>1, <1>3, <2>2, <2>3 DEF TcpInv, EchoInv
<1>4. CASE S!AtEnd /\ tcp_at' = "close" /\ UNCHANGED <<tcp_inq, buf>>
  <2>1. tcp_inq = <<>> /\ peer \in {"fin", "reset"}
    BY <1>4 DEF S!AtEnd
  <2>2. tcp_out = heard
    BY <1>1, <1>2, <2>1, ConcatEmptySeq DEF Typed
  <2>3. Typed'
    BY <1>1, <1>4 DEF Typed
  <2> QED BY <1>1, <1>4, <2>1, <2>2, <2>3 DEF TcpInv, EchoInv
<1> QED BY <1>3, <1>4 DEF S!EchoRecv, S!Goto

(* send_all(): the next chunk is sent, or tried again, or all are, or the  *)
(* connection is lost.                                                     *)
LEMMA SendAllStep ==
    ASSUME TcpInv, NEW l, S!SendAll(l),
           \/ l = "recv" /\ prog \in {"loopback", "client", "multi"}
           \/ l = "close" /\ prog = "http"
    PROVE  TcpInv'
<1>1. /\ Typed /\ (peer = "reset" => error) /\ tcp_at = "send"
      /\ UNCHANGED <<prog, n, peer, heard, tcp_inq, error, held>>
      /\ prog # "http" => EchoInv
      /\ prog = "http" => HttpInv
  BY DEF TcpInv, S!SendAll, S!tls
<1>2. CASE /\ buf # <<>> /\ tcp_out' = Append(tcp_out, Head(buf))
           /\ buf' = Tail(buf) /\ tcp_at' = "send"
  <2>1. /\ tcp_out \o buf = tcp_out' \o buf'
        /\ tcp_out' \in Seq(Cells) /\ buf' \in Seq(Cells)
    BY <1>1, <1>2, Forwarded DEF Typed
  <2>2. Typed'
    BY <1>1, <2>1 DEF Typed
  <2>3. EchoInv => EchoInv'
    BY <1>1, <1>2, <2>1 DEF EchoInv
  <2>4. HttpInv => HttpInv'
    BY <1>1, <1>2, <2>1 DEF HttpInv, S!RequestRead, S!Read
  <2> QED BY <1>1, <2>2, <2>3, <2>4 DEF TcpInv
<1>3. CASE buf = <<>> /\ tcp_at' = l /\ UNCHANGED <<tcp_out, buf>>
  <2>1. tcp_out \o buf = tcp_out
    BY <1>1, <1>3, ConcatEmptySeq DEF Typed
  <2>2. Typed'
    BY <1>1, <1>3 DEF Typed
  <2>3. CASE l = "recv" /\ prog \in {"loopback", "client", "multi"}
    <3>1. EchoInv'
      BY <1>1, <1>3, <2>1, <2>3 DEF EchoInv
    <3> QED BY <1>1, <2>2, <2>3, <3>1 DEF TcpInv
  <2>4. CASE l = "close" /\ prog = "http"
    <3>1. HttpInv'
      BY <1>1, <1>3, <2>1, <2>4 DEF HttpInv, S!RequestRead, S!Read
    <3> QED BY <1>1, <2>2, <2>4, <3>1 DEF TcpInv
  <2> QED BY <2>3, <2>4
<1>4. CASE /\ S!Fails /\ tcp_at' = "close" /\ UNCHANGED <<tcp_out, buf>>
  <2>1. error'
    BY <1>1, <1>4 DEF S!Fails
  <2>2. Typed'
    BY <1>1, <1>4 DEF Typed
  <2> QED BY <1>1, <1>4, <2>1, <2>2 DEF TcpInv, EchoInv, HttpInv
<1> QED BY <1>2, <1>3, <1>4 DEF S!SendAll, S!Put, S!Goto, S!Retried

(* A request is collected, and answered when it has been read, or given up. *)
LEMMA ServeStep ==
    ASSUME TcpInv, S!ServeClient, prog = "http"
    PROVE  TcpInv'
<1>1. /\ Typed /\ HttpInv /\ (peer = "reset" => error) /\ tcp_at = "recv"
      /\ UNCHANGED <<prog, n, peer, heard, tcp_out, error, held>>
  BY DEF TcpInv, S!ServeClient, S!tls
<1>2. tcp_out = <<>> /\ heard = buf \o tcp_inq
  BY <1>1 DEF HttpInv
<1>3. ASSUME NEW data, S!Recv(data)
      PROVE  /\ data \in Seq(Cells) /\ tcp_inq' \in Seq(Cells)
             /\ buf \o data \in Seq(Cells)
             /\ heard = (buf \o data) \o tcp_inq'
  <2>1. /\ data \in Seq(Cells) /\ tcp_inq' \in Seq(Cells)
        /\ tcp_inq = data \o tcp_inq'
    BY <1>1, <1>3, Received DEF Typed
  <2>2. buf \in Seq(Cells)
    BY <1>1 DEF Typed
  <2>3. /\ (buf \o data) \o tcp_inq' = buf \o (data \o tcp_inq')
        /\ buf \o data \in Seq(Cells)
    <3>1. \A a, b, d \in Seq(Cells) : (a \o b) \o d = a \o (b \o d)
      BY ConcatAssociative
    <3>2. buf \o data \in Seq(Cells)
      BY <2>1, <2>2, ConcatProperties
    <3> QED BY <2>1, <2>2, <3>1, <3>2
  <2> QED BY <1>2, <2>1, <2>3, Zenon
<1>4. ASSUME NEW data, S!Recv(data), buf' = buf \o data, tcp_at' = "recv"
      PROVE  TcpInv'
  <2>1. Typed'
    BY <1>1, <1>3, <1>4 DEF Typed
  <2>2. HttpInv'
    BY <1>1, <1>2, <1>3, <1>4 DEF HttpInv
  <2> QED BY <1>1, <2>1, <2>2 DEF TcpInv
<1>5. CASE tcp_at' = "close" /\ UNCHANGED <<tcp_inq, buf>>
  <2>1. Typed'
    BY <1>1, <1>5 DEF Typed
  <2> QED BY <1>1, <1>2, <1>5, <2>1 DEF TcpInv, HttpInv
<1>6. ASSUME NEW data, S!Recv(data), S!Complete(buf \o data),
             buf' \in S!Responses, tcp_at' = "send"
      PROVE  TcpInv'
  <2>1. /\ Len(heard) = Len(buf \o data) + Len(tcp_inq')
        /\ Len(tcp_inq') \in Nat /\ Len(buf \o data) \in Nat
        /\ \A j \in 1 .. Len(buf \o data) : heard[j] = (buf \o data)[j]
    <3> DEFINE request == buf \o data
    <3>1. /\ request \in Seq(Cells) /\ tcp_inq' \in Seq(Cells)
          /\ heard = request \o tcp_inq'
      BY <1>3, <1>6
    <3> HIDE DEF request
    <3>2. /\ Len(heard) = Len(request) + Len(tcp_inq')
          /\ Len(tcp_inq') \in Nat /\ Len(request) \in Nat
          /\ \A j \in 1 .. Len(request) : heard[j] = request[j]
      BY <3>1
    <3> QED BY <3>2 DEF request
  <2>2. S!RequestRead'
    <3>1. S!Read' = Len(buf \o data) /\ heard' = heard
      BY <1>1, <2>1 DEF S!Read
    <3> QED BY <1>6, <2>1, <3>1 DEF S!RequestRead, S!Complete, S!HasEnd
  <2>3. buf' \in Seq(Cells)
    <3>1. <<"header">> \in Cells /\ <<"body">> \in Cells
      BY DEF Cells
    <3>2. <<<<"header">>>> \in Seq(Cells)
      BY <3>1
    <3>3. <<<<"header">>, <<"body">>>> \in Seq(Cells)
      BY <3>1
    <3> QED BY <1>6, <3>2, <3>3 DEF S!Responses
  <2>4. tcp_out \o buf' = buf'
    BY <1>2, <2>3, ConcatEmptySeq
  <2>5. Typed'
    BY <1>1, <1>3, <1>6, <2>3 DEF Typed
  <2>6. HttpInv'
    BY <1>1, <1>6, <2>2, <2>4 DEF HttpInv
  <2> QED BY <1>1, <2>5, <2>6 DEF TcpInv
<1> QED BY <1>4, <1>5, <1>6 DEF S!ServeClient, S!RecvRequest, S!Taken, S!Goto

(* mbedTLS keeps a record only while the chunk it is of is tried again.    *)
LEMMA HandshakeStep ==
    ASSUME TcpInv, S!Handshake, prog = "tls"
    PROVE  TcpInv'
<1>1. /\ Typed /\ TlsInv /\ (peer = "reset" => error)
      /\ tcp_at = "handshake" /\ tcp_at' \in {"banner", "close"}
      /\ UNCHANGED <<prog, n, peer, heard, tcp_inq, tcp_out, error, buf, held>>
  BY DEF TcpInv, S!Handshake, S!Goto, S!tls
<1>2. Typed'
  BY <1>1 DEF Typed
<1>3. TlsInv'
  BY <1>1 DEF TlsInv
<1> QED BY <1>1, <1>2, <1>3 DEF TcpInv

(* The banner is sent, or kept back, or the connection is lost. *)
LEMMA BannerStep ==
    ASSUME TcpInv, S!Banner
    PROVE  TcpInv'
<1>1. /\ Typed /\ TlsInv /\ (peer = "reset" => error) /\ prog = "tls"
      /\ tcp_at = "banner" /\ tcp_at' = "recv"
      /\ UNCHANGED <<prog, n, peer, heard, tcp_inq, error, buf>>
  BY DEF TcpInv, S!Banner, S!Goto
<1>2. heard = tcp_inq /\ tcp_out = <<>> /\ held = <<>>
  BY <1>1 DEF TlsInv
<1>3. <<"banner">> \in Cells /\ <<>> \in Seq(Cells) /\ Greeting \in Seq(Cells)
  BY DEF Cells, Greeting
<1>4. CASE S!TlsWritten(<<"banner">>)
  <2>1. tcp_out' = Greeting /\ held' = <<>>
    <3>1. Append(<<>>, <<"banner">>) = Greeting
      BY DEF Greeting
    <3> QED BY <1>2, <1>4, <3>1 DEF S!TlsWritten, S!Put
  <2>2. Typed'
    BY <1>1, <1>3, <2>1 DEF Typed
  <2>3. TlsInv'
    BY <1>1, <1>2, <2>1 DEF TlsInv
  <2> QED BY <1>1, <2>2, <2>3 DEF TcpInv
<1>5. CASE S!WantWrite(<<"banner">>) /\ bannerHeld' = TRUE
  <2>1. held' = Greeting /\ tcp_out' = tcp_out
    BY <1>2, <1>5 DEF S!WantWrite, Greeting
  <2>2. Typed'
    BY <1>1, <1>3, <2>1 DEF Typed
  <2>3. TlsInv'
    BY <1>1, <1>5 DEF TlsInv
  <2> QED BY <1>1, <2>2, <2>3 DEF TcpInv
<1>6. CASE S!WriteFails
  <2>1. error' /\ UNCHANGED <<tcp_out, held>>
    BY <1>1, <1>6 DEF S!WriteFails, S!Fails
  <2>2. Typed'
    BY <1>1, <2>1 DEF Typed
  <2>3. TlsInv'
    BY <1>1, <1>2, <2>1 DEF TlsInv
  <2> QED BY <1>1, <2>2, <2>3 DEF TcpInv
<1> QED BY <1>4, <1>5, <1>6 DEF S!Banner

(* mbedtls_ssl_read(): what has arrived is taken, or the peer has gone. *)
LEMMA TlsReadStep ==
    ASSUME TcpInv, S!TlsRead
    PROVE  TcpInv'
<1>1. /\ Typed /\ (peer = "reset" => error) /\ tcp_at = "recv"
      /\ prog = "tls" => TlsInv
      /\ UNCHANGED <<prog, n, peer, heard, tcp_out, error, held, bannerHeld>>
  BY DEF TcpInv, S!TlsRead, S!tls
<1>2. /\ tcp_out \in Seq(Cells) /\ heard \in Seq(Cells)
      /\ Greeting \in Seq(Cells)
  BY <1>1 DEF Typed, Greeting, Cells
<1> HIDE DEF Greeting
<1>3. ASSUME NEW data, S!Recv(data)
      PROVE  /\ data \in Seq(Cells) /\ tcp_inq' \in Seq(Cells)
             /\ tcp_inq = data \o tcp_inq'
  BY <1>1, <1>3, Received DEF Typed
<1>4. ASSUME NEW data, S!Recv(data), prog = "tls", buf' = data,
             tcp_at' = "send"
      PROVE  TcpInv'
  <2>1. Typed'
    BY <1>1, <1>3, <1>4 DEF Typed
  <2>2. (tcp_out \o data) \o tcp_inq' = tcp_out \o tcp_inq
    <3>1. (tcp_out \o data) \o tcp_inq' = tcp_out \o (data \o tcp_inq')
      <4>1. \A a, b, d \in Seq(Cells) : (a \o b) \o d = a \o (b \o d)
        BY ConcatAssociative
      <4>2. /\ tcp_out \in Seq(Cells) /\ data \in Seq(Cells)
            /\ tcp_inq' \in Seq(Cells)
        BY <1>2, <1>3, <1>4
      <4> QED BY <4>1, <4>2
    <3> QED BY <1>3, <1>4, <3>1, Zenon
  <2>3. TlsInv'
    BY <1>1, <1>4, <2>2 DEF TlsInv
  <2> QED BY <1>1, <1>4, <2>1, <2>3 DEF TcpInv
<1>5. ASSUME NEW data, S!Recv(data), prog = "tls_client",
             UNCHANGED <<buf, tcp_at>>
      PROVE  TcpInv'
  <2>1. Typed'
    BY <1>1, <1>3, <1>5 DEF Typed
  <2> QED BY <1>1, <1>5, <2>1, Between
<1>6. CASE S!AtEnd /\ tcp_at' = "close" /\ UNCHANGED <<tcp_inq, buf>>
  <2>1. tcp_inq = <<>> /\ peer \in {"fin", "reset"}
    BY <1>6 DEF S!AtEnd
  <2>2. Typed'
    BY <1>1, <1>6 DEF Typed
  <2>3. tcp_out \o tcp_inq = tcp_out
    BY <1>2, <2>1, ConcatEmptySeq
  <2>4. prog = "tls" => TlsInv'
    BY <1>1, <1>6, <2>1, <2>3 DEF TlsInv
  <2> QED BY <1>1, <1>6, <2>1, <2>2, <2>4 DEF TcpInv, EchoInv, HttpInv
<1> QED BY <1>4, <1>5, <1>6 DEF S!TlsRead, S!TlsEnd, S!Goto

(* A chunk is written, kept back by mbedTLS and tried again, or the task   *)
(* has written all; or the connection is lost.                             *)
LEMMA TlsEchoStep ==
    ASSUME TcpInv, S!TlsEcho, prog = "tls"
    PROVE  TcpInv'
<1>1. /\ Typed /\ TlsInv /\ (peer = "reset" => error) /\ tcp_at = "send"
      /\ UNCHANGED <<prog, n, peer, heard, tcp_inq, error, bannerHeld>>
  BY DEF TcpInv, S!TlsEcho
<1>2. /\ buf \in Seq(Cells) /\ tcp_out \in Seq(Cells) /\ held \in Seq(Cells)
  BY <1>1 DEF Typed
<1>3. ~bannerHeld =>
         /\ held = <<>> \/ (buf # <<>> /\ held = <<Head(buf)>>)
         /\ ~error => Greeting \o heard = (tcp_out \o buf) \o tcp_inq
  BY <1>1 DEF TlsInv
<1>4. CASE /\ buf # <<>> /\ S!TlsWritten(Head(buf))
           /\ buf' = Tail(buf) /\ tcp_at' = "send"
  <2> DEFINE f == IF held = <<>> THEN Head(buf) ELSE Head(held)
  <2>1. tcp_out' = Append(tcp_out, f) /\ held' = <<>>
    BY <1>4 DEF S!TlsWritten, S!Put
  <2>2. f \in Cells
    BY <1>2, <1>4, HeadTailProperties
  <2>3. ~bannerHeld => f = Head(buf)
    BY <1>3
  <2> HIDE DEF f
  <2>4. /\ buf' \in Seq(Cells) /\ tcp_out' \in Seq(Cells)
        /\ held' \in Seq(Cells)
    BY <1>2, <1>4, <2>1, <2>2, AppendProperties, HeadTailProperties
  <2>5. ~bannerHeld => tcp_out' \o buf' = tcp_out \o buf
    <3>1. tcp_out \o buf = Append(tcp_out, Head(buf)) \o Tail(buf)
      BY <1>2, <1>4, Forwarded
    <3> QED BY <1>4, <2>1, <2>3, <3>1, Zenon
  <2>6. Typed'
    BY <1>1, <2>4 DEF Typed
  <2>7. TlsInv'
    BY <1>1, <1>3, <1>4, <2>1, <2>5 DEF TlsInv
  <2> QED BY <1>1, <2>6, <2>7 DEF TcpInv
<1>5. CASE /\ buf # <<>> /\ S!WantWrite(Head(buf)) /\ tcp_at' = "send"
           /\ UNCHANGED buf
  <2>1. /\ UNCHANGED tcp_out
        /\ held' = IF held = <<>> THEN <<Head(buf)>> ELSE held
    BY <1>5 DEF S!WantWrite
  <2>2. Head(buf) \in Cells
    BY <1>2, <1>5, HeadTailProperties
  <2>3. held' \in Seq(Cells)
    BY <1>2, <2>1, <2>2
  <2>4. Typed'
    BY <1>1, <1>5, <2>1, <2>3 DEF Typed
  <2>5. TlsInv'
    <3>1. ~bannerHeld => held' = <<Head(buf)>>
      BY <1>3, <2>1
    <3> QED BY <1>1, <1>3, <1>5, <2>1, <3>1 DEF TlsInv
  <2> QED BY <1>1, <2>4, <2>5 DEF TcpInv
<1>6. CASE /\ S!WriteFails /\ tcp_at' = "close" /\ UNCHANGED buf
  <2>1. error' /\ UNCHANGED <<tcp_out, held>>
    BY <1>1, <1>6 DEF S!WriteFails, S!Fails
  <2>2. Typed'
    BY <1>1, <1>6, <2>1 DEF Typed
  <2> QED BY <1>1, <1>6, <2>1, <2>2 DEF TcpInv, TlsInv
<1>7. CASE /\ buf = <<>> /\ tcp_at' = "recv"
           /\ UNCHANGED <<buf, tcp_out, held>>
  <2>1. tcp_out \o buf = tcp_out
    BY <1>2, <1>7, ConcatEmptySeq
  <2>2. Typed'
    BY <1>1, <1>7 DEF Typed
  <2>3. TlsInv'
    BY <1>1, <1>3, <1>7, <2>1 DEF TlsInv
  <2> QED BY <1>1, <2>2, <2>3 DEF TcpInv
<1> QED BY <1>4, <1>5, <1>6, <1>7 DEF S!TlsEcho, S!Goto

(* ssl_task() writes its hello until it is out. *)
LEMMA HelloStep ==
    ASSUME TcpInv, S!Hello
    PROVE  TcpInv'
<1> DEFINE hello == <<"banner">>
<1>1. /\ Typed /\ (peer = "reset" => error) /\ prog = "tls_client"
      /\ UNCHANGED <<prog, n, peer, heard, tcp_inq, error, buf>>
      /\ S!TlsWritten(hello) \/ S!WantWrite(hello) \/ S!WriteFails
  BY DEF TcpInv, S!Hello
<1>2. hello \in Cells /\ held \in Seq(Cells) /\ tcp_out \in Seq(Cells)
  BY <1>1 DEF Cells, Typed
<1> HIDE DEF hello
<1>3. held' \in Seq(Cells) /\ tcp_out' \in Seq(Cells)
  <2>1. CASE S!TlsWritten(hello)
    <3>1. /\ held' = <<>>
          /\ tcp_out' = Append(tcp_out, IF held = <<>> THEN hello
                                        ELSE Head(held))
      BY <2>1 DEF S!TlsWritten, S!Put
    <3>2. (IF held = <<>> THEN hello ELSE Head(held)) \in Cells
      BY <1>2, HeadTailProperties
    <3> QED BY <1>2, <3>1, <3>2, AppendProperties
  <2>2. CASE S!WantWrite(hello)
    BY <1>2, <2>2 DEF S!WantWrite
  <2>3. CASE S!WriteFails
    BY <1>2, <2>3 DEF S!WriteFails
  <2> QED BY <1>1, <2>1, <2>2, <2>3
<1>4. Typed'
  BY <1>1, <1>3 DEF Typed
<1> QED BY <1>1, <1>4, Between

(* What fails, waits or closes keeps what was sent and heard. *)
LEMMA RestStep ==
    ASSUME TcpInv, UNCHANGED <<prog, n, heard, tcp_inq, buf, tcp_out, held,
                               error>>,
           tcp_at' \in {"listen", "accept", "connect", "delay", "setup",
                        "done"},
           peer' \in {peer, "none"}
    PROVE  TcpInv'
<1>1. Typed' /\ (peer' = "reset" => error')
  BY DEF TcpInv, Typed
<1> QED BY <1>1, Between

(* Every step of the tasks, the peers and the chip keeps the invariant. *)
LEMMA TcpStep ==
    ASSUME TcpInv, S!Next \/ UNCHANGED tcp_vars
    PROVE  TcpInv'
<1>1. CASE UNCHANGED tcp_vars
  BY <1>1 DEF tcp_vars, TcpInv, Typed, EchoInv, TlsInv, HttpInv,
     S!RequestRead, S!Read
<1>2. CASE S!Say \/ S!Leave \/ S!Acked \/ S!TimesOut
  BY <1>2, PeerStep
<1>3. ASSUME NEW from, NEW to, S!Try(from, to),
             to \in {"listen", "accept", "connect", "setup"}
      PROVE  TcpInv'
  BY <1>3, RestStep DEF S!Try, S!Goto, S!conn, S!tls
<1>4. CASE S!Retry
  BY <1>4, RestStep DEF S!Retry, S!Goto, S!conn, S!tls
<1>5. ASSUME NEW l \in {"accept", "delay"}, S!Close(l)
      PROVE  TcpInv'
  BY <1>5, RestStep DEF S!Close, S!Goto, S!tls
<1>6. ASSUME NEW l \in {"recv", "handshake"}, S!Accept(l) \/ S!Connect(l),
             prog = "tls" => l = "handshake"
      PROVE  TcpInv'
  BY <1>6, BeginStep DEF S!Accept, S!Connect, S!Goto
<1>7. CASE S!LoopbackTask
  BY <1>3, <1>7 DEF S!LoopbackTask
<1>8. CASE S!LoopbackServer
  BY <1>3, <1>5, <1>6, <1>8, EchoRecvStep, SendAllStep
  DEF S!LoopbackServer, S!Listen
<1>9. CASE S!LoopbackClient
  BY <1>4, <1>5, <1>6, <1>9, EchoRecvStep, SendAllStep
  DEF S!LoopbackClient
<1>10. CASE S!Supervisor \/ S!OpenListener
  BY <1>3, <1>10 DEF S!Supervisor, S!OpenListener, S!Listen
<1>11. CASE S!MultiWorker
  BY <1>5, <1>6, <1>11, EchoRecvStep, SendAllStep DEF S!MultiWorker
<1>12. CASE S!HttpTask \/ S!HttpServe
  BY <1>3, <1>5, <1>6, <1>12, ServeStep, SendAllStep
  DEF S!HttpTask, S!HttpServe, S!Listen
<1>13. CASE S!SslEchoTask
  BY <1>3, <1>13 DEF S!SslEchoTask
<1>14. CASE S!SslServe
  BY <1>3, <1>5, <1>6, <1>14, HandshakeStep, BannerStep, TlsReadStep,
     TlsEchoStep
  DEF S!SslServe, S!Listen
<1>15. CASE S!SslTask
  BY <1>3, <1>15 DEF S!SslTask
<1>16. ASSUME S!Handshake, prog = "tls_client" PROVE TcpInv'
  <2>1. Typed' /\ prog' = prog /\ (peer' = "reset" => error')
    BY <1>16 DEF TcpInv, Typed, S!Handshake, S!tls
  <2> QED BY <1>16, <2>1, Between
<1>17. CASE S!SslSession
  BY <1>4, <1>5, <1>6, <1>16, <1>17, HelloStep, TlsReadStep DEF S!SslSession
<1> QED BY <1>1, <1>2, <1>7, <1>8, <1>9, <1>10, <1>11, <1>12, <1>13, <1>14,
        <1>15, <1>17 DEF S!Next, S!Task

(* A session that ends has been answered as it had to be, however much is  *)
(* said on it and however it is cut up: an echo is whole and in order, and *)
(* a response goes only to a request that has been read to its end or that *)
(* fills the buffer, however large that is.                                *)
THEOREM SessionsAreAnswered == FairSpec => []Answered
<1>1. Init => TcpInv
  <2>1. SUFFICES ASSUME Init PROVE TcpInv
    OBVIOUS
  <2>2. S!Init
    BY <2>1 DEF Init
  <2>3. /\ n = 0 /\ peer = "none" /\ tcp_at = "link"
        /\ heard = <<>> /\ tcp_inq = <<>> /\ buf = <<>> /\ tcp_out = <<>>
        /\ held = <<>>
    BY <2>2 DEF S!Init
  <2>4. <<>> \in Seq(Cells) /\ Len(<<>>) = 0
    BY EmptySeq
  <2>5. Typed
    BY <2>3, <2>4, RequestAssumption DEF Typed
  <2> QED BY <2>3, <2>5 DEF TcpInv, EchoInv, TlsInv, HttpInv
<1>2. TcpInv /\ [Next]_all => TcpInv'
  BY TcpStep, OneProgram
<1>3. TcpInv => Answered
  BY DEF TcpInv, EchoInv, TlsInv, HttpInv, Greeting, Answered, S!Answered
<1> QED BY <1>1, <1>2, <1>3, PTL DEF FairSpec

-----------------------------------------------------------------------------
(* Mqtt *)

MqttTypes == {"CONNACK", "SUBACK", "REFUSED", "PUBLISH", "PINGRESP"}
MqttPackets == [type : MqttTypes, qos : {0, 1}, id : Nat]
MqttCells == [is : {"header", "body"}, of : MqttPackets]
             \cup [is : {"length"}, of : Nat]

(* Where a reader is between two cells: before a length, or with a part of *)
(* a body left, none when the next cell is a header; and how many          *)
(* publications to be acknowledged there have been so far.                 *)
Marks == [at : {"length", "body"}, of : MqttPackets, left : Nat, num : Nat]
Owes(p, size) == p.type = "PUBLISH" /\ p.qos = 1 /\ size <= Cap
AtHeader(m) == m.at = "body" /\ m.left = 0

(* Cell e brings a reader from m to k; due are the publications to be      *)
(* acknowledged.                                                           *)
Follows(e, m, k, due) ==
    /\ AtHeader(m) =>
         /\ e.is = "header" /\ e.of \in MqttPackets
         /\ k.at = "length" /\ k.of = e.of /\ k.left = 0 /\ k.num = m.num
    /\ m.at = "body" /\ m.left > 0 =>
         /\ e.is = "body" /\ k.at = "body" /\ k.of = m.of
         /\ k.left = m.left - 1 /\ k.num = m.num
    /\ m.at = "length" =>
         /\ e.is = "length" /\ e.of \in Nat
         /\ k.at = "body" /\ k.of = m.of /\ k.left = e.of
         /\ Owes(m.of, e.of) =>
              /\ k.num = m.num + 1
              /\ k.num \in 1 .. Len(due) /\ due[k.num] = m.of.id
         /\ ~Owes(m.of, e.of) => k.num = m.num

(* The cells s are packets, and the rest of one that the reader is in.     *)
Parsed(s, f, due) ==
    /\ s \in Seq(MqttCells) /\ due \in Seq(Nat)
    /\ f \in [1 .. Len(s) + 1 -> Marks]
    /\ \A i \in 1 .. Len(s) : Follows(s[i], f[i], f[i + 1], due)
    /\ AtHeader(f[Len(s) + 1]) /\ f[Len(s) + 1].num = Len(due)

(* The client is where mark m says: a publication it holds and has not     *)
(* acknowledged is the last of those counted.                              *)
Unacked ==
    /\ kind.type = "PUBLISH" /\ kind.qos = 1
    /\ pc = "body" \/ (pc = "send" /\ mqtt_out = "PUBACK")
Place(m) ==
    /\ m.at = IF pc = "length" THEN "length" ELSE "body"
    /\ m.left = IF pc \in {"body", "drop"} THEN left ELSE 0
    /\ pc \in {"length", "body", "drop"} => m.of = kind
    /\ ~gone => m.num = Len(acked) + (IF Unacked THEN 1 ELSE 0)
    /\ Unacked => m.num \in 1 .. Len(owed) /\ owed[m.num] = kind.id
Framed ==
    \E f :
        /\ Parsed(stream \o queue, f, owed) /\ Place(f[1])
        /\ "trickle" \notin mqtt_faults => AtHeader(f[Len(stream) + 1])

(* Time is let pass only between packets, and less than it takes for an    *)
(* answer to be waited for, or for a PINGREQ to be due.                    *)
IdlePlaces == {"link", "connect", "pause"}
Waiting ==
    /\ mqtt_tx <= mqtt_waited /\ mqtt_waited <= AckTime
    /\ pc = "header" /\ quiet = 0 => mqtt_waited < AckTime
Looping ==
    \/ mqtt_tx <= (IF pc = "header" THEN AckTime + quiet ELSE AckTime + 1)
    \/ mqtt_tx < (IF pc = "header" THEN Half + quiet ELSE Half + 1)
Timely ==
    /\ pc \in IdlePlaces => mqtt_tx = 0 /\ mqtt_waited = 0 /\ quiet = 0
    /\ pc # "out" /\ mqtt_faults \cap {"trickle", "busy"} = {} =>
         /\ quiet \in {0, 1}
         /\ IF stage = "loop" THEN Looping ELSE Waiting

MqttTypeInv ==
    /\ pc \in IdlePlaces \cup {"send", "header", "length", "body", "drop",
                               "check", "out"}
    /\ stage \in {"connack", "suback", "loop"}
    /\ mqtt_out \in {"CONNECT", "SUBSCRIBE", "PUBLISH", "PINGREQ", "PUBACK"}
    /\ kind \in MqttPackets
    /\ {mqtt_tx, mqtt_waited, quiet, left, pubs} \subseteq Nat
    /\ stream \in Seq(MqttCells) /\ queue \in Seq(MqttCells)
    /\ owed \in Seq(Nat) /\ acked \in Seq(Nat)
    /\ pc = "send" /\ mqtt_out = "PUBACK"
         => kind.type = "PUBLISH" /\ kind.qos = 1
    /\ pc = "send" /\ mqtt_out \in {"PUBLISH", "PINGREQ"} => stage = "loop"
Acking ==
    /\ Len(acked) <= Len(owed)
    /\ \A i \in 1 .. Len(acked) : acked[i] = owed[i]

MqttInv ==
    /\ MqttTypeInv /\ Acking /\ Timely
    /\ pc # "out" => Framed

(* What has been counted is still due when more is. *)
LEMMA FollowsStill ==
    ASSUME NEW e, NEW m \in Marks, NEW k \in Marks, NEW due \in Seq(Nat),
           NEW more \in Seq(Nat), Follows(e, m, k, due),
           Len(due) <= Len(more), \A i \in 1 .. Len(due) : more[i] = due[i]
    PROVE  Follows(e, m, k, more)
<1>1. Len(due) \in Nat /\ Len(more) \in Nat
  BY LenProperties
<1>2. ASSUME k.num \in 1 .. Len(due)
      PROVE  k.num \in 1 .. Len(more) /\ more[k.num] = due[k.num]
  BY <1>1, <1>2
<1> QED BY <1>2 DEF Follows

(* The cells of a packet *)
LEMMA PacketCells ==
    ASSUME NEW p \in MqttPackets, NEW size \in Nat
    PROVE  LET new == Q!Cells(p, size)
           IN  /\ new \in Seq(MqttCells) /\ Len(new) = size + 2
               /\ new[1] = [is |-> "header", of |-> p]
               /\ new[2] = [is |-> "length", of |-> size]
               /\ \A i \in 3 .. size + 2 : new[i] = [is |-> "body", of |-> p]
<1> DEFINE h == [is |-> "header", of |-> p]
           l == [is |-> "length", of |-> size]
           b == [is |-> "body", of |-> p]
           two == <<h, l>>
           body == [i \in 1 .. size |-> b]
           new == two \o body
<1>1. h \in MqttCells /\ l \in MqttCells /\ b \in MqttCells
  BY DEF MqttCells
<1> HIDE DEF h, l, b
<1>2. /\ two \in Seq(MqttCells) /\ Len(two) = 2 /\ two[1] = h /\ two[2] = l
  BY <1>1
<1>3. /\ body \in Seq(MqttCells) /\ Len(body) = size
      /\ \A i \in 1 .. size : body[i] = b
  BY <1>1, IsASeq
<1> HIDE DEF two, body
<1>4. /\ new \in Seq(MqttCells) /\ Len(new) = 2 + size
      /\ \A i \in 1 .. 2 + size :
            new[i] = IF i <= 2 THEN two[i] ELSE body[i - 2]
  <2>1. /\ new \in Seq(MqttCells) /\ Len(new) = Len(two) + Len(body)
        /\ \A i \in 1 .. Len(two) + Len(body) :
              new[i] = IF i <= Len(two) THEN two[i] ELSE body[i - Len(two)]
    BY <1>2, <1>3, ConcatProperties
  <2> HIDE DEF new
  <2> QED BY <1>2, <1>3, <2>1
<1> HIDE DEF new
<1>5. new[1] = h /\ new[2] = l
  <2>1. 1 \in 1 .. 2 + size /\ 2 \in 1 .. 2 + size
    OBVIOUS
  <2> QED BY <1>2, <1>4, <2>1
<1>6. ASSUME NEW i \in 3 .. size + 2 PROVE new[i] = b
  <2>1. i \in 1 .. 2 + size /\ ~(i <= 2) /\ i - 2 \in 1 .. size
    OBVIOUS
  <2> QED BY <1>3, <1>4, <2>1
<1>7. Len(new) = size + 2
  BY <1>4
<1>8. Q!Cells(p, size) = new
  BY DEF Q!Cells, new, two, body, h, l, b
<1> QED BY <1>4, <1>5, <1>6, <1>7, <1>8 DEF h, l, b

(* The reader is somewhere. *)
LEMMA FirstMark ==
    ASSUME NEW s, NEW f, NEW due, Parsed(s, f, due)
    PROVE  f[1] \in Marks
<1> DEFINE z == Len(s)
<1>1. s \in Seq(MqttCells) /\ f \in [1 .. z + 1 -> Marks]
  BY DEF Parsed
<1>2. z \in Nat
  BY <1>1, LenProperties
<1> HIDE DEF z
<1>3. 1 \in 1 .. z + 1
  BY <1>2
<1> QED BY <1>1, <1>3

(* Packets followed by another one are packets. *)
DueAfter(p, size, due) == IF Owes(p, size) THEN Append(due, p.id) ELSE due
Extends(s, f, t, due) ==
    \E g : Parsed(t, g, due) /\ \A i \in 1 .. Len(s) + 1 : g[i] = f[i]
LEMMA SaidParsed ==
    ASSUME NEW s, NEW f, NEW due, Parsed(s, f, due),
           NEW p \in MqttPackets, NEW size \in Nat
    PROVE  Extends(s, f, s \o Q!Cells(p, size), DueAfter(p, size, due))
<1> DEFINE new == Q!Cells(p, size)
           more == DueAfter(p, size, due)
           all_s == s \o new
           z == Len(s)
           d == Len(due)
           d2 == Len(more)
<1>1. /\ s \in Seq(MqttCells) /\ due \in Seq(Nat)
      /\ f \in [1 .. z + 1 -> Marks]
      /\ z \in Nat /\ d \in Nat /\ AtHeader(f[z + 1]) /\ f[z + 1].num = d
      /\ \A i \in 1 .. z : Follows(s[i], f[i], f[i + 1], due)
  BY LenProperties DEF Parsed
<1>2. /\ new \in Seq(MqttCells) /\ Len(new) = size + 2
      /\ new[1] = [is |-> "header", of |-> p]
      /\ new[2] = [is |-> "length", of |-> size]
      /\ \A i \in 3 .. size + 2 : new[i] = [is |-> "body", of |-> p]
  BY PacketCells
<1> HIDE DEF new
<1>3. /\ more \in Seq(Nat) /\ d2 \in Nat /\ d <= d2
      /\ \A i \in 1 .. d : more[i] = due[i]
      /\ Owes(p, size) => d2 = d + 1 /\ more[d2] = p.id
      /\ ~Owes(p, size) => d2 = d
  <2>1. CASE Owes(p, size)
    <3>1. p.id \in Nat /\ more = Append(due, p.id)
      BY <2>1 DEF MqttPackets, DueAfter
    <3>2. /\ more \in Seq(Nat) /\ d2 = d + 1 /\ more[d + 1] = p.id
          /\ \A i \in 1 .. d : more[i] = due[i]
      BY <1>1, <3>1, AppendProperties
    <3> QED BY <1>1, <2>1, <3>2
  <2>2. CASE ~Owes(p, size)
    BY <1>1, <2>2 DEF DueAfter
  <2> QED BY <2>1, <2>2
<1>4. /\ all_s \in Seq(MqttCells) /\ Len(all_s) = z + (size + 2)
      /\ \A i \in 1 .. z + (size + 2) :
            all_s[i] = IF i <= z THEN s[i] ELSE new[i - z]
  <2>1. /\ all_s \in Seq(MqttCells) /\ Len(all_s) = Len(s) + Len(new)
        /\ \A i \in 1 .. Len(s) + Len(new) :
              all_s[i] = IF i <= Len(s) THEN s[i] ELSE new[i - Len(s)]
    BY <1>1, <1>2, ConcatProperties
  <2> HIDE DEF all_s
  <2> QED BY <1>2, <2>1
<1> HIDE DEF all_s
<1> DEFINE Mark(i) ==
             IF i <= z + 1 THEN f[i]
             ELSE IF i = z + 2
                  THEN [at |-> "length", of |-> p, left |-> 0, num |-> d]
                  ELSE [at |-> "body", of |-> p,
                        left |-> (z + size + 3) - i, num |-> d2]
           g == [i \in 1 .. z + (size + 2) + 1 |-> Mark(i)]
<1> HIDE DEF z, d, d2
<1>5. ASSUME NEW i \in 1 .. z + (size + 2) + 1 PROVE Mark(i) \in Marks
  <2>1. CASE i <= z + 1
    BY <1>1, <2>1
  <2>2. CASE i = z + 2
    BY <1>1, <2>2 DEF Marks
  <2>3. CASE ~(i <= z + 1) /\ i # z + 2
    <3>1. (z + size + 3) - i \in Nat
      BY <1>1
    <3> QED BY <1>3, <2>3, <3>1 DEF Marks
  <2> QED BY <2>1, <2>2, <2>3
<1>6. /\ g \in [1 .. z + (size + 2) + 1 -> Marks]
      /\ \A i \in 1 .. z + (size + 2) + 1 : g[i] = Mark(i)
  BY <1>5
<1> HIDE DEF g
<1>7. \A i \in 1 .. z + 1 : g[i] = f[i]
  <2>1. \A i \in 1 .. z + 1 : i \in 1 .. z + (size + 2) + 1 /\ i <= z + 1
    BY <1>1
  <2> QED BY <1>6, <2>1
<1>8. g[z + 2] = [at |-> "length", of |-> p, left |-> 0, num |-> d]
  <2>1. z + 2 \in 1 .. z + (size + 2) + 1 /\ ~(z + 2 <= z + 1)
    BY <1>1
  <2> QED BY <1>6, <2>1
<1>9. \A i \in z + 3 .. z + size + 3 :
        g[i] = [at |-> "body", of |-> p, left |-> (z + size + 3) - i,
                num |-> d2]
  <2>1. \A i \in z + 3 .. z + size + 3 :
          i \in 1 .. z + (size + 2) + 1 /\ ~(i <= z + 1) /\ i # z + 2
    BY <1>1
  <2> QED BY <1>6, <2>1
<1> HIDE DEF Mark
<1>10. ASSUME NEW i \in 1 .. z + (size + 2)
       PROVE  Follows(all_s[i], g[i], g[i + 1], more)
  <2>1. CASE i <= z
    <3>1. i \in 1 .. z /\ i \in 1 .. z + 1 /\ i + 1 \in 1 .. z + 1
      BY <1>1, <2>1
    <3>2. all_s[i] = s[i] /\ g[i] = f[i] /\ g[i + 1] = f[i + 1]
      BY <1>4, <1>7, <2>1, <3>1
    <3>3. f[i] \in Marks /\ f[i + 1] \in Marks
      BY <1>1, <3>1
    <3>4. Follows(s[i], f[i], f[i + 1], due)
      BY <1>1, <3>1
    <3>5. Follows(s[i], f[i], f[i + 1], more)
      BY <1>1, <1>3, <3>3, <3>4, FollowsStill DEF d, d2
    <3> QED BY <3>2, <3>5
  <2>2. CASE i = z + 1
    <3>1. ~(i <= z) /\ i - z = 1 /\ i + 1 = z + 2 /\ i \in 1 .. z + 1
      BY <1>1, <2>2
    <3>2. all_s[i] = [is |-> "header", of |-> p] /\ g[i] = f[z + 1]
      BY <1>2, <1>4, <1>7, <2>2, <3>1
    <3>3. g[i + 1] = [at |-> "length", of |-> p, left |-> 0, num |-> d]
      BY <1>8, <3>1
    <3>4. f[z + 1].at = "body" /\ f[z + 1].left = 0
      BY <1>1 DEF AtHeader
    <3> QED BY <1>1, <3>2, <3>3, <3>4 DEF Follows, AtHeader
  <2>3. CASE i = z + 2
    <3>1. /\ ~(i <= z) /\ i - z = 2 /\ i + 1 = z + 3
          /\ z + 3 \in z + 3 .. z + size + 3 /\ (z + size + 3) - (z + 3) = size
      BY <1>1, <2>3
    <3>2. /\ all_s[i] = [is |-> "length", of |-> size]
          /\ g[i] = [at |-> "length", of |-> p, left |-> 0, num |-> d]
      BY <1>2, <1>4, <1>8, <2>3, <3>1
    <3>3. g[i + 1] = [at |-> "body", of |-> p, left |-> size, num |-> d2]
      BY <1>9, <3>1
    <3>4. Owes(p, size) => d2 \in 1 .. d2
      BY <1>1, <1>3
    <3> QED BY <1>3, <3>2, <3>3, <3>4 DEF Follows, AtHeader, d2
  <2>4. CASE i > z + 2
    <3>1. /\ ~(i <= z) /\ i - z \in 3 .. size + 2
          /\ i \in z + 3 .. z + size + 3 /\ i + 1 \in z + 3 .. z + size + 3
          /\ (z + size + 3) - (i + 1) = ((z + size + 3) - i) - 1
          /\ (z + size + 3) - i > 0
      BY <1>1, <2>4
    <3>2. all_s[i] = [is |-> "body", of |-> p]
      BY <1>2, <1>4, <3>1
    <3> DEFINE a == (z + size + 3) - i
    <3>3. /\ g[i] = [at |-> "body", of |-> p, left |-> a, num |-> d2]
          /\ g[i + 1] = [at |-> "body", of |-> p, left |-> a - 1, num |-> d2]
          /\ a > 0
      BY <1>9, <3>1
    <3> HIDE DEF a
    <3>4. a # 0
      BY <3>3
    <3> QED BY <3>2, <3>3, <3>4 DEF Follows, AtHeader
  <2> QED BY <1>1, <2>1, <2>2, <2>3, <2>4
<1>11. AtHeader(g[z + (size + 2) + 1]) /\ g[z + (size + 2) + 1].num = d2
  <2>1. /\ z + (size + 2) + 1 = z + size + 3
        /\ z + size + 3 \in z + 3 .. z + size + 3
        /\ (z + size + 3) - (z + size + 3) = 0
    BY <1>1
  <2>2. g[z + size + 3] = [at |-> "body", of |-> p, left |-> 0, num |-> d2]
    BY <1>9, <2>1
  <2> QED BY <2>1, <2>2 DEF AtHeader
<1>12. Parsed(all_s, g, more)
  BY <1>3, <1>4, <1>6, <1>10, <1>11 DEF Parsed, d2
<1> QED BY <1>7, <1>12 DEF all_s, new, z, Extends

(* So are the packets behind a cell that has been taken. *)
LEMMA TakenParsed ==
    ASSUME NEW s, NEW f, NEW due, Parsed(s, f, due), s # <<>>
    PROVE  /\ Follows(Head(s), f[1], f[2], due)
           /\ Head(s) \in MqttCells /\ f[1] \in Marks /\ f[2] \in Marks
           /\ \E g : /\ Parsed(Tail(s), g, due)
                     /\ \A i \in 1 .. Len(s) : g[i] = f[i + 1]
<1> DEFINE t == Tail(s)
           z == Len(s)
           g == [i \in 1 .. z |-> f[i + 1]]
<1>1. /\ s \in Seq(MqttCells) /\ due \in Seq(Nat)
      /\ f \in [1 .. z + 1 -> Marks]
      /\ z \in Nat /\ z > 0 /\ AtHeader(f[z + 1]) /\ f[z + 1].num = Len(due)
      /\ \A i \in 1 .. z : Follows(s[i], f[i], f[i + 1], due)
  BY EmptySeq DEF Parsed
<1>2. /\ t \in Seq(MqttCells) /\ Len(t) = z - 1 /\ Head(s) \in MqttCells
      /\ \A i \in 1 .. Len(t) : t[i] = s[i + 1]
  BY <1>1, HeadTailProperties
<1>3. Head(s) = s[1]
  BY <1>1
<1> HIDE DEF t, z
<1>4. 1 \in 1 .. z /\ 1 \in 1 .. z + 1 /\ 2 \in 1 .. z + 1 /\ 1 + 1 = 2
  BY <1>1
<1>5. Follows(Head(s), f[1], f[2], due) /\ f[1] \in Marks /\ f[2] \in Marks
  BY <1>1, <1>3, <1>4
<1>6. \A i \in 1 .. z : i + 1 \in 1 .. z + 1
  BY <1>1
<1>7. g \in [1 .. z -> Marks] /\ \A i \in 1 .. z : g[i] = f[i + 1]
  BY <1>1, <1>6
<1> HIDE DEF g
<1>8. Len(t) + 1 = z
  BY <1>1, <1>2
<1>9. ASSUME NEW i \in 1 .. Len(t)
      PROVE  Follows(t[i], g[i], g[i + 1], due)
  <2>1. i \in 1 .. z /\ i + 1 \in 1 .. z
    BY <1>1, <1>2
  <2> QED BY <1>1, <1>2, <1>7, <2>1
<1>10. g[z] = f[z + 1]
  BY <1>1, <1>7
<1>11. Parsed(t, g, due)
  BY <1>1, <1>2, <1>7, <1>8, <1>9, <1>10 DEF Parsed
<1> QED BY <1>2, <1>5, <1>7, <1>11 DEF t, z


(* The first cell of those that have arrived is the first of all. *)
LEMMA FirstCell ==
    ASSUME NEW A, NEW x \in Seq(A), NEW y \in Seq(A), x # <<>>
    PROVE  /\ x \o y # <<>> /\ Head(x \o y) = Head(x)
           /\ Tail(x \o y) = Tail(x) \o y /\ Tail(x) \in Seq(A)
           /\ Len(Tail(x)) = Len(x) - 1
<1> DEFINE all_s == x \o y
           t == Tail(x)
           after == t \o y
           last_s == Tail(all_s)
           z == Len(x)
           w == Len(y)
<1>1. /\ t \in Seq(A) /\ Len(t) = z - 1 /\ z \in Nat /\ w \in Nat /\ z # 0
      /\ \A i \in 1 .. Len(t) : t[i] = x[i + 1]
  BY HeadTailProperties, LenProperties, EmptySeq
<1>2. /\ all_s \in Seq(A) /\ Len(all_s) = z + w
      /\ \A i \in 1 .. z + w : all_s[i] = IF i <= z THEN x[i] ELSE y[i - z]
  BY ConcatProperties
<1> HIDE DEF t
<1>3. /\ after \in Seq(A) /\ Len(after) = Len(t) + w
      /\ \A i \in 1 .. Len(t) + w :
            after[i] = IF i <= Len(t) THEN t[i] ELSE y[i - Len(t)]
  BY <1>1, ConcatProperties
<1> HIDE DEF all_s, after
<1>4. all_s # <<>>
  <2>1. z + w # 0
    BY <1>1
  <2> QED BY <1>2, <2>1, EmptySeq
<1>5. /\ last_s \in Seq(A) /\ Len(last_s) = (z + w) - 1
      /\ \A i \in 1 .. Len(last_s) : last_s[i] = all_s[i + 1]
  <2>1. /\ last_s \in Seq(A) /\ Len(last_s) = Len(all_s) - 1
        /\ \A i \in 1 .. Len(last_s) : last_s[i] = all_s[i + 1]
    BY <1>2, <1>4, HeadTailProperties
  <2> QED BY <1>2, <2>1
<1>6. Head(all_s) = Head(x)
  <2>1. Head(all_s) = all_s[1] /\ Head(x) = x[1]
    BY <1>2, <1>4
  <2>2. 1 \in 1 .. z + w /\ 1 <= z
    BY <1>1
  <2> QED BY <1>2, <2>1, <2>2
<1> HIDE DEF last_s, z, w
<1>7. ASSUME NEW i \in 1 .. Len(last_s) PROVE last_s[i] = after[i]
  <2>1. i + 1 \in 1 .. z + w /\ i \in 1 .. Len(t) + w
    BY <1>1, <1>5
  <2>2. CASE i <= Len(t)
    <3>1. i \in 1 .. Len(t) /\ i + 1 <= z
      BY <1>1, <2>2
    <3> QED BY <1>1, <1>2, <1>3, <1>5, <2>1, <2>2, <3>1
  <2>3. CASE ~(i <= Len(t))
    <3>1. ~(i + 1 <= z) /\ (i + 1) - z = i - Len(t)
      BY <1>1, <2>1, <2>3
    <3> QED BY <1>2, <1>3, <1>5, <2>1, <2>3, <3>1
  <2> QED BY <2>2, <2>3
<1>8. Len(last_s) = Len(after)
  BY <1>1, <1>3, <1>5
<1>9. last_s = after
  BY <1>3, <1>5, <1>7, <1>8, SeqEqual
<1> QED BY <1>1, <1>4, <1>6, <1>9 DEF all_s, after, last_s, t, z

(* The task goes on between the same two cells. *)
LEMMA SamePlace ==
    ASSUME Framed, UNCHANGED <<stream, queue, owed, mqtt_faults>>,
           \A m \in Marks : Place(m) => Place(m)'
    PROVE  Framed'
<1>1. PICK f :
        /\ Parsed(stream \o queue, f, owed) /\ Place(f[1])
        /\ "trickle" \notin mqtt_faults => AtHeader(f[Len(stream) + 1])
  BY DEF Framed
<1>2. f[1] \in Marks
  BY <1>1, FirstMark
<1>3. Place(f[1])'
  BY <1>1, <1>2
<1>4. Parsed(stream \o queue, f, owed)'
  BY <1>1 DEF Parsed, Follows, Owes, AtHeader
<1>5. "trickle" \notin mqtt_faults' => AtHeader(f[Len(stream) + 1])'
  BY <1>1 DEF AtHeader
<1> QED BY <1>3, <1>4, <1>5 DEF Framed

(* The broker says a packet. *)
LEMMA SpokenStep ==
    ASSUME MqttInv, pc # "out", NEW p \in MqttPackets, NEW size \in Nat,
           queue' = queue \o Q!Cells(p, size),
           owed' = DueAfter(p, size, owed),
           pubs' \in Nat,
           UNCHANGED <<mqtt_faults, pc, stage, mqtt_out, kind, left, quiet,
                       mqtt_tx, mqtt_waited, stream, gone, acked>>
    PROVE  MqttInv'
<1> DEFINE new == Q!Cells(p, size)
           z == Len(stream)
<1>1. MqttTypeInv /\ Acking /\ Timely /\ Framed
  BY DEF MqttInv
<1>2. PICK f :
        /\ Parsed(stream \o queue, f, owed) /\ Place(f[1])
        /\ "trickle" \notin mqtt_faults => AtHeader(f[z + 1])
  BY <1>1 DEF Framed
<1>3. PICK g : /\ Parsed((stream \o queue) \o new, g, owed')
               /\ \A i \in 1 .. Len(stream \o queue) + 1 : g[i] = f[i]
  <2>1. Extends(stream \o queue, f, (stream \o queue) \o new, owed')
    BY <1>2, SaidParsed
  <2> QED BY <2>1 DEF Extends
<1>4. new \in Seq(MqttCells)
  BY PacketCells
<1> HIDE DEF new
<1>5. /\ stream \in Seq(MqttCells) /\ queue \in Seq(MqttCells)
      /\ owed \in Seq(Nat) /\ acked \in Seq(Nat)
  BY <1>1 DEF MqttTypeInv
<1>6. queue' = queue \o new
  BY DEF new
<1>7. (stream \o queue) \o new = stream \o queue'
  <2>1. (stream \o queue) \o new = stream \o (queue \o new)
    <3>1. \A x, y, w \in Seq(MqttCells) : (x \o y) \o w = x \o (y \o w)
      BY ConcatAssociative
    <3>2. /\ stream \in Seq(MqttCells) /\ queue \in Seq(MqttCells)
          /\ new \in Seq(MqttCells)
      BY <1>4, <1>5
    <3> QED BY <3>1, <3>2
  <2> QED BY <1>6, <2>1, Zenon
<1>8. queue' \in Seq(MqttCells)
  BY <1>4, <1>5, <1>6, ConcatProperties
<1>9. /\ 1 \in 1 .. Len(stream \o queue) + 1
      /\ z + 1 \in 1 .. Len(stream \o queue) + 1
  <2>1. /\ Len(stream \o queue) = z + Len(queue)
        /\ z \in Nat /\ Len(queue) \in Nat
    BY <1>5, ConcatProperties, LenProperties
  <2> HIDE DEF z
  <2> QED BY <2>1
<1>10. g[1] = f[1] /\ g[z + 1] = f[z + 1]
  BY <1>3, <1>9
<1>11. /\ owed' \in Seq(Nat) /\ Len(owed) <= Len(owed')
       /\ Len(owed) \in Nat /\ Len(owed') \in Nat /\ Len(acked) \in Nat
       /\ \A i \in 1 .. Len(owed) : owed'[i] = owed[i]
  <2>1. p.id \in Nat /\ Len(owed) \in Nat /\ Len(acked) \in Nat
    BY <1>5, LenProperties DEF MqttPackets
  <2>2. CASE Owes(p, size)
    <3>1. /\ owed' \in Seq(Nat) /\ Len(owed') = Len(owed) + 1
          /\ \A i \in 1 .. Len(owed) : owed'[i] = owed[i]
      BY <1>5, <2>1, <2>2, AppendProperties DEF DueAfter
    <3> QED BY <2>1, <3>1
  <2> QED BY <1>5, <2>1, <2>2 DEF DueAfter
<1>12. MqttTypeInv'
  BY <1>1, <1>8, <1>11 DEF MqttTypeInv
<1>13. Acking'
  <2>1. \A i \in 1 .. Len(acked) : i \in 1 .. Len(owed)
    BY <1>1, <1>11 DEF Acking
  <2>2. Len(acked) <= Len(owed')
    BY <1>1, <1>11 DEF Acking
  <2> QED BY <1>1, <1>11, <2>1, <2>2 DEF Acking
<1>14. Timely'
  BY <1>1 DEF Timely, Looping, Waiting
<1>15. Place(g[1])'
  <2> DEFINE m == f[1]
  <2>1. Unacked => m.num \in 1 .. Len(owed) /\ owed[m.num] = kind.id
    BY <1>2 DEF Place
  <2>2. Unacked => m.num \in 1 .. Len(owed') /\ owed'[m.num] = kind.id
    BY <1>11, <2>1
  <2> HIDE DEF m
  <2>3. Place(m)'
    BY <1>2, <2>2 DEF Place, Unacked, m
  <2> QED BY <1>10, <2>3 DEF m
<1>16. Framed'
  <2>1. Parsed((stream \o queue)', g, owed')
    BY <1>3, <1>7
  <2>2. Parsed(stream \o queue, g, owed)'
    BY <2>1 DEF Parsed, Follows, Owes, AtHeader
  <2>3. "trickle" \notin mqtt_faults' => AtHeader(g[Len(stream') + 1])
    BY <1>2, <1>10
  <2> QED BY <1>15, <2>2, <2>3 DEF Framed, AtHeader
<1> QED BY <1>12, <1>13, <1>14, <1>16 DEF MqttInv

(* What has arrived moves from the network to the socket. *)
LEMMA DeliverStep ==
    ASSUME MqttInv, Q!Deliver
    PROVE  MqttInv'
<1> DEFINE z == Len(queue)
<1>1. /\ MqttTypeInv /\ Acking /\ Timely
      /\ UNCHANGED <<mqtt_faults, pc, stage, mqtt_out, kind, left, quiet,
                     mqtt_tx, mqtt_waited, gone, pubs, owed, acked>>
  BY DEF MqttInv, Q!Deliver, Q!config, Q!reader, Q!ages, Q!history
<1>2. /\ stream \in Seq(MqttCells) /\ queue \in Seq(MqttCells)
      /\ queue # <<>>
  BY <1>1 DEF MqttTypeInv, Q!Deliver
<1>3. PICK k \in 1 .. z :
        /\ k = z \/ "trickle" \in mqtt_faults
        /\ stream' = stream \o SubSeq(queue, 1, k)
        /\ queue' = SubSeq(queue, k + 1, z)
  <2>1. z \in Nat \ {0}
    BY <1>2, EmptySeq
  <2>2. PICK k \in {z} \cup (IF "trickle" \in mqtt_faults THEN {1} ELSE {}) :
          /\ stream' = stream \o SubSeq(queue, 1, k)
          /\ queue' = SubSeq(queue, k + 1, z)
    BY DEF Q!Deliver
  <2> HIDE DEF z
  <2>3. k \in 1 .. z /\ (k = z \/ "trickle" \in mqtt_faults)
    BY <2>1, <2>2
  <2> QED BY <2>2, <2>3
<1> DEFINE x == SubSeq(queue, 1, k)
           y == SubSeq(queue, k + 1, z)
<1>4. x \in Seq(MqttCells) /\ y \in Seq(MqttCells)
  <2>1. z \in Nat /\ \A j \in 1 .. z : queue[j] \in MqttCells
    BY <1>2, LenProperties, ElementOfSeq
  <2> HIDE DEF z
  <2>2. /\ 1 \in Int /\ k \in Int /\ k + 1 \in Int /\ z \in Int
        /\ \A j \in 1 .. k : j \in 1 .. z
        /\ \A j \in k + 1 .. z : j \in 1 .. z
    BY <2>1
  <2>3. x \in Seq(MqttCells)
    BY <2>1, <2>2, SubSeqProperties
  <2>4. y \in Seq(MqttCells)
    BY <2>1, <2>2, SubSeqProperties
  <2> QED BY <2>3, <2>4
<1>5. x \o y = queue
  <2>1. 1 \in 1 .. z + 1 /\ k \in 1 - 1 .. z /\ z \in k .. z
    BY <1>2, EmptySeq
  <2>2. x \o y = SubSeq(queue, 1, z)
    BY <1>2, <2>1, ConcatAdjacentSubSeq
  <2>3. SubSeq(queue, 1, z) = queue
    BY <1>2, SubSeqFull
  <2> QED BY <2>2, <2>3
<1>6. stream' = stream \o x /\ queue' = y
  BY <1>3
<1> HIDE DEF x, y, z
<1>7. stream' \o queue' = stream \o queue
  <2>1. \A a, b, d \in Seq(MqttCells) : (a \o b) \o d = a \o (b \o d)
    BY ConcatAssociative
  <2>2. (stream \o x) \o y = stream \o (x \o y)
    BY <1>2, <1>4, <2>1
  <2> QED BY <1>5, <1>6, <2>2, Zenon
<1>8. stream' \in Seq(MqttCells) /\ queue' \in Seq(MqttCells)
  BY <1>2, <1>4, <1>6, ConcatProperties
<1>9. MqttTypeInv' /\ Acking' /\ Timely'
  BY <1>1, <1>8 DEF MqttTypeInv, Acking, Timely, Looping, Waiting
<1>10. ASSUME pc' # "out" PROVE Framed'
  <2>1. PICK f :
          /\ Parsed(stream \o queue, f, owed) /\ Place(f[1])
          /\ "trickle" \notin mqtt_faults => AtHeader(f[Len(stream) + 1])
    BY <1>1, <1>10 DEF MqttInv, Framed
  <2>2. Place(f[1])'
    BY <1>1, <2>1 DEF Place, Unacked
  <2>3. Parsed(stream \o queue, f, owed)'
    BY <1>1, <1>7, <2>1 DEF Parsed, Follows, Owes, AtHeader
  <2>4. "trickle" \notin mqtt_faults => AtHeader(f[Len(stream') + 1])
    <3>1. SUFFICES ASSUME "trickle" \notin mqtt_faults
                   PROVE  AtHeader(f[Len(stream') + 1])
      OBVIOUS
    <3>2. k = z
      BY <1>3, <3>1
    <3>3. stream' = stream \o queue
      <4>1. x = queue
        BY <1>2, <3>2, SubSeqFull DEF x, z
      <4> QED BY <1>6, <4>1
    <3> QED BY <2>1, <3>3 DEF Parsed
  <2> QED BY <1>1, <2>2, <2>3, <2>4 DEF Framed, AtHeader
<1> QED BY <1>9, <1>10 DEF MqttInv

(* The task takes a cell. *)
LEMMA CellTaken ==
    ASSUME Framed, stream # <<>>, stream \in Seq(MqttCells),
           queue \in Seq(MqttCells), stream' = Tail(stream),
           UNCHANGED <<queue, owed, mqtt_faults>>
    PROVE  \E m \in Marks, k \in Marks :
             /\ Place(m) /\ Follows(Head(stream), m, k, owed)
             /\ Place(k)' => Framed'
<1>1. PICK f :
        /\ Parsed(stream \o queue, f, owed) /\ Place(f[1])
        /\ "trickle" \notin mqtt_faults => AtHeader(f[Len(stream) + 1])
  BY DEF Framed
<1> DEFINE s == stream \o queue
           z == Len(stream)
<1>2. /\ s # <<>> /\ Head(s) = Head(stream) /\ Tail(s) = Tail(stream) \o queue
      /\ Len(Tail(stream)) = z - 1
  BY FirstCell
<1>3. z \in Nat /\ z # 0 /\ Len(s) = z + Len(queue) /\ Len(queue) \in Nat
  BY LenProperties, EmptySeq, ConcatProperties
<1>4. Parsed(s, f, owed)
  BY <1>1
<1> HIDE DEF s, z
<1>5. PICK g : /\ Parsed(Tail(s), g, owed)
               /\ \A i \in 1 .. Len(s) : g[i] = f[i + 1]
  BY <1>2, <1>4, TakenParsed
<1>6. /\ Follows(Head(s), f[1], f[2], owed) /\ f[1] \in Marks /\ f[2] \in Marks
  BY <1>2, <1>4, TakenParsed
<1>7. /\ 1 \in 1 .. Len(s) /\ z \in 1 .. Len(s) /\ 1 + 1 = 2
      /\ (z - 1) + 1 = z
  BY <1>3
<1>8. g[1] = f[2] /\ g[z] = f[z + 1]
  BY <1>5, <1>7
<1>9. ASSUME Place(f[2])' PROVE Framed'
  <2>1. Place(g[1])'
    BY <1>8, <1>9
  <2>2. stream' \o queue' = Tail(s)
    BY <1>2
  <2>3. Parsed(stream \o queue, g, owed)'
    <3>1. Parsed((stream \o queue)', g, owed')
      BY <1>5, <2>2
    <3> QED BY <3>1 DEF Parsed, Follows, Owes, AtHeader
  <2>4. Len(stream') + 1 = z
    BY <1>2, <1>7
  <2>5. "trickle" \notin mqtt_faults' => AtHeader(g[Len(stream') + 1])
    BY <1>1, <1>8, <2>4 DEF z
  <2> QED BY <2>1, <2>3, <2>5 DEF Framed, AtHeader
<1> QED BY <1>1, <1>2, <1>6, <1>9

(* A header, a length or a unit of the body is read. *)
LEMMA ReadHeaderStep ==
    ASSUME MqttInv, Q!ReadHeader
    PROVE  MqttInv'
<1>1. /\ MqttTypeInv /\ Acking /\ Timely /\ Framed /\ pc = "header"
      /\ pc' = "length" /\ quiet' = 0
      /\ kind' = IF Head(stream).is = "header" THEN Head(stream).of
                  ELSE Q!Packet("junk")
      /\ stream # <<>> /\ stream' = Tail(stream)
      /\ UNCHANGED <<mqtt_faults, stage, mqtt_out, left, mqtt_tx, mqtt_waited,
                     queue, gone, pubs, owed, acked>>
  BY DEF MqttInv, Q!ReadHeader, Q!Take, Q!Goto, Q!config, Q!history
<1>2. /\ stream \in Seq(MqttCells) /\ queue \in Seq(MqttCells)
      /\ stream' \in Seq(MqttCells)
  BY <1>1, HeadTailProperties DEF MqttTypeInv
<1>3. PICK m \in Marks, k \in Marks :
        /\ Place(m) /\ Follows(Head(stream), m, k, owed)
        /\ Place(k)' => Framed'
  BY <1>1, <1>2, CellTaken
<1>4. AtHeader(m) /\ ~Unacked
  BY <1>1, <1>3 DEF Place, AtHeader, Unacked
<1>5. /\ kind' = Head(stream).of /\ kind' \in MqttPackets
      /\ k.at = "length" /\ k.of = kind' /\ k.left = 0 /\ k.num = m.num
  BY <1>1, <1>3, <1>4 DEF Follows
<1>6. Place(k)'
  BY <1>1, <1>3, <1>4, <1>5 DEF Place, Unacked
<1>7. MqttTypeInv' /\ Acking'
  BY <1>1, <1>2, <1>5 DEF MqttTypeInv, Acking
<1>8. Timely'
  BY <1>1, KeepAliveAssumption
  DEF MqttTypeInv, Timely, Looping, Waiting, IdlePlaces
<1> QED BY <1>3, <1>6, <1>7, <1>8 DEF MqttInv

LEMMA ReadLengthStep ==
    ASSUME MqttInv, Q!ReadLength
    PROVE  MqttInv'
<1>1. /\ MqttTypeInv /\ Acking /\ Timely /\ Framed /\ pc = "length"
      /\ Head(stream).is = "length" /\ left' = Head(stream).of
      /\ pc' = (IF left' > Cap THEN "drop" ELSE "body") /\ quiet' = 0
      /\ stream # <<>> /\ stream' = Tail(stream)
      /\ UNCHANGED <<mqtt_faults, stage, mqtt_out, kind, mqtt_tx, mqtt_waited,
                     queue, gone, pubs, owed, acked>>
  BY DEF MqttInv, Q!ReadLength, Q!Take, Q!Goto, Q!config, Q!history
<1>2. /\ stream \in Seq(MqttCells) /\ queue \in Seq(MqttCells)
      /\ stream' \in Seq(MqttCells) /\ acked \in Seq(Nat)
  BY <1>1, HeadTailProperties DEF MqttTypeInv
<1>3. PICK m \in Marks, k \in Marks :
        /\ Place(m) /\ Follows(Head(stream), m, k, owed)
        /\ Place(k)' => Framed'
  BY <1>1, <1>2, CellTaken
<1>4. m.at = "length" /\ m.of = kind /\ ~Unacked
  BY <1>1, <1>3 DEF Place, Unacked
<1>5. /\ left' \in Nat /\ k.at = "body" /\ k.of = kind /\ k.left = left'
      /\ Owes(kind, left') =>
           /\ k.num = m.num + 1
           /\ k.num \in 1 .. Len(owed) /\ owed[k.num] = kind.id
      /\ ~Owes(kind, left') => k.num = m.num
  BY <1>1, <1>3, <1>4 DEF Follows, AtHeader
<1>6. Unacked' <=> Owes(kind, left')
  BY <1>1, <1>5, KeepAliveAssumption DEF Unacked, Owes
<1>7. Place(k)'
  <2>1. ~gone => m.num = Len(acked) /\ Len(acked) \in Nat
    BY <1>2, <1>3, <1>4, LenProperties DEF Place
  <2>2. ~gone => k.num = Len(acked) + (IF Unacked' THEN 1 ELSE 0)
    BY <1>5, <1>6, <2>1
  <2>3. (k.num = Len(acked) + (IF Unacked THEN 1 ELSE 0))'
          <=> k.num = Len(acked) + (IF Unacked' THEN 1 ELSE 0)
    BY <1>1
  <2>4. Unacked' => k.num \in 1 .. Len(owed') /\ owed'[k.num] = kind'.id
    BY <1>1, <1>5, <1>6
  <2> QED BY <1>1, <1>5, <2>2, <2>3, <2>4 DEF Place
<1>8. MqttTypeInv' /\ Acking'
  BY <1>1, <1>2, <1>5 DEF MqttTypeInv, Acking
<1>9. Timely'
  BY <1>1, KeepAliveAssumption
  DEF MqttTypeInv, Timely, Looping, Waiting, IdlePlaces
<1> QED BY <1>3, <1>7, <1>8, <1>9 DEF MqttInv

LEMMA ReadBodyStep ==
    ASSUME MqttInv, Q!ReadBody
    PROVE  MqttInv'
<1>1. /\ MqttTypeInv /\ Acking /\ Timely /\ Framed /\ pc \in {"body", "drop"}
      /\ left > 0 /\ left' = left - 1 /\ pc' = pc /\ quiet' = 0
      /\ stream # <<>> /\ stream' = Tail(stream)
      /\ UNCHANGED <<mqtt_faults, stage, mqtt_out, kind, mqtt_tx, mqtt_waited,
                     queue, gone, pubs, owed, acked>>
  BY DEF MqttInv, Q!ReadBody, Q!Take, Q!Goto, Q!config, Q!history, Q!DropLeft
<1>2. /\ stream \in Seq(MqttCells) /\ queue \in Seq(MqttCells)
      /\ stream' \in Seq(MqttCells) /\ left \in Nat /\ left' \in Nat
  BY <1>1, HeadTailProperties DEF MqttTypeInv
<1>3. PICK m \in Marks, k \in Marks :
        /\ Place(m) /\ Follows(Head(stream), m, k, owed)
        /\ Place(k)' => Framed'
  BY <1>1, <1>2, CellTaken
<1>4. m.at = "body" /\ m.of = kind /\ m.left = left
  BY <1>1, <1>3 DEF Place
<1>5. k.at = "body" /\ k.of = kind /\ k.left = left' /\ k.num = m.num
  BY <1>1, <1>3, <1>4 DEF Follows
<1>6. Place(k)'
  BY <1>1, <1>3, <1>5 DEF Place, Unacked
<1>7. MqttTypeInv' /\ Acking'
  BY <1>1, <1>2 DEF MqttTypeInv, Acking
<1>8. Timely'
  BY <1>1, KeepAliveAssumption
  DEF MqttTypeInv, Timely, Looping, Waiting, IdlePlaces
<1> QED BY <1>3, <1>6, <1>7, <1>8 DEF MqttInv

(* The broker and the network *)
LEMMA BrokerStep ==
    ASSUME MqttInv, Q!Answer \/ Q!Publication \/ Q!Leave
    PROVE  MqttInv'
<1>1. MqttTypeInv
  BY DEF MqttInv
<1>2. CASE Q!Answer
  <2>1. /\ pc # "out"
        /\ UNCHANGED <<mqtt_faults, pc, stage, mqtt_out, kind, left, quiet,
                       mqtt_tx, mqtt_waited, stream, gone, pubs, owed, acked>>
    BY <1>2 DEF Q!Answer, Q!Alive, Q!config, Q!reader, Q!ages, Q!history
  <2>2. PICK type \in MqttTypes \ {"PUBLISH"}, size \in {0, 1} :
          queue' = queue \o Q!Cells(Q!Packet(type), size)
    BY <1>2 DEF Q!Answer, Q!Say, MqttTypes
  <2>3. /\ Q!Packet(type) \in MqttPackets /\ size \in Nat
        /\ DueAfter(Q!Packet(type), size, owed) = owed
    BY <2>2 DEF Q!Packet, MqttPackets, DueAfter, Owes
  <2>4. pubs' \in Nat
    BY <1>1, <2>1 DEF MqttTypeInv
  <2>5. owed' = DueAfter(Q!Packet(type), size, owed)
    BY <2>1, <2>3
  <2> QED BY <2>1, <2>2, <2>3, <2>4, <2>5, SpokenStep
<1>3. CASE Q!Publication
  <2>1. /\ pc # "out" /\ pubs' = pubs + 1
        /\ UNCHANGED <<mqtt_faults, pc, stage, mqtt_out, kind, left, quiet,
                       mqtt_tx, mqtt_waited, stream, gone, acked>>
    BY <1>3 DEF Q!Publication, Q!Alive, Q!config, Q!reader, Q!ages
  <2>2. pubs \in Nat /\ pubs' \in Nat
    BY <1>1, <2>1 DEF MqttTypeInv
  <2>3. PICK qos \in {0, 1}, size \in {Cap, Cap + 1} :
          /\ Q!Say([type |-> "PUBLISH", qos |-> qos, id |-> pubs + 1], size)
          /\ owed' = IF qos = 1 /\ size <= Cap THEN Append(owed, pubs + 1)
                     ELSE owed
    BY <1>3 DEF Q!Publication
  <2> DEFINE p == [type |-> "PUBLISH", qos |-> qos, id |-> pubs + 1]
  <2>4. /\ p \in MqttPackets /\ p.id = pubs + 1
        /\ Owes(p, size) <=> qos = 1 /\ size <= Cap
    BY <2>2 DEF MqttPackets, MqttTypes, Owes
  <2>5. queue' = queue \o Q!Cells(p, size)
    BY <2>3 DEF Q!Say
  <2> HIDE DEF p
  <2>6. owed' = DueAfter(p, size, owed)
    BY <2>3, <2>4 DEF DueAfter
  <2>7. size \in Nat
    BY KeepAliveAssumption
  <2> QED BY <2>1, <2>2, <2>4, <2>5, <2>6, <2>7, SpokenStep
<1>4. CASE Q!Leave
  <2>1. UNCHANGED <<mqtt_faults, pc, stage, mqtt_out, kind, left, quiet,
                    mqtt_tx, mqtt_waited, queue, stream, gone, pubs, owed,
                    acked>>
    BY <1>4 DEF Q!Leave, Q!config, Q!reader, Q!ages, Q!history
  <2>2. \A m \in Marks : Place(m) => Place(m)'
    BY <2>1 DEF Place, Unacked
  <2>3. pc' # "out" => Framed'
    BY <2>1, <2>2, SamePlace DEF MqttInv
  <2> QED BY <2>1, <2>3
      DEF MqttInv, MqttTypeInv, Acking, Timely, Looping, Waiting
<1> QED BY <1>2, <1>3, <1>4

(* Time passes between two packets, as no part of one is left out, or      *)
(* while send() is held up.                                                *)
LEMMA TickStep ==
    ASSUME MqttInv, Q!Tick
    PROVE  MqttInv'
<1>1. /\ MqttTypeInv /\ Acking /\ Timely
      /\ UNCHANGED <<mqtt_faults, pc, stage, mqtt_out, kind, left, stream,
                     queue, gone, pubs, owed, acked>>
      /\ mqtt_tx' = Q!Older(mqtt_tx, Q!DeadTime)
  BY DEF MqttInv, Q!Tick, Q!config, Q!network, Q!history
<1>2. pc \notin IdlePlaces /\ pc # "out"
  BY DEF Q!Tick, Q!Blocked, Q!Reading, IdlePlaces
<1>3. Framed'
  <2>1. \A m \in Marks : Place(m) => Place(m)'
    BY <1>1 DEF Place, Unacked
  <2> QED BY <1>1, <1>2, <2>1, SamePlace DEF MqttInv
<1>4. /\ mqtt_tx \in Nat /\ mqtt_waited \in Nat /\ quiet \in Nat
      /\ mqtt_tx' \in Nat /\ mqtt_tx' <= mqtt_tx + 1
  BY <1>1 DEF MqttTypeInv, Q!Older
<1>5. quiet' \in Nat /\ mqtt_waited' \in Nat
  BY <1>4 DEF Q!Tick, Q!Older
<1>6. MqttTypeInv' /\ Acking'
  BY <1>1, <1>4, <1>5 DEF MqttTypeInv, Acking
<1>7. ASSUME mqtt_faults \cap {"trickle", "busy"} = {}
      PROVE  pc = "header" /\ quiet = 0 /\ quiet' = 1
  <2>1. /\ "trickle" \notin mqtt_faults /\ Q!Blocked
        /\ quiet < Q!Patience /\ quiet' = quiet + 1
    BY <1>7 DEF Q!Tick
  <2>2. PICK f :
          /\ Parsed(stream \o queue, f, owed) /\ Place(f[1])
          /\ AtHeader(f[Len(stream) + 1])
    BY <1>2, <2>1 DEF MqttInv, Framed
  <2>3. AtHeader(f[1])
    <3>1. Len(stream) + 1 = 1
      BY <2>1, EmptySeq DEF Q!Blocked
    <3> QED BY <2>2, <3>1
  <2>4. pc # "length" /\ (pc \in {"body", "drop"} => left = 0)
    BY <2>2, <2>3 DEF Place, AtHeader
  <2>5. pc = "header"
    BY <2>1, <2>4 DEF Q!Blocked, Q!Reading
  <2> QED BY <1>4, <2>1, <2>5 DEF Q!Patience
<1>8. Timely'
  <2>1. SUFFICES ASSUME mqtt_faults \cap {"trickle", "busy"} = {}
                 PROVE  quiet' \in {0, 1}
                        /\ (IF stage = "loop" THEN Looping' ELSE Waiting')
    BY <1>1, <1>2 DEF Timely
  <2>2. pc = "header" /\ quiet = 0 /\ quiet' = 1
    BY <1>7, <2>1
  <2>3. IF stage = "loop" THEN Looping ELSE Waiting
    BY <1>1, <1>2, <2>1 DEF Timely
  <2>4. CASE stage = "loop"
    <3>1. mqtt_tx <= AckTime + 0 \/ mqtt_tx < Half + 0
      BY <2>2, <2>3, <2>4 DEF Looping
    <3>2. mqtt_tx' <= AckTime + 1 \/ mqtt_tx' < Half + 1
      BY <1>4, <3>1, KeepAliveAssumption
    <3> QED BY <1>1, <2>2, <2>4, <3>2 DEF Looping
  <2>5. CASE stage # "loop"
    <3>1. mqtt_tx <= mqtt_waited /\ mqtt_waited < AckTime
      BY <2>2, <2>3, <2>5 DEF Waiting
    <3>2. mqtt_waited' = mqtt_waited + 1
      BY <2>5, <3>1 DEF Q!Tick, Q!Older
    <3>3. mqtt_tx' <= mqtt_waited' /\ mqtt_waited' <= AckTime
      BY <1>4, <3>1, <3>2, KeepAliveAssumption
    <3> QED BY <2>2, <2>5, <3>3 DEF Waiting
  <2> QED BY <2>2, <2>4, <2>5
<1> QED BY <1>3, <1>6, <1>8 DEF MqttInv

(* A packet is sent: an acknowledgement is of the publication that is held. *)
LEMMA SentStep ==
    ASSUME MqttInv, Q!Sent
    PROVE  MqttInv'
<1>1. /\ MqttTypeInv /\ Acking /\ Timely /\ Framed
      /\ pc = "send" /\ ~gone /\ mqtt_tx' = 0 /\ quiet' = 0
      /\ UNCHANGED <<mqtt_faults, kind, left, stream, queue, gone, pubs, owed>>
  BY DEF MqttInv, Q!Sent, Q!config
<1>2. owed \in Seq(Nat) /\ acked \in Seq(Nat) /\ kind \in MqttPackets
  BY <1>1 DEF MqttTypeInv
<1>3. Len(acked) \in Nat /\ Len(owed) \in Nat /\ kind.id \in Nat
  BY <1>2, LenProperties DEF MqttPackets
<1>4. CASE mqtt_out = "PUBACK"
  <2>1. /\ pc' = "check" /\ acked' = Append(acked, kind.id)
        /\ UNCHANGED <<stage, mqtt_out, mqtt_waited>>
    BY <1>4 DEF Q!Sent, Q!Goto
  <2>2. Unacked
    BY <1>1, <1>4 DEF Unacked, MqttTypeInv
  <2>3. /\ acked' \in Seq(Nat) /\ Len(acked') = Len(acked) + 1
        /\ \A i \in 1 .. Len(acked) : acked'[i] = acked[i]
        /\ acked'[Len(acked) + 1] = kind.id
    BY <1>2, <1>3, <2>1, AppendProperties
  <2>4. ASSUME NEW m \in Marks, Place(m)
        PROVE  /\ Place(m)' /\ Len(acked) + 1 \in 1 .. Len(owed)
               /\ owed[Len(acked) + 1] = kind.id
    <3>1. m.num = Len(acked) + 1 /\ m.num \in 1 .. Len(owed)
          /\ owed[m.num] = kind.id
      BY <1>1, <2>2, <2>4 DEF Place
    <3>2. m.num = Len(acked') + 0
      BY <1>3, <2>3, <3>1
    <3> QED BY <1>1, <2>1, <2>4, <3>1, <3>2 DEF Place, Unacked
  <2>5. Framed'
    BY <1>1, <2>4, SamePlace
  <2>6. /\ Len(acked) + 1 \in 1 .. Len(owed)
        /\ owed[Len(acked) + 1] = kind.id
    <3>1. PICK f : Parsed(stream \o queue, f, owed) /\ Place(f[1])
      BY <1>1 DEF Framed
    <3>2. f[1] \in Marks
      BY <3>1, FirstMark
    <3> QED BY <2>4, <3>1, <3>2
  <2>7. Acking'
    <3>1. Len(acked') <= Len(owed)
      BY <1>3, <2>3, <2>6
    <3>2. ASSUME NEW i \in 1 .. Len(acked') PROVE acked'[i] = owed[i]
      <4>1. i \in 1 .. Len(acked) \/ i = Len(acked) + 1
        BY <1>3, <2>3
      <4> QED BY <1>1, <2>3, <2>6, <4>1 DEF Acking
    <3> QED BY <1>1, <3>1, <3>2 DEF Acking
  <2>8. MqttTypeInv'
    BY <1>1, <2>1, <2>3 DEF MqttTypeInv
  <2>9. Timely'
    BY <1>1, <2>1, KeepAliveAssumption
    DEF MqttTypeInv, Timely, Looping, Waiting, IdlePlaces
  <2> QED BY <2>5, <2>7, <2>8, <2>9 DEF MqttInv
<1>5. CASE mqtt_out # "PUBACK"
  <2>1. acked' = acked /\ ~Unacked
    BY <1>1, <1>5 DEF Q!Sent, Unacked
  <2>2. \/ /\ stage' \in {"connack", "suback"} /\ mqtt_waited' = 0
           /\ pc' = "header" /\ UNCHANGED mqtt_out
        \/ /\ stage' = "loop" /\ UNCHANGED mqtt_waited
           /\ \/ pc' = "send" /\ mqtt_out' = "PINGREQ"
              \/ pc' \in {"out", "header"} /\ mqtt_out' = mqtt_out
    BY <1>1, <1>5
    DEF Q!Sent, Q!Await, Q!Send, Q!Onward, Q!Goto, MqttTypeInv
  <2>3. \A m \in Marks : Place(m) => Place(m)'
    BY <1>1, <2>1, <2>2 DEF Place, Unacked
  <2>4. Framed'
    BY <1>1, <2>3, SamePlace
  <2>5. MqttTypeInv'
    BY <1>1, <2>1, <2>2 DEF MqttTypeInv
  <2>6. Timely'
    BY <1>1, <2>2, KeepAliveAssumption
    DEF MqttTypeInv, Timely, Looping, Waiting, IdlePlaces
  <2> QED BY <1>1, <2>1, <2>4, <2>5, <2>6 DEF MqttInv, Acking
<1> QED BY <1>4, <1>5

(* mqtt_session() goes on without reading or having sent anything. *)
LEMMA TurnStep ==
    ASSUME MqttInv,
           Q!Start \/ Q!Connect \/ Q!Check \/ Q!SendFails \/ Q!Dropped
             \/ Q!Whole \/ Q!Idle \/ Q!Cut
    PROVE  MqttInv'
<1>1. /\ MqttTypeInv /\ Acking /\ Timely /\ Framed
      /\ UNCHANGED <<mqtt_faults, mqtt_tx, mqtt_waited, stream, queue, pubs,
                     owed, acked>>
      /\ gone => gone'
  BY DEF MqttInv, Q!Start, Q!Connect, Q!Check, Q!SendFails, Q!Dropped,
     Q!Whole, Q!Idle, Q!Cut, Q!Blocked, Q!Reading, Q!config, Q!reader,
     Q!ages, Q!network, Q!history
<1>2. CASE Q!Start
  <2>1. /\ pc \in IdlePlaces /\ pc' = "connect"
        /\ UNCHANGED <<stage, mqtt_out, kind, left, quiet, gone>>
    BY <1>2 DEF Q!Start, Q!Goto, Q!reader, Q!network, IdlePlaces
  <2>2. \A m \in Marks : Place(m) => Place(m)'
    BY <1>1, <2>1 DEF Place, Unacked, IdlePlaces
  <2>3. MqttTypeInv' /\ Timely'
    BY <1>1, <2>1, KeepAliveAssumption
    DEF MqttTypeInv, Timely, Looping, Waiting, IdlePlaces
  <2> QED BY <1>1, <2>2, <2>3, SamePlace DEF MqttInv, Acking
<1>3. CASE Q!Connect
  <2>1. /\ pc = "connect"
        /\ \/ pc' = "send" /\ mqtt_out' = "CONNECT" /\ stage' = "connack"
           \/ pc' = "pause" /\ UNCHANGED <<stage, mqtt_out>>
        /\ UNCHANGED <<kind, left, quiet, gone>>
    BY <1>3 DEF Q!Connect, Q!Goto, Q!reader, Q!network
  <2>2. \A m \in Marks : Place(m) => Place(m)'
    BY <1>1, <2>1 DEF Place, Unacked, IdlePlaces
  <2>3. MqttTypeInv' /\ Timely'
    BY <1>1, <2>1, KeepAliveAssumption
    DEF MqttTypeInv, Timely, Looping, Waiting, IdlePlaces
  <2> QED BY <1>1, <2>2, <2>3, SamePlace DEF MqttInv, Acking
<1>4. CASE Q!Check
  <2>1. pc = "check" /\ quiet' = 0 /\ left' = 0 /\ kind' = Q!Packet("PINGRESP")
        /\ gone' = gone
    BY <1>4 DEF Q!Check, Q!network
  <2>2. \/ /\ stage # "loop" /\ UNCHANGED <<stage, mqtt_out>>
           /\ \/ pc' = "out"
              \/ pc' = "header" /\ mqtt_waited < AckTime
        \/ /\ stage = "loop" /\ stage' = "loop"
           /\ \/ pc' = "send" /\ mqtt_out' \in {"PUBLISH", "PINGREQ"}
              \/ pc' = "out" /\ mqtt_out' = mqtt_out
              \/ pc' = "header" /\ mqtt_out' = mqtt_out /\ mqtt_tx < Half
    <3>1. mqtt_waited \in Nat /\ mqtt_tx \in Nat
      BY <1>1 DEF MqttTypeInv
    <3> QED BY <1>4, <3>1, KeepAliveAssumption
        DEF Q!Check, Q!Goto, Q!Send, Q!Onward, Q!PingDue
  <2>3. kind' \in MqttPackets
    BY <2>1 DEF Q!Packet, MqttPackets, MqttTypes
  <2>4. \A m \in Marks : Place(m) => Place(m)'
    BY <1>1, <2>1, <2>2 DEF Place, Unacked
  <2>5. MqttTypeInv'
    BY <1>1, <2>1, <2>2, <2>3 DEF MqttTypeInv
  <2>6. Timely'
    BY <1>1, <2>1, <2>2, KeepAliveAssumption
    DEF MqttTypeInv, Timely, Looping, Waiting, IdlePlaces
  <2> QED BY <1>1, <2>4, <2>5, <2>6, SamePlace DEF MqttInv, Acking
<1>5. CASE Q!SendFails
  <2>1. /\ pc = "send" /\ gone' /\ pc' \in {"check", "out"}
        /\ UNCHANGED <<stage, mqtt_out, kind, left, quiet>>
    BY <1>5 DEF Q!SendFails, Q!Goto, Q!reader
  <2>2. \A m \in Marks : Place(m) => Place(m)'
    BY <1>1, <2>1 DEF Place, Unacked
  <2>3. MqttTypeInv' /\ Timely'
    BY <1>1, <2>1, KeepAliveAssumption
    DEF MqttTypeInv, Timely, Looping, Waiting, IdlePlaces
  <2> QED BY <1>1, <2>2, <2>3, SamePlace DEF MqttInv, Acking
<1>6. CASE Q!Dropped \/ Q!Idle \/ Q!Cut
  <2>1. /\ UNCHANGED <<stage, mqtt_out, kind, left, quiet, gone>>
        /\ \/ pc = "drop" /\ left = 0 /\ pc' = "check"
           \/ pc = "header" /\ quiet > 0 /\ pc' = "check"
           \/ pc # "out" /\ pc' = "out"
    BY <1>6
    DEF Q!Dropped, Q!Idle, Q!Cut, Q!Blocked, Q!Reading, Q!Goto, Q!reader,
        Q!network, Q!DropLeft
  <2>2. pc' # "out" => \A m \in Marks : Place(m) => Place(m)'
    BY <1>1, <2>1 DEF Place, Unacked
  <2>3. MqttTypeInv' /\ Timely'
    BY <1>1, <2>1, KeepAliveAssumption
    DEF MqttTypeInv, Timely, Looping, Waiting, IdlePlaces
  <2> QED BY <1>1, <2>2, <2>3, SamePlace DEF MqttInv, Acking
<1>7. CASE Q!Whole
  <2>1. pc = "body" /\ left = 0 /\ UNCHANGED <<kind, left, quiet, gone>>
    BY <1>7 DEF Q!Whole, Q!reader, Q!network
  <2>2. \/ /\ kind.type # "PUBLISH" /\ stage' = stage
           /\ pc' = "send" /\ mqtt_out' = "SUBSCRIBE"
        \/ /\ kind.type # "PUBLISH" /\ stage # "loop" /\ stage' = "loop"
           /\ pc' = "header" /\ mqtt_out' = mqtt_out
        \/ pc' = "out" /\ UNCHANGED <<stage, mqtt_out>>
        \/ /\ ~(kind.type = "PUBLISH" /\ kind.qos = 1)
           /\ pc' = "check" /\ UNCHANGED <<stage, mqtt_out>>
        \/ /\ kind.type = "PUBLISH" /\ kind.qos = 1
           /\ pc' = "send" /\ mqtt_out' = "PUBACK" /\ stage' = stage
    BY <1>7 DEF Q!Whole, Q!Subscribe, Q!Send, Q!Await, Q!Goto
  <2>3. \A m \in Marks : pc' # "out" /\ Place(m) => Place(m)'
    BY <1>1, <2>1, <2>2 DEF Place, Unacked
  <2>4. MqttTypeInv'
    BY <1>1, <2>1, <2>2 DEF MqttTypeInv
  <2>5. Timely'
    BY <1>1, <2>1, <2>2, KeepAliveAssumption
    DEF MqttTypeInv, Timely, Looping, Waiting, IdlePlaces
  <2> QED BY <1>1, <2>3, <2>4, <2>5, SamePlace DEF MqttInv, Acking
<1> QED BY <1>2, <1>3, <1>4, <1>5, <1>6, <1>7

(* A new connection starts with nothing said. *)
LEMMA NothingSaid ==
    \E f : Parsed(<<>>, f, <<>>) /\ AtHeader(f[1]) /\ f[1].num = 0
<1> DEFINE m == [at |-> "body", of |-> Q!Packet("PINGRESP"), left |-> 0,
                 num |-> 0]
           f == [i \in 1 .. 1 |-> m]
<1>1. m \in Marks
  BY DEF Marks, MqttPackets, MqttTypes, Q!Packet
<1>2. Len(<<>>) = 0 /\ <<>> \in Seq(MqttCells) /\ <<>> \in Seq(Nat)
  BY EmptySeq
<1>3. f \in [1 .. 0 + 1 -> Marks] /\ f[1] = m /\ f[0 + 1] = m
  BY <1>1
<1> HIDE DEF f
<1>4. AtHeader(m) /\ m.num = 0
  BY DEF AtHeader
<1>5. Parsed(<<>>, f, <<>>)
  <2>1. \A i \in 1 .. 0 : FALSE
    OBVIOUS
  <2> QED BY <1>2, <1>3, <1>4, <2>1 DEF Parsed
<1> QED BY <1>3, <1>4, <1>5

LEMMA MqttStart ==
    ASSUME Q!Init
    PROVE  MqttInv
<1>1. Framed /\ Acking
  <2>1. PICK f : Parsed(<<>>, f, <<>>) /\ AtHeader(f[1]) /\ f[1].num = 0
    BY NothingSaid
  <2>2. /\ stream = <<>> /\ queue = <<>> /\ owed = <<>> /\ acked = <<>>
        /\ pc = "link"
    BY DEF Q!Init
  <2>3. stream \o queue = <<>> /\ Len(stream) + 1 = 1 /\ Len(acked) = 0
    BY <2>2, EmptySeq, ConcatEmptySeq
  <2>4. Place(f[1])
    BY <2>1, <2>2, <2>3 DEF Place, Unacked, AtHeader
  <2> QED BY <2>1, <2>2, <2>3, <2>4 DEF Framed, Acking
<1>2. <<>> \in Seq(MqttCells) /\ <<>> \in Seq(Nat)
  BY EmptySeq
<1>3. MqttTypeInv
  BY <1>2 DEF MqttTypeInv, Q!Init, IdlePlaces, Q!Packet, MqttPackets, MqttTypes
<1>4. Timely
  BY KeepAliveAssumption
  DEF Timely, Waiting, Looping, Q!Init, IdlePlaces
<1> QED BY <1>1, <1>3, <1>4 DEF MqttInv

(* Every step of the client, the broker and the network keeps the          *)
(* invariant.                                                              *)
LEMMA MqttStep ==
    ASSUME MqttInv, Q!Next \/ UNCHANGED mqtt_vars
    PROVE  MqttInv'
<1>1. CASE UNCHANGED mqtt_vars
  <2>1. UNCHANGED <<mqtt_faults, pc, stage, mqtt_out, kind, left, quiet,
                    mqtt_tx, mqtt_waited, queue, stream, gone, pubs, owed,
                    acked>>
    BY <1>1 DEF mqtt_vars
  <2>2. \A m \in Marks : Place(m) => Place(m)'
    BY <2>1 DEF Place, Unacked
  <2>3. pc' # "out" => Framed'
    BY <2>1, <2>2, SamePlace DEF MqttInv
  <2> QED BY <2>1, <2>3
      DEF MqttInv, MqttTypeInv, Acking, Timely, Looping, Waiting
<1>2. CASE Q!CloseSession
  <2>1. MqttTypeInv
    BY DEF MqttInv
  <2>2. /\ stream' = <<>> /\ queue' = <<>> /\ owed' = <<>> /\ acked' = <<>>
        /\ pc' = "pause" /\ kind' = Q!Packet("PINGRESP")
        /\ left' = 0 /\ quiet' = 0 /\ mqtt_tx' = 0 /\ mqtt_waited' = 0
        /\ pubs' = 0 /\ UNCHANGED <<stage, mqtt_out>>
    BY <1>2 DEF Q!CloseSession, Q!Goto, Q!Fresh, Q!Forget
  <2>3. Framed' /\ Acking'
    <3>1. PICK f : Parsed(<<>>, f, <<>>) /\ AtHeader(f[1]) /\ f[1].num = 0
      BY NothingSaid
    <3>2. /\ stream' \o queue' = <<>> /\ Len(stream') + 1 = 1
          /\ Len(acked') = 0
      BY <2>2, EmptySeq, ConcatEmptySeq
    <3>3. Place(f[1])'
      BY <2>2, <3>1, <3>2 DEF Place, Unacked, AtHeader
    <3>4. Parsed((stream \o queue)', f, owed')
      BY <2>2, <3>1, <3>2
    <3>5. Parsed(stream \o queue, f, owed)'
      BY <3>4 DEF Parsed, Follows, Owes, AtHeader
    <3> QED BY <2>2, <3>1, <3>2, <3>3, <3>5 DEF Framed, Acking, AtHeader
  <2>4. <<>> \in Seq(MqttCells) /\ <<>> \in Seq(Nat)
    BY EmptySeq
  <2>5. MqttTypeInv'
    BY <2>1, <2>2, <2>4
    DEF MqttTypeInv, IdlePlaces, Q!Packet, MqttPackets, MqttTypes
  <2>6. Timely'
    BY <2>2, KeepAliveAssumption DEF Timely, Waiting, Looping, IdlePlaces
  <2> QED BY <2>3, <2>5, <2>6 DEF MqttInv
<1> QED BY <1>1, <1>2, BrokerStep, DeliverStep, TickStep, TurnStep, SentStep,
        ReadHeaderStep, ReadLengthStep, ReadBodyStep DEF Q!Next, Q!Task

(* The client acknowledges the publications of QoS 1 that it holds in the  *)
(* order they were sent in, none twice, and finds every header: however    *)
(* many there are, however they are cut up, and whatever send() answers.   *)
THEOREM AcksAreInOrder == FairSpec => []AcksInOrder
<1>1. Init => MqttInv
  BY MqttStart DEF Init
<1>2. MqttInv /\ [Next]_all => MqttInv'
  BY MqttStep, OneProgram
<1>3. MqttInv => AcksInOrder
  <2>1. SUFFICES ASSUME MqttInv PROVE AcksInOrder
    OBVIOUS
  <2>2. MqttTypeInv /\ Acking
    BY <2>1 DEF MqttInv
  <2> DEFINE z == Len(acked)
             sub == SubSeq(owed, 1, z)
  <2>3. /\ acked \in Seq(Nat) /\ owed \in Seq(Nat) /\ z \in Nat
        /\ Len(owed) \in Nat /\ z <= Len(owed)
    BY <2>2, LenProperties DEF MqttTypeInv, Acking
  <2>4. \A i \in 1 .. Len(owed) : owed[i] \in Nat
    BY <2>3, ElementOfSeq
  <2> HIDE DEF z
  <2>5. /\ 1 \in Int /\ z \in Int /\ \A i \in 1 .. z : i \in 1 .. Len(owed)
        /\ (IF 1 <= z THEN z - 1 + 1 ELSE 0) = z /\ z - 1 + 1 = z
        /\ \A i \in 1 .. z : 1 + i - 1 = i
    BY <2>3
  <2>6. /\ sub \in Seq(Nat) /\ Len(sub) = z
        /\ \A i \in 1 .. z : sub[i] = owed[i]
    <3>1. /\ sub \in Seq(Nat)
          /\ Len(sub) = IF 1 <= z THEN z - 1 + 1 ELSE 0
          /\ \A i \in 1 .. z - 1 + 1 : sub[i] = owed[1 + i - 1]
      BY <2>4, <2>5, SubSeqProperties
    <3> HIDE DEF sub
    <3> QED BY <2>5, <3>1
  <2> HIDE DEF sub
  <2>7. acked = sub
    <3>1. \A i \in 1 .. Len(acked) : acked[i] = sub[i]
      BY <2>2, <2>6 DEF Acking, z
    <3> QED BY <2>3, <2>6, <3>1, SeqEqual DEF z
  <2>8. kind.type # "junk"
    BY <2>2 DEF MqttTypeInv, MqttPackets, MqttTypes
  <2> QED BY <2>2, <2>7, <2>8 DEF AcksInOrder, Q!AcksInOrder, Acking, sub, z
<1> QED BY <1>1, <1>2, <1>3, PTL DEF FairSpec

(* The broker hears of the client in less than 1.5 keep-alive intervals,   *)
(* as long as packets arrive whole and send() is not held up.              *)
THEOREM BrokerHearsClient == FairSpec => []KeptAlive
<1>1. Init => MqttInv
  BY MqttStart DEF Init
<1>2. MqttInv /\ [Next]_all => MqttInv'
  BY MqttStep, OneProgram
<1>3. MqttInv => KeptAlive
  BY KeepAliveAssumption
  DEF MqttInv, MqttTypeInv, Timely, Looping, Waiting, KeptAlive, Q!KeptAlive,
      Q!DeadTime
<1> QED BY <1>1, <1>2, <1>3, PTL DEF FairSpec

-----------------------------------------------------------------------------
(* Pppoe *)

(* A network that delivers in time what it does not lose, and a server that *)
(* does not ask again.                                                     *)
InTime == pppoe_faults \cap {"repeat", "late"} = {}

(* What is on the wire: frames on their way to the client, or from it. *)
Comes(seqs) == pppoe_tx = <<>> /\ pppoe_rx \in seqs
Goes(seqs)  == pppoe_rx = <<>> /\ pppoe_tx \in seqs
Silence == pppoe_rx = <<>> /\ pppoe_tx = <<>>

(* The requests of the server's, and its challenge. *)
LcpAsked ==
    {P!LcpReq(<<"MRU", auth>>), P!LcpReq(<<auth, "MRU">>),
     P!LcpReq(<<auth, "other">>), P!LcpReq(<<auth>>)}
Plain == P!IpcpReq(<<"address">>)
IpcpAsk == IF "plain" \in agreed THEN Plain
           ELSE P!IpcpReq(<<"address", "other">>)
Challenged == auth = "CHAP" /\ Comes({<<P!Only("CHALLENGE")>>})

(* Before PADS: one frame of the discovery, behind a challenge to an        *)
(* attempt that has failed before the client could answer it.              *)
Outdated == auth_protocol # "CHAP" /\ "PADO" \notin flags
Discovering ==
    \/ Silence
    \/ Outdated /\ Comes({<<P!Only("CHALLENGE")>>})
    \/ /\ goal = "PADS" /\ "PADO" \notin flags
       /\ Goes({<<"PADI">>}) \/ Comes({<<P!Only("PADO")>>})
    \/ /\ goal = "PADS" /\ Outdated
       /\ \/ Comes({<<P!Only("CHALLENGE"), P!Only("PADO")>>})
          \/ pppoe_rx = <<P!Only("CHALLENGE")>> /\ pppoe_tx = <<"PADI">>
    \/ goal = "PADS" /\ flags = {"PADO"} /\ Goes({<<"PADR">>})
    \/ /\ goal = "PADS" /\ flags = {"PADO"} /\ "lcp in" \notin agreed
       /\ \/ Goes({<<"LCP_REJ">>})
          \/ \E q \in LcpAsked : Comes({<<q>>, <<P!Pads(sid), q>>})
    \/ /\ goal = "PADS" /\ "PADO" \in flags /\ "lcp in" \notin agreed
       /\ Goes({<<"LCP_ACK">>})

(* Until the server's LCP request is acknowledged *)
Requested ==
    /\ "lcp in" \notin agreed
    /\ \/ Silence
       \/ \E q \in LcpAsked : Comes({<<q>>})
       \/ /\ goal = "LCP_CR_RCV"
          /\ \/ Goes({<<"ECHO">>, <<"LCP_REJ">>, <<"ECHO", "LCP_REJ">>})
             \/ \E q \in LcpAsked : pppoe_rx = <<q>> /\ pppoe_tx = <<"ECHO">>

(* Credentials, the verdict on them, and the request it comes with *)
IpcpBegins ==
    /\ "auth" \in agreed
    /\ \/ Comes({<<IpcpAsk>>}) \/ Goes({<<"IPCP_REJ">>})
       \/ "plain" \in agreed /\ Goes({<<"IPCP_ACK">>})
Judged(credentials, yes, no) ==
    \/ Silence \/ Goes({<<credentials>>, <<"TERM_ACK">>})
    \/ Comes({<<P!Only(no), P!Only("TERM_REQ")>>, <<P!Only("TERM_REQ")>>})
    \/ "auth" \in agreed /\ Comes({<<P!Only(yes), IpcpAsk>>})
    \/ IpcpBegins
Chap == Challenged \/ Judged("RESPONSE", "CHAP_OK", "CHAP_FAIL")
Pap  == Judged("PAP", "PAP_ACK", "PAP_NAK")

(* The client's LCP request; the server's answer comes with the challenge. *)
Requesting ==
    \/ /\ "lcp in" \notin agreed
       /\ Goes({<<"ECHO", "LCP_ACK", "LCP_REQ">>, <<"LCP_ACK", "LCP_REQ">>})
    \/ Goes({<<"LCP_REQ">>})
    \/ Comes({<<P!Only("LCP_ACK")>>})
    \/ auth = "CHAP" /\ Comes({<<P!Only("LCP_ACK"), P!Only("CHALLENGE")>>})

(* The client's IPCP request: whatever asks for the server's own address is *)
(* before the NAK, and the address is the client's from then on.           *)
Assigned ==
    \/ Silence
    \/ Goes({<<"IPCP_ACK">>, <<"IPCP_REQ any">>, <<"IPCP_ACK", "IPCP_REQ any">>,
             <<"IPCP_REQ any", "IPCP_ACK">>})
    \/ pppoe_rx = <<Plain>> /\ pppoe_tx \in {<<>>, <<"IPCP_REQ any">>}
    \/ Comes({<<Plain, P!Only("IPCP_NAK")>>})
    \/ pppoe_rx = <<P!Only("IPCP_NAK")>> /\ pppoe_tx \in {<<>>, <<"IPCP_ACK">>}
    \/ /\ pppoe_ip = "client"
       /\ Goes({<<"IPCP_REQ client">>, <<"IPCP_ACK", "IPCP_REQ client">>})
    \/ /\ pppoe_ip = "client" /\ "address" \in agreed
       /\ Comes({<<P!Only("IPCP_ACK")>>})

(* What may be on the wire, by the state of the machine and what the call   *)
(* waits for.                                                              *)
InDiscovery ==
    /\ goal \in {"none", "PADS"}
    /\ flags \in {{}, {"PADO"}, {"PADO", "LCP_CR_RCV"}}
    /\ Discovering
InLcp ==
    /\ "PADS" \in flags
    /\ flags \cap {"LCP_CR_SNT", "PAP_ACK", "IPCP_NAK_RCV", "IPCP_CR_SNT"} = {}
    /\ IF "LCP_CR_RCV" \notin flags
       THEN /\ goal \in {"PADS", "none", "LCP_CR_RCV"} /\ Requested
            /\ "IPCP_CR_RCV" \notin flags
       ELSE \/ goal = "none" /\ Silence
            \/ /\ goal = "LCP_CR_RCV"
               /\ \/ Silence
                  \/ /\ "lcp in" \notin agreed
                     /\ Goes({<<"LCP_ACK">>, <<"ECHO", "LCP_ACK">>})
            \/ goal = "LCP_CR_SNT" /\ (Requesting \/ Chap)
InPap ==
    /\ "PAP_ACK" \notin flags
    /\ \/ goal \in {"LCP_CR_SNT", "none"} /\ Silence
       \/ goal = "PAP_ACK" /\ Pap
InChap ==
    \/ /\ goal = "none" \/ (goal = "LCP_CR_SNT" /\ goal \in flags)
       /\ Silence \/ Challenged
    \/ goal = "CHAP_SUC" /\ Chap /\ ("CHAP_SUC" \in flags => Silence \/ Challenged)
InIpcp ==
    /\ "auth" \in agreed
    /\ \/ /\ goal = "none" \/ (goal \in {"PAP_ACK", "CHAP_SUC"} /\ goal \in flags)
          /\ Silence \/ Comes({<<IpcpAsk>>})
       \/ goal = "IPCP_CR_RCV" /\ "IPCP_CR_RCV" \notin flags /\ (Silence \/ IpcpBegins)
       \/ /\ goal = "IPCP_CR_RCV" /\ "IPCP_CR_RCV" \in flags
          /\ Silence \/ Comes({<<Plain>>}) \/ Goes({<<"IPCP_ACK">>})
       \/ goal = "IPCP_CR_SNT" /\ "IPCP_CR_RCV" \in flags /\ Assigned
Negotiating ==
    /\ pppoe_state \in {"DISCOVERY", "LCP", "PAP", "CHAP", "IPCP", "FAILED"}
    /\ pppoe_state = "DISCOVERY" => InDiscovery
    /\ pppoe_state = "LCP" => InLcp
    /\ pppoe_state = "PAP" => InPap
    /\ pppoe_state = "CHAP" => InChap
    /\ pppoe_state = "IPCP" => InIpcp
    /\ pppoe_state = "FAILED" =>
         /\ goal = "none" \/ (goal = "LCP_CR_SNT" /\ goal \in flags)
         /\ Silence \/ (auth_protocol # "CHAP" /\ Comes({<<P!Only("CHALLENGE")>>}))

(* A session is open once PADS has come; a flag stands for what the server  *)
(* has settled, and a call that has what it waits for has sent nothing     *)
(* since the last one had.                                                 *)
Settled ==
    /\ auth \in {"PAP", "CHAP"} /\ auth_protocol \in {"none", "MRU", auth}
    /\ pppoe_state \notin {"DISCOVERY", "FAILED"} => NAS_sessionid = sid
    /\ pppoe_state \notin {"DISCOVERY", "LCP", "FAILED"} => "PADS" \in flags
    /\ "IPCP_CR_RCV" \in flags /\ pppoe_state # "FAILED"
         => {"auth", "plain"} \subseteq agreed
    /\ send_count \in Nat /\ "none" \notin flags
    /\ pppoe_state = "CHAP" => send_count = 0
    /\ goal \in flags \ {"LCP_CR_RCV", "IPCP_CR_RCV"} /\ pppoe_state # "FAILED"
         => send_count = 0

(* The session that is reported *)
Reported ==
    /\ "IPCP_CR_SNT" \in flags /\ pppoe_state # "FAILED"  => result = "success"
    /\ result = "success" =>
         /\ pppoe_state = "IPCP" /\ goal \in {"IPCP_CR_SNT", "none"} /\ Silence
         /\ goal # "none" => goal \in flags
         /\ {"auth", "address"} \subseteq agreed
         /\ regs.ip = "client" /\ regs.sid = sid

(* What holds of the machine, the wire and the server together. *)
SessionInv == InTime => Negotiating /\ Settled /\ Reported
-----------------------------------------------------------------------------
(* Short sequences: what is left when the first is taken, and what comes of *)
(* sending one more.                                                       *)
LEMMA Taken ==
    /\ \A a : <<a>> # <<>> /\ Head(<<a>>) = a /\ Tail(<<a>>) = <<>>
    /\ \A a, b : <<a, b>> # <<>> /\ Head(<<a, b>>) = a /\ Tail(<<a, b>>) = <<b>>
    /\ \A a, b, d : /\ <<a, b, d>> # <<>> /\ Head(<<a, b, d>>) = a
                    /\ Tail(<<a, b, d>>) = <<b, d>>
OBVIOUS

(* Append() to a sequence of none, one and two. *)
LEMMA SentOne == \A a : Append(<<>>, a) = <<a>>
OBVIOUS

LEMMA SentTwo == ASSUME NEW a, NEW b PROVE Append(<<a>>, b) = <<a, b>>
<1>1. <<a>> \in Seq({a, b}) /\ <<a, b>> \in Seq({a, b})
  OBVIOUS
<1>2. /\ Append(<<a>>, b) \in Seq({a, b})
      /\ Len(Append(<<a>>, b)) = Len(<<a>>) + 1
      /\ Append(<<a>>, b)[Len(<<a>>) + 1] = b
      /\ \A i \in 1 .. Len(<<a>>) : Append(<<a>>, b)[i] = <<a>>[i]
  BY <1>1
<1>3. Len(<<a>>) = 1 /\ Len(<<a, b>>) = 2 /\ <<a>>[1] = a /\ <<a, b>>[1] = a /\ <<a, b>>[2] = b
  OBVIOUS
<1>4. Len(Append(<<a>>, b)) = Len(<<a, b>>)
  BY <1>2, <1>3
<1>5. \A i \in 1 .. Len(<<a, b>>) : Append(<<a>>, b)[i] = <<a, b>>[i]
  BY <1>2, <1>3
<1> QED BY <1>1, <1>2, <1>4, <1>5, SeqEqual
LEMMA SentThree == ASSUME NEW a, NEW b, NEW d PROVE Append(<<a, b>>, d) = <<a, b, d>>
<1>1. <<a, b>> \in Seq({a, b, d}) /\ <<a, b, d>> \in Seq({a, b, d})
  OBVIOUS
<1>2. /\ Append(<<a, b>>, d) \in Seq({a, b, d})
      /\ Len(Append(<<a, b>>, d)) = Len(<<a, b>>) + 1
      /\ Append(<<a, b>>, d)[Len(<<a, b>>) + 1] = d
      /\ \A i \in 1 .. Len(<<a, b>>) : Append(<<a, b>>, d)[i] = <<a, b>>[i]
  BY <1>1
<1>3. Len(<<a, b>>) = 2 /\ Len(<<a, b, d>>) = 3
  OBVIOUS
<1>4. Len(Append(<<a, b>>, d)) = Len(<<a, b, d>>)
  BY <1>2, <1>3
<1>5. \A i \in 1 .. Len(<<a, b, d>>) : Append(<<a, b>>, d)[i] = <<a, b, d>>[i]
  BY <1>2, <1>3
<1> QED BY <1>1, <1>2, <1>4, <1>5, SeqEqual

(* What the server says comes behind what is on the wire. *)
LEMMA JoinedTwo == ASSUME NEW a, NEW b PROVE <<a>> \o <<b>> = <<a, b>>
<1>1. <<a>> \o <<b>> = Append(<<a>>, b)
  OBVIOUS
<1> QED BY <1>1, SentTwo

LEMMA Joined ==
    /\ <<>> \o <<>> = <<>>
    /\ \A a : <<>> \o <<a>> = <<a>> /\ <<a>> \o <<>> = <<a>>
    /\ \A a, b : <<>> \o <<a, b>> = <<a, b>>
OBVIOUS

-----------------------------------------------------------------------------
(* What the server answers to each frame *)
LEMMA Answers ==
    ASSUME auth \in {"PAP", "CHAP"}
    PROVE
    /\ P!Serve("PADI") =>
         pppoe_rx' = pppoe_rx \o <<P!Only("PADO")>> /\ UNCHANGED <<sid, agreed>>
    /\ P!Serve("PADR") =>
         /\ agreed' = {}
         /\ \E q \in LcpAsked : pppoe_rx' = pppoe_rx \o <<P!Pads(sid'), q>>
    /\ P!Serve("LCP_REQ") =>
         /\ agreed' = agreed \cup {"lcp in"} /\ sid' = sid
         /\ \/ pppoe_rx' = pppoe_rx \o <<P!Only("LCP_ACK")>>
            \/ /\ auth = "CHAP"
               /\ pppoe_rx' = pppoe_rx
                                \o <<P!Only("LCP_ACK"), P!Only("CHALLENGE")>>
    /\ P!Serve("LCP_ACK") /\ "lcp in" \notin agreed =>
         /\ agreed' = agreed \cup {"lcp out"} /\ sid' = sid
         /\ pppoe_rx' = pppoe_rx \o <<>>
    /\ P!Serve("LCP_REJ") =>
         /\ pppoe_rx' = pppoe_rx \o <<P!LcpReq(<<auth>>)>>
         /\ UNCHANGED <<sid, agreed>>
    /\ P!Serve("IPCP_REJ") =>
         /\ pppoe_rx' = pppoe_rx \o <<Plain>>
         /\ agreed' = agreed \cup {"plain"} /\ sid' = sid
    /\ P!Serve("IPCP_ACK") =>
         pppoe_rx' = pppoe_rx /\ agreed' = agreed \cup {"ipcp out"} /\ sid' = sid
    /\ P!Serve("IPCP_REQ any") =>
         /\ pppoe_rx' = pppoe_rx \o <<P!Only("IPCP_NAK")>>
         /\ UNCHANGED <<sid, agreed>>
    /\ P!Serve("IPCP_REQ client") =>
         /\ pppoe_rx' = pppoe_rx \o <<P!Only("IPCP_ACK")>>
         /\ agreed' = agreed \cup {"address"} /\ sid' = sid
    /\ P!Serve("ECHO") \/ P!Serve("TERM_ACK") =>
         UNCHANGED <<pppoe_rx, sid, agreed>>
<1>1. \A s : P!Challenge(s) = <<>> \/ (auth = "CHAP" /\ P!Challenge(s) = <<P!Only("CHALLENGE")>>)
  BY DEF P!Challenge
<1>2. <<P!Only("LCP_ACK")>> \o <<>> = <<P!Only("LCP_ACK")>>
  BY Joined
<1>3. <<P!Only("LCP_ACK")>> \o <<P!Only("CHALLENGE")>>
        = <<P!Only("LCP_ACK"), P!Only("CHALLENGE")>>
  BY JoinedTwo
<1>4. P!Serve("PADI") =>
         pppoe_rx' = pppoe_rx \o <<P!Only("PADO")>> /\ UNCHANGED <<sid, agreed>>
  BY DEF P!Serve, P!Say, P!server
<1>5. P!Serve("PADR") =>
         /\ agreed' = {}
         /\ \E q \in LcpAsked : pppoe_rx' = pppoe_rx \o <<P!Pads(sid'), q>>
  <2>1. \A o \in P!LcpOptions : P!LcpReq(o) \in LcpAsked
    BY DEF P!LcpOptions, LcpAsked
  <2> QED BY <2>1 DEF P!Serve, P!Say
<1>6. P!Serve("LCP_REQ") =>
         /\ agreed' = agreed \cup {"lcp in"} /\ sid' = sid
         /\ \/ pppoe_rx' = pppoe_rx \o <<P!Only("LCP_ACK")>>
            \/ /\ auth = "CHAP"
               /\ pppoe_rx' = pppoe_rx
                                \o <<P!Only("LCP_ACK"), P!Only("CHALLENGE")>>
  <2>1. ASSUME P!Serve("LCP_REQ")
        PROVE  /\ agreed' = agreed \cup {"lcp in"} /\ sid' = sid
               /\ pppoe_rx' = pppoe_rx \o (<<P!Only("LCP_ACK")>> \o P!Challenge(agreed'))
    BY <2>1 DEF P!Serve, P!Say
  <2> QED BY <1>1, <1>2, <1>3, <2>1
<1>7. P!Serve("LCP_ACK") /\ "lcp in" \notin agreed =>
         /\ agreed' = agreed \cup {"lcp out"} /\ sid' = sid
         /\ pppoe_rx' = pppoe_rx \o <<>>
  BY DEF P!Serve, P!Say, P!Challenge
<1>8. /\ P!Serve("LCP_REJ") =>
         /\ pppoe_rx' = pppoe_rx \o <<P!LcpReq(<<auth>>)>>
         /\ UNCHANGED <<sid, agreed>>
      /\ P!Serve("IPCP_REJ") =>
         /\ pppoe_rx' = pppoe_rx \o <<Plain>>
         /\ agreed' = agreed \cup {"plain"} /\ sid' = sid
  BY DEF P!Serve, P!Say, P!server, Plain
<1>9. /\ P!Serve("IPCP_ACK") =>
         pppoe_rx' = pppoe_rx /\ agreed' = agreed \cup {"ipcp out"} /\ sid' = sid
      /\ P!Serve("ECHO") \/ P!Serve("TERM_ACK") =>
         UNCHANGED <<pppoe_rx, sid, agreed>>
  BY DEF P!Serve, P!server
<1>10. /\ P!Serve("IPCP_REQ any") =>
         /\ pppoe_rx' = pppoe_rx \o <<P!Only("IPCP_NAK")>>
         /\ UNCHANGED <<sid, agreed>>
       /\ P!Serve("IPCP_REQ client") =>
         /\ pppoe_rx' = pppoe_rx \o <<P!Only("IPCP_ACK")>>
         /\ agreed' = agreed \cup {"address"} /\ sid' = sid
  BY DEF P!Serve, P!Say, P!server
<1> QED BY <1>4, <1>5, <1>6, <1>7, <1>8, <1>9, <1>10

(* A verdict is a refusal, or brings the server's IPCP request. *)
LEMMA Verdicts ==
    ASSUME NEW yes, NEW no, P!Verdict(yes, no)
    PROVE  \/ /\ pppoe_rx' = pppoe_rx \o <<P!Only(no), P!Only("TERM_REQ")>>
              /\ agreed' = agreed
           \/ /\ pppoe_rx' = pppoe_rx \o <<P!Only(yes), IpcpAsk'>>
              /\ agreed \subseteq agreed' /\ "auth" \in agreed'
<1>1. ASSUME NEW o \in P!IpcpOptions, P!Say(<<P!Only(yes), P!IpcpReq(o)>>),
             agreed' = agreed \cup {"auth"} \cup P!Without(o)
      PROVE  /\ pppoe_rx' = pppoe_rx \o <<P!Only(yes), IpcpAsk'>>
             /\ agreed \subseteq agreed' /\ "auth" \in agreed'
  <2>1. CASE o = <<"address">>
    <3>1. "plain" \in agreed'
      BY <1>1, <2>1 DEF P!Without
    <3> QED BY <1>1, <2>1, <3>1 DEF IpcpAsk, Plain, P!Say
  <2>2. CASE o # <<"address">>
    <3>1. o = <<"address", "other">> /\ "plain" \notin agreed
      BY <2>2 DEF P!IpcpOptions
    <3>2. "plain" \notin agreed'
      BY <1>1, <2>2, <3>1 DEF P!Without
    <3> QED BY <1>1, <3>1, <3>2 DEF IpcpAsk, P!Say
  <2> QED BY <2>1, <2>2
<1>2. CASE "refuse" \in pppoe_faults
  BY <1>2 DEF P!Verdict, P!Say
<1>3. CASE "refuse" \notin pppoe_faults
  BY <1>1, <1>3 DEF P!Verdict
<1> QED BY <1>2, <1>3

(* A frame is answered by the server, or lost, on either way. *)
Answer  == pppoe_tx # <<>> /\ pppoe_tx' = Tail(pppoe_tx) /\ P!Serve(Head(pppoe_tx))
(* A frame to the client is lost, or one from it. *)
LossIn  == pppoe_rx # <<>> /\ pppoe_rx' = Tail(pppoe_rx)
           /\ UNCHANGED <<pppoe_tx, sid, agreed>>
LossOut == pppoe_tx # <<>> /\ pppoe_tx' = Tail(pppoe_tx)
           /\ UNCHANGED <<pppoe_rx, sid, agreed>>
(* A step of the wire changes nothing of the client. *)
Wired ==
    /\ Answer \/ LossIn \/ LossOut
    /\ auth \in {"PAP", "CHAP"}
    /\ UNCHANGED <<auth, pppoe_state, flags, send_count, goal, auth_protocol,
                   pppoe_ip, NAS_sessionid, regs, result>>

(* What the server or the network does is a step of the wire. *)
LEMMA WireSteps ==
    ASSUME P!Server \/ P!Lose, auth \in {"PAP", "CHAP"}
    PROVE  Wired
BY DEF P!Server, P!Lose, Wired, Answer, LossIn, LossOut, P!env, P!machine,
   P!learned, P!outcome, P!server

(* With nothing on its way out, the step loses the first that comes in. *)
LEMMA NothingGoes ==
    ASSUME Wired, pppoe_tx = <<>>
    PROVE  /\ pppoe_rx # <<>> /\ pppoe_rx' = Tail(pppoe_rx) /\ pppoe_tx' = <<>>
           /\ UNCHANGED <<sid, agreed>>
BY DEF Wired, Answer, LossIn, LossOut

(* One frame on its way out is answered, or lost. *)
LEMMA OneGoes ==
    ASSUME Wired, NEW a, pppoe_rx = <<>>, pppoe_tx = <<a>>
    PROVE  /\ pppoe_tx' = <<>>
           /\ P!Serve(a) \/ (pppoe_rx' = <<>> /\ UNCHANGED <<sid, agreed>>)
BY Taken DEF Wired, Answer, LossIn, LossOut

(* Of two, the first is. *)
LEMMA TwoGo ==
    ASSUME Wired, NEW a, NEW b, pppoe_rx = <<>>, pppoe_tx = <<a, b>>
    PROVE  /\ pppoe_tx' = <<b>>
           /\ P!Serve(a) \/ (pppoe_rx' = <<>> /\ UNCHANGED <<sid, agreed>>)
BY Taken DEF Wired, Answer, LossIn, LossOut

(* With one on each way, one is lost or the one going out is answered. *)
LEMMA ComesAndGoes ==
    ASSUME Wired, NEW a, NEW b, pppoe_rx = <<a>>, pppoe_tx = <<b>>
    PROVE  \/ pppoe_rx' = <<>> /\ pppoe_tx' = <<b>> /\ UNCHANGED <<sid, agreed>>
           \/ /\ pppoe_tx' = <<>>
              /\ P!Serve(b) \/ (pppoe_rx' = <<a>> /\ UNCHANGED <<sid, agreed>>)
BY Taken DEF Wired, Answer, LossIn, LossOut

(* Every exchange is left in a state in which it can be, whatever is lost. *)
LEMMA DiscoveryWire ==
    ASSUME Wired, Discovering
    PROVE  Discovering'
<1>0. /\ auth \in {"PAP", "CHAP"}
      /\ UNCHANGED <<auth, goal, flags, auth_protocol, Outdated, LcpAsked>>
  BY DEF Wired, Outdated, LcpAsked
<1> USE DEF Comes, Goes, Silence
<1>1. CASE Silence
  BY <1>1, NothingGoes
<1>2. CASE Outdated /\ Comes({<<P!Only("CHALLENGE")>>})
  BY <1>2, NothingGoes, Taken DEF Discovering
<1>3. CASE /\ goal = "PADS" /\ "PADO" \notin flags
           /\ Goes({<<"PADI">>}) \/ Comes({<<P!Only("PADO")>>})
  <2>1. CASE Goes({<<"PADI">>})
    <3>1. /\ pppoe_tx' = <<>>
          /\ pppoe_rx' = <<P!Only("PADO")>> \/ pppoe_rx' = <<>>
      BY <1>0, <2>1, OneGoes, Answers, Joined
    <3> QED BY <1>0, <1>3, <3>1 DEF Discovering
  <2>2. CASE Comes({<<P!Only("PADO")>>})
    BY <2>2, NothingGoes, Taken DEF Discovering
  <2> QED BY <1>3, <2>1, <2>2
<1>4. CASE /\ goal = "PADS" /\ Outdated
           /\ \/ Comes({<<P!Only("CHALLENGE"), P!Only("PADO")>>})
              \/ pppoe_rx = <<P!Only("CHALLENGE")>> /\ pppoe_tx = <<"PADI">>
  <2>0. "PADO" \notin flags
    BY <1>4 DEF Outdated
  <2>1. CASE Comes({<<P!Only("CHALLENGE"), P!Only("PADO")>>})
    <3>1. pppoe_tx' = <<>> /\ pppoe_rx' = <<P!Only("PADO")>>
      BY <2>1, NothingGoes, Taken
    <3> QED BY <1>0, <1>4, <2>0, <3>1 DEF Discovering
  <2>2. CASE pppoe_rx = <<P!Only("CHALLENGE")>> /\ pppoe_tx = <<"PADI">>
    <3>1. \/ pppoe_rx' = <<>> /\ pppoe_tx' = <<"PADI">>
          \/ /\ pppoe_tx' = <<>>
             /\ \/ pppoe_rx' = <<P!Only("CHALLENGE"), P!Only("PADO")>>
                \/ pppoe_rx' = <<P!Only("CHALLENGE")>>
      BY <1>0, <2>2, ComesAndGoes, Answers, JoinedTwo
    <3> QED BY <1>0, <1>4, <2>0, <3>1 DEF Discovering
  <2> QED BY <1>4, <2>1, <2>2
<1>5. CASE goal = "PADS" /\ flags = {"PADO"} /\ Goes({<<"PADR">>})
  <2>1. /\ pppoe_tx' = <<>>
        /\ \/ pppoe_rx' = <<>>
           \/ agreed' = {} /\ \E q \in LcpAsked : pppoe_rx' = <<P!Pads(sid'), q>>
    BY <1>0, <1>5, OneGoes, Answers, Joined
  <2> QED BY <1>0, <1>5, <2>1 DEF Discovering
<1>6. CASE /\ goal = "PADS" /\ flags = {"PADO"} /\ "lcp in" \notin agreed
           /\ \/ Goes({<<"LCP_REJ">>})
              \/ \E q \in LcpAsked : Comes({<<q>>, <<P!Pads(sid), q>>})
  <2>1. CASE Goes({<<"LCP_REJ">>})
    <3>1. /\ pppoe_tx' = <<>> /\ UNCHANGED agreed
          /\ \/ pppoe_rx' = <<>>
             \/ pppoe_rx' = <<P!LcpReq(<<auth>>)>>
      BY <1>0, <2>1, OneGoes, Answers, Joined
    <3>2. P!LcpReq(<<auth>>) \in LcpAsked
      BY DEF LcpAsked
    <3> QED BY <1>0, <1>6, <3>1, <3>2 DEF Discovering
  <2>2. ASSUME NEW q \in LcpAsked, Comes({<<q>>, <<P!Pads(sid), q>>})
        PROVE  Discovering'
    <3>1. /\ pppoe_tx' = <<>> /\ UNCHANGED <<sid, agreed>>
          /\ pppoe_rx' = <<>> \/ pppoe_rx' = <<q>>
      BY <2>2, NothingGoes, Taken
    <3> QED BY <1>0, <1>6, <3>1 DEF Discovering
  <2> QED BY <1>6, <2>1, <2>2
<1>7. CASE /\ goal = "PADS" /\ "PADO" \in flags /\ "lcp in" \notin agreed
           /\ Goes({<<"LCP_ACK">>})
  <2>1. pppoe_tx' = <<>> /\ pppoe_rx' = <<>>
    BY <1>0, <1>7, OneGoes, Answers, Joined
  <2> QED BY <2>1 DEF Discovering
<1> QED BY <1>1, <1>2, <1>3, <1>4, <1>5, <1>6, <1>7 DEF Discovering

(* Of three on their way out, the first is answered, or lost. *)
LEMMA ThreeGo ==
    ASSUME Wired, NEW a, NEW b, NEW d, pppoe_rx = <<>>, pppoe_tx = <<a, b, d>>
    PROVE  /\ pppoe_tx' = <<b, d>>
           /\ P!Serve(a) \/ (pppoe_rx' = <<>> /\ UNCHANGED <<sid, agreed>>)
BY Taken DEF Wired, Answer, LossIn, LossOut

(* But for PADR the server keeps the session, and what is settled in it. *)
Kept == sid' = sid /\ agreed \subseteq agreed'

(* A request to the client is lost, or a rejection answered by another     *)
(* one.                                                                    *)
LEMMA RequestedWire ==
    ASSUME Wired, Requested
    PROVE  Kept /\ Requested'
<1>0. auth \in {"PAP", "CHAP"} /\ UNCHANGED <<auth, goal, LcpAsked>>
  BY DEF Wired, LcpAsked
<1> USE DEF Comes, Goes, Silence
<1>1. CASE Silence
  BY <1>1, NothingGoes
<1>2. ASSUME NEW q \in LcpAsked, Comes({<<q>>}), "lcp in" \notin agreed
      PROVE  Kept /\ Requested'
  BY <1>2, NothingGoes, Taken DEF Kept, Requested
<1>3. CASE "lcp in" \notin agreed /\ goal = "LCP_CR_RCV" /\ Goes({<<"ECHO">>})
  <2>1. pppoe_tx' = <<>> /\ pppoe_rx' = <<>> /\ UNCHANGED <<sid, agreed>>
    BY <1>0, <1>3, OneGoes, Answers
  <2> QED BY <1>3, <2>1 DEF Kept, Requested
<1>4. CASE "lcp in" \notin agreed /\ goal = "LCP_CR_RCV" /\ Goes({<<"LCP_REJ">>})
  <2>1. /\ pppoe_tx' = <<>> /\ UNCHANGED <<sid, agreed>>
        /\ pppoe_rx' = <<>> \/ pppoe_rx' = <<P!LcpReq(<<auth>>)>>
    BY <1>0, <1>4, OneGoes, Answers, Joined
  <2>2. P!LcpReq(<<auth>>) \in LcpAsked
    BY DEF LcpAsked
  <2> QED BY <1>0, <1>4, <2>1, <2>2 DEF Kept, Requested
<1>5. CASE /\ "lcp in" \notin agreed /\ goal = "LCP_CR_RCV"
           /\ Goes({<<"ECHO", "LCP_REJ">>})
  <2>1. pppoe_tx' = <<"LCP_REJ">> /\ pppoe_rx' = <<>> /\ UNCHANGED <<sid, agreed>>
    BY <1>0, <1>5, TwoGo, Answers
  <2> QED BY <1>0, <1>5, <2>1 DEF Kept, Requested
<1>6. ASSUME NEW q \in LcpAsked, pppoe_rx = <<q>>, pppoe_tx = <<"ECHO">>,
             "lcp in" \notin agreed, goal = "LCP_CR_RCV"
      PROVE  Kept /\ Requested'
  <2>1. /\ UNCHANGED <<sid, agreed>>
        /\ \/ pppoe_rx' = <<>> /\ pppoe_tx' = <<"ECHO">>
           \/ pppoe_rx' = <<q>> /\ pppoe_tx' = <<>>
    BY <1>0, <1>6, ComesAndGoes, Answers
  <2> QED BY <1>0, <1>6, <2>1 DEF Kept, Requested
<1> QED BY <1>1, <1>2, <1>3, <1>4, <1>5, <1>6 DEF Requested

(* The server's IPCP request is lost, or asked without the unknown option. *)
LEMMA BeginsWire ==
    ASSUME Wired, IpcpBegins
    PROVE  Kept /\ (Silence' \/ IpcpBegins')
<1>0. auth \in {"PAP", "CHAP"}
  BY DEF Wired
<1> USE DEF Comes, Goes, Silence
<1>1. CASE Comes({<<IpcpAsk>>})
  BY <1>1, NothingGoes, Taken DEF Kept
<1>2. CASE Goes({<<"IPCP_REJ">>})
  <2>1. /\ pppoe_tx' = <<>> /\ sid' = sid
        /\ \/ pppoe_rx' = <<>> /\ agreed' = agreed
           \/ pppoe_rx' = <<Plain>> /\ agreed' = agreed \cup {"plain"}
    BY <1>0, <1>2, OneGoes, Answers, Joined
  <2>2. Plain' = Plain
    BY DEF Plain, P!IpcpReq
  <2>3. agreed' = agreed \cup {"plain"} => IpcpAsk' = Plain
    BY <2>2 DEF IpcpAsk
  <2> QED BY <2>1, <2>3 DEF Kept, IpcpBegins
<1>3. CASE Goes({<<"IPCP_ACK">>})
  <2>1. /\ pppoe_tx' = <<>> /\ sid' = sid /\ pppoe_rx' = <<>>
        /\ agreed' = agreed \/ agreed' = agreed \cup {"ipcp out"}
    BY <1>0, <1>3, OneGoes, Answers
  <2> QED BY <2>1 DEF Kept
<1> QED BY <1>1, <1>2, <1>3 DEF IpcpBegins

(* Credentials are judged, a verdict or the request behind it is lost. *)
LEMMA JudgedWire ==
    ASSUME Wired, NEW CONSTANT credentials, NEW CONSTANT yes, NEW CONSTANT no,
           P!Serve(credentials) => P!Verdict(yes, no) /\ UNCHANGED sid,
           Judged(credentials, yes, no)
    PROVE  Kept /\ Judged(credentials, yes, no)'
<1>0. auth \in {"PAP", "CHAP"}
  BY DEF Wired
<1> USE DEF Comes, Goes, Silence
<1>1. CASE Silence
  BY <1>1, NothingGoes
<1>2. CASE Goes({<<credentials>>})
  <2>1. /\ pppoe_tx' = <<>>
        /\ \/ P!Verdict(yes, no) /\ UNCHANGED sid
           \/ pppoe_rx' = <<>> /\ UNCHANGED <<sid, agreed>>
    BY <1>2, OneGoes
  <2>2. \/ /\ pppoe_rx' = <<P!Only(no), P!Only("TERM_REQ")>>
           /\ agreed' = agreed
        \/ /\ pppoe_rx' = <<P!Only(yes), IpcpAsk'>>
           /\ agreed \subseteq agreed' /\ "auth" \in agreed'
        \/ pppoe_rx' = <<>> /\ UNCHANGED agreed
    BY <1>2, <2>1, Verdicts, Joined
  <2> QED BY <2>1, <2>2 DEF Kept, Judged
<1>3. CASE Goes({<<"TERM_ACK">>})
  <2>1. pppoe_tx' = <<>> /\ pppoe_rx' = <<>> /\ UNCHANGED <<sid, agreed>>
    BY <1>0, <1>3, OneGoes, Answers
  <2> QED BY <2>1 DEF Kept, Judged
<1>4. CASE Comes({<<P!Only(no), P!Only("TERM_REQ")>>, <<P!Only("TERM_REQ")>>})
  <2>1. /\ pppoe_tx' = <<>> /\ UNCHANGED <<sid, agreed>>
        /\ pppoe_rx' = <<>> \/ pppoe_rx' = <<P!Only("TERM_REQ")>>
    BY <1>4, NothingGoes, Taken
  <2> QED BY <2>1 DEF Kept, Judged
<1>5. CASE "auth" \in agreed /\ Comes({<<P!Only(yes), IpcpAsk>>})
  <2>1. pppoe_tx' = <<>> /\ UNCHANGED <<sid, agreed>> /\ pppoe_rx' = <<IpcpAsk>>
    BY <1>5, NothingGoes, Taken
  <2>2. IpcpAsk' = IpcpAsk
    BY <2>1 DEF IpcpAsk, Plain, P!IpcpReq
  <2> QED BY <1>5, <2>1, <2>2 DEF Kept, Judged, IpcpBegins
<1>6. CASE IpcpBegins
  BY <1>6, BeginsWire DEF Judged
<1> QED BY <1>1, <1>2, <1>3, <1>4, <1>5, <1>6 DEF Judged

(* The two ways to authenticate are judged alike, after a challenge or     *)
(* not.                                                                    *)
LEMMA AuthWire ==
    ASSUME Wired
    PROVE  /\ Pap => Kept /\ Pap'
           /\ Chap => Kept /\ Chap'
<1>1. P!Serve("PAP") => P!Verdict("PAP_ACK", "PAP_NAK") /\ UNCHANGED sid
  BY DEF P!Serve
<1>2. P!Serve("RESPONSE") => P!Verdict("CHAP_OK", "CHAP_FAIL") /\ UNCHANGED sid
  BY DEF P!Serve
<1>3. Challenged => Kept /\ Silence'
  BY NothingGoes, Taken DEF Challenged, Comes, Silence, Kept
<1>4. Silence' => Chap'
  BY DEF Chap, Judged
<1>5. Pap => Kept /\ Pap'
  BY <1>1, JudgedWire DEF Pap
<1>6. Judged("RESPONSE", "CHAP_OK", "CHAP_FAIL")
        => Kept /\ Judged("RESPONSE", "CHAP_OK", "CHAP_FAIL")'
  BY <1>2, JudgedWire
<1> QED BY <1>3, <1>4, <1>5, <1>6 DEF Chap

(* The client's request is acknowledged, with the challenge that follows. *)
LEMMA RequestingWire ==
    ASSUME Wired, Requesting
    PROVE  Kept /\ (Requesting' \/ Chap')
<1>0. auth \in {"PAP", "CHAP"} /\ UNCHANGED auth
  BY DEF Wired
<1> USE DEF Comes, Goes, Silence
<1>1. CASE "lcp in" \notin agreed /\ pppoe_rx = <<>>
           /\ pppoe_tx = <<"ECHO", "LCP_ACK", "LCP_REQ">>
  <2>1. /\ pppoe_tx' = <<"LCP_ACK", "LCP_REQ">> /\ pppoe_rx' = <<>>
        /\ UNCHANGED <<sid, agreed>>
    BY <1>0, <1>1, ThreeGo, Answers
  <2> QED BY <1>1, <2>1 DEF Kept, Requesting
<1>2. CASE "lcp in" \notin agreed /\ pppoe_rx = <<>>
           /\ pppoe_tx = <<"LCP_ACK", "LCP_REQ">>
  <2>1. /\ pppoe_tx' = <<"LCP_REQ">> /\ pppoe_rx' = <<>> /\ Kept
    BY <1>0, <1>2, TwoGo, Answers, Joined DEF Kept
  <2> QED BY <2>1 DEF Requesting
<1>3. CASE Goes({<<"LCP_REQ">>})
  <2>1. /\ pppoe_tx' = <<>> /\ Kept
        /\ \/ pppoe_rx' = <<>>
           \/ pppoe_rx' = <<P!Only("LCP_ACK")>>
           \/ auth = "CHAP" /\ pppoe_rx' = <<P!Only("LCP_ACK"), P!Only("CHALLENGE")>>
    BY <1>0, <1>3, OneGoes, Answers, Joined DEF Kept
  <2> QED BY <1>0, <2>1 DEF Requesting, Chap, Judged
<1>4. CASE Comes({<<P!Only("LCP_ACK")>>})
  BY <1>4, NothingGoes, Taken DEF Kept, Chap, Judged
<1>5. CASE auth = "CHAP" /\ Comes({<<P!Only("LCP_ACK"), P!Only("CHALLENGE")>>})
  BY <1>0, <1>5, NothingGoes, Taken DEF Kept, Chap, Challenged
<1> QED BY <1>1, <1>2, <1>3, <1>4, <1>5 DEF Requesting

(* A NAK, or the acknowledgement of the address, is always the last to     *)
(* come.                                                                   *)
LEMMA AssignedWire ==
    ASSUME Wired, Assigned
    PROVE  Kept /\ Assigned'
<1>0. auth \in {"PAP", "CHAP"} /\ pppoe_ip' = pppoe_ip /\ Plain' = Plain
  BY DEF Wired, Plain, P!IpcpReq
<1> USE DEF Comes, Goes, Silence
<1>1. CASE Silence
  BY <1>1, NothingGoes
<1>2. CASE Goes({<<"IPCP_ACK">>})
  <2>1. pppoe_tx' = <<>> /\ pppoe_rx' = <<>> /\ Kept
    BY <1>0, <1>2, OneGoes, Answers DEF Kept
  <2> QED BY <2>1 DEF Assigned
<1>3. CASE Goes({<<"IPCP_REQ any">>})
  <2>1. /\ pppoe_tx' = <<>> /\ Kept
        /\ pppoe_rx' = <<>> \/ pppoe_rx' = <<P!Only("IPCP_NAK")>>
    BY <1>0, <1>3, OneGoes, Answers, Joined DEF Kept
  <2> QED BY <2>1 DEF Assigned
<1>4. CASE Goes({<<"IPCP_ACK", "IPCP_REQ any">>})
  <2>1. pppoe_tx' = <<"IPCP_REQ any">> /\ pppoe_rx' = <<>> /\ Kept
    BY <1>0, <1>4, TwoGo, Answers DEF Kept
  <2> QED BY <2>1 DEF Assigned
<1>5. CASE Goes({<<"IPCP_REQ any", "IPCP_ACK">>})
  <2>1. /\ pppoe_tx' = <<"IPCP_ACK">> /\ Kept
        /\ pppoe_rx' = <<>> \/ pppoe_rx' = <<P!Only("IPCP_NAK")>>
    BY <1>0, <1>5, TwoGo, Answers, Joined DEF Kept
  <2> QED BY <2>1 DEF Assigned
<1>6. CASE pppoe_tx = <<>> /\ pppoe_rx \in {<<Plain>>, <<P!Only("IPCP_NAK")>>,
                                            <<P!Only("IPCP_ACK")>>}
  BY <1>6, NothingGoes, Taken DEF Kept, Assigned
<1>7. CASE pppoe_rx = <<Plain>> /\ pppoe_tx = <<"IPCP_REQ any">>
  <2>1. /\ Kept
        /\ \/ pppoe_rx' = <<>> /\ pppoe_tx' = <<"IPCP_REQ any">>
           \/ /\ pppoe_tx' = <<>>
              /\ \/ pppoe_rx' = <<Plain, P!Only("IPCP_NAK")>>
                 \/ pppoe_rx' = <<Plain>>
    BY <1>0, <1>7, ComesAndGoes, Answers, JoinedTwo DEF Kept
  <2> QED BY <1>0, <2>1 DEF Assigned
<1>8. CASE Comes({<<Plain, P!Only("IPCP_NAK")>>})
  BY <1>8, NothingGoes, Taken DEF Kept, Assigned
<1>9. CASE pppoe_rx = <<P!Only("IPCP_NAK")>> /\ pppoe_tx = <<"IPCP_ACK">>
  <2>1. /\ Kept
        /\ \/ pppoe_rx' = <<>> /\ pppoe_tx' = <<"IPCP_ACK">>
           \/ pppoe_rx' = <<P!Only("IPCP_NAK")>> /\ pppoe_tx' = <<>>
    BY <1>0, <1>9, ComesAndGoes, Answers DEF Kept
  <2> QED BY <2>1 DEF Assigned
<1>10. CASE pppoe_ip = "client" /\ Goes({<<"IPCP_REQ client">>})
  <2>1. /\ pppoe_tx' = <<>> /\ Kept
        /\ \/ pppoe_rx' = <<>>
           \/ pppoe_rx' = <<P!Only("IPCP_ACK")>> /\ "address" \in agreed'
    BY <1>0, <1>10, OneGoes, Answers, Joined DEF Kept
  <2> QED BY <1>0, <1>10, <2>1 DEF Assigned
<1>11. CASE pppoe_ip = "client" /\ Goes({<<"IPCP_ACK", "IPCP_REQ client">>})
  <2>1. pppoe_tx' = <<"IPCP_REQ client">> /\ pppoe_rx' = <<>> /\ Kept
    BY <1>0, <1>11, TwoGo, Answers DEF Kept
  <2> QED BY <1>0, <1>11, <2>1 DEF Assigned
<1> QED BY <1>1, <1>2, <1>3, <1>4, <1>5, <1>6, <1>7, <1>8, <1>9, <1>10, <1>11
    DEF Assigned

(* However the wire is left, the negotiation can go on from there. *)
LEMMA WireKeeps ==
    ASSUME Wired, Negotiating, Settled, Reported
    PROVE  Negotiating' /\ Settled' /\ Reported'
<1>0. /\ UNCHANGED <<auth, pppoe_state, flags, send_count, goal, auth_protocol,
                     pppoe_ip, NAS_sessionid, regs, result>>
      /\ auth \in {"PAP", "CHAP"}
  BY DEF Wired
<1>1. CASE pppoe_state = "DISCOVERY"
  <2>1. InDiscovery'
    BY <1>0, <1>1, DiscoveryWire DEF Negotiating, InDiscovery
  <2> QED BY <1>0, <1>1, <2>1 DEF Negotiating, Settled, Reported, InDiscovery
<1>2. Silence => FALSE
  BY NothingGoes DEF Silence
<1>3. Challenged => Kept /\ Silence'
  BY NothingGoes, Taken DEF Challenged, Comes, Silence, Kept
<1>4. CASE pppoe_state = "LCP"
  <2>1. CASE "LCP_CR_RCV" \notin flags
    <3>1. Requested
      BY <1>4, <2>1 DEF Negotiating, InLcp
    <3>2. Kept /\ InLcp'
      BY <1>0, <1>4, <2>1, <3>1, RequestedWire DEF Negotiating, InLcp
    <3> QED BY <1>0, <1>4, <3>2 DEF Negotiating, Settled, Reported, Kept
  <2>2. CASE "LCP_CR_RCV" \in flags /\ goal = "LCP_CR_RCV"
    <3>1. "lcp in" \notin agreed /\ Goes({<<"LCP_ACK">>, <<"ECHO", "LCP_ACK">>})
      BY <1>2, <1>4, <2>2 DEF Negotiating, InLcp
    <3>2. CASE Goes({<<"LCP_ACK">>})
      <4>1. Kept /\ Silence'
        BY <1>0, <3>1, <3>2, OneGoes, Answers, Joined DEF Goes, Silence, Kept
      <4>2. InLcp'
        BY <1>0, <1>4, <2>2, <4>1 DEF Negotiating, InLcp
      <4> QED BY <1>0, <1>4, <4>1, <4>2 DEF Negotiating, Settled, Reported, Kept
    <3>3. CASE Goes({<<"ECHO", "LCP_ACK">>})
      <4>1. Kept /\ agreed' = agreed /\ Goes({<<"LCP_ACK">>})'
        BY <1>0, <3>3, TwoGo, Answers DEF Goes, Kept
      <4>2. InLcp'
        BY <1>0, <1>4, <2>2, <3>1, <4>1 DEF Negotiating, InLcp, Goes
      <4> QED BY <1>0, <1>4, <4>1, <4>2 DEF Negotiating, Settled, Reported, Kept
    <3> QED BY <3>1, <3>2, <3>3 DEF Goes
  <2>3. CASE "LCP_CR_RCV" \in flags /\ goal # "LCP_CR_RCV"
    <3>1. goal = "LCP_CR_SNT" /\ (Requesting \/ Chap)
      BY <1>2, <1>4, <2>3 DEF Negotiating, InLcp
    <3>2. Kept /\ (Requesting' \/ Chap')
      BY <3>1, RequestingWire, AuthWire
    <3>3. InLcp'
      BY <1>0, <1>4, <2>3, <3>1, <3>2 DEF Negotiating, InLcp
    <3> QED BY <1>0, <1>4, <3>2, <3>3 DEF Negotiating, Settled, Reported, Kept
  <2> QED BY <2>1, <2>2, <2>3
<1>5. CASE pppoe_state = "PAP"
  <2>1. goal = "PAP_ACK" /\ Pap
    BY <1>2, <1>5 DEF Negotiating, InPap
  <2>2. Kept /\ InPap'
    BY <1>0, <1>5, <2>1, AuthWire DEF Negotiating, InPap
  <2> QED BY <1>0, <1>5, <2>2 DEF Negotiating, Settled, Reported, Kept
<1>6. CASE pppoe_state = "CHAP"
  <2>1. Kept /\ InChap'
    BY <1>0, <1>2, <1>3, <1>6, AuthWire DEF Negotiating, InChap
  <2> QED BY <1>0, <1>6, <2>1 DEF Negotiating, Settled, Reported, Kept
<1>7. CASE pppoe_state = "IPCP"
  <2>0. InIpcp /\ result # "success"
    BY <1>2, <1>7 DEF Negotiating, Reported
  <2>1. Kept /\ InIpcp'
    <3>1. CASE goal = "IPCP_CR_SNT"
      BY <1>0, <2>0, <3>1, AssignedWire DEF InIpcp, Kept
    <3>2. CASE goal = "IPCP_CR_RCV" /\ "IPCP_CR_RCV" \notin flags
      BY <1>0, <1>2, <2>0, <3>2, BeginsWire DEF InIpcp, Kept
    <3>3. CASE goal = "IPCP_CR_RCV" /\ "IPCP_CR_RCV" \in flags
      <4>1. Comes({<<Plain>>}) => Kept /\ Silence'
        BY NothingGoes, Taken DEF Comes, Silence, Kept
      <4>2. Goes({<<"IPCP_ACK">>}) => Kept /\ Silence'
        BY <1>0, OneGoes, Answers DEF Goes, Silence, Kept
      <4> QED BY <1>0, <1>2, <2>0, <3>3, <4>1, <4>2 DEF InIpcp, Kept
    <3>4. CASE goal \notin {"IPCP_CR_SNT", "IPCP_CR_RCV"}
      <4>1. Comes({<<IpcpAsk>>}) => Kept /\ Silence'
        BY NothingGoes, Taken DEF Comes, Silence, Kept
      <4> QED BY <1>0, <1>2, <2>0, <3>4, <4>1 DEF InIpcp, Kept
    <3> QED BY <3>1, <3>2, <3>3, <3>4
  <2> QED BY <1>0, <1>7, <2>0, <2>1 DEF Negotiating, Settled, Reported, Kept
<1>8. CASE pppoe_state = "FAILED"
  <2>1. Kept /\ Silence'
    BY <1>2, <1>8, NothingGoes, Taken DEF Negotiating, Comes, Silence, Kept
  <2> QED BY <1>0, <1>8, <2>1 DEF Negotiating, Settled, Reported, Kept
<1> QED BY <1>1, <1>4, <1>5, <1>6, <1>7, <1>8 DEF Negotiating

-----------------------------------------------------------------------------
(* What the client does with each frame (ppp_recv()) *)

(* The protocol taken from a request is the one asked for, or the MRU. *)
LEMMA Protocols ==
    ASSUME auth \in {"PAP", "CHAP"}, NEW q \in LcpAsked
    PROVE  P!AuthProtocol(q.options) \in {"MRU", auth}
<1> DEFINE o == q.options
           named == {i \in DOMAIN o : o[i] \in {"MRU", "PAP", "CHAP"}}
<1>1. /\ DOMAIN o \in {1 .. 1, 1 .. 2}
      /\ \A i \in DOMAIN o : o[i] \in {"MRU", auth, "other"}
      /\ \E i \in DOMAIN o : o[i] = auth
  BY DEF LcpAsked, P!LcpReq
<1>2. \E i \in named : \A j \in named : j <= i
  <2>1. named \subseteq 1 .. 2 /\ named # {}
    BY <1>1
  <2>2. CASE 2 \in named
    BY <2>1, <2>2
  <2>3. CASE 2 \notin named
    <3>1. named = {1}
      BY <2>1, <2>3
    <3> QED BY <3>1
  <2> QED BY <2>2, <2>3
<1>3. (CHOOSE i \in named : \A j \in named : j <= i) \in named
  BY <1>2
<1>4. P!AuthProtocol(o) = o[CHOOSE i \in named : \A j \in named : j <= i]
  BY DEF P!AuthProtocol
<1> QED BY <1>1, <1>3, <1>4

(* PADO and PADS. *)
LEMMA HearsDiscovery ==
    ASSUME NEW f, P!PppRecv(f)
    PROVE
    /\ f.is = "PADO" =>
         /\ pppoe_tx' = Append(pppoe_tx, "PADR") /\ flags' = flags \cup {"PADO"}
         /\ UNCHANGED <<auth_protocol, pppoe_ip, NAS_sessionid>>
    /\ f.is = "PADS" =>
         /\ pppoe_tx' = pppoe_tx /\ flags' = flags \cup {"PADS"}
         /\ NAS_sessionid' = f.sid /\ UNCHANGED <<auth_protocol, pppoe_ip>>
BY DEF P!PppRecv, P!RecvDiscovery, P!RecvLcp, P!RecvTerm, P!RecvAuth,
   P!RecvIpcp, P!Reply, P!NoReply, P!Raise, P!learned

(* The server's LCP request and its acknowledgement of the client's. *)
LEMMA HearsLcp ==
    ASSUME NEW f, P!PppRecv(f), auth \in {"PAP", "CHAP"}
    PROVE
    /\ f \in LcpAsked =>
         /\ auth_protocol' \in {"MRU", auth} /\ UNCHANGED <<pppoe_ip, NAS_sessionid>>
         /\ \/ /\ pppoe_tx' = Append(pppoe_tx, "LCP_ACK")
               /\ flags' = flags \cup {"LCP_CR_RCV"}
            \/ /\ pppoe_tx' = Append(pppoe_tx, "LCP_REJ")
               /\ flags' = flags
    /\ f.is = "LCP_ACK" =>
         /\ pppoe_tx' = pppoe_tx /\ flags' = flags \cup {"LCP_CR_SNT"}
         /\ UNCHANGED <<auth_protocol, pppoe_ip, NAS_sessionid>>
<1>1. f \in LcpAsked => f.is = "LCP_REQ"
  BY DEF LcpAsked, P!LcpReq
<1>2. f.is = "LCP_REQ" =>
         /\ auth_protocol' = P!AuthProtocol(f.options)
         /\ UNCHANGED <<pppoe_ip, NAS_sessionid>>
         /\ \/ /\ pppoe_tx' = Append(pppoe_tx, "LCP_ACK")
               /\ flags' = flags \cup {"LCP_CR_RCV"}
            \/ /\ pppoe_tx' = Append(pppoe_tx, "LCP_REJ")
               /\ flags' = flags
  BY DEF P!PppRecv, P!RecvDiscovery, P!RecvLcp, P!RecvTerm, P!RecvAuth,
     P!RecvIpcp, P!Reply, P!Raise
<1>3. f.is = "LCP_ACK" =>
         /\ pppoe_tx' = pppoe_tx /\ flags' = flags \cup {"LCP_CR_SNT"}
         /\ UNCHANGED <<auth_protocol, pppoe_ip, NAS_sessionid>>
  BY DEF P!PppRecv, P!RecvDiscovery, P!RecvLcp, P!RecvTerm, P!RecvAuth,
     P!RecvIpcp, P!NoReply, P!Raise, P!learned
<1> QED BY <1>1, <1>2, <1>3, Protocols

(* Verdicts, a challenge and the end of a refused session. *)
LEMMA HearsAuth ==
    ASSUME NEW f, P!PppRecv(f),
           f.is \in {"TERM_REQ", "PAP_ACK", "PAP_NAK", "CHALLENGE", "CHAP_OK",
                     "CHAP_FAIL"}
    PROVE
    /\ UNCHANGED <<auth_protocol, pppoe_ip, NAS_sessionid>>
    /\ f.is = "TERM_REQ" =>
         pppoe_tx' = Append(pppoe_tx, "TERM_ACK") /\ flags' = flags
    /\ f.is = "PAP_ACK" =>
         pppoe_tx' = pppoe_tx /\ flags' = flags \cup {"PAP_ACK"}
    /\ f.is \in {"PAP_NAK", "CHAP_FAIL"} => UNCHANGED <<pppoe_tx, flags>>
    /\ f.is = "CHALLENGE" =>
         /\ flags' = flags
         /\ pppoe_tx' = IF auth_protocol = "CHAP" THEN Append(pppoe_tx, "RESPONSE")
                        ELSE pppoe_tx
    /\ f.is = "CHAP_OK" =>
         /\ pppoe_tx' = pppoe_tx
         /\ flags' = flags \/ flags' = flags \cup {"CHAP_SUC"}
BY DEF P!PppRecv, P!RecvDiscovery, P!RecvLcp, P!RecvTerm, P!RecvAuth,
   P!RecvIpcp, P!Reply, P!NoReply, P!Raise, P!learned

(* The server's IPCP request, a NAK with the client's address, and its     *)
(* end.                                                                    *)
LEMMA HearsIpcp ==
    ASSUME NEW f, P!PppRecv(f)
    PROVE
    /\ f = Plain =>
         /\ pppoe_tx' = Append(pppoe_tx, "IPCP_ACK")
         /\ flags' = flags \cup {"IPCP_CR_RCV"}
         /\ UNCHANGED <<auth_protocol, NAS_sessionid>>
    /\ f = P!IpcpReq(<<"address", "other">>) =>
         /\ pppoe_tx' = Append(pppoe_tx, "IPCP_REJ") /\ flags' = flags
         /\ UNCHANGED <<auth_protocol, NAS_sessionid>>
    /\ f.is = "IPCP_NAK" =>
         /\ pppoe_tx' = Append(pppoe_tx, "IPCP_REQ client")
         /\ flags' = flags \cup {"IPCP_NAK_RCV"} /\ pppoe_ip' = "client"
         /\ UNCHANGED <<auth_protocol, NAS_sessionid>>
    /\ f.is = "IPCP_ACK" =>
         /\ pppoe_tx' = pppoe_tx
         /\ flags' = flags \/ flags' = flags \cup {"IPCP_CR_SNT"}
         /\ UNCHANGED <<auth_protocol, pppoe_ip, NAS_sessionid>>
<1>1. f = Plain => f.is = "IPCP_REQ" /\ P!Known(f.options, {"address"})
  BY DEF Plain, P!IpcpReq, P!Known
<1>2. f = P!IpcpReq(<<"address", "other">>)
        => f.is = "IPCP_REQ" /\ ~P!Known(f.options, {"address"})
  BY DEF P!IpcpReq, P!Known
<1>3. f.is = "IPCP_REQ" =>
        /\ UNCHANGED <<auth_protocol, NAS_sessionid>>
        /\ IF P!Known(f.options, {"address"})
           THEN /\ pppoe_tx' = Append(pppoe_tx, "IPCP_ACK")
                /\ flags' = flags \cup {"IPCP_CR_RCV"}
           ELSE pppoe_tx' = Append(pppoe_tx, "IPCP_REJ") /\ flags' = flags
  BY DEF P!PppRecv, P!RecvDiscovery, P!RecvLcp, P!RecvTerm, P!RecvAuth,
     P!RecvIpcp, P!Reply, P!Raise
<1>4. f.is = "IPCP_NAK" =>
         /\ pppoe_tx' = Append(pppoe_tx, "IPCP_REQ client")
         /\ flags' = flags \cup {"IPCP_NAK_RCV"} /\ pppoe_ip' = "client"
         /\ UNCHANGED <<auth_protocol, NAS_sessionid>>
  BY DEF P!PppRecv, P!RecvDiscovery, P!RecvLcp, P!RecvTerm, P!RecvAuth,
     P!RecvIpcp, P!Reply, P!Raise, P!AddressOf
<1>5. f.is = "IPCP_ACK" =>
         /\ pppoe_tx' = pppoe_tx
         /\ flags' = flags \/ flags' = flags \cup {"IPCP_CR_SNT"}
         /\ UNCHANGED <<auth_protocol, pppoe_ip, NAS_sessionid>>
  BY DEF P!PppRecv, P!RecvDiscovery, P!RecvLcp, P!RecvTerm, P!RecvAuth,
     P!RecvIpcp, P!NoReply, P!Raise, P!learned
<1> QED BY <1>1, <1>2, <1>3, <1>4, <1>5

(* A frame that the call in progress has polled. *)
Heard(f) ==
    /\ goal \notin flags \cup {"none"} /\ P!PppRecv(f)
    /\ IF goal \in flags' THEN P!Reached
       ELSE UNCHANGED <<pppoe_state, send_count, regs, result>>
    /\ UNCHANGED <<auth, sid, agreed, goal>>

(* A poll hears the first frame that comes in. *)
LEMMA PollSteps ==
    ASSUME P!Poll
    PROVE  /\ goal \notin flags \cup {"none"} /\ ~Silence
           /\ \A a : pppoe_rx = <<a>> => Heard(a) /\ pppoe_rx' = <<>>
           /\ \A a, b : pppoe_rx = <<a, b>> => Heard(a) /\ pppoe_rx' = <<b>>
<1>1. /\ pppoe_rx # <<>> /\ pppoe_rx' = Tail(pppoe_rx) /\ Heard(Head(pppoe_rx))
      /\ goal \notin flags \cup {"none"}
  BY DEF P!Poll, Heard, P!env, P!server, P!outcome
<1>2. \A a : pppoe_rx = <<a>> => Head(pppoe_rx) = a /\ Tail(pppoe_rx) = <<>>
  BY Taken
<1>3. \A a, b : pppoe_rx = <<a, b>> => Head(pppoe_rx) = a /\ Tail(pppoe_rx) = <<b>>
  BY Taken
<1> QED BY <1>1, <1>2, <1>3 DEF Silence

(* Frames are what they are called. *)
LEMMA FrameNames ==
    /\ \A name : P!Only(name).is = name
    /\ \A m : P!Pads(m).is = "PADS" /\ P!Pads(m).sid = m
BY DEF P!Only, P!Pads

(* Where the call goes when it has what it waits for *)
LEMMA Reaches ==
    ASSUME NEW f, Heard(f)
    PROVE
    /\ goal \notin flags' => UNCHANGED <<pppoe_state, send_count, regs, result>>
    /\ goal \in flags' /\ goal # "IPCP_CR_SNT" => UNCHANGED <<regs, result>>
    /\ goal \in flags' /\ goal = "PADS" => pppoe_state' = "LCP" /\ send_count' = 0
    /\ goal \in flags' /\ goal \in {"LCP_CR_RCV", "IPCP_CR_RCV"} =>
         pppoe_state' = pppoe_state /\ send_count' = 0
    /\ goal \in flags' /\ goal = "LCP_CR_SNT" =>
         IF auth_protocol \in {"PAP", "CHAP"}
         THEN pppoe_state' = auth_protocol /\ send_count' = 0
         ELSE pppoe_state' = "FAILED" /\ send_count' = send_count
    /\ goal \in flags' /\ goal = "PAP_ACK" => pppoe_state' = "IPCP" /\ send_count' = 0
    /\ goal \in flags' /\ goal = "CHAP_SUC" =>
         pppoe_state' = "IPCP" /\ send_count' = send_count
    /\ goal \in flags' /\ goal = "IPCP_CR_SNT" =>
         /\ pppoe_state' = pppoe_state /\ send_count' = 0 /\ result' = "success"
         /\ regs'.ip = pppoe_ip /\ regs'.sid = NAS_sessionid
BY DEF Heard, P!Reached, P!ReachedPads, P!ReachedLcp, P!ReachedAuth,
   P!ReachedPap, P!ReachedChap, P!ReachedIpcp, P!ReachedEnd, P!Moves,
   P!set_pppinfo, P!outcome

(* PADO is answered; PADS opens the session, in which LCP goes on with the  *)
(* request that comes behind it, if that is not lost.                      *)
LEMMA PollDiscovery ==
    ASSUME P!Poll, pppoe_state = "DISCOVERY", Negotiating, Settled, Reported
    PROVE  Negotiating' /\ Settled' /\ Reported'
<1>0. /\ InDiscovery /\ goal = "PADS" /\ auth \in {"PAP", "CHAP"}
      /\ result # "success" /\ ~Silence
  BY PollSteps DEF Negotiating, InDiscovery, Settled, Reported
<1> USE DEF Comes, Goes, Silence
<1>1. ASSUME Outdated,
             \/ Comes({<<P!Only("CHALLENGE")>>, <<P!Only("CHALLENGE"), P!Only("PADO")>>})
             \/ pppoe_rx = <<P!Only("CHALLENGE")>> /\ pppoe_tx = <<"PADI">>
      PROVE  Negotiating' /\ Settled' /\ Reported'
  <2>1. /\ Heard(P!Only("CHALLENGE"))
        /\ pppoe_rx' = <<>> \/ (pppoe_rx' = <<P!Only("PADO")>> /\ pppoe_tx = <<>>)
    BY <1>1, PollSteps
  <2>2. /\ UNCHANGED <<auth, sid, agreed, goal, flags, pppoe_tx, auth_protocol,
                       pppoe_ip, NAS_sessionid>>
        /\ goal \notin flags
    BY <1>1, <2>1, HearsAuth, FrameNames DEF Heard, Outdated
  <2>3. UNCHANGED <<pppoe_state, send_count, regs, result>>
    BY <2>1, <2>2, Reaches
  <2>4. Discovering'
    BY <1>0, <1>1, <2>1, <2>2 DEF Discovering, Outdated
  <2> QED BY <1>0, <2>2, <2>3, <2>4 DEF Negotiating, Settled, Reported, InDiscovery
<1>2. CASE "PADO" \notin flags /\ Comes({<<P!Only("PADO")>>})
  <2>1. Heard(P!Only("PADO")) /\ pppoe_rx' = <<>>
    BY <1>2, PollSteps
  <2>2. /\ UNCHANGED <<auth, sid, agreed, goal, auth_protocol, pppoe_ip, NAS_sessionid>>
        /\ pppoe_tx' = <<"PADR">> /\ flags' = {"PADO"}
    BY <1>0, <1>2, <2>1, HearsDiscovery, FrameNames, SentOne DEF Heard, InDiscovery
  <2>3. UNCHANGED <<pppoe_state, send_count, regs, result>>
    BY <1>0, <2>1, <2>2, Reaches
  <2> QED BY <1>0, <2>1, <2>2, <2>3
      DEF Negotiating, Settled, Reported, InDiscovery, Discovering
<1>3. ASSUME NEW q \in LcpAsked, Comes({<<q>>}), flags = {"PADO"},
             "lcp in" \notin agreed
      PROVE  Negotiating' /\ Settled' /\ Reported'
  <2>1. Heard(q) /\ pppoe_rx' = <<>>
    BY <1>3, PollSteps
  <2>2. /\ UNCHANGED <<auth, sid, agreed, goal, pppoe_ip, NAS_sessionid>>
        /\ auth_protocol' \in {"MRU", auth}
        /\ \/ pppoe_tx' = <<"LCP_ACK">> /\ flags' = {"PADO", "LCP_CR_RCV"}
           \/ pppoe_tx' = <<"LCP_REJ">> /\ flags' = {"PADO"}
    BY <1>0, <1>3, <2>1, HearsLcp, SentOne DEF Heard
  <2>3. UNCHANGED <<pppoe_state, send_count, regs, result>>
    BY <1>0, <2>1, <2>2, Reaches
  <2>4. Discovering'
    BY <1>0, <1>3, <2>1, <2>2 DEF Discovering
  <2> QED BY <1>0, <2>2, <2>3, <2>4 DEF Negotiating, Settled, Reported, InDiscovery
<1>4. ASSUME NEW q \in LcpAsked, Comes({<<P!Pads(sid), q>>}), flags = {"PADO"},
             "lcp in" \notin agreed
      PROVE  Negotiating' /\ Settled' /\ Reported'
  <2>1. Heard(P!Pads(sid)) /\ pppoe_rx' = <<q>>
    BY <1>4, PollSteps
  <2>2. /\ UNCHANGED <<auth, sid, agreed, goal, pppoe_ip, auth_protocol>>
        /\ NAS_sessionid' = sid
        /\ pppoe_tx' = <<>> /\ flags' = {"PADO", "PADS"}
    <3>1. P!Pads(sid).is = "PADS" /\ P!Pads(sid).sid = sid
      BY FrameNames
    <3>2. P!PppRecv(P!Pads(sid)) /\ UNCHANGED <<auth, sid, agreed, goal>>
      BY <2>1 DEF Heard
    <3> QED BY <1>4, <3>1, <3>2, HearsDiscovery
  <2>3. pppoe_state' = "LCP" /\ send_count' = 0 /\ UNCHANGED <<regs, result>>
    BY <1>0, <2>1, <2>2, Reaches
  <2>4. LcpAsked' = LcpAsked
    BY <2>2 DEF LcpAsked
  <2>5. Requested'
    BY <1>4, <2>1, <2>2, <2>4 DEF Requested
  <2>6. InLcp'
    BY <1>0, <2>2, <2>5 DEF InLcp
  <2> QED BY <1>0, <2>2, <2>3, <2>6 DEF Negotiating, Settled, Reported
<1>5. pppoe_rx # <<>>
  BY DEF P!Poll
<1> QED BY <1>0, <1>1, <1>2, <1>3, <1>4, <1>5 DEF InDiscovery, Discovering

(* The server's IPCP request is acknowledged, or rejected. *)
LEMMA PollBegins ==
    ASSUME P!Poll, IpcpBegins
    PROVE  /\ \E f : Heard(f)
           /\ UNCHANGED <<auth, sid, agreed, goal, auth_protocol, NAS_sessionid>>
           /\ IpcpBegins'
           /\ \/ flags' = flags
              \/ /\ flags' = flags \cup {"IPCP_CR_RCV"} /\ "plain" \in agreed
                 /\ Goes({<<"IPCP_ACK">>})'
<1> USE DEF Comes, Goes, Silence
<1>1. pppoe_rx # <<>>
  BY DEF P!Poll
<1>2. "auth" \in agreed /\ Comes({<<IpcpAsk>>})
  BY <1>1 DEF IpcpBegins
<1>3. Heard(IpcpAsk) /\ pppoe_rx' = <<>>
  BY <1>2, PollSteps
<1>4. P!PppRecv(IpcpAsk) /\ UNCHANGED <<auth, sid, agreed, goal>>
  BY <1>3 DEF Heard
<1>5. CASE "plain" \in agreed
  <2>1. IpcpAsk = Plain
    BY <1>5 DEF IpcpAsk
  <2>2. /\ pppoe_tx' = <<"IPCP_ACK">> /\ flags' = flags \cup {"IPCP_CR_RCV"}
        /\ UNCHANGED <<auth_protocol, NAS_sessionid>>
    BY <1>2, <1>4, <2>1, HearsIpcp, SentOne
  <2> QED BY <1>2, <1>3, <1>4, <1>5, <2>2 DEF IpcpBegins
<1>6. CASE "plain" \notin agreed
  <2>1. IpcpAsk = P!IpcpReq(<<"address", "other">>)
    BY <1>6 DEF IpcpAsk
  <2>2. /\ pppoe_tx' = <<"IPCP_REJ">> /\ flags' = flags
        /\ UNCHANGED <<auth_protocol, NAS_sessionid>>
    BY <1>2, <1>4, <2>1, HearsIpcp, SentOne
  <2> QED BY <1>2, <1>3, <1>4, <2>2 DEF IpcpBegins
<1> QED BY <1>5, <1>6

(* A verdict is taken, a refusal acknowledged. *)
LEMMA PollJudged ==
    ASSUME P!Poll, NEW CONSTANT credentials,
           NEW CONSTANT yes, NEW CONSTANT no, NEW CONSTANT raised,
           \/ yes = "PAP_ACK" /\ no = "PAP_NAK" /\ raised = "PAP_ACK"
           \/ yes = "CHAP_OK" /\ no = "CHAP_FAIL" /\ raised = "CHAP_SUC",
           Judged(credentials, yes, no)
    PROVE  /\ \E f : Heard(f)
           /\ UNCHANGED <<auth, sid, agreed, goal, auth_protocol, NAS_sessionid>>
           /\ Judged(credentials, yes, no)'
           /\ \/ flags' = flags
              \/ /\ flags' = flags \cup {"IPCP_CR_RCV"}
                 /\ {"auth", "plain"} \subseteq agreed
              \/ /\ flags' = flags \cup {raised} /\ "auth" \in agreed
                 /\ Comes({<<IpcpAsk>>})'
<1> USE DEF Comes, Goes, Silence
<1>1. pppoe_rx # <<>>
  BY DEF P!Poll
<1>2. CASE Comes({<<P!Only(no), P!Only("TERM_REQ")>>})
  <2>1. Heard(P!Only(no)) /\ pppoe_rx' = <<P!Only("TERM_REQ")>>
    BY <1>2, PollSteps
  <2>2. /\ UNCHANGED <<auth, sid, agreed, goal, auth_protocol, NAS_sessionid>>
        /\ UNCHANGED <<flags, pppoe_tx>>
    BY <2>1, HearsAuth, FrameNames DEF Heard
  <2> QED BY <1>2, <2>1, <2>2 DEF Judged
<1>3. CASE Comes({<<P!Only("TERM_REQ")>>})
  <2>1. Heard(P!Only("TERM_REQ")) /\ pppoe_rx' = <<>>
    BY <1>3, PollSteps
  <2>2. /\ UNCHANGED <<auth, sid, agreed, goal, auth_protocol, NAS_sessionid>>
        /\ flags' = flags /\ pppoe_tx' = <<"TERM_ACK">>
    BY <1>3, <2>1, HearsAuth, FrameNames, SentOne DEF Heard
  <2> QED BY <2>1, <2>2 DEF Judged
<1>4. CASE "auth" \in agreed /\ Comes({<<P!Only(yes), IpcpAsk>>})
  <2>1. Heard(P!Only(yes)) /\ pppoe_rx' = <<IpcpAsk>>
    BY <1>4, PollSteps
  <2>2. /\ UNCHANGED <<auth, sid, agreed, goal, auth_protocol, NAS_sessionid>>
        /\ pppoe_tx' = pppoe_tx
        /\ flags' = flags \/ flags' = flags \cup {raised}
    BY <2>1, HearsAuth, FrameNames DEF Heard
  <2>3. IpcpAsk' = IpcpAsk
    BY <2>2 DEF IpcpAsk, Plain, P!IpcpReq
  <2> QED BY <1>4, <2>1, <2>2, <2>3 DEF Judged, IpcpBegins
<1>5. CASE IpcpBegins
  BY <1>5, PollBegins DEF Judged, IpcpBegins
<1> QED BY <1>1, <1>2, <1>3, <1>4, <1>5 DEF Judged

(* As long as the server's LCP request is not acknowledged, the call waits  *)
(* for it.                                                                 *)
LEMMA PollRequested ==
    ASSUME P!Poll, pppoe_state = "LCP", "LCP_CR_RCV" \notin flags,
           Negotiating, Settled, Reported
    PROVE  Negotiating' /\ Settled' /\ Reported'
<1> USE DEF Comes, Goes, Silence
<1>1. /\ goal = "LCP_CR_RCV" /\ Requested /\ InLcp /\ "IPCP_CR_RCV" \notin flags
      /\ auth \in {"PAP", "CHAP"} /\ result # "success" /\ "IPCP_CR_SNT" \notin flags
  BY PollSteps DEF Negotiating, InLcp, Settled, Reported
<1>2. pppoe_rx # <<>>
  BY DEF P!Poll
<1>3. PICK q \in LcpAsked : pppoe_rx = <<q>> /\ pppoe_tx \in {<<>>, <<"ECHO">>}
  BY <1>1, <1>2 DEF Requested
<1>4. Heard(q) /\ pppoe_rx' = <<>>
  BY <1>3, PollSteps
<1>5. /\ UNCHANGED <<auth, sid, agreed, goal, pppoe_ip, NAS_sessionid>>
      /\ auth_protocol' \in {"MRU", auth} /\ "lcp in" \notin agreed
      /\ \/ /\ pppoe_tx' \in {<<"LCP_ACK">>, <<"ECHO", "LCP_ACK">>}
            /\ flags' = flags \cup {"LCP_CR_RCV"}
         \/ /\ pppoe_tx' \in {<<"LCP_REJ">>, <<"ECHO", "LCP_REJ">>}
            /\ flags' = flags
  BY <1>1, <1>3, <1>4, HearsLcp, SentOne, SentTwo DEF Heard, Requested
<1>6. /\ pppoe_state' = pppoe_state /\ UNCHANGED <<regs, result>>
      /\ send_count' = send_count \/ send_count' = 0
  BY <1>1, <1>4, <1>5, Reaches
<1>7. InLcp'
  <2>1. CASE flags' = flags \cup {"LCP_CR_RCV"}
    <3>1. pppoe_tx' \in {<<"LCP_ACK">>, <<"ECHO", "LCP_ACK">>}
      BY <1>1, <1>5, <2>1
    <3> QED BY <1>1, <1>4, <1>5, <2>1, <3>1 DEF InLcp
  <2>2. CASE flags' = flags
    <3>1. pppoe_tx' \in {<<"LCP_REJ">>, <<"ECHO", "LCP_REJ">>}
      BY <1>1, <1>5, <2>2
    <3>2. Requested'
      BY <1>1, <1>4, <1>5, <3>1 DEF Requested
    <3> QED BY <1>1, <1>5, <2>2, <3>2 DEF InLcp
  <2> QED BY <1>5, <2>1, <2>2
<1>8. Negotiating'
  BY <1>6, <1>7 DEF Negotiating
<1>9. Settled'
  <2>1. flags' \subseteq flags \cup {"LCP_CR_RCV"}
    BY <1>5
  <2>2. pppoe_state' = "LCP" /\ send_count' \in Nat
    BY <1>6 DEF Settled
  <2> QED BY <1>1, <1>5, <2>1, <2>2 DEF Settled
<1>10. Reported'
  BY <1>1, <1>5, <1>6 DEF Reported
<1> QED BY <1>8, <1>9, <1>10

(* The acknowledgement of the client's LCP request decides how to           *)
(* authenticate; a challenge may be behind it.                             *)
LEMMA PollRequesting ==
    ASSUME P!Poll, pppoe_state = "LCP", "LCP_CR_RCV" \in flags,
           Negotiating, Settled, Reported
    PROVE  Negotiating' /\ Settled' /\ Reported'
<1> USE DEF Comes, Goes, Silence
<1>0. pppoe_rx # <<>>
  BY DEF P!Poll
<1>1. /\ goal = "LCP_CR_SNT" /\ (Requesting \/ Chap) /\ InLcp /\ goal \notin flags
      /\ auth \in {"PAP", "CHAP"} /\ result # "success" /\ "IPCP_CR_SNT" \notin flags
  BY <1>0, PollSteps DEF Negotiating, InLcp, Settled, Reported
<1>2. CASE Requesting
  <2>1. \/ Comes({<<P!Only("LCP_ACK")>>})
        \/ auth = "CHAP" /\ Comes({<<P!Only("LCP_ACK"), P!Only("CHALLENGE")>>})
    BY <1>0, <1>2 DEF Requesting
  <2>2. /\ Heard(P!Only("LCP_ACK"))
        /\ \/ pppoe_rx' = <<>>
           \/ auth = "CHAP" /\ pppoe_rx' = <<P!Only("CHALLENGE")>>
    BY <2>1, PollSteps
  <2>3. /\ UNCHANGED <<auth, sid, agreed, goal, auth_protocol, pppoe_ip,
                       NAS_sessionid>>
        /\ pppoe_tx' = <<>> /\ flags' = flags \cup {"LCP_CR_SNT"}
    BY <1>1, <2>1, <2>2, HearsLcp, FrameNames DEF Heard
  <2>4. /\ UNCHANGED <<regs, result>>
        /\ IF auth_protocol \in {"PAP", "CHAP"}
           THEN pppoe_state' = auth_protocol /\ send_count' = 0
           ELSE pppoe_state' = "FAILED" /\ send_count' = send_count
    BY <1>1, <2>2, <2>3, Reaches
  <2>5. Silence' \/ Challenged'
    BY <2>2, <2>3 DEF Challenged
  <2>6. CASE auth_protocol \in {"PAP", "CHAP"}
    <3>1. auth_protocol = auth
      BY <2>6 DEF Settled
    <3>2. CASE auth = "PAP"
      <4>1. InPap'
        BY <1>1, <2>2, <2>3, <3>2 DEF InPap, InLcp
      <4> QED BY <1>1, <2>3, <2>4, <2>6, <3>1, <3>2, <4>1
              DEF Negotiating, Settled, Reported, InLcp
    <3>3. CASE auth = "CHAP"
      <4>1. InChap'
        BY <1>1, <2>3, <2>5 DEF InChap
      <4> QED BY <1>1, <2>3, <2>4, <2>6, <3>1, <3>3, <4>1
              DEF Negotiating, Settled, Reported, InLcp
    <3> QED BY <1>1, <3>2, <3>3
  <2>7. CASE auth_protocol \notin {"PAP", "CHAP"}
    BY <1>1, <2>2, <2>3, <2>4, <2>7 DEF Negotiating, Settled, Reported
  <2> QED BY <2>6, <2>7
<1>3. ASSUME \E f : Heard(f),
             UNCHANGED <<auth, sid, agreed, goal, auth_protocol, NAS_sessionid>>,
             Chap',
             \/ flags' \in {flags, flags \cup {"CHAP_SUC"}}
             \/ /\ flags' = flags \cup {"IPCP_CR_RCV"}
                /\ {"auth", "plain"} \subseteq agreed
      PROVE  Negotiating' /\ Settled' /\ Reported'
  <2>1. goal \notin flags'
    BY <1>1, <1>3
  <2>2. UNCHANGED <<pppoe_state, send_count, regs, result>>
    BY <1>3, <2>1, Reaches
  <2>3. InLcp'
    BY <1>1, <1>3 DEF InLcp
  <2> QED BY <1>1, <1>3, <2>1, <2>2, <2>3 DEF Negotiating, Settled, Reported
<1>4. CASE Challenged
  <2>1. Heard(P!Only("CHALLENGE")) /\ pppoe_rx' = <<>> /\ pppoe_tx = <<>>
    BY <1>4, PollSteps DEF Challenged
  <2>2. /\ UNCHANGED <<auth, sid, agreed, goal, auth_protocol, NAS_sessionid, flags>>
        /\ pppoe_tx' = <<>> \/ pppoe_tx' = <<"RESPONSE">>
    BY <2>1, HearsAuth, FrameNames, SentOne DEF Heard
  <2>3. Chap'
    BY <2>1, <2>2 DEF Chap, Judged
  <2> QED BY <1>3, <2>1, <2>2, <2>3
<1>5. CASE Judged("RESPONSE", "CHAP_OK", "CHAP_FAIL")
  <2>1. /\ \E f : Heard(f)
        /\ UNCHANGED <<auth, sid, agreed, goal, auth_protocol, NAS_sessionid>>
        /\ Judged("RESPONSE", "CHAP_OK", "CHAP_FAIL")'
        /\ \/ flags' \in {flags, flags \cup {"CHAP_SUC"}}
           \/ /\ flags' = flags \cup {"IPCP_CR_RCV"}
              /\ {"auth", "plain"} \subseteq agreed
    BY <1>5, PollJudged
  <2> QED BY <1>3, <2>1 DEF Chap
<1> QED BY <1>1, <1>2, <1>4, <1>5 DEF Chap

(* PAP goes on with IPCP when the credentials are acknowledged. *)
LEMMA PollPap ==
    ASSUME P!Poll, pppoe_state = "PAP", Negotiating, Settled, Reported
    PROVE  Negotiating' /\ Settled' /\ Reported'
<1>1. /\ goal = "PAP_ACK" /\ Pap /\ "PAP_ACK" \notin flags
      /\ result # "success" /\ "IPCP_CR_SNT" \notin flags
  BY PollSteps DEF Negotiating, InPap, Settled, Reported
<1>2. /\ \E f : Heard(f)
      /\ UNCHANGED <<auth, sid, agreed, goal, auth_protocol, NAS_sessionid>>
      /\ Pap'
      /\ \/ flags' = flags
         \/ flags' = flags \cup {"IPCP_CR_RCV"} /\ {"auth", "plain"} \subseteq agreed
         \/ /\ flags' = flags \cup {"PAP_ACK"} /\ "auth" \in agreed
            /\ Comes({<<IpcpAsk>>})'
  BY <1>1, PollJudged DEF Pap
<1>3. CASE "PAP_ACK" \notin flags'
  <2>1. UNCHANGED <<pppoe_state, send_count, regs, result>>
    BY <1>1, <1>2, <1>3, Reaches
  <2>2. InPap'
    BY <1>1, <1>2, <1>3 DEF InPap
  <2> QED BY <1>1, <1>2, <1>3, <2>1, <2>2 DEF Negotiating, Settled, Reported
<1>4. CASE "PAP_ACK" \in flags'
  <2>1. flags' = flags \cup {"PAP_ACK"} /\ "auth" \in agreed /\ Comes({<<IpcpAsk>>})'
    BY <1>1, <1>2, <1>4
  <2>2. pppoe_state' = "IPCP" /\ send_count' = 0 /\ UNCHANGED <<regs, result>>
    BY <1>1, <1>2, <1>4, Reaches
  <2>3. InIpcp'
    BY <1>1, <1>2, <1>4, <2>1 DEF InIpcp, Comes
  <2> QED BY <1>1, <1>2, <2>1, <2>2, <2>3 DEF Negotiating, Settled, Reported
<1> QED BY <1>3, <1>4

(* CHAP does when its success is heard. *)
LEMMA PollChap ==
    ASSUME P!Poll, pppoe_state = "CHAP", Negotiating, Settled, Reported
    PROVE  Negotiating' /\ Settled' /\ Reported'
<1>1. /\ goal = "CHAP_SUC" /\ Chap /\ "CHAP_SUC" \notin flags /\ send_count = 0
      /\ result # "success" /\ "IPCP_CR_SNT" \notin flags
  BY PollSteps DEF Negotiating, InChap, Settled, Reported
<1>2. /\ \E f : Heard(f)
      /\ UNCHANGED <<auth, sid, agreed, goal, auth_protocol, NAS_sessionid>>
      /\ Chap'
      /\ \/ flags' = flags
         \/ flags' = flags \cup {"IPCP_CR_RCV"} /\ {"auth", "plain"} \subseteq agreed
         \/ /\ flags' = flags \cup {"CHAP_SUC"} /\ "auth" \in agreed
            /\ Comes({<<IpcpAsk>>})'
  <2>1. CASE Challenged
    <3>1. Heard(P!Only("CHALLENGE")) /\ pppoe_rx' = <<>> /\ pppoe_tx = <<>>
      BY <2>1, PollSteps DEF Challenged, Comes
    <3>2. /\ UNCHANGED <<auth, sid, agreed, goal, auth_protocol, NAS_sessionid, flags>>
          /\ pppoe_tx' = <<>> \/ pppoe_tx' = <<"RESPONSE">>
      BY <3>1, HearsAuth, FrameNames, SentOne DEF Heard
    <3> QED BY <3>1, <3>2 DEF Chap, Judged, Silence, Goes
  <2>2. CASE Judged("RESPONSE", "CHAP_OK", "CHAP_FAIL")
    BY <2>2, PollJudged DEF Chap
  <2> QED BY <1>1, <2>1, <2>2 DEF Chap
<1>3. CASE "CHAP_SUC" \notin flags'
  <2>1. UNCHANGED <<pppoe_state, send_count, regs, result>>
    BY <1>1, <1>2, <1>3, Reaches
  <2>2. InChap'
    BY <1>1, <1>2, <1>3 DEF InChap
  <2> QED BY <1>1, <1>2, <1>3, <2>1, <2>2 DEF Negotiating, Settled, Reported
<1>4. CASE "CHAP_SUC" \in flags'
  <2>1. flags' = flags \cup {"CHAP_SUC"} /\ "auth" \in agreed /\ Comes({<<IpcpAsk>>})'
    BY <1>1, <1>2, <1>4
  <2>2. pppoe_state' = "IPCP" /\ send_count' = 0 /\ UNCHANGED <<regs, result>>
    BY <1>1, <1>2, <1>4, Reaches
  <2>3. InIpcp'
    BY <1>1, <1>2, <1>4, <2>1 DEF InIpcp, Comes
  <2> QED BY <1>1, <1>2, <2>1, <2>2, <2>3 DEF Negotiating, Settled, Reported
<1> QED BY <1>3, <1>4

(* A NAK brings the client's address, and nothing that brings another one   *)
(* comes after it.                                                         *)
LEMMA PollAssigned ==
    ASSUME P!Poll, Assigned
    PROVE  /\ UNCHANGED <<auth, sid, agreed, goal, auth_protocol, NAS_sessionid>>
           /\ Assigned' /\ \E f : Heard(f)
           /\ \/ flags' \in {flags, flags \cup {"IPCP_CR_RCV"},
                             flags \cup {"IPCP_NAK_RCV"}}
              \/ /\ flags' = flags \cup {"IPCP_CR_SNT"} /\ Silence'
                 /\ pppoe_ip = "client" /\ "address" \in agreed
<1> USE DEF Comes, Goes, Silence
<1>0. pppoe_rx # <<>>
  BY DEF P!Poll
<1>1. CASE pppoe_rx = <<Plain>> /\ pppoe_tx \in {<<>>, <<"IPCP_REQ any">>}
  <2>1. Heard(Plain) /\ pppoe_rx' = <<>>
    BY <1>1, PollSteps
  <2>2. /\ UNCHANGED <<auth, sid, agreed, goal, auth_protocol, NAS_sessionid>>
        /\ flags' = flags \cup {"IPCP_CR_RCV"}
        /\ pppoe_tx' = <<"IPCP_ACK">> \/ pppoe_tx' = <<"IPCP_REQ any", "IPCP_ACK">>
    BY <1>1, <2>1, HearsIpcp, SentOne, SentTwo DEF Heard
  <2> QED BY <2>1, <2>2 DEF Assigned
<1>2. CASE Comes({<<Plain, P!Only("IPCP_NAK")>>})
  <2>1. Heard(Plain) /\ pppoe_rx' = <<P!Only("IPCP_NAK")>>
    BY <1>2, PollSteps
  <2>2. /\ UNCHANGED <<auth, sid, agreed, goal, auth_protocol, NAS_sessionid>>
        /\ flags' = flags \cup {"IPCP_CR_RCV"} /\ pppoe_tx' = <<"IPCP_ACK">>
    BY <1>2, <2>1, HearsIpcp, SentOne DEF Heard
  <2> QED BY <2>1, <2>2 DEF Assigned
<1>3. CASE pppoe_rx = <<P!Only("IPCP_NAK")>> /\ pppoe_tx \in {<<>>, <<"IPCP_ACK">>}
  <2>1. Heard(P!Only("IPCP_NAK")) /\ pppoe_rx' = <<>>
    BY <1>3, PollSteps
  <2>2. /\ UNCHANGED <<auth, sid, agreed, goal, auth_protocol, NAS_sessionid>>
        /\ flags' = flags \cup {"IPCP_NAK_RCV"} /\ pppoe_ip' = "client"
        /\ \/ pppoe_tx' = <<"IPCP_REQ client">>
           \/ pppoe_tx' = <<"IPCP_ACK", "IPCP_REQ client">>
    <3>1. P!Only("IPCP_NAK").is = "IPCP_NAK"
      BY FrameNames
    <3>2. P!PppRecv(P!Only("IPCP_NAK")) /\ UNCHANGED <<auth, sid, agreed, goal>>
      BY <2>1 DEF Heard
    <3>3. /\ UNCHANGED <<auth_protocol, NAS_sessionid>>
          /\ pppoe_tx' = Append(pppoe_tx, "IPCP_REQ client")
          /\ flags' = flags \cup {"IPCP_NAK_RCV"} /\ pppoe_ip' = "client"
      BY <3>1, <3>2, HearsIpcp
    <3> QED BY <1>3, <3>2, <3>3, SentOne, SentTwo
  <2> QED BY <2>1, <2>2 DEF Assigned
<1>4. CASE pppoe_ip = "client" /\ "address" \in agreed /\ Comes({<<P!Only("IPCP_ACK")>>})
  <2>1. Heard(P!Only("IPCP_ACK")) /\ pppoe_rx' = <<>>
    BY <1>4, PollSteps
  <2>2. /\ UNCHANGED <<auth, sid, agreed, goal, auth_protocol, NAS_sessionid,
                       pppoe_tx>>
        /\ flags' = flags \/ flags' = flags \cup {"IPCP_CR_SNT"}
    BY <2>1, HearsIpcp, FrameNames DEF Heard
  <2> QED BY <1>4, <2>1, <2>2 DEF Assigned
<1> QED BY <1>0, <1>1, <1>2, <1>3, <1>4 DEF Assigned

(* IPCP waits for the server's request, then for its own acknowledgement. *)
LEMMA PollIpcp ==
    ASSUME P!Poll, pppoe_state = "IPCP", Negotiating, Settled, Reported
    PROVE  Negotiating' /\ Settled' /\ Reported'
<1>0. /\ goal \notin flags \cup {"none"} /\ ~Silence /\ InIpcp
      /\ result # "success" /\ "IPCP_CR_SNT" \notin flags
  BY PollSteps DEF Negotiating, Reported
<1>1. CASE goal = "IPCP_CR_RCV"
  <2>1. IpcpBegins
    BY <1>0, <1>1 DEF InIpcp
  <2>2. /\ \E f : Heard(f)
        /\ UNCHANGED <<auth, sid, agreed, goal, auth_protocol, NAS_sessionid>>
        /\ IpcpBegins'
        /\ \/ flags' = flags
           \/ /\ flags' = flags \cup {"IPCP_CR_RCV"} /\ "plain" \in agreed
              /\ Goes({<<"IPCP_ACK">>})'
    BY <2>1, PollBegins
  <2>3. /\ pppoe_state' = pppoe_state /\ UNCHANGED <<regs, result>>
        /\ send_count' = send_count \/ send_count' = 0
    BY <1>1, <2>2, Reaches
  <2>4. InIpcp'
    BY <1>0, <1>1, <2>2 DEF InIpcp, Goes
  <2>5. Settled'
    BY <1>0, <1>1, <2>2, <2>3 DEF Settled, InIpcp
  <2> QED BY <1>0, <1>1, <2>2, <2>3, <2>4, <2>5 DEF Negotiating, Reported
<1>2. CASE goal = "IPCP_CR_SNT"
  <2>1. Assigned /\ "auth" \in agreed /\ {"auth", "plain"} \subseteq agreed
    BY <1>0, <1>2 DEF InIpcp, Settled
  <2>2. /\ UNCHANGED <<auth, sid, agreed, goal, auth_protocol, NAS_sessionid>>
        /\ Assigned' /\ \E f : Heard(f)
        /\ \/ flags' \in {flags, flags \cup {"IPCP_CR_RCV"},
                          flags \cup {"IPCP_NAK_RCV"}}
           \/ /\ flags' = flags \cup {"IPCP_CR_SNT"} /\ Silence'
              /\ pppoe_ip = "client" /\ "address" \in agreed
    BY <2>1, PollAssigned
  <2>3. InIpcp'
    BY <1>0, <1>2, <2>1, <2>2 DEF InIpcp
  <2>4. CASE "IPCP_CR_SNT" \notin flags'
    <3>1. UNCHANGED <<pppoe_state, send_count, regs, result>>
      BY <1>2, <2>2, <2>4, Reaches
    <3> QED BY <1>0, <1>2, <2>1, <2>2, <2>3, <2>4, <3>1
            DEF Negotiating, Settled, Reported
  <2>5. CASE "IPCP_CR_SNT" \in flags'
    <3>1. /\ flags' = flags \cup {"IPCP_CR_SNT"} /\ Silence'
          /\ pppoe_ip = "client" /\ "address" \in agreed
      BY <1>0, <2>2, <2>5
    <3>2. /\ pppoe_state' = pppoe_state /\ send_count' = 0 /\ result' = "success"
          /\ regs'.ip = pppoe_ip /\ regs'.sid = NAS_sessionid
      BY <1>2, <2>2, <2>5, Reaches
    <3>3. NAS_sessionid = sid
      BY DEF Settled
    <3>4. Settled'
      BY <1>2, <2>1, <2>2, <3>1, <3>2 DEF Settled
    <3>5. Reported'
      BY <1>2, <2>1, <2>2, <3>1, <3>2, <3>3 DEF Reported
    <3> QED BY <2>3, <3>2, <3>4, <3>5 DEF Negotiating
  <2> QED BY <2>4, <2>5
<1> QED BY <1>0, <1>1, <1>2 DEF InIpcp

-----------------------------------------------------------------------------
(* The calls of ppp_start() *)

(* What a call begins with: a frame is sent while its flag is down. *)
LEMMA BeginSteps ==
    ASSUME P!Begin
    PROVE
    /\ goal = "none" /\ result = "none"
    /\ UNCHANGED <<auth, pppoe_rx, sid, agreed, flags, pppoe_state, auth_protocol,
                   pppoe_ip, NAS_sessionid, regs, result>>
    /\ \/ /\ pppoe_state = "DISCOVERY" /\ goal' = "PADS"
          /\ IF "PADO" \in flags THEN UNCHANGED <<pppoe_tx, send_count>>
             ELSE pppoe_tx' = Append(pppoe_tx, "PADI") /\ send_count' = send_count + 1
       \/ /\ pppoe_state = "LCP" /\ goal' = "LCP_CR_RCV"
          /\ IF "LCP_CR_RCV" \in flags THEN UNCHANGED <<pppoe_tx, send_count>>
             ELSE pppoe_tx' = Append(pppoe_tx, "ECHO") /\ send_count' = send_count + 1
       \/ /\ pppoe_state = "PAP" /\ goal' = "PAP_ACK"
          /\ IF "PAP_ACK" \in flags THEN UNCHANGED <<pppoe_tx, send_count>>
             ELSE pppoe_tx' = Append(pppoe_tx, "PAP") /\ send_count' = send_count + 1
       \/ /\ pppoe_state = "CHAP" /\ goal' = "CHAP_SUC"
          /\ UNCHANGED <<pppoe_tx, send_count>>
       \/ /\ pppoe_state = "IPCP" /\ goal' = "IPCP_CR_RCV"
          /\ UNCHANGED <<pppoe_tx, send_count>>
<1>1. /\ goal = "none" /\ result = "none"
      /\ UNCHANGED <<auth, pppoe_rx, sid, agreed, flags, pppoe_state, auth_protocol,
                     pppoe_ip, NAS_sessionid, regs, result>>
  BY DEF P!Begin, P!Fresh, P!env, P!server, P!learned, P!outcome
<1>2. P!BeginDiscovery \/ P!BeginLcp \/ P!BeginPap \/ P!BeginChap \/ P!BeginIpcp
  BY DEF P!Begin
<1> QED BY <1>1, <1>2 DEF P!BeginDiscovery, P!BeginLcp, P!BeginPap,
       P!BeginChap, P!BeginIpcp, P!SendAndWait, P!Wait, P!Counted, P!NoReply,
       P!Reply, P!do_discovery, P!do_lcp_echo, P!do_pap

(* The frame a call begins with is the only one, or behind a late          *)
(* challenge.                                                              *)
LEMMA BeginKeeps ==
    ASSUME P!Begin, Negotiating, Settled, Reported
    PROVE  Negotiating' /\ Settled' /\ Reported'
<1>1. /\ goal = "none" /\ result = "none"
      /\ UNCHANGED <<auth, pppoe_rx, sid, agreed, flags, pppoe_state, auth_protocol,
                     pppoe_ip, NAS_sessionid, regs, result>>
  BY BeginSteps
<1>2. LcpAsked' = LcpAsked /\ Plain' = Plain /\ IpcpAsk' = IpcpAsk
  BY <1>1 DEF LcpAsked, Plain, IpcpAsk, P!IpcpReq
<1>3. send_count' \in {send_count, send_count + 1} /\ send_count' \in Nat
  BY BeginSteps DEF Settled
<1>4. Reported'
  BY <1>1 DEF Reported
<1> USE DEF Comes, Goes, Silence
<1>5. CASE pppoe_state = "DISCOVERY"
  <2>1. /\ goal' = "PADS"
        /\ IF "PADO" \in flags THEN pppoe_tx' = pppoe_tx
           ELSE pppoe_tx' = Append(pppoe_tx, "PADI")
    BY <1>5, BeginSteps
  <2>2. InDiscovery
    BY <1>5 DEF Negotiating
  <2>3. Silence \/ (Outdated /\ Comes({<<P!Only("CHALLENGE")>>}))
    BY <1>1, <2>2 DEF InDiscovery, Discovering
  <2>4. Discovering'
    BY <1>1, <2>1, <2>3, SentOne DEF Discovering, Outdated
  <2>5. InDiscovery'
    BY <1>1, <2>1, <2>2, <2>4 DEF InDiscovery
  <2>6. "PADS" \notin flags /\ "IPCP_CR_RCV" \notin flags
    BY <2>2 DEF InDiscovery
  <2>7. Settled'
    BY <1>1, <1>3, <1>5, <2>1, <2>6 DEF Settled
  <2> QED BY <1>1, <1>4, <1>5, <2>5, <2>7 DEF Negotiating
<1>6. CASE pppoe_state = "LCP"
  <2>1. /\ goal' = "LCP_CR_RCV"
        /\ IF "LCP_CR_RCV" \in flags THEN pppoe_tx' = pppoe_tx
           ELSE pppoe_tx' = Append(pppoe_tx, "ECHO")
    BY <1>6, BeginSteps
  <2>2. InLcp
    BY <1>6 DEF Negotiating
  <2>3. InLcp'
    <3>1. CASE "LCP_CR_RCV" \notin flags
      <4>1. Requested /\ goal # "LCP_CR_RCV"
        BY <1>1, <2>2, <3>1 DEF InLcp
      <4>2. /\ "lcp in" \notin agreed /\ pppoe_tx' = <<"ECHO">>
            /\ pppoe_rx = <<>> \/ \E q \in LcpAsked : pppoe_rx = <<q>>
        BY <2>1, <3>1, <4>1, SentOne DEF Requested
      <4>3. Requested'
        BY <1>1, <1>2, <2>1, <4>2 DEF Requested
      <4> QED BY <1>1, <2>1, <2>2, <3>1, <4>3 DEF InLcp
    <3>2. CASE "LCP_CR_RCV" \in flags
      BY <1>1, <2>1, <2>2, <3>2 DEF InLcp
    <3> QED BY <3>1, <3>2
  <2>4. Settled'
    BY <1>1, <1>3, <1>6, <2>1 DEF Settled
  <2> QED BY <1>1, <1>4, <1>6, <2>3, <2>4 DEF Negotiating
<1>7. CASE pppoe_state = "PAP"
  <2>1. /\ goal' = "PAP_ACK"
        /\ IF "PAP_ACK" \in flags THEN pppoe_tx' = pppoe_tx
           ELSE pppoe_tx' = Append(pppoe_tx, "PAP")
    BY <1>7, BeginSteps
  <2>2. "PAP_ACK" \notin flags /\ Silence
    BY <1>1, <1>7 DEF Negotiating, InPap
  <2>3. pppoe_tx' = <<"PAP">> /\ pppoe_rx' = <<>>
    BY <1>1, <2>1, <2>2, SentOne
  <2>4. InPap'
    BY <1>1, <2>1, <2>2, <2>3 DEF InPap, Pap, Judged
  <2>5. Settled'
    BY <1>1, <1>3, <1>7, <2>1, <2>2 DEF Settled
  <2> QED BY <1>1, <1>4, <1>7, <2>4, <2>5 DEF Negotiating
<1>8. CASE pppoe_state = "CHAP"
  <2>1. goal' = "CHAP_SUC" /\ UNCHANGED <<pppoe_tx, send_count>>
    BY <1>8, BeginSteps
  <2>2. Silence \/ Challenged
    BY <1>1, <1>8 DEF Negotiating, InChap
  <2>3. Silence' \/ Challenged'
    BY <1>1, <2>1, <2>2 DEF Challenged
  <2>4. InChap'
    BY <2>1, <2>3 DEF InChap, Chap, Judged
  <2>5. Settled'
    BY <1>1, <1>8, <2>1 DEF Settled
  <2> QED BY <1>1, <1>4, <1>8, <2>4, <2>5 DEF Negotiating
<1>9. CASE pppoe_state = "IPCP"
  <2>1. goal' = "IPCP_CR_RCV" /\ UNCHANGED <<pppoe_tx, send_count>>
    BY <1>9, BeginSteps
  <2>2. "auth" \in agreed /\ (Silence \/ Comes({<<IpcpAsk>>}))
    BY <1>1, <1>9 DEF Negotiating, InIpcp
  <2>3. "IPCP_CR_RCV" \in flags => IpcpAsk = Plain
    BY <1>9 DEF Settled, IpcpAsk
  <2>4. InIpcp'
    BY <1>1, <1>2, <2>1, <2>2, <2>3 DEF InIpcp, IpcpBegins
  <2>5. Settled'
    BY <1>1, <1>9, <2>1 DEF Settled
  <2> QED BY <1>1, <1>4, <1>9, <2>4, <2>5 DEF Negotiating
<1> QED BY <1>5, <1>6, <1>7, <1>8, <1>9, BeginSteps

(* What a call ends with: a request of the client's own, or the look at the *)
(* count, which was cleared if the call has what it waited for.            *)
LEMMA EndSteps ==
    ASSUME P!EndLoop, InTime, Settled
    PROVE
    /\ goal \in flags \/ (goal # "none" /\ Silence)
    /\ UNCHANGED <<auth, pppoe_rx, sid, agreed, flags, auth_protocol,
                   pppoe_ip, NAS_sessionid, regs, result>>
    /\ \/ /\ goal = "LCP_CR_RCV" /\ goal \in flags /\ goal' = "LCP_CR_SNT"
          /\ pppoe_tx' = Append(pppoe_tx, "LCP_REQ")
          /\ send_count' \in Nat /\ pppoe_state' = pppoe_state
       \/ /\ goal = "IPCP_CR_RCV" /\ goal \in flags /\ goal' = "IPCP_CR_SNT"
          /\ pppoe_tx' = Append(pppoe_tx, "IPCP_REQ any")
          /\ send_count' \in Nat /\ pppoe_state' = pppoe_state
       \/ /\ goal \notin {"LCP_CR_RCV", "IPCP_CR_RCV"} \/ goal \notin flags
          /\ goal' = "none" /\ UNCHANGED <<pppoe_tx, send_count>>
          /\ pppoe_state' = IF send_count >= MaxSend THEN "FAILED" ELSE pppoe_state
<1>1. /\ goal \in flags \/ (goal # "none" /\ Silence)
      /\ UNCHANGED <<auth, pppoe_rx, sid, agreed, flags, auth_protocol,
                     pppoe_ip, NAS_sessionid, regs, result>>
  BY DEF P!EndLoop, P!LoopOver, P!Quiet, InTime, Silence, P!Fresh, P!env,
     P!server, P!learned, P!outcome
<1>2. P!RequestLcp \/ P!RequestIpcp \/ P!EndCall
  BY DEF P!EndLoop
<1>3. send_count \in Nat
  BY DEF Settled
<1>4. P!Counted => send_count' \in Nat
  BY <1>3 DEF P!Counted
<1> QED BY <1>1, <1>2, <1>4 DEF P!RequestLcp, P!RequestIpcp, P!Request,
       P!EndCall, P!NoReply, P!Reply, P!do_lcp, P!do_ipcp

(* The client's LCP request follows the acknowledgement of the server's. *)
LEMMA RequestLcpKeeps ==
    ASSUME goal = "LCP_CR_RCV", goal \in flags, goal' = "LCP_CR_SNT",
           pppoe_tx' = Append(pppoe_tx, "LCP_REQ"), send_count' \in Nat,
           UNCHANGED <<auth, pppoe_rx, sid, agreed, flags, pppoe_state,
                       auth_protocol, pppoe_ip, NAS_sessionid, regs, result>>,
           Negotiating, Settled, Reported
    PROVE  Negotiating' /\ Settled' /\ Reported'
<1>1. pppoe_state = "LCP"
  BY DEF Negotiating, InDiscovery, InPap, InChap, InIpcp
<1>2. /\ InLcp /\ "LCP_CR_SNT" \notin flags
      /\ \/ Silence
         \/ /\ "lcp in" \notin agreed
            /\ Goes({<<"LCP_ACK">>, <<"ECHO", "LCP_ACK">>})
  BY <1>1 DEF Negotiating, InLcp
<1>3. Requesting'
  BY <1>2, SentOne, SentTwo, SentThree DEF Requesting, Goes, Silence
<1>4. InLcp'
  BY <1>2, <1>3 DEF InLcp
<1>5. Settled'
  BY <1>1, <1>2 DEF Settled
<1> QED BY <1>1, <1>4, <1>5 DEF Negotiating, Reported

(* The client asks for its address when the server has said its own. *)
LEMMA RequestIpcpKeeps ==
    ASSUME goal = "IPCP_CR_RCV", goal \in flags, goal' = "IPCP_CR_SNT",
           pppoe_tx' = Append(pppoe_tx, "IPCP_REQ any"),
           send_count' \in Nat,
           UNCHANGED <<auth, pppoe_rx, sid, agreed, flags, pppoe_state,
                       auth_protocol, pppoe_ip, NAS_sessionid, regs, result>>,
           Negotiating, Settled, Reported
    PROVE  Negotiating' /\ Settled' /\ Reported'
<1>1. pppoe_state = "IPCP"
  BY DEF Negotiating, InDiscovery, InLcp, InPap, InChap
<1>2. /\ "auth" \in agreed
      /\ Silence \/ Comes({<<Plain>>}) \/ Goes({<<"IPCP_ACK">>})
      /\ result # "success" /\ "IPCP_CR_SNT" \notin flags
  BY <1>1 DEF Negotiating, InIpcp, Reported
<1>3. Plain' = Plain
  BY DEF Plain, P!IpcpReq
<1>4. Assigned'
  BY <1>2, <1>3, SentOne, SentTwo DEF Assigned, Goes, Comes, Silence
<1>5. InIpcp'
  BY <1>2, <1>4 DEF InIpcp
<1>6. Settled'
  BY <1>1, <1>2 DEF Settled
<1> QED BY <1>1, <1>2, <1>5, <1>6 DEF Negotiating, Reported

(* A call that ends leaves the wire as it was; only one that has not got    *)
(* what it waited for can be the one too many.                             *)
LEMMA EndCallKeeps ==
    ASSUME goal \in flags \/ (goal # "none" /\ Silence),
           goal \notin {"LCP_CR_RCV", "IPCP_CR_RCV"} \/ goal \notin flags,
           goal' = "none",
           pppoe_state' = IF send_count >= MaxSend THEN "FAILED" ELSE pppoe_state,
           UNCHANGED <<auth, pppoe_rx, pppoe_tx, sid, agreed, flags, send_count,
                       auth_protocol, pppoe_ip, NAS_sessionid, regs, result>>,
           Negotiating, Settled, Reported
    PROVE  Negotiating' /\ Settled' /\ Reported'
<1>1. /\ "none" \notin flags /\ goal # "none"
      /\ pppoe_state' \in {pppoe_state, "FAILED"} /\ send_count \in Nat
  BY DEF Settled
<1>2. goal \in flags /\ pppoe_state # "FAILED"
        => send_count = 0 /\ pppoe_state' = pppoe_state
  <2>1. ASSUME goal \in flags, pppoe_state # "FAILED"
        PROVE  send_count = 0
    BY <2>1 DEF Settled
  <2> QED BY <2>1, SendAssumption
<1>3. LcpAsked' = LcpAsked /\ Plain' = Plain /\ IpcpAsk' = IpcpAsk
  BY DEF LcpAsked, Plain, IpcpAsk, P!IpcpReq
<1>4. Settled'
  <2>1. UNCHANGED auth
    OBVIOUS
  <2> QED BY <1>1 DEF Settled
<1>5. Reported'
  <2>1. result = "success" => pppoe_state' = "IPCP"
    BY <1>1, <1>2 DEF Reported
  <2> QED BY <1>1, <2>1 DEF Reported, Silence
<1>6. Negotiating'
  <2>1. /\ Silence \/ goal \in flags
        /\ Silence' = Silence /\ Challenged' = Challenged
    BY DEF Silence, Challenged, Comes
  <2>2. CASE pppoe_state' = "FAILED" /\ pppoe_state # "FAILED"
    <3>1. Silence
      BY <1>2, <2>1, <2>2
    <3> QED BY <2>1, <2>2, <3>1 DEF Negotiating
  <2>3. CASE pppoe_state = "FAILED"
    BY <1>1, <2>1, <2>3 DEF Negotiating, Comes
  <2>4. CASE pppoe_state' = "DISCOVERY" /\ pppoe_state = "DISCOVERY"
    <3>1. InDiscovery /\ Silence
      BY <1>1, <2>1, <2>4 DEF Negotiating, InDiscovery
    <3> QED BY <2>1, <2>4, <3>1 DEF Negotiating, InDiscovery, Discovering
  <2>5. CASE pppoe_state' = "LCP" /\ pppoe_state = "LCP"
    <3>1. InLcp
      BY <2>5 DEF Negotiating
    <3>2. CASE "LCP_CR_RCV" \in flags
      <4>1. Silence
        BY <1>1, <2>1, <3>1, <3>2 DEF InLcp
      <4> QED BY <2>1, <2>5, <3>1, <3>2, <4>1 DEF Negotiating, InLcp
    <3>3. CASE "LCP_CR_RCV" \notin flags
      <4>1. /\ "lcp in" \notin agreed
            /\ Silence \/ \E q \in LcpAsked : Comes({<<q>>})
        BY <2>1, <3>1, <3>3 DEF InLcp, Requested
      <4>2. Requested'
        BY <1>3, <4>1 DEF Requested, Silence, Comes
      <4> QED BY <2>5, <3>1, <3>3, <4>2 DEF Negotiating, InLcp
    <3> QED BY <3>2, <3>3
  <2>6. CASE pppoe_state' = "PAP" /\ pppoe_state = "PAP"
    <3>1. InPap /\ Silence
      BY <2>1, <2>6 DEF Negotiating, InPap
    <3> QED BY <2>1, <2>6, <3>1 DEF Negotiating, InPap
  <2>7. CASE pppoe_state' = "CHAP" /\ pppoe_state = "CHAP"
    <3>1. Silence \/ Challenged
      BY <1>1, <2>1, <2>7 DEF Negotiating, InChap
    <3> QED BY <2>1, <2>7, <3>1 DEF Negotiating, InChap
  <2>8. CASE pppoe_state' = "IPCP" /\ pppoe_state = "IPCP"
    <3>1. InIpcp
      BY <2>8 DEF Negotiating
    <3>2. Silence \/ Comes({<<IpcpAsk>>})
      <4>1. CASE goal = "IPCP_CR_SNT" /\ goal \in flags
        BY <2>8, <4>1 DEF Reported
      <4> QED BY <1>1, <2>1, <3>1, <4>1 DEF InIpcp
    <3> QED BY <1>3, <2>1, <2>8, <3>1, <3>2 DEF Negotiating, InIpcp, Comes
  <2> QED BY <1>1, <2>2, <2>3, <2>4, <2>5, <2>6, <2>7, <2>8 DEF Negotiating
<1> QED BY <1>4, <1>5, <1>6

(* A loop that is over leaves a wire the next call can begin with. *)
LEMMA EndKeeps ==
    ASSUME P!EndLoop, InTime, Negotiating, Settled, Reported
    PROVE  Negotiating' /\ Settled' /\ Reported'
BY EndSteps, RequestLcpKeeps, RequestIpcpKeeps, EndCallKeeps

(* After a failure everything begins again; a challenge may still come. *)
LEMMA FailedKeeps ==
    ASSUME P!Failed, Negotiating, Settled, Reported
    PROVE  Negotiating' /\ Settled' /\ Reported'
<1>1. /\ pppoe_state = "FAILED" /\ goal = "none" /\ result = "none"
      /\ flags' = {} /\ send_count' = 0 /\ pppoe_state' = "DISCOVERY"
      /\ result' \in {"failed", "none"}
      /\ UNCHANGED <<auth, pppoe_rx, pppoe_tx, sid, agreed, goal, auth_protocol,
                     pppoe_ip, NAS_sessionid, regs>>
  BY DEF P!Failed, P!TaskEnds, P!env, P!wire, P!server, P!learned
<1>2. Silence \/ (auth_protocol # "CHAP" /\ Comes({<<P!Only("CHALLENGE")>>}))
  BY <1>1 DEF Negotiating
<1>3. InDiscovery'
  BY <1>1, <1>2 DEF InDiscovery, Discovering, Outdated, Silence, Comes
<1> QED BY <1>1, <1>3 DEF Negotiating, Settled, Reported

-----------------------------------------------------------------------------
(* The session *)

(* Nothing is on the wire at first. *)
LEMMA SessionInit ==
    ASSUME P!Init
    PROVE  SessionInv
BY DEF P!Init, SessionInv, Negotiating, InDiscovery, Discovering, Silence,
   Settled, Reported

(* Steps of other programs, and the call that opens the socket. *)
LEMMA SessionStill ==
    ASSUME UNCHANGED pppoe_vars \/ P!OpenSocket, Negotiating, Settled, Reported
    PROVE  Negotiating' /\ Settled' /\ Reported'
<1>1. UNCHANGED <<auth, pppoe_rx, pppoe_tx, sid, agreed, pppoe_state, flags,
                  send_count, goal, auth_protocol, pppoe_ip, NAS_sessionid,
                  regs, result>>
  BY DEF pppoe_vars, P!OpenSocket, P!env, P!wire, P!server, P!machine,
     P!learned, P!outcome
<1>2. /\ Silence' = Silence /\ Challenged' = Challenged
      /\ LcpAsked' = LcpAsked /\ Plain' = Plain /\ IpcpAsk' = IpcpAsk
      /\ \A seqs : /\ Comes(seqs)' = Comes(seqs)
                   /\ Goes(seqs)' = Goes(seqs)
  BY <1>1 DEF Silence, Challenged, LcpAsked, Plain, IpcpAsk, Comes, Goes, P!IpcpReq
<1>3. InDiscovery' = InDiscovery
  BY <1>1, <1>2 DEF InDiscovery, Discovering, Outdated, Comes, Goes
<1>4. IpcpBegins' = IpcpBegins
  BY <1>1, <1>2 DEF IpcpBegins, Comes, Goes
<1>5. Pap' = Pap /\ Chap' = Chap
  BY <1>1, <1>2, <1>4 DEF Pap, Chap, Judged, Comes, Goes
<1>6. Requested' = Requested /\ Requesting' = Requesting
  BY <1>1, <1>2 DEF Requested, Requesting, Comes, Goes
<1>7. InLcp' = InLcp
  BY <1>1, <1>2, <1>5, <1>6 DEF InLcp, Goes
<1>8. InPap' = InPap /\ InChap' = InChap
  BY <1>1, <1>2, <1>5 DEF InPap, InChap
<1>9. Assigned' = Assigned
  BY <1>1, <1>2 DEF Assigned, Comes, Goes
<1>10. InIpcp' = InIpcp
  BY <1>1, <1>2, <1>4, <1>9 DEF InIpcp, Comes, Goes
<1>11. Negotiating'
  BY <1>1, <1>2, <1>3, <1>7, <1>8, <1>10 DEF Negotiating, Comes
<1>12. Settled' /\ Reported'
  BY <1>1, <1>2 DEF Settled, Reported
<1> QED BY <1>11, <1>12

(* What a poll does, in each state of the machine. *)
LEMMA PollKeeps ==
    ASSUME P!Poll, Negotiating, Settled, Reported
    PROVE  Negotiating' /\ Settled' /\ Reported'
<1>1. pppoe_state # "FAILED"
  BY PollSteps DEF Negotiating
<1> QED BY <1>1, PollDiscovery, PollRequested, PollRequesting, PollPap,
       PollChap, PollIpcp DEF Negotiating

(* Every step keeps what the wire and the machine can be. *)
LEMMA SessionStep ==
    ASSUME SessionInv, P!Next \/ UNCHANGED pppoe_vars
    PROVE  SessionInv'
<1>1. UNCHANGED pppoe_faults
  BY DEF P!Next, P!Server, P!Repeat, P!Lose, P!Client, P!OpenSocket, P!Begin,
     P!Poll, P!EndLoop, P!Failed, P!env, pppoe_vars
<1> SUFFICES ASSUME InTime
             PROVE  Negotiating' /\ Settled' /\ Reported'
  BY <1>1 DEF SessionInv, InTime
<1>2. Negotiating /\ Settled /\ Reported /\ auth \in {"PAP", "CHAP"}
  BY DEF SessionInv, Settled
<1>3. ~P!Repeat
  BY DEF P!Repeat, InTime
<1>4. CASE P!Server \/ P!Lose
  BY <1>2, <1>4, WireSteps, WireKeeps
<1>5. CASE P!Begin
  BY <1>2, <1>5, BeginKeeps
<1>6. CASE P!Poll
  BY <1>2, <1>6, PollKeeps
<1>7. CASE P!EndLoop
  BY <1>2, <1>7, EndKeeps
<1>8. CASE P!Failed
  BY <1>2, <1>8, FailedKeeps
<1>9. CASE UNCHANGED pppoe_vars \/ P!OpenSocket
  BY <1>2, <1>9, SessionStill
<1> QED BY <1>3, <1>4, <1>5, <1>6, <1>7, <1>8, <1>9 DEF P!Next, P!Client

(* A session that is reported is the server's, with the address it          *)
(* assigned: set_pppinfo() is reached only through PPP_IPCP, whichever      *)
(* frames are lost, options rejected and calls repeated on the way.        *)
THEOREM AddressIsOwn == FairSpec => []OwnAddress
<1>1. Init => SessionInv
  BY SessionInit DEF Init
<1>2. SessionInv /\ [Next]_all => SessionInv'
  BY SessionStep, OneProgram
<1>3. SessionInv => OwnAddress
  BY DEF SessionInv, InTime, Settled, Reported, OwnAddress, P!OwnAddress
<1> QED BY <1>1, <1>2, <1>3, PTL DEF FairSpec

=============================================================================
