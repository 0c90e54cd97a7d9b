------------------------------ MODULE UdpServices ------------------------------
(***************************************************************************)
(* The UDP examples: sntp, udp (echo), udp_multicast and netbios.  A board *)
(* runs one of them, on each of its interfaces.  The tasks of two          *)
(* interfaces meet in one place: on one software stack both NetBIOS        *)
(* responders are bound to port 137, and SO_BINDTODEVICE, where it takes   *)
(* effect, keeps a query to the interface it came in on.                   *)
(***************************************************************************)
EXTENDS Integers, Sequences

CONSTANTS
    Services,      \* \subseteq {"sntp", "echo", "mcast", "netbios"}
    Interfaces,    \* of the board
    Attempts,      \* SNTP_RETRY_COUNT
    MaxIn,         \* bound: datagrams that come in
    Sockets,       \* hardware sockets, numbers
    Descriptors,   \* of the TOE driver, 0 .. WIZTOE_MAX_DESC - 1
    LwipOffset,    \* LWIP_SOCKET_OFFSET, between those and an application's fd
    MaxAddress     \* bound: addresses an interface is given

VARIABLES
    service, at,
    came,          \* datagrams that have come in, a sequence
    inq,           \* socket receive queues, by interface
    out,           \* datagrams sent
    attempt, ok,   \* sntp_task()
    rest,          \* the part of a datagram that is still to be echoed
    fd, sn, chip,  \* udp_multicast: the descriptor; the socket behind each
                   \* of the driver's; Sn_SR and the multicast flag of each
                   \* socket
    address,       \* netbios: of each interface; 0 is none
    pinned         \* has SO_BINDTODEVICE effect on the interface's socket

sntp  == <<attempt, ok>>
mcast == <<fd, sn, chip>>
own   == <<address, pinned>>
vars == <<service, at, came, inq, out, sntp, rest, mcast, own>>

NoSocket == -1
Main == CHOOSE i \in Interfaces : TRUE    \* where a single task runs

Kinds == {"good", "bad", "name", "chunks"}
Datagrams == [id : 1 .. MaxIn, iface : Interfaces, kind : Kinds]
TypeOK ==
    /\ service \in Services
    /\ at \in [Interfaces -> {"open", "join", "query", "wait", "recv", "send",
                              "done"}]
    /\ \A k \in 1 .. Len(came) : came[k] \in Datagrams
    /\ \A i \in Interfaces : \A k \in 1 .. Len(inq[i]) : inq[i][k] \in Datagrams
    /\ attempt \in 0 .. Attempts /\ ok \in BOOLEAN
    /\ rest \in 0 .. 2
    /\ fd \in {NoSocket} \cup {d + LwipOffset : d \in Descriptors}
    /\ sn \in [Descriptors -> Sockets \cup {NoSocket}]
    /\ chip \in [Sockets -> {"closed", "udp", "multi", "tcp"}]
    /\ address \in [Interfaces -> 0 .. MaxAddress]
    /\ pinned \in [Interfaces -> BOOLEAN]

(* Descriptors that others hold, each with a socket of its own. *)
InUse(s) == \E d \in Descriptors : sn[d] = s
Held ==
    /\ \A d, e \in Descriptors : sn[d] = sn[e] => d = e \/ sn[d] = NoSocket
    /\ \A s \in Sockets : chip[s] = "closed" <=> ~InUse(s)

Init ==
    /\ service \in Services
    /\ at = [i \in Interfaces |->
               IF service = "netbios" \/ i = Main THEN "open" ELSE "done"]
    /\ came = <<>> /\ inq = [i \in Interfaces |-> <<>>] /\ out = <<>>
    /\ attempt = 0 /\ ok = FALSE /\ rest = 0
    /\ fd = NoSocket
    /\ IF service = "mcast"
       THEN /\ sn \in [Descriptors -> Sockets \cup {NoSocket}]
            /\ chip \in [Sockets -> {"closed", "udp", "tcp"}] /\ Held
       ELSE /\ sn = [d \in Descriptors |-> NoSocket]
            /\ chip = [x \in Sockets |-> "closed"]
    /\ address = [i \in Interfaces |-> 0]
    /\ pinned \in IF service = "netbios" THEN [Interfaces -> BOOLEAN]
                  ELSE {[i \in Interfaces |-> TRUE]}

Goto(i, l) == at' = [at EXCEPT ![i] = l]
Close(i) == inq' = [inq EXCEPT ![i] = <<>>]

-----------------------------------------------------------------------------
(* What comes in is queued at every open socket bound to the port: a       *)
(* socket with SO_BINDTODEVICE hears its interface, and one on which the   *)
(* option failed, or that had no name to give it, hears both.              *)
BoundTo_Any(i, iface) == TRUE                                   \* mutant
BoundTo(i, iface) == pinned[i] => i = iface
Open(i) == at[i] \in {"wait", "recv", "send"}
Arrive ==
    \E i \in Interfaces, kind \in Kinds :
        LET d == [id |-> Len(came) + 1, iface |-> i, kind |-> kind]
        IN  /\ Len(came) < MaxIn
            /\ kind \in CASE service = "sntp" -> {"good", "bad"}
                          [] service = "netbios" -> {"name", "bad"}
                          [] OTHER -> {"chunks"}
            /\ came' = Append(came, d)
            /\ inq' = [j \in Interfaces |->
                         IF Open(j) /\ BoundTo(j, i) THEN Append(inq[j], d)
                                                     ELSE inq[j]]
            /\ UNCHANGED <<service, at, out, sntp, rest, mcast, own>>

Take(i) == inq' = [inq EXCEPT ![i] = Tail(@)]

-----------------------------------------------------------------------------
(* sntp_task(): SNTP_RETRY_COUNT queries, each with a socket of its own.   *)
(* The reply is not matched with the request: the answer to an earlier     *)
(* query will do.                                                          *)
SntpOpen ==
    /\ service = "sntp" /\ at[Main] = "open" /\ Goto(Main, "query")
    /\ UNCHANGED <<service, came, inq, out, sntp, rest, mcast, own>>

SntpCount == attempt + 1
SntpQuery ==
    /\ service = "sntp" /\ at[Main] = "query"
    /\ \/ /\ attempt < Attempts /\ attempt' = SntpCount
          /\ \/ Goto(Main, "wait")                   \* the request is out
             \/ Goto(Main, "query")                  \* a call has failed
       \/ attempt = Attempts /\ Goto(Main, "done") /\ UNCHANGED attempt
    /\ UNCHANGED <<service, came, inq, out, ok, rest, mcast, own>>

GoodReply == IF inq[Main] = <<>> THEN FALSE ELSE Head(inq[Main]).kind = "good"
SntpReply ==
    /\ service = "sntp" /\ at[Main] = "wait" /\ Close(Main)
    /\ \/ GoodReply /\ ok' = TRUE /\ Goto(Main, "done")
       \/ ~GoodReply /\ Goto(Main, "query") /\ UNCHANGED ok
    /\ UNCHANGED <<service, came, out, attempt, rest, mcast, own>>

-----------------------------------------------------------------------------
(* udp_echo_loop(): a datagram goes back in as many parts as sendto()      *)
(* makes of it, or up to the call that fails.                              *)
EchoOpen ==
    /\ service = "echo" /\ at[Main] = "open"
    /\ Goto(Main, "recv") \/ Goto(Main, "done")
    /\ UNCHANGED <<service, came, inq, out, sntp, rest, mcast, own>>

EchoRecv ==
    /\ service = "echo" /\ at[Main] = "recv" /\ inq[Main] # <<>>
    /\ rest' = 2 /\ Goto(Main, "send")
    /\ UNCHANGED <<service, came, inq, out, sntp, mcast, own>>

EchoSend ==
    /\ service = "echo" /\ at[Main] = "send"
    /\ \/ \E w \in 1 .. rest :
             /\ rest' = rest - w
             /\ out' = out \o [k \in 1 .. w |->
                                 <<Head(inq[Main]).id, 2 - rest + k>>]
             /\ UNCHANGED <<at, inq>>
       \/ /\ rest' = 0 /\ Take(Main) /\ Goto(Main, "recv")  \* all out, or w < 0
          /\ UNCHANGED out
    /\ UNCHANGED <<service, came, sntp, mcast, own>>

-----------------------------------------------------------------------------
(* mcast_rx_loop() and mcast_join_toe().  socket() and bind() have given   *)
(* the task an fd and opened a hardware socket for it, any free one: which,*)
(* the driver knows.                                                       *)
McastOpen ==
    /\ service = "mcast" /\ at[Main] = "open"
    /\ \/ \E d \in Descriptors, s \in Sockets :
             /\ sn[d] = NoSocket /\ chip[s] = "closed"
             /\ fd' = d + LwipOffset /\ sn' = [sn EXCEPT ![d] = s]
             /\ chip' = [chip EXCEPT ![s] = "udp"] /\ Goto(Main, "join")
       \/ Goto(Main, "done") /\ UNCHANGED mcast
    /\ UNCHANGED <<service, came, inq, out, sntp, rest, own>>

(* wiztoe_sn_of_fd(), of one of the driver's descriptors. *)
wiztoe_sn_of_fd(d) == IF d \in Descriptors THEN sn[d] ELSE NoSocket
SnOf_NoOffset == wiztoe_sn_of_fd(fd)                            \* mutant
SnOf == wiztoe_sn_of_fd(fd - LwipOffset)
McastJoin ==
    /\ service = "mcast" /\ at[Main] = "join"
    /\ \/ /\ SnOf \in Sockets /\ chip[SnOf] = "udp"
          /\ chip' = [chip EXCEPT ![SnOf] = "multi"] /\ Goto(Main, "recv")
          /\ UNCHANGED sn
       \/ /\ chip' = [chip EXCEPT                   \* refused: close(fd)
                         ![wiztoe_sn_of_fd(fd - LwipOffset)] = "closed"]
          /\ sn' = [sn EXCEPT ![fd - LwipOffset] = NoSocket]
          /\ Goto(Main, "done")
    /\ UNCHANGED <<service, came, inq, out, sntp, rest, fd, own>>

McastRecv ==
    /\ service = "mcast" /\ at[Main] = "recv" /\ inq[Main] # <<>> /\ Take(Main)
    /\ UNCHANGED <<service, at, came, out, sntp, rest, mcast, own>>

-----------------------------------------------------------------------------
(* netbios_serve() and netbios_handle(): only a query for our name, and    *)
(* only while the interface has an address, is answered.                   *)
NetbiosOpen(i) ==
    /\ service = "netbios" /\ at[i] = "open"
    /\ Goto(i, "recv") \/ Goto(i, "done")
    /\ UNCHANGED <<service, came, inq, out, sntp, rest, mcast, own>>

netbios_handle(i) ==
    IF Head(inq[i]).kind = "name" /\ address[i] # 0
    THEN <<<<Head(inq[i]).id, i>>>> ELSE <<>>
NetbiosServe(i) ==
    /\ service = "netbios" /\ at[i] = "recv" /\ inq[i] # <<>> /\ Take(i)
    /\ out' = out \o netbios_handle(i)
    /\ UNCHANGED <<service, at, came, sntp, rest, mcast, own>>

NewAddress(i) ==
    /\ service = "netbios" /\ address[i] < MaxAddress
    /\ address' = [address EXCEPT ![i] = @ + 1]
    /\ UNCHANGED <<service, at, came, inq, out, sntp, rest, mcast, pinned>>

Task ==
    \/ SntpOpen \/ SntpQuery \/ SntpReply
    \/ EchoOpen \/ EchoRecv \/ EchoSend
    \/ McastOpen \/ McastJoin \/ McastRecv
    \/ \E i \in Interfaces : NetbiosOpen(i) \/ NetbiosServe(i)
Next == Arrive \/ Task \/ \E i \in Interfaces : NewAddress(i)

Spec == Init /\ [][Next]_vars
Fairness == WF_vars(Task)
FairSpec == Spec /\ Fairness

-----------------------------------------------------------------------------
(* What is sent answers what came, once: a NetBIOS query once by any       *)
(* responder, and one whose socket is bound to its interface answers what  *)
(* came in there, whatever the other one hears (netbios.c:103-118); an     *)
(* echoed datagram goes back in order.  And a group is joined on the       *)
(* socket behind the application's descriptor, never on another's          *)
(* (mcast_join_toe.c:62-81).                                               *)
OwnReplies ==
    /\ service = "netbios" =>
          \A k \in 1 .. Len(out) :
             /\ pinned[out[k][2]] => came[out[k][1]].iface = out[k][2]
             /\ \A l \in 1 .. Len(out) : out[l] = out[k] => l = k
    /\ service = "echo" =>
          \A k \in 1 .. Len(out) - 1 :
             \/ out[k][1] < out[k + 1][1] /\ out[k + 1][2] = 1
             \/ out[k][1] = out[k + 1][1] /\ out[k + 1][2] = out[k][2] + 1
    /\ \A s \in Sockets : chip[s] = "multi" =>
          \E d \in Descriptors : fd = d + LwipOffset /\ sn[d] = s

(* The SNTP task comes to an end, with the time or without.                *)
SntpEnds == (service = "sntp" /\ at[Main] # "done") ~> (at[Main] = "done")

=============================================================================
