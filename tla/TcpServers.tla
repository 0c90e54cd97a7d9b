------------------------------ MODULE TcpServers ------------------------------
(***************************************************************************)
(* The TCP examples: loopback (server and client), tcp_server_multi_socket,*)
(* http, tcp_server_over_ssl and tcp_client_over_ssl.  Each interface runs *)
(* tasks that share nothing, so one task is the module, with the program   *)
(* it runs in `prog', its socket and the peer at the other end.            *)
(*                                                                         *)
(* Under the socket is the TOE or LwIP.  The TOE takes one transmission at *)
(* a time: send() reports EWOULDBLOCK while the last one is unacknowledged.*)
(* Above it may be mbedTLS, which keeps a record it could not send and, on *)
(* the next write, sends that one in place of the data it is given.        *)
(***************************************************************************)
EXTENDS Integers, Sequences

CONSTANTS
    Programs,        \* \subseteq {"loopback", "client", "multi", "http",
                     \*            "tls", "tls_client"}
    MaxClients,      \* bound: connections
    MaxSay,          \* bound: chunks a peer sends
    RequestRoom      \* chunks of a request http's buffer holds

VARIABLES
    prog, at,
    n,               \* connections so far
    peer,            \* "none", "here", "fin", "lost" (silent), "reset"
    heard, inq,      \* what the peer has sent; the part not yet received
    buf,             \* the task's buffer: what is to be sent
    busy,            \* a transmission is unacknowledged
    held,            \* the record mbedTLS keeps, as a sequence
    out,             \* what the peer has been sent
    error,           \* the connection was lost under the task
    bannerHeld       \* the write of the banner did not send it

conn == <<peer, heard, inq, busy, out, error>>
tls  == <<held, bannerHeld>>
vars == <<prog, at, n, conn, buf, tls>>

InSession == {"handshake", "banner", "recv", "send", "close"}

Chunks == ((1 .. MaxClients) \X (1 .. MaxSay)) \X {"chunk", "end"}
          \cup {<<"header">>, <<"body">>, <<"banner">>}
TypeOK ==
    /\ prog \in Programs
    /\ at \in InSession \cup {"link", "setup", "listen", "accept", "connect",
                              "delay", "done"}
    /\ n \in 0 .. MaxClients
    /\ peer \in {"none", "here", "fin", "lost", "reset"}
    /\ busy \in BOOLEAN /\ error \in BOOLEAN /\ bannerHeld \in BOOLEAN
    /\ \A s \in {heard, inq, buf, out, held} :
          \A j \in 1 .. Len(s) : s[j] \in Chunks

Init ==
    /\ prog \in Programs /\ at = "link" /\ n = 0
    /\ peer = "none" /\ heard = <<>> /\ inq = <<>> /\ buf = <<>>
    /\ busy = FALSE /\ held = <<>> /\ out = <<>> /\ error = FALSE
    /\ bannerHeld = FALSE

-----------------------------------------------------------------------------
(* The peer and the network *)

(* An HTTP peer ends its request with any chunk, or with none. *)
Marks == IF prog = "http" THEN {"chunk", "end"} ELSE {"chunk"}
Say ==
    /\ peer = "here" /\ Len(heard) < MaxSay
    /\ \E mark \in Marks :
          LET chunk == <<<<n, Len(heard) + 1>>, mark>>
          IN  heard' = Append(heard, chunk) /\ inq' = Append(inq, chunk)
    /\ UNCHANGED <<prog, at, n, peer, busy, out, error, buf, tls>>

Leave ==
    /\ peer = "here" /\ peer' \in {"fin", "lost"}
    /\ UNCHANGED <<prog, at, n, heard, inq, busy, out, error, buf, tls>>

(* A transmission is acknowledged, when the peer likes: one that does not  *)
(* read, and answers the chip's probes, leaves it as it is for ever.       *)
Acked ==
    /\ busy /\ peer # "lost" /\ busy' = FALSE
    /\ UNCHANGED <<prog, at, n, peer, heard, inq, out, error, buf, tls>>

(* To a peer that is silent it times out, and the socket closes.           *)
TimesOut ==
    /\ busy /\ peer = "lost"
    /\ busy' = FALSE /\ peer' = "reset" /\ error' = TRUE
    /\ UNCHANGED <<prog, at, n, heard, inq, out, buf, tls>>

-----------------------------------------------------------------------------
(* Calls on the socket *)

Goto(l) == at' = l

Begin ==       \* a connection is accepted or made
    /\ n < MaxClients /\ n' = n + 1 /\ peer' = "here"
    /\ heard' = <<>> /\ inq' = <<>> /\ out' = <<>> /\ busy' = FALSE
    /\ error' = FALSE /\ held' = <<>> /\ bannerHeld' = FALSE /\ buf' = <<>>

Recv(data) ==  \* n > 0: what has arrived, or the first part of it
    \E k \in 1 .. Len(inq) :
        /\ data = SubSeq(inq, 1, k)
        /\ inq' = SubSeq(inq, k + 1, Len(inq))
Arrived == {SubSeq(inq, 1, k) : k \in 1 .. Len(inq)}
AtEnd == inq = <<>> /\ peer \in {"fin", "reset"}       \* n <= 0
Quiet == inq = <<>> /\ peer \in {"here", "lost"}       \* SO_RCVTIMEO

Fails == peer = "reset"
Put(chunk) == out' = Append(out, chunk) /\ busy' = TRUE

Close(l) ==
    /\ at = "close" /\ Goto(l)
    /\ peer' = "none" /\ busy' = FALSE
    /\ UNCHANGED <<prog, n, heard, inq, out, error, buf, tls>>

(* send_all(): EWOULDBLOCK is no error, and the chunk is tried again.      *)
Retried_Error == FALSE                                          \* mutant
Retried == busy
SendAll(l) ==
    /\ at = "send"
    /\ \/ /\ ~busy /\ ~Fails /\ buf # <<>>
          /\ Put(Head(buf)) /\ buf' = Tail(buf) /\ Goto("send")
       \/ /\ buf = <<>> /\ Goto(l) /\ UNCHANGED <<out, busy, buf>>
       \/ /\ buf # <<>> /\ (IF busy THEN ~Retried ELSE Fails)
          /\ Goto("close") /\ UNCHANGED <<out, busy, buf>>
    /\ UNCHANGED <<prog, n, peer, heard, inq, error, tls>>

EchoRecv ==
    /\ at = "recv"
    /\ \/ \E data \in Arrived : Recv(data) /\ buf' = data /\ Goto("send")
       \/ AtEnd /\ Goto("close") /\ UNCHANGED <<inq, buf>>
    /\ UNCHANGED <<prog, n, peer, heard, busy, out, error, tls>>

-----------------------------------------------------------------------------
(* The tasks: memory, the link, socket(), bind() and listen(), all of      *)
(* which may fail.                                                         *)
Try(from, to) ==
    /\ at = from /\ (Goto(to) \/ Goto("done"))
    /\ UNCHANGED <<prog, n, conn, buf, tls>>
Listen == Try("listen", "accept")
Accept(l) == at = "accept" /\ Begin /\ Goto(l) /\ UNCHANGED prog

LoopbackTask ==
    \/ prog = "loopback" /\ Try("link", "listen")
    \/ prog = "client" /\ Try("link", "connect")

(* loopback_tcp_server() *)
LoopbackServer ==
    /\ prog = "loopback"
    /\ Listen \/ Accept("recv") \/ EchoRecv \/ SendAll("recv")
              \/ Close("accept")

(* loopback_tcp_client() and ssl_task(): a failed connect() is retried.    *)
Retry ==
    /\ \/ at = "delay" /\ Goto("connect")
       \/ at = "connect" /\ Goto("delay")
    /\ UNCHANGED <<prog, n, conn, buf, tls>>
Connect(l) == at = "connect" /\ Begin /\ Goto(l) /\ UNCHANGED prog
LoopbackClient ==
    /\ prog = "client"
    /\ Retry \/ Connect("recv") \/ EchoRecv \/ SendAll("recv")
             \/ Close("delay")

(* supervisor_task(), open_listener() and worker_task() *)
Supervisor == prog = "multi" /\ Try("link", "listen")
OpenListener == prog = "multi" /\ Listen
MultiWorker ==
    /\ prog = "multi"
    /\ Accept("recv") \/ EchoRecv \/ SendAll("recv") \/ Close("accept")

-----------------------------------------------------------------------------
(* http: a request is read up to its end or the end of the buffer, or the  *)
(* client is given up.                                                     *)
HasEnd(request) == \E j \in 1 .. Len(request) : request[j][2] = "end"
Complete(request) == HasEnd(request) \/ Len(request) = RequestRoom
Responses == {<<<<"header">>>>, <<<<"header">>, <<"body">>>>}
Taken(data) == Recv(data) /\ Len(buf \o data) <= RequestRoom
RecvRequest ==
    \/ \E data \in Arrived :
          /\ Taken(data) /\ ~Complete(buf \o data)
          /\ buf' = buf \o data /\ Goto("recv")
    \/ (AtEnd \/ Quiet) /\ Goto("close") /\ UNCHANGED <<inq, buf>>
ServeClient ==
    /\ at = "recv"
    /\ \/ RecvRequest
       \/ /\ \E data \in Arrived : Taken(data) /\ Complete(buf \o data)
          /\ buf' \in Responses /\ Goto("send")
    /\ UNCHANGED <<prog, n, peer, heard, busy, out, error, tls>>

HttpTask == prog = "http" /\ Try("link", "listen")
HttpServe ==
    /\ prog = "http"
    /\ Listen \/ Accept("recv") \/ ServeClient \/ SendAll("close")
              \/ Close("accept")

-----------------------------------------------------------------------------
(* mbedTLS over bio_send() and bio_recv_timeout() *)

(* mbedtls_ssl_write(): its outcomes are "done" and WANT_WRITE.            *)
TlsWritten(chunk) ==
    /\ ~busy /\ ~Fails /\ held' = <<>>
    /\ Put(IF held = <<>> THEN chunk ELSE Head(held))
WantWrite(chunk) ==
    /\ busy /\ held' = IF held = <<>> THEN <<chunk>> ELSE held
    /\ UNCHANGED <<out, busy>>
WriteFails == ~busy /\ Fails /\ UNCHANGED <<out, busy, held>>

(* The handshake leaves its last flight in the air; a peer that goes, or   *)
(* stays silent, makes it fail.                                            *)
Handshake ==
    /\ at = "handshake"
    /\ \/ peer = "here" /\ Goto("banner") /\ busy' \in BOOLEAN
       \/ Goto("close") /\ UNCHANGED busy
    /\ UNCHANGED <<prog, n, peer, heard, inq, out, error, buf, tls>>

(* The server's banner: what becomes of it is not looked at. *)
Banner ==
    /\ at = "banner" /\ prog = "tls" /\ Goto("recv")
    /\ \/ TlsWritten(<<"banner">>) /\ UNCHANGED bannerHeld
       \/ WantWrite(<<"banner">>) /\ bannerHeld' = TRUE
       \/ WriteFails /\ UNCHANGED bannerHeld
    /\ UNCHANGED <<prog, n, peer, heard, inq, error, buf>>

(* The client's hello is written until it is out. *)
Hello ==
    /\ at = "banner" /\ prog = "tls_client"
    /\ \/ TlsWritten(<<"banner">>) /\ Goto("recv")
       \/ WantWrite(<<"banner">>) /\ UNCHANGED at
       \/ WriteFails /\ Goto("close")
    /\ UNCHANGED <<prog, n, peer, heard, inq, error, buf, bannerHeld>>

(* mbedtls_ssl_read(): a timeout is waited out, an end is the end.         *)
TlsEnd_Idle == FALSE                                            \* mutant
TlsEnd == AtEnd
TlsRead ==
    /\ at = "recv"
    /\ \/ \E data \in Arrived :
             /\ Recv(data)
             /\ \/ prog = "tls" /\ buf' = data /\ Goto("send")
                \/ prog = "tls_client" /\ UNCHANGED <<buf, at>>
       \/ TlsEnd /\ Goto("close") /\ UNCHANGED <<inq, buf>>
    /\ UNCHANGED <<prog, n, peer, heard, busy, out, error, tls>>

TlsEcho ==
    /\ at = "send"
    /\ \/ /\ buf # <<>> /\ TlsWritten(Head(buf))
          /\ buf' = Tail(buf) /\ Goto("send")
       \/ buf # <<>> /\ WantWrite(Head(buf)) /\ Goto("send") /\ UNCHANGED buf
       \/ buf # <<>> /\ WriteFails /\ Goto("close") /\ UNCHANGED buf
       \/ buf = <<>> /\ Goto("recv") /\ UNCHANGED <<buf, out, busy, held>>
    /\ UNCHANGED <<prog, n, peer, heard, inq, error, bannerHeld>>

(* tls_setup() may fail too. *)
SslEchoTask == prog = "tls" /\ (Try("link", "setup") \/ Try("setup", "listen"))
SslServe ==
    /\ prog = "tls"
    /\ Listen \/ Accept("handshake") \/ Handshake \/ Banner \/ TlsRead
              \/ TlsEcho \/ Close("accept")

SslTask == prog = "tls_client" /\ Try("link", "connect")
SslSession ==
    /\ prog = "tls_client"
    /\ Retry \/ Connect("handshake") \/ Handshake \/ Hello \/ TlsRead
             \/ Close("delay")

Task ==
    \/ LoopbackTask \/ LoopbackServer \/ LoopbackClient
    \/ Supervisor \/ OpenListener \/ MultiWorker
    \/ HttpTask \/ HttpServe
    \/ SslEchoTask \/ SslServe \/ SslTask \/ SslSession
Next == Say \/ Leave \/ Acked \/ TimesOut \/ Task

Spec == Init /\ [][Next]_vars

(* The task runs and the chip's retransmissions time out; peers do as they *)
(* like.                                                                   *)
Fairness == WF_vars(Task) /\ WF_vars(TimesOut)
FairSpec == Spec /\ Fairness

-----------------------------------------------------------------------------
(* What has been read of an HTTP request is its end, or all that fits. *)
Read == Len(heard) - Len(inq)
RequestRead ==
    Read = RequestRoom \/ \E j \in 1 .. Read : heard[j][2] = "end"

(* A server that ends a session has echoed all that the peer sent, in      *)
(* order, and nothing else, unless the connection was lost under it or its *)
(* banner was held back (loopback.c:40-55, ssl_echo.c:217-260).  An HTTP   *)
(* client gets one answer, and only when its request has been read to the  *)
(* end or has filled the buffer (http_server.c:88-106).                    *)
Answered ==
    at = "close" /\ ~error =>
        /\ prog \in {"loopback", "client", "multi"} => out = heard
        /\ prog = "tls" /\ ~bannerHeld /\ out # <<>> =>
              out = <<<<"banner">>>> \o heard
        /\ prog = "http" /\ out # <<>> => RequestRead /\ out \in Responses

(* The same of the TLS server, whatever becomes of its banner. *)
TlsAnswered ==
    at = "close" /\ ~error /\ prog = "tls" /\ out # <<>> =>
        out = <<<<"banner">>>> \o heard

(* A session ends once its peer has gone, and an HTTP session whatever the *)
(* peer does (http_server.c:94-110), and the task then serves the next     *)
(* one: unless a peer that is there leaves a transmission unacknowledged   *)
(* for ever, since nothing bounds the wait of send() (wiznet_toe.c:592).   *)
Stalled == [](busy /\ at \in {"banner", "send"})
SessionEnds ==
    /\ (at \in InSession /\ peer \in {"fin", "reset"})
          ~> (at \notin InSession \/ Stalled)
    /\ (at \in InSession /\ prog = "http")
          ~> (at \notin InSession \/ Stalled)

=============================================================================
