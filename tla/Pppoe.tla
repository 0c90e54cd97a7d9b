------------------------------- MODULE Pppoe -------------------------------
(***************************************************************************)
(* The PPPoE client of src/examples/pppoe: ppp_start() of main/PPPoE.c, a  *)
(* state machine over a MACRAW socket that pppoe_task() calls until it     *)
(* succeeds or has failed too often, and ppp_recv(), which acts on every   *)
(* frame, in whatever state the machine is.                                *)
(*                                                                         *)
(* A call sends what its state asks for and polls for a while, 32 times    *)
(* 20 ms, for the flag it needs (its goal).  The while is long for a       *)
(* server on the same wire: it ends early only where frames get lost or    *)
(* late.  The server (access concentrator) is what the client talks to;    *)
(* faults are fixed for a behaviour:                                       *)
(*   "loss"     MaxLosses frames get lost                                  *)
(*   "late"     an answer may come after the client stopped waiting        *)
(*   "repeat"   the server repeats a request it has no answer to yet       *)
(*   "refuse"   the credentials are wrong                                  *)
(*   "order"    the server may name the authentication before the MRU      *)
(*   "options"  the server asks for an option the client does not know     *)
(***************************************************************************)
EXTENDS Naturals, Sequences

CONSTANTS
    MaxSend,     \* PPP_MAX_RETRYSEND_COUNT
    MaxRetry,    \* PPP_MAX_RETRY_COUNT
    MaxLosses,   \* bound: frames lost
    MaxRepeats,  \* bound: requests the server repeats
    FaultModes   \* the sets of faults a network and a server may have

VARIABLES
    faults, auth, losses, repeats,   \* the environment's
    rx, tx,                 \* frames to and from the client
    sid, agreed,            \* the server's session, what is settled in it
    open,                   \* Sn_SR(0) = SOCK_MACRAW
    pppoe_state, flags,     \* pppoe_control_flag, as a set
    send_count, retry_count,\* pppoe_retry_send_count, pppoe_retry_count
    goal,                   \* the flag the call polls for, "none" between calls
    auth_protocol, pppoe_ip, NAS_sessionid,
    regs,                   \* SHAR, SIPR and PSID of the chip
    result                  \* what pppoe_task() reports

env     == <<faults, auth>>
wire    == <<rx, tx, losses, repeats>>
server  == <<sid, agreed>>
learned == <<auth_protocol, pppoe_ip, NAS_sessionid>>
machine == <<pppoe_state, send_count, retry_count, goal>>
outcome == <<regs, result>>
vars == <<env, wire, server, open, machine, flags, learned, outcome>>

Flag == {"PADO", "PADS", "LCP_CR_RCV", "LCP_CR_SNT", "PAP_ACK", "CHAP_SUC",
         "IPCP_CR_RCV", "IPCP_NAK_RCV", "IPCP_CR_SNT"}

TypeOK ==
    /\ pppoe_state \in {"DISCOVERY", "LCP", "PAP", "CHAP", "IPCP", "FAILED"}
    /\ flags \subseteq Flag /\ goal \in Flag \cup {"none"}
    /\ send_count \in 0 .. MaxSend /\ retry_count \in 0 .. MaxRetry + 1
    /\ pppoe_ip \in {"none", "client", "server"}
    /\ result \in {"none", "success", "failed"}

Init ==
    /\ faults \in FaultModes /\ auth \in {"PAP", "CHAP"}
    /\ losses = 0 /\ repeats = 0 /\ rx = <<>> /\ tx = <<>>
    /\ sid = 0 /\ agreed = {} /\ open = FALSE
    /\ pppoe_state = "DISCOVERY" /\ flags = {}
    /\ send_count = 0 /\ retry_count = 0 /\ goal = "none"
    /\ auth_protocol = "none" /\ pppoe_ip = "none" /\ NAS_sessionid = 0
    /\ regs = [mac |-> "own", ip |-> "none", sid |-> 0] /\ result = "none"

-----------------------------------------------------------------------------
(* The server and the wire *)

Say(frames) == rx' = rx \o frames
LcpReq(options) == [is |-> "LCP_REQ", options |-> options]
IpcpReq(options) == [is |-> "IPCP_REQ", options |-> options]
Pads(n) == [is |-> "PADS", sid |-> n]
Only(name) == [is |-> name]

LcpOptions ==
    {<<"MRU", auth>>}
    \cup (IF "order" \in faults THEN {<<auth, "MRU">>} ELSE {})
    \cup (IF "options" \in faults THEN {<<auth, "other">>} ELSE {})
(* The unknown option is asked for until it has been rejected: a request    *)
(* that is sent again is the same, or goes on without ("plain").           *)
IpcpOptions ==
    {<<"address">>}
    \cup (IF "options" \in faults /\ "plain" \notin agreed
          THEN {<<"address", "other">>} ELSE {})
Without(options) == IF options = <<"address">> THEN {"plain"} ELSE {}

(* Both LCP requests are acknowledged: authentication begins. *)
Challenge(settled) ==
    IF auth = "CHAP" /\ {"lcp in", "lcp out"} \subseteq settled
    THEN <<Only("CHALLENGE")>> ELSE <<>>
Verdict(yes, no) ==
    IF "refuse" \in faults
    THEN Say(<<Only(no), Only("TERM_REQ")>>) /\ UNCHANGED agreed
    ELSE \E options \in IpcpOptions :
            /\ Say(<<Only(yes), IpcpReq(options)>>)
            /\ agreed' = agreed \cup {"auth"} \cup Without(options)

Serve(frame) ==
    \/ frame = "PADI" /\ Say(<<Only("PADO")>>) /\ UNCHANGED server
    \/ /\ frame = "PADR" /\ sid' = sid + 1 /\ agreed' = {}
       /\ \E options \in LcpOptions : Say(<<Pads(sid + 1), LcpReq(options)>>)
    \/ /\ frame = "LCP_REQ" /\ agreed' = agreed \cup {"lcp in"}
       /\ Say(<<Only("LCP_ACK")>> \o Challenge(agreed')) /\ UNCHANGED sid
    \/ /\ frame = "LCP_ACK" /\ agreed' = agreed \cup {"lcp out"}
       /\ Say(Challenge(agreed')) /\ UNCHANGED sid
    \/ frame = "LCP_REJ" /\ Say(<<LcpReq(<<auth>>)>>) /\ UNCHANGED server
    \/ frame = "PAP" /\ Verdict("PAP_ACK", "PAP_NAK") /\ UNCHANGED sid
    \/ frame = "RESPONSE" /\ Verdict("CHAP_OK", "CHAP_FAIL") /\ UNCHANGED sid
    \/ /\ frame = "IPCP_REJ" /\ agreed' = agreed \cup {"plain"}
       /\ Say(<<IpcpReq(<<"address">>)>>) /\ UNCHANGED sid
    \/ frame = "IPCP_ACK" /\ agreed' = agreed \cup {"ipcp out"}
       /\ UNCHANGED <<rx, sid>>
    \/ frame = "IPCP_REQ any" /\ Say(<<Only("IPCP_NAK")>>) /\ UNCHANGED server
    \/ /\ frame = "IPCP_REQ client" /\ agreed' = agreed \cup {"address"}
       /\ Say(<<Only("IPCP_ACK")>>) /\ UNCHANGED sid
    \/ frame \in {"ECHO", "TERM_ACK"} /\ UNCHANGED <<rx, server>>

Server ==
    /\ tx # <<>> /\ tx' = Tail(tx) /\ Serve(Head(tx))
    /\ UNCHANGED <<env, losses, repeats, open, machine, flags, learned,
                   outcome>>

Repeat ==
    /\ "repeat" \in faults /\ repeats < MaxRepeats /\ repeats' = repeats + 1
    /\ \/ sid > 0 /\ "lcp out" \notin agreed /\ Say(<<LcpReq(<<"MRU", auth>>)>>)
       \/ /\ "auth" \in agreed /\ "ipcp out" \notin agreed
          /\ Say(<<IpcpReq(<<"address">>)>>)
    /\ UNCHANGED <<env, tx, losses, server, open, machine, flags, learned,
                   outcome>>

Lose ==
    /\ "loss" \in faults /\ losses < MaxLosses /\ losses' = losses + 1
    /\ \/ rx # <<>> /\ rx' = Tail(rx) /\ UNCHANGED tx
       \/ tx # <<>> /\ tx' = Tail(tx) /\ UNCHANGED rx
    /\ UNCHANGED <<env, repeats, server, open, machine, flags, learned,
                   outcome>>

-----------------------------------------------------------------------------
(* ppp_recv(): what a frame does. *)

Reply(frame) == tx' = Append(tx, frame)                      \* ppp_send()
Raise(flag) == flags' = flags \cup {flag}
NoReply == UNCHANGED tx
Known(options, known) == \A i \in DOMAIN options : options[i] \in known

RecvDiscovery(f) ==
    \/ /\ f.is = "PADO" /\ Reply("PADR") /\ Raise("PADO")
       /\ UNCHANGED learned
    \/ /\ f.is = "PADS" /\ Raise("PADS") /\ NAS_sessionid' = f.sid
       /\ NoReply /\ UNCHANGED <<auth_protocol, pppoe_ip>>

(* An MRU option falls through to the code of the authentication option,   *)
(* so the last of the two is taken for the protocol.                       *)
AuthProtocol_First(options) == options[1]                       \* mutant
AuthProtocol(options) ==
    LET named == {i \in DOMAIN options : options[i] \in {"MRU", "PAP", "CHAP"}}
    IN  options[CHOOSE i \in named : \A j \in named : j <= i]
RecvLcp(f) ==
    \/ /\ f.is = "LCP_REQ" /\ auth_protocol' = AuthProtocol(f.options)
       /\ IF Known(f.options, {"MRU", "PAP", "CHAP"})
          THEN Reply("LCP_ACK") /\ Raise("LCP_CR_RCV")
          ELSE Reply("LCP_REJ") /\ UNCHANGED flags
       /\ UNCHANGED <<pppoe_ip, NAS_sessionid>>
    \/ f.is = "LCP_ACK" /\ Raise("LCP_CR_SNT") /\ NoReply /\ UNCHANGED learned

(* A terminated session is acknowledged, and goes on being negotiated.     *)
RecvTerm(f) == f.is = "TERM_REQ" /\ Reply("TERM_ACK")
               /\ UNCHANGED <<flags, learned>>

RecvAuth(f) ==
    /\ \/ f.is = "PAP_ACK" /\ Raise("PAP_ACK") /\ NoReply
       \/ f.is = "PAP_NAK" /\ NoReply /\ UNCHANGED flags
       \/ /\ auth_protocol # "CHAP" /\ f.is \in {"CHALLENGE", "CHAP_OK"}
          /\ NoReply /\ UNCHANGED flags          \* chap_algorithm is not MD5
       \/ /\ auth_protocol = "CHAP" /\ f.is = "CHALLENGE"
          /\ Reply("RESPONSE") /\ UNCHANGED flags
       \/ /\ auth_protocol = "CHAP" /\ f.is = "CHAP_OK"
          /\ Raise("CHAP_SUC") /\ NoReply
       \/ f.is = "CHAP_FAIL" /\ NoReply /\ UNCHANGED flags
    /\ UNCHANGED learned

(* The address of a request, the server's own, is kept like that of a NAK. *)
AddressOf_Kept(f) == pppoe_ip                                   \* mutant
AddressOf(f) == IF f.is = "IPCP_NAK" THEN "client" ELSE "server"
RecvIpcp(f) ==
    \/ /\ f.is \in {"IPCP_REQ", "IPCP_NAK"} /\ pppoe_ip' = AddressOf(f)
       /\ \/ /\ f.is = "IPCP_REQ" /\ Known(f.options, {"address"})
             /\ Reply("IPCP_ACK") /\ Raise("IPCP_CR_RCV")
          \/ /\ f.is = "IPCP_REQ" /\ ~Known(f.options, {"address"})
             /\ Reply("IPCP_REJ") /\ UNCHANGED flags
          \/ /\ f.is = "IPCP_NAK"
             /\ Reply("IPCP_REQ client") /\ Raise("IPCP_NAK_RCV")
       /\ UNCHANGED <<auth_protocol, NAS_sessionid>>
    \/ /\ f.is = "IPCP_ACK" /\ NoReply /\ UNCHANGED learned
       /\ IF "IPCP_NAK_RCV" \in flags THEN Raise("IPCP_CR_SNT")
          ELSE UNCHANGED flags

PppRecv(f) == RecvDiscovery(f) \/ RecvLcp(f) \/ RecvTerm(f) \/ RecvAuth(f)
              \/ RecvIpcp(f)

-----------------------------------------------------------------------------
(* ppp_start() *)

Fresh == UNCHANGED <<flags, learned, outcome>>

do_discovery == Reply("PADI")
do_lcp_echo  == Reply("ECHO")
do_lcp       == Reply("LCP_REQ")
do_pap       == Reply("PAP")
do_ipcp      == Reply("IPCP_REQ any")

(* The socket is opened by a call of its own. *)
OpenSocket ==
    /\ ~open /\ open' = TRUE
    /\ UNCHANGED <<env, wire, server, machine, flags, learned, outcome>>

(* What a call begins with: the frame is sent as long as the flag is down, *)
(* and counted; CHAP sends nothing, and in IPCP the server is to begin.    *)
Counted == send_count' = send_count + 1
SendAndWait(unless, send, flag) ==
    /\ goal' = flag
    /\ IF unless \in flags THEN UNCHANGED <<tx, send_count>>
       ELSE send /\ Counted
Wait(flag) == goal' = flag /\ NoReply /\ UNCHANGED send_count

BeginDiscovery == pppoe_state = "DISCOVERY"
                  /\ SendAndWait("PADO", do_discovery, "PADS")
BeginLcp  == pppoe_state = "LCP"
             /\ SendAndWait("LCP_CR_RCV", do_lcp_echo, "LCP_CR_RCV")
BeginPap  == pppoe_state = "PAP" /\ SendAndWait("PAP_ACK", do_pap, "PAP_ACK")
BeginChap == pppoe_state = "CHAP" /\ Wait("CHAP_SUC")
BeginIpcp == pppoe_state = "IPCP" /\ Wait("IPCP_CR_RCV")

Begin ==
    /\ open /\ goal = "none" /\ result = "none"
    /\ BeginDiscovery \/ BeginLcp \/ BeginPap \/ BeginChap \/ BeginIpcp
    /\ UNCHANGED <<env, rx, losses, repeats, server, open, pppoe_state,
                   retry_count>> /\ Fresh

(* A poll finds a frame; if it raises the flag, the call moves on. *)
Moves(state, count) ==
    pppoe_state' = state /\ send_count' = count /\ UNCHANGED outcome
ReachedPads == goal = "PADS" /\ Moves("LCP", 0)
ReachedLcp  == goal = "LCP_CR_RCV" /\ Moves(pppoe_state, 0)
ReachedAuth ==
    /\ goal = "LCP_CR_SNT"
    /\ IF auth_protocol \in {"PAP", "CHAP"} THEN Moves(auth_protocol, 0)
       ELSE Moves("FAILED", send_count)
ReachedPap  == goal = "PAP_ACK" /\ Moves("IPCP", 0)
ReachedChap == goal = "CHAP_SUC" /\ Moves("IPCP", send_count)
ReachedIpcp == goal = "IPCP_CR_RCV" /\ Moves(pppoe_state, 0)
set_pppinfo ==
    regs' = [mac |-> "NAS", ip |-> pppoe_ip, sid |-> NAS_sessionid]
ReachedEnd ==
    /\ goal = "IPCP_CR_SNT" /\ send_count' = 0 /\ UNCHANGED pppoe_state
    /\ set_pppinfo /\ result' = "success"
Reached == \/ ReachedPads \/ ReachedLcp \/ ReachedAuth \/ ReachedPap
           \/ ReachedChap \/ ReachedIpcp \/ ReachedEnd

Poll ==
    /\ goal \notin flags \cup {"none"} /\ rx # <<>>
    /\ rx' = Tail(rx) /\ PppRecv(Head(rx))
    /\ IF goal \in flags' THEN Reached
       ELSE UNCHANGED <<pppoe_state, send_count, outcome>>
    /\ UNCHANGED <<env, losses, repeats, server, open, retry_count, goal>>

(* The loop is over.  LCP and IPCP go on, if the peer's request has been   *)
(* acknowledged, with a request of their own; and the count is looked at.  *)
Quiet == rx = <<>> /\ tx = <<>>
LoopOver == goal \in flags \/ (goal # "none" /\ (Quiet \/ "late" \in faults))
Request(after, send, flag) ==
    /\ goal = after /\ goal \in flags
    /\ goal' = flag /\ send /\ Counted /\ UNCHANGED pppoe_state
RequestLcp  == Request("LCP_CR_RCV", do_lcp, "LCP_CR_SNT")
RequestIpcp == Request("IPCP_CR_RCV", do_ipcp, "IPCP_CR_SNT")
EndCall ==
    /\ goal \notin {"LCP_CR_RCV", "IPCP_CR_RCV"} \/ goal \notin flags
    /\ goal' = "none" /\ NoReply /\ UNCHANGED send_count
    /\ pppoe_state' = IF send_count >= MaxSend THEN "FAILED" ELSE pppoe_state
EndLoop ==
    /\ LoopOver
    /\ RequestLcp \/ RequestIpcp \/ EndCall
    /\ UNCHANGED <<env, rx, losses, repeats, server, open, retry_count>>
    /\ Fresh

(* PPP_FAILED: another attempt begins from PADI, or pppoe_task() gives up. *)
TaskEnds == result' = IF retry_count' > MaxRetry THEN "failed" ELSE "none"
Failed ==
    /\ pppoe_state = "FAILED" /\ goal = "none" /\ result = "none"
    /\ retry_count' = retry_count + 1
    /\ flags' = {} /\ send_count' = 0 /\ pppoe_state' = "DISCOVERY"
    /\ TaskEnds
    /\ UNCHANGED <<env, wire, server, open, goal, learned, regs>>

Client == OpenSocket \/ Begin \/ Poll \/ EndLoop \/ Failed
Next == Server \/ Repeat \/ Lose \/ Client

Spec == Init /\ [][Next]_vars
Fairness == WF_vars(Client) /\ WF_vars(Server)
FairSpec == Spec /\ Fairness

-----------------------------------------------------------------------------
(* A session is reported only once the server has let the client in, and   *)
(* the chip then has the server's session and the address it assigned; not *)
(* so when the server repeats its IPCP request after the NAK, which makes  *)
(* its own address the client's (PPPoE.c:676-719, 1389-1396).              *)
OwnAddress ==
    result = "success" /\ faults \cap {"repeat", "late"} = {} =>
        /\ {"auth", "address"} \subseteq agreed
        /\ regs.ip = "client" /\ regs.sid = sid

(* With a server that answers, a session is established, whichever way it  *)
(* authenticates and also when options have to be rejected first.          *)
Connects == (faults \subseteq {"options"} /\ open) ~> (result = "success")

(* pppoe_task() comes to a result: session or failure.  It does not where  *)
(* a call waits without sending or counting: for PADS once PADO has come,  *)
(* for CHAP's verdict, for the server's IPCP request (:1180-1210, :1323).  *)
Ends == open ~> (result # "none")

=============================================================================
