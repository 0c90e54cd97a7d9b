-------------------------------- MODULE DhcpDns --------------------------------
(***************************************************************************)
(* The DHCP client and DNS query of src/examples/dhcp_dns: one engine,     *)
(* dhcp_dns.c, run by a task for each interface.  The interfaces of one    *)
(* board may share a stack and a segment, and then every socket bound to   *)
(* port 68 hears every broadcast.                                          *)
(*                                                                         *)
(* Servers answer what they are sent, when they like, as often as they     *)
(* like or never: `sent' is what the clients have broadcast, and the       *)
(* replies to it are Arriving.  xid is random in 32 bits: here two values, *)
(* and a third transaction forgets what was sent in the first.             *)
(***************************************************************************)
EXTENDS Integers

CONSTANTS
    Interfaces, Servers,
    Setups,          \* records [started, servers, refusing, dns_retries]: the
                     \* tasks dhcp_dns_start() created, the servers there are,
                     \* may they refuse a proper REQUEST, DNS_RETRY_COUNT
    NoServer,        \* no server: an id or an address that is all zeros
    XmitTries,       \* DHCP_XMIT_TRIES
    DhcpRetries      \* DHCP_DNS_RETRY_COUNT

VARIABLES
    setup,           \* a member of Setups
    c,               \* dhcp_client_t of each interface
    run,             \* dhcp_dns_run()'s local variables
    at,              \* where each task is
    sent             \* what the servers have been sent

vars == <<setup, c, run, at, sent>>

(* An address is named by the server that has given it to the interface.   *)
Message(i, x, type, sid, ip) ==
    [from |-> i, xid |-> x, type |-> type, server_id |-> sid, ip |-> ip]

TypeOK ==
    /\ setup \in Setups
    /\ c \in [Interfaces ->
                [state : {"SELECTING", "REQUESTING", "BOUND"}, xid : {0, 1},
                 tries : 0 .. XmitTries, due : BOOLEAN, renew : BOOLEAN,
                 server_id : Servers \cup {NoServer},
                 offered : Servers \cup {NoServer},
                 lease : (Interfaces \X Servers) \cup {NoServer}]]
    /\ run \in [Interfaces ->
                [leased : BOOLEAN, resolved : BOOLEAN,
                 dhcp_retry : 0 .. DhcpRetries + 1,
                 dns_retry : 0 .. setup.dns_retries + 1]]
    /\ at \in [Interfaces -> {"link", "turn", "recv", "dns", "done"}]

(* dhcp_enter_selecting() *)
Selecting(k) ==
    [k EXCEPT !.state = "SELECTING", !.tries = 0, !.due = TRUE,
              !.xid = 1 - k.xid, !.server_id = NoServer, !.offered = NoServer]

Init ==
    /\ setup \in Setups
    /\ c = [i \in Interfaces |->
              [state |-> "SELECTING", xid |-> 0, tries |-> 0, due |-> TRUE,
               renew |-> FALSE, server_id |-> NoServer, offered |-> NoServer,
               lease |-> NoServer]]
    /\ run = [i \in Interfaces |->
              [leased |-> FALSE, resolved |-> FALSE,
               dhcp_retry |-> 0, dns_retry |-> 0]]
    /\ at = [i \in Interfaces |-> IF i \in setup.started THEN "link" ELSE "done"]
    /\ sent = {}

-----------------------------------------------------------------------------
(* What may arrive at a socket: every reply is a broadcast. *)

Reply(m, type, s) ==
    [chaddr |-> m.from, xid |-> m.xid, type |-> type, server |-> s]
Proper(m, s) == m.server_id = s /\ m.ip = s
Arriving ==
    {Reply(m, "OFFER", s) :
        m \in {n \in sent : n.type = "DISCOVER"}, s \in setup.servers}
    \cup {Reply(m, "ACK", m.server_id) :
        m \in {n \in sent : n.type = "REQUEST" /\ Proper(n, n.server_id)}}
    \cup {Reply(m, "NAK", m.server_id) :
        m \in {n \in sent : /\ n.type = "REQUEST"
                            /\ n.server_id # NoServer
                            /\ Proper(n, n.server_id) => setup.refusing}}

(* Entering SELECTING draws a new xid; the one before last is forgotten. *)
Forget(i, x) == {m \in sent : ~(m.from = i /\ m.xid = x)}
EnterSelecting(i, k) ==
    /\ c' = [c EXCEPT ![i] = Selecting(k)]
    /\ sent' = Forget(i, Selecting(k).xid)

-----------------------------------------------------------------------------
(* dhcp_dns_task(): the link comes up, and dhcp_dns_run() opens its socket *)
(* or ends.                                                                *)
Opens(i) == at' = [at EXCEPT ![i] = "turn"] /\ EnterSelecting(i, c[i])
LinkUp(i) ==
    /\ at[i] = "link"
    /\ Opens(i) \/ (at' = [at EXCEPT ![i] = "done"] /\ UNCHANGED <<c, sent>>)
    /\ UNCHANGED <<setup, run>>

(* The body of dhcp_dns_run()'s loop, by the status dhcp_step() returns.   *)
Failed(r) == [r EXCEPT !.leased = FALSE, !.dhcp_retry = @ + 1]
Engine(i, status) ==
    LET r == run[i]
        n == CASE status = "LEASED" /\ ~r.leased ->
                    [r EXCEPT !.leased = TRUE, !.dhcp_retry = 0]
               [] status = "FAILED" ->
                    Failed(r)
               [] OTHER -> r
    IN  /\ run' = [run EXCEPT ![i] = n]
        /\ at' = [at EXCEPT ![i] =
                    IF status = "FAILED" /\ n.dhcp_retry > DhcpRetries
                    THEN "done"
                    ELSE IF n.leased /\ ~n.resolved THEN "dns" ELSE "turn"]

(* dhcp_step(), a turn: hold the lease until T1, send what is due, ...     *)
HoldLease(i) ==
    /\ at[i] = "turn" /\ c[i].state = "BOUND" /\ ~c[i].renew
    /\ Engine(i, "LEASED")
    /\ UNCHANGED <<setup, c, sent>>

Transmit(i) ==
    LET k == IF c[i].state = "BOUND" THEN Selecting(c[i]) ELSE c[i]
        was == IF c[i].state = "BOUND" THEN Forget(i, k.xid) ELSE sent
        type == IF k.state = "SELECTING" THEN "DISCOVER" ELSE "REQUEST"
    IN  /\ at[i] = "turn"
        /\ c[i].state = "BOUND" => c[i].renew
        /\ \/ /\ ~k.due
              /\ c' = [c EXCEPT ![i] = k] /\ sent' = was
              /\ at' = [at EXCEPT ![i] = "recv"] /\ UNCHANGED run
           \/ /\ k.due /\ k.tries < XmitTries
              /\ c' = [c EXCEPT ![i] = [k EXCEPT !.tries = @ + 1,
                                                 !.due = FALSE]]
              /\ sent' = was \cup
                    {Message(i, k.xid, type, k.server_id, k.offered)}
              /\ at' = [at EXCEPT ![i] = "recv"] /\ UNCHANGED run
           \/ /\ k.due /\ k.tries >= XmitTries
              /\ EnterSelecting(i, k) /\ Engine(i, "FAILED")
        /\ UNCHANGED setup

(* ... and wait for a datagram.  DHCP_STEP_PACKETS turns make one call:    *)
(* after any of them the call may be over.                                 *)
NextTurn(i) ==
    \/ at' = [at EXCEPT ![i] = "turn"] /\ UNCHANGED run
    \/ Engine(i, "PENDING")

RecvTimeout(i) ==
    /\ at[i] = "recv" /\ Engine(i, "PENDING")
    /\ UNCHANGED <<setup, c, sent>>

(* dhcp_parse(): whose reply it is, and the server id that any one leaves. *)
ForUs_AnyHost(i, m) == m.xid = c[i].xid                         \* mutant
ForUs(i, m) == m.xid = c[i].xid /\ m.chaddr = i
Parsed(i, m) == [c[i] EXCEPT !.server_id = m.server]

RecvOther(i) ==
    /\ at[i] = "recv" /\ NextTurn(i)
    /\ \E m \in Arriving :
          \/ ~ForUs(i, m) /\ UNCHANGED c
          \/ /\ ForUs(i, m)
             /\ \/ m.type = "OFFER" /\ c[i].state # "SELECTING"
                \/ m.type = "ACK" /\ c[i].state # "REQUESTING"
             /\ c' = [c EXCEPT ![i] = Parsed(i, m)]
    /\ UNCHANGED <<setup, sent>>

RecvNak(i) ==
    /\ at[i] = "recv" /\ NextTurn(i)
    /\ \E m \in Arriving : ForUs(i, m) /\ m.type = "NAK"
    /\ EnterSelecting(i, c[i])
    /\ UNCHANGED setup

RecvOffer(i) ==
    /\ at[i] = "recv" /\ c[i].state = "SELECTING" /\ NextTurn(i)
    /\ \E m \in Arriving :
          /\ ForUs(i, m) /\ m.type = "OFFER"
          /\ c' = [c EXCEPT ![i] =
                     [Parsed(i, m) EXCEPT
                         !.offered = m.server, !.state = "REQUESTING",
                         !.tries = 0, !.due = TRUE]]
    /\ UNCHANGED <<setup, sent>>

(* The lease is installed: apply_lease(). *)
apply_lease(k, m) == [k EXCEPT !.lease = <<m.chaddr, m.server>>]
RecvAck(i) ==
    /\ at[i] = "recv" /\ c[i].state = "REQUESTING"
    /\ \E m \in Arriving :
          /\ ForUs(i, m) /\ m.type = "ACK"
          /\ c' = [c EXCEPT ![i] =
                     [apply_lease(Parsed(i, m), m) EXCEPT
                         !.state = "BOUND", !.renew = FALSE]]
    /\ Engine(i, "LEASED")
    /\ UNCHANGED <<setup, sent>>

(* dns_resolve(), once a lease is held: one query and one datagram, which  *)
(* may be anything or nothing.                                             *)
Datagrams == {"answer", "error", "stray", "none"}
dns_parse(datagram) == datagram = "answer"
Unresolved(r) == [r EXCEPT !.dns_retry = @ + 1]
Resolve(i) ==
    /\ at[i] = "dns"
    /\ \E datagram \in Datagrams :
          run' = [run EXCEPT ![i] = IF dns_parse(datagram)
                                    THEN [@ EXCEPT !.resolved = TRUE]
                                    ELSE Unresolved(@)]
    /\ at' = [at EXCEPT ![i] =
                IF run'[i].dns_retry > setup.dns_retries THEN "done" ELSE "turn"]
    /\ UNCHANGED <<setup, c, sent>>

(* Time: next_tx_us or renew_at_us is reached. *)
Timer(i) ==
    /\ at[i] \notin {"link", "done"}
    /\ \/ /\ c[i].state = "BOUND" /\ ~c[i].renew
          /\ c' = [c EXCEPT ![i].renew = TRUE]
       \/ /\ c[i].state # "BOUND" /\ ~c[i].due
          /\ c' = [c EXCEPT ![i].due = TRUE]
    /\ UNCHANGED <<setup, run, at, sent>>

Task(i) ==
    \/ HoldLease(i) \/ Transmit(i) \/ RecvTimeout(i) \/ RecvOther(i)
    \/ RecvNak(i) \/ RecvOffer(i) \/ RecvAck(i) \/ Resolve(i)

Next == \E i \in Interfaces : LinkUp(i) \/ Task(i) \/ Timer(i)

Spec == Init /\ [][Next]_vars

Fairness == \A i \in Interfaces : WF_vars(Task(i)) /\ WF_vars(Timer(i))
FairSpec == Spec /\ Fairness

-----------------------------------------------------------------------------
(* An interface holds an address only when a server has given it to that   *)
(* interface, in the transaction that is open, and it is the address the   *)
(* interface asked for: the two clients never take each other's leases     *)
(* (README.md:172), nor one of a transaction they have left                *)
(* (dhcp_dns.c:276-315, :353-377).                                         *)
OwnLease ==
    \A i \in Interfaces :
        c[i].state = "BOUND" =>
            /\ c[i].lease = <<i, c[i].offered>>
            /\ \E m \in sent : /\ m.from = i /\ m.xid = c[i].xid
                               /\ m.type = "REQUEST" /\ Proper(m, c[i].offered)

(* A client that has no lease, or is renewing one, comes to hold a lease   *)
(* or ends after its retries (README.md:173), unless it is refused for     *)
(* ever: a NAK starts over without being counted (dhcp_dns.c:355-358), and *)
(* proper servers give them too, when two of them have made offers.  The   *)
(* late one changes server_id but not the address asked for (:309), and    *)
(* the retransmitted REQUEST then asks the second server for the address   *)
(* of the first.                                                           *)
LeasedOrEnds ==
    \A i \in Interfaces :
        <>[][~RecvNak(i)]_vars =>
            ((at[i] = "turn" /\ c[i].state # "BOUND") ~>
                (c[i].state = "BOUND" \/ at[i] = "done"))

=============================================================================
