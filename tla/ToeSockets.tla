----------------------------- MODULE ToeSockets -----------------------------
(***************************************************************************)
(* The descriptor and hardware-socket tables of the TOE socket layer       *)
(* (src/port/ioLibrary_Driver/src/wiznet_toe.c) as several FreeRTOS tasks  *)
(* use them, together with the part of the W5500 they poll: the status     *)
(* register Sn_SR of every hardware socket, and the remote clients that    *)
(* move it.                                                                *)
(*                                                                         *)
(* The file holds no lock.  A call is cut where the calling task can lose  *)
(* the processor: always at toe_yield_1ms(), and, when Preempt is TRUE,    *)
(* also at every chip access (an SPI transfer takes a mutex and may        *)
(* block).  Code that only touches memory between two such points is one   *)
(* step.                                                                   *)
(***************************************************************************)
EXTENDS Integers, FiniteSets

CONSTANTS
    NumSocks,   \* WIZTOE_MAX_SOCK: hardware sockets of the chip
    NumDescs,   \* WIZTOE_MAX_DESC: descriptors
    Tasks,      \* tasks that call the socket API
    Clients,    \* remote peers, each of which connects at most once
    NoClient,   \* not a client
    Preempt,    \* TRUE: a task may also lose the processor at a chip access
    ShareFds    \* TRUE: a task may use a descriptor another one is blocked on

ASSUME NumSocksAssumption == NumSocks \in Nat \ {0}
ASSUME NumDescsAssumption == NumDescs \in Nat \ {0}
ASSUME ClientAssumption   == NoClient \notin Clients
ASSUME ModeAssumption     == Preempt \in BOOLEAN /\ ShareFds \in BOOLEAN

Socks == 0 .. NumSocks - 1
Descs == 0 .. NumDescs - 1

TOE_SN_FREE == -1
TOE_SN_RAW  == -2
NONE        == -1      \* g_desc[fd].sn of a descriptor without a socket

VARIABLES
    used,       \* g_desc[fd].used, as the set of descriptors in use
    sn,         \* g_desc[fd].sn
    udp,        \* g_desc[fd].is_udp, as a set
    opened,     \* g_desc[fd].opened, as a set
    listening,  \* g_desc[fd].listening, as a set
    owner,      \* g_sn_owner
    sr,         \* Sn_SR of each hardware socket
    client,     \* the client whose connection a hardware socket holds
    hasIp,      \* SIPR # 0
    syn,        \* how far each client has come
    task,       \* the call each task is in, and where
    peer        \* history: the client accept() handed a descriptor out for

descVars == <<used, sn, udp, opened, listening>>
chipVars == <<sr, client>>
vars == <<used, sn, udp, opened, listening, owner, sr, client, hasIp, syn,
          task, peer>>

-----------------------------------------------------------------------------
(* The status register.  The states that only a chip timeout or the peer's *)
(* FIN ends (FIN_WAIT, CLOSING, TIME_WAIT, LAST_ACK) are one: the code     *)
(* never tells them apart.                                                 *)

Status == {"CLOSED", "INIT", "LISTEN", "SYNRECV", "ESTABLISHED",
           "CLOSE_WAIT", "CLOSING", "SYNSENT", "UDP"}

(* accept()'s whitelist: the states it hands over to a new descriptor and  *)
(* the states it waits in.  In SOCK_INIT it repeats the LISTEN command; in *)
(* any other state it re-opens the socket.                                 *)
Connected == {"ESTABLISHED", "CLOSE_WAIT"}
Armed_IgnoreTheRest == Status \ (Connected \cup {"INIT"})       \* mutant
Armed == {"LISTEN", "SYNRECV"}

(* Where a task is.  "poll" and "discon" are the two toe_yield_1ms() of    *)
(* accept() and toe_tcp_disconnect_bounded().                              *)
YieldPoints == {"idle", "poll", "discon"}
Places == YieldPoints \cup {"established", "open", "listen", "connecting",
                            "close", "release", "rearm"}

(* The calls.  "accept" waits for ever, "tryaccept" is non-blocking or has *)
(* a timeout; "accepted" is either once it has a connection to return.     *)
Accepting == {"accept", "tryaccept"}
Calls == Accepting \cup {"none", "listen", "accepted", "connect",
                         "shutdown", "close", "raw", "rearm"}

Idle == [pc |-> "idle", call |-> "none", fd |-> NONE, sn |-> NONE,
         todo |-> {}]
In(pc, call, fd, s) ==
    [pc |-> pc, call |-> call, fd |-> fd, sn |-> s, todo |-> {}]

-----------------------------------------------------------------------------
(* The tables hold what their C types are for, and every call is at a
   place it can be at. *)
TypeOK ==
    /\ used \subseteq Descs
    /\ sn \in [Descs -> Socks \cup {NONE}]
    /\ udp \subseteq Descs
    /\ opened \subseteq Descs
    /\ listening \subseteq Descs
    /\ owner \in [Socks -> Descs \cup {TOE_SN_FREE, TOE_SN_RAW}]
    /\ sr \in [Socks -> Status]
    /\ client \in [Socks -> Clients \cup {NoClient}]
    /\ hasIp \in BOOLEAN
    /\ syn \in [Clients -> {"none", "sent", "lost"}]
    /\ task \in [Tasks -> [pc : Places, call : Calls,
                           fd : Descs \cup {NONE}, sn : Socks \cup {NONE},
                           todo : SUBSET Descs]]
    /\ peer \in [Descs -> Clients \cup {NoClient}]

(* The state toe_tables_init() leaves, before the chip has an address.     *)
Init ==
    /\ used = {}
    /\ sn = [fd \in Descs |-> NONE]
    /\ udp = {} /\ opened = {} /\ listening = {}
    /\ owner = [s \in Socks |-> TOE_SN_FREE]
    /\ sr = [s \in Socks |-> "CLOSED"]
    /\ client = [s \in Socks |-> NoClient]
    /\ hasIp = FALSE
    /\ syn = [c \in Clients |-> "none"]
    /\ task = [t \in Tasks |-> Idle]
    /\ peer = [fd \in Descs |-> NoClient]

-----------------------------------------------------------------------------
(* Helpers *)

FreeSocks == {s \in Socks : owner[s] = TOE_SN_FREE}
Unused_FromOne == {fd \in Descs \ used : fd > 0}               \* mutant
Unused == Descs \ used
Lowest(x, S) == x \in S /\ \A y \in S : x <= y

Ready(fd) == fd \in used /\ sn[fd] # NONE                 \* toe_fd_ready()

(* A descriptor its owner has not given a role yet.  The application does  *)
(* not bind, listen or connect twice.                                      *)
Plain(fd) == Ready(fd) /\ fd \notin opened \cup listening

(* The processor: without preemption a task keeps it up to its next yield. *)
MayRun(t) ==
    Preempt \/ \A u \in Tasks \ {t} : task[u].pc \in YieldPoints

InUse(fd) == \E u \in Tasks : task[u].fd = fd /\ task[u].call # "rearm"
MayUse(fd) == ShareFds \/ ~InUse(fd)

CanCall(t) == MayRun(t) /\ task[t] = Idle
At(t, pc)  == MayRun(t) /\ task[t].pc = pc

Goto(t, place) == task' = [task EXCEPT ![t] = place]

(* The place of a task that begins toe_rearm_pending_listeners() *)
RearmAll_Dropped == Idle                                       \* mutant
RearmAll_OneMore ==                                            \* mutant
    [In("rearm", "rearm", NONE, NONE) EXCEPT !.todo = 0 .. NumDescs]
RearmAll == [In("rearm", "rearm", NONE, NONE) EXCEPT !.todo = Descs]

(* toe_desc_clear() *)
DescClear(fd) ==
    /\ used' = used \ {fd}
    /\ sn' = [sn EXCEPT ![fd] = NONE]
    /\ udp' = udp \ {fd}
    /\ opened' = opened \ {fd}
    /\ listening' = listening \ {fd}
    /\ peer' = [peer EXCEPT ![fd] = NoClient]

(* What CLOSE, and so a re-open, does to the chip's socket.                *)
ChipSet(s, state) ==
    /\ sr' = [sr EXCEPT ![s] = state]
    /\ client' = [client EXCEPT ![s] = NoClient]

(* A turn of accept()'s loop ends in a yield, or in a return when the      *)
(* listener is non-blocking or its SO_RCVTIMEO has passed.                 *)
AfterTurn(t) ==
    {In("poll", task[t].call, task[t].fd, NONE)}
        \cup (IF task[t].call = "tryaccept" THEN {Idle} ELSE {})

(* Where a call goes on once toe_listener_reopen() has returned. *)
AfterReopen(t) ==
    CASE task[t].call \in Accepting -> AfterTurn(t)
      [] task[t].call = "rearm"     -> {[task[t] EXCEPT !.pc = "rearm"]}
      [] OTHER                      -> {Idle}
Resume(t, places) == \E place \in places : Goto(t, place)

(* toe_listener_disarm() *)
Disarm_KeepsOwner(fd) ==                                       \* mutant
    /\ sn' = [sn EXCEPT ![fd] = NONE]
    /\ opened' = opened \ {fd}
    /\ UNCHANGED owner
Disarm(fd) ==
    /\ owner' = IF sn[fd] = NONE THEN owner
                ELSE [owner EXCEPT ![sn[fd]] = TOE_SN_FREE]
    /\ sn' = [sn EXCEPT ![fd] = NONE]
    /\ opened' = opened \ {fd}

-----------------------------------------------------------------------------
(* The calls.  A call that fails on its first test changes nothing and is  *)
(* not an action.                                                          *)

(* wiztoe_socket(): a descriptor, then a hardware socket for it. *)
Socket(t, isUdp) ==
    /\ CanCall(t)
    /\ \E fd \in Descs :
        /\ Lowest(fd, Unused)
        /\ \/ \E s \in Socks :
                /\ Lowest(s, FreeSocks)
                /\ owner' = [owner EXCEPT ![s] = fd]
                /\ used' = used \cup {fd}
                /\ sn' = [sn EXCEPT ![fd] = s]
                /\ udp' = IF isUdp THEN udp \cup {fd} ELSE udp \ {fd}
                /\ opened' = opened \ {fd}
                /\ listening' = listening \ {fd}
                /\ peer' = [peer EXCEPT ![fd] = NoClient]
           \/ FreeSocks = {} /\ DescClear(fd) /\ UNCHANGED owner
    /\ UNCHANGED <<chipVars, hasIp, syn, task>>

(* wiztoe_bind() of a UDP descriptor, or wiztoe_sendto() on one that is not  *)
(* bound yet, opens it.  A TCP bind only keeps a port.                     *)
Bind(t, fd) ==
    /\ CanCall(t) /\ MayUse(fd)
    /\ Plain(fd) /\ fd \in udp
    /\ ChipSet(sn[fd], "UDP")
    /\ opened' = opened \cup {fd}
    /\ UNCHANGED <<used, sn, udp, listening, owner, hasIp, syn, task, peer>>

(* wiztoe_listen() up to toe_listener_reopen() *)
Listen(t, fd) ==
    /\ CanCall(t) /\ MayUse(fd)
    /\ Plain(fd) /\ fd \notin udp
    /\ listening' = listening \cup {fd}
    /\ Goto(t, In("open", "listen", fd, sn[fd]))
    /\ UNCHANGED <<used, sn, udp, opened, owner, chipVars, hasIp, syn, peer>>

(* toe_listener_reopen(): without an address the open is deferred, else    *)
(* socket() closes whatever the hardware socket held and leaves SOCK_INIT. *)
Open(t) ==
    /\ At(t, "open")
    /\ LET fd == task[t].fd
           s  == task[t].sn
       IN \/ /\ ~hasIp
             /\ opened' = opened \ {fd}
             /\ Resume(t, AfterReopen(t))
             /\ UNCHANGED chipVars
          \/ /\ hasIp
             /\ ChipSet(s, "INIT")
             /\ opened' = opened \cup {fd}
             /\ Goto(t, [task[t] EXCEPT !.pc = "listen"])
    /\ UNCHANGED <<used, sn, udp, listening, owner, hasIp, syn, peer>>

(* ioLibrary listen() took the LISTEN command. *)
ListenOk(t) ==
    /\ At(t, "listen")
    /\ sr[task[t].sn] = "INIT"
    /\ sr' = [sr EXCEPT ![task[t].sn] = "LISTEN"]
    /\ Resume(t, AfterReopen(t))
    /\ UNCHANGED <<descVars, owner, client, hasIp, syn, peer>>

(* ioLibrary listen() failed: the socket was not in SOCK_INIT, or it left  *)
(* SOCK_LISTEN (a SYN arrived) before the library read the status back, in *)
(* which case the library closes it.  wiztoe_listen() gives up listening;  *)
(* every other caller gives up the hardware socket.                        *)
ListenFail(t) ==
    /\ At(t, "listen")
    /\ LET fd == task[t].fd
           s  == task[t].sn
       IN /\ \/ /\ sr[s] # "INIT"
                /\ UNCHANGED <<chipVars, syn>>
             \/ /\ sr[s] = "INIT"
                /\ \E c \in Clients :
                     syn[c] = "none" /\ syn' = [syn EXCEPT ![c] = "lost"]
                /\ ChipSet(s, "CLOSED")
          /\ IF task[t].call = "listen"
             THEN listening' = listening \ {fd} /\ UNCHANGED <<owner, sn, opened>>
             ELSE Disarm(fd) /\ UNCHANGED listening
          /\ Resume(t, AfterReopen(t))
    /\ UNCHANGED <<used, udp, hasIp, peer>>

(* wiztoe_accept() up to its loop *)
Accept(t, fd) ==
    /\ CanCall(t) /\ MayUse(fd)
    /\ fd \in used /\ fd \in listening
    /\ \E call \in Accepting : Goto(t, In("poll", call, fd, NONE))
    /\ UNCHANGED <<descVars, owner, chipVars, hasIp, syn, peer>>

(* toe_listener_rearm(fd) when a hardware socket is free: claim it, and    *)
(* open it next.                                                           *)
Rearm(t, fd, call, todo) ==
    \E s \in Socks :
        /\ Lowest(s, FreeSocks)
        /\ owner' = [owner EXCEPT ![s] = fd]
        /\ sn' = [sn EXCEPT ![fd] = s]
        /\ Goto(t, [In("open", call, fd, s) EXCEPT !.todo = todo])

(* A turn of accept()'s loop over a listener without a hardware socket *)
PollUnarmed(t) ==
    /\ At(t, "poll")
    /\ LET fd == task[t].fd
       IN /\ sn[fd] = NONE
          /\ \/ Rearm(t, fd, task[t].call, {})
             \/ /\ FreeSocks = {}
                /\ Resume(t, AfterTurn(t))
                /\ UNCHANGED <<owner, sn>>
    /\ UNCHANGED <<used, udp, opened, listening, chipVars, hasIp, syn, peer>>

(* A turn of accept()'s loop over an armed listener: the whitelist on Sn_SR *)
PollArmed(t) ==
    /\ At(t, "poll")
    /\ LET fd == task[t].fd
           s  == sn[fd]
       IN /\ s # NONE
          /\ \/ /\ sr[s] \in Connected
                /\ Goto(t, In("established", task[t].call, fd, s))
             \/ /\ sr[s] \in Armed
                /\ Resume(t, AfterTurn(t))
             \/ /\ sr[s] = "INIT"
                /\ Goto(t, In("listen", task[t].call, fd, s))
             \/ /\ sr[s] \notin Connected \cup Armed \cup {"INIT"}
                /\ Goto(t, In("open", task[t].call, fd, s))
    /\ UNCHANGED <<descVars, owner, chipVars, hasIp, syn, peer>>

(* toe_accept_established() with no descriptor left: SOCK_WOULDBLOCK *)
EstablishedNoDesc(t) ==
    /\ At(t, "established")
    /\ Unused = {}
    /\ Goto(t, Idle)
    /\ UNCHANGED <<descVars, owner, chipVars, hasIp, syn, peer>>

(* The sockets after a hand-over: the connection has the listener's. *)
HandOver_Shared(fd, cfd) == [sn EXCEPT ![cfd] = sn[fd]]        \* mutant
HandOver(fd, cfd) == [sn EXCEPT ![cfd] = sn[fd], ![fd] = NONE]

(* toe_accept_established(): the connection keeps the hardware socket under *)
(* a new descriptor and the listener takes a free one.  The listener's     *)
(* hardware socket is read again here; with preemption it may be gone (a   *)
(* write outside g_sn_owner in the code, modelled as no write).            *)
Established(t) ==
    /\ At(t, "established")
    /\ LET fd == task[t].fd
           s  == sn[fd]
       IN \E cfd \in Descs :
            /\ Lowest(cfd, Unused)
            /\ used' = used \cup {cfd}
            /\ udp' = udp \ {cfd}
            /\ listening' = listening \ {cfd}
            /\ opened' = (opened \cup {cfd}) \ {fd}
            /\ peer' = [peer EXCEPT ![cfd] = IF s = NONE THEN NoClient
                                             ELSE client[s]]
            /\ LET moved == IF s = NONE THEN owner
                            ELSE [owner EXCEPT ![s] = cfd]
                   left  == FreeSocks \ {s}
               IN \/ /\ left = {}
                     /\ owner' = moved
                     /\ sn' = HandOver(fd, cfd)
                     /\ Goto(t, Idle)
                  \/ \E n \in Socks :
                     /\ Lowest(n, left)
                     /\ owner' = [moved EXCEPT ![n] = fd]
                     /\ sn' = [HandOver(fd, cfd) EXCEPT ![fd] = n]
                     /\ Goto(t, In("open", "accepted", fd, n))
    /\ UNCHANGED <<chipVars, hasIp, syn>>

(* wiztoe_connect() of a TCP descriptor; ioLibrary connect() spins on the  *)
(* status register without a yield.                                        *)
Connect(t, fd) ==
    /\ CanCall(t) /\ MayUse(fd)
    /\ Plain(fd) /\ fd \notin udp
    /\ hasIp
    /\ ChipSet(sn[fd], "SYNSENT")
    /\ opened' = opened \cup {fd}
    /\ Goto(t, In("connecting", "connect", fd, sn[fd]))
    /\ UNCHANGED <<used, sn, udp, listening, owner, hasIp, syn, peer>>

ConnectReturns(t) ==
    /\ At(t, "connecting")
    /\ sr[task[t].sn] # "SYNSENT"
    /\ Goto(t, Idle)
    /\ UNCHANGED <<descVars, owner, chipVars, hasIp, syn, peer>>

(* toe_tcp_disconnect_bounded() up to its wait, then the call's next place. *)
(* Whether the link is up is read from the PHY: either answer.              *)
Disconnect(t, fd, call, next) ==
    LET s == sn[fd]
    IN \/ /\ sr[s] \in Connected
          /\ sr' = [sr EXCEPT ![s] = "CLOSING"]
          /\ Goto(t, In("discon", call, fd, s))
       \/ /\ Goto(t, next)
          /\ UNCHANGED sr

(* wiztoe_shutdown(fd, SHUT_WR) *)
Shutdown(t, fd) ==
    /\ CanCall(t) /\ MayUse(fd)
    /\ Ready(fd) /\ fd \notin udp
    /\ Disconnect(t, fd, "shutdown", Idle)
    /\ UNCHANGED <<descVars, owner, client, hasIp, syn, peer>>

(* wiztoe_close() up to the wait for the peer's FIN *)
Close(t, fd) ==
    /\ CanCall(t) /\ MayUse(fd)
    /\ fd \in used
    /\ \/ /\ sn[fd] = NONE
          /\ DescClear(fd)
          /\ Goto(t, RearmAll)
          /\ UNCHANGED sr
       \/ /\ sn[fd] # NONE /\ fd \in udp
          /\ Goto(t, In("close", "close", fd, sn[fd]))
          /\ UNCHANGED <<descVars, sr, peer>>
       \/ /\ sn[fd] # NONE /\ fd \notin udp
          /\ Disconnect(t, fd, "close", In("close", "close", fd, sn[fd]))
          /\ UNCHANGED <<descVars, peer>>
    /\ UNCHANGED <<owner, client, hasIp, syn>>

(* ioLibrary disconnect() instead: it waits for SOCK_CLOSED. *)
DisconnectReturns_OnlyClosed(t) ==                             \* mutant
    /\ At(t, "discon")
    /\ sr[task[t].sn] = "CLOSED"
    /\ Goto(t, IF task[t].call = "close" THEN [task[t] EXCEPT !.pc = "close"]
               ELSE Idle)
    /\ UNCHANGED <<descVars, owner, chipVars, hasIp, syn, peer>>

(* The wait ends: the chip is closed or timed out, the link went down, or  *)
(* WIZTOE_DISCONNECT_TIMEOUT_MS have passed, which they may at any time.   *)
DisconnectReturns(t) ==
    /\ At(t, "discon")
    /\ Goto(t, IF task[t].call = "close" THEN [task[t] EXCEPT !.pc = "close"]
               ELSE Idle)
    /\ UNCHANGED <<descVars, owner, chipVars, hasIp, syn, peer>>

(* ioLibrary close(), for an opened descriptor and for a reserved socket *)
MustClose_NotListener(t) ==                                    \* mutant
    task[t].call = "raw" \/ task[t].fd \in opened \ listening
MustClose(t) == task[t].call = "raw" \/ task[t].fd \in opened
CloseChip(t) ==
    /\ At(t, "close")
    /\ IF MustClose(t)
       THEN ChipSet(task[t].sn, "CLOSED")
       ELSE UNCHANGED chipVars
    /\ Goto(t, [task[t] EXCEPT !.pc = "release"])
    /\ UNCHANGED <<descVars, owner, hasIp, syn, peer>>

(* toe_sn_release() and, in wiztoe_close(), toe_desc_clear(); then         *)
(* toe_rearm_pending_listeners() over every descriptor.                    *)
Release(t) ==
    /\ At(t, "release")
    /\ LET fd == task[t].fd
           s  == task[t].sn
       IN /\ owner' = IF s = NONE THEN owner
                      ELSE [owner EXCEPT ![s] = TOE_SN_FREE]
          /\ IF task[t].call = "raw"
             THEN UNCHANGED <<used, sn, udp, opened, listening, peer>>
             ELSE DescClear(fd)
    /\ Goto(t, RearmAll)
    /\ UNCHANGED <<chipVars, hasIp, syn>>

(* toe_rearm_pending_listeners(): the next listener without a socket, in   *)
(* descriptor order, until none is left or no socket is free.              *)
Pending(todo) == {fd \in todo : fd \in used \cap listening /\ sn[fd] = NONE}

RearmNext(t) ==
    /\ At(t, "rearm")
    /\ \E fd \in Descs :
        /\ Lowest(fd, Pending(task[t].todo))
        /\ Rearm(t, fd, "rearm", {d \in task[t].todo : d > fd})
    /\ UNCHANGED <<used, udp, opened, listening, chipVars, hasIp, syn, peer>>

RearmDone(t) ==
    /\ At(t, "rearm")
    /\ FreeSocks = {} \/ Pending(task[t].todo) = {}
    /\ Goto(t, Idle)
    /\ UNCHANGED <<descVars, owner, chipVars, hasIp, syn, peer>>

(* wiztoe_socket_reserve() and wiztoe_socket_release(), the latter by the  *)
(* holder of the reservation *)
Reserve(t) ==
    /\ CanCall(t)
    /\ \E s \in Socks :
        /\ Lowest(s, FreeSocks)
        /\ owner' = [owner EXCEPT ![s] = TOE_SN_RAW]
    /\ UNCHANGED <<descVars, chipVars, hasIp, syn, task, peer>>

ReleaseRaw(t, s) ==
    /\ CanCall(t)
    /\ owner[s] = TOE_SN_RAW
    /\ \A u \in Tasks : ~(task[u].call = "raw" /\ task[u].sn = s)
    /\ Goto(t, In("close", "raw", NONE, s))
    /\ UNCHANGED <<descVars, owner, chipVars, hasIp, syn, peer>>

-----------------------------------------------------------------------------
(* The chip and the network.  A SYN goes to any socket that listens.       *)

SynArrives(c, s) ==
    /\ syn[c] = "none" /\ sr[s] = "LISTEN"
    /\ syn' = [syn EXCEPT ![c] = "sent"]
    /\ client' = [client EXCEPT ![s] = c]
    /\ sr' = [sr EXCEPT ![s] = "SYNRECV"]
    /\ UNCHANGED <<descVars, owner, hasIp, task, peer>>

Becomes(s, before, after) ==
    /\ sr[s] \in before
    /\ sr' = [sr EXCEPT ![s] = after]
    /\ client' = [client EXCEPT ![s] = IF after = "CLOSED" THEN NoClient ELSE @]
    /\ UNCHANGED <<descVars, owner, hasIp, syn, task, peer>>

HandshakeDone(s)  == Becomes(s, {"SYNRECV", "SYNSENT"}, "ESTABLISHED")
HandshakeFails(s) == Becomes(s, {"SYNRECV", "SYNSENT"}, "CLOSED")
PeerFin(s)        == Becomes(s, {"ESTABLISHED"}, "CLOSE_WAIT")
PeerReset(s)      == Becomes(s, {"ESTABLISHED", "CLOSE_WAIT"}, "CLOSED")
ClosingDone(s)    == Becomes(s, {"CLOSING"}, "CLOSED")

(* wiztoe_network_init() or the DHCP client writes SIPR; starting a DHCP   *)
(* round clears it.                                                        *)
AddressChange ==
    /\ hasIp' = ~hasIp
    /\ UNCHANGED <<descVars, owner, chipVars, syn, task, peer>>

-----------------------------------------------------------------------------
NewCall(t) ==
    \/ \E isUdp \in BOOLEAN : Socket(t, isUdp)
    \/ \E fd \in Descs : \/ Bind(t, fd) \/ Listen(t, fd) \/ Accept(t, fd)
                         \/ Connect(t, fd) \/ Shutdown(t, fd) \/ Close(t, fd)
    \/ Reserve(t)
    \/ \E s \in Socks : ReleaseRaw(t, s)

(* The rest of a call that has begun *)
Step(t) ==
    \/ Open(t) \/ ListenOk(t) \/ ListenFail(t)
    \/ PollUnarmed(t) \/ PollArmed(t)
    \/ EstablishedNoDesc(t) \/ Established(t)
    \/ ConnectReturns(t) \/ DisconnectReturns(t)
    \/ CloseChip(t) \/ Release(t) \/ RearmNext(t) \/ RearmDone(t)

Chip(s) ==
    \/ \E c \in Clients : SynArrives(c, s)
    \/ HandshakeDone(s) \/ HandshakeFails(s)
    \/ PeerFin(s) \/ PeerReset(s) \/ ClosingDone(s)

Next ==
    \/ \E t \in Tasks : NewCall(t) \/ Step(t)
    \/ \E s \in Socks : Chip(s)
    \/ AddressChange

Spec == Init /\ [][Next]_vars

(* The scheduler runs every task that is ready: the tasks have one         *)
(* priority and FreeRTOS shares the processor among them in turn, so a     *)
(* task that can often go on does.  The chip ends a handshake, by its own  *)
(* retransmission timeout if need be.  It need not end a closing one (with *)
(* the cable out its timeout does not advance), the network need not do    *)
(* anything, and the application need not call.                            *)
Fairness ==
    /\ \A t \in Tasks : SF_vars(Step(t))
    /\ \A s \in Socks : WF_vars(HandshakeDone(s) \/ HandshakeFails(s))

FairSpec == Spec /\ Fairness

-----------------------------------------------------------------------------
(* Properties.  They hold when tasks switch at yields only and nobody uses *)
(* a descriptor another task is blocked on.                                *)

Serial == ~Preempt /\ ~ShareFds

(* The states in which a socket holds, or can take, a client's connection *)
CanAccept == {"LISTEN", "SYNRECV", "ESTABLISHED", "CLOSE_WAIT"}

(* The two tables are inverse to each other: a hardware socket is owned by *)
(* a descriptor exactly when that descriptor is in use and holds it.  Every *)
(* call that moves a socket (socket, accept, close, re-arm, disarm) writes *)
(* both tables, with yields in between.                                    *)
Ownership ==
    /\ \A fd \in Descs : sn[fd] # NONE => fd \in used /\ owner[sn[fd]] = fd
    /\ \A s \in Socks : owner[s] \in Descs => sn[owner[s]] = s

(* A connection keeps the hardware socket it was established on: until it  *)
(* is closed, the descriptor accept() returned holds a socket that carries *)
(* that client's connection or is closed, never another client's.          *)
ConnectionKept ==
    \A fd \in Descs : peer[fd] # NoClient =>
        /\ sn[fd] # NONE
        /\ \/ client[sn[fd]] = peer[fd]
           \/ sr[sn[fd]] = "CLOSED"

(* The chip never answers a client on a socket no descriptor owns, where   *)
(* nothing would ever accept, read or close the connection: whatever gives *)
(* a socket up has closed it, although close() skips the chip when the     *)
(* descriptor is not opened and disarm never touches it.                   *)
NoUnownedConnection ==
    \A s \in Socks : sr[s] \in CanAccept => owner[s] \in Descs

(* A listener that had to give up its socket is not forgotten: when every  *)
(* task is at a yield, an unarmed listener means there is no free socket,  *)
(* unless the chip has refused a listen (ioLibrary closed the socket on an *)
(* early SYN), when accept() and the next close() still retry.             *)
NoForgottenListener ==
    (/\ \A t \in Tasks : task[t].pc \in YieldPoints
     /\ \A c \in Clients : syn[c] # "lost")
    => (FreeSocks = {} \/ \A fd \in used \cap listening : sn[fd] # NONE)

(* The layer implements BSD listen() and accept() (BsdAccept): a client is  *)
(* handed to the application once and never again, only while its own       *)
(* connection is on the socket handed over, and stays behind its descriptor *)
(* until that is closed, although the chip has no backlog and the listener  *)
(* changes sockets with every client (wiznet_toe.c:437-480).                *)
Delivered == {peer[fd] : fd \in Descs}
B == INSTANCE BsdAccept
    WITH fresh   <- {c \in Clients : syn[c] = "none"},
         waiting <- {client[s] : s \in Socks} \ (Delivered \cup {NoClient}),
         conn    <- peer
Accepts == B!Spec

(* Liveness, under FairSpec *)

Waiting(t, fd) == task[t].call = "accept" /\ task[t].fd = fd
Serving(fd) == sn[fd] # NONE /\ sr[sn[fd]] \in CanAccept

(* Whatever state the chip drives a listener's socket into, a listener     *)
(* that a task waits on comes back to a state that can accept, once there  *)
(* is an address and a free socket: none parks it for good.                *)
ListenerHeals ==
    \A t \in Tasks, fd \in Descs :
        (Waiting(t, fd) /\ ~Serving(fd))
        ~> (Serving(fd) \/ ~Waiting(t, fd) \/ ~hasIp
            \/ (sn[fd] = NONE /\ FreeSocks = {}))

(* A client that is connected on the socket of a listener a task waits on  *)
(* is delivered by accept(), unless it goes away first or every descriptor *)
(* is taken.                                                               *)
ClientDelivered ==
    \A t \in Tasks, fd \in Descs, c \in Clients :
        (Waiting(t, fd) /\ Serving(fd) /\ client[sn[fd]] = c
         /\ sr[sn[fd]] \in {"ESTABLISHED", "CLOSE_WAIT"})
        ~> ((\E g \in Descs : peer[g] = c)
            \/ (\A s \in Socks : client[s] # c) \/ used = Descs)

(* Every call but a waiting accept() returns; close() and shutdown() do so *)
(* even when neither the peer nor the chip ever ends the connection.       *)
CallsReturn ==
    \A t \in Tasks : (task[t].call \notin Accepting) ~> (task[t] = Idle)

=============================================================================
