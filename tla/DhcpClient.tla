----------------------------- MODULE DhcpClient -----------------------------
(***************************************************************************)
(* The polled DHCP client (src/port/backend/src/wsm_dhcp.c) of one task    *)
(* and the DHCP servers of a lossy LAN.  A server has one address to       *)
(* offer, and the server's name stands for it.                             *)
(*                                                                         *)
(* A poll is a few turns.  A turn transmits if it is time to, waits in     *)
(* recvfrom(), and handles the datagram at the head of the socket's        *)
(* buffer; time passes and servers answer while it waits.                  *)
(***************************************************************************)
EXTENDS Integers, Sequences

CONSTANTS
    Servers,        \* the servers on the LAN, and their addresses
    NoServer,       \* an address or server identifier that is all zero
    XmitTries,      \* xmit_tries
    StepPackets,    \* step_packets
    MaxXid,         \* transaction ids are 1 .. MaxXid
    BufferLen,      \* datagrams the socket's receive buffer holds
    Prompt          \* TRUE: a broadcast is answered before the next, or not at all

ASSUME ServerAssumption == NoServer \notin Servers
ASSUME BoundAssumption  == /\ XmitTries \in Nat \ {0}
                           /\ StepPackets \in Nat \ {0}
                           /\ MaxXid \in Nat \ {0} /\ BufferLen \in Nat \ {0}
ASSUME PromptAssumption == Prompt \in BOOLEAN

Addresses == Servers \cup {NoServer}
Xids      == 1 .. MaxXid

VARIABLES
    running,    \* c->fd >= 0
    state, xid, serverId, offered, tries, lease, bound,     \* of the client
    sendDue,    \* now >= c->next_tx_us
    renewDue,   \* now >= c->renew_at_us
    pc, turn,   \* where the poll is
    result,     \* what the last poll returned
    chip,       \* the chip's address (SIPR)
    wire,       \* the client's last broadcast
    heard,      \* the broadcast each server is answering
    buffer      \* the replies in the client's socket

clientVars == <<state, xid, serverId, offered, tries, lease, bound>>
timeVars   == <<sendDue, renewDue>>
pollVars   == <<pc, turn, result>>
ifVars     == <<running, chip>>
netVars    == <<wire, heard, buffer>>
vars == <<clientVars, timeVars, pollVars, ifVars, netVars>>

Broadcast == [type : {"DISCOVER", "REQUEST", "NONE"}, xid : Xids,
              server : Addresses, ip : Addresses]
Reply     == [type : {"OFFER", "ACK", "NAK"}, xid : Xids, server : Servers]
Silence   == [type |-> "NONE", xid |-> 1, server |-> NoServer, ip |-> NoServer]

(* No round sends more often than xmit_tries, and no poll takes more turns
   than step_packets. *)
TypeOK ==
    /\ running \in BOOLEAN
    /\ state \in {"SELECTING", "REQUESTING", "BOUND"}
    /\ xid \in Xids
    /\ serverId \in Addresses /\ offered \in Addresses
    /\ tries \in 0 .. XmitTries
    /\ lease \in Addresses /\ bound \in BOOLEAN
    /\ sendDue \in BOOLEAN /\ renewDue \in BOOLEAN
    /\ pc \in {"idle", "turn", "recv"} /\ turn \in 0 .. StepPackets
    /\ result \in {"PENDING", "LEASED", "FAILED"}
    /\ chip \in Addresses
    /\ wire \in Broadcast /\ heard \in [Servers -> Broadcast]
    /\ buffer \in Seq(Reply) /\ Len(buffer) <= BufferLen

(* wsm_dhcp_client_create(), on a chip without an address *)
Init ==
    /\ running = FALSE
    /\ state = "SELECTING" /\ xid = 1
    /\ serverId = NoServer /\ offered = NoServer /\ tries = 0
    /\ lease = NoServer /\ bound = FALSE
    /\ sendDue = FALSE /\ renewDue = FALSE
    /\ pc = "idle" /\ turn = 0 /\ result = "PENDING"
    /\ chip = NoServer
    /\ wire = Silence /\ heard = [s \in Servers |-> Silence] /\ buffer = <<>>

-----------------------------------------------------------------------------
(* esp_random(): an id nothing on the LAN still carries. *)
UsedXids == {xid, wire.xid} \cup {heard[s].xid : s \in Servers}
                            \cup {buffer[i].xid : i \in DOMAIN buffer}
FreshXid(x) == x \in Xids \ UsedXids /\ \A y \in Xids \ UsedXids : x <= y

(* dhcp_enter_selecting(): another round, to be begun at once. *)
EnterSelecting_SameTries ==                                     \* mutant
    /\ state' = "SELECTING"
    /\ \E x \in Xids : FreshXid(x) /\ xid' = x
    /\ serverId' = NoServer /\ offered' = NoServer
    /\ sendDue' = TRUE
    /\ UNCHANGED tries
EnterSelecting ==
    /\ state' = "SELECTING"
    /\ tries' = 0
    /\ \E x \in Xids : FreshXid(x) /\ xid' = x
    /\ serverId' = NoServer /\ offered' = NoServer
    /\ sendDue' = TRUE

(* wsm_dhcp_start(): prepare() clears the chip's address before the socket *)
(* is opened, which may fail for want of one.                              *)
Start ==
    /\ ~running
    /\ chip' = NoServer
    /\ EnterSelecting
    /\ bound' = FALSE
    /\ running' \in BOOLEAN
    /\ UNCHANGED <<lease, renewDue, pollVars, netVars>>

(* wsm_dhcp_stop(); the chip keeps the address. *)
Forget_LeaseOnly == lease' = NoServer /\ UNCHANGED bound        \* mutant
Forget == lease' = NoServer /\ bound' = FALSE
Stop ==
    /\ running /\ pc = "idle"
    /\ running' = FALSE
    /\ buffer' = <<>>
    /\ state' = "SELECTING"
    /\ Forget
    /\ UNCHANGED <<xid, serverId, offered, tries, timeVars, pollVars,
                   chip, wire, heard>>

-----------------------------------------------------------------------------
(* wsm_dhcp_poll() *)

Return(status) == pc' = "idle" /\ turn' = 0 /\ result' = status

Poll ==
    /\ running /\ pc = "idle"
    /\ pc' = "turn" /\ turn' = 0
    /\ UNCHANGED <<clientVars, timeVars, result, ifVars, netVars>>

OutOfTurns ==
    /\ pc = "turn" /\ turn = StepPackets
    /\ Return("PENDING")
    /\ UNCHANGED <<clientVars, timeVars, ifVars, netVars>>

StillLeased ==
    /\ pc = "turn" /\ turn < StepPackets
    /\ state = "BOUND" /\ ~renewDue
    /\ Return("LEASED")
    /\ UNCHANGED <<clientVars, timeVars, ifVars, netVars>>

(* What a new round does to the lease: nothing. *)
KeepLease_Cleared == lease' = NoServer /\ bound' = FALSE        \* mutant
KeepLease == UNCHANGED <<lease, bound>>

(* T1: a new DISCOVER round, whose first broadcast goes out at once. *)
Renew ==
    /\ pc = "turn" /\ turn < StepPackets
    /\ state = "BOUND" /\ renewDue
    /\ EnterSelecting /\ KeepLease
    /\ UNCHANGED <<renewDue, pollVars, ifVars, netVars>>

Exhausted == tries >= XmitTries

GiveUpRound ==
    /\ pc = "turn" /\ turn < StepPackets
    /\ state # "BOUND" /\ sendDue /\ Exhausted
    /\ EnterSelecting /\ KeepLease
    /\ Return("FAILED")
    /\ UNCHANGED <<renewDue, ifVars, netVars>>

(* dhcp_send() of dhcp_build() *)
Message ==
    IF state = "SELECTING"
    THEN [type |-> "DISCOVER", xid |-> xid, server |-> NoServer, ip |-> NoServer]
    ELSE [type |-> "REQUEST", xid |-> xid, server |-> serverId, ip |-> offered]

Transmit ==
    /\ pc = "turn" /\ turn < StepPackets
    /\ state # "BOUND" /\ sendDue /\ ~Exhausted
    /\ tries' = tries + 1
    /\ wire' = Message
    /\ sendDue' = FALSE
    /\ pc' = "recv"
    /\ UNCHANGED <<state, xid, serverId, offered, lease, bound, renewDue,
                   turn, result, ifVars, heard, buffer>>

NotYet ==
    /\ pc = "turn" /\ turn < StepPackets
    /\ state # "BOUND" /\ ~sendDue
    /\ pc' = "recv"
    /\ UNCHANGED <<clientVars, timeVars, turn, result, ifVars, netVars>>

(* recvfrom() has nothing, at once or after SO_RCVTIMEO *)
ReceiveNothing ==
    /\ pc = "recv" /\ buffer = <<>>
    /\ Return("PENDING")
    /\ UNCHANGED <<clientVars, timeVars, ifVars, netVars>>

(* dhcp_parse(): a reply of this round, whose server identifier it keeps   *)
(* whatever the reply turns out to be.                                     *)
OfThisRound_Any(d) == TRUE                                      \* mutant
OfThisRound(d) == d.xid = xid

NextTurn == pc' = "turn" /\ turn' = turn + 1 /\ UNCHANGED result

Receive ==
    /\ pc = "recv" /\ buffer # <<>>
    /\ buffer' = Tail(buffer)
    /\ LET d == Head(buffer)
       IN \/ /\ ~OfThisRound(d)
             /\ NextTurn
             /\ UNCHANGED <<clientVars, timeVars, chip>>
          \/ /\ OfThisRound(d) /\ d.type = "NAK"
             /\ EnterSelecting /\ KeepLease
             /\ NextTurn
             /\ UNCHANGED <<renewDue, chip>>
          \/ /\ OfThisRound(d) /\ d.type = "OFFER" /\ state = "SELECTING"
             /\ serverId' = d.server /\ offered' = d.server
             /\ state' = "REQUESTING" /\ tries' = 0 /\ sendDue' = TRUE
             /\ NextTurn
             /\ UNCHANGED <<xid, lease, bound, renewDue, chip>>
          \/ /\ OfThisRound(d) /\ d.type = "ACK" /\ state = "REQUESTING"
             /\ serverId' = d.server
             /\ lease' = d.server /\ chip' = d.server
             /\ state' = "BOUND" /\ bound' = TRUE
             /\ renewDue' = FALSE
             /\ Return("LEASED")
             /\ UNCHANGED <<xid, offered, tries, sendDue>>
          \/ /\ OfThisRound(d)
             /\ <<state, d.type>> \in {<<"SELECTING", "ACK">>,
                                       <<"REQUESTING", "OFFER">>}
             /\ serverId' = d.server
             /\ NextTurn
             /\ UNCHANGED <<state, xid, offered, tries, lease, bound,
                            timeVars, chip>>
    /\ UNCHANGED <<running, wire, heard>>

-----------------------------------------------------------------------------
(* Time, and the servers (not in src/) *)

Quiet == buffer = <<>> /\ \A s \in Servers : heard[s] = Silence

TimeToSend ==
    /\ running /\ ~sendDue /\ state # "BOUND"
    /\ Prompt => Quiet
    /\ sendDue' = TRUE
    /\ UNCHANGED <<clientVars, renewDue, pollVars, ifVars, netVars>>

TimeToRenew ==
    /\ running /\ ~renewDue /\ state = "BOUND"
    /\ renewDue' = TRUE
    /\ UNCHANGED <<clientVars, sendDue, pollVars, ifVars, netVars>>

(* A server may hear a broadcast never, once, or again, and, unless it is  *)
(* prompt, when the client is already on to the next.                      *)
Hear(s, type) ==
    /\ wire.type = type /\ heard[s] = Silence
    /\ Prompt => Quiet /\ ~sendDue
    /\ heard' = [heard EXCEPT ![s] = wire]
    /\ UNCHANGED <<clientVars, timeVars, pollVars, ifVars, wire, buffer>>

(* It offers its address, acknowledges a request that names it and its     *)
(* address, refuses one that names it and another's, and takes a request   *)
(* that names another server as a refusal of its offer.                    *)
Answer(s) ==
    LET d == heard[s]
    IN CASE d.type = "DISCOVER"               -> {"OFFER"}
         [] d.type = "REQUEST" /\ d.server = s -> {IF d.ip = s THEN "ACK" ELSE "NAK"}
         [] OTHER                             -> {}
Respond(s) ==
    /\ heard[s] # Silence
    /\ heard' = [heard EXCEPT ![s] = Silence]
    /\ IF running /\ Len(buffer) < BufferLen /\ Answer(s) # {}
       THEN \E type \in Answer(s) :
              buffer' = Append(buffer, [type |-> type, xid |-> heard[s].xid,
                                        server |-> s])
       ELSE UNCHANGED buffer
    /\ UNCHANGED <<clientVars, timeVars, pollVars, ifVars, wire>>

-----------------------------------------------------------------------------
Turn == OutOfTurns \/ StillLeased \/ Renew \/ GiveUpRound \/ Transmit
        \/ NotYet \/ ReceiveNothing \/ Receive

Next ==
    \/ Start \/ Stop \/ Poll \/ Turn
    \/ TimeToSend \/ TimeToRenew
    \/ \E s \in Servers : Respond(s)
                          \/ \E type \in {"DISCOVER", "REQUEST"} : Hear(s, type)

Spec == Init /\ [][Next]_vars

(* The application polls, a poll runs to its end, time passes, a server    *)
(* answers what it heard, and one that keeps being sent to hears at last.  *)
FairSpec ==
    /\ Spec
    /\ WF_vars(Poll) /\ WF_vars(Turn) /\ WF_vars(TimeToSend)
    /\ \A s \in Servers :
        /\ WF_vars(Respond(s))
        /\ \A type \in {"DISCOVER", "REQUEST"} : SF_vars(Hear(s, type))

-----------------------------------------------------------------------------
(* While the client is bound its chip has the address of its lease, through *)
(* renewals, refusals and rounds that fail, and no longer when it stopped. *)
ChipHasLease == bound => running /\ lease # NoServer /\ chip = lease

(* A lease is installed only when the client's last broadcast, in the      *)
(* present round, asked for just that address: an acknowledgement that was *)
(* still under way from a round given up never counts.                     *)
LeaseRequested ==
    [][chip' \notin {chip, NoServer} =>
          /\ wire.type = "REQUEST" /\ wire.xid = xid /\ wire.ip = chip'
          /\ offered = chip']_vars

(* A bound client stays bound until it is stopped: a renewal that is       *)
(* refused or gets no answer does not take the lease away.                 *)
BoundKept == [][bound /\ running' => bound']_vars

(* A request names the server that offered the address it asks for. *)
RequestNamesOfferer == wire.type = "REQUEST" => wire.server = wire.ip

(* A client that runs gets a lease, when the answers come before the next  *)
(* retransmission.                                                         *)
GetsLease == running ~> (bound \/ ~running)

=============================================================================
