----------------------------- MODULE MCFirmware -----------------------------
(***************************************************************************)
(* The examples as TLC checks them.  A board runs the firmware image of    *)
(* one example of src/examples/, so the state of the other ones does not   *)
(* change: `image' is chosen at the start, and a step is a step of that    *)
(* program.  "lan" is the TOE backend's DHCP client, on a LAN whose server *)
(* answers before the next retransmission.  The bounds are those of the    *)
(* modules; the .cfg gives them.                                           *)
(***************************************************************************)
EXTENDS Naturals

CONSTANTS
    eth, wifi, s1, s2, NoServer,          \* model values
    MaxBlocks, Sessions, Wrap, Timeout, TftpRetry,          \* Tftp
    Half, AckTime, PubTime, Cap, PktIds, MaxPubs, MaxCells, \* Mqtt
    BrokerModes,
    MaxSend, PppRetry, MaxLosses, MaxRepeats, PppModes,     \* Pppoe
    Interfaces, Servers, Setups, XmitTries, DhcpRetries,    \* DhcpDns
    Programs, MaxClients, MaxSay, RequestRoom,              \* TcpServers
    UpnpAttempts, EventSeconds,                             \* Upnp
    Services, SntpAttempts, MaxIn, Sockets, Descriptors,    \* UdpServices
    LwipOffset, MaxAddress

(* Blocks and their numbers are counted. *)
ASSUME FileAssumption == MaxBlocks \in Nat /\ Wrap \in Nat
(* A board has an interface. *)
ASSUME BoardAssumption == Interfaces # {}
(* The DHCP servers of a segment are servers. *)
ASSUME SegmentAssumption == \A s \in Setups : s.servers \subseteq Servers
(* A peer says a number of chunks, and a buffer holds a number of them. *)
ASSUME RequestAssumption == MaxSay \in Nat /\ RequestRoom \in Nat
(* Hardware sockets and descriptors are numbers, and -1 is none of them. *)
ASSUME SocketAssumption ==
    Sockets \subseteq Nat /\ Descriptors \subseteq Nat /\ LwipOffset \in Nat
(* A frame is sent at least once. *)
ASSUME SendAssumption == MaxSend \in Nat \ {0}
(* An answer is waited for less long than the broker waits for the client, *)
(* as in net_config.h of examples/mqtt; a buffer holds a number of units.  *)
ASSUME KeepAliveAssumption ==
    /\ Half \in Nat /\ AckTime \in Nat /\ Cap \in Nat
    /\ 0 < Half /\ 0 < AckTime /\ AckTime + 1 < 3 * Half

Images == {"tftp", "mqtt", "pppoe", "dhcp", "lan", "tcp", "upnp", "udp"}

UdpExamples == {"sntp", "echo", "mcast", "netbios"}
TcpPrograms ==
    {"loopback", "client", "multi", "http", "tls", "tls_client"}
BrokerFaults ==
    {{"refuse", "close"}, {"silent", "trickle"}, {"busy"}}
PppFaults ==
    {{}, {"options"}, {"loss", "options"}, {"late"}, {"repeat"}, {"refuse"},
     {"order"}}
LanSetups ==
    {[started |-> {eth}, servers |-> {s1, s2}, refusing |-> FALSE,
      dns_retries |-> 1],
     [started |-> {eth}, servers |-> {s1}, refusing |-> TRUE,
      dns_retries |-> 1],
     [started |-> {eth, wifi}, servers |-> {s1}, refusing |-> FALSE,
      dns_retries |-> 0]}

VARIABLES
    image,      \* the program that is on the board
    last, options, leftover, served, acks, tftp_step, state, block, port,
    flag, time_cnt, retry_cnt, progress, saved, tftp_outcome,
    mqtt_faults, subscribing, publishing, pc, stage, mqtt_out, kind, left,
    quiet, next_pkt_id, mqtt_tx, mqtt_rx, pub, mqtt_waited, lost, asked,
    queue, stream, silent, eof, gone, pubs, owed, acked,
    pppoe_faults, auth, losses, repeats, pppoe_rx, pppoe_tx, sid, agreed,
    open, pppoe_state, flags, send_count, retry_count, goal, auth_protocol,
    pppoe_ip, NAS_sessionid, regs, result,
    setup, c, run, dhcp_at, sent,
    running, lan_state, xid, serverId, offered, lan_tries, lease, bound,
    sendDue, renewDue, lan_pc, turn, lan_result, lan_chip, lan_wire, lan_heard,
    buffer,
    prog, tcp_at, n, peer, heard, tcp_inq, buf, busy, held, tcp_out, error,
    bannerHeld,
    gateway, entry, notify, upnp_at, tries, upnp_step, upnp_waited, garbled,
    obeyed, upnp_outcome,
    service, udp_at, came, udp_inq, udp_out, attempt, ok, rest, fd, sn,
    chip, address, pinned

T == INSTANCE Tftp
    WITH MaxRetry <- TftpRetry, step <- tftp_step, outcome <- tftp_outcome
Q == INSTANCE Mqtt
    WITH FaultModes <- BrokerModes, faults <- mqtt_faults, out <- mqtt_out, tx <- mqtt_tx,
         rx <- mqtt_rx, waited <- mqtt_waited
P == INSTANCE Pppoe
    WITH MaxRetry <- PppRetry, FaultModes <- PppModes, faults <- pppoe_faults, rx <- pppoe_rx,
         tx <- pppoe_tx
D == INSTANCE DhcpDns
    WITH at <- dhcp_at
C == INSTANCE DhcpClient
    WITH Servers <- {s1}, XmitTries <- 2, StepPackets <- 2, MaxXid <- 6,
         BufferLen <- 2, Prompt <- TRUE, state <- lan_state,
         tries <- lan_tries, pc <- lan_pc, result <- lan_result,
         chip <- lan_chip, wire <- lan_wire, heard <- lan_heard
S == INSTANCE TcpServers
    WITH at <- tcp_at, inq <- tcp_inq, out <- tcp_out
U == INSTANCE Upnp
    WITH Attempts <- UpnpAttempts, at <- upnp_at, step <- upnp_step,
         waited <- upnp_waited, outcome <- upnp_outcome
V == INSTANCE UdpServices
    WITH Attempts <- SntpAttempts, at <- udp_at, inq <- udp_inq,
         out <- udp_out

tftp_vars ==
    <<last, options, leftover, served, acks, tftp_step, state, block,
      port, flag, time_cnt, retry_cnt, progress, saved, tftp_outcome>>
mqtt_vars ==
    <<mqtt_faults, subscribing, publishing, pc, stage, mqtt_out, kind,
      left, quiet, next_pkt_id, mqtt_tx, mqtt_rx, pub, mqtt_waited, lost,
      asked, queue, stream, silent, eof, gone, pubs, owed, acked>>
pppoe_vars ==
    <<pppoe_faults, auth, losses, repeats, pppoe_rx, pppoe_tx, sid,
      agreed, open, pppoe_state, flags, send_count, retry_count, goal,
      auth_protocol, pppoe_ip, NAS_sessionid, regs, result>>
dhcp_vars ==
    <<setup, c, run, dhcp_at, sent>>
lan_vars ==
    <<running, lan_state, xid, serverId, offered, lan_tries, lease, bound,
      sendDue, renewDue, lan_pc, turn, lan_result, lan_chip, lan_wire,
      lan_heard, buffer>>
tcp_vars ==
    <<prog, tcp_at, n, peer, heard, tcp_inq, buf, busy, held, tcp_out,
      error, bannerHeld>>
upnp_vars ==
    <<gateway, entry, notify, upnp_at, tries, upnp_step, upnp_waited,
      garbled, obeyed, upnp_outcome>>
udp_vars ==
    <<service, udp_at, came, udp_inq, udp_out, attempt, ok, rest, fd,
      sn, chip, address, pinned>>

all == <<image, tftp_vars, mqtt_vars, pppoe_vars, dhcp_vars, lan_vars,
         tcp_vars, upnp_vars, udp_vars>>

(* The programs that are not on the board are in one of their initial      *)
(* states, whichever.                                                      *)
Init ==
    /\ image \in Images
    /\ T!Init /\ (image # "tftp" => last = 1 /\ leftover = 0 /\ ~options)
    /\ Q!Init /\ (image # "mqtt" => mqtt_faults = {"busy"} /\ subscribing /\ publishing)
    /\ P!Init /\ (image # "pppoe" => pppoe_faults = {} /\ auth = "PAP")
    /\ D!Init /\ (image # "dhcp" => setup.refusing)
    /\ C!Init
    /\ S!Init /\ (image # "tcp" => prog = "loopback")
    /\ U!Init /\ (image # "upnp" => gateway /\ entry = "free")
    /\ V!Init /\ (image # "udp" => service = "sntp")

Is(i) == image = i
On(i) ==
    /\ UNCHANGED image
    /\ IF i = "tftp"  THEN TRUE ELSE UNCHANGED tftp_vars
    /\ IF i = "mqtt"  THEN TRUE ELSE UNCHANGED mqtt_vars
    /\ IF i = "pppoe" THEN TRUE ELSE UNCHANGED pppoe_vars
    /\ IF i = "dhcp"  THEN TRUE ELSE UNCHANGED dhcp_vars
    /\ IF i = "lan"   THEN TRUE ELSE UNCHANGED lan_vars
    /\ IF i = "tcp"   THEN TRUE ELSE UNCHANGED tcp_vars
    /\ IF i = "upnp"  THEN TRUE ELSE UNCHANGED upnp_vars
    /\ IF i = "udp"   THEN TRUE ELSE UNCHANGED udp_vars

Next ==
    \/ Is("tftp") /\ T!Next /\ On("tftp")
    \/ Is("mqtt") /\ Q!Next /\ On("mqtt")
    \/ Is("pppoe") /\ P!Next /\ On("pppoe")
    \/ Is("dhcp") /\ D!Next /\ On("dhcp")
    \/ Is("lan") /\ C!Next /\ On("lan")
    \/ Is("tcp") /\ S!Next /\ On("tcp")
    \/ Is("upnp") /\ U!Next /\ On("upnp")
    \/ Is("udp") /\ V!Next /\ On("udp")

(* The fairness each of the modules assumes: of the program's tasks, and of *)
(* time or the other side.                                                 *)
Fairness ==
    /\ WF_tftp_vars(Is("tftp") /\ T!Client) /\ WF_tftp_vars(Is("tftp") /\ T!Tick)
    /\ WF_mqtt_vars(Is("mqtt") /\ Q!Task) /\ WF_mqtt_vars(Is("mqtt") /\ Q!Tick)
    /\ WF_pppoe_vars(Is("pppoe") /\ P!Client)
    /\ WF_pppoe_vars(Is("pppoe") /\ P!Server)
    /\ \A i \in Interfaces : /\ WF_dhcp_vars(Is("dhcp") /\ D!Task(i))
                            /\ WF_dhcp_vars(Is("dhcp") /\ D!Timer(i))
    /\ WF_lan_vars(Is("lan") /\ C!Poll) /\ WF_lan_vars(Is("lan") /\ C!Turn)
    /\ WF_lan_vars(Is("lan") /\ C!TimeToSend)
    /\ WF_lan_vars(Is("lan") /\ C!Respond(s1))
    /\ \A type \in {"DISCOVER", "REQUEST"} :
          SF_lan_vars(Is("lan") /\ C!Hear(s1, type))
    /\ WF_tcp_vars(Is("tcp") /\ S!Task) /\ WF_tcp_vars(Is("tcp") /\ S!TimesOut)
    /\ WF_upnp_vars(Is("upnp") /\ U!Client)
    /\ WF_udp_vars(Is("udp") /\ V!Task)
FairSpec == Init /\ [][Next]_all /\ Fairness

-----------------------------------------------------------------------------
(* The properties of the modules, each of the program that is on the board *)

(* Tftp: "received" means the whole file. *)
WholeFile == T!WholeFile
(* Mqtt: acknowledgements come in order, none twice. *)
AcksInOrder == Q!AcksInOrder
(* Mqtt: the broker never has a reason to drop the client. *)
KeptAlive == Q!KeptAlive
(* Pppoe: a session reported is the server's, with the address it assigned. *)
OwnAddress == P!OwnAddress
(* DhcpDns: an interface has an address that was leased to it. *)
OwnLease == D!OwnLease
(* TcpServers: a session that has ended was answered as it had to be. *)
Answered == S!Answered
(* Upnp: what a router's own answer makes the task report is so. *)
TrueReport == U!TrueReport
(* UdpServices: what is sent answers what came, once; a group is joined on *)
(* the socket behind the descriptor.                                       *)
OwnReplies == V!OwnReplies

(* Tftp: a transfer ends, whatever the server does. *)
TransferEnds == image = "tftp" => T!TransferEnds
(* Mqtt: a silent broker is noticed. *)
DeadNoticed == image = "mqtt" => Q!DeadNoticed
(* Pppoe: a session is established with a server that answers. *)
Connects == image = "pppoe" => P!Connects
(* DhcpClient: a client that runs gets a lease. *)
GetsLease == image = "lan" => C!GetsLease
(* DhcpDns, TcpServers, Upnp, UdpServices: what a task waits for comes, or  *)
(* it gives up.                                                            *)
SessionEnds ==
    /\ image = "dhcp" => D!LeasedOrEnds
    /\ image = "tcp" => S!SessionEnds
    /\ image = "upnp" => U!SessionEnds
    /\ image = "udp" => V!SntpEnds

=============================================================================
