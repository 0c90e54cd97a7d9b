----------------------------- MODULE MCEthernet -----------------------------
(***************************************************************************)
(* The MACRAW driver as TLC checks it: its data path (MacW6300, of either   *)
(* chip), its bring-up and link (EthLink) and its filter (EthFilter).  The  *)
(* data path and the filter are checked from the moment the socket has been *)
(* opened, the link with the data left out, so a behaviour is of one of     *)
(* them: `part' says which.                                                 *)
(***************************************************************************)
EXTENDS MacW6300

CONSTANTS
    LinkFaultModes,         \* EthLink's FaultModes
    LinkGlitches,           \* EthLink's MaxGlitches
    MaxFlaps, MaxCalls,     \* EthLink's bounds
    CountRange,             \* EthFilter's width of the counter
    MaxGroups, MaxModes, MaxFailures    \* EthFilter's bounds

(* Failures are counted, and the counter of groups holds one at least. *)
ASSUME NumbersAssumption ==
    LinkGlitches \in Nat /\ CountRange \in Nat \ {0}

DataModes ==
    {{}, {"memory"}, {"header"}, {"memory", "header", "read"}, {"write"},
     {"flap"}, {"slow"}, {"lag"}}
LinkModes == {{}, {"bringup", "up", "check"}, {"down"}, {"call"}}

VARIABLES
    part,       \* "data", "link" or "filter"
    kind, no_line, link_faults, link_glitches, flaps, calls, cable, lnk,
    locks, shar, mode, working, runs, sock, simr, fsm, given, auto_nego_en,
    check, seen, link_status, tx_tmo, timer, connected, late,
    smr, mcast_cnt, filter_call, groups, modes, failures, miscounted, crossed

L == INSTANCE EthLink
    WITH Chips <- {"W5500", "W6300"}, FaultModes <- LinkFaultModes,
         MaxGlitches <- LinkGlitches,
         chip <- kind, polled <- no_line,
         faults <- link_faults, glitches <- link_glitches
F == INSTANCE EthFilter
    WITH call <- filter_call

data_vars ==
    <<faults, glitches, polled, up, cr, ir, rx, rd, astray, wr, sending,
      notified, remain, task, size, frame, call, arrived, offered,
      delivered, misread, wire, told, board>>
link_vars ==
    <<kind, no_line, link_faults, link_glitches, flaps, calls, cable, lnk,
      locks, shar, mode, working, runs, sock, simr, fsm, given,
      auto_nego_en, check, seen, link_status, tx_tmo, timer, connected,
      late>>
filter_vars ==
    <<smr, mcast_cnt, filter_call, groups, modes, failures, miscounted,
      crossed>>

MCInit ==
    /\ part \in {"data", "link", "filter"}
    /\ BoardInit
    /\ part # "data" => faults = {} /\ polled /\ board = "W5500"
    /\ L!Init
    /\ part # "link" => link_faults = {} /\ no_line /\ cable /\ kind = "W5500"
    /\ F!Init
MCNext ==
    \/ part = "data" /\ BoardNext /\ UNCHANGED <<part, link_vars, filter_vars>>
    \/ part = "link" /\ L!Next /\ UNCHANGED <<part, data_vars, filter_vars>>
    \/ part = "filter" /\ F!Next /\ UNCHANGED <<part, data_vars, link_vars>>

(* The fairness of BoardFairSpec and of EthLink's FairSpec *)
MCFairSpec ==
    /\ MCInit /\ [][MCNext]_<<part, data_vars, link_vars, filter_vars>>
    /\ WF_data_vars(part = "data" /\ W5500 /\ ReceiveTask)
    /\ WF_data_vars(part = "data" /\ W6300 /\ ReceiveTaskW6300)
    /\ WF_data_vars(part = "data" /\ Chip /\ UNCHANGED board)
    /\ WF_data_vars(part = "data" /\ PollTimer /\ UNCHANGED board)
    /\ WF_link_vars(part = "link" /\ L!CheckLink)
    /\ WF_link_vars(part = "link" /\ L!LinkComesUp)
    /\ WF_link_vars(part = "link" /\ L!BringUp)

-----------------------------------------------------------------------------
(* EthLink: the chip filters and sends with the board's MAC address. *)
AddressTakes == L!AddressTakes
(* EthLink: what is stopped stays quiet. *)
StoppedIsQuiet == L!StoppedIsQuiet
(* EthLink: the socket follows the cable. *)
LinkSettles == part = "link" => L!LinkSettles
(* EthFilter: the board hears the groups the stack has joined. *)
GroupsHeard == F!GroupsHeard

=============================================================================
