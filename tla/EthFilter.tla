----------------------------- MODULE EthFilter -----------------------------
(***************************************************************************)
(* What a MACRAW board lets in (add_mac_filter(), rm_mac_filter(),         *)
(* set_promiscuous() and set_all_multicast() of esp_eth_mac_w5500.c and    *)
(* esp_eth_mac_w6300.c, which are alike).  The chips have no filter for    *)
(* groups: IPv4 multicast is blocked or not, so the driver counts groups.  *)
(* Each call reads Sn_MR, changes a bit and writes it back; the stack's    *)
(* thread joins and leaves groups, the application sets the modes, and     *)
(* nothing keeps the one from coming between the other's read and write.   *)
(***************************************************************************)
EXTENDS Naturals

CONSTANTS
    CountRange,   \* mcast_cnt is uint8_t: 2^8
    MaxGroups,    \* bound: groups joined at once
    MaxModes,     \* bound: calls of the application
    MaxFailures   \* bound: register accesses that fail

VARIABLES
    smr,          \* Sn_MR: the bits that are set, of Bits
    mcast_cnt,
    call,         \* by caller: its call and the Sn_MR it has read
    groups,       \* what the stack has joined, and has not left
    modes, failures,
    miscounted,   \* history: a group is not, or no longer, in mcast_cnt
    crossed       \* history: a call has read what another then wrote

vars == <<smr, mcast_cnt, call, groups, modes, failures, miscounted, crossed>>

Bits    == {"filter", "block"}
Callers == {"stack", "app"}
None    == [what |-> "none", smr |-> {}]

Init ==
    /\ smr = Bits /\ mcast_cnt = 0 /\ call = [c \in Callers |-> None]
    /\ groups = 0 /\ modes = MaxModes /\ failures = MaxFailures
    /\ miscounted = FALSE /\ crossed = FALSE

Idle(c) == call[c] = None

(* The read; when it fails, the call is over. *)
Reads(c, what) ==
    \/ /\ call' = [call EXCEPT ![c] = [what |-> what, smr |-> smr]]
       /\ crossed' = (crossed \/ \E d \in Callers \ {c} : ~Idle(d))
       /\ UNCHANGED failures
    \/ /\ failures > 0 /\ failures' = failures - 1
       /\ UNCHANGED <<call, crossed>>

(* add_mac_filter() of a group; of other addresses it does nothing. *)
Join ==
    /\ Idle("stack") /\ groups < MaxGroups /\ groups' = groups + 1
    /\ Reads("stack", "join")
    /\ miscounted' = (miscounted \/ Idle("stack")')
    /\ UNCHANGED <<smr, mcast_cnt, modes>>

(* rm_mac_filter() counts first, and blocks when nothing is left. *)
Left_Any(cnt) == TRUE                                           \* mutant
Left(cnt) == cnt = 0
Leave ==
    /\ Idle("stack") /\ groups > 0 /\ groups' = groups - 1
    /\ mcast_cnt' = IF mcast_cnt > 0 THEN mcast_cnt - 1 ELSE 0
    /\ IF Left(mcast_cnt') THEN Reads("stack", "leave")
       ELSE UNCHANGED <<call, crossed, failures>>
    /\ UNCHANGED <<smr, modes, miscounted>>

SetMode ==
    /\ Idle("app") /\ modes > 0 /\ modes' = modes - 1
    /\ \E what \in {"promiscuous", "own", "all", "some"} : Reads("app", what)
    /\ UNCHANGED <<smr, mcast_cnt, groups, miscounted>>

(* The write, and what the call does after it *)
Written(what, read) ==
    CASE what \in {"join", "all"}   -> read \ {"block"}
      [] what \in {"leave", "some"} -> read \cup {"block"}
      [] what = "promiscuous"       -> read \ {"filter"}
      [] what = "own"               -> read \cup {"filter"}
Counted(what) ==
    CASE what = "join"            ->
           IF mcast_cnt + 1 = CountRange THEN 0 ELSE mcast_cnt + 1
      [] what \in {"all", "some"} -> 0
      [] OTHER                    -> mcast_cnt
Write(c) ==
    LET what == call[c].what IN
    /\ ~Idle(c) /\ call' = [call EXCEPT ![c] = None]
    /\ \/ /\ smr' = Written(what, call[c].smr) /\ mcast_cnt' = Counted(what)
          /\ miscounted' = (miscounted
                            \/ (what \in {"all", "some"} /\ groups > 0)
                            \/ (what = "join" /\ mcast_cnt' = 0))
          /\ UNCHANGED failures
       \/ /\ failures > 0 /\ failures' = failures - 1
          /\ miscounted' = (miscounted \/ what = "join")
          /\ UNCHANGED <<smr, mcast_cnt>>
    /\ UNCHANGED <<groups, modes, crossed>>

Next == Join \/ Leave \/ SetMode \/ \E c \in Callers : Write(c)
Spec == Init /\ [][Next]_vars

-----------------------------------------------------------------------------
(* The board hears the groups the stack has joined ("IPv4 multicast blocked *)
(* until the stack asks for a group", esp_eth_mac_w6300.c:498), in whatever *)
(* order they come and go, with the application's modes and with failures   *)
(* between.  Two things are beyond it, each of which can block a group that *)
(* is joined: a call that comes between the other caller's read and write;  *)
(* and a group the counter does not hold, because its join failed, because  *)
(* the counter wrapped, or because set_all_multicast() has cleared it       *)
(* (esp_eth_mac_w6300.c:776).                                               *)
GroupsHeard ==
    Idle("stack") /\ ~crossed /\ ~miscounted /\ groups > 0
        => "block" \notin smr
=============================================================================
