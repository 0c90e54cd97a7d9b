--------------------------------- MODULE Upnp ---------------------------------
(***************************************************************************)
(* The UPnP client of src/examples/upnp: find a router by SSDP, read its   *)
(* description, subscribe and wait for notifications, map a port and unmap *)
(* it, each step a connection of its own (upnp_transport.c), driven once   *)
(* by the task of upnp_client.c.                                           *)
(*                                                                         *)
(* The router is what answers.  It may be absent, lose a request, apply it *)
(* and lose the answer, refuse it, or have an answer cut by the timeout of *)
(* the client; one that is waiting for a notification to be acknowledged   *)
(* serves nothing else (upnp_client.c:77-84).                              *)
(***************************************************************************)
EXTENDS Integers

CONSTANTS
    Attempts,      \* DISCOVER_ATTEMPTS
    EventSeconds   \* UPNP_EVENT_LISTEN_SEC

VARIABLES
    gateway,       \* is there one
    entry,         \* whose the external port is: "free", "us", "other"
    notify,        \* a notification: "none", "waiting", "done"
    at, tries, step, waited,
    garbled,       \* the answer to the last port action was not the whole
                   \* of what a router sends, and
    obeyed,        \* the router had applied that action
    outcome        \* what the task has reported of the mapping

router == <<gateway, entry, notify>>
report == <<garbled, obeyed, outcome>>
vars == <<router, at, tries, step, waited, report>>

TypeOK ==
    /\ gateway \in BOOLEAN /\ entry \in {"free", "us", "other"}
    /\ notify \in {"none", "waiting", "done"}
    /\ at \in {"link", "discover", "describe", "subscribe", "listen",
               "connection", "add", "delete", "done"}
    /\ tries \in 0 .. Attempts /\ waited \in 0 .. EventSeconds
    /\ step \in {"NONE", "DISCOVERED", "DESCRIBED"}
    /\ garbled \in BOOLEAN /\ obeyed \in BOOLEAN
    /\ outcome \in {"none", "mapped", "unknown", "refused", "removed",
                    "delete_failed"}

Init ==
    /\ gateway \in BOOLEAN /\ entry \in {"free", "us", "other"}
    /\ notify = "none" /\ at = "link" /\ tries = 0 /\ step = "NONE"
    /\ waited = 0 /\ garbled = FALSE /\ obeyed = FALSE /\ outcome = "none"

-----------------------------------------------------------------------------
(* upnp_transport_http(): the client sends `request' and reads until the   *)
(* router closes or the timeout fires.  The answer is nothing, the whole   *)
(* of what was asked for, an error, a part of either, or anything else.    *)

Serving == gateway /\ notify # "waiting"
Answers ==
    {"none"} \cup (IF Serving THEN {"cut", "bad", "error", "whole"} ELSE {})

(* A port action was applied if the answer confirms it, and not if it      *)
(* refuses it.  Nothing else tells.                                        *)
Answer(a) ==
    /\ garbled' = (a \in {"cut", "bad"})
    /\ obeyed' \in CASE a = "whole" -> {TRUE}
                     [] a = "error" -> {FALSE}
                     [] OTHER -> IF Serving THEN BOOLEAN ELSE {FALSE}

(* upnp_transport_ssdp(): one search and one datagram of one router.       *)
SsdpAnswers == {"none"} \cup (IF gateway THEN {"bad", "whole"} ELSE {})

(* parse_http() looks at the status line; parse_ssdp() and                 *)
(* parse_description() for each field and the room it needs, and what is   *)
(* cut or bad lacks one.                                                   *)
ParseHttp(a) == a \in {"cut", "whole"}
ParseSsdp(a) == a = "whole"
ParseDescription(a) == a = "whole"

(* port_action(): the element that confirms, or what parse_error() makes   *)
(* of the rest, which is UPNP_OK if the code it finds reads as 0.          *)
Confirmed(a) ==
    CASE a = "whole" -> {TRUE} [] a = "bad" -> BOOLEAN [] OTHER -> {FALSE}

(* The link comes up; the transport is bound to the interface. *)
LinkUp ==
    /\ at = "link" /\ at' = "discover"
    /\ UNCHANGED <<router, tries, step, waited, report>>

(* upnp_discover(), DISCOVER_ATTEMPTS times.                               *)
Discover ==
    /\ at = "discover" /\ tries < Attempts /\ tries' = tries + 1
    /\ \E a \in SsdpAnswers :
          \/ ParseSsdp(a) /\ step' = "DISCOVERED" /\ at' = "describe"
          \/ /\ ~ParseSsdp(a) /\ UNCHANGED step
             /\ at' = IF tries' = Attempts THEN "done" ELSE "discover"
    /\ UNCHANGED <<router, waited, report>>

(* upnp_get_description() *)
Describe ==
    /\ at = "describe" /\ step # "NONE"
    /\ \E a \in Answers :
          \/ /\ ParseDescription(a) /\ step' = "DESCRIBED"
             /\ at' = IF EventSeconds > 0 THEN "subscribe" ELSE "add"
          \/ ~ParseDescription(a) /\ at' = "done" /\ UNCHANGED step
    /\ UNCHANGED <<router, tries, waited, report>>

(* upnp_subscribe(): without it the mapping is made all the same.          *)
Subscribe ==
    /\ at = "subscribe" /\ step = "DESCRIBED"
    /\ \E a \in Answers : at' = IF ParseHttp(a) THEN "listen" ELSE "add"
    /\ UNCHANGED <<router, tries, step, waited, report>>

(* listen_for_events(): a second is counted for every accept(), whether it *)
(* returns a connection or not; no listener, or no memory, ends it.        *)
NoListener ==
    /\ at = "listen" /\ waited = 0 /\ at' = "add"
    /\ UNCHANGED <<router, tries, step, waited, report>>

Listen ==
    /\ at = "listen"
    /\ \/ waited = EventSeconds /\ at' = "add" /\ UNCHANGED waited
       \/ /\ waited < EventSeconds /\ waited' = waited + 1
          /\ at' = IF notify = "waiting" THEN "connection" ELSE "listen"
    /\ UNCHANGED <<router, tries, step, report>>

(* The connection is answered whether or not a body could be read. *)
Acknowledge ==
    /\ at = "connection" /\ notify' = "done" /\ at' = "listen"
    /\ UNCHANGED <<gateway, entry, tries, step, waited, report>>

(* upnp_add_port(), and what the task makes of it.  A router does not take *)
(* a port from another host.                                               *)
Unread_Refused == "refused"                                     \* mutant
Unread == "unknown"
Reports(a) ==
    {IF confirmed THEN "mapped" ELSE IF a = "none" THEN Unread ELSE "refused" :
        confirmed \in Confirmed(a)}
AddPort ==
    /\ at = "add" /\ step = "DESCRIBED"
    /\ \E a \in Answers : Answer(a) /\ outcome' \in Reports(a)
    /\ obeyed' => entry # "other"
    /\ entry' = IF obeyed' THEN "us" ELSE entry
    /\ at' = IF outcome' = "mapped" THEN "delete" ELSE "done"
    /\ UNCHANGED <<gateway, notify, tries, step, waited>>

(* upnp_delete_port(), where UPNP_DELETE_AFTER_ADD asks for it.            *)
DeletePort ==
    /\ at = "delete" /\ at' = "done"
    /\ \/ UNCHANGED <<entry, report>>
       \/ /\ \E a \in Answers, confirmed \in BOOLEAN :
                /\ Answer(a) /\ confirmed \in Confirmed(a)
                /\ outcome' = IF confirmed THEN "removed" ELSE "delete_failed"
          /\ entry' = IF obeyed' THEN "free" ELSE entry
    /\ UNCHANGED <<gateway, notify, tries, step, waited>>

(* The router calls back a subscriber, once in this model. *)
Notify ==
    /\ gateway /\ notify = "none" /\ step = "DESCRIBED" /\ at = "listen"
    /\ notify' = "waiting"
    /\ UNCHANGED <<gateway, entry, at, tries, step, waited, report>>

Client ==
    \/ Discover \/ Describe \/ Subscribe \/ NoListener \/ Listen \/ Acknowledge
    \/ AddPort \/ DeletePort
Next == LinkUp \/ Client \/ Notify

Spec == Init /\ [][Next]_vars
Fairness == WF_vars(Client)
FairSpec == Spec /\ Fairness

-----------------------------------------------------------------------------
(* What the task reports of the mapping is so: "mapped" and "removed" tell *)
(* what the router has done, and "refused" that it has not done what it    *)
(* was asked.  An answer that was cut off or is not one is beyond it: it   *)
(* counts as a refusal though the router may have obeyed (upnp_core.c:     *)
(* 187-193, upnp_client.c:146-157).  A deletion that "failed" may have     *)
(* been done.                                                              *)
TrueReport ==
    ~garbled =>
        /\ outcome = "mapped" => entry = "us"
        /\ outcome = "removed" => entry = "free"
        /\ outcome = "refused" => ~obeyed

(* A session ends whatever the router does: every wait has a bound.        *)
SessionEnds == (at = "discover") ~> (at = "done")

=============================================================================
