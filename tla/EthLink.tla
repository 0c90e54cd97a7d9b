------------------------------- MODULE EthLink -------------------------------
(***************************************************************************)
(* Bringing a MACRAW board up and following its link: net_backend_eth.c    *)
(* installs and starts the driver, esp_eth (external) polls the PHY driver *)
(* (esp_eth_phy_w5500.c, esp_eth_phy_w6300.c), and the PHY driver reports  *)
(* through esp_eth to the MAC driver, which opens or closes the hardware   *)
(* socket (emac_*_set_link).  On a W6300 the registers of the chip, the    *)
(* network and the PHY are locked after every reset, and a write to a      *)
(* locked register is lost without an error.                               *)
(*                                                                         *)
(* A call of the driver is one step, which may fail in the middle because  *)
(* a register access does; a check of the link is three, since it runs in  *)
(* the timer's task and the other calls in the application's.              *)
(***************************************************************************)
EXTENDS Naturals

CONSTANTS
    Chips,         \* a subset of {"W5500", "W6300"}
    MaxGlitches,   \* bound: register accesses that fail
    FaultModes,    \* what they may be part of: sets of "bringup", "check",
                   \* "up", "down", "call"
    MaxFlaps,      \* bound: times the cable is pulled
    MaxCalls       \* bound: calls of the application after the first start

VARIABLES
    chip, polled, faults,     \* which one; has it no interrupt line?
    glitches, flaps, calls,   \* how many more
    cable, lnk,               \* a partner is connected; PHYSR/PHYCFGR.LNK
    locks,                    \* register groups that are locked (W6300)
    shar,                     \* SHAR holds the address of net_info
    mode, working, runs,      \* PHY mode set; in use; neither off nor in reset
    sock, simr,               \* Sn_SR = MACRAW; socket 0's interrupt enabled
    fsm, given, auto_nego_en, \* esp_eth's state; MAC address and mode set
    check, seen,              \* the check under way, and the link it read
    link_status, tx_tmo,      \* the PHY's idea of the link; the MAC's of speed
    timer, connected,         \* poll timer active; s_eth_connected
    late                      \* history: stopped while a check was under way

env   == <<chip, polled, faults, calls>>
phy   == <<mode, working, runs>>
regs  == <<locks, shar>>
mac   == <<sock, simr, timer>>
upper == <<fsm, given, auto_nego_en, late>>
vars  == <<env, glitches, flaps, cable, lnk, regs, phy, mac, upper, check,
           seen, link_status, tx_tmo, connected>>

Groups == {"chip", "net", "phy"}
Fixed  == [speed : {10, 100}, full : BOOLEAN]
Best   == [speed |-> 100, full |-> TRUE]
AutoMode == [speed |-> 0, full |-> TRUE]      \* whatever is negotiated

TypeOK ==
    /\ locks \subseteq Groups /\ (chip = "W5500" => locks = {})
    /\ mode \in Fixed \cup {AutoMode} /\ working \in Fixed \cup {AutoMode}
    /\ fsm \in {"none", "stop", "start"}
    /\ check \in {"idle", "report", "store"}
    /\ tx_tmo \in {10, 100}

(* Power has come up; nothing of the driver is there. *)
Init ==
    /\ chip \in Chips /\ polled \in BOOLEAN /\ faults \in FaultModes
    /\ glitches = MaxGlitches /\ flaps = MaxFlaps /\ calls = MaxCalls
    /\ cable \in BOOLEAN /\ lnk = FALSE
    /\ locks = (IF chip = "W6300" THEN Groups ELSE {}) /\ shar = FALSE
    /\ mode = AutoMode /\ working = AutoMode /\ runs = TRUE
    /\ sock = FALSE /\ simr = FALSE /\ timer = FALSE
    /\ fsm = "none" /\ given = FALSE /\ auto_nego_en = TRUE /\ late = FALSE
    /\ check = "idle" /\ seen = FALSE
    /\ link_status = FALSE /\ tx_tmo = 100 /\ connected = FALSE

Works == UNCHANGED glitches
Fails(what) ==
    what \in faults /\ glitches > 0 /\ glitches' = glitches - 1

-----------------------------------------------------------------------------
(* The cable and the PHY *)

PullOrPlug ==
    /\ cable => flaps > 0
    /\ cable' = ~cable /\ flaps' = IF cable THEN flaps - 1 ELSE flaps
    /\ lnk' = (lnk /\ cable')
    /\ UNCHANGED <<env, glitches, regs, phy, mac, upper, check, seen,
                   link_status, tx_tmo, connected>>

Negotiated == IF working = AutoMode THEN Best ELSE working
LinkComesUp ==
    /\ cable /\ runs /\ ~lnk /\ lnk' = TRUE
    /\ UNCHANGED <<env, glitches, flaps, cable, regs, phy, mac, upper, check,
                   seen, link_status, tx_tmo, connected>>

-----------------------------------------------------------------------------
(* The MAC driver *)

(* w6300_reset() and w5500_reset() after the reset pin: both put the chip   *)
(* to its defaults, the W6300 with its locks shut, and unlock_all() comes   *)
(* after them.                                                             *)
AfterReset_Shut == Groups                                       \* mutant
AfterReset == {}
ResetW6300(ok) ==
    \/ ok /\ Works /\ locks' = AfterReset
    \/ ~ok /\ Fails("bringup")
       /\ locks' \in {Groups, {"net", "phy"}, {"phy"}, {}}
ResetW5500(ok) ==
    (IF ok THEN Works ELSE Fails("bringup")) /\ UNCHANGED locks
Reset(ok) == IF chip = "W6300" THEN ResetW6300(ok) ELSE ResetW5500(ok)

(* emac_*_start(): OPEN, a look at Sn_SR, SIMR *)
MacStart(ok) ==
    \/ ok /\ Works /\ sock' = TRUE /\ simr' = TRUE
    \/ ~ok /\ Fails("up") /\ sock' \in {sock, TRUE} /\ UNCHANGED simr

(* emac_*_stop(): SIMR, CLOSE *)
MacStop(ok) ==
    \/ ok /\ Works /\ sock' = FALSE /\ simr' = FALSE
    \/ ~ok /\ Fails("down") /\ UNCHANGED sock /\ simr' \in {simr, FALSE}

(* emac_*_set_link(): starting a timer that runs, or stopping one that does *)
(* not, is an error of esp_timer.                                          *)
SetLink(up, ok) ==
    \E done \in BOOLEAN :
        /\ IF up THEN MacStart(done) ELSE MacStop(done)
        /\ ok = (done /\ (polled => timer # up))
        /\ timer' = IF done /\ polled THEN up ELSE timer

-----------------------------------------------------------------------------
(* The PHY driver *)

(* The mode to PHYCR0 and w6300_phy_restart(), a write to PHYCR1: both are  *)
(* lost when locked.                                                       *)
RestartW6300(ok, m) ==
    IF "phy" \in locks THEN UNCHANGED <<phy, lnk>>
    ELSE IF ok
    THEN mode' = m /\ working' = m /\ runs' = TRUE /\ lnk' = FALSE
    ELSE mode' \in {mode, m} /\ UNCHANGED <<working, runs, lnk>>

(* w5500_reset(): PHYCFGR.RST to 0 and back to 1 *)
RestartW5500(ok, m) ==
    \/ ok /\ mode' = m /\ working' = m /\ runs' = TRUE /\ lnk' = FALSE
    \/ ~ok /\ UNCHANGED <<phy, lnk>>
    \/ ~ok /\ mode' = m /\ working' = m /\ runs' = FALSE /\ lnk' = FALSE

Restart(ok, m, what) ==
    /\ IF ok THEN Works ELSE Fails(what)
    /\ IF chip = "W6300" THEN RestartW6300(ok, m) ELSE RestartW5500(ok, m)

(* *_update_link_duplex_speed(): what is read is compared with link_status, *)
(* a change is reported, and once the report succeeded it is remembered.   *)
CheckRead ==
    /\ fsm = "start" /\ check = "idle" /\ lnk # link_status
    /\ \/ Works /\ check' = "report" /\ seen' = lnk
       \/ Fails("check") /\ UNCHANGED <<check, seen>>
    /\ UNCHANGED <<env, flaps, cable, lnk, regs, phy, mac, upper, link_status,
                   tx_tmo, connected>>

(* on_state_changed(): SPEED, DUPLEX, LINK and the event, which             *)
(* eth_event_handler() takes.                                              *)
CheckReport ==
    /\ check = "report"
    /\ tx_tmo' = IF seen THEN Negotiated.speed ELSE tx_tmo
    /\ \E ok \in BOOLEAN :
        /\ SetLink(seen, ok)
        /\ check' = IF ok THEN "store" ELSE "idle"
        /\ connected' = IF ok THEN seen ELSE connected
    /\ UNCHANGED <<env, flaps, cable, lnk, regs, phy, upper, seen, link_status>>

Remembered_First == lnk                                         \* mutant
Remembered == seen
CheckStore ==
    /\ check = "store" /\ check' = "idle" /\ link_status' = Remembered
    /\ UNCHANGED <<env, glitches, flaps, cable, lnk, regs, phy, mac, upper,
                   seen, tx_tmo, connected>>

-----------------------------------------------------------------------------
(* The application's calls *)

(* An error at bring-up is ESP_ERROR_CHECK's: the firmware boots anew. *)
Reboot ==
    /\ fsm' = "none" /\ given' = FALSE /\ auto_nego_en' = TRUE /\ late' = FALSE
    /\ check' = "idle" /\ seen' = FALSE /\ link_status' = FALSE
    /\ tx_tmo' = 100 /\ timer' = FALSE /\ connected' = FALSE

(* esp_eth_driver_install(): mac->init(), phy->init(); a reset chip has its *)
(* socket closed and the PHY on and negotiating.                           *)
Install ==
    /\ fsm = "none"
    /\ shar' = FALSE /\ sock' = FALSE /\ simr' = FALSE
    /\ mode' = AutoMode /\ working' = AutoMode /\ runs' = TRUE /\ lnk' = FALSE
    /\ \/ Reset(TRUE) /\ fsm' = "stop"
          /\ UNCHANGED <<given, auto_nego_en, late, check, seen, link_status,
                         tx_tmo, timer, connected>>
       \/ Reset(FALSE) /\ Reboot
    /\ UNCHANGED <<env, flaps, cable>>

(* ETH_CMD_S_MAC_ADDR: a burst write to SHAR *)
SetMacAddr ==
    /\ fsm = "stop" /\ ~given
    /\ \/ Works /\ given' = TRUE
          /\ shar' = ("net" \notin locks)
          /\ UNCHANGED <<fsm, auto_nego_en, late, check, seen, link_status,
                         tx_tmo, timer, connected>>
       \/ Fails("bringup") /\ Reboot /\ UNCHANGED shar
    /\ UNCHANGED <<env, flaps, cable, lnk, locks, phy, sock, simr>>

(* esp_eth_start(): negotiation is restarted when it is wanted, which is an *)
(* error when the mode set does not negotiate.                             *)
Start ==
    /\ fsm = "stop" /\ given
    /\ IF auto_nego_en
       THEN \/ /\ mode = AutoMode /\ Restart(TRUE, mode, "bringup")
               /\ fsm' = "start" /\ link_status' = FALSE
               /\ UNCHANGED <<given, auto_nego_en, late, check, seen, tx_tmo,
                              timer, connected>>
            \/ mode = AutoMode /\ Restart(FALSE, mode, "bringup") /\ Reboot
            \/ mode # AutoMode /\ Works /\ Reboot /\ UNCHANGED <<phy, lnk>>
       ELSE /\ fsm' = "start" /\ Works
            /\ UNCHANGED <<given, auto_nego_en, late, check, seen, link_status,
                           tx_tmo, timer, connected, phy, lnk>>
    /\ UNCHANGED <<env, flaps, cable, regs, sock, simr>>

Call ==
    calls > 0 /\ calls' = calls - 1 /\ UNCHANGED <<chip, polled, faults>>

(* esp_eth_stop(): no more checks, then phy->set_link(DOWN), which takes    *)
(* the link for down before it reports.                                    *)
Reports_Never(ok) == ok /\ UNCHANGED <<mac, glitches>>          \* mutant
Reports(ok) == SetLink(FALSE, ok)
Stop ==
    /\ fsm = "start" /\ fsm' = "stop" /\ Call
    /\ late' = (late \/ check # "idle")
    /\ link_status' = FALSE
    /\ IF link_status
       THEN \E ok \in BOOLEAN :
                Reports(ok) /\ connected' = IF ok THEN FALSE ELSE connected
       ELSE UNCHANGED <<glitches, mac, connected>>
    /\ UNCHANGED <<flaps, cable, lnk, regs, phy, given, auto_nego_en, check,
                   seen, tx_tmo>>

(* ETH_CMD_S_AUTONEGO: a W6300 is restarted in the new mode; a W5500 gets   *)
(* it written, to be used from its next reset.                             *)
AutonegoW6300(ok, m) == link_status' = FALSE /\ Restart(ok, m, "call")
AutonegoW5500(ok, m) ==
    /\ IF ok THEN Works /\ mode' = m ELSE Fails("call") /\ UNCHANGED mode
    /\ UNCHANGED <<working, runs, lnk, link_status>>
Autonego ==
    /\ fsm = "stop" /\ given /\ Call
    /\ \E on, ok \in BOOLEAN :
        LET m == IF on THEN AutoMode ELSE Negotiated IN
        /\ IF chip = "W6300" THEN AutonegoW6300(ok, m) ELSE AutonegoW5500(ok, m)
        /\ auto_nego_en' = IF ok THEN on ELSE auto_nego_en
    /\ UNCHANGED <<flaps, cable, regs, mac, fsm, given, late, check, seen,
                   tx_tmo, connected>>

(* ETH_CMD_S_SPEED, ETH_CMD_S_DUPLEX_MODE: the other half of the mode is    *)
(* what the PHY shows.                                                     *)
SetPhy(m) ==
    /\ fsm = "stop" /\ given /\ ~auto_nego_en /\ Call
    /\ link_status' = FALSE
    /\ \E ok \in BOOLEAN : Restart(ok, m, "call")
    /\ UNCHANGED <<flaps, cable, regs, mac, upper, check, seen, tx_tmo,
                   connected>>
SetSpeed  == \E s \in {10, 100} : SetPhy([Negotiated EXCEPT !.speed = s])
SetDuplex == \E f \in BOOLEAN : SetPhy([Negotiated EXCEPT !.full = f])

-----------------------------------------------------------------------------
CheckLink == CheckRead \/ CheckReport \/ CheckStore
BringUp   == Install \/ SetMacAddr \/ Start
Next ==
    \/ PullOrPlug \/ LinkComesUp \/ CheckLink \/ BringUp
    \/ Stop \/ Autonego \/ SetSpeed \/ SetDuplex

Spec == Init /\ [][Next]_vars

(* The link is checked periodically, a PHY with a partner negotiates, and   *)
(* wiznet_net_init() runs to its end.                                      *)
FairSpec ==
    Spec /\ WF_vars(CheckLink) /\ WF_vars(LinkComesUp) /\ WF_vars(BringUp)

-----------------------------------------------------------------------------
(* Properties *)

(* Once the backend has set the MAC address, the chip filters and sends     *)
(* with it: on a W6300 no reset leaves the network registers locked behind  *)
(* the backend's back (net_backend_eth.c:194, esp_eth_mac_w6300.c:396).    *)
AddressTakes == given => shar

(* After esp_eth_stop() the hardware socket is closed, unless an access     *)
(* failed or a check of the link was under way                             *)
(* (esp_eth_phy_w6300.c:141).                                              *)
StoppedIsQuiet ==
    (fsm = "stop" /\ ~late /\ glitches = MaxGlitches) => ~sock /\ ~connected

(* The driver follows the cable: when cable and application leave it alone  *)
(* with a partner and a PHY that runs, the socket ends up open with its     *)
(* interrupt on and the right timeout, and when the cable stays out the     *)
(* receive task gets no more notifications; what fails is done again at     *)
(* the next check.  Excepted are a failure while the link goes down (when   *)
(* the cable is back before the next check, link_status never saw it go,    *)
(* and the socket stays as it was left) and a check overtaken by a stop     *)
(* (esp_eth_phy_w6300.c:91).                                               *)
Follows ==
    /\ cable /\ runs => sock /\ simr /\ connected /\ tx_tmo = Negotiated.speed
    /\ ~cable => ~simr /\ ~timer /\ ~connected
LinkSettles ==
    ("down" \notin faults /\ [](~late) /\ <>[](fsm = "start")) => <>[]Follows

(* What the application has set is what the PHY does: "PHY needs to be      *)
(* reset after configuring opsel and opmode" (esp_eth_phy_w5500.c:184).    *)
(* On a W5500 it is not: disabling negotiation writes the mode without the  *)
(* reset (:209), and without negotiation esp_eth_start() restarts nothing.  *)
ModeTakes == fsm = "start" /\ runs => working = mode

(* Apart from that it is: a started PHY that is to negotiate does, on       *)
(* either chip and after any calls and failures, and a W6300's is in the    *)
(* mode set, unless a register access failed (esp_eth_phy_w6300.c:215).    *)
ModeKept ==
    auto_nego_en \/ (chip = "W6300" /\ glitches = MaxGlitches) => ModeTakes
=============================================================================
