---------------------------- MODULE EthLinkProofs ----------------------------
(* Proofs about EthLink: the chip has the board's address once it has been  *)
(* given, what is stopped stays quiet, and the PHY works in the mode set.   *)
EXTENDS EthLink, TLAPS

(* Once the driver is installed no register of the chip is locked, and it   *)
(* is installed before it is given the address: the invariant of           *)
(* AddressTakes.                                                            *)
Unlocked ==
    /\ chip # "W6300" => locks = {}
    /\ fsm # "none" => locks = {}
    /\ given => fsm # "none" /\ shar

(* Only bringing the board up touches locks and address. *)
LEMMA KeepsUnlocked ==
    ASSUME Unlocked, [Next]_vars
    PROVE  Unlocked'
<1>1. CASE UNCHANGED <<chip, locks, shar, fsm, given>>
  BY <1>1 DEF Unlocked
<1>2. CASE PullOrPlug \/ LinkComesUp \/ CheckLink
  BY <1>1, <1>2 DEF PullOrPlug, LinkComesUp, CheckLink, CheckRead, CheckReport,
     CheckStore, env, regs, upper
<1>3. CASE Install
  <2>1. chip' = chip /\ given' \in {given, FALSE} /\ (fsm' = "none" => ~given')
        /\ (fsm' # "none" => Reset(TRUE) /\ fsm = "none")
    BY <1>3 DEF Install, env, Reboot, Unlocked
  <2>2. fsm' # "none" => locks' = {}
    BY <2>1 DEF Reset, ResetW6300, ResetW5500, AfterReset, Unlocked
  <2>3. chip # "W6300" => locks' = locks
    BY <1>3 DEF Install, Reset, ResetW5500
  <2>4. ~given'
    BY <1>3 DEF Install, Reboot, Unlocked
  <2> QED BY <2>1, <2>2, <2>3, <2>4 DEF Unlocked
<1>4. CASE SetMacAddr
  BY <1>4 DEF SetMacAddr, env, Reboot, Unlocked
<1>5. CASE Start
  <2>1. /\ UNCHANGED <<chip, locks, shar>> /\ fsm = "stop"
        /\ \/ given' = given /\ fsm' = "start"
           \/ Reboot
    BY <1>5 DEF Start, env, regs
  <2> QED BY <2>1 DEF Unlocked, Reboot
<1>6. CASE Stop \/ Autonego \/ SetSpeed \/ SetDuplex
  <2>1. UNCHANGED <<chip, locks, shar, given>>
    BY <1>6 DEF Stop, Autonego, SetSpeed, SetDuplex, SetPhy, Call, regs, upper
  <2>2. fsm # "none" /\ fsm' # "none"
    BY <1>6 DEF Stop, Autonego, SetSpeed, SetDuplex, SetPhy, upper
  <2> QED BY <2>1, <2>2 DEF Unlocked
<1> QED BY <1>1, <1>2, <1>3, <1>4, <1>5, <1>6
    DEF Next, BringUp, vars, env, regs, upper

(* Once the backend has given the MAC address, the chip has it: no reset,   *)
(* and no failure of a reset, leaves the network registers locked when      *)
(* SHAR is written, on whichever chip and however often bring-up fails.     *)
THEOREM AddressIsTaken == Spec => []AddressTakes
<1>1. Init => Unlocked
  BY DEF Init, Unlocked
<1>2. Unlocked /\ [Next]_vars => Unlocked'
  BY KeepsUnlocked
<1>3. Unlocked => AddressTakes
  BY DEF Unlocked, AddressTakes
<1> QED BY <1>1, <1>2, <1>3, PTL DEF Spec

-----------------------------------------------------------------------------
(* StoppedIsQuiet.  While no access has failed, and unless a stop overtook  *)
(* a check, the hardware socket, the poll timer and the backend's flag are  *)
(* where link_status says; between the report of a check and its store they *)
(* are already where the check has read the link.                           *)

Whole == glitches = MaxGlitches

Shows(link) == sock = link /\ connected = link /\ (polled => timer = link)

Quiet ==
    /\ fsm \in {"none", "stop"} => check = "idle" /\ link_status = FALSE
    /\ fsm = "none" => connected = FALSE /\ timer = FALSE
    /\ fsm = "stop" => Shows(FALSE)
    /\ fsm = "start" =>
         /\ check \in {"idle", "report"} => Shows(link_status)
         /\ check = "report" => seen = ~link_status
         /\ check = "store" => Shows(seen)

Typed ==
    /\ glitches \in Nat /\ glitches <= MaxGlitches
    /\ lnk \in BOOLEAN /\ link_status \in BOOLEAN /\ seen \in BOOLEAN
    /\ fsm \in {"none", "stop", "start"}
    /\ check \in {"idle", "report", "store"}

LinkInv == Typed /\ (Whole /\ ~late => Quiet)

(* The failures that are left only become fewer, so a step after which none *)
(* has happened is one in which none happens.                               *)
LEMMA NothingFailed ==
    ASSUME MaxGlitches \in Nat, Typed, Whole', NEW what, Fails(what)
    PROVE  FALSE
BY DEF Typed, Whole, Fails

(* A report of a link that is not the one remembered succeeds, and all      *)
(* three then show that link.                                               *)
LEMMA LinkIsSet ==
    ASSUME MaxGlitches \in Nat, Typed, Whole', NEW up \in BOOLEAN,
           NEW ok \in BOOLEAN, SetLink(up, ok), polled => timer = ~up
    PROVE  Works /\ ok = TRUE /\ sock' = up /\ (polled => timer' = up)
<1>1. PICK done \in BOOLEAN :
        /\ IF up THEN MacStart(done) ELSE MacStop(done)
        /\ ok = (done /\ (polled => timer # up))
        /\ timer' = IF done /\ polled THEN up ELSE timer
  BY DEF SetLink
<1>2. done /\ Works /\ sock' = up
  <2>1. CASE up
    BY <1>1, <2>1, NothingFailed DEF MacStart
  <2>2. CASE ~up
    BY <1>1, <2>2, NothingFailed DEF MacStop
  <2> QED BY <2>1, <2>2
<1> QED BY <1>1, <1>2

(* What a step leaves of the failures that are left *)
Fewer == glitches' = glitches \/ (glitches > 0 /\ glitches' = glitches - 1)

(* Bringing the link up or down uses up one failure at the most. *)
LEMMA SetLinkFewer ==
    ASSUME NEW up, NEW ok, SetLink(up, ok)
    PROVE  Fewer
BY DEF SetLink, MacStart, MacStop, Works, Fails, Fewer

(* Every step uses up one failure at the most and keeps the types. *)
LEMMA TypedStep ==
    ASSUME MaxGlitches \in Nat, Typed, [Next]_vars
    PROVE  Typed'
<1>1. Fewer
  <2>1. CASE CheckReport
    BY <2>1, SetLinkFewer DEF CheckReport
  <2>2. CASE Stop
    BY <2>2, SetLinkFewer DEF Stop, Reports, Fewer
  <2>3. CASE Install \/ SetMacAddr
    BY <2>3 DEF Install, SetMacAddr, Reset, ResetW6300, ResetW5500, Works,
       Fails, Fewer
  <2>4. CASE Start
    BY <2>4 DEF Start, Restart, Works, Fails, Fewer
  <2>5. CASE Autonego
    BY <2>5 DEF Autonego, AutonegoW6300, AutonegoW5500, Restart, Works, Fails,
       Fewer
  <2>6. CASE SetSpeed \/ SetDuplex
    BY <2>6 DEF SetSpeed, SetDuplex, SetPhy, Restart, Works, Fails, Fewer
  <2>7. CASE PullOrPlug \/ LinkComesUp \/ CheckRead \/ CheckStore
    BY <2>7 DEF PullOrPlug, LinkComesUp, CheckRead, CheckStore, Works, Fails,
       Fewer
  <2>8. CASE UNCHANGED vars
    BY <2>8 DEF vars, Fewer
  <2> QED BY <2>1, <2>2, <2>3, <2>4, <2>5, <2>6, <2>7, <2>8
      DEF Next, CheckLink, BringUp
<1>2. glitches' \in Nat /\ glitches' <= MaxGlitches
  BY <1>1 DEF Fewer, Typed
<1>3. lnk' \in BOOLEAN
  <2>1. CASE PullOrPlug \/ LinkComesUp
    BY <2>1 DEF PullOrPlug, LinkComesUp, Typed
  <2>2. CASE CheckLink \/ Stop \/ SetMacAddr \/ UNCHANGED vars
    BY <2>2 DEF CheckLink, CheckRead, CheckReport, CheckStore, Stop, SetMacAddr,
       vars, Typed
  <2>3. CASE Install
    BY <2>3 DEF Install
  <2>4. ASSUME NEW ok, NEW m, NEW what, Restart(ok, m, what)
        PROVE  lnk' \in BOOLEAN
    BY <2>4 DEF Restart, RestartW6300, RestartW5500, Typed
  <2>5. CASE Start
    BY <2>4, <2>5 DEF Start, Typed
  <2>6. CASE Autonego
    BY <2>4, <2>6 DEF Autonego, AutonegoW6300, AutonegoW5500, Typed
  <2>7. CASE SetSpeed \/ SetDuplex
    BY <2>4, <2>7 DEF SetSpeed, SetDuplex, SetPhy
  <2> QED BY <2>1, <2>2, <2>3, <2>5, <2>6, <2>7 DEF Next, BringUp
<1>4. /\ link_status' \in BOOLEAN /\ seen' \in BOOLEAN
      /\ fsm' \in {"none", "stop", "start"}
      /\ check' \in {"idle", "report", "store"}
  <2>1. CASE PullOrPlug \/ LinkComesUp \/ CheckRead \/ UNCHANGED vars
    BY <2>1 DEF PullOrPlug, LinkComesUp, CheckRead, vars, upper, Typed
  <2>2. CASE CheckReport \/ CheckStore
    BY <2>2 DEF CheckReport, CheckStore, Remembered, upper, Typed
  <2>3. CASE Install \/ SetMacAddr
    BY <2>3 DEF Install, SetMacAddr, Reboot, Typed
  <2>4. CASE Start
    BY <2>4 DEF Start, Reboot, Typed
  <2>5. CASE Stop
    BY <2>5 DEF Stop, Typed
  <2>6. CASE Autonego
    BY <2>6 DEF Autonego, AutonegoW6300, AutonegoW5500, Typed
  <2>7. CASE SetSpeed \/ SetDuplex
    BY <2>7 DEF SetSpeed, SetDuplex, SetPhy, upper, Typed
  <2> QED BY <2>1, <2>2, <2>3, <2>4, <2>5, <2>6, <2>7
      DEF Next, BringUp, CheckLink
<1> QED BY <1>2, <1>3, <1>4 DEF Typed

(* What is whole after a step was whole before it. *)
LEMMA WholeBefore ==
    ASSUME MaxGlitches \in Nat, Typed, [Next]_vars, Whole'
    PROVE  Whole
<1>1. Fewer => glitches' = glitches
  BY DEF Fewer, Whole, Typed
<1>2. CASE CheckReport
  BY <1>1, <1>2, SetLinkFewer DEF CheckReport, Whole
<1>3. CASE Stop
  BY <1>1, <1>3, SetLinkFewer DEF Stop, Reports, Whole, Fewer
<1>4. CASE Install \/ SetMacAddr
  BY <1>4, NothingFailed DEF Install, SetMacAddr, Reset, ResetW6300,
     ResetW5500, Works, Whole
<1>5. CASE Start \/ Autonego \/ SetSpeed \/ SetDuplex
  <2>1. ASSUME NEW ok, NEW m, NEW what, Restart(ok, m, what)
        PROVE  glitches' = glitches
    BY <2>1, NothingFailed DEF Restart, Works
  <2>2. ASSUME NEW ok, NEW m, AutonegoW5500(ok, m)
        PROVE  glitches' = glitches
    BY <2>2, NothingFailed DEF AutonegoW5500, Works
  <2>3. glitches' = glitches
    BY <1>5, <2>1, <2>2 DEF Start, Autonego, AutonegoW6300, SetSpeed,
       SetDuplex, SetPhy, Works
  <2> QED BY <2>3 DEF Whole
<1>6. CASE PullOrPlug \/ LinkComesUp \/ CheckRead \/ CheckStore
  BY <1>6, NothingFailed DEF PullOrPlug, LinkComesUp, CheckRead,
     CheckStore, Works, Whole
<1>7. CASE UNCHANGED vars
  BY <1>7 DEF vars, Whole
<1> QED BY <1>2, <1>3, <1>4, <1>5, <1>6, <1>7
    DEF Next, CheckLink, BringUp

(* No step in which nothing fails, and no stop in the middle of a check,    *)
(* leaves the socket, the timer or the flag elsewhere.                      *)
LEMMA QuietStep ==
    ASSUME MaxGlitches \in Nat, LinkInv, [Next]_vars, Whole', ~late'
    PROVE  Quiet'
<1>0. Typed /\ (Whole /\ ~late => Quiet)
  BY DEF LinkInv
<1>a. Whole
  BY <1>0, WholeBefore
<1>b. ASSUME fsm' = "none", check' = "idle", link_status' = FALSE,
             connected' = FALSE, timer' = FALSE
      PROVE  Quiet'
  BY <1>b DEF Quiet, Shows
<1>c. Reboot => Quiet'
  BY <1>b DEF Reboot
<1>1. CASE UNCHANGED <<polled, mac, fsm, late, check, seen, link_status,
                       connected>>
  BY <1>0, <1>1, <1>a DEF Quiet, Shows, mac
<1>2. CASE PullOrPlug \/ LinkComesUp
  BY <1>1, <1>2 DEF PullOrPlug, LinkComesUp, env, upper
<1>3. CASE CheckRead
  <2>1. /\ fsm = "start" /\ fsm' = fsm /\ ~late /\ check = "idle"
        /\ UNCHANGED <<polled, sock, timer, link_status, connected>>
        /\ lnk # link_status
        /\ \/ check' = "report" /\ seen' = lnk
           \/ UNCHANGED <<check, seen>>
    BY <1>3 DEF CheckRead, env, mac, upper
  <2> QED BY <1>0, <1>a, <2>1 DEF Quiet, Shows, Typed
<1>4. CASE CheckReport
  <2>1. /\ check = "report" /\ ~late
        /\ UNCHANGED <<polled, fsm, seen, link_status>>
    BY <1>4 DEF CheckReport, env, upper
  <2>2. fsm = "start" /\ Shows(link_status) /\ seen = ~link_status
    BY <1>0, <1>a, <2>1 DEF Quiet, Typed
  <2>3. PICK ok \in BOOLEAN :
          /\ SetLink(seen, ok)
          /\ check' = IF ok THEN "store" ELSE "idle"
          /\ connected' = IF ok THEN seen ELSE connected
    BY <1>4 DEF CheckReport
  <2>4. seen \in BOOLEAN /\ link_status \in BOOLEAN
    BY <1>0 DEF Typed
  <2>5. polled => timer = ~seen
    BY <2>2, <2>4 DEF Shows
  <2>6. ok = TRUE /\ sock' = seen /\ (polled => timer' = seen)
    BY <1>0, <2>3, <2>4, <2>5, LinkIsSet
  <2>7. check' = "store" /\ connected' = seen
    BY <2>3, <2>6
  <2> QED BY <2>1, <2>2, <2>6, <2>7 DEF Quiet, Shows
<1>5. CASE CheckStore
  <2>1. /\ check = "store" /\ check' = "idle" /\ link_status' = seen /\ ~late
        /\ UNCHANGED <<polled, sock, timer, fsm, connected>>
    BY <1>5 DEF CheckStore, Remembered, env, mac, upper
  <2> QED BY <1>0, <1>a, <2>1 DEF Quiet, Shows, Typed
<1>6. CASE Install
  <2>1. ASSUME Reset(TRUE), fsm' = "stop"
        PROVE  Quiet'
    <3>1. UNCHANGED <<late, check, link_status, timer, connected>> /\ sock' = FALSE
          /\ fsm = "none"
      BY <1>6, <2>1 DEF Install, Reboot
    <3> QED BY <1>0, <1>a, <2>1, <3>1 DEF Quiet, Shows
  <2> QED BY <1>6, <1>c, <2>1 DEF Install
<1>7. CASE SetMacAddr
  <2>1. UNCHANGED <<polled, mac, fsm, late, check, seen, link_status, connected>>
        \/ Reboot
    BY <1>7 DEF SetMacAddr, env, mac
  <2> QED BY <2>1, <1>1, <1>c
<1>8. CASE Start
  <2>1. \/ Reboot
        \/ /\ fsm = "stop" /\ fsm' = "start"
           /\ link_status' \in {FALSE, link_status}
           /\ UNCHANGED <<late, check, seen, timer, connected, sock, polled>>
    BY <1>8 DEF Start, env
  <2>2. CASE fsm = "stop" /\ ~Reboot
    <3>1. /\ fsm' = "start"
          /\ UNCHANGED <<late, check, seen, timer, connected, sock, polled>>
      BY <2>1, <2>2
    <3>2. check = "idle" /\ link_status = FALSE /\ Shows(FALSE)
      BY <1>0, <1>a, <2>2, <3>1 DEF Quiet
    <3>3. check' = "idle" /\ link_status' = FALSE
      BY <2>1, <2>2, <3>1, <3>2
    <3>4. Shows(FALSE)'
      BY <3>1, <3>2 DEF Shows
    <3> QED BY <3>1, <3>3, <3>4 DEF Quiet, Shows
  <2> QED BY <2>1, <2>2, <1>c
<1>9. CASE Stop
  <2>1. /\ fsm = "start" /\ fsm' = "stop" /\ ~late /\ check = "idle"
        /\ link_status' = FALSE /\ UNCHANGED <<polled, check>>
    BY <1>9 DEF Stop, Call
  <2>2. Shows(link_status) /\ link_status \in BOOLEAN
    BY <1>0, <1>a, <2>1 DEF Quiet, Typed
  <2>3. CASE link_status
    <3>1. PICK ok \in BOOLEAN :
            SetLink(FALSE, ok) /\ connected' = IF ok THEN FALSE ELSE connected
      BY <1>9, <2>3 DEF Stop, Reports
    <3>2. polled => timer = ~FALSE
      BY <2>2, <2>3 DEF Shows
    <3>3. ok = TRUE /\ sock' = FALSE /\ (polled => timer' = FALSE)
      BY <1>0, <3>1, <3>2, LinkIsSet
    <3> QED BY <2>1, <3>1, <3>3 DEF Quiet, Shows
  <2>4. CASE ~link_status
    <3>1. UNCHANGED <<sock, timer, connected>>
      BY <1>9, <2>4 DEF Stop, mac
    <3> QED BY <2>1, <2>2, <2>4, <3>1 DEF Quiet, Shows
  <2> QED BY <2>2, <2>3, <2>4
<1>10. CASE Autonego \/ SetSpeed \/ SetDuplex
  <2>1. /\ fsm = "stop" /\ link_status' \in {FALSE, link_status}
        /\ UNCHANGED <<polled, sock, timer, fsm, late, check, connected>>
    BY <1>10 DEF Autonego, AutonegoW6300, AutonegoW5500, SetSpeed, SetDuplex,
       SetPhy, Call, mac, upper
  <2> QED BY <1>0, <1>a, <2>1 DEF Quiet, Shows
<1>11. CASE UNCHANGED vars
  BY <1>1, <1>11 DEF vars, env, upper
<1> QED BY <1>2, <1>3, <1>4, <1>5, <1>6, <1>7, <1>8, <1>9, <1>10, <1>11
    DEF Next, CheckLink, BringUp

(* After esp_eth_stop() the hardware socket is closed and the backend knows *)
(* it, whatever the chip, with or without an interrupt line, and however    *)
(* often the link went up and down before.                                  *)
THEOREM StopIsQuiet ==
    ASSUME MaxGlitches \in Nat
    PROVE  Spec => []StoppedIsQuiet
<1>1. Init => LinkInv
  <2>1. Init => Typed
    <3>1. ASSUME Init
          PROVE  /\ glitches = MaxGlitches /\ fsm = "none" /\ check = "idle"
                 /\ lnk = FALSE /\ link_status = FALSE /\ seen = FALSE
      BY <3>1 DEF Init
    <3> QED BY <3>1 DEF Typed
  <2>2. Init => Quiet
    BY DEF Init, Quiet
  <2> QED BY <2>1, <2>2 DEF LinkInv
<1>2. LinkInv /\ [Next]_vars => LinkInv'
  BY TypedStep, QuietStep DEF LinkInv
<1>3. LinkInv => StoppedIsQuiet
  BY DEF LinkInv, Quiet, Shows, Whole, StoppedIsQuiet
<1> QED BY <1>1, <1>2, <1>3, PTL DEF Spec

-----------------------------------------------------------------------------
(* ModeKept.  A start that negotiates restarts the PHY, and negotiation is *)
(* switched only while the driver is stopped; on a W6300 whatever writes    *)
(* the mode restarts it.  Both need registers that are not locked.         *)
ModeUsed ==
    /\ auto_nego_en /\ fsm = "start" => working = mode
    /\ chip = "W6300" /\ Whole => working = mode

ModeInv == Typed /\ Unlocked /\ ModeUsed

(* A restart that succeeds puts the mode to use, unless it was lost on      *)
(* locked registers; one that fails uses up a failure.                     *)
LEMMA RestartUses ==
    ASSUME Restart(TRUE, mode, "bringup"), locks = {}
    PROVE  mode' = mode /\ working' = mode
BY DEF Restart, RestartW6300, RestartW5500

LEMMA RestartKeepsMode ==
    ASSUME MaxGlitches \in Nat, Typed, Whole', chip = "W6300",
           working = mode, NEW ok \in BOOLEAN, NEW m, NEW what,
           Restart(ok, m, what)
    PROVE  working' = mode'
<1>1. ok
  BY NothingFailed DEF Restart
<1> QED BY <1>1 DEF Restart, RestartW6300, phy

(* No step leaves the PHY in another mode than the one that is set. *)
LEMMA KeepsModeUsed ==
    ASSUME MaxGlitches \in Nat, ModeInv, [Next]_vars
    PROVE  ModeUsed'
<1>0. Typed /\ Unlocked /\ ModeUsed
  BY DEF ModeInv
<1>a. Whole' => Whole
  BY <1>0, WholeBefore
<1>1. CASE UNCHANGED <<chip, phy, auto_nego_en, fsm>>
  BY <1>0, <1>1, <1>a DEF ModeUsed, phy
<1>2. CASE PullOrPlug \/ LinkComesUp \/ CheckLink \/ UNCHANGED vars
  BY <1>1, <1>2 DEF PullOrPlug, LinkComesUp, CheckLink, CheckRead, CheckReport,
     CheckStore, vars, env, upper
<1>3. CASE Install
  BY <1>3 DEF Install, ModeUsed
<1>4. CASE SetMacAddr
  <2>1. UNCHANGED <<chip, phy>> /\ fsm' # "start"
    BY <1>4 DEF SetMacAddr, env, Reboot
  <2> QED BY <1>0, <1>a, <2>1 DEF ModeUsed, phy
<1>5. CASE Start
  <2>1. chip' = chip /\ locks = {}
    BY <1>0, <1>5 DEF Start, env, Unlocked
  <2>2. CASE auto_nego_en /\ Restart(TRUE, mode, "bringup")
    BY <2>1, <2>2, RestartUses DEF ModeUsed
  <2>3. CASE Restart(FALSE, mode, "bringup") /\ Reboot
    <3>1. ~Whole'
      BY <1>0, <2>3, NothingFailed DEF Restart
    <3> QED BY <2>3, <3>1 DEF ModeUsed, Reboot
  <2>4. CASE UNCHANGED phy /\ (Reboot \/ ~auto_nego_en')
    <3>1. ~(auto_nego_en' /\ fsm' = "start")
      BY <2>4 DEF Reboot
    <3> QED BY <1>0, <1>a, <2>1, <2>4, <3>1 DEF ModeUsed, phy
  <2> QED BY <1>5, <2>2, <2>3, <2>4 DEF Start
<1>6. CASE Stop
  <2>1. UNCHANGED <<chip, phy>> /\ fsm' # "start"
    BY <1>6 DEF Stop, Call
  <2> QED BY <1>0, <1>a, <2>1 DEF ModeUsed, phy
<1>7. CASE Autonego
  <2>1. chip' = chip /\ fsm' # "start"
    BY <1>7 DEF Autonego, Call
  <2>2. PICK on \in BOOLEAN, ok \in BOOLEAN :
          LET m == IF on THEN AutoMode ELSE Negotiated IN
          IF chip = "W6300" THEN AutonegoW6300(ok, m) ELSE AutonegoW5500(ok, m)
    BY <1>7 DEF Autonego
  <2>3. ASSUME chip = "W6300", Whole'
        PROVE  working' = mode'
    <3>1. working = mode
      BY <1>0, <1>a, <2>3 DEF ModeUsed
    <3> QED BY <1>0, <2>2, <2>3, <3>1, RestartKeepsMode DEF AutonegoW6300
  <2> QED BY <2>1, <2>3 DEF ModeUsed
<1>8. CASE SetSpeed \/ SetDuplex
  <2>1. PICK m : SetPhy(m)
    BY <1>8 DEF SetSpeed, SetDuplex
  <2>2. chip' = chip /\ fsm' # "start"
    BY <2>1 DEF SetPhy, Call, upper
  <2>3. ASSUME chip = "W6300", Whole'
        PROVE  working' = mode'
    <3>1. working = mode
      BY <1>0, <1>a, <2>3 DEF ModeUsed
    <3> QED BY <1>0, <2>1, <2>3, <3>1, RestartKeepsMode DEF SetPhy
  <2> QED BY <2>2, <2>3 DEF ModeUsed
<1> QED BY <1>2, <1>3, <1>4, <1>5, <1>6, <1>7, <1>8 DEF Next, BringUp

(* While it is to negotiate, on either chip and whatever has failed, and on *)
(* a W6300 as long as no register access has failed, the PHY works in the   *)
(* mode that was set.                                                      *)
THEOREM ModeIsKept ==
    ASSUME MaxGlitches \in Nat
    PROVE  Spec => []ModeKept
<1>1. Init => ModeInv
  <2>1. ASSUME Init
        PROVE  /\ glitches = MaxGlitches /\ fsm = "none" /\ check = "idle"
               /\ lnk = FALSE /\ link_status = FALSE /\ seen = FALSE
               /\ given = FALSE /\ (chip # "W6300" => locks = {})
               /\ working = mode
    BY <2>1 DEF Init
  <2> QED BY <2>1 DEF ModeInv, Typed, Unlocked, ModeUsed
<1>2. ModeInv /\ [Next]_vars => ModeInv'
  BY TypedStep, KeepsUnlocked, KeepsModeUsed DEF ModeInv
<1>3. ModeInv => ModeKept
  BY DEF ModeInv, ModeUsed, Whole, ModeTakes, ModeKept
<1> QED BY <1>1, <1>2, <1>3, PTL DEF Spec

=============================================================================
