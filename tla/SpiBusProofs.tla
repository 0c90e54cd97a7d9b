---------------------------- MODULE SpiBusProofs ----------------------------
(***************************************************************************)
(* Proofs about SpiBus: when the wait for the mutex cannot time out        *)
(* (lock_timeout_ms = UINT32_MAX), every select period on the wire belongs *)
(* to one access, for any number of tasks and whatever the bus refuses.    *)
(***************************************************************************)
EXTENDS SpiBus, SequenceTheorems, TLAPS

(* How often a task inside an access has taken the mutex. *)
Takes(t) ==
    IF pc[t] \in {"select", "exit"} THEN 1
    ELSE IF pc[t] \in {"bus", "autobus"} \/ csActive THEN 2 ELSE 1

(* What the chip has seen of the access of the task in its select period. *)
SoFar(t) ==
    IF pc[t] = "deselect" THEN <<<<t, "header">>, <<t, "data">>>>
    ELSE IF part[t] = "header" THEN <<>> ELSE <<<<t, "header">>>>

(* The mutex is exactly the right to be inside an access, and it is held   *)
(* as often as the place in the access says.                               *)
Mutex ==
    /\ \A t \in Tasks : (pc[t] = "idle") <=> (lock # t)
    /\ lock = NoTask => depth = 0
    /\ lock # NoTask => depth = Takes(lock)

(* cs_active is the holder's, and so is the bus; a transfer without it     *)
(* means that the bus was refused.                                         *)
Selected ==
    /\ csActive <=> bus = "chip"
    /\ csActive => lock # NoTask /\ pc[lock] \in {"send", "deselect"}
    /\ \A t \in Tasks : pc[t] \in {"send", "autobus", "deselect"} =>
                             csActive \/ BusFails
    /\ \A t \in Tasks : pc[t] = "deselect" => part[t] = "data"
    /\ \A t \in Tasks : pc[t] \in {"select", "bus"} => part[t] = "header"

(* What is, and was last, on the wire. *)
Wire ==
    /\ frame = IF csActive THEN SoFar(lock) ELSE <<>>
    /\ \/ last = <<>>
       \/ \E t \in Tasks : last = <<<<t, "header">>, <<t, "data">>>>
       \/ BusFails /\ Len(last) = 1

(* What the driver has made and not released. *)
Callers == IF callersBus THEN {"bus"} ELSE {}
Tidy ==
    /\ up => have = Resources /\ busOwned = ~callersBus
    /\ ~up => have = Callers /\ ~busOwned /\ \A t \in Tasks : pc[t] = "idle"

IInv == TypeOK /\ Mutex /\ Selected /\ Wire /\ Tidy

-----------------------------------------------------------------------------
(* The mutex goes to a task that may have it, at once or not at all.       *)
LEMMA Answer ==
    ASSUME ~Timeouts, NEW t \in Tasks, NEW got \in Answers(t)
    PROVE  got = TRUE /\ lock \in {NoTask, t}
  BY DEF Answers

(* The driver before wsm_driver_spi_init() satisfies the invariant. *)
LEMMA InitHolds == Init => IInv
  <1> SUFFICES ASSUME Init PROVE IInv
    OBVIOUS
  <1> USE TaskAssumption DEF Init
  <1>1. TypeOK
    <2>1. frame \in Seq(Tasks \X Parts) /\ last \in Seq(Tasks \X Parts)
      OBVIOUS
    <2>2. have \subseteq Resources
      BY DEF Resources
    <2> QED BY <2>1, <2>2 DEF TypeOK, Places, Parts
  <1>2. Mutex /\ Selected /\ Tidy
    BY DEF Mutex, Selected, Tidy, Callers
  <1>3. Wire
    BY DEF Wire
  <1> QED BY <1>1, <1>2, <1>3 DEF IInv

(* A step that leaves the wire alone, and keeps what SoFar() says of the   *)
(* holder while it is selected, keeps Wire.                                *)
LEMMA WireKept ==
    ASSUME Wire, UNCHANGED <<frame, last, csActive>>,
           csActive => SoFar(lock)' = SoFar(lock)
    PROVE  Wire'
  BY DEF Wire

(* wizchip_critical_enter() takes the free mutex, or takes it again. *)
LEMMA EnterHolds ==
    ASSUME ~Timeouts, IInv, NEW t \in Tasks, Enter(t)
    PROVE  IInv'
  <1> USE TaskAssumption DEF initVars
  <1>1. /\ lock = NoTask /\ lock' = t /\ depth' = 1
        /\ ~csActive
        /\ pc' = [pc EXCEPT ![t] = "select"]
        /\ part' = [part EXCEPT ![t] = "header"]
    <2>1. PICK got \in Answers(t) : Take(t, got)
      BY DEF Enter
    <2>2. lock \in {NoTask, t} /\ lock' = t /\ depth' = depth + 1
      BY <2>1, Answer DEF Take
    <2>3. pc \in [Tasks -> Places] /\ pc[t] = "idle"
      BY DEF Enter, IInv, TypeOK
    <2> QED BY <2>2, <2>3 DEF Enter, IInv, Mutex, Selected, Goto
  <1>2. TypeOK'
    BY <1>1 DEF Enter, TypeOK, IInv, Places, Parts
  <1>3. Mutex' /\ Selected'
    BY <1>1 DEF Enter, TypeOK, IInv, Mutex, Selected, Takes
  <1>4. Wire'
    BY <1>1, WireKept DEF Enter, IInv
  <1>5. Tidy'
    BY <1>1 DEF Enter, IInv, Tidy, Callers
  <1> QED BY <1>2, <1>3, <1>4, <1>5 DEF IInv

(* wizchip_cs_select() takes the mutex a second time. *)
LEMMA SelectHolds ==
    ASSUME ~Timeouts, IInv, NEW t \in Tasks, Select(t)
    PROVE  IInv'
  <1> USE TaskAssumption DEF initVars
  <1>1. /\ lock = t /\ lock' = t /\ depth = 1 /\ depth' = 2
        /\ ~csActive
        /\ pc' = [pc EXCEPT ![t] = "bus"]
    <2>1. PICK got \in Answers(t) :
                 Take(t, got) /\ Goto(t, IF got THEN "bus" ELSE "send")
      BY DEF Select
    <2>2. lock \in {NoTask, t} /\ lock' = t /\ depth' = depth + 1
      BY <2>1, Answer DEF Take
    <2>3. pc' = [pc EXCEPT ![t] = "bus"]
      BY <2>1, Answer DEF Goto
    <2>4. pc[t] = "select"
      BY DEF Select
    <2> QED BY <2>2, <2>3, <2>4 DEF IInv, Mutex, Selected, Takes
  <1>2. TypeOK'
    BY <1>1 DEF Select, TypeOK, IInv, Places
  <1>3. Mutex' /\ Selected'
    BY <1>1 DEF Select, TypeOK, IInv, Mutex, Selected, Takes
  <1>4. Wire'
    BY <1>1, WireKept DEF Select, IInv
  <1>5. Tidy'
    BY <1>1 DEF Select, TypeOK, IInv, Tidy, Callers
  <1> QED BY <1>2, <1>3, <1>4, <1>5 DEF IInv

(* What giving the mutex does for its holder. *)
LEMMA GiveOnce ==
    ASSUME NEW t \in Tasks, lock = t, depth \in Nat \ {0}, Give(t)
    PROVE  /\ depth = 1 => lock' = NoTask /\ depth' = 0
           /\ depth # 1 => lock' = t /\ depth' = depth - 1
  BY DEF Give

(* wizchip_cs_select() gets the bus, or gives its own take back. *)
LEMMA SelectBusHolds ==
    ASSUME ~Timeouts, IInv, NEW t \in Tasks, SelectBus(t)
    PROVE  IInv'
  <1> USE TaskAssumption DEF initVars
  <1>1. /\ lock = t /\ depth = 2 /\ ~csActive /\ part[t] = "header"
        /\ pc[t] = "bus" /\ pc' = [pc EXCEPT ![t] = "send"]
    BY DEF SelectBus, IInv, Mutex, Selected, Takes, Goto
  <1>2. PICK ok \in BusAnswers :
            IF ok
            THEN bus' = "chip" /\ csActive' = TRUE /\ frame' = <<>>
                 /\ UNCHANGED <<lock, depth>>
            ELSE Give(t) /\ UNCHANGED <<bus, csActive, frame>>
    BY DEF SelectBus
  <1>3. CASE ok
    <2>1. bus' = "chip" /\ csActive' = TRUE /\ frame' = <<>>
          /\ lock' = t /\ depth' = 2
      BY <1>1, <1>2, <1>3
    <2>2. frame' \in Seq(Tasks \X Parts)
      BY <2>1
    <2>3. TypeOK'
      BY <1>1, <2>1, <2>2 DEF SelectBus, IInv, TypeOK, Places
    <2>4. Mutex' /\ Selected'
      BY <1>1, <2>1 DEF SelectBus, IInv, TypeOK, Mutex, Selected, Takes
    <2>5. Wire'
      BY <1>1, <2>1 DEF SelectBus, IInv, TypeOK, Wire, SoFar
    <2>6. Tidy'
      BY <1>1 DEF SelectBus, IInv, TypeOK, Tidy, Callers
    <2> QED BY <2>3, <2>4, <2>5, <2>6 DEF IInv
  <1>4. CASE ~ok
    <2>1. UNCHANGED <<bus, csActive, frame>> /\ lock' = t /\ depth' = 1
      BY <1>1, <1>2, <1>4, GiveOnce
    <2>2. BusFails
      BY <1>4 DEF BusAnswers
    <2>3. TypeOK'
      BY <1>1, <2>1 DEF SelectBus, IInv, TypeOK, Places
    <2>4. Mutex' /\ Selected'
      BY <1>1, <2>1, <2>2 DEF SelectBus, IInv, TypeOK, Mutex, Selected, Takes
    <2>5. Wire'
      BY <1>1, <2>1, WireKept DEF SelectBus, IInv
    <2>6. Tidy'
      BY <1>1 DEF SelectBus, IInv, TypeOK, Tidy, Callers
    <2> QED BY <2>3, <2>4, <2>5, <2>6 DEF IInv
  <1> QED BY <1>3, <1>4

(* A header followed by a transfer is a sequence of two. *)
LEMMA AppendToOne ==
    ASSUME NEW S, NEW x \in S, NEW y \in S
    PROVE  Append(<<x>>, y) = <<x, y>>
  <1>1. <<x>> \in Seq(S) /\ <<x, y>> \in Seq(S)
    OBVIOUS
  <1>2. Append(<<x>>, y) \in Seq(S)
    BY <1>1
  <1>3. Len(Append(<<x>>, y)) = 2 /\ Len(<<x, y>>) = 2
    BY <1>1
  <1>4. \A i \in 1 .. 2 : Append(<<x>>, y)[i] = <<x, y>>[i]
    BY <1>1
  <1> QED BY <1>1, <1>2, <1>3, <1>4, SeqEqual

(* A transfer in a select period is its header or its data. *)
LEMMA TransferHolds ==
    ASSUME ~Timeouts, IInv, NEW t \in Tasks, Transfer(t)
    PROVE  IInv'
  <1> USE TaskAssumption DEF initVars
  <1>1. /\ lock = t /\ depth = 2 /\ csActive /\ pc[t] = "send"
        /\ pc' = [pc EXCEPT ![t] = IF part[t] = "header" THEN "send"
                                   ELSE "deselect"]
        /\ part' = [part EXCEPT ![t] = "data"]
        /\ UNCHANGED <<lock, depth, bus, csActive, last>>
    BY DEF Transfer, IInv, Mutex, Takes, Goto, Advance
  <1>2. frame' = Append(frame, <<t, part[t]>>)
        /\ frame = IF part[t] = "header" THEN <<>> ELSE <<<<t, "header">>>>
    BY <1>1 DEF Transfer, IInv, Wire, SoFar
  <1>3. part[t] \in Parts /\ <<t, part[t]>> \in Tasks \X Parts
    BY DEF IInv, TypeOK
  <1>4. frame' \in Seq(Tasks \X Parts)
    BY <1>2, <1>3 DEF IInv, TypeOK
  <1>5. TypeOK'
    BY <1>1, <1>4 DEF Transfer, IInv, TypeOK, Places, Parts
  <1>6. Mutex' /\ Selected'
    BY <1>1 DEF IInv, TypeOK, Mutex, Selected, Takes
  <1>7. Wire'
    <2>1. CASE part[t] = "header"
      <3>1. frame' = <<<<t, "header">>>>
        BY <1>2, <2>1
      <3>2. pc'[t] = "send" /\ part'[t] = "data"
        BY <1>1, <2>1 DEF IInv, TypeOK
      <3> QED BY <1>1, <3>1, <3>2 DEF IInv, Wire, SoFar
    <2>2. CASE part[t] # "header"
      <3>1. frame' = <<<<t, "header">>, <<t, "data">>>>
        <4>1. part[t] = "data"
          BY <1>3, <2>2 DEF Parts
        <4>2. frame' = Append(<<<<t, "header">>>>, <<t, "data">>)
          BY <1>2, <4>1
        <4>3. <<t, "header">> \in Tasks \X Parts
          BY DEF Parts
        <4>4. <<t, "data">> \in Tasks \X Parts
          BY DEF Parts
        <4> QED BY <4>2, <4>3, <4>4, AppendToOne
      <3>2. pc'[t] = "deselect"
        BY <1>1, <2>2 DEF IInv, TypeOK
      <3> QED BY <1>1, <3>1, <3>2 DEF IInv, Wire, SoFar
    <2> QED BY <2>1, <2>2
  <1>8. Tidy'
    BY <1>1 DEF Transfer, IInv, TypeOK, Tidy, Callers
  <1> QED BY <1>5, <1>6, <1>7, <1>8 DEF IInv

(* A transfer that selects the chip for itself takes the mutex again. *)
LEMMA TransferAloneHolds ==
    ASSUME ~Timeouts, IInv, NEW t \in Tasks, TransferAlone(t)
    PROVE  IInv'
  <1> USE TaskAssumption DEF initVars
  <1>1. /\ lock = t /\ depth = 1 /\ ~csActive /\ pc[t] = "send"
        /\ UNCHANGED <<bus, csActive, frame, last>>
    BY DEF TransferAlone, IInv, Mutex, Takes
  <1>2. PICK got \in Answers(t) :
            /\ Take(t, got)
            /\ IF got THEN Goto(t, "autobus") /\ UNCHANGED part ELSE Advance(t)
    BY DEF TransferAlone
  <1>3. /\ lock' = t /\ depth' = 2
        /\ pc' = [pc EXCEPT ![t] = "autobus"] /\ part' = part
    <2>1. got = TRUE
      BY Answer
    <2> QED BY <1>1, <1>2, <2>1 DEF Take, Goto
  <1>4. TypeOK'
    BY <1>1, <1>3 DEF TransferAlone, IInv, TypeOK, Places
  <1>5. Mutex' /\ Selected'
    BY <1>1, <1>3 DEF IInv, TypeOK, Mutex, Selected, Takes
  <1>6. Wire'
    BY <1>1, <1>3, WireKept DEF IInv
  <1>7. Tidy'
    BY <1>1, <1>3 DEF TransferAlone, IInv, TypeOK, Tidy, Callers
  <1> QED BY <1>4, <1>5, <1>6, <1>7 DEF IInv

(* It leaves a period of one transfer, and gives its take back. *)
LEMMA TransferAloneBusHolds ==
    ASSUME ~Timeouts, IInv, NEW t \in Tasks, TransferAloneBus(t)
    PROVE  IInv'
  <1> USE TaskAssumption DEF initVars
  <1>1. /\ lock = t /\ depth = 2 /\ ~csActive /\ pc[t] = "autobus"
        /\ pc' = [pc EXCEPT ![t] = IF part[t] = "header" THEN "send"
                                   ELSE "deselect"]
        /\ part' = [part EXCEPT ![t] = "data"]
        /\ UNCHANGED <<bus, csActive, frame>>
    BY DEF TransferAloneBus, IInv, Mutex, Selected, Takes, Goto, Advance
  <1>2. lock' = t /\ depth' = 1
    BY <1>1, GiveOnce DEF TransferAloneBus
  <1>3. PICK ok \in BusAnswers :
            last' = IF ok THEN <<<<t, part[t]>>>> ELSE last
    BY DEF TransferAloneBus
  <1>4. <<t, part[t]>> \in Tasks \X Parts
    BY DEF IInv, TypeOK
  <1>5. last' \in Seq(Tasks \X Parts)
    <2>1. <<<<t, part[t]>>>> \in Seq(Tasks \X Parts)
      BY <1>4
    <2> QED BY <1>3, <2>1 DEF IInv, TypeOK
  <1>6. TypeOK'
    BY <1>1, <1>2, <1>5 DEF TransferAloneBus, IInv, TypeOK, Places, Parts
  <1>7. Mutex' /\ Selected'
    BY <1>1, <1>2 DEF IInv, TypeOK, Mutex, Selected, Takes
  <1>8. Wire'
    <2>1. BusFails
      BY <1>1 DEF IInv, Selected
    <2>2. Len(<<<<t, part[t]>>>>) = 1
      BY <1>4
    <2>3. Len(last') = 1 \/ last' = last
      BY <1>3, <2>2
    <2> QED BY <1>1, <2>1, <2>3 DEF IInv, Wire
  <1>9. Tidy'
    BY <1>1 DEF TransferAloneBus, IInv, TypeOK, Tidy, Callers
  <1> QED BY <1>6, <1>7, <1>8, <1>9 DEF IInv

(* wizchip_cs_deselect() ends a period that is a header and its data. *)
LEMMA DeselectHolds ==
    ASSUME ~Timeouts, IInv, NEW t \in Tasks, Deselect(t)
    PROVE  IInv'
  <1> USE TaskAssumption DEF initVars
  <1>1. /\ lock = t /\ pc[t] = "deselect"
        /\ pc' = [pc EXCEPT ![t] = "exit"]
        /\ part' = part
    BY DEF Deselect, IInv, Mutex, Goto
  <1>2. CASE csActive
    <2>1. /\ depth = 2 /\ lock' = t /\ depth' = 1
          /\ csActive' = FALSE /\ bus' = "free"
          /\ last' = frame /\ frame' = <<>>
      <3>1. depth = 2
        BY <1>1, <1>2 DEF IInv, Mutex, Takes
      <3> QED BY <1>1, <1>2, <3>1, GiveOnce DEF Deselect, ReleaseBus
    <2>2. frame = <<<<t, "header">>, <<t, "data">>>>
      BY <1>1, <1>2 DEF IInv, Wire, SoFar
    <2>3. frame' \in Seq(Tasks \X Parts) /\ last' \in Seq(Tasks \X Parts)
      BY <2>1 DEF IInv, TypeOK
    <2>4. TypeOK'
      BY <1>1, <2>1, <2>3 DEF Deselect, IInv, TypeOK, Places
    <2>5. Mutex' /\ Selected'
      BY <1>1, <2>1 DEF IInv, TypeOK, Mutex, Selected, Takes
    <2>6. Wire'
      BY <2>1, <2>2 DEF Wire
    <2>7. Tidy'
      BY <1>1 DEF Deselect, IInv, TypeOK, Tidy, Callers
    <2> QED BY <2>4, <2>5, <2>6, <2>7 DEF IInv
  <1>3. CASE ~csActive
    <2>1. UNCHANGED <<csActive, bus, last, frame, lock, depth>>
      BY <1>3 DEF Deselect
    <2>2. TypeOK'
      BY <1>1, <2>1 DEF Deselect, IInv, TypeOK, Places
    <2>3. Mutex' /\ Selected'
      BY <1>1, <1>3, <2>1 DEF IInv, TypeOK, Mutex, Selected, Takes
    <2>4. Wire'
      BY <1>3, <2>1, WireKept DEF IInv
    <2>5. Tidy'
      BY <1>1 DEF Deselect, IInv, TypeOK, Tidy, Callers
    <2> QED BY <2>2, <2>3, <2>4, <2>5 DEF IInv
  <1> QED BY <1>2, <1>3

(* wizchip_critical_exit() leaves nothing of the access behind. *)
LEMMA ExitHolds ==
    ASSUME ~Timeouts, IInv, NEW t \in Tasks, Exit(t)
    PROVE  IInv'
  <1> USE TaskAssumption DEF initVars
  <1>1. /\ lock = t /\ depth = 1 /\ ~csActive
        /\ pc[t] = "exit" /\ pc' = [pc EXCEPT ![t] = "idle"]
        /\ UNCHANGED <<bus, csActive, part, frame, last>>
    BY DEF Exit, IInv, Mutex, Selected, Takes, Goto
  <1>2. lock' = NoTask /\ depth' = 0
    BY <1>1, GiveOnce DEF Exit
  <1>3. TypeOK'
    BY <1>1, <1>2 DEF Exit, IInv, TypeOK, Places
  <1>4. Mutex' /\ Selected'
    BY <1>1, <1>2 DEF IInv, TypeOK, Mutex, Selected
  <1>5. Wire'
    BY <1>1, WireKept DEF IInv
  <1>6. Tidy'
    BY <1>1 DEF Exit, IInv, TypeOK, Tidy, Callers
  <1> QED BY <1>3, <1>4, <1>5, <1>6 DEF IInv

(* The other device takes the bus only when the driver has not. *)
LEMMA OtherHolds ==
    ASSUME IInv, OtherTakesBus \/ OtherGivesBus
    PROVE  IInv'
  <1> USE DEF OtherTakesBus, OtherGivesBus, initVars
  <1>1. TypeOK'
    BY DEF IInv, TypeOK
  <1>2. Mutex' /\ Selected' /\ Wire' /\ Tidy'
    BY DEF IInv, Mutex, Selected, Takes, Wire, SoFar, Tidy, Callers
  <1> QED BY <1>1, <1>2 DEF IInv

(* Bringing the driver up and down touches no access. *)
LEMMA UpDownHolds ==
    ASSUME IInv, SpiInit \/ SpiDeinit \/ \E step \in InitSteps : SpiInitFails(step)
    PROVE  IInv'
  <1>1. UNCHANGED accessVars /\ callersBus' = callersBus
    BY DEF SpiInit, SpiDeinit, SpiInitFails
  <1>2. TypeOK' /\ Tidy'
    <2>1. CASE SpiInit
      BY <1>1, <2>1 DEF SpiInit, IInv, TypeOK, Tidy, Callers, accessVars
    <2>2. CASE SpiDeinit
      <3>1. /\ have = Resources /\ busOwned = ~callersBus
            /\ up' = FALSE /\ busOwned' = FALSE
            /\ \A t \in Tasks : pc[t] = "idle"
        BY <2>2 DEF SpiDeinit, IInv, Tidy
      <3>2. have' = Callers
        <4>1. CASE callersBus
          BY <2>2, <3>1, <4>1 DEF SpiDeinit, Callers, Resources
        <4>2. CASE ~callersBus
          BY <2>2, <3>1, <4>2 DEF SpiDeinit, Callers, Resources
        <4> QED BY <4>1, <4>2
      <3>3. Callers \subseteq Resources /\ Callers' = Callers
        BY <1>1 DEF Callers, Resources
      <3> QED BY <1>1, <3>1, <3>2, <3>3 DEF IInv, TypeOK, Tidy, accessVars
    <2>3. CASE \E step \in InitSteps : SpiInitFails(step)
      <3>1. PICK step \in InitSteps : SpiInitFails(step)
        BY <2>3
      <3>2. have = Callers /\ up' = up /\ busOwned' = busOwned /\ ~up
        BY <3>1 DEF SpiInitFails, IInv, Tidy
      <3>3. have' = Callers
        BY <3>1, <3>2 DEF SpiInitFails, Unwound, Callers
      <3> QED BY <1>1, <3>2, <3>3 DEF IInv, TypeOK, Tidy, Callers, Resources,
                 accessVars
    <2> QED BY <2>1, <2>2, <2>3
  <1>3. Mutex' /\ Selected' /\ Wire'
    BY <1>1 DEF IInv, Mutex, Selected, Takes, Wire, SoFar, accessVars
  <1> QED BY <1>2, <1>3 DEF IInv

-----------------------------------------------------------------------------
(* Every step keeps the invariant, so every run satisfies it. *)
LEMMA Inductive ==
    ASSUME ~Timeouts
    PROVE  Spec => []IInv
  <1>1. IInv /\ [Next]_vars => IInv'
    <2> SUFFICES ASSUME IInv, [Next]_vars PROVE IInv'
      OBVIOUS
    <2>1. ASSUME NEW t \in Tasks, Enter(t) \/ Step(t) PROVE IInv'
      BY <2>1, EnterHolds, SelectHolds, SelectBusHolds, TransferHolds,
         TransferAloneHolds, TransferAloneBusHolds, DeselectHolds, ExitHolds
         DEF Step
    <2>2. CASE UNCHANGED vars
      <3>1. UNCHANGED <<up, callersBus, busOwned, have, lock, depth, bus,
                        csActive, pc, part, frame, last>>
        BY <2>2 DEF vars, initVars, accessVars
      <3> QED BY <3>1 DEF IInv, TypeOK, Mutex, Selected, Takes, Wire, SoFar,
                 Tidy, Callers
    <2> QED BY <2>1, <2>2, OtherHolds, UpDownHolds DEF Next
  <1> QED BY InitHolds, <1>1, PTL DEF Spec

(* With no timeout, a transfer under cs_active is made by the task that     *)
(* holds the mutex, and no select period mixes two accesses.                *)
THEOREM AccessesAreExclusive ==
    ASSUME ~Timeouts
    PROVE  Spec => []FrameOwned /\ []OneAccessPerFrame
  <1>1. IInv => FrameOwned
    BY DEF IInv, Mutex, FrameOwned
  <1>2. IInv => OneAccessPerFrame
    <2> SUFFICES ASSUME IInv PROVE OneAccessPerFrame
      OBVIOUS
    <2>1. \A i, j \in DOMAIN frame : frame[i][1] = frame[j][1]
      BY DEF IInv, Wire, SoFar
    <2> QED BY <2>1 DEF IInv, Wire, OneAccessPerFrame
  <1> QED BY Inductive, <1>1, <1>2, PTL

(* With no timeout, a driver at rest holds neither the mutex, the bus nor   *)
(* the chip, whatever the bus refused, and one that is down, or whose       *)
(* bring-up failed at any step, has released just what it made.             *)
THEOREM NothingIsLeft ==
    ASSUME ~Timeouts
    PROVE  Spec => []LeavesNothing
  <1>1. IInv => LeavesNothing
    BY TaskAssumption DEF IInv, TypeOK, Mutex, Selected, Tidy, Callers,
       LeavesNothing
  <1> QED BY Inductive, <1>1, PTL

=============================================================================
