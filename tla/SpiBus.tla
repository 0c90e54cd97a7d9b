------------------------------- MODULE SpiBus -------------------------------
(***************************************************************************)
(* The SPI transport under ioLibrary                                       *)
(* (src/port/ioLibrary_Driver/src/wsm_driver_spi.c, W5500 framing): one    *)
(* recursive mutex with a timeout, the flag cs_active, the chip-select     *)
(* line and a host bus that another device may share.                      *)
(*                                                                         *)
(* ioLibrary makes every register access the same way: enter the critical  *)
(* section, select the chip, transfer a header, transfer the data,         *)
(* deselect, leave.  All the callbacks return void, so an access that      *)
(* failed to get the lock or the bus goes on regardless.                   *)
(***************************************************************************)
EXTENDS Integers, Sequences

CONSTANTS
    Tasks,      \* tasks that access the chip
    NoTask,     \* not a task
    Timeouts,   \* TRUE: a wait for the mutex may end at lock_timeout_ms
    BusFails    \* TRUE: spi_device_acquire_bus() may return an error

ASSUME TaskAssumption  == NoTask \notin Tasks
ASSUME FaultAssumption == Timeouts \in BOOLEAN /\ BusFails \in BOOLEAN

VARIABLES
    up,         \* s_ctx.initialized
    callersBus, \* s_ctx.cfg.bus_initialized_by_caller
    busOwned,   \* s_ctx.bus_owned
    have,       \* the resources that exist: the mutex, the host bus, the device
    lock,       \* the task that holds the recursive mutex
    depth,      \* how many times it has taken it
    bus,        \* who has acquired the host bus: "chip" is this driver
    csActive,   \* s_ctx.cs_active; the chip-select line is low with it
    pc,         \* where each task is in its access
    part,       \* the transfer each task is at
    frame,      \* the transfers since chip select fell
    last        \* history: the transfers of the last whole select period

initVars   == <<up, callersBus, busOwned, have>>
accessVars == <<lock, depth, bus, csActive, pc, part, frame, last>>
vars == <<initVars, accessVars>>

Resources == {"mutex", "bus", "device"}
Parts     == {"header", "data"}
Places    == {"idle", "select", "bus", "send", "autobus", "deselect", "exit"}

(* The driver's context and the line hold values they can have; the mutex is
   never taken less than no times. *)
TypeOK ==
    /\ up \in BOOLEAN /\ callersBus \in BOOLEAN /\ busOwned \in BOOLEAN
    /\ have \subseteq Resources
    /\ lock \in Tasks \cup {NoTask}
    /\ depth \in Nat
    /\ bus \in {"free", "chip", "other"}
    /\ csActive \in BOOLEAN
    /\ pc \in [Tasks -> Places]
    /\ part \in [Tasks -> Parts]
    /\ frame \in Seq(Tasks \X Parts)
    /\ last \in Seq(Tasks \X Parts)

Init ==
    /\ up = FALSE /\ callersBus \in BOOLEAN /\ busOwned = FALSE
    /\ have = IF callersBus THEN {"bus"} ELSE {}
    /\ lock = NoTask /\ depth = 0
    /\ bus = "free" /\ csActive = FALSE
    /\ pc = [t \in Tasks |-> "idle"]
    /\ part = [t \in Tasks |-> "header"]
    /\ frame = <<>> /\ last = <<>>

-----------------------------------------------------------------------------
(* wsm_driver_spi_init() and wsm_driver_spi_deinit() *)

(* The step that fails, and what exists when it does. *)
InitSteps == {"mutex", "bus", "device", "gpio"}
Acquired(step) ==
    CASE step = "mutex"  -> {}
      [] step = "bus"    -> {"mutex"}
      [] step = "device" -> {"mutex", "bus"}
      [] step = "gpio"   -> Resources

(* What the error labels release.  err_bus frees a bus of its own only.    *)
Unwound_AlwaysTheBus(step) == Acquired(step)                    \* mutant
Unwound(step) == Acquired(step) \ (IF callersBus THEN {"bus"} ELSE {})

SpiInit ==
    /\ ~up
    /\ up' = TRUE
    /\ have' = Resources
    /\ busOwned' = ~callersBus
    /\ UNCHANGED <<callersBus, accessVars>>

SpiInitFails(step) ==
    /\ ~up
    /\ step = "bus" => ~callersBus
    /\ have' = (have \cup Acquired(step)) \ Unwound(step)
    /\ UNCHANGED <<up, callersBus, busOwned, accessVars>>

(* The application does not shut the driver down under an access. *)
SpiDeinit ==
    /\ up
    /\ \A t \in Tasks : pc[t] = "idle"
    /\ up' = FALSE
    /\ have' = have \ ({"device", "mutex"} \cup (IF busOwned THEN {"bus"} ELSE {}))
    /\ busOwned' = FALSE
    /\ UNCHANGED <<callersBus, accessVars>>

-----------------------------------------------------------------------------
(* The mutex.  A task that may not have it waits, or times out. *)

Answers_NoWait(t) == {lock \in {NoTask, t}}                     \* mutant
Answers(t) ==
    IF lock \in {NoTask, t} THEN {TRUE} ELSE {got \in {FALSE} : Timeouts}

Take(t, got) ==
    IF got THEN lock' = t /\ depth' = depth + 1 ELSE UNCHANGED <<lock, depth>>

(* xSemaphoreGiveRecursive() by a task that does not hold it is refused.   *)
Give(t) ==
    IF lock = t
    THEN /\ depth' = depth - 1
         /\ lock' = IF depth = 1 THEN NoTask ELSE t
    ELSE UNCHANGED <<lock, depth>>

BusAnswers == IF BusFails THEN BOOLEAN ELSE {TRUE}

Goto(t, place) == pc' = [pc EXCEPT ![t] = place]

(* After a transfer: the data follow the header. *)
Advance(t) ==
    /\ part' = [part EXCEPT ![t] = "data"]
    /\ Goto(t, IF part[t] = "header" THEN "send" ELSE "deselect")

-----------------------------------------------------------------------------
(* An access *)

(* wizchip_critical_enter() *)
Enter(t) ==
    /\ up /\ pc[t] = "idle"
    /\ \E got \in Answers(t) : Take(t, got)
    /\ part' = [part EXCEPT ![t] = "header"]
    /\ Goto(t, "select")
    /\ UNCHANGED <<initVars, bus, csActive, frame, last>>

(* wizchip_cs_select() up to the bus; it returns when the mutex times out. *)
Select(t) ==
    /\ pc[t] = "select"
    /\ \E got \in Answers(t) :
        Take(t, got) /\ Goto(t, IF got THEN "bus" ELSE "send")
    /\ UNCHANGED <<initVars, bus, csActive, part, frame, last>>

SelectBus(t) ==
    /\ pc[t] = "bus" /\ bus = "free"
    /\ \E ok \in BusAnswers :
        IF ok
        THEN /\ bus' = "chip"
             /\ csActive' = TRUE
             /\ frame' = <<>>
             /\ UNCHANGED <<lock, depth>>
        ELSE Give(t) /\ UNCHANGED <<bus, csActive, frame>>
    /\ Goto(t, "send")
    /\ UNCHANGED <<initVars, part, last>>

(* spi_transfer_locked() with cs_active: it trusts the flag. *)
Transfer(t) ==
    /\ pc[t] = "send" /\ csActive
    /\ frame' = Append(frame, <<t, part[t]>>)
    /\ Advance(t)
    /\ UNCHANGED <<initVars, lock, depth, bus, csActive, last>>

(* spi_transfer_locked() without: the transfer selects the chip for itself, *)
(* or is dropped when the mutex times out.                                 *)
TransferAlone(t) ==
    /\ pc[t] = "send" /\ ~csActive
    /\ \E got \in Answers(t) :
        /\ Take(t, got)
        /\ IF got THEN Goto(t, "autobus") /\ UNCHANGED part ELSE Advance(t)
    /\ UNCHANGED <<initVars, bus, csActive, frame, last>>

TransferAloneBus(t) ==
    /\ pc[t] = "autobus" /\ bus = "free"
    /\ \E ok \in BusAnswers : last' = IF ok THEN <<<<t, part[t]>>>> ELSE last
    /\ Give(t)
    /\ Advance(t)
    /\ UNCHANGED <<initVars, bus, csActive, frame>>

ReleaseBus_Skipped == UNCHANGED bus                             \* mutant
ReleaseBus == bus' = "free"

(* wizchip_cs_deselect(): it trusts the flag too. *)
Deselect(t) ==
    /\ pc[t] = "deselect"
    /\ IF csActive
       THEN /\ csActive' = FALSE
            /\ ReleaseBus
            /\ last' = frame /\ frame' = <<>>
            /\ Give(t)
       ELSE UNCHANGED <<csActive, bus, last, frame, lock, depth>>
    /\ Goto(t, "exit")
    /\ UNCHANGED <<initVars, part>>

(* wizchip_critical_exit() *)
Exit(t) ==
    /\ pc[t] = "exit"
    /\ Give(t)
    /\ Goto(t, "idle")
    /\ UNCHANGED <<initVars, bus, csActive, part, frame, last>>

(* Another device on a shared bus *)
OtherTakesBus ==
    /\ callersBus /\ bus = "free"
    /\ bus' = "other"
    /\ UNCHANGED <<initVars, lock, depth, csActive, pc, part, frame, last>>
OtherGivesBus ==
    /\ bus = "other"
    /\ bus' = "free"
    /\ UNCHANGED <<initVars, lock, depth, csActive, pc, part, frame, last>>

-----------------------------------------------------------------------------
Step(t) ==
    \/ Select(t) \/ SelectBus(t)
    \/ Transfer(t) \/ TransferAlone(t) \/ TransferAloneBus(t)
    \/ Deselect(t) \/ Exit(t)

Next ==
    \/ SpiInit \/ SpiDeinit
    \/ \E step \in InitSteps : SpiInitFails(step)
    \/ \E t \in Tasks : Enter(t) \/ Step(t)
    \/ OtherTakesBus \/ OtherGivesBus

Spec == Init /\ [][Next]_vars

(* A task that the mutex and the bus let go on again and again does: both  *)
(* are handed to the task that waits longest.  The other device returns    *)
(* the bus.  Nobody has to begin an access.                                *)
FairSpec ==
    /\ Spec
    /\ \A t \in Tasks : SF_vars(Step(t))
    /\ WF_vars(OtherGivesBus)

-----------------------------------------------------------------------------
(* A transfer in the open select period, and the deselect that ends it,    *)
(* are made by the task that holds the mutex: what cs_active tells         *)
(* spi_transfer_locked() is about its own caller.                          *)
FrameOwned ==
    \A t \in Tasks : (csActive /\ pc[t] \in {"send", "deselect"}) => lock = t

(* The chip never sees two tasks in one select period, nor a period that   *)
(* is not a header and its data, unless the bus was refused and a transfer *)
(* had to select the chip for itself.                                      *)
OneAccessPerFrame ==
    /\ \A i, j \in DOMAIN frame : frame[i][1] = frame[j][1]
    /\ \/ last = <<>>
       \/ \E t \in Tasks : last = <<<<t, "header">>, <<t, "data">>>>
       \/ BusFails /\ Len(last) = 1

(* Whatever failed, an access leaves nothing behind: with no task in one,  *)
(* the mutex, the bus and the chip are free, and a driver that is down     *)
(* has released all it made and nothing of its caller's.                   *)
LeavesNothing ==
    (\A t \in Tasks : pc[t] = "idle") =>
        /\ lock = NoTask /\ depth = 0
        /\ ~csActive /\ bus # "chip"
        /\ ~up => have = IF callersBus THEN {"bus"} ELSE {}

(* Every access ends, also when the bus is shared or refused. *)
AccessesEnd == \A t \in Tasks : (pc[t] # "idle") ~> (pc[t] = "idle")

=============================================================================
