------------------------------ MODULE MCSpiBus ------------------------------
(* Instances of SpiBus for TLC. *)
EXTENDS SpiBus, TLC

CONSTANTS t1, t2, t3
MCTasks == {t1, t2, t3}

=============================================================================
