---------------------------- MODULE MCToeSockets ----------------------------
(* Instances of ToeSockets for TLC. *)
EXTENDS ToeSockets, TLC

CONSTANTS t1, t2, c1, c2
MCTasks   == {t1, t2}
MCClients == {c1, c2}
MCSymmetry == Permutations(MCTasks) \cup Permutations(MCClients)

=============================================================================
