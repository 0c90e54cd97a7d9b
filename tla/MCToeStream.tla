----------------------------- MODULE MCToeStream -----------------------------
(* Instances of ToeStream for TLC: one buffer, and two that the chip's     *)
(* buffers hold in part.                                                   *)
EXTENDS ToeStream

MCVectors == {<<2>>, <<1, 2>>}

=============================================================================
