----------------------------- MODULE MCSendFlow -----------------------------
(* SendFlow for TLC: the instance is given by the .cfg files. *)
EXTENDS SendFlow, TLC

CONSTANTS m1, w1, w2

MCIds == {m1}
MCWorkers == {w1, w2}
Symmetry == Permutations(MCWorkers)

=============================================================================
