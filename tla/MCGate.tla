------------------------------- MODULE MCGate -------------------------------
(* Two requests at once, one internal signature, a token, a log that is pruned row by row. *)
EXTENDS Gate

CONSTANTS r1, r2

Slots == {r1, r2}
Symmetry == Permutations(Slots)
=============================================================================
