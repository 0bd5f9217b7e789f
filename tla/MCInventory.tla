----------------------------- MODULE MCInventory -----------------------------
(***************************************************************************)
(* Instances of Inventory for TLC.                                         *)
(***************************************************************************)
EXTENDS Inventory, TLC

CONSTANTS s1, s2, e1, e2, w1, w2

Symmetric == Permutations(Sweep) \cup Permutations(Region)
=============================================================================
