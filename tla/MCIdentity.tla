----------------------------- MODULE MCIdentity ------------------------------
(***************************************************************************)
(* Instances of Identity for TLC.  "A" is "a" in capitals.                 *)
(***************************************************************************)
EXTENDS Identity

CONSTANTS r1, r2, c1, c2

MCAddress == {"a", "A", "b", "c"}
MCLower == [e \in MCAddress |-> IF e = "A" THEN "a" ELSE e]
=============================================================================
