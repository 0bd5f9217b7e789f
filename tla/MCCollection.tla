---------------------------- MODULE MCCollection -----------------------------
(***************************************************************************)
(* Instances of Collection for TLC.                                        *)
(***************************************************************************)
EXTENDS Collection

CONSTANTS p1, p2, p3, s1, s2
=============================================================================
