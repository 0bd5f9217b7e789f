------------------------------- MODULE MCTeams -------------------------------
(***************************************************************************)
(* Instances of Teams for TLC.                                             *)
(***************************************************************************)
EXTENDS Teams, TLC

CONSTANTS u1, u2, t1, t2, q1, q2

Alike == Permutations(Request) \cup Permutations(User)
=============================================================================
