------------------------------ MODULE MCAccess -------------------------------
(***************************************************************************)
(* Instances of Access for TLC.                                            *)
(***************************************************************************)
EXTENDS Access, TLC

CONSTANTS u1, r1, p1, q1, q2

\* Slots for requests are alike.
Slots == Permutations(Request)

\* Nicknames are only those that the run gives.
MCInit == Init /\ named = {}
=============================================================================
