-------------------------- MODULE MCCredentialChain --------------------------
(***************************************************************************)
(* Instances of CredentialChain for TLC.                                   *)
(***************************************************************************)
EXTENDS CredentialChain, TLC

CONSTANTS p1, p2, p3, p4, r1, c1, a1

\* p1 is assumed by p2, which p3 assumes; p3 and p4 hold keys.
TwoBases ==
  {[p \in Principal |->
      CASE p = p1 -> [keys |-> "none", assumedBy |-> p2]
        [] p = p2 -> [keys |-> "none", assumedBy |-> p3]
        [] p = p3 -> [keys |-> "longterm", assumedBy |-> NoPrincipal]
        [] OTHER  -> [keys |-> "temporary", assumedBy |-> NoPrincipal]]}
=============================================================================
