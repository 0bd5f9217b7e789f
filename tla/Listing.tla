------------------------------- MODULE Listing -------------------------------
(***************************************************************************)
(* What a collector promises of each region: the whole of what is there,   *)
(* or a failure, in the end.  "Whole" is all that was there throughout and *)
(* nothing that never was.                                                 *)
(***************************************************************************)
CONSTANTS Region, Item

VARIABLES
  remote,   \* remote[r]: the resources of the region
  stable,   \* stable[r]: those there throughout
  ever,     \* ever[r]: those there at some time
  status,   \* status[r]: "reading", "whole" or "failed"
  answer    \* answer[r]

vars == <<remote, stable, ever, status, answer>>

Init ==
  /\ remote \in [Region -> SUBSET Item] /\ stable = remote /\ ever = remote
  /\ status = [r \in Region |-> "reading"]
  /\ answer = [r \in Region |-> {}]

Change(r, i) ==
  /\ remote' = [remote EXCEPT ![r] = (@ \cup {i}) \ (@ \cap {i})]
  /\ stable' = [stable EXCEPT ![r] = @ \ {i}]
  /\ ever' = [ever EXCEPT ![r] = @ \cup {i}]
  /\ UNCHANGED <<status, answer>>

AnswerWhole(r) ==
  /\ status[r] = "reading"
  /\ status' = [status EXCEPT ![r] = "whole"]
  /\ \E items \in SUBSET ever[r] : stable[r] \subseteq items /\ answer' = [answer EXCEPT ![r] = items]
  /\ UNCHANGED <<remote, stable, ever>>

Fail(failing) ==
  /\ failing # {} /\ \A r \in failing : status[r] = "reading"
  /\ status' = [r \in Region |-> IF r \in failing THEN "failed" ELSE status[r]]
  /\ UNCHANGED <<remote, stable, ever, answer>>

Settle(r) == AnswerWhole(r) \/ \E failing \in SUBSET Region : r \in failing /\ Fail(failing)

Next == (\E r \in Region : Settle(r)) \/ \E r \in Region, i \in Item : Change(r, i)

Safety == Init /\ [][Next]_vars

Spec == Safety /\ \A r \in Region : WF_vars(Settle(r))
=============================================================================
