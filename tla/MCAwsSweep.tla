----------------------------- MODULE MCAwsSweep ------------------------------
(***************************************************************************)
(* Instances of AwsSweep for TLC.                                          *)
(***************************************************************************)
EXTENDS AwsSweep

CONSTANTS sts, us, eu

MCClient == {sts, us, eu}
MCAttempts == [c \in MCClient |-> IF c = sts THEN 2 ELSE 1]

\* Three resources are there at first; the others of the instance may come.
MCContents == {[r \in {us, eu} |-> IF r = us THEN {1, 2} ELSE {2}]}
=============================================================================
