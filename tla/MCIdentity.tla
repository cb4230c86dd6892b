----------------------------- MODULE MCIdentity -----------------------------
(***************************************************************************)
(* Instances of IdentityWorkflow for TLC.                                  *)
(***************************************************************************)
EXTENDS IdentityWorkflow, TLC

CONSTANTS r1, r2, name1, w1, w2

\* One request, and two requests that race for one name.
OneRequest  == {r1}
TwoRequests == {r1, r2}
OneName     == {name1}
SameName    == [r \in Requests |-> name1]

OneWorker  == {w1}
TwoWorkers == {w1, w2}

FirstHooked == {r1}
NoneHooked == {}
NoneBroken == {}

Interchangeable == Permutations({r1, r2}) \cup Permutations({w1, w2})

=============================================================================
