------------------------------ MODULE MCDeploy ------------------------------
(* Instances of Deploy for TLC.                                             *)
EXTENDS Deploy, TLC

CONSTANTS j1, j2, j3, f1, f2, f3, x, y, v1, v2, v3

TwoJobs == {j1, j2}
ThreeJobs == {j1, j2, j3}
ThreeFiles == {f1, f2, f3}
TwoFiles == {f1, f3}
MCContents == {x, y}
TwoVersions == {v1, v2}
ThreeVersions == {v1, v2, v3}
Symmetry == Permutations(Jobs)

Ships(a, b, c) == [f \in Files |-> CASE f = f1 -> a [] f = f2 -> b [] OTHER -> c]

\* Each version changes, adds and removes a file of the other, and they share
\* one that the image lacks: v1 adds f2 and f3 to the image; v2 changes f1,
\* retires f3 and leaves f2 as v1 has it.
MCPayload ==
    [v \in Versions |-> CASE v = v1 -> Ships(x, y, x)
                          [] v = v2 -> Ships(y, y, Absent)
                          [] OTHER -> Ships(x, x, x)]
MCShipped == Ships(x, Absent, Absent)
=============================================================================
