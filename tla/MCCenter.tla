------------------------------ MODULE MCCenter ------------------------------
(* Instances of Center for TLC.                                             *)
EXTENDS Center

CONSTANTS task, machine, approval

\* A background task, a system action and an approval.
WorkItems == {task, machine, approval}
WorkKinds == [i \in WorkItems |-> CASE i = task -> "tasks" [] i = machine -> "machine"
                                     [] OTHER -> "approvals"]
=============================================================================
