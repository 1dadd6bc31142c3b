------------------------------- MODULE Upgrade -------------------------------
(***************************************************************************)
(* What clawos-deploy promises of the managed files and the version that   *)
(* is installed, for whoever believes the receipts: a register.  A job     *)
(* replaces its contents at once or not at all, and an undo puts back at   *)
(* once what the job found; one job is under way at a time, whatever       *)
(* becomes of the processes that work for it.                              *)
(***************************************************************************)

CONSTANTS
    Jobs, Files, Versions, NoVersion,
    Payload,    \* version -> file -> contents
    Absent,
    Shipped     \* what the files hold at first

VARIABLES
    tree,       \* what the managed files hold
    version,    \* the version that is installed
    phase,      \* how far each job is
    target,     \* the version it installs
    list,       \* the files it changes
    held,       \* jobs that can be undone
    found,      \* the files that each of them found
    prior       \* and the version, NoVersion while it is not known

vars == <<tree, version, phase, target, list, held, found, prior>>

Busy == {"open", "undoing"}
Alone(j) == \A k \in Jobs \ {j} : phase[k] \notin Busy
Becomes(j, p) == phase' = [phase EXCEPT ![j] = p]

Manifest(v) == {f \in Files : v # NoVersion /\ Payload[v][f] # Absent}

\* What installing v changes, and what the register holds when it is installed:
\* the payload, without the files that the version before had and v has not.
Differing(v) ==
    {f \in Manifest(v) : tree[f] # Payload[v][f]} \cup (Manifest(version) \ Manifest(v))
Upgraded(v) ==
    [f \in Files |-> IF f \in Manifest(v) \cup Manifest(version) THEN Payload[v][f]
                                                                 ELSE tree[f]]

Init ==
    /\ tree = Shipped /\ version = NoVersion
    /\ phase = [j \in Jobs |-> "none"] /\ target = [j \in Jobs |-> NoVersion]
    /\ list = [j \in Jobs |-> {}] /\ held = {}
    /\ found = [j \in Jobs |-> Shipped] /\ prior = [j \in Jobs |-> NoVersion]

Open(j, v) ==
    /\ phase[j] = "none" /\ Alone(j) /\ Becomes(j, "open")
    /\ target' = [target EXCEPT ![j] = v]
    /\ list' = [list EXCEPT ![j] = Differing(v)]
    /\ UNCHANGED <<tree, version, held, found, prior>>

Save(j) ==
    /\ phase[j] = "open" /\ held' = held \cup {j}
    /\ found' = [found EXCEPT ![j] = tree]
    /\ UNCHANGED <<tree, version, phase, target, list, prior>>

Keep(j) ==
    /\ phase[j] = "open" /\ prior' = [prior EXCEPT ![j] = version]
    /\ UNCHANGED <<tree, version, phase, target, list, held, found>>

Commit(j) ==
    /\ phase[j] = "open" /\ Becomes(j, "complete")
    /\ tree' = Upgraded(target[j]) /\ version' = target[j]
    /\ UNCHANGED <<target, list, held, found, prior>>

Abort(j) ==
    /\ phase[j] = "open" /\ Becomes(j, "undone")
    /\ UNCHANGED <<tree, version, target, list, held, found, prior>>

\* A job is undone when it fails, or on demand, also later: while the version
\* installed is its own, or the one it was about to replace.
Undo(j) ==
    /\ phase[j] \in {"open", "complete", "undone"} /\ Alone(j) /\ j \in held
    /\ \/ version \in {NoVersion, target[j]}
       \/ phase[j] = "open" /\ version = prior[j]
    /\ Becomes(j, "undoing")
    /\ tree' = [f \in Files |-> IF f \in list[j] THEN found[j][f] ELSE tree[f]]
    /\ version' = prior[j]
    /\ UNCHANGED <<target, list, held, found, prior>>

Settle(j) ==
    /\ phase[j] = "undoing" /\ Becomes(j, "undone")
    /\ UNCHANGED <<tree, version, target, list, held, found, prior>>

Next ==
    \E j \in Jobs :
        \/ \E v \in Versions : Open(j, v)
        \/ Save(j) \/ Keep(j) \/ Commit(j) \/ Abort(j) \/ Undo(j) \/ Settle(j)

Spec == Init /\ [][Next]_vars
=============================================================================
