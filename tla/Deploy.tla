------------------------------- MODULE Deploy -------------------------------
(***************************************************************************)
(* The runtime deployer clawos-deploy: a dispatcher (the root command      *)
(* line) that checks, freezes a job and launches a systemd unit, and the   *)
(* worker of that unit, which checkpoints, installs file by file, checks,  *)
(* and undoes what it did when anything raises.  Both hold one flock: the  *)
(* dispatcher without waiting, the worker after waiting for it, so at most *)
(* one of them acts and `pc' is the next step of the one that does.        *)
(***************************************************************************)
EXTENDS FiniteSets, Disturb

CONSTANTS
    Jobs,       \* job identifiers; uuid4 never repeats one
    NoJob,
    Files,      \* managed paths
    Contents,   \* what a file may hold: its digest and mode
    Absent,     \* the file does not exist
    Versions,   \* payloads, named by the hash of their file set
    NoVersion,  \* no installed.json, or null in it
    Payload,    \* version -> file -> contents, Absent where not shipped
    Shipped    \* the files of the installed image

Cell == Contents \cup {Absent}
Tree == [Files -> Cell]
Disturbances == {"step", "receipt", "late", "crash", "power", "drift"}

ASSUME DeployAssumption ==
    /\ NoJob \notin Jobs /\ Absent \notin Contents /\ NoVersion \notin Versions
    /\ Payload \in [Versions -> Tree]
    /\ Shipped \in Tree
    /\ Faults \subseteq Disturbances /\ MaxFaults \in Nat

VARIABLES
    \* durable: the managed files and /var/lib/clawos/deploy
    files,      \* contents of each managed path
    installed,  \* version in installed.json
    st,         \* receipt.json: state of each job, "none" before it exists
    ver,        \* receipt.json: the version the job installs
    names,      \* receipt.json: changedFiles, fixed when it is dispatched
    backed,     \* jobs with a before.json
    before,     \* the backup of each job
    previous,   \* previous-manifest.json, NoVersion also when missing
    \* the processes
    waiting,    \* units systemd has accepted that wait for the lock
    pc,         \* next step of the lock's holder, "free" without one
    op, job,    \* whether the holder applies or rolls back, and which job
    mem,        \* the receipt's state in the holder's memory
    todo,       \* files the holder's loop has still to write
    \* history, for the properties
    last,       \* the last job to begin applying, if no other was undone since
    base,       \* the files when it began
    cut,        \* jobs whose last worker was killed or lost its last receipt
    spoiled     \* a managed file was edited, or a launch answered late

store == <<installed, st, ver, names, backed, before, previous>>
proc  == <<waiting, pc, op, job, mem, todo>>
past  == <<last, base, cut, spoiled>>
vars  == <<files, store, proc, faults, past>>

Pending == {"queued", "checkpointing", "applying", "verifying", "rolling-back",
            "recovery-required"}
JobStates == Pending \cup {"none", "complete", "rolled-back", "failed"}
Ops == {"apply", "rollback"}

\* The steps inside the worker's try blocks.
Trying == {"begin", "backup", "previous", "applying", "install", "verifying",
           "parity", "record", "check", "undoing", "restore", "revive", "return"}

Manifest(v) == {f \in Files : v # NoVersion /\ Payload[v][f] # Absent}

\* changed_files: the files of the manifest that differ from it on disk.
Changed(v) == {f \in Manifest(v) : files[f] # Payload[v][f]}

Removed(v) == Manifest(installed) \ Manifest(v)

Goto(l) == pc' = l /\ UNCHANGED <<waiting, op, job>>
Release == pc' = "free" /\ op' = "apply" /\ job' = NoJob /\ mem' = "none" /\ todo' = {}
Put(j, s) == st' = [st EXCEPT ![j] = s]

\* Writing the receipt leaves the rest of the store alone.
receiptOnly == <<installed, ver, names, backed, before, previous>>

-----------------------------------------------------------------------------
(* The dispatcher: apply and rollback of the command line, LOCK_NB.         *)

\* Mutant of Blocked: a job whose rollback has not started yet is overlooked.
BlockedUnlessRollingBack(j) ==
    \E k \in Jobs \ {j} : st[k] \in Pending \ {"rolling-back"}

\* Mutant of Blocked: only jobs whose worker has begun are pending.
BlockedOnceStarted(j) == \E k \in Jobs \ {j} : st[k] \in Pending \ {"queued"}

\* Another job is pending.
Blocked(j) == \E k \in Jobs \ {j} : st[k] \in Pending

Apply(j, v) ==
    /\ pc = "free" /\ st[j] = "none" /\ ~Blocked(j)
    /\ \A f \in Removed(v) : files[f] \in {Absent, Payload[installed][f]}
    /\ Changed(v) \cup Removed(v) # {} \/ installed # v
    /\ Put(j, "queued")
    /\ ver' = [ver EXCEPT ![j] = v]
    /\ names' = [names EXCEPT ![j] = Changed(v) \cup Removed(v)]
    /\ pc' = "launch" /\ op' = "apply" /\ job' = j /\ mem' = "queued"
    /\ UNCHANGED <<files, installed, backed, before, previous, waiting, todo, faults,
                   past>>

\* Mutant of Acceptable: only the job's own version may be rolled back.
AcceptableOwnOnly(j) == {ver[j]}

Acceptable(j) == {ver[j]} \cup IF st[j] \in Pending THEN {previous[j]} ELSE {}

MayRollback(j) ==
    /\ st[j] # "none" /\ ~Blocked(j)
    /\ installed = NoVersion \/ installed \in Acceptable(j)
    /\ j \in backed

Rollback(j) ==
    /\ pc = "free" /\ MayRollback(j)
    /\ Put(j, "rolling-back")
    /\ pc' = "launch" /\ op' = "rollback" /\ job' = j /\ mem' = "rolling-back"
    /\ UNCHANGED <<files, receiptOnly, waiting, todo, faults, past>>

\* systemd-run: the unit is accepted, or refused (also when a unit of that
\* name is still loaded), or accepted after the dispatcher's 30 s are over.
Launch ==
    LET unit == <<op, job>>
        givenUp == IF op = "rollback" THEN "recovery-required" ELSE "failed"
    IN
    /\ pc = "launch"
    /\ \/ /\ unit \notin waiting /\ waiting' = waiting \cup {unit}
          /\ NoStrike /\ UNCHANGED <<st, spoiled>>
       \/ /\ IF unit \in waiting THEN NoStrike ELSE Strike("step")
          /\ Put(job, givenUp) /\ UNCHANGED <<waiting, spoiled>>
       \/ /\ unit \notin waiting /\ Strike("late") /\ spoiled' = TRUE
          /\ waiting' = waiting \cup {unit} /\ Put(job, givenUp)
    /\ Release
    /\ UNCHANGED <<files, receiptOnly, last, base, cut>>

-----------------------------------------------------------------------------
(* The worker.                                                              *)

Acquire(o, j) ==
    /\ pc = "free" /\ <<o, j>> \in waiting
    /\ waiting' = waiting \ {<<o, j>>}
    /\ pc' = (IF o = "apply" THEN "begin" ELSE "check")
    /\ op' = o /\ job' = j /\ mem' = st[j] /\ todo' = {}
    /\ IF o = "apply" THEN last' = j /\ base' = files
                      ELSE last' = (IF last = j THEN j ELSE NoJob) /\ UNCHANGED base
    /\ cut' = cut \ {j}
    /\ UNCHANGED <<files, store, faults, spoiled>>

\* verify_payload, then the first receipt.
Begin ==
    /\ pc = "begin" /\ Goto("backup")
    /\ mem' = "checkpointing" /\ Put(job, "checkpointing")
    /\ UNCHANGED <<files, receiptOnly, todo, faults, past>>

\* Mutant of Backup: files that do not exist yet are not recorded.
BackupOfPresent ==
    /\ pc = "backup" /\ Goto("previous")
    /\ backed' = backed \cup {job}
    /\ before' = [before EXCEPT ![job] =
                    [f \in Files |-> IF files[f] = Absent THEN Payload[ver[job]][f]
                                                          ELSE files[f]]]
    /\ UNCHANGED <<files, installed, st, ver, names, previous, mem, todo, faults, past>>

\* The Btrfs snapshot, the copies and before.json.
Backup ==
    /\ pc = "backup" /\ Goto("previous")
    /\ backed' = backed \cup {job}
    /\ before' = [before EXCEPT ![job] = files]
    /\ UNCHANGED <<files, installed, st, ver, names, previous, mem, todo, faults, past>>

KeepPrevious ==
    /\ pc = "previous" /\ Goto("applying")
    /\ previous' = [previous EXCEPT ![job] = installed]
    /\ mem' = "applying"
    /\ UNCHANGED <<files, installed, st, ver, names, backed, before, todo, faults, past>>

MarkApplying ==
    /\ pc = "applying" /\ Goto("install")
    /\ Put(job, "applying") /\ todo' = names[job]
    /\ UNCHANGED <<files, receiptOnly, mem, faults, past>>

InstallFile(f) ==
    /\ pc = "install" /\ f \in todo
    /\ files' = [files EXCEPT ![f] = Payload[ver[job]][f]]
    /\ todo' = todo \ {f}
    /\ UNCHANGED <<store, waiting, pc, op, job, mem, faults, past>>

\* The loop is over: reload the services and say so.
MarkVerifying ==
    /\ pc = "install" /\ todo = {} /\ Goto("parity")
    /\ mem' = "verifying" /\ Put(job, "verifying")
    /\ UNCHANGED <<files, receiptOnly, todo, faults, past>>

\* An exception while applying undoes the work; elsewhere it ends the job.
Caught ==
    IF op = "apply" /\ mem \in {"applying", "verifying"}
    THEN Goto("undoing") /\ mem' = "rolling-back"
    ELSE /\ Goto("end")
         /\ mem' = IF mem = "rolling-back" \/ op = "rollback"
                   THEN "recovery-required" ELSE "failed"

\* Mutant of Parity: the installed files are not compared with the payload.
ParityAssumed ==
    /\ pc = "parity" /\ Goto("record") /\ UNCHANGED mem
    /\ UNCHANGED <<files, store, todo, faults, past>>

Parity ==
    /\ pc = "parity"
    /\ IF Changed(ver[job]) = {} THEN Goto("record") /\ UNCHANGED mem ELSE Caught
    /\ UNCHANGED <<files, store, todo, faults, past>>

\* The health checks pass; the manifest becomes the installed one.
Record ==
    /\ pc = "record" /\ Goto("end")
    /\ installed' = ver[job] /\ mem' = "complete"
    /\ UNCHANGED <<files, st, ver, names, backed, before, previous, todo, faults, past>>

MarkUndoing ==
    /\ pc = "undoing" /\ Goto("restore")
    /\ Put(job, "rolling-back") /\ todo' = names[job]
    /\ UNCHANGED <<files, receiptOnly, mem, faults, past>>

\* An explicit rollback needs the backup its dispatcher saw.
CheckBackup ==
    /\ pc = "check"
    /\ IF job \in backed
       THEN /\ Goto("restore") /\ mem' = "rolling-back" /\ Put(job, "rolling-back")
            /\ todo' = names[job]
       ELSE Caught /\ UNCHANGED <<st, todo>>
    /\ UNCHANGED <<files, receiptOnly, faults, past>>

RestoreFile(f) ==
    /\ pc = "restore" /\ f \in todo
    /\ files' = [files EXCEPT ![f] = before[job][f]]
    /\ todo' = todo \ {f}
    /\ UNCHANGED <<store, waiting, pc, op, job, mem, faults, past>>

\* Reload and health after the last file.
Revive ==
    /\ pc = "restore" /\ todo = {}
    /\ IF op = "rollback" THEN Goto("return") /\ UNCHANGED mem
                          ELSE Goto("end") /\ mem' = "rolled-back"
    /\ UNCHANGED <<files, store, todo, faults, past>>

\* Mutant of ReturnManifest: the manifest of the version undone stays.
ReturnManifestNot ==
    /\ pc = "return" /\ Goto("end") /\ mem' = "rolled-back"
    /\ UNCHANGED <<files, store, todo, faults, past>>

ReturnManifest ==
    /\ pc = "return" /\ Goto("end")
    /\ installed' = previous[job] /\ mem' = "rolled-back"
    /\ UNCHANGED <<files, st, ver, names, backed, before, previous, todo, faults, past>>

\* Mutant of End: only a success is written.
EndOnSuccess ==
    /\ pc = "end"
    /\ IF mem \in {"complete", "rolled-back"} THEN Put(job, mem) ELSE UNCHANGED st
    /\ Release /\ NoStrike
    /\ UNCHANGED <<files, receiptOnly, waiting, past>>

\* The last receipt, outside every try block; then the lock is released.
End ==
    /\ pc = "end"
    /\ \/ Put(job, mem) /\ NoStrike /\ UNCHANGED cut
       \/ UNCHANGED st /\ Strike("receipt") /\ cut' = cut \cup {job}
    /\ Release
    /\ UNCHANGED <<files, receiptOnly, waiting, last, base, spoiled>>

\* Any step of a try block raises: a command, a check or a write fails.
Raise ==
    /\ pc \in Trying /\ Strike("step") /\ Caught
    /\ UNCHANGED <<files, store, todo, past>>

-----------------------------------------------------------------------------
(* The machine around them.                                                 *)

\* The lock's holder is killed; systemd may already have its new unit.
Crash ==
    /\ pc # "free" /\ Strike("crash") /\ Release
    /\ waiting' \in {waiting} \cup
                    IF pc = "launch" THEN {waiting \cup {<<op, job>>}} ELSE {}
    /\ cut' = IF pc = "launch" THEN cut ELSE cut \cup {job}
    /\ UNCHANGED <<files, store, last, base, spoiled>>

PowerLoss ==
    /\ pc # "free" \/ waiting # {}
    /\ Strike("power") /\ Release /\ waiting' = {}
    /\ cut' = cut \cup {j \in Jobs : j = job \/ \E o \in Ops : <<o, j>> \in waiting}
    /\ UNCHANGED <<files, store, last, base, spoiled>>

\* Someone edits a managed file.
Drift ==
    /\ Strike("drift")
    /\ \E f \in Files, c \in Cell : files' = [files EXCEPT ![f] = c]
    /\ spoiled' = TRUE
    /\ UNCHANGED <<store, proc, last, base, cut>>

\* Nothing holds or waits for the lock, and nobody has to give a command.
Idle == pc = "free" /\ waiting = {} /\ UNCHANGED vars

-----------------------------------------------------------------------------

Init ==
    /\ files = Shipped /\ installed = NoVersion
    /\ st = [j \in Jobs |-> "none"] /\ ver = [j \in Jobs |-> NoVersion]
    /\ names = [j \in Jobs |-> {}] /\ backed = {}
    /\ before = [j \in Jobs |-> Shipped] /\ previous = [j \in Jobs |-> NoVersion]
    /\ waiting = {} /\ pc = "free" /\ op = "apply" /\ job = NoJob /\ mem = "none"
    /\ todo = {} /\ faults = 0 /\ last = NoJob /\ base = Shipped
    /\ cut = {} /\ spoiled = FALSE

Dispatch ==
    \/ \E j \in Jobs, v \in Versions : Apply(j, v)
    \/ \E j \in Jobs : Rollback(j)

Work ==
    \/ Launch
    \/ Begin \/ Backup \/ KeepPrevious \/ MarkApplying \/ MarkVerifying \/ Parity
    \/ Record \/ MarkUndoing \/ CheckBackup \/ Revive \/ ReturnManifest \/ End
    \/ Raise
    \/ \E f \in Files : InstallFile(f) \/ RestoreFile(f)

Next ==
    \/ Dispatch
    \/ \E o \in Ops, j \in Jobs : Acquire(o, j)
    \/ Work
    \/ Crash \/ PowerLoss \/ Drift
    \/ Idle

Spec == Init /\ [][Next]_vars

\* Every command of the lock's holder has a timeout, and a unit that waits
\* for the lock gets it if it is released again and again.
FairSpec ==
    Spec /\ WF_vars(Work)
         /\ \A o \in Ops, j \in Jobs : SF_vars(Acquire(o, j))

-----------------------------------------------------------------------------
(* Properties.                                                              *)

TypeOK ==
    /\ files \in Tree /\ installed \in Versions \cup {NoVersion}
    /\ st \in [Jobs -> JobStates]
    /\ ver \in [Jobs -> Versions \cup {NoVersion}]
    /\ names \in [Jobs -> SUBSET Files]
    /\ backed \subseteq Jobs /\ before \in [Jobs -> Tree]
    /\ previous \in [Jobs -> Versions \cup {NoVersion}]
    /\ waiting \subseteq Ops \X Jobs
    /\ pc \in Trying \cup {"free", "launch", "end"}
    /\ op \in Ops /\ job \in Jobs \cup {NoJob} /\ mem \in JobStates
    /\ todo \subseteq Files /\ faults \in Nat
    /\ last \in Jobs \cup {NoJob} /\ base \in Tree /\ cut \subseteq Jobs
    /\ spoiled \in BOOLEAN

\* From the first file on until it ends, a job is half done.
Touched == {"applying", "verifying", "rolling-back", "recovery-required"}

\* The jobs somebody works on or is about to.
Loaded == {j \in Jobs : j = job \/ \E o \in Ops : <<o, j>> \in waiting}

\* "Refuse another job even in the brief interval before its worker starts":
\* at most one job is pending, launched or running, through every failed step,
\* crash and power loss.
OneAtATime ==
    \A j, k \in Jobs : (j \in Loaded \/ st[j] \in Pending)
                       /\ (k \in Loaded \/ st[k] \in Pending) => j = k

\* A complete receipt is written only over the files of its manifest, although
\* changedFiles was computed before other jobs may have run.
CompleteMeansInstalled ==
    [][\A j \in Jobs : st[j] # "complete" /\ st'[j] = "complete"
           => installed = ver[j] /\ Changed(ver[j]) = {}]_vars

\* When a job ends failed or rolled-back and no worker of another job has begun
\* since it did, every file is what it was before it began: files it added are
\* gone, files it retired are back, also if a crash came in between.
UndoneMeansUntouched ==
    [][\A j \in Jobs : /\ st[j] # st'[j] /\ st'[j] \in {"failed", "rolled-back"}
                       /\ last = j
           => files = base]_vars

\* "It refuses to roll an older deployment over a newer installed version":
\* also the worker, which does not look again, restores over nothing newer.
RollbackNotOverNewer ==
    [][pc = "check" /\ pc' = "restore"
           => installed \in {NoVersion, ver[job], previous[job]}]_vars

\* "Only previously managed files may be retired": a file an apply deletes is
\* still in the installed manifest when it does, though the list of files was
\* made by the dispatcher and failures, crashes and edits came in between.
OnlyManagedRetired ==
    [][\A f \in Files : pc = "install" /\ job \in Jobs /\ f \in todo \ todo'
                        /\ Payload[ver[job]][f] = Absent
           => f \in Manifest(installed)]_vars

\* What a worker that dies before its second receipt leaves: without before.json,
\* or with it but without the manifest that was installed.
Unprepared(j) ==
    st[j] \in {"queued", "checkpointing"} /\ (j \notin backed \/ previous[j] # installed)

\* A job that is pending while nobody works on it, wherever its apply or its
\* rollback was cut off or failed, is accepted by an explicit rollback.  The
\* exception is named: an unprepared job is pending for good where a version is
\* installed or the backup is missing, and keeps every other job out.
InterruptedIsRecoverable ==
    \A j \in Jobs :
        pc = "free" /\ waiting = {} /\ st[j] \in Pending
            => MayRollback(j) \/ Unprepared(j)

\* An accepted unit gets its turn, lets go of the lock and settles the receipt
\* of its job, unless it is killed or cannot write its last receipt.
AcceptedSettles ==
    \A o \in Ops, j \in Jobs :
        <<o, j>> \in waiting
            ~> /\ <<o, j>> \notin waiting /\ job # j
               /\ \/ st[j] \in {"complete", "rolled-back", "failed", "recovery-required"}
                  \/ j \in cut

-----------------------------------------------------------------------------
(* Deploy implements Upgrade: who believes the receipts takes a job that is *)
(* half done for one that has not happened.  It takes effect when its last  *)
(* receipt is written, and its undo when the receipt says rolling-back.     *)

HalfDone == {j \in Jobs : st[j] \in Touched}
Undone(j) == [f \in Files |-> IF f \in names[j] THEN before[j][f] ELSE files[f]]
FilesTold == IF HalfDone = {} THEN files ELSE Undone(CHOOSE j \in HalfDone : TRUE)
VersionTold ==
    IF HalfDone = {} THEN installed ELSE previous[CHOOSE j \in HalfDone : TRUE]

Phase(s) ==
    CASE s \in {"queued", "checkpointing", "applying", "verifying"} -> "open"
      [] s \in {"rolling-back", "recovery-required"} -> "undoing"
      [] s \in {"rolled-back", "failed"} -> "undone"
      [] OTHER -> s

Register == INSTANCE Upgrade WITH
    tree <- FilesTold, version <- VersionTold,
    phase <- [j \in Jobs |-> Phase(st[j])], target <- ver,
    list <- names, held <- backed, found <- before, prior <- previous

\* However its steps fail or are cut off and whatever is rolled back when, each
\* step of the deployer, up to an edit of a managed file or a launch answered
\* late, is one of the register or changes nothing of it.
ImplementsUpgrade ==
    Register!Init /\ [][Register!Next \/ spoiled']_(Register!vars)

-----------------------------------------------------------------------------
(* What texts of the repository say and the code does not do.               *)

\* "An interrupted apply with a completed backup can be recovered with the
\* same explicit rollback command".
BackedUpIsRecoverable ==
    \A j \in Jobs :
        pc = "free" /\ waiting = {} /\ st[j] \in Pending /\ j \in backed
            => MayRollback(j)
=============================================================================
