---------------------------- MODULE DeployProofs ----------------------------
(***************************************************************************)
(* What TLAPS proves of Deploy for every set of jobs, files and versions,  *)
(* every payload, every set of disturbances and every bound on them; at    *)
(* the end, that it implements Upgrade, the register it promises to be.    *)
(***************************************************************************)
EXTENDS Deploy, TLAPS

\* The lock's holder works for a job that was dispatched, and so do the units
\* that wait; a dispatched job has a version.
HolderOK ==
    /\ pc = "free" => job = NoJob
    /\ pc # "free" => job \in Jobs /\ st[job] # "none" /\ mem # "none"
    /\ \A o \in Ops, j \in Jobs : <<o, j>> \in waiting => st[j] # "none"
    /\ \A j \in Jobs : st[j] # "none" => ver[j] \in Versions

TypeInv == TypeOK /\ HolderOK

\* A launch was not answered late, so that the receipt says "pending" of every
\* job that somebody works on: the lock and the check for pending receipts
\* together leave one job at most.  A unit that applies waits before the backup
\* of its job, one that rolls back waits after it, so that no two wait for one
\* job; while a worker runs none waits.
LockInv ==
    /\ \A j, k \in Jobs : st[j] \in Pending /\ st[k] \in Pending => j = k
    /\ \A o \in Ops, j \in Jobs :
          <<o, j>> \in waiting =>
              st[j] \in Pending /\ (IF o = "apply" THEN j \notin backed ELSE j \in backed)
    /\ pc # "free" => st[job] \in Pending
    /\ pc \notin {"free", "launch"} => waiting = {}
    /\ pc = "launch" /\ op = "apply" => waiting = {} /\ job \notin backed
    /\ pc = "launch" /\ op = "rollback" => job \in backed
    /\ pc = "check" => op = "rollback"
    /\ \A j \in Jobs : st[j] = "none" => j \notin backed

\* What the dispatcher of a rollback will find: the backup, and no version but
\* the job's own or the one it replaced.
Sound(j) == j \in backed /\ installed \in {NoVersion, ver[j], previous[j]}

RecoverInv ==
    /\ \A j \in Jobs : st[j] \in Touched => Sound(j)
    /\ \A j \in Jobs : <<"rollback", j>> \in waiting => Sound(j)
    /\ pc # "free" /\ op = "rollback" => Sound(job)
    /\ pc # "free" /\ mem \in Touched => Sound(job)
    /\ pc = "previous" => job \in backed
    /\ pc \in {"applying", "install", "verifying", "parity", "record", "undoing",
              "restore"} => Sound(job)

\* From its dispatch to its last file, what an apply deletes is managed.
Retires(j) == {f \in names[j] : Payload[ver[j]][f] = Absent}

RetireInv ==
    /\ \A j \in Jobs : <<"apply", j>> \in waiting => Retires(j) \subseteq Manifest(installed)
    /\ pc \in {"launch", "begin", "backup", "previous", "applying", "install"}
         /\ op = "apply" => Retires(job) \subseteq Manifest(installed)
    /\ pc \in {"begin", "backup", "previous", "applying", "install"} => op = "apply"
    /\ pc = "install" => todo \subseteq names[job]

\* From the comparison with the payload to the last receipt.
DoneInv ==
    /\ pc = "record" => Changed(ver[job]) = {}
    /\ pc = "end" /\ mem = "complete" => installed = ver[job] /\ Changed(ver[job]) = {}

\* What the try blocks of a worker may still undo.  Only an apply moves `last',
\* and a job is applied once; the worker of an apply is the one of `last', that
\* of a rollback may be.
UndoneWhere ==
    /\ \A j \in Jobs :
          \/ st[j] = "none"
          \/ <<"apply", j>> \in waiting
          \/ pc = "launch" /\ op = "apply" /\ job = j
          => j # last /\ j \notin backed /\ st[j] \in {"none", "queued", "failed"}
    /\ \A j \in Jobs : <<"rollback", j>> \in waiting => j \in backed
    /\ pc # "free" /\ op = "rollback" => job \in backed
    /\ pc \notin {"free", "launch"} => last = job \/ (op = "rollback" /\ last = NoJob)
    /\ pc \in {"begin", "backup", "previous", "applying", "install", "parity", "record",
              "undoing"} => op = "apply"
    /\ pc \in {"check", "return"} => op = "rollback"
    /\ pc \notin {"verifying", "revive"}
    /\ pc \in {"begin", "backup"} => job \notin backed
    /\ pc \in {"begin", "backup", "previous"}
         => mem \in {"queued", "failed", "checkpointing"}
    /\ pc \in {"previous", "applying", "install", "parity", "record", "undoing", "restore"}
         => job \in backed
    /\ pc \in {"applying", "install"} => mem = "applying"
    /\ pc \in {"parity", "record"} => mem = "verifying"
    /\ pc \in {"undoing", "restore", "return"} => mem = "rolling-back"
    /\ pc \in {"install", "restore"} => todo \subseteq names[job]

\* As long as nobody else works after it, only the files on a job's list differ
\* from those it found, its backup has these, and whatever is not begun or is
\* restored differs in none.
UndoneFiles ==
    last # NoJob =>
      /\ last \in backed => before[last] = base
      /\ last \notin backed => files = base
      /\ \A f \in Files \ names[last] : files[f] = base[f]
      /\ pc = "restore" /\ last = job => \A f \in Files \ todo : files[f] = base[f]
      /\ pc \in {"begin", "backup", "previous", "applying", "return"} /\ last = job
           => files = base
      /\ pc = "end" /\ mem \in {"failed", "rolled-back"} /\ last = job => files = base

UndoInv == UndoneWhere /\ UndoneFiles

-----------------------------------------------------------------------------

\* The initial state has the types and no holder.
LEMMA InitTypeInv == Init => TypeInv
<1>1. Init => HolderOK BY DEF Init, HolderOK
<1>2. Init => spoiled \in BOOLEAN BY DEF Init
<1>3. QED BY <1>1, <1>2, DeployAssumption DEF Init, TypeInv, TypeOK, Tree, Cell, JobStates, Ops

\* What a payload holds of a file is something a file can hold.
LEMMA PayloadCell == \A v \in Versions, f \in Files : Payload[v][f] \in Cell
BY DeployAssumption DEF Tree

\* The commands of the dispatcher keep the types.
LEMMA DispatchTypeInv == TypeInv /\ Dispatch => TypeInv'
<1> SUFFICES ASSUME TypeInv, Dispatch PROVE TypeInv'
    OBVIOUS
<1> USE DeployAssumption DEF TypeInv, TypeOK, HolderOK, Ops
<1>1. ASSUME NEW j \in Jobs, NEW v \in Versions, Apply(j, v) PROVE TypeInv'
  BY <1>1 DEF Apply, Put, past, Changed, Removed, Manifest, JobStates, Pending
<1>2. ASSUME NEW j \in Jobs, Rollback(j) PROVE TypeInv'
  BY <1>2 DEF Rollback, MayRollback, Put, past, receiptOnly, JobStates, Pending
<1>3. QED BY <1>1, <1>2 DEF Dispatch

\* A unit that gets the lock keeps the types.
LEMMA AcquireTypeInv ==
    ASSUME NEW o \in Ops, NEW j \in Jobs, TypeInv, Acquire(o, j)
    PROVE  TypeInv'
BY DeployAssumption DEF TypeInv, TypeOK, HolderOK, Acquire, store, past, Ops, Trying

\* What happens to a caught exception stays within the types.
LEMMA CaughtTypes ==
    Caught => /\ pc' \in {"undoing", "end"}
              /\ mem' \in {"rolling-back", "recovery-required", "failed"}
              /\ UNCHANGED <<waiting, op, job>>
BY DEF Caught, Goto

\* Every step of the lock's holder keeps the types.
LEMMA WorkTypeInv == TypeInv /\ Work => TypeInv'
<1> SUFFICES ASSUME TypeInv, Work PROVE TypeInv'
    OBVIOUS
<1> USE DeployAssumption DEF TypeInv, TypeOK, HolderOK, Goto, Put, Release, receiptOnly,
        past, store, Trying, JobStates, Pending
<1>1. CASE Launch
  <2>1. spoiled' \in BOOLEAN BY <1>1 DEF Launch
  <2>2. HolderOK' BY <1>1 DEF Launch
  <2>3. TypeOK' BY <1>1, <2>1 DEF Launch, Strike, NoStrike, Ops
  <2>4. QED BY <2>2, <2>3
<1>2. CASE Begin BY <1>2 DEF Begin
<1>3. CASE Backup BY <1>3 DEF Backup
<1>4. CASE KeepPrevious BY <1>4 DEF KeepPrevious
<1>5. CASE MarkApplying BY <1>5 DEF MarkApplying
<1>6. CASE MarkVerifying BY <1>6 DEF MarkVerifying
<1>7. CASE Parity BY <1>7, CaughtTypes DEF Parity
<1>8. CASE Record BY <1>8 DEF Record
<1>9. CASE MarkUndoing BY <1>9 DEF MarkUndoing
<1>10. CASE CheckBackup BY <1>10, CaughtTypes DEF CheckBackup
<1>11. CASE Revive BY <1>11 DEF Revive
<1>12. CASE ReturnManifest BY <1>12 DEF ReturnManifest
<1>13. CASE End BY <1>13 DEF End, Strike, NoStrike, Ops
<1>14. CASE Raise BY <1>14, CaughtTypes DEF Raise, Strike
<1>15. ASSUME NEW f \in Files, InstallFile(f) PROVE TypeInv'
  BY <1>15, PayloadCell DEF InstallFile, Tree
<1>16. ASSUME NEW f \in Files, RestoreFile(f) PROVE TypeInv'
  BY <1>16 DEF RestoreFile, Tree
<1>17. QED
  BY <1>1, <1>2, <1>3, <1>4, <1>5, <1>6, <1>7, <1>8, <1>9, <1>10, <1>11, <1>12,
     <1>13, <1>14, <1>15, <1>16 DEF Work

\* The machine around the processes keeps the types.
LEMMA MachineTypeInv ==
    TypeInv /\ (Crash \/ PowerLoss \/ Drift \/ UNCHANGED vars) => TypeInv'
<1> SUFFICES ASSUME TypeInv, Crash \/ PowerLoss \/ Drift \/ UNCHANGED vars
             PROVE  TypeInv'
    OBVIOUS
<1> USE DeployAssumption DEF TypeInv, TypeOK, HolderOK, Strike, Release, store, past,
        JobStates
<1>1. CASE Crash BY <1>1 DEF Crash, Ops
<1>2. CASE PowerLoss BY <1>2 DEF PowerLoss, Ops
<1>3. CASE Drift BY <1>3 DEF Drift, proc, Tree
<1>4. CASE UNCHANGED vars BY <1>4 DEF vars, proc
<1>5. QED BY <1>1, <1>2, <1>3, <1>4

\* No command, failure or crash takes a variable out of its type, and the lock
\* is never held for a job that was not dispatched.
LEMMA TypeInvariance == Spec => []TypeInv
<1>1. TypeInv /\ [Next]_vars => TypeInv'
  BY DispatchTypeInv, AcquireTypeInv, WorkTypeInv, MachineTypeInv DEF Next, Idle
<1>2. QED BY InitTypeInv, <1>1, PTL DEF Spec

\* Type correctness: no sequence of commands, failures, crashes and edits takes
\* a variable of the deployer out of its type.
THEOREM TypeCorrect == Spec => []TypeOK
<1>1. TypeInv => TypeOK BY DEF TypeInv
<1>2. QED BY TypeInvariance, <1>1, PTL

-----------------------------------------------------------------------------
(* One job at a time.                                                       *)

\* The dispatcher finds no other job pending, so its own becomes the only one.
LEMMA DispatchLockInv == TypeInv /\ LockInv /\ Dispatch => LockInv'
<1> SUFFICES ASSUME TypeInv, LockInv, Dispatch PROVE LockInv'
    OBVIOUS
<1> USE DeployAssumption DEF TypeInv, TypeOK, HolderOK, LockInv, Ops, Blocked, Put, Pending
<1>1. ASSUME NEW j \in Jobs, NEW v \in Versions, Apply(j, v) PROVE LockInv'
  BY <1>1 DEF Apply
<1>2. ASSUME NEW j \in Jobs, Rollback(j) PROVE LockInv'
  BY <1>2 DEF Rollback, MayRollback, receiptOnly
<1>3. QED BY <1>1, <1>2 DEF Dispatch

\* The unit that gets the lock was the only one that waited.
LEMMA AcquireLockInv ==
    ASSUME NEW o \in Ops, NEW j \in Jobs, TypeInv, LockInv, Acquire(o, j)
    PROVE  LockInv'
BY DeployAssumption DEF TypeInv, TypeOK, HolderOK, LockInv, Acquire, store, Ops, Pending

\* A launch settles the receipt or leaves a unit for it, never both.
LEMMA LaunchLockInv ==
    ASSUME "late" \notin Faults, TypeInv, LockInv, Launch
    PROVE  LockInv'
BY DeployAssumption DEF TypeInv, TypeOK, HolderOK, LockInv, Launch, Strike, Put, Release,
   receiptOnly, Ops, Pending

\* The worker writes no receipt but its own.
LEMMA WorkLockInv ==
    ASSUME "late" \notin Faults, TypeInv, LockInv, Work
    PROVE  LockInv'
<1> USE DeployAssumption DEF TypeInv, TypeOK, HolderOK, LockInv, Goto, Put, Release,
        receiptOnly, store, Pending, Ops
<1>1. CASE Launch BY <1>1, LaunchLockInv
<1>2. CASE Begin BY <1>2 DEF Begin
<1>3. CASE Backup BY <1>3 DEF Backup
<1>4. CASE KeepPrevious BY <1>4 DEF KeepPrevious
<1>5. CASE MarkApplying BY <1>5 DEF MarkApplying
<1>6. CASE MarkVerifying BY <1>6 DEF MarkVerifying
<1>7. CASE Parity BY <1>7, CaughtTypes DEF Parity
<1>8. CASE Record BY <1>8 DEF Record
<1>9. CASE MarkUndoing BY <1>9 DEF MarkUndoing
<1>10. CASE CheckBackup BY <1>10, CaughtTypes DEF CheckBackup
<1>11. CASE Revive BY <1>11 DEF Revive
<1>12. CASE ReturnManifest BY <1>12 DEF ReturnManifest
<1>13. CASE End BY <1>13 DEF End
<1>14. CASE Raise BY <1>14, CaughtTypes DEF Raise, Trying
<1>15. ASSUME NEW f \in Files, InstallFile(f) PROVE LockInv' BY <1>15 DEF InstallFile
<1>16. ASSUME NEW f \in Files, RestoreFile(f) PROVE LockInv' BY <1>16 DEF RestoreFile
<1>17. QED
  BY <1>1, <1>2, <1>3, <1>4, <1>5, <1>6, <1>7, <1>8, <1>9, <1>10, <1>11, <1>12,
     <1>13, <1>14, <1>15, <1>16 DEF Work

\* A crash keeps the receipt pending, whether its unit was accepted or not.
LEMMA MachineLockInv ==
    TypeInv /\ LockInv /\ (Crash \/ PowerLoss \/ Drift \/ UNCHANGED vars) => LockInv'
<1> SUFFICES ASSUME TypeInv, LockInv, Crash \/ PowerLoss \/ Drift \/ UNCHANGED vars
             PROVE  LockInv'
    OBVIOUS
<1> USE DEF TypeInv, TypeOK, HolderOK, LockInv, Release, store, Ops
<1>1. CASE Crash BY <1>1 DEF Crash
<1>2. CASE PowerLoss BY <1>2 DEF PowerLoss
<1>3. CASE Drift BY <1>3 DEF Drift, proc
<1>4. CASE UNCHANGED vars BY <1>4 DEF vars, proc
<1>5. QED BY <1>1, <1>2, <1>3, <1>4

\* Without a launch answered late, the lock and the receipts agree.
LEMMA LockInvariance ==
    ASSUME "late" \notin Faults PROVE Spec => [](TypeInv /\ LockInv)
<1>1. Init => LockInv
  BY DEF Init, LockInv, Pending, Ops
<1>2. TypeInv /\ LockInv /\ [Next]_vars => LockInv'
  BY DispatchLockInv, AcquireLockInv, WorkLockInv, MachineLockInv DEF Next, Idle
<1>3. QED BY TypeInvariance, <1>1, <1>2, PTL DEF Spec

\* At most one job is pending, launched or running, whatever fails or crashes,
\* as long as systemd answers the launch in time.  (When it answers late the
\* dispatcher has written failed, and the next job is dispatched beside it.)
THEOREM SingleJob ==
    ASSUME "late" \notin Faults PROVE Spec => []OneAtATime
<1>1. TypeInv /\ LockInv => OneAtATime
  <2> SUFFICES ASSUME TypeInv, LockInv PROVE OneAtATime
      OBVIOUS
  <2>1. \A j \in Loaded : st[j] \in Pending
    BY DeployAssumption DEF TypeInv, HolderOK, LockInv, Loaded
  <2>2. QED BY <2>1 DEF LockInv, OneAtATime
<1>2. QED BY LockInvariance, <1>1, PTL

-----------------------------------------------------------------------------
(* Recovery.                                                                *)

\* A rollback is dispatched only where it is sound.
LEMMA DispatchRecoverInv == TypeInv /\ LockInv /\ RecoverInv /\ Dispatch => RecoverInv'
<1> SUFFICES ASSUME TypeInv, LockInv, RecoverInv, Dispatch PROVE RecoverInv'
    OBVIOUS
<1> USE DeployAssumption DEF TypeInv, TypeOK, HolderOK, LockInv, RecoverInv, Sound, Touched,
        Ops, Blocked, Put, Pending
<1>1. ASSUME NEW j \in Jobs, NEW v \in Versions, Apply(j, v) PROVE RecoverInv'
  BY <1>1 DEF Apply
<1>2. ASSUME NEW j \in Jobs, Rollback(j) PROVE RecoverInv'
  BY <1>2 DEF Rollback, MayRollback, receiptOnly, Acceptable
<1>3. QED BY <1>1, <1>2 DEF Dispatch

\* The unit starts from the receipt and the store as they are.
LEMMA AcquireRecoverInv ==
    ASSUME NEW o \in Ops, NEW j \in Jobs, TypeInv, LockInv, RecoverInv, Acquire(o, j)
    PROVE  RecoverInv'
BY DeployAssumption DEF TypeInv, TypeOK, HolderOK, LockInv, RecoverInv, Sound, Touched,
   Acquire, store, Ops, Pending

\* No file is touched before the backup and the previous manifest are kept,
\* and only the holder, whose job is the one pending, changes the manifest.
LEMMA WorkRecoverInv == TypeInv /\ LockInv /\ RecoverInv /\ Work => RecoverInv'
<1> SUFFICES ASSUME TypeInv, LockInv, RecoverInv, Work PROVE RecoverInv'
    OBVIOUS
<1> USE DeployAssumption DEF TypeInv, TypeOK, HolderOK, LockInv, RecoverInv, Sound, Touched,
        Goto, Put, Release, receiptOnly, store, Pending, Ops
<1>1. CASE Launch BY <1>1 DEF Launch, Strike
<1>2. CASE Begin BY <1>2 DEF Begin
<1>3. CASE Backup BY <1>3 DEF Backup
<1>4. CASE KeepPrevious BY <1>4 DEF KeepPrevious
<1>5. CASE MarkApplying BY <1>5 DEF MarkApplying
<1>6. CASE MarkVerifying BY <1>6 DEF MarkVerifying
<1>7. CASE Parity BY <1>7 DEF Parity, Caught
<1>8. CASE Record BY <1>8 DEF Record
<1>9. CASE MarkUndoing BY <1>9 DEF MarkUndoing
<1>10. CASE CheckBackup BY <1>10 DEF CheckBackup, Caught
<1>11. CASE Revive BY <1>11 DEF Revive
<1>12. CASE ReturnManifest BY <1>12 DEF ReturnManifest
<1>13. CASE End BY <1>13 DEF End
<1>14. CASE Raise BY <1>14 DEF Raise, Trying, Caught
<1>15. ASSUME NEW f \in Files, InstallFile(f) PROVE RecoverInv' BY <1>15 DEF InstallFile
<1>16. ASSUME NEW f \in Files, RestoreFile(f) PROVE RecoverInv' BY <1>16 DEF RestoreFile
<1>17. QED
  BY <1>1, <1>2, <1>3, <1>4, <1>5, <1>6, <1>7, <1>8, <1>9, <1>10, <1>11, <1>12,
     <1>13, <1>14, <1>15, <1>16 DEF Work

\* The store survives the processes.
LEMMA MachineRecoverInv ==
    TypeInv /\ LockInv /\ RecoverInv /\ (Crash \/ PowerLoss \/ Drift \/ UNCHANGED vars)
        => RecoverInv'
<1> SUFFICES ASSUME TypeInv, LockInv, RecoverInv,
                    Crash \/ PowerLoss \/ Drift \/ UNCHANGED vars
             PROVE  RecoverInv'
    OBVIOUS
<1> USE DEF TypeInv, TypeOK, HolderOK, LockInv, RecoverInv, Sound, Touched, Release,
        store, Ops
<1>1. CASE Crash BY <1>1 DEF Crash
<1>2. CASE PowerLoss BY <1>2 DEF PowerLoss
<1>3. CASE Drift BY <1>3 DEF Drift, proc
<1>4. CASE UNCHANGED vars BY <1>4 DEF vars, proc
<1>5. QED BY <1>1, <1>2, <1>3, <1>4

\* Every job that touched files keeps what its rollback needs.
LEMMA RecoverInvariance ==
    ASSUME "late" \notin Faults PROVE Spec => [](TypeInv /\ LockInv /\ RecoverInv)
<1>1. Init => RecoverInv
  BY DEF Init, RecoverInv, Touched, Ops
<1>2. TypeInv /\ LockInv /\ RecoverInv /\ [Next]_vars => RecoverInv'
  BY DispatchRecoverInv, AcquireRecoverInv, WorkRecoverInv, MachineRecoverInv
     DEF Next, Idle
<1>3. QED BY LockInvariance, <1>1, <1>2, PTL DEF Spec

\* A job cut off or failed anywhere, by any failures and crashes, is accepted by
\* an explicit rollback as soon as no worker runs, unless it was cut off before
\* it kept its backup and the manifest it replaces.
THEOREM Recoverable ==
    ASSUME "late" \notin Faults PROVE Spec => []InterruptedIsRecoverable
<1>1. ASSUME TypeInv, LockInv, RecoverInv, NEW j \in Jobs, st[j] \in Pending
      PROVE  MayRollback(j) \/ Unprepared(j)
  <2>1. st[j] # "none" /\ ~Blocked(j)
    BY <1>1 DEF LockInv, Blocked, Pending
  <2>2. CASE st[j] \in Touched
    BY <1>1, <2>1, <2>2 DEF RecoverInv, Sound, MayRollback, Acceptable
  <2>3. CASE st[j] \in {"queued", "checkpointing"}
    BY <1>1, <2>1, <2>3 DEF MayRollback, Acceptable, Unprepared
  <2>. QED  BY <1>1, <2>2, <2>3 DEF Pending, Touched
<1>2. TypeInv /\ LockInv /\ RecoverInv => InterruptedIsRecoverable
  BY <1>1 DEF InterruptedIsRecoverable
<1>3. QED BY RecoverInvariance, <1>2, PTL

\* The worker of a rollback, which does not look at the installed version
\* again, finds the one its dispatcher accepted.
THEOREM NotOverNewer ==
    ASSUME "late" \notin Faults PROVE Spec => RollbackNotOverNewer
<1>1. LockInv /\ RecoverInv => (pc = "check" => Sound(job))
  BY DEF LockInv, RecoverInv
<1>2. LockInv /\ RecoverInv /\ [Next]_vars
        => [pc = "check" /\ pc' = "restore"
              => installed \in {NoVersion, ver[job], previous[job]}]_vars
  BY <1>1 DEF Sound
<1>3. QED BY RecoverInvariance, <1>2, PTL DEF Spec, RollbackNotOverNewer

-----------------------------------------------------------------------------
(* What a finished apply leaves.                                            *)

\* Whoever writes "complete" has compared the files and kept the manifest.
LEMMA DoneInvariance == ASSUME "drift" \notin Faults PROVE Spec => [](TypeInv /\ DoneInv)
<1>1. Init => DoneInv
  BY DEF Init, DoneInv
<1>2. TypeInv /\ DoneInv /\ [Next]_vars => DoneInv'
  <2> SUFFICES ASSUME TypeInv, DoneInv, [Next]_vars PROVE DoneInv'
      OBVIOUS
  <2> USE DEF DoneInv, Changed, Manifest, Goto, Release, store, past, receiptOnly
  <2>1. CASE Dispatch BY <2>1 DEF Dispatch, Apply, Rollback
  <2>2. ASSUME NEW o \in Ops, NEW j \in Jobs, Acquire(o, j) PROVE DoneInv'
    BY <2>2 DEF Acquire
  <2>3. CASE Launch \/ Begin \/ Backup \/ KeepPrevious \/ MarkApplying \/ MarkVerifying
    BY <2>3 DEF Launch, Begin, Backup, KeepPrevious, MarkApplying, MarkVerifying
  <2>4. CASE Parity BY <2>4 DEF Parity, Caught
  <2>5. CASE Record BY <2>5 DEF Record
  <2>6. CASE MarkUndoing \/ CheckBackup \/ Revive \/ ReturnManifest
    BY <2>6 DEF MarkUndoing, CheckBackup, Revive, ReturnManifest, Caught
  <2>7. CASE End \/ Raise BY <2>7 DEF End, Raise, Caught
  <2>8. ASSUME NEW f \in Files, InstallFile(f) \/ RestoreFile(f) PROVE DoneInv'
    BY <2>8 DEF InstallFile, RestoreFile
  <2>9. CASE Crash \/ PowerLoss \/ Drift \/ Idle \/ UNCHANGED vars
    BY <2>9 DEF Crash, PowerLoss, Drift, Idle, Strike, vars, proc
  <2>10. QED BY <2>1, <2>2, <2>3, <2>4, <2>5, <2>6, <2>7, <2>8, <2>9 DEF Next, Work
<1>3. QED BY TypeInvariance, <1>1, <1>2, PTL DEF Spec

\* The receipt of a job becomes "complete" in the last step of its worker only.
LEMMA OnlyEndCompletes ==
    ASSUME TypeInv, [Next]_vars, NEW j \in Jobs, st[j] # "complete", st'[j] = "complete"
    PROVE  pc = "end" /\ mem = "complete" /\ j = job /\ UNCHANGED <<files, installed, ver>>
<1> USE DeployAssumption DEF TypeInv, TypeOK, HolderOK, Put, receiptOnly, store
<1>1. CASE Dispatch BY <1>1 DEF Dispatch, Apply, Rollback
<1>2. ASSUME NEW o \in Ops, NEW k \in Jobs, Acquire(o, k) PROVE FALSE BY <1>2 DEF Acquire
<1>3. CASE Launch BY <1>3 DEF Launch
<1>4. CASE Begin \/ Backup \/ KeepPrevious \/ MarkApplying \/ MarkVerifying \/ Parity
  BY <1>4 DEF Begin, Backup, KeepPrevious, MarkApplying, MarkVerifying, Parity
<1>5. CASE Record \/ MarkUndoing \/ CheckBackup \/ Revive \/ ReturnManifest \/ Raise
  BY <1>5 DEF Record, MarkUndoing, CheckBackup, Revive, ReturnManifest, Raise
<1>6. CASE End BY <1>6 DEF End
<1>7. ASSUME NEW f \in Files, InstallFile(f) \/ RestoreFile(f) PROVE FALSE
  BY <1>7 DEF InstallFile, RestoreFile
<1>8. CASE Crash \/ PowerLoss \/ Drift \/ Idle \/ UNCHANGED vars
  BY <1>8 DEF Crash, PowerLoss, Drift, Idle, vars
<1>9. QED BY <1>1, <1>2, <1>3, <1>4, <1>5, <1>6, <1>7, <1>8 DEF Next, Work

\* A complete receipt is written over exactly the files of its manifest, for
\* every payload and also when launches are answered late and the lists of
\* files are stale, as long as nobody else edits managed files.
THEOREM CompleteIsInstalled ==
    ASSUME "drift" \notin Faults PROVE Spec => CompleteMeansInstalled
<1>1. TypeInv /\ DoneInv /\ [Next]_vars
        => [\A j \in Jobs : st[j] # "complete" /\ st'[j] = "complete"
              => installed = ver[j] /\ Changed(ver[j]) = {}]_vars
  BY OnlyEndCompletes DEF DoneInv
<1>2. QED BY DoneInvariance, <1>1, PTL DEF Spec, CompleteMeansInstalled

-----------------------------------------------------------------------------
(* What an apply deletes.                                                   *)

\* The dispatcher lists for deletion only what the installed manifest has.
LEMMA DispatchRetireInv == TypeInv /\ LockInv /\ RetireInv /\ Dispatch => RetireInv'
<1> SUFFICES ASSUME TypeInv, LockInv, RetireInv, Dispatch PROVE RetireInv'
    OBVIOUS
<1> USE DeployAssumption DEF TypeInv, TypeOK, HolderOK, LockInv, RetireInv, Retires, Manifest,
        Ops, Blocked, Put, Pending
<1>1. ASSUME NEW j \in Jobs, NEW v \in Versions, Apply(j, v) PROVE RetireInv'
  BY <1>1 DEF Apply, Changed, Removed
<1>2. ASSUME NEW j \in Jobs, Rollback(j) PROVE RetireInv'
  BY <1>2 DEF Rollback, receiptOnly
<1>3. QED BY <1>1, <1>2 DEF Dispatch

\* The manifest changes only after the last file, when no unit waits.
LEMMA WorkRetireInv == TypeInv /\ LockInv /\ RetireInv /\ Work => RetireInv'
<1> SUFFICES ASSUME TypeInv, LockInv, RetireInv, Work PROVE RetireInv'
    OBVIOUS
<1> USE DeployAssumption DEF TypeInv, TypeOK, HolderOK, LockInv, RetireInv, Retires,
        Goto, Put, Release, receiptOnly, store, Ops
<1>1. CASE Launch BY <1>1 DEF Launch
<1>2. CASE Begin \/ Backup \/ KeepPrevious \/ MarkApplying \/ MarkVerifying
  BY <1>2 DEF Begin, Backup, KeepPrevious, MarkApplying, MarkVerifying
<1>3. CASE Parity BY <1>3, CaughtTypes DEF Parity
<1>4. CASE Record BY <1>4 DEF Record
<1>5. CASE MarkUndoing \/ Revive \/ ReturnManifest \/ End
  BY <1>5 DEF MarkUndoing, Revive, ReturnManifest, End
<1>6. CASE CheckBackup BY <1>6, CaughtTypes DEF CheckBackup
<1>7. CASE Raise BY <1>7, CaughtTypes DEF Raise
<1>8. ASSUME NEW f \in Files, InstallFile(f) \/ RestoreFile(f) PROVE RetireInv'
  BY <1>8 DEF InstallFile, RestoreFile
<1>9. QED BY <1>1, <1>2, <1>3, <1>4, <1>5, <1>6, <1>7, <1>8 DEF Work

\* Nothing else touches the manifest or the lists.
LEMMA OtherRetireInv ==
    ASSUME TypeInv, LockInv, RetireInv,
           \/ \E o \in Ops, j \in Jobs : Acquire(o, j)
           \/ Crash \/ PowerLoss \/ Drift \/ UNCHANGED vars
    PROVE  RetireInv'
<1> USE DEF TypeInv, TypeOK, HolderOK, LockInv, RetireInv, Retires, Release, store, Ops
<1>1. ASSUME NEW o \in Ops, NEW j \in Jobs, Acquire(o, j) PROVE RetireInv'
  BY <1>1 DEF Acquire
<1>2. CASE Crash BY <1>2 DEF Crash
<1>3. CASE PowerLoss BY <1>3 DEF PowerLoss
<1>4. CASE Drift BY <1>4 DEF Drift, proc
<1>5. CASE UNCHANGED vars BY <1>5 DEF vars, proc
<1>6. QED BY <1>1, <1>2, <1>3, <1>4, <1>5

\* Lists made by the dispatcher stay true of the installed manifest.
LEMMA RetireInvariance ==
    ASSUME "late" \notin Faults PROVE Spec => [](TypeInv /\ LockInv /\ RetireInv)
<1>1. Init => RetireInv
  BY DEF Init, RetireInv
<1>2. TypeInv /\ LockInv /\ RetireInv /\ [Next]_vars => RetireInv'
  BY DispatchRetireInv, WorkRetireInv, OtherRetireInv DEF Next, Idle
<1>3. QED BY LockInvariance, <1>1, <1>2, PTL DEF Spec

\* A file is deleted by an apply only while the installed manifest has it, also
\* if files were edited and workers crashed since the list was made.
THEOREM RetiresOnlyManaged ==
    ASSUME "late" \notin Faults PROVE Spec => OnlyManagedRetired
<1>1. TypeInv /\ RetireInv /\ [Next]_vars
        => [\A f \in Files : pc = "install" /\ job \in Jobs /\ f \in todo \ todo'
                             /\ Payload[ver[job]][f] = Absent
              => f \in Manifest(installed)]_vars
  BY DEF RetireInv, Retires
<1>2. QED BY RetireInvariance, <1>1, PTL DEF Spec, OnlyManagedRetired

-----------------------------------------------------------------------------
(* What a job that failed or was rolled back leaves.                        *)

\* A dispatch names a job that never began, or one that keeps its backup.
LEMMA DispatchUndoInv == TypeInv /\ UndoInv /\ Dispatch => UndoInv'
<1> SUFFICES ASSUME TypeInv, UndoInv, Dispatch PROVE UndoInv'
    OBVIOUS
<1> USE DeployAssumption DEF TypeInv, TypeOK, HolderOK, UndoInv, UndoneWhere, UndoneFiles,
        Ops, Put, past
<1>1. ASSUME NEW j \in Jobs, NEW v \in Versions, Apply(j, v) PROVE UndoInv'
  BY <1>1 DEF Apply
<1>2. ASSUME NEW j \in Jobs, Rollback(j) PROVE UndoInv'
  BY <1>2 DEF Rollback, MayRollback, receiptOnly
<1>3. QED BY <1>1, <1>2 DEF Dispatch

\* The unit of an apply takes the files it finds as its base; any other unit
\* but a rollback of the same job ends the claim of the last one.
LEMMA AcquireUndoInv ==
    ASSUME NEW o \in Ops, NEW j \in Jobs, TypeInv, UndoInv, Acquire(o, j)
    PROVE  UndoInv'
<1> USE DeployAssumption DEF TypeInv, TypeOK, HolderOK, UndoInv, UndoneWhere, UndoneFiles,
        Ops, Acquire, store
<1>1. UndoneWhere' OBVIOUS
<1>2. UndoneFiles' OBVIOUS
<1>3. QED BY <1>1, <1>2

\* The worker saves before it installs, installs what is on its list, and
\* restores what is on its list from what it saved.
LEMMA WorkUndoInv == TypeInv /\ UndoInv /\ Work => UndoInv'
<1> SUFFICES ASSUME TypeInv, UndoInv, Work PROVE UndoInv'
    OBVIOUS
<1> USE DeployAssumption DEF TypeInv, TypeOK, HolderOK, UndoInv, UndoneWhere, UndoneFiles,
        Goto, Put, Release, receiptOnly, store, past, Ops, Tree
<1>1. CASE Launch BY <1>1 DEF Launch
<1>2. CASE Begin BY <1>2 DEF Begin
<1>3. CASE Backup BY <1>3 DEF Backup
<1>4. CASE KeepPrevious BY <1>4 DEF KeepPrevious
<1>5. CASE MarkApplying BY <1>5 DEF MarkApplying
<1>6. CASE MarkVerifying BY <1>6 DEF MarkVerifying
<1>7. CASE Parity BY <1>7 DEF Parity, Caught
<1>8. CASE Record BY <1>8 DEF Record
<1>9. CASE MarkUndoing BY <1>9 DEF MarkUndoing
<1>10. CASE CheckBackup BY <1>10 DEF CheckBackup, Caught
<1>11. CASE Revive BY <1>11 DEF Revive
<1>12. CASE ReturnManifest BY <1>12 DEF ReturnManifest
<1>13. CASE End BY <1>13 DEF End
<1>14. CASE Raise BY <1>14 DEF Raise, Trying, Caught
<1>15. ASSUME NEW f \in Files, InstallFile(f) PROVE UndoInv' BY <1>15 DEF InstallFile
<1>16. ASSUME NEW f \in Files, RestoreFile(f) PROVE UndoInv' BY <1>16 DEF RestoreFile
<1>17. QED
  BY <1>1, <1>2, <1>3, <1>4, <1>5, <1>6, <1>7, <1>8, <1>9, <1>10, <1>11, <1>12,
     <1>13, <1>14, <1>15, <1>16 DEF Work

\* A killed worker leaves the files and the backup as they are.
LEMMA MachineUndoInv ==
    ASSUME "drift" \notin Faults, TypeInv, UndoInv,
           Crash \/ PowerLoss \/ Drift \/ UNCHANGED vars
    PROVE  UndoInv'
<1> USE DeployAssumption DEF TypeInv, TypeOK, HolderOK, UndoInv, UndoneWhere, UndoneFiles,
        Release, store, Ops
<1>1. CASE Crash BY <1>1 DEF Crash
<1>2. CASE PowerLoss BY <1>2 DEF PowerLoss
<1>3. CASE Drift BY <1>3 DEF Drift, Strike
<1>4. CASE UNCHANGED vars BY <1>4 DEF vars, proc, past
<1>5. QED BY <1>1, <1>2, <1>3, <1>4

\* As long as nobody edits managed files, what a worker can undo is all it did.
LEMMA UndoInvariance == ASSUME "drift" \notin Faults PROVE Spec => [](TypeInv /\ UndoInv)
<1>1. Init => UndoInv
  BY DeployAssumption DEF Init, UndoInv, UndoneWhere, UndoneFiles
<1>2. TypeInv /\ UndoInv /\ [Next]_vars => UndoInv'
  BY DispatchUndoInv, AcquireUndoInv, WorkUndoInv, MachineUndoInv DEF Next, Idle
<1>3. QED BY TypeInvariance, <1>1, <1>2, PTL DEF Spec

\* The receipt of a job that began becomes "failed" or "rolled-back" in the last
\* step of its worker only: a launch given up is that of a job that did not.
LEMMA OnlyEndUndoes ==
    ASSUME TypeInv, UndoInv, [Next]_vars,
           NEW j \in Jobs, st[j] # st'[j], st'[j] \in {"failed", "rolled-back"}, last = j
    PROVE  pc = "end" /\ mem \in {"failed", "rolled-back"} /\ job = j
<1> USE DeployAssumption DEF TypeInv, TypeOK, HolderOK, UndoInv, UndoneWhere, Put,
        receiptOnly, store, Ops
<1>1. CASE Dispatch BY <1>1 DEF Dispatch, Apply, Rollback
<1>2. ASSUME NEW o \in Ops, NEW k \in Jobs, Acquire(o, k) PROVE FALSE BY <1>2 DEF Acquire
<1>3. CASE Launch BY <1>3 DEF Launch
<1>4. CASE Begin \/ Backup \/ KeepPrevious \/ MarkApplying \/ MarkVerifying \/ Parity
  BY <1>4 DEF Begin, Backup, KeepPrevious, MarkApplying, MarkVerifying, Parity
<1>5. CASE Record \/ MarkUndoing \/ CheckBackup \/ Revive \/ ReturnManifest \/ Raise
  BY <1>5 DEF Record, MarkUndoing, CheckBackup, Revive, ReturnManifest, Raise
<1>6. CASE End BY <1>6 DEF End
<1>7. ASSUME NEW f \in Files, InstallFile(f) \/ RestoreFile(f) PROVE FALSE
  BY <1>7 DEF InstallFile, RestoreFile
<1>8. CASE Crash \/ PowerLoss \/ Drift \/ Idle \/ UNCHANGED vars
  BY <1>8 DEF Crash, PowerLoss, Drift, Idle, vars
<1>9. QED BY <1>1, <1>2, <1>3, <1>4, <1>5, <1>6, <1>7, <1>8 DEF Next, Work

\* Whoever reads "failed" or "rolled-back" of the job that worked last finds
\* every managed file as it was before that job, also if a crash and an explicit
\* rollback came in between and launches were answered late, as long as nobody
\* else edits managed files.
THEOREM UndoneIsUntouched ==
    ASSUME "drift" \notin Faults PROVE Spec => UndoneMeansUntouched
<1>1. TypeInv /\ UndoInv /\ [Next]_vars
        => [\A j \in Jobs : /\ st[j] # st'[j] /\ st'[j] \in {"failed", "rolled-back"}
                            /\ last = j
              => files = base]_vars
  BY OnlyEndUndoes, DeployAssumption DEF UndoInv, UndoneFiles
<1>2. QED BY UndoInvariance, <1>1, PTL DEF Spec, UndoneMeansUntouched

-----------------------------------------------------------------------------
(* Receipts, lists, backups and files in step.                              *)

\* How far the receipt is at each step of the lock's holder, and what it says of
\* the jobs that wait.
ReceiptInv ==
    /\ \A j \in Jobs : <<"apply", j>> \in waiting => st[j] = "queued"
    /\ \A j \in Jobs : <<"rollback", j>> \in waiting
                          => st[j] \in {"rolling-back", "recovery-required"}
    /\ pc = "launch" => st[job] = IF op = "apply" THEN "queued" ELSE "rolling-back"
    /\ pc = "begin" => st[job] = "queued"
    /\ pc \in {"backup", "previous", "applying"} => st[job] = "checkpointing"
    /\ pc = "install" => st[job] = "applying"
    /\ pc \in {"parity", "record"} => st[job] = "verifying"
    /\ pc = "undoing" => st[job] \in {"checkpointing", "applying", "verifying"}
    /\ pc = "check" => st[job] \in {"rolling-back", "recovery-required"}
    /\ pc \in {"restore", "return"} => st[job] = "rolling-back"
    /\ pc = "end" =>
          \/ mem = "complete" /\ st[job] = "verifying"
          \/ mem = "rolled-back" /\ st[job] = "rolling-back"
          \/ mem = "failed" /\ st[job] \in {"queued", "checkpointing"}
          \/ mem = "recovery-required" /\ job \in backed /\ st[job] # "queued"

\* Until the job takes effect or is undone, its list has every file that the
\* version before has and its own has not, and no file that neither has.
Covers(j, v) ==
    /\ names[j] \subseteq Manifest(ver[j]) \cup Manifest(v)
    /\ Manifest(v) \ Manifest(ver[j]) \subseteq names[j]

ListInv ==
    \A j \in Jobs :
        /\ st[j] \in {"queued", "checkpointing"} => Covers(j, installed)
        /\ st[j] \in {"applying", "verifying"} => Covers(j, previous[j])

\* The version kept is the one installed from when it is kept until the manifest
\* is replaced, and again when the job is undone; the files saved are those on
\* disk until the first is installed.
PriorInv ==
    /\ \/ pc \in {"applying", "install", "parity", "record", "undoing"}
       \/ pc = "restore" /\ op = "apply"
       \/ pc = "end" /\ mem = "rolled-back"
       => installed = previous[job]
    /\ pc \in {"previous", "applying"} => before[job] = files

\* What the two loops have written.
WroteInv ==
    /\ \A f \in Files :
          \/ pc = "install" /\ f \in names[job] \ todo
          \/ pc \in {"parity", "record"} /\ f \in names[job]
          \/ pc = "end" /\ mem = "complete" /\ f \in names[job]
          => files[f] = Payload[ver[job]][f]
    /\ \A f \in Files :
          \/ pc = "restore" /\ f \in names[job] \ todo
          \/ pc = "return" /\ f \in names[job]
          \/ pc = "end" /\ mem = "rolled-back" /\ f \in names[job]
          => files[f] = before[job][f]

RegisterInv == ReceiptInv /\ ListInv /\ PriorInv /\ WroteInv

\* A dispatch finds no other job pending, and lists what its version and the one
\* installed have.
LEMMA DispatchRegisterInv ==
    TypeInv /\ LockInv /\ RegisterInv /\ Dispatch => RegisterInv'
<1> SUFFICES ASSUME TypeInv, LockInv, RegisterInv, Dispatch PROVE RegisterInv'
    OBVIOUS
<1> USE DeployAssumption DEF TypeInv, TypeOK, HolderOK, LockInv, RegisterInv, Ops, Blocked,
        Put, Pending
<1>1. ASSUME NEW j \in Jobs, NEW v \in Versions, Apply(j, v) PROVE RegisterInv'
  <2>1. ReceiptInv' BY <1>1 DEF Apply, ReceiptInv
  <2>2. ListInv' BY <1>1 DEF Apply, ListInv, Covers, Changed, Removed, Manifest
  <2>3. PriorInv' /\ WroteInv' BY <1>1 DEF Apply, PriorInv, WroteInv
  <2>4. QED BY <2>1, <2>2, <2>3
<1>2. ASSUME NEW j \in Jobs, Rollback(j) PROVE RegisterInv'
  <2> USE <1>2 DEF Rollback, MayRollback, receiptOnly
  <2>1. ReceiptInv' BY DEF ReceiptInv
  <2>2. ListInv' BY DEF ListInv, Covers, Manifest
  <2>3. PriorInv' /\ WroteInv' BY DEF PriorInv, WroteInv
  <2>4. QED BY <2>1, <2>2, <2>3
<1>3. QED BY <1>1, <1>2 DEF Dispatch

\* A unit starts from the receipt it finds.
LEMMA AcquireRegisterInv ==
    ASSUME NEW o \in Ops, NEW j \in Jobs, TypeInv, LockInv, RegisterInv, Acquire(o, j)
    PROVE  RegisterInv'
<1> USE DeployAssumption DEF TypeInv, TypeOK, HolderOK, LockInv, RegisterInv, Acquire, store,
        Ops, Pending
<1>1. ReceiptInv' BY DEF ReceiptInv
<1>2. ListInv' BY DEF ListInv, Covers, Manifest
<1>3. PriorInv' /\ WroteInv' BY DEF PriorInv, WroteInv
<1>4. QED BY <1>1, <1>2, <1>3

\* The holder's steps and the receipts keep in step.
LEMMA WorkReceiptInv ==
    ASSUME "late" \notin Faults, TypeInv, LockInv, UndoneWhere, ReceiptInv, Work
    PROVE  ReceiptInv'
<1> USE DeployAssumption DEF TypeInv, TypeOK, HolderOK, LockInv, UndoneWhere, ReceiptInv,
        Goto, Put, Release, receiptOnly, store, Pending, Ops
<1>1. CASE Launch BY <1>1 DEF Launch, Strike
<1>2. CASE Begin BY <1>2 DEF Begin
<1>3. CASE Backup BY <1>3 DEF Backup
<1>4. CASE KeepPrevious BY <1>4 DEF KeepPrevious
<1>5. CASE MarkApplying BY <1>5 DEF MarkApplying
<1>6. CASE MarkVerifying BY <1>6 DEF MarkVerifying
<1>7. CASE Parity BY <1>7 DEF Parity, Caught
<1>8. CASE Record BY <1>8 DEF Record
<1>9. CASE MarkUndoing BY <1>9 DEF MarkUndoing
<1>10. CASE CheckBackup BY <1>10 DEF CheckBackup, Caught
<1>11. CASE Revive BY <1>11 DEF Revive
<1>12. CASE ReturnManifest BY <1>12 DEF ReturnManifest
<1>13. CASE End BY <1>13 DEF End
<1>14. CASE Raise BY <1>14 DEF Raise, Trying, Caught
<1>15. ASSUME NEW f \in Files, InstallFile(f) PROVE ReceiptInv' BY <1>15 DEF InstallFile
<1>16. ASSUME NEW f \in Files, RestoreFile(f) PROVE ReceiptInv' BY <1>16 DEF RestoreFile
<1>17. QED
  BY <1>1, <1>2, <1>3, <1>4, <1>5, <1>6, <1>7, <1>8, <1>9, <1>10, <1>11, <1>12,
     <1>13, <1>14, <1>15, <1>16 DEF Work

\* The lists stay, and the manifest changes when nothing is open.
LEMMA WorkListInv ==
    ASSUME TypeInv, LockInv, RegisterInv, Work
    PROVE  ListInv'
<1> USE DeployAssumption DEF TypeInv, TypeOK, HolderOK, LockInv, RegisterInv, ReceiptInv,
        ListInv, Covers, Manifest, Goto, Put, Release, receiptOnly, store, Pending, Ops
<1>1. CASE Launch BY <1>1 DEF Launch
<1>2. CASE Begin BY <1>2 DEF Begin
<1>3. CASE Backup BY <1>3 DEF Backup
<1>4. CASE KeepPrevious BY <1>4 DEF KeepPrevious
<1>5. CASE MarkApplying BY <1>5 DEF MarkApplying, PriorInv
<1>6. CASE MarkVerifying BY <1>6 DEF MarkVerifying
<1>7. CASE Parity BY <1>7 DEF Parity
<1>8. CASE Record BY <1>8 DEF Record
<1>9. CASE MarkUndoing BY <1>9 DEF MarkUndoing
<1>10. CASE CheckBackup BY <1>10 DEF CheckBackup
<1>11. CASE Revive BY <1>11 DEF Revive
<1>12. CASE ReturnManifest BY <1>12 DEF ReturnManifest
<1>13. CASE End BY <1>13 DEF End
<1>14. CASE Raise BY <1>14 DEF Raise
<1>15. ASSUME NEW f \in Files, InstallFile(f) PROVE ListInv' BY <1>15 DEF InstallFile
<1>16. ASSUME NEW f \in Files, RestoreFile(f) PROVE ListInv' BY <1>16 DEF RestoreFile
<1>17. QED
  BY <1>1, <1>2, <1>3, <1>4, <1>5, <1>6, <1>7, <1>8, <1>9, <1>10, <1>11, <1>12,
     <1>13, <1>14, <1>15, <1>16 DEF Work

\* What was kept stays true, and a file written stays as written.
LEMMA WorkPriorInv ==
    ASSUME TypeInv, LockInv, UndoneWhere, RegisterInv, Work
    PROVE  PriorInv' /\ WroteInv'
<1> USE DeployAssumption DEF TypeInv, TypeOK, HolderOK, LockInv, UndoneWhere, RegisterInv,
        ReceiptInv, PriorInv, WroteInv, Goto, Put, Release, receiptOnly, store, Ops, Tree
<1>1. CASE Launch BY <1>1 DEF Launch
<1>2. CASE Begin BY <1>2 DEF Begin
<1>3. CASE Backup BY <1>3 DEF Backup
<1>4. CASE KeepPrevious BY <1>4 DEF KeepPrevious
<1>5. CASE MarkApplying BY <1>5 DEF MarkApplying
<1>6. CASE MarkVerifying BY <1>6 DEF MarkVerifying
<1>7. CASE Parity BY <1>7 DEF Parity, Caught
<1>8. CASE Record BY <1>8 DEF Record
<1>9. CASE MarkUndoing BY <1>9 DEF MarkUndoing
<1>10. CASE CheckBackup BY <1>10 DEF CheckBackup, Caught
<1>11. CASE Revive BY <1>11 DEF Revive
<1>12. CASE ReturnManifest BY <1>12 DEF ReturnManifest
<1>13. CASE End BY <1>13 DEF End
<1>14. CASE Raise BY <1>14 DEF Raise, Trying, Caught
<1>15. ASSUME NEW f \in Files, InstallFile(f) PROVE PriorInv' /\ WroteInv'
  BY <1>15 DEF InstallFile
<1>16. ASSUME NEW f \in Files, RestoreFile(f) PROVE PriorInv' /\ WroteInv'
  BY <1>16 DEF RestoreFile
<1>17. QED
  BY <1>1, <1>2, <1>3, <1>4, <1>5, <1>6, <1>7, <1>8, <1>9, <1>10, <1>11, <1>12,
     <1>13, <1>14, <1>15, <1>16 DEF Work

\* A killed holder leaves files and receipts as they are.
LEMMA MachineRegisterInv ==
    ASSUME "drift" \notin Faults, TypeInv, LockInv, RegisterInv,
           Crash \/ PowerLoss \/ Drift \/ UNCHANGED vars
    PROVE  RegisterInv'
<1> USE DeployAssumption DEF TypeInv, TypeOK, HolderOK, LockInv, RegisterInv, ReceiptInv,
        ListInv, Covers, Manifest, PriorInv, WroteInv, Release, store, Ops
<1>1. CASE Crash BY <1>1 DEF Crash
<1>2. CASE PowerLoss BY <1>2 DEF PowerLoss
<1>3. CASE Drift BY <1>3 DEF Drift, Strike
<1>4. CASE UNCHANGED vars BY <1>4 DEF vars, proc, past
<1>5. QED BY <1>1, <1>2, <1>3, <1>4

Inv == TypeInv /\ LockInv /\ RecoverInv /\ DoneInv /\ UndoInv /\ RegisterInv

\* Without edits and late launches, receipts, lists, backups and files are in step.
LEMMA RegisterInvariance ==
    ASSUME "late" \notin Faults, "drift" \notin Faults PROVE Spec => []Inv
<1>1. Init => RegisterInv
  BY DeployAssumption DEF Init, RegisterInv, ReceiptInv, ListInv, PriorInv, WroteInv
<1>2. TypeInv /\ LockInv /\ UndoInv /\ RegisterInv /\ [Next]_vars => RegisterInv'
  BY DispatchRegisterInv, AcquireRegisterInv, WorkReceiptInv, WorkListInv, WorkPriorInv,
     MachineRegisterInv DEF Next, Idle, UndoInv, RegisterInv
<1>3. QED BY RecoverInvariance, DoneInvariance, UndoInvariance, <1>1, <1>2, PTL DEF Spec, Inv

-----------------------------------------------------------------------------
(* Refinement: Upgrade is what the deployer promises of files and version.  *)

\* What the receipts tell while a job is half done, and otherwise.
LEMMA ToldHalf ==
    LockInv => \A j \in Jobs : st[j] \in Touched
                  => FilesTold = Undone(j) /\ VersionTold = previous[j]
<1> SUFFICES ASSUME LockInv, NEW j \in Jobs, st[j] \in Touched
             PROVE  FilesTold = Undone(j) /\ VersionTold = previous[j]
    OBVIOUS
<1>1. HalfDone = {j} BY DEF HalfDone, LockInv, Touched, Pending
<1>2. (CHOOSE k \in HalfDone : TRUE) = j BY <1>1
<1>3. QED BY <1>1, <1>2 DEF FilesTold, VersionTold

LEMMA ToldWhole ==
    (\A j \in Jobs : st[j] \notin Touched) => FilesTold = files /\ VersionTold = installed
BY DEF FilesTold, VersionTold, HalfDone

LEMMA ToldHalfNext ==
    LockInv' => \A j \in Jobs : st'[j] \in Touched
                   => FilesTold' = Undone(j)' /\ VersionTold' = previous'[j]
<1>1. (LockInv => \A j \in Jobs : st[j] \in Touched
                     => FilesTold = Undone(j) /\ VersionTold = previous[j])'
  BY ToldHalf, PTL
<1>2. QED BY <1>1

LEMMA ToldWholeNext ==
    (\A j \in Jobs : st'[j] \notin Touched)
        => FilesTold' = files' /\ VersionTold' = installed'
<1>1. ((\A j \in Jobs : st[j] \notin Touched)
          => FilesTold = files /\ VersionTold = installed)'
  BY ToldWhole, PTL
<1>2. QED BY <1>1

told == <<st, ver, names, backed, before, previous>>

\* A step that writes none of what the register is read from.
LEMMA Unread == ASSUME UNCHANGED <<told, files, installed>> PROVE UNCHANGED Register!vars
BY DEF told, FilesTold, VersionTold, HalfDone, Undone, Register!vars

\* While a job is half done, the files on its list may change unseen, and the
\* manifest.
LEMMA Unseen ==
    ASSUME LockInv, UNCHANGED told, NEW j \in Jobs, st[j] \in Touched,
           \A f \in Files \ names[j] : files'[f] = files[f]
    PROVE  UNCHANGED Register!vars
<1> USE DEF told
<1>1. FilesTold = Undone(j) /\ VersionTold = previous[j]
  BY ToldHalf
<1>2. HalfDone' = {j}
  BY DEF HalfDone, LockInv, Touched, Pending
<1>3. (CHOOSE k \in HalfDone' : TRUE) = j
  BY <1>2
<1>4. FilesTold' = Undone(j)' /\ VersionTold' = previous'[j]
  BY <1>2, <1>3 DEF FilesTold, VersionTold
<1>5. Undone(j)' = Undone(j)
  BY DEF Undone
<1>6. QED BY <1>1, <1>4, <1>5 DEF Register!vars

\* A step that writes the receipt of one job writes that of its phase.
LEMMA PhaseMoves ==
    ASSUME NEW j \in Jobs, NEW s, st' = [st EXCEPT ![j] = s], DOMAIN st = Jobs
    PROVE  Register!Becomes(j, Phase(s))
BY DEF Register!Becomes, Phase

\* The phases by name.
LEMMA Phases ==
    /\ \A s \in {"queued", "checkpointing", "applying", "verifying"} : Phase(s) = "open"
    /\ \A s \in {"rolling-back", "recovery-required"} : Phase(s) = "undoing"
    /\ \A s \in {"rolled-back", "failed"} : Phase(s) = "undone"
    /\ \A s \in {"none", "complete"} : Phase(s) = s
BY DEF Phase

\* No other job is busy when one moves that is pending, or when none is.
LEMMA NoneBeside ==
    ASSUME TypeInv, LockInv, NEW j \in Jobs, st[j] \in Pending \/ ~Blocked(j)
    PROVE  Register!Alone(j)
<1>1. \A k \in Jobs \ {j} : st[k] \in {"none", "complete", "rolled-back", "failed"}
  BY DEF TypeInv, TypeOK, LockInv, Blocked, JobStates, Pending
<1>2. QED BY <1>1, Phases DEF Register!Alone, Register!Busy

\* The initial states correspond.
LEMMA RegisterInit == Init => Register!Init
<1> SUFFICES ASSUME Init PROVE Register!Init
    OBVIOUS
<1>1. FilesTold = files /\ VersionTold = installed
  BY ToldWhole DEF Init, Touched
<1>2. [j \in Jobs |-> Phase(st[j])] = [j \in Jobs |-> "none"]
  BY Phases DEF Init
<1>3. QED BY <1>1, <1>2 DEF Init, Register!Init

\* A dispatched apply opens its job, and lists what differs.
LEMMA ApplyOpens ==
    ASSUME Inv, NEW j \in Jobs, NEW v \in Versions, Apply(j, v)
    PROVE  Register!Open(j, v)
<1> USE DEF Inv, TypeInv, TypeOK
<1>1. \A k \in Jobs : st[k] \notin Touched /\ st'[k] \notin Touched
  BY DEF Apply, Put, Blocked, Touched, Pending
<1>2. /\ FilesTold = files /\ VersionTold = installed
      /\ FilesTold' = files' /\ VersionTold' = installed'
  BY <1>1, ToldWhole, ToldWholeNext
<1>3. Register!Becomes(j, "open")
  BY PhaseMoves, Phases DEF Apply, Put
<1>4. Register!Alone(j)
  BY NoneBeside DEF Apply
<1>5. Changed(v) \cup Removed(v) = Register!Differing(v)
  BY <1>2 DEF Changed, Removed, Manifest, Register!Differing, Register!Manifest
<1>6. QED BY <1>2, <1>3, <1>4, <1>5, Phases DEF Apply, Register!Open

\* An explicit rollback undoes its job when it is dispatched, or goes on with it.
LEMMA RollbackUndoes ==
    ASSUME Inv, Inv', NEW j \in Jobs, Rollback(j)
    PROVE  Register!Undo(j) \/ UNCHANGED Register!vars
<1> USE DEF Inv, TypeInv, TypeOK, receiptOnly
<1>1. Register!Alone(j) /\ Register!Becomes(j, "undoing")
  <2>1. ~Blocked(j) /\ st' = [st EXCEPT ![j] = "rolling-back"]
    BY DEF Rollback, MayRollback, Put
  <2>2. Phase("rolling-back") = "undoing"
    BY Phases
  <2>3. Register!Becomes(j, "undoing")
    BY <2>1, <2>2, PhaseMoves
  <2>4. Register!Alone(j)
    BY <2>1, NoneBeside
  <2>. QED  BY <2>3, <2>4
<1>2. FilesTold' = Undone(j)' /\ VersionTold' = previous'[j] /\ Undone(j)' = Undone(j)
  <2>1. st'[j] \in Touched BY DEF Rollback, Put, Touched
  <2>2. QED BY <2>1, ToldHalfNext DEF Rollback, Undone
<1>3. \A k \in Jobs \ {j} : st[k] \notin Pending
  BY DEF Rollback, MayRollback, Blocked
<1>4. CASE st[j] \in Touched
  <2>1. FilesTold = Undone(j) /\ VersionTold = previous[j]
    BY <1>4, ToldHalf
  <2>2. CASE st[j] \in {"applying", "verifying"}
    BY <1>1, <1>2, <2>1, <2>2, Phases
    DEF Rollback, MayRollback, Register!Undo, Undone
  <2>3. CASE st[j] \in {"rolling-back", "recovery-required"}
    <3>1. [k \in Jobs |-> Phase(st'[k])] = [k \in Jobs |-> Phase(st[k])]
      BY <2>3, Phases DEF Rollback, Put
    <3>2. QED BY <1>2, <2>1, <3>1 DEF Rollback, Register!vars
  <2>4. QED BY <1>4, <2>2, <2>3 DEF Touched
<1>5. CASE st[j] \notin Touched
  <2>1. FilesTold = files /\ VersionTold = installed
    BY <1>3, <1>5, ToldWhole DEF Touched, Pending
  <2>2. st[j] \in {"queued", "checkpointing", "complete", "rolled-back", "failed"}
    BY <1>5 DEF Rollback, MayRollback, JobStates, Pending, Touched
  <2>3. Phase(st[j]) \in {"open", "complete", "undone"}
    BY <2>2, Phases
  <2>4. \/ installed \in {NoVersion, ver[j]}
        \/ Phase(st[j]) = "open" /\ installed = previous[j]
    BY <1>5, <2>2, Phases DEF Rollback, MayRollback, Acceptable, Touched, Pending
  <2>5. QED BY <1>1, <1>2, <2>1, <2>3, <2>4
            DEF Rollback, MayRollback, Register!Undo, Undone
<1>6. QED BY <1>4, <1>5

\* A receipt written within the same phase, while files and version are told the
\* same way, says nothing new.
LEMMA SamePhase ==
    ASSUME TypeInv, NEW j \in Jobs, NEW s, Put(j, s), Phase(s) = Phase(st[j]),
           UNCHANGED <<ver, names, backed, before, previous, FilesTold, VersionTold>>
    PROVE  UNCHANGED Register!vars
<1>1. [k \in Jobs |-> Phase(st'[k])] = [k \in Jobs |-> Phase(st[k])]
  BY DEF TypeInv, TypeOK, Put
<1>2. QED BY <1>1 DEF Register!vars

\* Files and version are told the same way if the job is half done, or is not,
\* before and after.
LEMMA ToldSame ==
    ASSUME Inv, Inv', NEW j \in Jobs, NEW s, Put(j, s), st[j] \in Pending,
           (st[j] \in Touched) = (s \in Touched),
           UNCHANGED <<files, installed, names, before, previous>>
    PROVE  UNCHANGED <<FilesTold, VersionTold>>
<1> USE DEF Inv, TypeInv, TypeOK, Put
<1>1. \A k \in Jobs \ {j} : st[k] \notin Touched /\ st'[k] = st[k]
  BY DEF LockInv, Touched, Pending
<1>2. st'[j] = s OBVIOUS
<1>3. CASE s \in Touched
  <2>1. FilesTold = Undone(j) /\ VersionTold = previous[j]
    BY <1>3, ToldHalf
  <2>2. FilesTold' = Undone(j)' /\ VersionTold' = previous'[j]
    BY <1>2, <1>3, ToldHalfNext
  <2>3. QED BY <2>1, <2>2 DEF Undone
<1>4. CASE s \notin Touched
  BY <1>1, <1>2, <1>4, ToldWhole, ToldWholeNext
<1>5. QED BY <1>3, <1>4

\* A pending job that has touched nothing leaves the register as it is on disk.
LEMMA ToldUntouched ==
    ASSUME LockInv, NEW j \in Jobs, st[j] \in Pending \ Touched
    PROVE  FilesTold = files /\ VersionTold = installed
<1>1. \A k \in Jobs : st[k] \notin Touched
  BY DEF LockInv, Touched, Pending
<1>2. QED BY <1>1, ToldWhole

\* A launch that is given up before anything began aborts the job.
LEMMA LaunchAborts ==
    ASSUME "late" \notin Faults, Inv, Inv', Launch
    PROVE  Register!Abort(job) \/ UNCHANGED Register!vars
<1> USE DEF Inv, TypeInv, TypeOK, HolderOK, Launch, receiptOnly, told
<1>1. job \in Jobs /\ st[job] \in Pending BY DEF LockInv
<1>2. CASE UNCHANGED st BY <1>2, Unread
<1>3. CASE op = "apply" /\ Put(job, "failed")
  <2>1. st[job] = "queued" /\ st[job] \in Pending \ Touched
    BY <1>3 DEF ReceiptInv, RegisterInv, Touched, Pending
  <2>2. FilesTold = files /\ VersionTold = installed
    BY <1>1, <2>1, ToldUntouched
  <2>3. FilesTold' = files' /\ VersionTold' = installed'
    <3>1. \A k \in Jobs : st'[k] \notin Touched
      BY <1>1, <1>3, <2>1 DEF LockInv, Put, Touched, Pending
    <3>2. QED BY <3>1, ToldWholeNext
  <2>4. Register!Becomes(job, "undone")
    <3>1. Register!Becomes(job, Phase("failed"))
      BY <1>1, <1>3, PhaseMoves DEF Put
    <3>2. QED BY <3>1, Phases
  <2>5. QED BY <1>1, <2>1, <2>2, <2>3, <2>4, Phases DEF Register!Abort
<1>4. CASE op = "rollback" /\ Put(job, "recovery-required")
  <2>1. st[job] = "rolling-back" BY <1>4 DEF ReceiptInv, RegisterInv
  <2>2. UNCHANGED <<FilesTold, VersionTold>>
    BY <1>1, <1>4, <2>1, ToldSame DEF Touched
  <2>3. QED BY <1>1, <1>4, <2>1, <2>2, SamePhase, Phases
<1>5. QED BY <1>2, <1>3, <1>4 DEF Strike, Ops

\* Until the first file, and after the last, the worker says what holds already.
LEMMA BeginUnseen == ASSUME Inv, Inv', Begin PROVE UNCHANGED Register!vars
<1> USE DEF Inv, TypeInv, TypeOK, HolderOK, Begin, receiptOnly
<1>1. job \in Jobs /\ st[job] = "queued" BY DEF RegisterInv, ReceiptInv
<1>2. UNCHANGED <<FilesTold, VersionTold>>
  BY <1>1, ToldSame DEF Touched, Pending
<1>3. QED BY <1>1, <1>2, SamePhase, Phases

LEMMA BackupSaves == ASSUME Inv, Inv', Backup PROVE Register!Save(job)
<1> USE DEF Inv, TypeInv, TypeOK, HolderOK, Backup
<1>1. job \in Jobs /\ st[job] = "checkpointing" /\ st'[job] = "checkpointing"
  BY DEF RegisterInv, ReceiptInv
<1>2. FilesTold = files /\ VersionTold = installed
  BY <1>1, ToldUntouched DEF Touched, Pending
<1>3. FilesTold' = files' /\ VersionTold' = installed'
  <2>1. \A k \in Jobs : st'[k] \notin Touched
    BY <1>1 DEF LockInv, Touched, Pending
  <2>2. QED BY <2>1, ToldWholeNext
<1>4. QED BY <1>1, <1>2, <1>3, Phases DEF Register!Save

LEMMA KeepPreviousKeeps == ASSUME Inv, Inv', KeepPrevious PROVE Register!Keep(job)
<1> USE DEF Inv, TypeInv, TypeOK, HolderOK, KeepPrevious
<1>1. job \in Jobs /\ st[job] = "checkpointing" /\ st'[job] = "checkpointing"
  BY DEF RegisterInv, ReceiptInv
<1>2. FilesTold = files /\ VersionTold = installed
  BY <1>1, ToldUntouched DEF Touched, Pending
<1>3. FilesTold' = files' /\ VersionTold' = installed'
  <2>1. \A k \in Jobs : st'[k] \notin Touched
    BY <1>1 DEF LockInv, Touched, Pending
  <2>2. QED BY <2>1, ToldWholeNext
<1>4. QED BY <1>1, <1>2, <1>3, Phases DEF Register!Keep

LEMMA MarkApplyingUnseen == ASSUME Inv, Inv', MarkApplying PROVE UNCHANGED Register!vars
<1> USE DEF Inv, TypeInv, TypeOK, HolderOK, MarkApplying, receiptOnly
<1>1. PICK j \in Jobs : j = job /\ st[j] = "checkpointing" /\ st'[j] = "applying"
  BY DEF RegisterInv, ReceiptInv, Put
<1>2. FilesTold = files /\ VersionTold = installed
  BY <1>1, ToldUntouched DEF Touched, Pending
<1>3. FilesTold' = Undone(j)' /\ VersionTold' = previous'[j]
  BY <1>1, ToldHalfNext DEF Touched
<1>4. Undone(j)' = files
  BY <1>1 DEF Undone, RegisterInv, PriorInv, Goto, Tree
<1>5. installed = previous[j]
  BY <1>1 DEF RegisterInv, PriorInv
<1>6. QED BY <1>1, <1>2, <1>3, <1>4, <1>5, SamePhase, Phases

LEMMA MarkVerifyingUnseen ==
    ASSUME Inv, Inv', MarkVerifying PROVE UNCHANGED Register!vars
<1> USE DEF Inv, TypeInv, TypeOK, HolderOK, MarkVerifying, receiptOnly
<1>1. job \in Jobs /\ st[job] = "applying" BY DEF RegisterInv, ReceiptInv
<1>2. UNCHANGED <<FilesTold, VersionTold>>
  BY <1>1, ToldSame DEF Touched, Pending
<1>3. QED BY <1>1, <1>2, SamePhase, Phases

LEMMA CheckBackupUnseen == ASSUME Inv, Inv', CheckBackup PROVE UNCHANGED Register!vars
<1> USE DEF Inv, TypeInv, TypeOK, HolderOK, CheckBackup, receiptOnly, told
<1>1. job \in Jobs /\ st[job] \in {"rolling-back", "recovery-required"}
  BY DEF RegisterInv, ReceiptInv
<1>2. CASE UNCHANGED st BY <1>2, Unread
<1>3. CASE Put(job, "rolling-back")
  <2>1. UNCHANGED <<FilesTold, VersionTold>>
    BY <1>1, <1>3, ToldSame DEF Touched, Pending
  <2>2. QED BY <1>1, <1>3, <2>1, SamePhase, Phases
<1>4. QED BY <1>2, <1>3

\* An apply that raises is undone from its first receipt that says so.
LEMMA MarkUndoingUndoes == ASSUME Inv, Inv', MarkUndoing PROVE Register!Undo(job)
<1> USE DEF Inv, TypeInv, TypeOK, HolderOK, MarkUndoing, receiptOnly, Put
<1>1. PICK j \in Jobs :
          /\ j = job /\ st[j] \in {"checkpointing", "applying", "verifying"}
          /\ j \in backed /\ installed = previous[j]
  BY DEF RegisterInv, ReceiptInv, PriorInv, UndoInv, UndoneWhere
<1>2. Register!Alone(j)
  BY <1>1, NoneBeside DEF Pending
<1>3. Register!Becomes(j, "undoing")
  <2>1. st' = [st EXCEPT ![j] = "rolling-back"] BY <1>1
  <2>2. Register!Becomes(j, Phase("rolling-back")) BY <2>1, PhaseMoves
  <2>3. QED BY <2>2, Phases
<1>4. FilesTold' = Undone(j)' /\ VersionTold' = previous'[j] /\ Undone(j)' = Undone(j)
  BY <1>1, ToldHalfNext DEF Touched, Undone
<1>5. \/ FilesTold = Undone(j) /\ VersionTold = previous[j]
      \/ FilesTold = files /\ VersionTold = previous[j]
  BY <1>1, ToldHalf, ToldUntouched DEF Touched, Pending
<1>6. Phase(st[j]) = "open"
  BY <1>1, Phases
<1>7. FilesTold' = [f \in Files |-> IF f \in names[j] THEN before[j][f] ELSE FilesTold[f]]
  BY <1>4, <1>5 DEF Undone
<1>8. QED BY <1>1, <1>2, <1>3, <1>4, <1>5, <1>6, <1>7 DEF Register!Undo

\* The last receipt of a worker is the step in which its job takes effect, is
\* given up, or has been undone.
LEMMA EndSettles ==
    ASSUME Inv, Inv', End
    PROVE  \/ Register!Commit(job) \/ Register!Abort(job) \/ Register!Settle(job)
           \/ Register!Undo(job) \/ UNCHANGED Register!vars
<1> USE DEF Inv, TypeInv, TypeOK, HolderOK, End, receiptOnly
<1>1. PICK j \in Jobs : j = job /\ st[j] \in Pending
  BY DEF LockInv
<1>2. CASE UNCHANGED st
  BY <1>2, Unread DEF told
<1>3. ASSUME Put(j, mem), mem \in {"complete", "rolled-back", "failed"}
      PROVE  FilesTold' = files /\ VersionTold' = installed
  <2>1. \A k \in Jobs : st'[k] \notin Touched
    BY <1>1, <1>3 DEF LockInv, Put, Touched, Pending
  <2>2. QED BY <2>1, ToldWholeNext
<1>4. CASE Put(j, mem) /\ mem = "complete"
  <2>1. st[j] = "verifying"
    BY <1>1, <1>4 DEF RegisterInv, ReceiptInv
  <2>2. FilesTold = Undone(j) /\ VersionTold = previous[j]
    BY <2>1, ToldHalf DEF Touched
  <2>3. Register!Becomes(j, "complete")
    <3>1. st' = [st EXCEPT ![j] = "complete"] BY <1>4 DEF Put
    <3>2. Register!Becomes(j, Phase("complete")) BY <3>1, PhaseMoves
    <3>3. QED BY <3>2, Phases
  <2>4. files = Register!Upgraded(ver[j])
    <3>1. SUFFICES ASSUME NEW f \in Files
                   PROVE  files[f] = IF f \in Manifest(ver[j]) \cup Manifest(previous[j])
                                     THEN Payload[ver[j]][f] ELSE Undone(j)[f]
      BY <2>2 DEF Register!Upgraded, Register!Manifest, Manifest, Tree
    <3>2. CASE f \in Manifest(ver[j])
      BY <1>1, <1>4, <3>2 DEF DoneInv, Changed
    <3>3. CASE f \in Manifest(previous[j]) \ Manifest(ver[j])
      BY <1>1, <1>4, <2>1, <3>3 DEF RegisterInv, ListInv, Covers, WroteInv
    <3>4. CASE f \notin Manifest(ver[j]) \cup Manifest(previous[j])
      BY <2>1, <3>4 DEF RegisterInv, ListInv, Covers, Undone
    <3>5. QED BY <3>2, <3>3, <3>4
  <2>5. installed = ver[j]
    BY <1>1, <1>4 DEF DoneInv
  <2>6. QED BY <1>1, <1>3, <1>4, <2>1, <2>2, <2>3, <2>4, <2>5, Phases
            DEF Register!Commit
<1>5. CASE Put(j, mem) /\ mem = "rolled-back"
  <2>1. st[j] = "rolling-back" /\ installed = previous[j]
    BY <1>1, <1>5 DEF RegisterInv, ReceiptInv, PriorInv
  <2>2. FilesTold = Undone(j) /\ VersionTold = previous[j]
    BY <2>1, ToldHalf DEF Touched
  <2>3. Undone(j) = files
    BY <1>1, <1>5 DEF Undone, RegisterInv, WroteInv, Tree
  <2>4. Register!Becomes(j, "undone")
    <3>1. st' = [st EXCEPT ![j] = "rolled-back"] BY <1>5 DEF Put
    <3>2. Register!Becomes(j, Phase("rolled-back")) BY <3>1, PhaseMoves
    <3>3. QED BY <3>2, Phases
  <2>5. QED BY <1>1, <1>3, <1>5, <2>1, <2>2, <2>3, <2>4, Phases DEF Register!Settle
<1>6. CASE Put(j, mem) /\ mem = "failed"
  <2>1. st[j] \in {"queued", "checkpointing"}
    BY <1>1, <1>6 DEF RegisterInv, ReceiptInv
  <2>2. FilesTold = files /\ VersionTold = installed
    BY <1>1, <2>1, ToldUntouched DEF Touched
  <2>3. Register!Becomes(j, "undone")
    <3>1. st' = [st EXCEPT ![j] = "failed"] BY <1>6 DEF Put
    <3>2. Register!Becomes(j, Phase("failed")) BY <3>1, PhaseMoves
    <3>3. QED BY <3>2, Phases
  <2>4. QED BY <1>1, <1>3, <1>6, <2>1, <2>2, <2>3, Phases DEF Register!Abort
<1>7. CASE Put(j, mem) /\ mem = "recovery-required"
  <2>1. j \in backed /\ installed \in {NoVersion, ver[j], previous[j]}
    BY <1>1, <1>7 DEF RecoverInv, Touched, Sound
  <2>2. st[j] \in {"checkpointing", "applying", "verifying", "rolling-back",
                   "recovery-required"}
    BY <1>1, <1>7 DEF RegisterInv, ReceiptInv, Pending
  <2>3. CASE st[j] \in {"rolling-back", "recovery-required"}
    <3>1. UNCHANGED <<FilesTold, VersionTold>>
      BY <1>1, <1>7, <2>3, ToldSame DEF Touched
    <3>2. QED BY <1>1, <1>7, <2>3, <3>1, SamePhase, Phases
  <2>4. CASE st[j] \in {"checkpointing", "applying", "verifying"}
    <3>1. Register!Alone(j)
      BY <1>1, NoneBeside
    <3>2. Register!Becomes(j, "undoing")
      <4>1. st' = [st EXCEPT ![j] = "recovery-required"] BY <1>7 DEF Put
      <4>2. Register!Becomes(j, Phase("recovery-required")) BY <4>1, PhaseMoves
      <4>3. QED BY <4>2, Phases
    <3>3. FilesTold' = Undone(j)' /\ VersionTold' = previous'[j] /\ Undone(j)' = Undone(j)
      BY <1>7, ToldHalfNext DEF Put, Touched, Undone
    <3>4. \/ FilesTold = Undone(j) /\ VersionTold = previous[j]
          \/ FilesTold = files /\ VersionTold = installed
      BY <1>1, <2>4, ToldHalf, ToldUntouched DEF Touched
    <3>5. Phase(st[j]) = "open"
      BY <2>4, Phases
    <3>6. FilesTold' = [f \in Files |-> IF f \in names[j] THEN before[j][f]
                                                         ELSE FilesTold[f]]
      BY <3>3, <3>4 DEF Undone
    <3>7. QED BY <1>1, <1>7, <2>1, <3>1, <3>2, <3>3, <3>4, <3>5, <3>6
              DEF Register!Undo
  <2>5. QED BY <2>2, <2>3, <2>4
<1>8. mem \in {"complete", "rolled-back", "failed", "recovery-required"}
  BY DEF RegisterInv, ReceiptInv
<1>9. QED BY <1>1, <1>2, <1>4, <1>5, <1>6, <1>7, <1>8

\* Whatever else the holder does is not to be seen.
LEMMA LoopsUnseen ==
    ASSUME Inv,
           \/ \E f \in Files : InstallFile(f) \/ RestoreFile(f)
           \/ Parity \/ Record \/ Revive \/ ReturnManifest \/ Raise
    PROVE  UNCHANGED Register!vars
<1> USE DEF Inv, TypeInv, TypeOK, HolderOK, store, told
<1>1. ASSUME NEW f \in Files, InstallFile(f) \/ RestoreFile(f)
      PROVE  UNCHANGED Register!vars
  <2>1. PICK j \in Jobs : j = job /\ st[j] \in Touched
    BY <1>1 DEF InstallFile, RestoreFile, RegisterInv, ReceiptInv, Touched
  <2>2. f \in names[j]
    BY <1>1, <2>1 DEF InstallFile, RestoreFile, UndoInv, UndoneWhere
  <2>3. QED BY <1>1, <2>1, <2>2, Unseen DEF InstallFile, RestoreFile, Tree
<1>2. CASE Record \/ ReturnManifest
  <2>1. PICK j \in Jobs : j = job /\ st[j] \in Touched
    BY <1>2 DEF Record, ReturnManifest, RegisterInv, ReceiptInv, Touched
  <2>2. QED BY <1>2, <2>1, Unseen DEF Record, ReturnManifest
<1>3. CASE Parity \/ Revive \/ Raise
  BY <1>3, Unread DEF Parity, Revive, Raise
<1>4. QED BY <1>1, <1>2, <1>3

\* Every step of the deployer is one of the register, or none.
LEMMA RegisterStep ==
    ASSUME "late" \notin Faults, "drift" \notin Faults, Inv, Inv', [Next]_vars
    PROVE  [Register!Next]_Register!vars
<1> USE DEF Register!Next
<1>0. pc # "free" => job \in Jobs
  BY DEF Inv, TypeInv, HolderOK
<1>1. CASE Dispatch
  BY <1>1, ApplyOpens, RollbackUndoes DEF Dispatch
<1>2. CASE Launch
  BY <1>0, <1>2, LaunchAborts DEF Launch
<1>3. CASE Backup \/ KeepPrevious
  BY <1>0, <1>3, BackupSaves, KeepPreviousKeeps DEF Backup, KeepPrevious
<1>4. CASE Begin \/ MarkApplying \/ MarkVerifying \/ CheckBackup
  BY <1>4, BeginUnseen, MarkApplyingUnseen, MarkVerifyingUnseen, CheckBackupUnseen
<1>5. CASE MarkUndoing
  BY <1>0, <1>5, MarkUndoingUndoes DEF MarkUndoing
<1>6. CASE End
  BY <1>0, <1>6, EndSettles DEF End
<1>7. ASSUME NEW f \in Files, InstallFile(f) \/ RestoreFile(f)
      PROVE  UNCHANGED Register!vars
  BY <1>7, LoopsUnseen
<1>8. CASE Parity \/ Record \/ Revive \/ ReturnManifest \/ Raise
  BY <1>8, LoopsUnseen
<1>9. ASSUME NEW o \in Ops, NEW j \in Jobs, Acquire(o, j) PROVE UNCHANGED Register!vars
  BY <1>9, Unread DEF Acquire, store, told
<1>10. CASE Crash \/ PowerLoss \/ Drift \/ UNCHANGED vars
  BY <1>10, Unread DEF Crash, PowerLoss, Drift, Strike, vars, store, told
<1>11. QED
  BY <1>1, <1>2, <1>3, <1>4, <1>5, <1>6, <1>7, <1>8, <1>9, <1>10 DEF Next, Work, Idle

\* Whoever believes the receipts sees a register: a job takes effect at once,
\* when its last receipt is written, with exactly the files of its version, less
\* those that only the version before had, or it never does; an undo puts back at
\* once what the job found.  Failures of any step, crashes and power losses, also
\* of a rollback, change nothing of it, as long as nobody else edits managed files
\* and no launch is answered late.
THEOREM DeployIsRegister ==
    ASSUME "late" \notin Faults, "drift" \notin Faults
    PROVE  Spec => ImplementsUpgrade
<1>1. Inv /\ Inv' /\ [Next]_vars => [Register!Next \/ spoiled']_(Register!vars)
  BY RegisterStep
<1>2. QED BY RegisterInvariance, RegisterInit, <1>1, PTL DEF Spec, ImplementsUpgrade
=============================================================================
