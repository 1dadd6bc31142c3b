# ClawOS: a TLA+ model of its core

ClawOS is a Linux desktop in which an agent (OpenClaw) works beside its user.
What can go wrong in it goes wrong between processes: a root broker that must
execute an approved action once, a deployer that replaces the running system
under itself, an installer that erases a disk while disks come and go, queues,
brokers and windows of the user session that meet on files. The modules here
model those parts from the code, TLC checks them on small instances, and TLAPS
proves every safety property that TLC checks, and two refinements, for every
instance.

## Inventory

| part | state it keeps | operations | who it talks to | hard behaviour |
|---|---|---|---|---|
| System broker `clawosd` (`services/clawosd/src`) | one durable record per approval token, task grants, security level (file and memory), root policy file, audit log | prepare, list, cancel, commit of nine typed actions, reconcile at start | D-Bus callers, Polkit, systemd, pacman/npm, Btrfs | Polkit dialogs longer than a token lives, crash between any two writes, reboots, commands that outlive the broker, failed writes |
| Runtime deployer `clawos-deploy` | job receipts, backups, previous manifests, installed manifest, a lock | plan/apply, worker, rollback, status, publish, deliver | systemd transient units, Btrfs, the gateway | dispatcher and worker racing on one lock, crash at any step, late launches, rollbacks out of order |
| Agent request queue (`clawos-agent-*`, `clawos_task.py`) | request, binding, receipt and draft files | submit, run, resume, discard, acknowledge | systemd user units, `openclaw agent` | timeouts after acceptance, check-then-act on files |
| Surface broker `clawos-surfaced` | singleton lock, activity/attention/app state | one typed request at a time | Sway, plugin, shell scripts | two brokers at start-up, async handlers |
| Activity lifecycle (plugin) | active runs, delegated sessions | four hooks | surface broker | hook order, lost projections |
| Center and bar (`clawos_attention.py`, `clawos_approval.py`) | reviewed items, snapshot cache, what is drawn, the question and the decision under way | collect, draw, review, ask, decide | all of the above | one lock and one cached snapshot between two processes, threads, failing sources |
| Composer (`clawos-agent-shelf`, `clawos_task.py`) | one draft per task, the text on show, what is being sent | follow the focus, edit, submit, clear | request queue, Sway | focus moves under the text, answers after the deadline |
| Role switch, security mode, enrollment | profiles, config files, services | switch, save, enroll | OpenClaw, systemd | killed between two files |
| Onboarding server | checkpoint, running flags | setup, provider setup, finish | browser UI, broker, role | restart between stage and checkpoint, a change of mind |
| Session entry and supervision | none beyond processes | two loops over the start-up status | broker, gateway, Sway | lost answers, startup order |
| Installer (`clawos-install-dev`, `clawos-live-welcome`, `clawos_install_targets.py`) | the target disk, mounts, mapping, key files; the page's selection | list, select, confirm, validate, write, clean up | udev, virtualization detector, package archive | disks replaced between check and write, signals between a command and its bookkeeping |

Not worth a state model: the image build and the CI tools, prototypes, shell
chrome that formats status, the D-Bus command line. `PROJECT.json` lists every
part with its status, and under `hazards` what in this code is hard to test,
line by line.

Correctness of each part, in one line: broker - an authorised action happens
once, and its receipt is true; deployer - the installed files are those of the
manifest, or those from before; delivery - the conversation is told each outcome
that was, and no other; queue - a request accepted is run and answered, or still
listed; composer - no text is lost or sent elsewhere; Center - what waits is
never taken for nothing; surface broker - one broker, one request at a time, and
what it shows is how the work stands; setup - each stage takes effect, in order,
for the role it names, before the workspace opens; installer - only the
confirmed blank disk is written, and what is said of it is true.

## Plan

In the order of what a failure costs.

1. `Broker`, with the abstract protocol `Receipt` it implements, `MCBroker` and
   `BrokerProofs`. Done.
2. `Deploy`, with the abstract register `Upgrade` it implements, `MCDeploy` and
   `DeployProofs`: apply and rollback. Done.
   `Delivery`, with `DeliveryProofs`: receipts published and notices told. Done.
3. `AgentQueue`: request, binding and receipt files between submit, the transient
   runner, resume and discard; `Shelf`: the composer and its drafts; with
   `RequestProofs` for both. Done.
4. `Surface`, with `SurfaceProofs`: the lock and its takeover, the promise chain,
   the activity, composed with the plugin's lifecycle; `Center`, with
   `CenterProofs`: the projection of all work. Done.
5. `Setup`: onboarding, role switch, start-up status and session entry composed;
   `Installer`: page and privileged script composed; with `SetupProofs` and
   `InstallerProofs`. Done.
6. Next: abstract specifications for the other parts that callers rely on without
   knowing how they work: `AgentQueue` as a mailbox whose letters are read once or
   stay, and `Installer` as one decision followed by one write.

Few runs with many properties each are preferred: one run checks a part under
its disturbances, with the liveness of the part where its state space allows.

## How the code maps to the modules

`PROJECT.json` (`map`) names the lines of every definition. What follows is how
to read them. Every component extends `Disturb`, which counts disturbances of the
kinds in `Faults` up to `MaxFaults`: a step that is one says `Strike(kind)`.

### Broker (`clawosd_core.py`, `clawosd_service.py`)

The service runs a GLib loop whose handlers block: one D-Bus method at a time,
also while the Polkit dialog is open or a command runs. So the process is one
program counter, `pc`, with `cur`, the token of the running `CommitAction`; a
step ends wherever the process could die with something durable done and
something else not. `pc` goes

    idle -> polkit -> commit -> stage -> act -> format/verify -> finish -> idle
                                          \-> config -> policy -> finish
                                  any of them -> undo/fail -> idle

| state | in the code |
|---|---|
| `st`, `req`, `mark` | the record of a token in `/var/lib/clawosd`: its state, what was prepared, and the fields that commit adds |
| `grants`, `diskLevel`, `sudoers` | task grants, `securityLevel` in `clawosd.json`, the root policy file |
| `now`, `boot`, `timer`, `orphans` | time, `/proc/sys/kernel/random/boot_id`, an armed power timer, the units of commands that survive a dead broker |
| `svc`, `zone`, `format`, `identity` | what reconciliation and verification read back, and the runtime account |
| `memLevel`, `snap`, `approved`, `who`, `jam`, `todo` | memory of the process: lost in `Crash` |
| `effects`, `held` | history for the properties: what commands really did, whether the goal held since the token was spent |

`Prepare`, `Cancel`, `ListPending`, `CommitRequest` are the methods;
`PolkitAnswer` to `Fail` the steps of `commit`; `Start` and `Reconcile` the
constructor; `Crash`, `PowerLoss`, `TimerFires`, `TimerLost`, `OrphanEnds`,
`Drift`, `Tick` the world. Each of the nine action types keeps its own path
through `Stage`/`Run`/`Verify` and its own rule in `Recovered`.

Where the model abstracts: the boot identity can always be read; agent policies
are configured and trusted attribution is required, as shipped; several commands
of one action (`openclaw.update`, the Btrfs shuffle) are one, and a command that
fails or times out may or may not have had its effect; a failed write leaves its
temporary file, so that later writes of that record by the same process fail
(`jam`), a restarted process uses other names; an exception while reconciling a
record counts as a failed write of it; a failed `Prepare` leaves no token that
anybody knows. `Receipt` is what a caller may rely on without knowing any
of this: issued, spent once, effect at most once, settled.

### Deploy (`clawos-deploy`)

`main` (the dispatcher, under the lock without waiting) and `worker` (a systemd
unit, under the same lock after waiting) exclude each other, so `pc` is the next
step of the lock's holder, `op` and `job` what it does, `waiting` the units
that systemd has accepted. `mem` is the state in the worker's receipt object,
which runs ahead of `st`, the one on disk: the exception handler looks at the
first, the next dispatcher at the second.

| state | in the code |
|---|---|
| `files` | the managed files under `/`, by content and mode |
| `installed` | version in `installed.json` |
| `st`, `ver`, `names` | `receipt.json`: state, version, changedFiles |
| `backed`, `before`, `previous` | `before.json` with the copies, `previous-manifest.json` |
| `last`, `base` | history: the last job to begin applying, unless another was undone since, and the files it found |

`Apply` and `Rollback` are the commands up to the queued or rolling-back
receipt; `Launch` is `systemd-run` with its three outcomes; `Begin` to `End` are
the worker, one step per durable write or file; `Raise` is an exception in any
step of the try blocks and `Caught` what the two handlers make of it. `restore`
goes through the files in no fixed order, one at a time, like the install loop.

Where the model abstracts: the backup's copies are read in one step; a receipt
whose public projection fails to be written is an exception after the write;
`Contents` stands for hash and mode together (the check of retiring files
compares hashes only); owner, symlink and hash checks that refuse are the
exceptions of their step. `Upgrade` is what is left of all this for whoever
believes the receipts: a register of files and version, in which a job commits or
does not, and can be undone. `FilesTold` and `VersionTold` read it from the disk:
while a receipt says that a job is half done, its listed files count as they are
in its backup and the version as the one it kept. Root is one Btrfs file system whose transactions keep
the order of writes: a power loss that drops the last seconds is a power loss
those seconds earlier. `stage`, `plan`, `status` and `check` change none of this
state. The history `cut` tells a holder that died from one that ended, and
`spoiled` that a managed file was edited or a launch answered late.

### Delivery (`clawos-deploy`, `deployment-delivery.js`)

One job, from its first receipt: the worker (`Apply`, `Settle`, `Rollback`,
`Publish`) writes `receipt` and then `public`; `deliver_pending` is `PassReads`,
the call, `PassRecords` (`delivery.json`, here `record`) and `PassPublishes`,
which publishes what was read first (`held`); the plugin reads the public
receipt (`PluginReads`), then appends in one transaction keyed by job and state
(`PluginAppends`). A call that the pass gave up on goes on by itself (`stray`).
The pass has a lock of its own, the worker another, so all of these interleave.
Only a rollback after the worker has ended is a second dispatch of the same job.
`overtaken` is history: a pass published the receipt it held over a newer one.

### AgentQueue (`clawos-agent-submit`, `-run`, `-request`)

| state | in the code |
|---|---|
| `file`, `bound`, `receipt` | `<id>.message`, `<id>.task.json`, `<id>.json` of the state directory |
| `unit`, `run` | the transient unit and the step of `clawos-agent-run` in it |
| `sub` | the step of each submitter, then what it answered |
| `tool`, `picked`, `cards` | a `clawos-agent-request` under way, its request, the list it was chosen from |

A request and its messages are one identifier; the text is `partial` or `whole`.
Nothing locks these files: every system call on them is a step.
`systemd-run` is asked, answers, or is given up on after 10 s with the unit
loaded all the same; `is-active` is false while a unit starts, and counts as
false when it does not answer. A unit name that is loaded is refused, which is
what keeps a second runner away.

### Shelf (`clawos-agent-shelf`, `clawos_task.py`)

GTK's main loop runs one callback at a time: each is an action, with the
subprocess (`child`) beside it. `focus` belongs to Sway, `task` and `entry` to
the composer, `sent` is frozen while something is queued. Every way to the
submission goes through `refresh_context`, modelled whole as `Follows`/`Switch`.
A draft that is there and cannot be read raises after the task has changed
(`SwitchHalf`): the composer is left on the new task with the text of the old one
and with `loading` set, so that nothing is saved until another draft is loaded.
`written` is history: what the person last wrote for a task; `unsaved`: the tasks
for which that was typed while nothing is saved, or was in no file at a restart.

### Center (`clawos_attention.py`, `clawos_approval.py`)

`collect` takes the lock (`holder`), reuses a snapshot of less than five seconds
or asks the sources in parallel (`asked`, `got`) and stores answers and failures
together (`cache`). The bar and the window call it from two processes. The
window's `stage` is its refresh: a thread collects, the main loop draws. Reviews
take effect at once; a decision makes the window insensitive and runs in a
thread; a question is a dialog under which polling goes on. `Project` is
`project()` with what it reads afresh, `Cards` the order in which cards are drawn,
up to the first that raises. `screen` is `last_snapshot`, which is set before the
drawing: a snapshot equal to it is not drawn again, so what such a card left off
the window stays off (`Cards(screen)` is what is there), and the error message goes
with the next refresh. An item on which `project()` itself raises would make every
collection fail, and is left out. `missed` is history: what a failed source would
have said.

### Surface (`clawos-surfaced`, `activity-lifecycle.js`)

Broker `b` is that of session `b`. `acquireSingleton` is `Acquire`, `WritePid`,
`ReadOwner`, `Remove`, one per file operation; a live owner whose compositor is
gone gets a SIGTERM, finishes its connections (`closing`) and releases. Requests
wait in `queue`, the promise chain lets one be handled at a time, and only
`app.open` spans several steps (`opening`, `before`). The plugin's hooks are
actions that change `runs` and `kids` and send one line; a failure that leaves
nothing running sends a second one later (`due`).

### Setup (`clawos-onboard-server`, `clawos-role`, `clawos-entry`, `_startup_status`)

`Submit`, `Start`, `Work` and `Checkpoint` are the server's stages: `Work` does
one, `Checkpoint` writes that it is done. `SwitchBegins` to `SwitchEnds` are
`clawos-role switch`, a step per file. `StatusBegins` reads the files and the
desktop, `StatusEnds` asks for the gateway and answers, and `Decide` is what the
two loops of `clawos-entry` make of the answer. `openclaw.json` is its role and
whether plugin and tools are in it, `.env` the role its token belongs to. The
token of a remote role is optional, and with none given `.env` stays as it is.
Closing setup kills its server only: the command of the stage under way goes on
(`orphans`) and takes its effect later (`Outlives`), beside or after what is
submitted then. `spoilt` is history: which properties a named exception has struck.
OpenClaw's own reading and writing of `openclaw.json` is one step.

### Installer (`clawos-live-welcome`, `clawos-install-dev`, `clawos_install_targets.py`)

A disk is a generation and a content; the identity hash covers the kernel's
diskseq, so another disk at a path has another identity. `view` is the page, `pc`
the script, and `Destroy` a write to whatever is at the path then. The cleanup
knows what `flags` say. It releases the mount, the mapping and the copy of the
passphrase in three steps, and a signal in any of them ends it (`Cut`): the traps
are the exit trap already, or were reset before the last cleanup. The script may
also be run from the console (`StartByHand`), where `--experimental-hardware`
stands in for a virtual machine (`Permitted`). Installing packages, configuring and the boot loader is
`InstallSystem`, one step that succeeds, fails or is interrupted.

## Runs

| run | what it shows | bounds | distinct states |
|---|---|---|---|
| `broker_authority` | `StartsAuthorized`: at the step that spends a token, the token is current, its issuer admitted by the level in force, the approval and policy it needs are there, although Polkit kept the call waiting while tokens, grants, levels and boots changed. `ExecutingSettles`: a receipt does not stay executing, unless the broker idles and a write of that receipt failed, or it is of a power action that was cut off. `TypeOK` | 2 tokens, 2 agents, owner and restricted runtime, 6 requests, 2 ticks, 2 boots, 1 disturbance of 4 kinds | 616,839 |
| `broker_change` | no effect twice, a complete receipt is true, a failed package change offers its recovery point, the places that name the security level agree unless a level change's receipt says it was cut off or failed (`LevelAgrees`), and every step is one of `Receipt` | 2 tokens, 9 requests of every shape, 2 disturbances of 6 kinds, 2 boots | 1,235,974 |
| `deploy_safe` | one job at a time, whatever is pending can be rolled back unless it was cut off before it kept its backup and the manifest it replaces, nothing older restored over newer, nothing unmanaged deleted | 3 jobs, 2 versions, 2 files, 2 disturbances of 5 kinds, edits included | 1,615,977 |
| `deploy_late` | a complete receipt stands over exactly its files, an undone job leaves what it found, with workers whose list of files is stale; every accepted unit gets the lock and leaves a receipt (`AcceptedSettles`); until a launch is answered late every step is one of `Upgrade` (`ImplementsUpgrade`) | 2 jobs, 2 versions, 3 files, 3 disturbances of 5 kinds, late launches included | 127,155 |
| `deploy_wedge` | a disagreement, see Findings | 2 jobs, 1 crash | |
| `delivery` | what is recorded or shown as delivered has been told (`DeliveredIsTold`), the public receipt catches up, deliveries settle | 1 job, 3 disturbances of 5 kinds | 61,614 |
| `queue` | a message has its binding, nothing queued is lost unrun, a completed outcome stays, whatever was accepted is answered or listed | 1 request, any number of resumes and discards, 4 disturbances of 6 kinds | 59,467 |
| `shelf` | no text lost or sent elsewhere, no draft cleared that was not queued | 2 tasks, 3 texts, 3 disturbances of 6 kinds | 558,768 |
| `center` | quiet is honest, one decision at a time, an open window catches up: its counts, and its cards down to the first that cannot be drawn | 3 items of three sources, one of them malformed, 1 disturbance | 712,935 |
| `surface` | one broker, marks on own windows, what is shown is true, the last session served | 2 sessions, 2 applications, 1 run, 1 delegation, queues of 2, 2 disturbances of 6 kinds | 466,876 |
| `setup` | no checked stage is skipped or undone, the remote role keeps its token, no workspace without setup, each with its named exceptions; the session arrives | 2 roles, 2 access levels, 2 disturbances of 11 kinds | 521,261 |
| `installer` | only the confirmed blank disk is written, "not changed" is true, nothing held afterwards unless a release failed or a signal cut the cleanup off | 2 disks, page and console, 2 disturbances of 7 kinds | 3,362,698 |

Why the bounds are enough. Records of different tokens share only levels,
grants, the machine and the process: a token, one that interferes, and two
disturbances cover "the recovery from a fault is itself interrupted", which is
the deepest chain the code distinguishes (a third is the second again with other
records). Two time units put expiry before, during and after every step, two
boots a token on either side of one. For the deployer a third job is the one
that finds two others, in particular a manifest installed by a job that ran
after its own dispatch; of the files, one changes between the versions, one is
added and retired, one is shared by the versions and not in the image. Jobs of
`Delivery` and requests of `AgentQueue` share no file: one is enough, and the
disturbances are what makes several processes meet on it. The composer shows one
task at a time, so two tasks are the one on show and the other. Two disks are
the confirmed one and any other. Two sessions are a takeover; a third finds the
second as the second found the first. Of the items of `Center` one is a task,
which runs and fails and can be stopped and reviewed; one a system action, which is
decided; and one an approval that is malformed, so that drawing it raises, and comes
between the two. Of the access levels of `Setup` one is the image's, and each
may be chosen after the other. What is proved holds beyond all bounds. Symmetry permutes tokens or jobs and is
off where liveness is checked.

Fairness. Every `FairSpec` obliges the programs and nobody else: no caller,
administrator, person at the machine or fault has to act, except that setup
needs somebody to submit it, close it when it offers to and unlock the screen.

- Broker: weak fairness of its own steps, since every blocking call returns or
  times out; of start and reconciliation, since D-Bus activation starts the unit
  for the next caller; of an armed timer; and of the clock.
- Deploy: weak fairness of the holder, all of whose commands have timeouts;
  strong fairness of a waiting unit, since `flock` wakes a blocked waiter at
  each release, while a dispatcher that does not wait may be quicker any finite
  number of times. After a crash or a failing last receipt nothing obliges
  anybody to run the rollback (`cut` excuses these), and
  `InterruptedIsRecoverable` says when it would be accepted.
- Delivery: the timer starts a pass every 15 s; the pass and the plugin's call
  have timeouts. AgentQueue: processes run, and the bar collects the list again
  and again.
- Center: commands have timeouts, the snapshot grows old, and the poll timer and
  the lock come round again and again (strong fairness: a poll that finds the
  window insensitive comes back after five seconds; `flock` has no starvation
  against one other process that releases it).
- Surface: each broker runs, and a launched application shows its window.
- Setup: the scripts run, the gateway of the configured role comes up when it can.

The runs of `Shelf` and `Installer` check safety only and assume no fairness.

## Proofs

All for every value of the constants, under the named assumption of the module
(`BrokerAssumption`, `DeployAssumption`, and so on: types of the constants, that
the "none" values are not members, that the items of the Center and the disks of
a machine are finitely many, that an application of the surface is not a request
of another kind).

`BrokerProofs`: the inductive invariant is `TypeInv`, `SpentInv`, `RollbackInv`,
`HeldInv`, `PowerInv`, `LevelInv`, in that order. None of the checked invariants
is inductive alone: that a command runs at most once needs that between `stage`
and `act` the effect count is still 0 and that no surviving unit has the token
(`NotYet`); that a failed receipt offers its recovery point needs that `snap` in
memory and `mark` on disk are set before the command and not lost by the failing
tail (`PointKept`); that a complete receipt is true needs that a goal reached is
noticed while the token is interrupted (`GoalNoticed`). `LevelInv` follows a level
change through its writes: which of configuration, policy and memory have the new
level at each step, which the failing tail puts back, and what a broker that
starts loads. A scheduled reboot can come in the middle of any change without a
fault, so the places that name the level agree not "without faults" but unless
the receipt of a level change says that it was cut off or failed. The theorems:
`TypeCorrect`, `NoEffectUnspent`, `AtMostOnce`, `RollbackAlwaysOffered`,
`CompleteIsHonest`, `PowerNeedsReboot`, `SpendingIsAuthorized`, `ReceiptStays`,
`LevelsAgree`, and `BrokerImplementsReceipt`, the refinement.

`DeployProofs`: `TypeInv` adds to the types that the holder's job was dispatched
and has a version. `LockInv` ties lock, units and receipts together: at most one
job is pending, whoever waits or works is pending, an apply waits before and a
rollback after the backup of its job, so that no two units wait for one job.
`RecoverInv`: whatever touched files has its backup and an acceptable installed
version; a job that did not is one that `Unprepared` names, or has them too. `RetireInv`: the dispatcher's list stays true of the installed
manifest. `DoneInv`: between the comparison and the last receipt the files are
those of the payload. Theorems: `TypeCorrect`; `SingleJob`, `Recoverable`,
`NotOverNewer` and `RetiresOnlyManaged` assuming `"late" \notin Faults`
(a late unit may run beside the next deployment, see Findings);
`CompleteIsInstalled` assuming `"drift" \notin Faults`, late launches allowed.

`UndoInv` says where a worker can be with what it may still undo (`UndoneWhere`)
and that only files on the list of the last job differ from those it found, which
its backup has, less those already restored (`UndoneFiles`). It gives
`UndoneIsUntouched` assuming `"drift" \notin Faults`, again with late launches: a
late unit becomes the last job and ends the claim of the one before.

`DeployIsRegister` is the refinement, assuming neither edits nor late launches.
`RegisterInv` adds what the mapping needs: the receipt at each step of the holder
(`ReceiptInv`), that a list covers what the version before has and the new one
has not (`ListInv`), that what was kept is what was installed (`PriorInv`), and
what the two loops have written so far (`WroteInv`). A job commits when its last
receipt is written, and `EndSettles` shows that the files are then the payload,
less what only the version before had; an undo happens when the receipt first
says rolling-back, and nothing that fails after it, crashes included, is visible.

`RequestProofs` is about both ends of a request. For the queue, `QueueInv` says of
each request how far its submitter, its runner and a command on it have come when
its message is there or is not: before it is created nobody knows of it, and once
it was, a missing message means that its turn completed, that it was discarded,
or that its submitter gave up. The last is what `NothingLost` needs, and the
history `done` and `dropped` is what it rests on. Also `TypeCorrect`,
`BindingKept`, `HandedWhole` (OpenClaw never reads half a message whose submitter
went on) and `CompletedStays`, an action property. For the composer, what keeps
text apart is that nothing moves while a request is sent: `Frozen` says that it
shows the task and the text that the subprocess has, and that the draft on disk
is that text. With `TextKept` it is inductive. `ShelfTypeCorrect`, `TextStays`,
`WrittenIsSent`, `ClearedWhenQueued`.

`SurfaceProofs`: `LockInv` says who may be where while nobody raced: one broker
takes the lock at a time, the pid file names whoever got past it and is removed
only when nobody owns it. `QueueInv`: only a broker that serves, or ends and still
answers, has requests. `OpenInv`: one application is opened at a time, and the
windows that appeared since its launch are its own. `DiskInv`: what is saved is
what the owner of the lock shows. `ShownInv` carries the truth of the activity
over to the next session: what will be shown once all that is queued has been
answered (`Told`) does not contradict the plugin's maps, and without a broker what
the next one will load does not. The theorems: `TypeCorrect`, `BrokerAlone`,
`MarksOwn`, `ShownTruly`.

`DeliveryProofs`: `ReadIsReached` traces every copy of an outcome (the public
receipt, the one the pass holds, the key the plugin read, calls given up on)
back to a state the private receipt held; `SettlesInOrder`, `PublicInOrder` and
`CallInOrder` say that the copies follow the order of those states, as long as no
pass publishes over a newer one. `TypeCorrect`, `OnlyOutcomesTold`, and
`DeliveredTold`.

`CenterProofs`: `NothingHidden` follows a failure from the query through the
cache to both screens, and `InputOff` ties the question, the decision under way
and the window's sensitivity together. `TypeCorrect`, `QuietHonest`,
`DecisionsAlone`.

`InstallerProofs`: a disk's generation is its own for good (`DisksApart`), the
script runs behind the progress page in a virtual machine, or from the console
with the flag (`ScriptRuns`), nothing is written before the marker
(`MarkedFirst`), each check holds at the write that it guards unless the disk
changed since (`ChecksHold`), and the cleanup knows what is held unless a signal
hid it or ended it (`HeldIsKnown`). `TypeCorrect`, `ErasedInVM`,
`UnchangedIsTrue`, `AllReleased`, and `ConfirmedErased`, an action property.

`SetupProofs`: `SetupType` bounds the stages; `StageInv` says of every stage
what holds while it is worked on and once it is checked, `SwitchInv` the same of
the files of a role switch, `TokenInv` that the token of the remote role is there
before the role is (each as far as none of its named exceptions has struck,
`spoilt`), `Growing` that a command that outlives its server takes away nothing
that was saved, and `GateInv` that whatever reads as complete was completed.
`TypeCorrect`, `GateIsHeld`, `RemoteHasToken`, `StagesDone`.

Only model-checked is liveness (`ExecutingSettles`, `AcceptedSettles`,
`AcceptedResolves`, `PublicCatchesUp`, `DeliverySettles`, `CatchesUp`,
`SessionArrives`, `SessionServed`): fairness and ENABLED are beyond the prover.

Induction over data is beyond the prover too. Nothing here needs it: the model
has no recursive definition, and the seven stages of `Setup` are a finite case
split.

## Findings

One is a run that violates a sentence of the repository, which `PROJECT.json` quotes:

- `deploy_wedge`: a worker killed between `before.json` and
  `previous-manifest.json` leaves a job that is pending for ever: no rollback
  accepts it and no other command passes it.

Seen while modelling, in the models where they can be reached, and not given a
run of their own:

- `clawosd_core.py:491`: a crash between the executing write and the one that
  adds `bootIdBefore` makes the next start, in the same boot, report a reboot
  complete. `PowerCompleteAfterMark`, which is proved, speaks of receipts that
  have it.
- `clawosd_core.py:1114`: when the root policy write of a level change fails, the
  configuration file already names the new level and is not restored.
- `clawosd_core.py:494`: the grace window of a scheduled power action is only
  looked at when a broker starts.
- `clawosd_core.py:518`: an audit log that cannot be appended to lets an
  exception escape reconciliation and the constructor.
- `clawos-deploy:600`: a launch answered after 30 s leaves a unit whose receipt
  says failed; the next deployment is dispatched beside it.
- `clawos-deploy:428`: a rollback compares no file with the manifest it restores.
- `clawos-deploy:561`: a retiring file edited after the dispatcher compared it is
  deleted by the worker (449).
- `clawos-deploy:440`, `:441`: of the jobs that are pending with no worker, those
  that died before these two writes cannot be rolled back and keep every other job
  out (`Unprepared`); nothing of them is installed yet.
- `clawos-deploy:367`: a delivery pass publishes the receipt it read before its
  call, also over that of a rollback which settled meanwhile. The next pass reads
  the later outcome, the plugin the stale public one, which it has told already and
  acknowledges: the later outcome is recorded as delivered and never told
  (`overtaken` excuses it in `DeliveredIsTold`). After a crash the public receipt
  may stay the older one for good (`PublicCatchesUp`).
- `clawos-agent-submit:69`: after a late answer of systemd the request is deleted
  under a runner that was accepted, and reported as not queued.
- `clawos-agent-shelf:176`: a draft that is there and cannot be read (any error but
  that of a missing file, `clawos_task.py:61`) leaves the composer on its task with
  the text of the task before, and Enter sends that text to it; nothing is saved,
  and the timer has stopped (`loading`, `unsaved`).
- `clawos_approval.py:415`: a window that a malformed item left half drawn is not
  drawn again while the snapshot stays the same, and its error message goes with
  the next refresh. The counts above still include what is missing.
- `clawosd_core.py:494` and a failing write of a failed receipt are the two ways in
  which an idle broker leaves a receipt executing (`LeftExecuting`), until it is
  started again.
- `clawos-agent-shelf:246`: a draft that cannot be cleared leaves the composer frozen
  until it is restarted.
- `clawos-surfaced:77`, `:72`, `:254`: two brokers started at once, the socket file
  of a crashed compositor, and a window taken because it got the focus (`raced`,
  `stale`, `focus` excuse them).
- `clawos-entry:37`: a status that is lost, or met a locked screen or a desktop
  whose state is unknown, before setup is complete, lets the session past the setup
  gate (`blurred`).
- `clawos-role:77`: a switch beside onboarding, or cut off between two files,
  leaves a mixed role (`spoilt`).
- `clawos-onboard-ui:10`: closing setup kills its server, not the command of the
  stage under way. That goes on beside the next submission, and puts its role, or
  its level, under the checkpoint of another choice (`spoilt`). Without another
  choice it only does early what is done again.
- `clawos-onboard-server:321`: the remote role may be submitted without a token; the
  one of the local role then stays in `.env` and goes into the profile of the remote
  role (`spoilt`). For the same role and access, another URL or token submitted
  after the base stage changes `.env` only.
- `clawos-install-dev:188`, `:195`: a signal between a command and the assignment
  after it leaves the target mounted or mapped (`leak`).
- `clawos-install-dev:137`, `:449`: a second signal ends the cleanup, and a first one
  does after the traps are reset; the copy of the passphrase, which is removed last
  (132), stays with the mount and the mapping (`cut`).
- `clawos-install-dev:23`: `--experimental-hardware` writes disks of machines that
  are not virtual, as `docs/HARDWARE.md:5` and `docs/SCOPE.md:19` say.
  `ErasesOnlyInVM` excepts a run from the console that has it; the page never gives it.

One more, not among the hazards listed: the worker and a delivery pass write the
same temporary name of a public receipt (`clawos-deploy:71`), which `Delivery`
takes for one step.

An excuse is a history variable or a disturbance named in the property; all
other behaviours, with the other disturbances, are checked without it. Where a
hazard in `PROJECT.json` is itself what a property excuses, its note says so: the
property then shows that nothing else breaks it, and not that the hazard is absent.
`OnlyManagedRetired` is the weakest in this sense: that a retiring file was edited
after the check does not keep it from being deleted.

## Not modelled

- `clawos-onboard`, the terminal setup that `clawos-entry` falls back to when the
  browser cannot start: the same stages without the checkpointed server. Two
  commands of OpenClaw that read and write `openclaw.json` at one time.
- Provider setup of the onboarding server: an interactive child process that
  changes nothing of the stages. The gateway watchdog and the lock screen: one
  loop and one process without state that another part reads.
- `surface.present`, `surface.focus`, `surface.hide`, `surface.close` and the
  binding of windows to tasks: single requests of the same promise chain whose
  result nothing else of the model reads.
- `clawosctl`, the plugin's tools, launchers and status texts: adapters without
  state. Their calls are the callers' actions.
- The Btrfs subvolume shuffle, package installation and system configuration:
  sequences of commands that succeed or fail as one here.
- The image build, CI tools and prototypes are not part of the running system.
