------------------------------- MODULE Broker -------------------------------
(***************************************************************************)
(* The privileged action broker clawosd: the single-threaded D-Bus service *)
(* that keeps one durable record per approval token, asks Polkit, executes *)
(* the typed action and leaves a receipt, with the crashes, reboots,       *)
(* failed writes and restarts that can fall between any two of its steps.  *)
(*                                                                         *)
(* One request is served at a time (GLib loop with blocking calls), so the *)
(* process is a program counter `pc' and the token `cur' of the running    *)
(* CommitAction.  Durable state survives Crash and Reboot, `proc' does not.*)
(***************************************************************************)
EXTENDS Integers, FiniteSets, Disturb

CONSTANTS
    Tokens,       \* approval tokens; token_factory never repeats one
    NoToken,      \* no CommitAction is running
    Agents,       \* (agentId, runId) pairs a request may carry
    NoAgent,      \* a request without agent metadata
    Callers,      \* [uid, attested, agent]: who prepares, as the OS sees it
    Requests,     \* the typed actions [kind, arg] callers ask for
    Policy,       \* agentPolicies.agents: agent -> kinds always allowed
    Grantable,    \* taskGrants.grantableActions
    InitLevel,    \* securityLevel of the installed configuration
    ApprovalTTL,  \* approvalExpiresSeconds, clamped
    GrantTTL,     \* expiresSeconds of a task grant
    Grace,        \* the 60 s in which a scheduled power action may still fire
    MaxTime, MaxBoot   \* bounds of the exploration

Levels == {"full-root", "full-user-approvals", "user-limited"}
Accounts == {"owner", "agent", "other"}
Runtime(level) == IF level = "user-limited" THEN "agent" ELSE "owner"
Snapshotted == {"package.install", "openclaw.update"}
HighImpact == {"recovery.rollback", "power.schedule", "role.switch",
               "security.level.configure"}

\* ACTION_TYPES with the parameters that change what the broker does.
Action ==
    [kind : Snapshotted \cup {"recovery.rollback", "role.switch",
                              "system.time.configure"}, arg : {"none"}]
      \cup [kind : {"service.manage"}, arg : {"start", "stop", "restart"}]
      \cup [kind : {"security.level.configure"}, arg : Levels]
      \cup [kind : {"task.grant.create"}, arg : Agents]
      \cup [kind : {"power.schedule"}, arg : {"reboot", "poweroff"}]

Kinds == Snapshotted \cup HighImpact
           \cup {"system.time.configure", "service.manage", "task.grant.create"}

\* Actions whose command runs in a systemd unit of its own and so outlives
\* a dead broker.
InOwnUnit == {"openclaw.update", "role.switch"}

\* Actions whose record is written again before their command runs.
Staged == Snapshotted \cup {"system.time.configure", "service.manage",
                            "security.level.configure", "power.schedule"}

Disturbances == {"crash", "reboot", "write", "audit", "drift", "lost"}

ASSUME BrokerAssumption ==
    /\ NoToken \notin Tokens
    /\ NoAgent \notin Agents
    /\ Callers \subseteq [uid : Accounts, attested : BOOLEAN,
                          agent : Agents \cup {NoAgent}]
    /\ Requests \subseteq Action
    /\ Policy \in [Agents -> SUBSET Kinds]
    /\ Grantable \subseteq Kinds
    /\ InitLevel \in Levels
    /\ ApprovalTTL \in Nat \ {0} /\ GrantTTL \in Nat \ {0} /\ Grace \in Nat
    /\ Faults \subseteq Disturbances
    /\ MaxFaults \in Nat /\ MaxTime \in Nat /\ MaxBoot \in Nat

VARIABLES
    \* durable: /var/lib/clawosd, /etc/clawos, /etc/sudoers.d
    st,         \* state of the record of each token
    req,        \* what was prepared: immutable once written
    mark,       \* fields commit adds: snapshotId, rollbackAvailable,
                \*   bootIdBefore (0: absent), scheduledAt
    grants,     \* task grants on disk
    diskLevel,  \* securityLevel in clawosd.json
    sudoers,    \* the passwordless-root policy file exists
    \* the machine
    now, boot, svc, zone, format, identity, timer, orphans,
    \* the broker process
    pc, cur, who, approved, snap, memLevel, jam, todo,
    \* what really happened, for the properties
    effects,    \* how often the command of a token took effect
    held        \* tokens whose goal held at some instant since they were spent

durable == <<st, req, mark, grants, diskLevel, sudoers>>
machine == <<now, boot, svc, zone, format, identity, timer, orphans, faults>>
proc    == <<pc, cur, who, approved, snap, memLevel, jam, todo>>
vars    == <<durable, machine, proc, effects, held>>

RecordStates == {"absent", "pending", "executing", "scheduled", "complete",
                 "failed", "cancelled", "expired"}
Interrupted == {"executing", "scheduled"}
Spent == {"executing", "scheduled", "complete", "failed"}
Settled == {"complete", "failed", "cancelled", "expired"}

Request == [act : Action, uid : Accounts, attested : BOOLEAN,
            agent : Agents \cup {NoAgent}, boot : Nat, expires : Nat]
NoMark == [snapshot |-> FALSE, rollback |-> FALSE, bootBefore |-> 0, at |-> 0]
Mark == [snapshot : BOOLEAN, rollback : BOOLEAN, bootBefore : Nat, at : Nat]
Grant == [agent : Agents, expires : Nat, boot : Nat]

PCs == {"down", "reconcile", "idle", "polkit", "commit", "stage", "act",
        "format", "verify", "config", "policy", "undo", "finish", "fail"}

kind(t) == req[t].act.kind
arg(t) == req[t].act.arg
Powers(t) == kind(t) = "power.schedule"

-----------------------------------------------------------------------------
(* Guards of the code.                                                      *)

RequiresApproval(k) == memLevel # "full-root" \/ k \in HighImpact

AuthorizePeer(c) ==
    \/ c.uid = "owner"
    \/ c.uid = "agent" /\ c.attested /\ memLevel = "user-limited"

GrantIsCurrent(g) == g.expires > now /\ g.boot = boot

ActiveGrants(agent, k) ==
    {g \in grants : GrantIsCurrent(g) /\ g.agent = agent /\ k \in Grantable}

\* _enforce_agent_policy with agentPolicies configured and trusted
\* attribution required, as shipped.
AgentMay(r, k) ==
    \/ r.agent = NoAgent /\ ~r.attested
    \/ /\ r.agent # NoAgent
       /\ r.attested
       /\ k \in Policy[r.agent] \/ ActiveGrants(r.agent, k) # {}

Issuers == {"owner"} \cup IF memLevel = "user-limited" THEN {"agent"} ELSE {}

RecordAccess(t, uid) ==
    /\ req[t].uid \in Issuers
    /\ uid = "owner" \/ uid = req[t].uid

Usable(t) == st[t] = "pending" /\ req[t].boot = boot /\ req[t].expires > now

PendingForPeer(t, uid) ==
    Usable(t) /\ RecordAccess(t, uid) /\ AgentMay(req[t], kind(t))

\* The requested final state, as reconciliation and verification read it.
Observed(t) ==
    CASE kind(t) = "service.manage" ->
             svc = IF arg(t) = "stop" THEN "inactive" ELSE "active"
      [] kind(t) = "system.time.configure" -> zone = "new" /\ format = "new"
      [] OTHER -> TRUE

\* What a complete receipt claims.
Goal(t) ==
    CASE kind(t) = "service.manage" /\ arg(t) # "restart" -> Observed(t)
      [] kind(t) = "system.time.configure" -> Observed(t)
      [] kind(t) = "power.schedule" -> boot > req[t].boot
      [] OTHER -> effects[t] > 0

\* The observer: the last conjunct of every step.
Observe == held' = held \cup {t \in Tokens : st'[t] \in Interrupted /\ Goal(t)'}

-----------------------------------------------------------------------------
(* Writes.  _write_json replaces the file atomically.  When it fails its    *)
(* temporary file, opened "x", stays behind and every later write of that   *)
(* record by the same process fails too: the token is jammed.               *)

WriteOK(t) == t \notin jam /\ NoStrike /\ UNCHANGED jam
WriteFails(t) ==
    \/ t \in jam /\ NoStrike /\ UNCHANGED jam
    \/ t \notin jam /\ Strike("write") /\ jam' = jam \cup {t}

Put(t, s) == st' = [st EXCEPT ![t] = s]

\* The rest of the machine, for the steps of the broker that only touch files.
quiet == <<now, boot, svc, zone, format, identity, timer, orphans>>

Return ==
    /\ pc' = "idle" /\ cur' = NoToken /\ who' = "other"
    /\ approved' = FALSE /\ snap' = FALSE
Goto(l) == pc' = l /\ UNCHANGED <<cur, who, approved>>

-----------------------------------------------------------------------------
(* PrepareAction, CancelAction and the calls that list pending records.     *)

Prepare(t, c, a) ==
    /\ pc = "idle" /\ st[t] = "absent"
    /\ AuthorizePeer(c) /\ AgentMay(c, a.kind)
    /\ WriteOK(t)
    /\ Put(t, "pending")
    /\ req' = [req EXCEPT ![t] =
                 [act |-> a, uid |-> c.uid, attested |-> c.attested,
                  agent |-> c.agent, boot |-> boot,
                  expires |-> now + ApprovalTTL]]
    /\ UNCHANGED <<mark, grants, diskLevel, sudoers, quiet, effects>>
    /\ UNCHANGED <<pc, cur, who, approved, snap, memLevel, todo>>
    /\ Observe

\* Mutant of Cancel: the record state is misspelt.
CancelMisspelt(t, c) ==
    /\ pc = "idle" /\ AuthorizePeer(c)
    /\ Usable(t) /\ RecordAccess(t, c.uid)
    /\ WriteOK(t) /\ Put(t, "canceled")
    /\ UNCHANGED <<req, mark, grants, diskLevel, sudoers, quiet, effects>>
    /\ UNCHANGED <<pc, cur, who, approved, snap, memLevel, todo>>
    /\ Observe

Cancel(t, c) ==
    /\ pc = "idle" /\ AuthorizePeer(c)
    /\ Usable(t) /\ RecordAccess(t, c.uid)
    /\ \/ WriteOK(t) /\ Put(t, "cancelled")
       \/ WriteFails(t) /\ UNCHANGED st
    /\ UNCHANGED <<req, mark, grants, diskLevel, sudoers, quiet, effects>>
    /\ UNCHANGED <<pc, cur, who, approved, snap, memLevel, todo>>
    /\ Observe

\* Mutant of Stale: records in any state expire.
StaleAnyState(t) == st[t] # "absent" /\ (req[t].expires <= now \/ req[t].boot # boot)

Stale(t) == st[t] = "pending" /\ (req[t].expires <= now \/ req[t].boot # boot)

\* list_pending, reached from ListPending, GetStatus and Inspect: every stale
\* record whose write succeeds becomes expired, the others are skipped.
ListPending ==
    LET stale == {t \in Tokens : Stale(t) /\ t \notin jam} IN
    /\ pc = "idle" /\ stale # {}
    /\ \E bad \in {{}} \cup {{t} : t \in stale} :
         /\ IF bad = {} THEN NoStrike ELSE Strike("write")
         /\ jam' = jam \cup bad
         /\ st' = [t \in Tokens |-> IF t \in stale \ bad THEN "expired" ELSE st[t]]
    /\ UNCHANGED <<req, mark, grants, diskLevel, sudoers, quiet, effects>>
    /\ UNCHANGED <<pc, cur, who, approved, snap, memLevel, todo>>
    /\ Observe

-----------------------------------------------------------------------------
(* CommitAction: check, ask Polkit (up to 180 s), check again, spend.       *)

CommitRequest(t, c) ==
    /\ pc = "idle" /\ AuthorizePeer(c) /\ PendingForPeer(t, c.uid)
    /\ pc' = IF RequiresApproval(kind(t)) THEN "polkit" ELSE "commit"
    /\ approved' = ~RequiresApproval(kind(t))
    /\ cur' = t /\ who' = c.uid
    /\ UNCHANGED <<durable, machine, snap, memLevel, jam, todo, effects>>
    /\ Observe

PolkitAnswer ==
    /\ pc = "polkit"
    /\ \/ \E yes \in BOOLEAN : pc' = "commit" /\ approved' = yes
                               /\ UNCHANGED <<cur, who, snap>>
       \/ Return        \* CheckAuthorization raised or timed out
    /\ UNCHANGED <<durable, machine, memLevel, jam, todo, effects>>
    /\ Observe

\* Mutant of MayStart: commit trusts the check made before the Polkit dialog.
MayStartUnchecked(t) == RequiresApproval(kind(t)) => approved

MayStart(t) ==
    /\ PendingForPeer(t, who)
    /\ RequiresApproval(kind(t)) => approved

\* The second check refuses; a runtime caller may also have left its unit.
CommitReject ==
    /\ pc = "commit"
    /\ ~MayStart(cur) \/ who = "agent"
    /\ Return
    /\ UNCHANGED <<durable, machine, memLevel, jam, todo, effects>>
    /\ Observe

CommitStart ==
    /\ pc = "commit" /\ MayStart(cur)
    /\ \/ /\ WriteOK(cur) /\ Put(cur, "executing")
          /\ Goto(IF kind(cur) \in Staged THEN "stage" ELSE "act")
          /\ UNCHANGED snap
       \/ WriteFails(cur) /\ Return /\ UNCHANGED st
    /\ UNCHANGED <<req, mark, grants, diskLevel, sudoers, quiet, memLevel, todo,
                   effects>>
    /\ Observe

StageMark(t) ==
    [mark[t] EXCEPT !.snapshot = kind(t) \in Snapshotted,
                    !.bootBefore = IF Powers(t) THEN boot ELSE @,
                    !.at = IF Powers(t) THEN now ELSE @]

\* Mutant of Stage: the recovery point is kept in memory only.
StageUnrecorded ==
    /\ pc = "stage" /\ Goto("act")
    /\ snap' = (kind(cur) \in Snapshotted)
    /\ UNCHANGED <<durable, machine, memLevel, jam, todo, effects>>
    /\ Observe

\* The record is written once more before the command: snapshot, previous
\* state, or the boot the power action starts from.
Stage ==
    /\ pc = "stage"
    /\ \/ /\ WriteOK(cur) /\ Goto("act")
          /\ snap' = (kind(cur) \in Snapshotted)
          /\ mark' = [mark EXCEPT ![cur] = StageMark(cur)]
       \/ /\ WriteFails(cur) /\ Goto("fail")
          /\ snap' = (kind(cur) \in Snapshotted) /\ UNCHANGED mark
       \/ \* no recovery point, or the previous state cannot be read
          /\ kind(cur) \in Snapshotted \cup {"system.time.configure", "service.manage"}
          /\ Goto("fail") /\ NoStrike /\ UNCHANGED <<mark, snap, jam>>
    /\ UNCHANGED <<st, req, grants, diskLevel, sudoers, quiet, memLevel, todo,
                   effects>>
    /\ Observe

-----------------------------------------------------------------------------
(* The command.  CommandRunner raises on a non-zero exit and on a timeout,  *)
(* after which the command may or may not have had its effect.              *)

Took(t) == effects' = [effects EXCEPT ![t] = @ + 1]

\* The effect of one command on the machine and on disk.
Effect(t) ==
    /\ Took(t)
    /\ IF kind(t) = "service.manage"
       THEN svc' \in IF arg(t) = "stop" THEN {"inactive", "failed"}
                                        ELSE {"active", "failed"}
       ELSE UNCHANGED svc
    /\ zone' = IF kind(t) = "system.time.configure" THEN "new" ELSE zone
    /\ timer' = (timer \/ kind(t) = "power.schedule")
    /\ grants' = IF kind(t) = "task.grant.create"
                 THEN grants \cup {[agent |-> arg(t), expires |-> now + GrantTTL,
                                    boot |-> boot]}
                 ELSE grants
    /\ UNCHANGED <<now, boot, format, orphans>>

NoEffect == UNCHANGED <<effects, grants, quiet>>

Run ==
    /\ pc = "act" /\ kind(cur) # "security.level.configure"
    /\ \/ /\ Effect(cur) /\ UNCHANGED identity
          /\ Goto(CASE kind(cur) = "system.time.configure" -> "format"
                    [] kind(cur) = "service.manage" -> "verify"
                    [] OTHER -> "finish")
       \/ /\ Goto("fail")
          /\ \/ Effect(cur) /\ UNCHANGED identity
             \/ NoEffect
    /\ UNCHANGED <<st, req, mark, diskLevel, sudoers, faults, snap, memLevel, jam,
                   todo>>
    /\ Observe

\* The second half of system.time.configure: the shell's clock preference.
WriteFormat ==
    /\ pc = "format"
    /\ \/ format' = "new" /\ Goto("verify") /\ NoStrike
       \/ UNCHANGED format /\ Goto("fail") /\ Strike("write")
    /\ UNCHANGED <<durable, now, boot, svc, zone, identity, timer, orphans, snap,
                   memLevel, jam, todo, effects>>
    /\ Observe

\* Reading the final state back may itself fail.
Verify ==
    /\ pc = "verify"
    /\ \/ Observed(cur) /\ Goto("finish")
       \/ Goto("fail")
    /\ UNCHANGED <<durable, machine, snap, memLevel, jam, todo, effects>>
    /\ Observe

-----------------------------------------------------------------------------
(* security.level.configure: activate the runtime identity, write the       *)
(* configuration, install or remove the root policy, then switch in memory. *)
(* Any exception runs clawos-security-mode once more for the old level.     *)

SameLevel ==
    /\ pc = "act" /\ kind(cur) = "security.level.configure"
    /\ arg(cur) = memLevel
    /\ Took(cur) /\ Goto("finish")
    /\ UNCHANGED <<durable, machine, snap, memLevel, jam, todo>>
    /\ Observe

Activate ==
    /\ pc = "act" /\ kind(cur) = "security.level.configure"
    /\ arg(cur) # memLevel
    /\ \/ identity' = Runtime(arg(cur)) /\ Goto("config")
       \/ identity' \in {identity, Runtime(arg(cur))} /\ Goto("undo")
    /\ UNCHANGED <<durable, now, boot, svc, zone, format, timer, orphans, faults,
                   snap, memLevel, jam, todo, effects>>
    /\ Observe

WriteConfig ==
    /\ pc = "config"
    /\ \/ diskLevel' = arg(cur) /\ Goto("policy") /\ NoStrike
       \/ UNCHANGED diskLevel /\ Goto("undo") /\ Strike("write")
    /\ UNCHANGED <<st, req, mark, grants, sudoers, quiet, snap, memLevel, jam, todo,
                   effects>>
    /\ Observe

\* Mutant of WritePolicy: the level in memory is not replaced.
WritePolicyForgetsMemory ==
    /\ pc = "policy"
    /\ sudoers' = (arg(cur) = "full-root")
    /\ Took(cur) /\ Goto("finish") /\ NoStrike
    /\ UNCHANGED <<st, req, mark, grants, diskLevel, quiet, snap, memLevel, jam, todo>>
    /\ Observe

WritePolicy ==
    /\ pc = "policy"
    /\ \/ /\ sudoers' = (arg(cur) = "full-root") /\ memLevel' = arg(cur)
          /\ Took(cur) /\ Goto("finish") /\ NoStrike
       \/ /\ UNCHANGED <<sudoers, memLevel, effects>>
          /\ Goto("undo") /\ Strike("write")
    /\ UNCHANGED <<st, req, mark, grants, diskLevel, quiet, snap, jam, todo>>
    /\ Observe

\* Best effort: its own failure is swallowed.
Undo ==
    /\ pc = "undo"
    /\ identity' \in {identity, Runtime(memLevel)}
    /\ Goto("fail")
    /\ UNCHANGED <<durable, now, boot, svc, zone, format, timer, orphans, faults,
                   snap, memLevel, jam, todo, effects>>
    /\ Observe

-----------------------------------------------------------------------------
(* The receipt.                                                             *)

Outcome(t) == IF kind(t) = "power.schedule" THEN "scheduled" ELSE "complete"

\* A failing audit append raises after the receipt is on disk, inside the try.
Finish ==
    /\ pc = "finish"
    /\ \/ WriteOK(cur) /\ Put(cur, Outcome(cur)) /\ Return
       \/ /\ cur \notin jam /\ Strike("audit") /\ UNCHANGED jam
          /\ Put(cur, Outcome(cur)) /\ Goto("fail") /\ UNCHANGED snap
       \/ WriteFails(cur) /\ Goto("fail") /\ UNCHANGED <<st, snap>>
    /\ UNCHANGED <<req, mark, grants, diskLevel, sudoers, quiet, memLevel, todo,
                   effects>>
    /\ Observe

Fail ==
    /\ pc = "fail"
    /\ \/ /\ WriteOK(cur) /\ Put(cur, "failed")
          /\ mark' = [mark EXCEPT ![cur].snapshot = snap, ![cur].rollback = snap]
       \/ WriteFails(cur) /\ UNCHANGED <<st, mark>>
    /\ Return
    /\ UNCHANGED <<req, grants, diskLevel, sudoers, quiet, memLevel, todo, effects>>
    /\ Observe

-----------------------------------------------------------------------------
(* Start-up: D-Bus activation starts the unit; __init__ loads the           *)
(* configuration and reconciles every interrupted record.                   *)

\* Mutant of Start: only scheduled records are reconciled.
StartSkipsExecuting ==
    LET left == {t \in Tokens : st[t] = "scheduled"} IN
    /\ pc = "down"
    /\ memLevel' = diskLevel /\ todo' = left
    /\ pc' = IF left = {} THEN "idle" ELSE "reconcile"
    /\ UNCHANGED <<durable, machine, cur, who, approved, snap, jam, effects>>
    /\ Observe

Start ==
    LET left == {t \in Tokens : st[t] \in Interrupted} IN
    /\ pc = "down"
    /\ memLevel' = diskLevel /\ todo' = left
    /\ pc' = IF left = {} THEN "idle" ELSE "reconcile"
    /\ UNCHANGED <<durable, machine, cur, who, approved, snap, jam, effects>>
    /\ Observe

\* Mutant of Recovered: an active service proves a restart as well.
RecoveredAnyService(t) ==
    kind(t) \in {"service.manage", "system.time.configure"} /\ Observed(t)

Recovered(t) ==
    CASE kind(t) = "service.manage" -> arg(t) # "restart" /\ Observed(t)
      [] kind(t) = "system.time.configure" -> Observed(t)
      [] kind(t) = "power.schedule" -> boot # mark[t].bootBefore
      [] OTHER -> FALSE

Deferred(t) ==
    /\ kind(t) = "power.schedule" /\ ~Recovered(t)
    /\ now <= mark[t].at + Grace

\* Mutant of Reconcile: an interrupted action is put back for another try.
ReconcileRetries(t) ==
    /\ pc = "reconcile" /\ t \in todo
    /\ WriteOK(t) /\ Put(t, "pending")
    /\ todo' = todo \ {t}
    /\ pc' = IF todo = {t} THEN "idle" ELSE pc
    /\ UNCHANGED <<req, mark, grants, diskLevel, sudoers, quiet, cur, who, approved,
                   snap, memLevel, effects>>
    /\ Observe

Reconcile(t) ==
    /\ pc = "reconcile" /\ t \in todo
    /\ \/ Deferred(t) /\ NoStrike /\ UNCHANGED <<st, mark, jam>>
       \/ ~Deferred(t) /\ WriteFails(t) /\ UNCHANGED <<st, mark>>
       \/ Recovered(t) /\ WriteOK(t) /\ Put(t, "complete") /\ UNCHANGED mark
       \/ /\ ~Recovered(t) /\ ~Deferred(t) /\ WriteOK(t) /\ Put(t, "failed")
          /\ mark' = [mark EXCEPT ![t].rollback = mark[t].snapshot]
    /\ todo' = todo \ {t}
    /\ pc' = IF todo = {t} THEN "idle" ELSE pc
    /\ UNCHANGED <<req, grants, diskLevel, sudoers, quiet, cur, who, approved, snap,
                   memLevel, effects>>
    /\ Observe

-----------------------------------------------------------------------------
(* The machine around the broker.                                           *)

Die ==
    /\ pc' = "down" /\ cur' = NoToken /\ who' = "other" /\ approved' = FALSE
    /\ snap' = FALSE /\ todo' = {} /\ jam' = {} /\ UNCHANGED memLevel

Crash ==
    /\ pc # "down" /\ Strike("crash") /\ Die
    /\ orphans' \in {orphans} \cup
         IF pc = "act" /\ kind(cur) \in InOwnUnit THEN {orphans \cup {cur}} ELSE {}
    /\ UNCHANGED <<durable, now, boot, svc, zone, format, identity, timer, effects>>
    /\ Observe

\* The unit of a dead broker's command runs to its end.
OrphanEnds(t) ==
    /\ t \in orphans
    /\ orphans' = orphans \ {t}
    /\ Took(t) \/ UNCHANGED effects
    /\ UNCHANGED <<durable, now, boot, svc, zone, format, identity, timer, faults,
                   proc>>
    /\ Observe

Reboots ==
    /\ boot < MaxBoot /\ boot' = boot + 1 /\ Die
    /\ timer' = FALSE /\ orphans' = {}
    /\ UNCHANGED <<durable, now, svc, zone, format, identity, effects>>

PowerLoss == Reboots /\ Strike("reboot") /\ Observe
TimerFires == timer /\ Reboots /\ NoStrike /\ Observe

\* The scheduled systemctl call is refused, for instance by an inhibitor.
TimerLost ==
    /\ timer /\ timer' = FALSE /\ Strike("lost")
    /\ UNCHANGED <<durable, now, boot, svc, zone, format, identity, orphans, proc,
                   effects>>
    /\ Observe

\* The same service or clock changed by anyone else.
Drift ==
    /\ Strike("drift")
    /\ \/ svc' \in {"active", "inactive", "failed"} /\ UNCHANGED <<zone, format>>
       \/ zone' \in {"old", "new"} /\ UNCHANGED <<svc, format>>
    /\ UNCHANGED <<durable, now, boot, identity, timer, orphans, proc, effects>>
    /\ Observe

Tick ==
    /\ now < MaxTime /\ now' = now + 1
    /\ UNCHANGED <<durable, boot, svc, zone, format, identity, timer, orphans,
                   faults, proc, effects>>
    /\ Observe

\* The main loop with nothing to do.
Wait == pc = "idle" /\ UNCHANGED <<durable, machine, proc, effects>> /\ Observe

-----------------------------------------------------------------------------

Init ==
    /\ st = [t \in Tokens |-> "absent"]
    /\ req = [t \in Tokens |->
                [act |-> [kind |-> "package.install", arg |-> "none"],
                 uid |-> "other", attested |-> FALSE, agent |-> NoAgent,
                 boot |-> 0, expires |-> 0]]
    /\ mark = [t \in Tokens |-> NoMark]
    /\ grants = {} /\ diskLevel = InitLevel /\ sudoers = (InitLevel = "full-root")
    /\ now = 0 /\ boot = 1 /\ svc = "inactive" /\ zone = "old" /\ format = "old"
    /\ identity = Runtime(InitLevel) /\ timer = FALSE /\ orphans = {} /\ faults = 0
    /\ pc = "idle" /\ cur = NoToken /\ who = "other" /\ approved = FALSE
    /\ snap = FALSE /\ memLevel = InitLevel /\ jam = {} /\ todo = {}
    /\ effects = [t \in Tokens |-> 0] /\ held = {}

Serve ==
    \/ \E t \in Tokens, c \in Callers :
         \/ \E a \in Requests : Prepare(t, c, a)
         \/ Cancel(t, c)
         \/ CommitRequest(t, c)
    \/ ListPending
    \/ Wait

\* The steps the running CommitAction takes by itself.
Work ==
    \/ PolkitAnswer \/ CommitReject \/ CommitStart \/ Stage \/ Run \/ WriteFormat
    \/ Verify \/ SameLevel \/ Activate \/ WriteConfig \/ WritePolicy \/ Undo
    \/ Finish \/ Fail

Recover == Start \/ \E t \in Tokens : Reconcile(t)

Environment ==
    \/ Crash \/ PowerLoss \/ TimerFires \/ TimerLost \/ Drift \/ Tick
    \/ \E t \in Tokens : OrphanEnds(t)

Next == Serve \/ Work \/ Recover \/ Environment

Spec == Init /\ [][Next]_vars

\* A blocking call returns or times out, the next request starts a dead
\* broker, an armed timer fires and the clock runs; nothing obliges callers
\* or faults.
FairSpec ==
    Spec /\ WF_vars(Work) /\ WF_vars(Recover)
         /\ WF_vars(TimerFires) /\ WF_vars(Tick)

-----------------------------------------------------------------------------
(* Types.                                                                   *)

FlagsOK ==
    sudoers \in BOOLEAN /\ timer \in BOOLEAN /\ approved \in BOOLEAN /\ snap \in BOOLEAN

RecordsOK ==
    /\ st \in [Tokens -> RecordStates]
    /\ req \in [Tokens -> Request]
    /\ mark \in [Tokens -> Mark]
    /\ grants \subseteq Grant

MachineOK ==
    /\ diskLevel \in Levels
    /\ now \in Nat /\ boot \in Nat
    /\ svc \in {"active", "inactive", "failed"}
    /\ zone \in {"old", "new"} /\ format \in {"old", "new"}
    /\ identity \in Accounts
    /\ orphans \subseteq Tokens /\ faults \in Nat

ProcessOK ==
    /\ pc \in PCs /\ cur \in Tokens \cup {NoToken} /\ who \in Accounts
    /\ memLevel \in Levels
    /\ jam \subseteq Tokens /\ todo \subseteq Tokens

TypeOK ==
    /\ FlagsOK /\ RecordsOK /\ MachineOK /\ ProcessOK
    /\ effects \in [Tokens -> Nat] /\ held \subseteq Tokens

-----------------------------------------------------------------------------
(* Safety.                                                                  *)

\* No command of a request ever takes effect before its token is durably
\* spent, so a token that is pending, cancelled or expired (or was, before a
\* crash) has changed nothing: commit writes "executing" before it runs.
EffectOnlyWhenSpent == \A t \in Tokens : effects[t] > 0 => st[t] \in Spent

\* A token runs its command at most once, whatever crashes, reboots, failed
\* writes and surviving units come between: reconciliation never retries.
EffectAtMostOnce == \A t \in Tokens : effects[t] <= 1

\* A complete receipt is never a guess: since the token was spent, the state
\* it claims has held.  Verification and reconciliation both read it.
CompleteMeansGoalHeld ==
    \A t \in Tokens :
        st[t] = "complete" /\ kind(t) # "power.schedule" => t \in held

\* Whenever a package change took effect and its receipt says failed, also
\* after a restart, the receipt offers the recovery point taken before it.
RollbackOffered ==
    \A t \in Tokens :
        st[t] = "failed" /\ effects[t] > 0 /\ kind(t) \in Snapshotted
            => mark[t].rollback

\* A power receipt that carries the boot it started from is complete only
\* in a later boot: what reconciliation needs is on disk before the timer.
PowerCompleteAfterMark ==
    \A t \in Tokens :
        /\ st[t] = "complete" /\ kind(t) = "power.schedule"
        /\ mark[t].bootBefore > 0
        => boot > mark[t].bootBefore

\* The four places that name the security level.
LevelInForce ==
    /\ diskLevel = memLevel /\ identity = Runtime(memLevel)
    /\ sudoers = (memLevel = "full-root")

\* A level change that was cut off, or that reported a failure.
Unfinished(t) == kind(t) = "security.level.configure" /\ st[t] \in {"executing", "failed"}

\* Whatever crashes, reboots and failed writes come between: unless the receipt
\* of a level change says that it was interrupted or failed, an idle broker's
\* configuration file, memory, root policy and runtime account agree.
LevelAgrees == pc = "idle" => LevelInForce \/ \E t \in Tokens : Unfinished(t)

-----------------------------------------------------------------------------
(* Action properties.                                                       *)

\* Spending a token: it is unexpired and of this boot at that very step
\* although Polkit may have kept the call waiting, its issuer is admitted by
\* the level now in force, a runtime caller spends only its own requests, the
\* level now in force saw an approval where it needs one, and the agent's
\* policy or a live grant still covers the action.
MayBeSpent(t) ==
    /\ now < req[t].expires /\ boot = req[t].boot
    /\ req[t].uid = "agent" => memLevel = "user-limited"
    /\ who = "agent" => req[t].uid = "agent"
    /\ memLevel # "full-root" \/ kind(t) \in HighImpact => approved
    /\ \/ req[t].agent = NoAgent
       \/ kind(t) \in Policy[req[t].agent]
       \/ /\ kind(t) \in Grantable
          /\ \E g \in grants : /\ g.agent = req[t].agent
                               /\ g.expires > now /\ g.boot = boot

StartsAuthorized ==
    [][\A t \in Tokens : st[t] = "pending" /\ st'[t] = "executing"
                            => MayBeSpent(t)]_vars

\* Once the call that wrote it has returned, a settled receipt is never
\* rewritten; only the failing tail of the same call may turn it to failed.
ReceiptFinal ==
    [][\A t \in Tokens : st[t] \in Settled /\ ~(pc = "fail" /\ cur = t)
                            => st'[t] = st[t]]_vars

-----------------------------------------------------------------------------
(* What a caller is promised of its token, without how: see Receipt.        *)

Open == IF pc \in {"stage", "act", "format", "verify", "config", "policy", "undo",
                   "finish", "fail"}
        THEN cur ELSE NoToken

Ran == {t \in Tokens : effects[t] > 0}

Promise == INSTANCE Receipt WITH ran <- Ran, open <- Open

\* The broker implements the receipt protocol: each of its steps is one step
\* of that protocol or none.
ImplementsReceipt == Promise!Spec

-----------------------------------------------------------------------------
(* Liveness, under FairSpec.                                                *)

\* What an idle broker leaves executing until it is started again: a record whose
\* last write failed, and a power action that was cut off so recently that the
\* start after it still waited for the reboot.
LeftExecuting(t) == pc = "idle" /\ (t \in jam \/ Powers(t))

\* A spent token does not stay "executing" under a call that hangs, a broker that
\* died or a start that skipped it: the call ends, or the next start reconciles
\* the record, or it is one of those that an idle broker leaves as it is.
ExecutingSettles ==
    \A t \in Tokens : st[t] = "executing" ~> st[t] # "executing" \/ LeftExecuting(t)
=============================================================================
