---------------------------- MODULE BrokerProofs ----------------------------
(***************************************************************************)
(* What TLAPS proves of Broker for every set of tokens, callers, requests, *)
(* policies, faults and bounds.                                            *)
(*                                                                         *)
(* The inductive invariant Inv has six parts, each built on those before   *)
(* it: TypeInv (types, and what the program counter says of `cur'),        *)
(* SpentInv (the token of the running call is executing, its command has   *)
(* not run yet), RollbackInv (the recovery point outlives the call),       *)
(* HeldInv (goals are noticed), PowerInv (boots only grow) and LevelInv    *)
(* (who upset the security level).  A lemma per part goes through the      *)
(* actions; the theorems follow at the end.                                *)
(***************************************************************************)
EXTENDS Broker, TLAPS

\* The pcs at which a CommitAction is in progress, and those after its token
\* was spent.
Calling == {"polkit", "commit", "stage", "act", "format", "verify", "config",
            "policy", "undo", "finish", "fail"}
Executing == Calling \ {"polkit", "commit"}

\* Where the process is fixes what `cur' and `todo' are.
CallOK ==
    /\ pc \in Calling => cur \in Tokens
    /\ pc \notin Calling => cur = NoToken
    /\ pc # "reconcile" => todo = {}
    /\ \A t \in todo : st[t] \in Interrupted
    /\ pc \in {"config", "policy"} => kind(cur) = "security.level.configure"

\* The record of the running call is spent and not yet settled, except in
\* the tail entered after its receipt was written.
CurExecuting ==
    /\ pc \in Executing \ {"fail"} => st[cur] = "executing"
    /\ pc = "fail" => st[cur] \in {"executing", "scheduled", "complete"}

\* Before the command no effect, and a surviving unit has not had its own.
NotYet ==
    /\ pc \in {"stage", "act", "config", "policy", "undo"} => effects[cur] = 0
    /\ pc \in Executing => cur \notin orphans
    /\ \A t \in orphans : effects[t] = 0 /\ st[t] \in Spent

SpentInv == CurExecuting /\ NotYet /\ EffectOnlyWhenSpent /\ EffectAtMostOnce

\* The recovery point is in memory and on the record before the command, and
\* nothing that may still take effect loses it.
PointKept ==
    /\ pc \in {"act", "finish"} /\ kind(cur) \in Snapshotted
         => snap /\ mark[cur].snapshot
    /\ pc \in {"format", "verify"} => kind(cur) \notin Snapshotted
    /\ pc = "fail" /\ effects[cur] > 0 /\ kind(cur) \in Snapshotted => snap
    /\ \A t \in Tokens : effects[t] > 0 /\ kind(t) \in Snapshotted => mark[t].snapshot
    /\ \A t \in orphans :
         kind(t) \in Snapshotted =>
           mark[t].snapshot /\ (st[t] = "failed" => mark[t].rollback)

RollbackInv == PointKept /\ RollbackOffered

\* A goal that holds while its token is interrupted has been noticed, and the
\* call that is about to write "complete" has reached it.
GoalNoticed ==
    /\ \A t \in Tokens : st[t] \in Interrupted /\ Goal(t) => t \in held
    /\ pc \in {"format", "verify", "finish"} => effects[cur] > 0
    /\ pc \in {"format", "verify"} =>
         kind(cur) \in {"service.manage", "system.time.configure"}
    /\ pc = "finish" /\ kind(cur) # "power.schedule" => cur \in held

HeldInv == GoalNoticed /\ CompleteMeansGoalHeld

\* A power action is marked with the boot it started from, never a later one.
MarkedBoot == \A t \in Tokens : mark[t].bootBefore <= boot

PowerInv == MarkedBoot /\ PowerCompleteAfterMark

\* The four places of the security level agree, or some token's level change
\* has upset them; the running call only between its first and last write.
LevelInv ==
    /\ pc \in {"config", "policy"} => identity = Runtime(arg(cur))
    /\ pc = "policy" => diskLevel = arg(cur)
    /\ LevelInForce
       \/ \E t \in Tokens :
             /\ Unfinished(t)
             /\ t = cur => pc \in {"config", "policy", "undo", "fail"}

StateOK ==
    /\ RecordsOK /\ MachineOK /\ ProcessOK /\ CallOK
    /\ effects \in [Tokens -> Nat] /\ held \subseteq Tokens

TypeInv == TypeOK /\ CallOK


-----------------------------------------------------------------------------
(* Types.                                                                   *)

\* What an argument of the two kinds that carry data is.
LEMMA ActionArg ==
  ASSUME NEW a \in Action
  PROVE  /\ a.kind = "security.level.configure" => a.arg \in Levels
         /\ a.kind = "task.grant.create" => a.arg \in Agents
  BY DEF Action, Snapshotted

\* A truth value is one: what SMT and Zenon each see only half of.
LEMMA Bool ==
  ASSUME NEW p, NEW q, NEW S, NEW r \in BOOLEAN, p = (q \in S) \/ p = r
  PROVE  p \in BOOLEAN
  <1>1. (q \in S) = TRUE \/ (q \in S) = FALSE
    OBVIOUS
  <1>. QED
    BY <1>1, Zenon

\* The fields commit adds to a record keep it a record.
LEMMA MarkEdited ==
  ASSUME NEW m \in Mark, NEW b \in BOOLEAN, NEW n \in Nat, NEW k \in Nat
  PROVE  /\ [m EXCEPT !.snapshot = b, !.bootBefore = n, !.at = k] \in Mark
         /\ [m EXCEPT !.snapshot = b, !.rollback = b] \in Mark
         /\ [m EXCEPT !.rollback = b] \in Mark
  BY DEF Mark

\* What commit writes before the command is a well-formed addition.
LEMMA StageMarkOK ==
  ASSUME NEW t \in Tokens, mark \in [Tokens -> Mark], boot \in Nat, now \in Nat
  PROVE  StageMark(t) \in Mark
  <1> DEFINE b == kind(t) \in Snapshotted
             n == IF Powers(t) THEN boot ELSE mark[t].bootBefore
             k == IF Powers(t) THEN now ELSE mark[t].at
  <1>1. b \in BOOLEAN
    BY Bool
  <1>2. n \in Nat /\ k \in Nat
    BY DEF Mark
  <1>3. StageMark(t) = [mark[t] EXCEPT !.snapshot = b, !.bootBefore = n, !.at = k]
    BY Zenon DEF StageMark
  <1>4. mark[t] \in Mark
    OBVIOUS
  <1> HIDE DEF b, n, k
  <1>5. [mark[t] EXCEPT !.snapshot = b, !.bootBefore = n, !.at = k] \in Mark
    BY <1>1, <1>2, <1>4, MarkEdited
  <1>. QED
    BY <1>3, <1>5, Zenon

\* The fields of an edited record.
LEMMA MarkFields ==
  ASSUME NEW m \in Mark, NEW b \in BOOLEAN
  PROVE  /\ [m EXCEPT !.snapshot = b, !.rollback = b].snapshot = b
         /\ [m EXCEPT !.snapshot = b, !.rollback = b].rollback = b
         /\ [m EXCEPT !.snapshot = b, !.rollback = b].bootBefore = m.bootBefore
         /\ [m EXCEPT !.rollback = b].snapshot = m.snapshot
         /\ [m EXCEPT !.rollback = b].rollback = b
         /\ [m EXCEPT !.rollback = b].bootBefore = m.bootBefore
  BY DEF Mark

\* What the three writers of `mark' leave on a record.
LEMMA StageMarks ==
  ASSUME TypeInv, Stage
  PROVE  /\ \A t \in Tokens : t # cur => mark'[t] = mark[t]
         /\ mark'[cur].rollback = mark[cur].rollback
         /\ mark'[cur].bootBefore \in {boot, mark[cur].bootBefore}
         /\ pc' = "act" => mark'[cur].snapshot = (kind(cur) \in Snapshotted)
  <1> USE DEF TypeInv, TypeOK, RecordsOK, CallOK, Calling
  <1>1. cur \in Tokens /\ mark[cur] \in Mark
    BY DEF Stage
  <1>2. /\ StageMark(cur).snapshot = (kind(cur) \in Snapshotted)
        /\ StageMark(cur).rollback = mark[cur].rollback
        /\ StageMark(cur).bootBefore \in {boot, mark[cur].bootBefore}
    BY <1>1 DEF StageMark, Mark
  <1>3. \/ mark' = [mark EXCEPT ![cur] = StageMark(cur)]
        \/ mark' = mark /\ pc' = "fail"
    BY DEF Stage, Goto
  <1>. QED
    BY <1>1, <1>2, <1>3

\* The failing tail settles its record and keeps the recovery point.
LEMMA FailMarks ==
  ASSUME TypeInv, Fail
  PROVE  \/ mark' = mark /\ st' = st
         \/ /\ st' = [st EXCEPT ![cur] = "failed"]
            /\ \A t \in Tokens : t # cur => mark'[t] = mark[t]
            /\ snap => mark'[cur].snapshot /\ mark'[cur].rollback
            /\ mark'[cur].bootBefore = mark[cur].bootBefore
  <1> USE DEF TypeInv, TypeOK, FlagsOK, RecordsOK, CallOK, Calling
  <1>1. cur \in Tokens /\ mark[cur] \in Mark /\ snap \in BOOLEAN
    BY DEF Fail
  <1> DEFINE m == [mark[cur] EXCEPT !.snapshot = snap, !.rollback = snap]
  <1>2. /\ m.bootBefore = mark[cur].bootBefore
        /\ snap => m.snapshot /\ m.rollback
    BY <1>1, MarkFields
  <1>3. \/ mark' = mark /\ st' = st
        \/ mark' = [mark EXCEPT ![cur] = m] /\ st' = [st EXCEPT ![cur] = "failed"]
    BY <1>1 DEF Fail, Put
  <1> HIDE DEF m
  <1>. QED
    BY <1>1, <1>2, <1>3

\* Reconciliation completes what it recovered and fails the rest.
LEMMA ReconcileMarks ==
  ASSUME TypeInv, NEW t \in Tokens, Reconcile(t)
  PROVE  \/ mark' = mark /\ st' = st
         \/ /\ Recovered(t)
            /\ mark' = mark /\ st' = [st EXCEPT ![t] = "complete"]
         \/ /\ st' = [st EXCEPT ![t] = "failed"]
            /\ \A u \in Tokens : u # t => mark'[u] = mark[u]
            /\ mark'[t].snapshot = mark[t].snapshot
            /\ mark'[t].rollback = mark[t].snapshot
            /\ mark'[t].bootBefore = mark[t].bootBefore
  <1> USE DEF TypeInv, TypeOK, RecordsOK
  <1>1. mark[t] \in Mark /\ mark[t].snapshot \in BOOLEAN
    BY DEF Mark
  <1> DEFINE m == [mark[t] EXCEPT !.rollback = mark[t].snapshot]
  <1>2. /\ m.snapshot = mark[t].snapshot /\ m.rollback = mark[t].snapshot
        /\ m.bootBefore = mark[t].bootBefore
    BY <1>1, MarkFields
  <1>3. \/ mark' = mark /\ st' = st
        \/ Recovered(t) /\ mark' = mark /\ st' = [st EXCEPT ![t] = "complete"]
        \/ mark' = [mark EXCEPT ![t] = m] /\ st' = [st EXCEPT ![t] = "failed"]
    BY <1>1 DEF Reconcile, Put
  <1> HIDE DEF m
  <1>. QED
    BY <1>1, <1>2, <1>3

\* What the observer records.
LEMMA Noticed ==
  ASSUME Observe
  PROVE  /\ \A t \in Tokens : st'[t] \in Interrupted /\ Goal(t)' => t \in held'
         /\ held \subseteq held'
  BY DEF Observe

\* Where nothing can be read back, having run is the goal.
LEMMA RanIsGoal ==
  ASSUME NEW t \in Tokens, effects'[t] > 0, UNCHANGED req,
         kind(t) \notin {"service.manage", "system.time.configure", "power.schedule"}
  PROVE  Goal(t)'
  BY DEF Goal, kind

\* A reconciled power action started in another boot.
LEMMA RecoveredPower ==
  ASSUME NEW t \in Tokens, kind(t) = "power.schedule", Recovered(t)
  PROVE  boot # mark[t].bootBefore
  BY DEF Recovered

\* Another boot that is not later is earlier.
LEMMA Later == ASSUME NEW m \in Nat, NEW n \in Nat, m # n, n <= m PROVE m > n
  OBVIOUS

\* Flags stay Booleans (Zenon: SMT loses the value of a Boolean variable).
LEMMA FlagsStep == FlagsOK /\ [Next]_vars => FlagsOK'
  <1> SUFFICES ASSUME FlagsOK, [Next]_vars PROVE FlagsOK'
    OBVIOUS
  <1> USE DEF FlagsOK, durable, machine, proc, quiet, Goto, Return
  <1>1. ASSUME NEW t \in Tokens, NEW c \in Callers, NEW a \in Requests,
               Prepare(t, c, a)
        PROVE  FlagsOK'
    BY <1>1, Zenon DEF Prepare, Request
  <1>2. ASSUME NEW t \in Tokens, NEW c \in Callers, Cancel(t, c) PROVE FlagsOK'
    BY <1>2, Zenon DEF Cancel, Usable
  <1>3. ASSUME NEW t \in Tokens, NEW c \in Callers,
               CommitRequest(t, c)
        PROVE  FlagsOK'
    BY <1>3, Zenon DEF CommitRequest
  <1>4. ASSUME ListPending PROVE FlagsOK'
    BY <1>4, Zenon DEF ListPending, Stale
  <1>5. ASSUME Wait PROVE FlagsOK'
    BY <1>5, Zenon DEF Wait
  <1>6. ASSUME PolkitAnswer PROVE FlagsOK'
    BY <1>6, Zenon DEF PolkitAnswer
  <1>7. ASSUME CommitReject PROVE FlagsOK'
    BY <1>7, Zenon DEF CommitReject
  <1>8. ASSUME CommitStart PROVE FlagsOK'
    BY <1>8, Zenon DEF CommitStart
  <1>9. ASSUME Stage PROVE FlagsOK'
    <2>1. snap' = (kind(cur) \in Snapshotted) \/ snap' = snap
      BY <1>9, SMT DEF Stage
    <2>2. snap' \in BOOLEAN
      BY <2>1, Bool
    <2>. QED
      BY <2>2, <1>9, Zenon DEF Stage
  <1>10. ASSUME Run PROVE FlagsOK'
    BY <1>10, Zenon DEF Run, Effect, NoEffect, Took, Grant
  <1>11. ASSUME WriteFormat PROVE FlagsOK'
    BY <1>11, Zenon DEF WriteFormat
  <1>12. ASSUME Verify PROVE FlagsOK'
    BY <1>12, Zenon DEF Verify
  <1>13. ASSUME SameLevel PROVE FlagsOK'
    BY <1>13, Zenon DEF SameLevel, Took
  <1>14. ASSUME Activate PROVE FlagsOK'
    BY <1>14, Zenon DEF Activate, Runtime
  <1>15. ASSUME WriteConfig PROVE FlagsOK'
    BY <1>15, Zenon DEF WriteConfig
  <1>16. ASSUME WritePolicy PROVE FlagsOK'
    BY <1>16, Zenon DEF WritePolicy, Took
  <1>17. ASSUME Undo PROVE FlagsOK'
    BY <1>17, Zenon DEF Undo, Runtime
  <1>18. ASSUME Finish PROVE FlagsOK'
    BY <1>18, Zenon DEF Finish, Outcome
  <1>19. ASSUME Fail PROVE FlagsOK'
    BY <1>19, Zenon DEF Fail, Mark
  <1>20. ASSUME Start PROVE FlagsOK'
    BY <1>20, Zenon DEF Start
  <1>21. ASSUME NEW t \in Tokens, Reconcile(t) PROVE FlagsOK'
    BY <1>21, Zenon DEF Reconcile, Mark
  <1>22. ASSUME Crash PROVE FlagsOK'
    BY <1>22, Zenon DEF Crash, Die
  <1>23. ASSUME PowerLoss PROVE FlagsOK'
    BY <1>23, Zenon DEF PowerLoss, Reboots, Die
  <1>24. ASSUME TimerFires PROVE FlagsOK'
    BY <1>24, Zenon DEF TimerFires, Reboots, Die
  <1>25. ASSUME TimerLost PROVE FlagsOK'
    BY <1>25, Zenon DEF TimerLost
  <1>26. ASSUME Drift PROVE FlagsOK'
    BY <1>26, Zenon DEF Drift
  <1>27. ASSUME Tick PROVE FlagsOK'
    BY <1>27, Zenon DEF Tick
  <1>28. ASSUME NEW t \in Tokens, OrphanEnds(t) PROVE FlagsOK'
    BY <1>28, Zenon DEF OrphanEnds, Took
  <1>29. CASE UNCHANGED vars
    BY <1>29, Zenon DEF vars
  <1>. QED
    BY <1>1, <1>2, <1>3, <1>4, <1>5, <1>6, <1>7, <1>8, <1>9, <1>10, <1>11, <1>12,
       <1>13, <1>14, <1>15, <1>16, <1>17, <1>18, <1>19, <1>20, <1>21, <1>22, <1>23,
       <1>24,
       <1>25, <1>26, <1>27, <1>28, <1>29
    DEF Next, Serve, Work, Recover, Environment

\* Every step keeps the types and the shape of the running call.
LEMMA StateStep == TypeInv /\ [Next]_vars => StateOK'
  <1> SUFFICES ASSUME TypeInv, [Next]_vars PROVE StateOK'
    OBVIOUS
  <1>0. FlagsOK'
    BY FlagsStep DEF TypeInv, TypeOK
  <1> USE <1>0, BrokerAssumption
      DEF TypeInv, TypeOK, StateOK, FlagsOK, RecordsOK, MachineOK, ProcessOK, CallOK,
          Calling, RecordStates, Accounts, PCs, Interrupted, durable, machine, proc,
          Levels, Observe, Put, Goto, Return, WriteOK, WriteFails, Strike, NoStrike,
          quiet, kind
  <1>1. ASSUME NEW t \in Tokens, NEW c \in Callers, NEW a \in Requests,
               Prepare(t, c, a)
        PROVE  StateOK'
    BY <1>1 DEF Prepare, Request
  <1>2. ASSUME NEW t \in Tokens, NEW c \in Callers, Cancel(t, c) PROVE StateOK'
    BY <1>2 DEF Cancel, Usable
  <1>3. ASSUME NEW t \in Tokens, NEW c \in Callers,
               CommitRequest(t, c)
        PROVE  StateOK'
    BY <1>3 DEF CommitRequest
  <1>4. ASSUME ListPending PROVE StateOK'
    BY <1>4 DEF ListPending, Stale
  <1>5. ASSUME Wait PROVE StateOK'
    BY <1>5 DEF Wait
  <1>6. ASSUME PolkitAnswer PROVE StateOK'
    BY <1>6 DEF PolkitAnswer
  <1>7. ASSUME CommitReject PROVE StateOK'
    BY <1>7 DEF CommitReject
  <1>8. ASSUME CommitStart PROVE StateOK'
    BY <1>8 DEF CommitStart
  <1>9. ASSUME Stage PROVE StateOK'
    <2>1. mark' \in [Tokens -> Mark]
      <3>1. cur \in Tokens /\ StageMark(cur) \in Mark
        BY <1>9, StageMarkOK DEF Stage
      <3>2. mark' = [mark EXCEPT ![cur] = StageMark(cur)] \/ mark' = mark
        BY <1>9 DEF Stage
      <3>. QED
        BY <3>1, <3>2
    <2>. QED
      BY <1>9, <2>1 DEF Stage
  <1>10. ASSUME Run PROVE StateOK'
    <2>1. pc = "act" /\ kind(cur) = "task.grant.create" => arg(cur) \in Agents
      BY ActionArg DEF Request, arg
    <2>2. grants' \subseteq Grant
      BY <1>10, <2>1 DEF Run, Effect, NoEffect, Took, Grant
    <2>. QED
      BY <1>10, <2>2 DEF Run, Effect, NoEffect, Took
  <1>11. ASSUME WriteFormat PROVE StateOK'
    BY <1>11 DEF WriteFormat
  <1>12. ASSUME Verify PROVE StateOK'
    BY <1>12 DEF Verify
  <1>13. ASSUME SameLevel PROVE StateOK'
    BY <1>13 DEF SameLevel, Took
  <1>14. ASSUME Activate PROVE StateOK'
    BY <1>14 DEF Activate, Runtime, arg
  <1>15. ASSUME WriteConfig PROVE StateOK'
    <2>1. pc = "config" => arg(cur) \in Levels
      BY ActionArg DEF Request, arg
    <2>. QED
      BY <1>15, <2>1 DEF WriteConfig
  <1>16. ASSUME WritePolicy PROVE StateOK'
    <2>1. pc = "policy" => arg(cur) \in Levels
      BY ActionArg DEF Request, arg
    <2>. QED
      BY <1>16, <2>1 DEF WritePolicy, Took
  <1>17. ASSUME Undo PROVE StateOK'
    BY <1>17 DEF Undo, Runtime
  <1>18. ASSUME Finish PROVE StateOK'
    BY <1>18 DEF Finish, Outcome
  <1>19. ASSUME Fail PROVE StateOK'
    <2>1. mark' \in [Tokens -> Mark]
      <3> DEFINE m == [mark[cur] EXCEPT !.snapshot = snap, !.rollback = snap]
      <3>1. cur \in Tokens /\ mark[cur] \in Mark
        BY <1>19 DEF Fail
      <3>2. m \in Mark
        BY <3>1, MarkEdited DEF Mark
      <3>3. mark' = [mark EXCEPT ![cur] = m] \/ mark' = mark
        BY <1>19, <3>1 DEF Fail
      <3>. QED
        BY <3>1, <3>2, <3>3
    <2>. QED
      BY <1>19, <2>1 DEF Fail
  <1>20. ASSUME Start PROVE StateOK'
    BY <1>20 DEF Start
  <1>21. ASSUME NEW t \in Tokens, Reconcile(t) PROVE StateOK'
    BY <1>21 DEF Reconcile, Mark
  <1>22. ASSUME Crash PROVE StateOK'
    BY <1>22 DEF Crash, Die
  <1>23. ASSUME PowerLoss PROVE StateOK'
    BY <1>23 DEF PowerLoss, Reboots, Die
  <1>24. ASSUME TimerFires PROVE StateOK'
    BY <1>24 DEF TimerFires, Reboots, Die
  <1>25. ASSUME TimerLost PROVE StateOK'
    BY <1>25 DEF TimerLost
  <1>26. ASSUME Drift PROVE StateOK'
    BY <1>26 DEF Drift
  <1>27. ASSUME Tick PROVE StateOK'
    BY <1>27 DEF Tick
  <1>28. ASSUME NEW t \in Tokens, OrphanEnds(t) PROVE StateOK'
    BY <1>28 DEF OrphanEnds, Took
  <1>29. CASE UNCHANGED vars
    BY <1>29 DEF vars
  <1>. QED
    BY <1>1, <1>2, <1>3, <1>4, <1>5, <1>6, <1>7, <1>8, <1>9, <1>10, <1>11, <1>12,
       <1>13, <1>14, <1>15, <1>16, <1>17, <1>18, <1>19, <1>20, <1>21, <1>22, <1>23,
       <1>24,
       <1>25, <1>26, <1>27, <1>28, <1>29
    DEF Next, Serve, Work, Recover, Environment

\* Every step keeps: no effect before the token is spent, and only one.
LEMMA SpentStep == TypeInv /\ SpentInv /\ [Next]_vars => SpentInv'
  <1> SUFFICES ASSUME TypeInv, SpentInv, [Next]_vars PROVE SpentInv'
    OBVIOUS
  <1> USE BrokerAssumption
      DEF TypeInv, TypeOK, FlagsOK, RecordsOK, MachineOK, ProcessOK, CallOK, Calling,
          RecordStates, Interrupted, Spent, Executing, SpentInv, CurExecuting, NotYet,
          EffectOnlyWhenSpent, EffectAtMostOnce, WriteOK, WriteFails, PCs,
          durable, machine, proc, quiet, Put, Goto, Return
  <1>1. ASSUME NEW t \in Tokens, NEW c \in Callers, NEW a \in Requests,
               Prepare(t, c, a)
        PROVE  SpentInv'
    BY <1>1 DEF Prepare, Request
  <1>2. ASSUME NEW t \in Tokens, NEW c \in Callers, Cancel(t, c) PROVE SpentInv'
    BY <1>2 DEF Cancel, Usable
  <1>3. ASSUME NEW t \in Tokens, NEW c \in Callers,
               CommitRequest(t, c)
        PROVE  SpentInv'
    BY <1>3 DEF CommitRequest, PendingForPeer, Usable
  <1>4. ASSUME ListPending PROVE SpentInv'
    BY <1>4 DEF ListPending, Stale
  <1>5. ASSUME Wait PROVE SpentInv'
    BY <1>5 DEF Wait
  <1>6. ASSUME PolkitAnswer PROVE SpentInv'
    BY <1>6 DEF PolkitAnswer
  <1>7. ASSUME CommitReject PROVE SpentInv'
    BY <1>7 DEF CommitReject
  <1>8. ASSUME CommitStart PROVE SpentInv'
    BY <1>8 DEF CommitStart, MayStart, PendingForPeer, Usable
  <1>9. ASSUME Stage PROVE SpentInv'
    BY <1>9 DEF Stage, Mark
  <1>10. ASSUME Run PROVE SpentInv'
    BY <1>10 DEF Run, Effect, NoEffect, Took, Grant
  <1>11. ASSUME WriteFormat PROVE SpentInv'
    BY <1>11 DEF WriteFormat
  <1>12. ASSUME Verify PROVE SpentInv'
    BY <1>12 DEF Verify
  <1>13. ASSUME SameLevel PROVE SpentInv'
    BY <1>13 DEF SameLevel, Took
  <1>14. ASSUME Activate PROVE SpentInv'
    BY <1>14 DEF Activate, Runtime
  <1>15. ASSUME WriteConfig PROVE SpentInv'
    BY <1>15 DEF WriteConfig
  <1>16. ASSUME WritePolicy PROVE SpentInv'
    BY <1>16 DEF WritePolicy, Took
  <1>17. ASSUME Undo PROVE SpentInv'
    BY <1>17 DEF Undo, Runtime
  <1>18. ASSUME Finish PROVE SpentInv'
    BY <1>18 DEF Finish, Outcome
  <1>19. ASSUME Fail PROVE SpentInv'
    BY <1>19 DEF Fail, Mark
  <1>20. ASSUME Start PROVE SpentInv'
    BY <1>20 DEF Start
  <1>21. ASSUME NEW t \in Tokens, Reconcile(t) PROVE SpentInv'
    BY <1>21 DEF Reconcile, Mark
  <1>22. ASSUME Crash PROVE SpentInv'
    BY <1>22 DEF Crash, Die
  <1>23. ASSUME PowerLoss PROVE SpentInv'
    BY <1>23 DEF PowerLoss, Reboots, Die
  <1>24. ASSUME TimerFires PROVE SpentInv'
    BY <1>24 DEF TimerFires, Reboots, Die
  <1>25. ASSUME TimerLost PROVE SpentInv'
    BY <1>25 DEF TimerLost
  <1>26. ASSUME Drift PROVE SpentInv'
    BY <1>26 DEF Drift
  <1>27. ASSUME Tick PROVE SpentInv'
    BY <1>27 DEF Tick
  <1>28. ASSUME NEW t \in Tokens, OrphanEnds(t) PROVE SpentInv'
    BY <1>28 DEF OrphanEnds, Took
  <1>29. CASE UNCHANGED vars
    BY <1>29 DEF vars
  <1>. QED
    BY <1>1, <1>2, <1>3, <1>4, <1>5, <1>6, <1>7, <1>8, <1>9, <1>10, <1>11, <1>12,
       <1>13, <1>14, <1>15, <1>16, <1>17, <1>18, <1>19, <1>20, <1>21, <1>22, <1>23,
       <1>24,
       <1>25, <1>26, <1>27, <1>28, <1>29
    DEF Next, Serve, Work, Recover, Environment

\* Every step keeps the recovery point of a package change reachable.
LEMMA RollbackStep ==
  TypeInv /\ TypeInv' /\ SpentInv /\ SpentInv' /\ RollbackInv /\ [Next]_vars
    => RollbackInv'
  <1> SUFFICES ASSUME TypeInv, TypeInv', SpentInv, SpentInv', RollbackInv, [Next]_vars
               PROVE  RollbackInv'
    OBVIOUS
  <1> USE BrokerAssumption
      DEF TypeInv, TypeOK, FlagsOK, RecordsOK, MachineOK, ProcessOK, CallOK, Calling,
          RecordStates, Interrupted, Spent, Executing, SpentInv, CurExecuting, NotYet,
          WriteOK, WriteFails, PCs, kind,
          Staged, Snapshotted, RollbackInv, PointKept, RollbackOffered, durable,
          machine, proc, quiet, Put, Goto, Return
  <1>1. ASSUME NEW t \in Tokens, NEW c \in Callers, NEW a \in Requests,
               Prepare(t, c, a)
        PROVE  RollbackInv'
    BY <1>1 DEF Prepare, Request, EffectOnlyWhenSpent
  <1>2. ASSUME NEW t \in Tokens, NEW c \in Callers, Cancel(t, c) PROVE RollbackInv'
    BY <1>2 DEF Cancel, Usable, EffectOnlyWhenSpent
  <1>3. ASSUME NEW t \in Tokens, NEW c \in Callers,
               CommitRequest(t, c)
        PROVE  RollbackInv'
    BY <1>3 DEF CommitRequest, PendingForPeer, Usable
  <1>4. ASSUME ListPending PROVE RollbackInv'
    BY <1>4 DEF ListPending, Stale
  <1>5. ASSUME Wait PROVE RollbackInv'
    BY <1>5 DEF Wait
  <1>6. ASSUME PolkitAnswer PROVE RollbackInv'
    BY <1>6 DEF PolkitAnswer
  <1>7. ASSUME CommitReject PROVE RollbackInv'
    BY <1>7 DEF CommitReject
  <1>8. ASSUME CommitStart PROVE RollbackInv'
    BY <1>8 DEF CommitStart, MayStart, PendingForPeer, Usable
  <1>9. ASSUME Stage PROVE RollbackInv'
    BY <1>9, StageMarks DEF Stage
  <1>10. ASSUME Run PROVE RollbackInv'
    BY <1>10 DEF Run, Effect, NoEffect, Took, Grant
  <1>11. ASSUME WriteFormat PROVE RollbackInv'
    BY <1>11 DEF WriteFormat
  <1>12. ASSUME Verify PROVE RollbackInv'
    BY <1>12 DEF Verify
  <1>13. ASSUME SameLevel PROVE RollbackInv'
    BY <1>13 DEF SameLevel, Took
  <1>14. ASSUME Activate PROVE RollbackInv'
    BY <1>14 DEF Activate, Runtime
  <1>15. ASSUME WriteConfig PROVE RollbackInv'
    BY <1>15 DEF WriteConfig
  <1>16. ASSUME WritePolicy PROVE RollbackInv'
    BY <1>16 DEF WritePolicy, Took
  <1>17. ASSUME Undo PROVE RollbackInv'
    BY <1>17 DEF Undo, Runtime
  <1>18. ASSUME Finish PROVE RollbackInv'
    BY <1>18 DEF Finish, Outcome
  <1>19. ASSUME Fail PROVE RollbackInv'
    <2>1. pc = "fail" /\ pc' = "idle" /\ UNCHANGED <<req, effects, orphans, boot>>
      BY <1>19 DEF Fail
    <2>. QED
      BY <1>19, <2>1, FailMarks
  <1>20. ASSUME Start PROVE RollbackInv'
    BY <1>20 DEF Start
  <1>21. ASSUME NEW t \in Tokens, Reconcile(t) PROVE RollbackInv'
    BY <1>21, ReconcileMarks DEF Reconcile
  <1>22. ASSUME Crash PROVE RollbackInv'
    BY <1>22 DEF Crash, Die
  <1>23. ASSUME PowerLoss PROVE RollbackInv'
    BY <1>23 DEF PowerLoss, Reboots, Die
  <1>24. ASSUME TimerFires PROVE RollbackInv'
    BY <1>24 DEF TimerFires, Reboots, Die
  <1>25. ASSUME TimerLost PROVE RollbackInv'
    BY <1>25 DEF TimerLost
  <1>26. ASSUME Drift PROVE RollbackInv'
    BY <1>26 DEF Drift
  <1>27. ASSUME Tick PROVE RollbackInv'
    BY <1>27 DEF Tick
  <1>28. ASSUME NEW t \in Tokens, OrphanEnds(t) PROVE RollbackInv'
    BY <1>28 DEF OrphanEnds, Took
  <1>29. CASE UNCHANGED vars
    BY <1>29 DEF vars
  <1>. QED
    BY <1>1, <1>2, <1>3, <1>4, <1>5, <1>6, <1>7, <1>8, <1>9, <1>10, <1>11, <1>12,
       <1>13, <1>14, <1>15, <1>16, <1>17, <1>18, <1>19, <1>20, <1>21, <1>22, <1>23,
       <1>24,
       <1>25, <1>26, <1>27, <1>28, <1>29
    DEF Next, Serve, Work, Recover, Environment

\* Every step keeps: what a complete receipt claims has held.
LEMMA HeldStep ==
  TypeInv /\ TypeInv' /\ SpentInv /\ SpentInv' /\ HeldInv /\ [Next]_vars => HeldInv'
  <1> SUFFICES ASSUME TypeInv, TypeInv', SpentInv, SpentInv', HeldInv, [Next]_vars
               PROVE  HeldInv'
    OBVIOUS
  <1> USE BrokerAssumption
      DEF TypeInv, TypeOK, FlagsOK, RecordsOK, MachineOK, ProcessOK, CallOK, Calling,
          RecordStates, Interrupted, Spent, Executing, SpentInv, CurExecuting, NotYet,
          WriteOK, WriteFails, PCs, kind,
          HeldInv, GoalNoticed, CompleteMeansGoalHeld, durable, machine, proc, quiet,
          Put, Goto, Return
  <1>1. ASSUME NEW t \in Tokens, NEW c \in Callers, NEW a \in Requests,
               Prepare(t, c, a)
        PROVE  HeldInv'
    BY <1>1, Noticed DEF Prepare, Request
  <1>2. ASSUME NEW t \in Tokens, NEW c \in Callers, Cancel(t, c) PROVE HeldInv'
    BY <1>2, Noticed DEF Cancel, Usable
  <1>3. ASSUME NEW t \in Tokens, NEW c \in Callers,
               CommitRequest(t, c)
        PROVE  HeldInv'
    BY <1>3, Noticed DEF CommitRequest, PendingForPeer, Usable
  <1>4. ASSUME ListPending PROVE HeldInv'
    BY <1>4, Noticed DEF ListPending, Stale
  <1>5. ASSUME Wait PROVE HeldInv'
    BY <1>5, Noticed DEF Wait
  <1>6. ASSUME PolkitAnswer PROVE HeldInv'
    BY <1>6, Noticed DEF PolkitAnswer
  <1>7. ASSUME CommitReject PROVE HeldInv'
    BY <1>7, Noticed DEF CommitReject
  <1>8. ASSUME CommitStart PROVE HeldInv'
    BY <1>8, Noticed DEF CommitStart, MayStart, PendingForPeer, Usable, Staged
  <1>9. ASSUME Stage PROVE HeldInv'
    BY <1>9, Noticed DEF Stage, Mark
  <1>10. ASSUME Run PROVE HeldInv'
    <2>1. pc' = "finish" /\ kind(cur) # "power.schedule" => Goal(cur)'
      BY <1>10, RanIsGoal DEF Run, Effect, NoEffect, Took, Grant
    <2>. QED
      BY <1>10, <2>1, Noticed DEF Run, Effect, NoEffect, Took, Grant
  <1>11. ASSUME WriteFormat PROVE HeldInv'
    BY <1>11, Noticed DEF WriteFormat
  <1>12. ASSUME Verify PROVE HeldInv'
    BY <1>12, Noticed DEF Verify, Goal, Observed, arg
  <1>13. ASSUME SameLevel PROVE HeldInv'
    <2>1. pc' = "finish" /\ kind(cur) # "power.schedule" => Goal(cur)'
      BY <1>13, RanIsGoal DEF SameLevel, Took
    <2>. QED
      BY <1>13, <2>1, Noticed DEF SameLevel, Took
  <1>14. ASSUME Activate PROVE HeldInv'
    BY <1>14, Noticed DEF Activate, Runtime
  <1>15. ASSUME WriteConfig PROVE HeldInv'
    BY <1>15, Noticed DEF WriteConfig
  <1>16. ASSUME WritePolicy PROVE HeldInv'
    <2>1. pc' = "finish" /\ kind(cur) # "power.schedule" => Goal(cur)'
      BY <1>16, RanIsGoal DEF WritePolicy, Took
    <2>. QED
      BY <1>16, <2>1, Noticed DEF WritePolicy, Took
  <1>17. ASSUME Undo PROVE HeldInv'
    BY <1>17, Noticed DEF Undo, Runtime
  <1>18. ASSUME Finish PROVE HeldInv'
    BY <1>18, Noticed DEF Finish, Outcome
  <1>19. ASSUME Fail PROVE HeldInv'
    BY <1>19, Noticed DEF Fail, Mark
  <1>20. ASSUME Start PROVE HeldInv'
    BY <1>20, Noticed DEF Start
  <1>21. ASSUME NEW t \in Tokens, Reconcile(t) PROVE HeldInv'
    BY <1>21, Noticed DEF Reconcile, Mark, Recovered, Goal, Observed, arg
  <1>22. ASSUME Crash PROVE HeldInv'
    BY <1>22, Noticed DEF Crash, Die
  <1>23. ASSUME PowerLoss PROVE HeldInv'
    BY <1>23, Noticed DEF PowerLoss, Reboots, Die
  <1>24. ASSUME TimerFires PROVE HeldInv'
    BY <1>24, Noticed DEF TimerFires, Reboots, Die
  <1>25. ASSUME TimerLost PROVE HeldInv'
    BY <1>25, Noticed DEF TimerLost
  <1>26. ASSUME Drift PROVE HeldInv'
    BY <1>26, Noticed DEF Drift
  <1>27. ASSUME Tick PROVE HeldInv'
    BY <1>27, Noticed DEF Tick
  <1>28. ASSUME NEW t \in Tokens, OrphanEnds(t) PROVE HeldInv'
    BY <1>28, Noticed DEF OrphanEnds, Took
  <1>29. CASE UNCHANGED vars
    BY <1>29, Noticed DEF vars, Goal, Observed, arg
  <1>. QED
    BY <1>1, <1>2, <1>3, <1>4, <1>5, <1>6, <1>7, <1>8, <1>9, <1>10, <1>11, <1>12,
       <1>13, <1>14, <1>15, <1>16, <1>17, <1>18, <1>19, <1>20, <1>21, <1>22, <1>23,
       <1>24,
       <1>25, <1>26, <1>27, <1>28, <1>29
    DEF Next, Serve, Work, Recover, Environment

\* Every step keeps the boot a power action started from behind us.
LEMMA PowerStep ==
  TypeInv /\ TypeInv' /\ SpentInv /\ PowerInv /\ [Next]_vars => PowerInv'
  <1> SUFFICES ASSUME TypeInv, TypeInv', SpentInv, PowerInv, [Next]_vars
               PROVE  PowerInv'
    OBVIOUS
  <1>0. \A t \in Tokens : mark[t].bootBefore \in Nat /\ mark'[t].bootBefore \in Nat
    BY DEF TypeInv, TypeOK, RecordsOK, Mark
  <1> USE BrokerAssumption
      DEF TypeInv, TypeOK, FlagsOK, RecordsOK, MachineOK, ProcessOK, CallOK, Calling,
          RecordStates, Interrupted, Spent, Executing, SpentInv, CurExecuting, NotYet,
          WriteOK, WriteFails, PCs, kind,
          Request, PowerInv, MarkedBoot, PowerCompleteAfterMark, Powers, durable,
          machine, proc, quiet, Put, Goto, Return
  <1>1. ASSUME NEW t \in Tokens, NEW c \in Callers, NEW a \in Requests,
               Prepare(t, c, a)
        PROVE  PowerInv'
    BY <1>1, <1>0 DEF Prepare, Request
  <1>2. ASSUME NEW t \in Tokens, NEW c \in Callers, Cancel(t, c) PROVE PowerInv'
    BY <1>2, <1>0 DEF Cancel, Usable
  <1>3. ASSUME NEW t \in Tokens, NEW c \in Callers,
               CommitRequest(t, c)
        PROVE  PowerInv'
    BY <1>3, <1>0 DEF CommitRequest
  <1>4. ASSUME ListPending PROVE PowerInv'
    BY <1>4, <1>0 DEF ListPending, Stale
  <1>5. ASSUME Wait PROVE PowerInv'
    BY <1>5, <1>0 DEF Wait
  <1>6. ASSUME PolkitAnswer PROVE PowerInv'
    BY <1>6, <1>0 DEF PolkitAnswer
  <1>7. ASSUME CommitReject PROVE PowerInv'
    BY <1>7, <1>0 DEF CommitReject
  <1>8. ASSUME CommitStart PROVE PowerInv'
    BY <1>8, <1>0 DEF CommitStart
  <1>9. ASSUME Stage PROVE PowerInv'
    <2>1. pc = "stage" /\ UNCHANGED <<st, req, boot>>
      BY <1>9 DEF Stage
    <2>2. \A t \in Tokens : mark'[t].bootBefore = boot \/ mark'[t].bootBefore = mark[t].bootBefore
      BY <1>9, StageMarks
    <2>3. cur \in Tokens /\ st[cur] = "executing"
      BY <2>1
    <2>4. \A t \in Tokens : t # cur => mark'[t] = mark[t]
      BY <1>9, StageMarks
    <2>5. MarkedBoot'
      BY <1>0, <2>1, <2>2
    <2>6. PowerCompleteAfterMark'
      BY <1>0, <2>1, <2>3, <2>4
    <2>. QED
      BY <2>5, <2>6
  <1>10. ASSUME Run PROVE PowerInv'
    BY <1>10, <1>0 DEF Run, Effect, NoEffect, Took, Grant
  <1>11. ASSUME WriteFormat PROVE PowerInv'
    BY <1>11, <1>0 DEF WriteFormat
  <1>12. ASSUME Verify PROVE PowerInv'
    BY <1>12, <1>0 DEF Verify
  <1>13. ASSUME SameLevel PROVE PowerInv'
    BY <1>13, <1>0 DEF SameLevel, Took
  <1>14. ASSUME Activate PROVE PowerInv'
    BY <1>14, <1>0 DEF Activate, Runtime
  <1>15. ASSUME WriteConfig PROVE PowerInv'
    BY <1>15, <1>0 DEF WriteConfig
  <1>16. ASSUME WritePolicy PROVE PowerInv'
    BY <1>16, <1>0 DEF WritePolicy, Took
  <1>17. ASSUME Undo PROVE PowerInv'
    BY <1>17, <1>0 DEF Undo, Runtime
  <1>18. ASSUME Finish PROVE PowerInv'
    BY <1>18, <1>0 DEF Finish, Outcome
  <1>19. ASSUME Fail PROVE PowerInv'
    <2>1. pc = "fail" /\ pc' = "idle" /\ UNCHANGED <<req, effects, orphans, boot>>
      BY <1>19 DEF Fail
    <2>2. \A t \in Tokens : mark'[t].bootBefore = mark[t].bootBefore
      BY <1>19, FailMarks
    <2>3. \A t \in Tokens : st'[t] = "complete" => st[t] = "complete"
      BY <1>19, FailMarks
    <2>. QED
      BY <1>0, <2>1, <2>2, <2>3
  <1>20. ASSUME Start PROVE PowerInv'
    BY <1>20, <1>0 DEF Start
  <1>21. ASSUME NEW t \in Tokens, Reconcile(t) PROVE PowerInv'
    <2>1. UNCHANGED <<req, boot>>
      BY <1>21 DEF Reconcile
    <2>2. \A u \in Tokens : mark'[u].bootBefore = mark[u].bootBefore
      BY <1>21, ReconcileMarks
    <2>3. \A u \in Tokens :
            st'[u] = "complete" => st[u] = "complete" \/ Recovered(u)
      BY <1>21, ReconcileMarks
    <2>4. \A u \in Tokens :
            Recovered(u) /\ kind(u) = "power.schedule" => boot > mark[u].bootBefore
      <3> SUFFICES ASSUME NEW u \in Tokens, Recovered(u), kind(u) = "power.schedule"
                   PROVE  boot > mark[u].bootBefore
        OBVIOUS
      <3>1. boot # mark[u].bootBefore
        BY RecoveredPower, Zenon
      <3>2. mark[u].bootBefore \in Nat /\ mark[u].bootBefore <= boot /\ boot \in Nat
        BY <1>0
      <3>. QED
        BY <3>1, <3>2, Later, Zenon
    <2>5. MarkedBoot'
      BY <1>0, <2>1, <2>2
    <2>6. PowerCompleteAfterMark'
      BY <2>1, <2>2, <2>3, <2>4
    <2>. QED
      BY <2>5, <2>6
  <1>22. ASSUME Crash PROVE PowerInv'
    BY <1>22, <1>0 DEF Crash, Die
  <1>23. ASSUME PowerLoss PROVE PowerInv'
    BY <1>23, <1>0 DEF PowerLoss, Reboots, Die
  <1>24. ASSUME TimerFires PROVE PowerInv'
    BY <1>24, <1>0 DEF TimerFires, Reboots, Die
  <1>25. ASSUME TimerLost PROVE PowerInv'
    BY <1>25, <1>0 DEF TimerLost
  <1>26. ASSUME Drift PROVE PowerInv'
    BY <1>26, <1>0 DEF Drift
  <1>27. ASSUME Tick PROVE PowerInv'
    BY <1>27, <1>0 DEF Tick
  <1>28. ASSUME NEW t \in Tokens, OrphanEnds(t) PROVE PowerInv'
    BY <1>28, <1>0 DEF OrphanEnds, Took
  <1>29. CASE UNCHANGED vars
    BY <1>29, <1>0 DEF vars
  <1>. QED
    BY <1>1, <1>2, <1>3, <1>4, <1>5, <1>6, <1>7, <1>8, <1>9, <1>10, <1>11, <1>12,
       <1>13, <1>14, <1>15, <1>16, <1>17, <1>18, <1>19, <1>20, <1>21, <1>22, <1>23,
       <1>24,
       <1>25, <1>26, <1>27, <1>28, <1>29
    DEF Next, Serve, Work, Recover, Environment

\* Only a level change touches the four places, and what it leaves behind
\* stays on its receipt.
LEMMA LevelStep ==
  TypeInv /\ SpentInv /\ LevelInv /\ [Next]_vars => LevelInv'
  <1> SUFFICES ASSUME TypeInv, SpentInv, LevelInv, [Next]_vars PROVE LevelInv'
    OBVIOUS
  <1> USE BrokerAssumption
      DEF TypeInv, TypeOK, RecordsOK, CallOK, Calling, RecordStates, Interrupted, SpentInv,
          CurExecuting, Executing, LevelInv, LevelInForce, Unfinished, durable, machine,
          proc, quiet, kind, arg, Put, Goto, Return
  <1>1. ASSUME NEW t \in Tokens, NEW c \in Callers, NEW a \in Requests,
               Prepare(t, c, a)
        PROVE  LevelInv'
    BY <1>1 DEF Prepare, Request
  <1>2. ASSUME NEW t \in Tokens, NEW c \in Callers, Cancel(t, c) PROVE LevelInv'
    BY <1>2 DEF Cancel, Usable
  <1>3. ASSUME NEW t \in Tokens, NEW c \in Callers,
               CommitRequest(t, c)
        PROVE  LevelInv'
    BY <1>3 DEF CommitRequest, PendingForPeer, Usable
  <1>4. ASSUME ListPending PROVE LevelInv'
    BY <1>4 DEF ListPending, Stale
  <1>5. ASSUME Wait PROVE LevelInv'
    BY <1>5 DEF Wait
  <1>6. ASSUME PolkitAnswer PROVE LevelInv'
    BY <1>6 DEF PolkitAnswer
  <1>7. ASSUME CommitReject PROVE LevelInv'
    BY <1>7 DEF CommitReject
  <1>8. ASSUME CommitStart PROVE LevelInv'
    <2>1. /\ st[cur] = "pending" /\ pc = "commit"
          /\ pc' \in {"stage", "act", "idle"}
          /\ \A t \in Tokens : t # cur => st'[t] = st[t]
          /\ cur' \in {cur, NoToken} /\ cur \in Tokens
          /\ UNCHANGED <<req, diskLevel, sudoers, identity, memLevel>>
      BY <1>8 DEF CommitStart, MayStart, PendingForPeer, Usable
    <2>2. CASE LevelInForce
      <3>1. LevelInForce'
        BY <2>1, <2>2, Zenon DEF LevelInForce
      <3>. QED
        BY <3>1, <2>1
    <2>3. CASE \E t \in Tokens : Unfinished(t) /\ (t = cur => pc \in {"config", "policy", "undo", "fail"})
      <3> PICK t \in Tokens : Unfinished(t)
        BY <2>3
      <3>1. t # cur /\ t # NoToken
        BY <2>1, BrokerAssumption DEF Unfinished
      <3>2. Unfinished(t)'
        BY <2>1, <3>1 DEF Unfinished, kind
      <3>. QED
        BY <3>1, <3>2, <2>1
    <2>. QED
      BY <2>2, <2>3 DEF LevelInv
  <1>9. ASSUME Stage PROVE LevelInv'
    BY <1>9 DEF Stage
  <1>10. ASSUME Run PROVE LevelInv'
    BY <1>10 DEF Run, Effect, NoEffect
  <1>11. ASSUME WriteFormat PROVE LevelInv'
    BY <1>11 DEF WriteFormat
  <1>12. ASSUME Verify PROVE LevelInv'
    BY <1>12 DEF Verify
  <1>13. ASSUME SameLevel PROVE LevelInv'
    BY <1>13 DEF SameLevel
  <1>14. ASSUME Activate PROVE LevelInv'
    BY <1>14 DEF Activate
  <1>15. ASSUME WriteConfig PROVE LevelInv'
    BY <1>15 DEF WriteConfig
  <1>16. ASSUME WritePolicy PROVE LevelInv'
    BY <1>16 DEF WritePolicy
  <1>17. ASSUME Undo PROVE LevelInv'
    BY <1>17 DEF Undo
  <1>18. ASSUME Finish PROVE LevelInv'
    BY <1>18 DEF Finish, Outcome
  <1>19. ASSUME Fail PROVE LevelInv'
    BY <1>19 DEF Fail
  <1>20. ASSUME Start PROVE LevelInv'
    BY <1>20 DEF Start
  <1>21. ASSUME NEW t \in Tokens, Reconcile(t) PROVE LevelInv'
    BY <1>21 DEF Reconcile, Recovered
  <1>22. ASSUME Crash PROVE LevelInv'
    BY <1>22 DEF Crash, Die
  <1>23. ASSUME PowerLoss PROVE LevelInv'
    BY <1>23 DEF PowerLoss, Reboots, Die
  <1>24. ASSUME TimerFires PROVE LevelInv'
    BY <1>24 DEF TimerFires, Reboots, Die
  <1>25. ASSUME TimerLost PROVE LevelInv'
    BY <1>25 DEF TimerLost
  <1>26. ASSUME Drift PROVE LevelInv'
    BY <1>26 DEF Drift
  <1>27. ASSUME Tick PROVE LevelInv'
    BY <1>27 DEF Tick
  <1>28. ASSUME NEW t \in Tokens, OrphanEnds(t) PROVE LevelInv'
    BY <1>28 DEF OrphanEnds
  <1>29. CASE UNCHANGED vars
    BY <1>29 DEF vars
  <1>. QED
    BY <1>1, <1>2, <1>3, <1>4, <1>5, <1>6, <1>7, <1>8, <1>9, <1>10, <1>11, <1>12,
       <1>13, <1>14, <1>15, <1>16, <1>17, <1>18, <1>19, <1>20, <1>21, <1>22, <1>23,
       <1>24,
       <1>25, <1>26, <1>27, <1>28, <1>29
    DEF Next, Serve, Work, Recover, Environment

\* The step each of the two action properties is about.
StartsA == \A t \in Tokens : st[t] = "pending" /\ st'[t] = "executing" => MayBeSpent(t)

ReceiptA ==
    \A t \in Tokens : st[t] \in Settled /\ ~(pc = "fail" /\ cur = t) => st'[t] = st[t]

\* Only CommitStart spends a token, after checking everything again.
LEMMA StartsStep == TypeInv /\ SpentInv /\ [Next]_vars => StartsA
  <1> SUFFICES ASSUME TypeInv, SpentInv, [Next]_vars PROVE StartsA
    OBVIOUS
  <1> USE BrokerAssumption
      DEF TypeInv, TypeOK, FlagsOK, RecordsOK, MachineOK, ProcessOK, CallOK, Calling,
          RecordStates, Interrupted, WriteOK, WriteFails, StartsA, SpentInv,
          CurExecuting,
          Executing, PCs, durable, machine, proc, quiet, Put, Goto, Return
  <1>1. ASSUME NEW t \in Tokens, NEW c \in Callers, NEW a \in Requests,
               Prepare(t, c, a)
        PROVE  StartsA
    BY <1>1 DEF Prepare, Request
  <1>2. ASSUME NEW t \in Tokens, NEW c \in Callers, Cancel(t, c) PROVE StartsA
    BY <1>2 DEF Cancel, Usable
  <1>3. ASSUME NEW t \in Tokens, NEW c \in Callers,
               CommitRequest(t, c)
        PROVE  StartsA
    BY <1>3 DEF CommitRequest
  <1>4. ASSUME ListPending PROVE StartsA
    BY <1>4 DEF ListPending, Stale
  <1>5. ASSUME Wait PROVE StartsA
    BY <1>5 DEF Wait
  <1>6. ASSUME PolkitAnswer PROVE StartsA
    BY <1>6 DEF PolkitAnswer
  <1>7. ASSUME CommitReject PROVE StartsA
    BY <1>7 DEF CommitReject
  <1>8. ASSUME CommitStart PROVE StartsA
    BY <1>8 DEF CommitStart, MayStart, PendingForPeer, Usable, RecordAccess, Issuers,
           AgentMay,
         ActiveGrants, GrantIsCurrent, RequiresApproval, MayBeSpent
  <1>9. ASSUME Stage PROVE StartsA
    BY <1>9 DEF Stage, Mark
  <1>10. ASSUME Run PROVE StartsA
    BY <1>10 DEF Run, Effect, NoEffect, Took, Grant
  <1>11. ASSUME WriteFormat PROVE StartsA
    BY <1>11 DEF WriteFormat
  <1>12. ASSUME Verify PROVE StartsA
    BY <1>12 DEF Verify
  <1>13. ASSUME SameLevel PROVE StartsA
    BY <1>13 DEF SameLevel, Took
  <1>14. ASSUME Activate PROVE StartsA
    BY <1>14 DEF Activate, Runtime
  <1>15. ASSUME WriteConfig PROVE StartsA
    BY <1>15 DEF WriteConfig
  <1>16. ASSUME WritePolicy PROVE StartsA
    BY <1>16 DEF WritePolicy, Took
  <1>17. ASSUME Undo PROVE StartsA
    BY <1>17 DEF Undo, Runtime
  <1>18. ASSUME Finish PROVE StartsA
    BY <1>18 DEF Finish, Outcome
  <1>19. ASSUME Fail PROVE StartsA
    BY <1>19 DEF Fail, Mark
  <1>20. ASSUME Start PROVE StartsA
    BY <1>20 DEF Start
  <1>21. ASSUME NEW t \in Tokens, Reconcile(t) PROVE StartsA
    BY <1>21 DEF Reconcile, Mark
  <1>22. ASSUME Crash PROVE StartsA
    BY <1>22 DEF Crash, Die
  <1>23. ASSUME PowerLoss PROVE StartsA
    BY <1>23 DEF PowerLoss, Reboots, Die
  <1>24. ASSUME TimerFires PROVE StartsA
    BY <1>24 DEF TimerFires, Reboots, Die
  <1>25. ASSUME TimerLost PROVE StartsA
    BY <1>25 DEF TimerLost
  <1>26. ASSUME Drift PROVE StartsA
    BY <1>26 DEF Drift
  <1>27. ASSUME Tick PROVE StartsA
    BY <1>27 DEF Tick
  <1>28. ASSUME NEW t \in Tokens, OrphanEnds(t) PROVE StartsA
    BY <1>28 DEF OrphanEnds, Took
  <1>29. CASE UNCHANGED vars
    BY <1>29 DEF vars
  <1>. QED
    BY <1>1, <1>2, <1>3, <1>4, <1>5, <1>6, <1>7, <1>8, <1>9, <1>10, <1>11, <1>12,
       <1>13, <1>14, <1>15, <1>16, <1>17, <1>18, <1>19, <1>20, <1>21, <1>22, <1>23,
       <1>24,
       <1>25, <1>26, <1>27, <1>28, <1>29
    DEF Next, Serve, Work, Recover, Environment

\* No step rewrites a settled receipt, but the tail of its own call.
LEMMA ReceiptStep == TypeInv /\ SpentInv /\ [Next]_vars => ReceiptA
  <1> SUFFICES ASSUME TypeInv, SpentInv, [Next]_vars PROVE ReceiptA
    OBVIOUS
  <1> USE BrokerAssumption
      DEF TypeInv, TypeOK, FlagsOK, RecordsOK, MachineOK, ProcessOK, CallOK, Calling,
          RecordStates, Interrupted, Settled, WriteOK, WriteFails, ReceiptA,
          SpentInv, CurExecuting,
          Executing, PCs, durable, machine, proc, quiet, Put, Goto, Return
  <1>1. ASSUME NEW t \in Tokens, NEW c \in Callers, NEW a \in Requests,
               Prepare(t, c, a)
        PROVE  ReceiptA
    BY <1>1 DEF Prepare, Request
  <1>2. ASSUME NEW t \in Tokens, NEW c \in Callers, Cancel(t, c) PROVE ReceiptA
    BY <1>2 DEF Cancel, Usable
  <1>3. ASSUME NEW t \in Tokens, NEW c \in Callers,
               CommitRequest(t, c)
        PROVE  ReceiptA
    BY <1>3 DEF CommitRequest
  <1>4. ASSUME ListPending PROVE ReceiptA
    BY <1>4 DEF ListPending, Stale
  <1>5. ASSUME Wait PROVE ReceiptA
    BY <1>5 DEF Wait
  <1>6. ASSUME PolkitAnswer PROVE ReceiptA
    BY <1>6 DEF PolkitAnswer
  <1>7. ASSUME CommitReject PROVE ReceiptA
    BY <1>7 DEF CommitReject
  <1>8. ASSUME CommitStart PROVE ReceiptA
    BY <1>8 DEF CommitStart, MayStart, PendingForPeer, Usable
  <1>9. ASSUME Stage PROVE ReceiptA
    BY <1>9 DEF Stage, Mark
  <1>10. ASSUME Run PROVE ReceiptA
    BY <1>10 DEF Run, Effect, NoEffect, Took, Grant
  <1>11. ASSUME WriteFormat PROVE ReceiptA
    BY <1>11 DEF WriteFormat
  <1>12. ASSUME Verify PROVE ReceiptA
    BY <1>12 DEF Verify
  <1>13. ASSUME SameLevel PROVE ReceiptA
    BY <1>13 DEF SameLevel, Took
  <1>14. ASSUME Activate PROVE ReceiptA
    BY <1>14 DEF Activate, Runtime
  <1>15. ASSUME WriteConfig PROVE ReceiptA
    BY <1>15 DEF WriteConfig
  <1>16. ASSUME WritePolicy PROVE ReceiptA
    BY <1>16 DEF WritePolicy, Took
  <1>17. ASSUME Undo PROVE ReceiptA
    BY <1>17 DEF Undo, Runtime
  <1>18. ASSUME Finish PROVE ReceiptA
    BY <1>18 DEF Finish, Outcome
  <1>19. ASSUME Fail PROVE ReceiptA
    BY <1>19 DEF Fail, Mark
  <1>20. ASSUME Start PROVE ReceiptA
    BY <1>20 DEF Start
  <1>21. ASSUME NEW t \in Tokens, Reconcile(t) PROVE ReceiptA
    BY <1>21 DEF Reconcile, Mark
  <1>22. ASSUME Crash PROVE ReceiptA
    BY <1>22 DEF Crash, Die
  <1>23. ASSUME PowerLoss PROVE ReceiptA
    BY <1>23 DEF PowerLoss, Reboots, Die
  <1>24. ASSUME TimerFires PROVE ReceiptA
    BY <1>24 DEF TimerFires, Reboots, Die
  <1>25. ASSUME TimerLost PROVE ReceiptA
    BY <1>25 DEF TimerLost
  <1>26. ASSUME Drift PROVE ReceiptA
    BY <1>26 DEF Drift
  <1>27. ASSUME Tick PROVE ReceiptA
    BY <1>27 DEF Tick
  <1>28. ASSUME NEW t \in Tokens, OrphanEnds(t) PROVE ReceiptA
    BY <1>28 DEF OrphanEnds, Took
  <1>29. CASE UNCHANGED vars
    BY <1>29 DEF vars
  <1>. QED
    BY <1>1, <1>2, <1>3, <1>4, <1>5, <1>6, <1>7, <1>8, <1>9, <1>10, <1>11, <1>12,
       <1>13, <1>14, <1>15, <1>16, <1>17, <1>18, <1>19, <1>20, <1>21, <1>22, <1>23,
       <1>24,
       <1>25, <1>26, <1>27, <1>28, <1>29
    DEF Next, Serve, Work, Recover, Environment

-----------------------------------------------------------------------------
(* The initial state and the theorems.                                      *)

\* The flags start as Booleans.
LEMMA FlagsInit == Init => FlagsOK
  <1> SUFFICES ASSUME Init PROVE FlagsOK
    OBVIOUS
  <1>1. sudoers \in BOOLEAN
    BY Bool, Zenon DEF Init
  <1>. QED
    BY <1>1, Zenon DEF Init, FlagsOK

\* The initial state is well formed.
LEMMA StateInit == Init => StateOK
  BY BrokerAssumption
  DEF Init, StateOK, RecordsOK, MachineOK, ProcessOK, CallOK, Calling, RecordStates,
      Request, Action, Snapshotted, NoMark, Mark, Accounts, Runtime, Levels, PCs,
      Interrupted

\* The inductive invariant.
Inv == TypeInv /\ SpentInv /\ RollbackInv /\ HeldInv /\ PowerInv /\ LevelInv

\* The inductive invariant holds initially.
LEMMA InvInit == Init => Inv
  <1> SUFFICES ASSUME Init PROVE Inv
    OBVIOUS
  <1>1. TypeInv
    BY FlagsInit, StateInit DEF TypeInv, TypeOK, StateOK
  <1>2. SpentInv /\ RollbackInv /\ HeldInv
    BY DEF Init, SpentInv, CurExecuting, NotYet, EffectOnlyWhenSpent, EffectAtMostOnce,
           Executing, Calling, RollbackInv, PointKept, RollbackOffered, HeldInv,
           GoalNoticed, CompleteMeansGoalHeld, Interrupted
  <1>3. PowerInv
    BY DEF Init, PowerInv, MarkedBoot, PowerCompleteAfterMark, NoMark
  <1>4. LevelInv
    BY Zenon DEF Init, LevelInv, LevelInForce
  <1>. QED
    BY <1>1, <1>2, <1>3, <1>4 DEF Inv

\* Every step keeps it.
LEMMA InvStep == Inv /\ [Next]_vars => Inv'
  <1> SUFFICES ASSUME Inv, [Next]_vars PROVE Inv'
    OBVIOUS
  <1> USE DEF Inv
  <1>1. TypeInv'
    BY StateStep, FlagsStep DEF TypeInv, TypeOK, StateOK
  <1>2. SpentInv'
    BY SpentStep
  <1>3. RollbackInv' /\ HeldInv' /\ PowerInv' /\ LevelInv'
    BY <1>1, <1>2, RollbackStep, HeldStep, PowerStep, LevelStep
  <1>. QED
    BY <1>1, <1>2, <1>3

\* So it always holds.
LEMMA Invariance == Spec => []Inv
  BY InvInit, InvStep, PTL DEF Spec

\* Every variable keeps its type.
THEOREM TypeCorrect == Spec => []TypeOK
  <1>1. Inv => TypeOK
    BY DEF Inv, TypeInv
  <1>. QED
    BY <1>1, Invariance, PTL

\* Nothing a token authorises happens unless the token is durably spent.
THEOREM NoEffectUnspent == Spec => []EffectOnlyWhenSpent
  <1>1. Inv => EffectOnlyWhenSpent
    BY DEF Inv, SpentInv
  <1>. QED
    BY <1>1, Invariance, PTL

\* What a token authorises happens at most once.
THEOREM AtMostOnce == Spec => []EffectAtMostOnce
  <1>1. Inv => EffectAtMostOnce
    BY DEF Inv, SpentInv
  <1>. QED
    BY <1>1, Invariance, PTL

\* A failed package change that took effect offers its recovery point.
THEOREM RollbackAlwaysOffered == Spec => []RollbackOffered
  <1>1. Inv => RollbackOffered
    BY DEF Inv, RollbackInv
  <1>. QED
    BY <1>1, Invariance, PTL

\* A complete receipt reports a state that was reached.
THEOREM CompleteIsHonest == Spec => []CompleteMeansGoalHeld
  <1>1. Inv => CompleteMeansGoalHeld
    BY DEF Inv, HeldInv
  <1>. QED
    BY <1>1, Invariance, PTL

\* A marked power receipt completes only in a later boot.
THEOREM PowerNeedsReboot == Spec => []PowerCompleteAfterMark
  <1>1. Inv => PowerCompleteAfterMark
    BY DEF Inv, PowerInv
  <1>. QED
    BY <1>1, Invariance, PTL

\* The four places of the security level agree, or a receipt says why not.
THEOREM LevelsAgree == Spec => []LevelAgrees
  <1>1. Inv => LevelAgrees
    BY DEF Inv, LevelInv, LevelAgrees
  <1>. QED
    BY <1>1, Invariance, PTL

\* A token is spent only by a step at which it may be.
THEOREM SpendingIsAuthorized == Spec => StartsAuthorized
  <1>1. Inv /\ [Next]_vars => [StartsA]_vars
    BY StartsStep DEF Inv
  <1>2. StartsAuthorized <=> [][StartsA]_vars
    BY DEF StartsAuthorized, StartsA
  <1>. QED
    BY <1>1, <1>2, Invariance, PTL DEF Spec

\* A settled receipt is final.
THEOREM ReceiptStays == Spec => ReceiptFinal
  <1>1. Inv /\ [Next]_vars => [ReceiptA]_vars
    BY ReceiptStep DEF Inv
  <1>2. ReceiptFinal <=> [][ReceiptA]_vars
    BY DEF ReceiptFinal, ReceiptA
  <1>. QED
    BY <1>1, <1>2, Invariance, PTL DEF Spec

-----------------------------------------------------------------------------
(* Refinement: Receipt is what the broker promises of a token.              *)

\* A command that took effect is the abstract TakeEffect.
LEMMA TookRan ==
  ASSUME TypeInv, NEW t \in Tokens, Took(t)
  PROVE  Ran' = Ran \cup {t}
  BY DEF TypeInv, TypeOK, Ran, Took

\* The initial states correspond.
LEMMA RefinesInit == Init => Promise!Init
  BY DEF Init, Promise!Init, Open, Ran

\* Every step of the broker is a step of Receipt, or none.
LEMMA RefinesStep ==
  TypeInv /\ SpentInv /\ [Next]_vars => [Promise!Next]_Promise!vars
  <1> SUFFICES ASSUME TypeInv, SpentInv, [Next]_vars
               PROVE  [Promise!Next]_Promise!vars
    OBVIOUS
  <1> USE BrokerAssumption
      DEF TypeInv, TypeOK, FlagsOK, RecordsOK, MachineOK, ProcessOK, CallOK, Calling,
          RecordStates, Interrupted, Spent, SpentInv, CurExecuting, NotYet,
          Executing, PCs,
          WriteOK, WriteFails, Promise!vars, Open, durable, machine, proc, quiet,
          Put, Goto, Return
  <1>1. ASSUME NEW t \in Tokens, NEW c \in Callers, NEW a \in Requests,
               Prepare(t, c, a)
        PROVE  [Promise!Next]_Promise!vars
    <2>1. Promise!Issue(t)
      BY <1>1 DEF Prepare, Request, Promise!Issue, Ran
    <2>. QED
      BY <1>1, <2>1 DEF Promise!Next
  <1>2. ASSUME NEW t \in Tokens, NEW c \in Callers,
               Cancel(t, c)
        PROVE  [Promise!Next]_Promise!vars
    <2>1. Promise!Withdraw(t) \/ UNCHANGED Promise!vars
      BY <1>2 DEF Cancel, Usable, Promise!Withdraw, Ran
    <2>. QED
      BY <1>2, <2>1 DEF Promise!Next
  <1>3. ASSUME NEW t \in Tokens, NEW c \in Callers,
               CommitRequest(t, c)
        PROVE  [Promise!Next]_Promise!vars
    BY <1>3 DEF CommitRequest, Ran
  <1>4. ASSUME ListPending PROVE [Promise!Next]_Promise!vars
    <2>1. \E S \in SUBSET Tokens :
            /\ \A t \in S : st[t] = "pending"
            /\ st' = [t \in Tokens |-> IF t \in S THEN "expired" ELSE st[t]]
      BY <1>4 DEF ListPending, Stale
    <2>2. UNCHANGED <<Ran, Open>>
      BY <1>4 DEF ListPending, Ran
    <2>3. \E S \in SUBSET Tokens : Promise!Expire(S)
      BY <2>1, <2>2, Zenon DEF Promise!Expire
    <2>. QED
      BY <2>3 DEF Promise!Next
  <1>5. ASSUME Wait PROVE [Promise!Next]_Promise!vars
    BY <1>5 DEF Wait, Ran
  <1>6. ASSUME PolkitAnswer PROVE [Promise!Next]_Promise!vars
    BY <1>6 DEF PolkitAnswer, Ran
  <1>7. ASSUME CommitReject PROVE [Promise!Next]_Promise!vars
    BY <1>7 DEF CommitReject, Ran
  <1>8. ASSUME CommitStart PROVE [Promise!Next]_Promise!vars
    <2>1. Promise!Spend(cur) \/ UNCHANGED Promise!vars
      BY <1>8 DEF CommitStart, MayStart, PendingForPeer, Usable, Promise!Spend, Ran
    <2>. QED
      BY <1>8, <2>1 DEF Promise!Next, CommitStart
  <1>9. ASSUME Stage PROVE [Promise!Next]_Promise!vars
    BY <1>9 DEF Stage, Mark, Ran
  <1>10. ASSUME Run PROVE [Promise!Next]_Promise!vars
    <2>1. Promise!TakeEffect(cur) \/ UNCHANGED Promise!vars
      BY <1>10, TookRan DEF Run, Effect, NoEffect, Took, Grant, Promise!TakeEffect,
             Promise!Spent, Ran
    <2>. QED
      BY <1>10, <2>1 DEF Promise!Next, Run, Effect, NoEffect, Took, Grant
  <1>11. ASSUME WriteFormat PROVE [Promise!Next]_Promise!vars
    BY <1>11 DEF WriteFormat, Ran
  <1>12. ASSUME Verify PROVE [Promise!Next]_Promise!vars
    BY <1>12 DEF Verify, Ran
  <1>13. ASSUME SameLevel PROVE [Promise!Next]_Promise!vars
    <2>1. Promise!TakeEffect(cur)
      BY <1>13, TookRan DEF SameLevel, Took, Promise!TakeEffect, Promise!Spent, Ran
    <2>. QED
      BY <1>13, <2>1 DEF Promise!Next, SameLevel, Took
  <1>14. ASSUME Activate PROVE [Promise!Next]_Promise!vars
    BY <1>14 DEF Activate, Runtime, Ran
  <1>15. ASSUME WriteConfig PROVE [Promise!Next]_Promise!vars
    BY <1>15 DEF WriteConfig, Ran
  <1>16. ASSUME WritePolicy PROVE [Promise!Next]_Promise!vars
    <2>1. Promise!TakeEffect(cur) \/ UNCHANGED Promise!vars
      BY <1>16, TookRan DEF WritePolicy, Took, Promise!TakeEffect, Promise!Spent, Ran
    <2>. QED
      BY <1>16, <2>1 DEF Promise!Next, WritePolicy, Took
  <1>17. ASSUME Undo PROVE [Promise!Next]_Promise!vars
    BY <1>17 DEF Undo, Runtime, Ran
  <1>18. ASSUME Finish PROVE [Promise!Next]_Promise!vars
    <2>1. Promise!Answer(cur, Outcome(cur)) \/ UNCHANGED Promise!vars
      BY <1>18 DEF Finish, Outcome, Promise!Answer, Ran
    <2>. QED
      BY <1>18, <2>1 DEF Promise!Next, Finish, Outcome
  <1>19. ASSUME Fail PROVE [Promise!Next]_Promise!vars
    <2>1. Promise!Answer(cur, "failed") \/ Promise!Close
      BY <1>19 DEF Fail, Mark, Promise!Answer, Promise!Close, Ran
    <2>. QED
      BY <1>19, <2>1 DEF Promise!Next, Fail, Mark
  <1>20. ASSUME Start PROVE [Promise!Next]_Promise!vars
    BY <1>20 DEF Start, Ran
  <1>21. ASSUME NEW t \in Tokens, Reconcile(t) PROVE [Promise!Next]_Promise!vars
    <2>1. \/ Promise!SettleLater(t, "complete")
          \/ Promise!SettleLater(t, "failed")
          \/ UNCHANGED Promise!vars
      BY <1>21 DEF Reconcile, Mark, Promise!SettleLater, Ran
    <2>. QED
      BY <1>21, <2>1 DEF Promise!Next
  <1>22. ASSUME Crash PROVE [Promise!Next]_Promise!vars
    <2>1. Promise!Close \/ UNCHANGED Promise!vars
      BY <1>22 DEF Crash, Die, Promise!Close, Ran
    <2>. QED
      BY <1>22, <2>1 DEF Promise!Next
  <1>23. ASSUME PowerLoss PROVE [Promise!Next]_Promise!vars
    <2>1. Promise!Close \/ UNCHANGED Promise!vars
      BY <1>23 DEF PowerLoss, Reboots, Die, Promise!Close, Ran
    <2>. QED
      BY <1>23, <2>1 DEF Promise!Next
  <1>24. ASSUME TimerFires PROVE [Promise!Next]_Promise!vars
    <2>1. Promise!Close \/ UNCHANGED Promise!vars
      BY <1>24 DEF TimerFires, Reboots, Die, Promise!Close, Ran
    <2>. QED
      BY <1>24, <2>1 DEF Promise!Next
  <1>25. ASSUME TimerLost PROVE [Promise!Next]_Promise!vars
    BY <1>25 DEF TimerLost, Ran
  <1>26. ASSUME Drift PROVE [Promise!Next]_Promise!vars
    BY <1>26 DEF Drift, Ran
  <1>27. ASSUME Tick PROVE [Promise!Next]_Promise!vars
    BY <1>27 DEF Tick, Ran
  <1>28. ASSUME NEW t \in Tokens, OrphanEnds(t) PROVE [Promise!Next]_Promise!vars
    <2>1. Promise!TakeEffect(t) \/ UNCHANGED Promise!vars
      BY <1>28, TookRan DEF OrphanEnds, Took, Promise!TakeEffect, Promise!Spent, Ran
    <2>. QED
      BY <1>28, <2>1 DEF Promise!Next
  <1>29. CASE UNCHANGED vars
    BY <1>29 DEF vars, Ran
  <1>. QED
    BY <1>1, <1>2, <1>3, <1>4, <1>5, <1>6, <1>7, <1>8, <1>9, <1>10, <1>11, <1>12,
       <1>13, <1>14, <1>15, <1>16, <1>17, <1>18, <1>19, <1>20, <1>21, <1>22, <1>23,
       <1>24,
       <1>25, <1>26, <1>27, <1>28, <1>29
    DEF Next, Serve, Work, Recover, Environment

\* The broker implements the receipt protocol.
THEOREM BrokerImplementsReceipt == Spec => ImplementsReceipt
  <1>1. Inv /\ [Next]_vars => [Promise!Next]_Promise!vars
    BY RefinesStep DEF Inv
  <1>. QED
    BY <1>1, RefinesInit, Invariance, PTL DEF Spec, ImplementsReceipt, Promise!Spec
=============================================================================
