---------------------------- MODULE RequestProofs ----------------------------
(***************************************************************************)
(* The two halves of a request's way from the person to OpenClaw, for any  *)
(* tasks, texts, requests and disturbances.  AgentQueue: QueueInv says of  *)
(* each request how far its submitter, its runner and the command at work  *)
(* on it have come when its message is, or is no longer, there.  Shelf:    *)
(* nothing moves under a request that is being sent (Frozen), and apart    *)
(* from that the text last written is on show or in the draft.             *)
(***************************************************************************)
EXTENDS AgentQueue, Shelf, TLAPS

-----------------------------------------------------------------------------
(* AgentQueue: the inductive invariant.                                     *)

\* Before its message is created nobody else knows of a request.
Unknown(r) ==
    /\ ~Exists(r) /\ receipt[r] = "none"
    /\ unit[r] = "none" /\ run[r] = "none"
    /\ r \notin cards /\ r # picked

\* A message that was created is there, or was completed or discarded, or its
\* submitter has given up on it; nothing creates it again.
RequestInv(r) ==
    /\ sub[r] \in {"none", "create"} => Unknown(r)
    /\ sub[r] = "create" \/ Exists(r) => r \in bound
    /\ sub[r] = "unbind" => ~Exists(r)
    /\ sub[r] \in {"write", "ask", "wait", "queued"} => Exists(r) \/ r \in done \cup dropped
    /\ sub[r] \in {"ask", "wait", "queued"} => file[r] # "partial"
    /\ run[r] \in {"sweep", "unbind", "completed"} => r \in done
    /\ run[r] \in {"unbind", "completed"} => ~Exists(r)
    /\ receipt[r] = "completed" => ~Exists(r) /\ run[r] \in {"none", "validate"}

\* A discard that goes on has deleted the message.
ToolInv ==
    /\ tool # "idle" => picked \in Requests
    /\ tool \in {"unbind", "record"} => picked \in dropped
    /\ tool = "unbind" => ~Exists(picked)

QueueInv == TypeOK /\ (\A r \in Requests : RequestInv(r)) /\ ToolInv

-----------------------------------------------------------------------------
(* Every step keeps it.                                                     *)

LEMMA InitQueue == Init => QueueInv
BY QueueAssumption DEF QueueAssumption, Init, QueueInv, TypeOK, RequestInv, ToolInv,
       Unknown, Exists, Contents, Statuses, SubSteps, Writing, RunSteps, ToolSteps

\* The steps of a submitter.
LEMMA SubmitKeeps ==
    ASSUME QueueInv, NEW r \in Requests, Submit(r) PROVE QueueInv'
<1>. USE QueueAssumption DEF QueueAssumption, QueueInv, TypeOK, RequestInv, ToolInv, Unknown,
         Exists, Contents, Statuses, SubSteps, Writing, RunSteps, ToolSteps,
         disk, runner, center, past, NoStrike, Strike
<1>1. CASE Bind(r)
  BY <1>1 DEF Bind, SubGoto
<1>2. CASE Create(r)
  BY <1>2 DEF Create, SubGoto
<1>3. CASE Write(r)
  BY <1>3 DEF Write, SubGoto
<1>4. CASE Ask(r)
  BY <1>4 DEF Ask, Start, SubGoto
<1>5. CASE Answer(r)
  BY <1>5 DEF Answer, SubGoto
<1>6. CASE SweepFile(r)
  BY <1>6 DEF SweepFile, Unlink, SubGoto
<1>7. CASE SweepBinding(r)
  BY <1>7 DEF SweepBinding, Unbind, SubGoto
<1>. QED  BY <1>1, <1>2, <1>3, <1>4, <1>5, <1>6, <1>7 DEF Submit

\* The steps of the runner in a unit.
LEMMA RunnerKeeps ==
    ASSUME QueueInv, NEW r \in Requests, Runner(r) PROVE QueueInv'
<1>. USE QueueAssumption DEF QueueAssumption, QueueInv, TypeOK, RequestInv, ToolInv, Unknown,
         Exists, Contents, Statuses, SubSteps, Writing, RunSteps, ToolSteps,
         disk, runner, center, past, NoStrike, Strike
<1>1. CASE Exec(r)
  BY <1>1 DEF Exec, RunGoto
<1>2. CASE Validate(r)
  BY <1>2 DEF Validate, RunGoto, Exit
<1>3. CASE ReadBinding(r)
  BY <1>3 DEF ReadBinding, RunGoto, Exit, Record
<1>4. CASE Hand(r)
  BY <1>4 DEF Hand, RunGoto
<1>5. CASE Work(r)
  BY <1>5 DEF Work, RunGoto
<1>6. CASE RunSweep(r)
  BY <1>6 DEF RunSweep, RunGoto, Unlink
<1>7. CASE RunUnbind(r)
  BY <1>7 DEF RunUnbind, RunGoto, Unbind
<1>8. CASE Report(r)
  BY <1>8 DEF Report, RunGoto, Record, Exit
<1>. QED  BY <1>1, <1>2, <1>3, <1>4, <1>5, <1>6, <1>7, <1>8 DEF Runner

\* The steps of a resume or a discard.
LEMMA ToolKeeps ==
    ASSUME QueueInv, Tool PROVE QueueInv'
<1>. USE QueueAssumption DEF QueueAssumption, QueueInv, TypeOK, RequestInv, ToolInv, Unknown,
         Exists, Contents, Statuses, SubSteps, Writing, RunSteps, ToolSteps,
         disk, runner, center, past, NoStrike, Strike
<1>1. CASE Check
  BY <1>1 DEF Check, ToolGoto, ToolDone
<1>2. CASE Resume
  BY <1>2 DEF Resume, Start, ToolGoto, ToolDone
<1>3. CASE ResumeAnswer
  BY <1>3 DEF ResumeAnswer, ToolDone
<1>4. CASE DiscardFile
  BY <1>4 DEF DiscardFile, Unlink, ToolGoto, ToolDone
<1>5. CASE DiscardBinding
  BY <1>5 DEF DiscardBinding, Unbind, ToolGoto
<1>6. CASE DiscardRecord
  BY <1>6 DEF DiscardRecord, Record, ToolDone
<1>. QED  BY <1>1, <1>2, <1>3, <1>4, <1>5, <1>6 DEF Tool

\* The list, the person who acts on it, and the disturbances.
LEMMA OthersKeep ==
    ASSUME QueueInv,
           \/ List \/ Crash
           \/ \E r \in Requests : Kill(r) \/ Abandon(r)
                                  \/ Choose("resume", r) \/ Choose("discard", r)
    PROVE  QueueInv'
<1>. USE QueueAssumption DEF QueueAssumption, QueueInv, TypeOK, RequestInv, ToolInv, Unknown,
         Exists, Contents, Statuses, SubSteps, Writing, RunSteps, ToolSteps,
         disk, runner, center, past, NoStrike, Strike
<1>1. CASE List
  BY <1>1 DEF List, Interrupted
<1>2. CASE Crash
  BY <1>2 DEF Crash
<1>3. ASSUME NEW r \in Requests, Kill(r) PROVE QueueInv'
  BY <1>3 DEF Kill, Exit, RunGoto
<1>4. ASSUME NEW r \in Requests, Abandon(r) PROVE QueueInv'
  BY <1>4 DEF Abandon, SubGoto
<1>5. ASSUME NEW r \in Requests, NEW op \in {"resume", "discard"}, Choose(op, r) PROVE QueueInv'
  BY <1>5 DEF Choose
<1>. QED  BY <1>1, <1>2, <1>3, <1>4, <1>5

LEMMA NextQueue == QueueInv /\ [Next]_vars => QueueInv'
<1>. SUFFICES ASSUME QueueInv, [Next]_vars PROVE QueueInv'
  OBVIOUS
<1>1. CASE \E r \in Requests : Submit(r) \/ Runner(r)
  BY <1>1, SubmitKeeps, RunnerKeeps
<1>2. CASE Tool
  BY <1>2, ToolKeeps
<1>3. CASE \/ List \/ Crash
           \/ \E r \in Requests : Kill(r) \/ Abandon(r)
                                  \/ Choose("resume", r) \/ Choose("discard", r)
  BY <1>3, OthersKeep
<1>4. CASE UNCHANGED vars
  BY <1>4 DEF vars, disk, runner, center, past, QueueInv, TypeOK, RequestInv, ToolInv,
              Unknown, Exists
<1>. QED  BY <1>1, <1>2, <1>3, <1>4 DEF Next, Idle

LEMMA AlwaysQueueInv == Spec => []QueueInv
BY InitQueue, NextQueue, PTL DEF Spec

-----------------------------------------------------------------------------
(* What follows.                                                            *)

\* Every variable has its type.
THEOREM TypeCorrect == Spec => []TypeOK
<1>1. QueueInv => TypeOK
  BY DEF QueueInv
<1>. QED  BY <1>1, AlwaysQueueInv, PTL

\* A message on disk has its binding, wherever submit, run and discard stop:
\* submit and discard write and delete them in opposite orders.
THEOREM BindingKept == Spec => []BoundWhileQueued
<1>1. QueueInv => BoundWhileQueued
  BY DEF QueueInv, RequestInv, BoundWhileQueued
<1>. QED  BY <1>1, AlwaysQueueInv, PTL

\* What was answered as queued leaves only completed or discarded: the error
\* path of submit, the only other one that deletes, never answers so.
THEOREM NothingLost == Spec => []NothingLostUnrun
<1>1. QueueInv => NothingLostUnrun
  BY DEF QueueInv, RequestInv, NothingLostUnrun
<1>. QED  BY <1>1, AlwaysQueueInv, PTL

\* OpenClaw reads no half-written message of a submitter that went on.
THEOREM HandedWhole == Spec => HandedWholeOnceAsked
<1>1. QueueInv /\ [Next]_vars =>
        [\A r \in Requests :
           handed'[r] = "partial" /\ handed[r] # "partial"
             => sub[r] \notin {"ask", "wait", "queued"}]_vars
  <2>. SUFFICES ASSUME QueueInv, Next, NEW q \in Requests,
                       handed'[q] = "partial", handed[q] # "partial"
                PROVE  sub[q] \notin {"ask", "wait", "queued"}
    BY DEF vars
  <2>1. CASE \E r \in Requests : Hand(r)
    BY <2>1 DEF Hand, QueueInv, RequestInv, TypeOK
  <2>2. CASE handed' = handed
    BY <2>2
  <2>3. (\E r \in Requests : Hand(r)) \/ handed' = handed
    BY DEF Next, Submit, Bind, Create, Write, Ask, Answer, SweepFile, SweepBinding,
           Runner, Exec, Validate, ReadBinding, Work, RunSweep, RunUnbind, Report,
           Kill, Abandon, Choose, List, Tool, Check, Resume, ResumeAnswer, DiscardFile,
           DiscardBinding, DiscardRecord, Crash, Idle, vars, past
  <2>. QED  BY <2>1, <2>2, <2>3
<1>. QED  BY <1>1, AlwaysQueueInv, PTL DEF Spec, HandedWholeOnceAsked

\* The receipt of a completed request stays.
THEOREM CompletedStays == Spec => CompletedIsFinal
<1>1. QueueInv /\ [Next]_vars =>
        [\A r \in Requests :
           receipt[r] = "completed" /\ r \notin dropped => receipt'[r] = "completed"]_vars
  <2>. SUFFICES ASSUME QueueInv, Next, NEW q \in Requests,
                       receipt[q] = "completed", q \notin dropped
                PROVE  receipt'[q] = "completed"
    BY DEF vars
  <2>1. CASE \E r \in Requests : ReadBinding(r) \/ Report(r)
    BY <2>1 DEF ReadBinding, Report, Record, QueueInv, RequestInv, TypeOK
  <2>2. CASE DiscardRecord
    BY <2>2 DEF DiscardRecord, Record, QueueInv, ToolInv, TypeOK
  <2>3. CASE receipt' = receipt
    BY <2>3
  <2>4. \/ \E r \in Requests : ReadBinding(r) \/ Report(r)
        \/ DiscardRecord \/ receipt' = receipt
    BY DEF Next, Submit, Bind, Create, Write, Ask, Answer, SweepFile, SweepBinding,
           Runner, Exec, Validate, Hand, Work, RunSweep, RunUnbind,
           Kill, Abandon, Choose, List, Tool, Check, Resume, ResumeAnswer, DiscardFile,
           DiscardBinding, Crash, Idle, vars, disk
  <2>. QED  BY <2>1, <2>2, <2>3, <2>4
<1>. QED  BY <1>1, AlwaysQueueInv, PTL DEF Spec, CompletedIsFinal

-----------------------------------------------------------------------------
(* Shelf: the text, the drafts and the request being sent.                  *)

\* While a request is sent the composer shows it, and its draft is the same
\* unless the composer never read it.
Frozen ==
    Sending => /\ sent[1] \in Tasks /\ sent = <<task, entry>> /\ entry # Blank
               /\ ~loading => draft[task] = entry

ShelfInv ==
    /\ ShelfTypeOK /\ TextKept /\ Frozen
    /\ task \in unsaved /\ ~loading => entry = draft[task]
    /\ child # "none" => Sending
    /\ child = "queued" => sent \in queued

LEMMA InitShelf == ShelfInit => ShelfInv
<1>. SUFFICES ASSUME ShelfInit PROVE ShelfInv
  OBVIOUS
<1>. USE ShelfAssumption DEF ShelfAssumption, ShelfInit, Owners
<1>0. ticking \in BOOLEAN /\ loading \in BOOLEAN
  BY Zenon
<1>1. ShelfTypeOK
  BY <1>0 DEF ShelfTypeOK, Nothing
<1>2. ~Sending /\ child = "none" /\ Frozen
  BY DEF Sending, Frozen
<1>3. entry = IF task \in Tasks THEN draft[task] ELSE Blank
  OBVIOUS
<1>4. TextKept
  BY <1>3 DEF TextKept
<1>. QED  BY <1>1, <1>2, <1>3, <1>4 DEF ShelfInv

\* What the person sees is saved as it was last written, or as it was read.
LEMMA SaveKeeps ==
    ASSUME ShelfInv, SaveShown
    PROVE  /\ draft' \in [Tasks -> Texts]
           /\ \A t \in Tasks : t \notin unsaved => draft'[t] = written[t]
           /\ \A t \in Tasks : draft'[t] = draft[t] \/ (t \notin unsaved /\ draft'[t] = written[t])
BY ShelfAssumption DEF ShelfAssumption, ShelfInv, ShelfTypeOK, TextKept, SaveShown, Save, Keep, Owners

\* Showing another task loads its draft.
LEMMA SwitchKeeps ==
    ASSUME ShelfInv, ~Sending, NEW seen \in Owners, seen # task, Switch(seen)
    PROVE  /\ task' = seen /\ entry' \in Texts /\ loading' = FALSE
           /\ seen \in Tasks => entry' = draft'[seen]
<1>1. draft' \in [Tasks -> Texts] /\ (seen \in Tasks => draft'[seen] = draft[seen])
  BY ShelfAssumption DEF ShelfAssumption, ShelfInv, ShelfTypeOK, Switch, SaveShown, Save, Keep, Owners
<1>. QED  BY <1>1, ShelfAssumption DEF ShelfAssumption, ShelfInv, ShelfTypeOK, Switch, Load, Owners

\* A step that keeps the history and the sent request, and shows a task with
\* its draft or with no draft read, keeps the invariant.
LEMMA ShownKeeps ==
    ASSUME ShelfInv, ~Sending, SaveShown, UNCHANGED <<focus, sent, child, queued, history>>,
           ticking' \in BOOLEAN, task' \in Owners, entry' \in Texts, loading' \in BOOLEAN,
           faults' \in 0..MaxFaults,
           loading' \/ (task' \in Tasks => entry' = draft'[task'])
    PROVE  ShelfInv'
BY SaveKeeps, ShelfAssumption
   DEF ShelfAssumption, ShelfInv, ShelfTypeOK, TextKept, Frozen, Sending, Nothing, Owners, history

LEMMA FollowKeeps ==
    ASSUME ShelfInv, NEW seen \in Owners, Follows(seen),
           (FocusedTask(seen) /\ Switch(seen)) \/ SwitchHalf(seen),
           UNCHANGED <<focus, sent, child, queued, history>>, ticking' \in BOOLEAN
    PROVE  ShelfInv'
<1>1. ~Sending /\ seen # task
  BY DEF Follows
<1>2. CASE FocusedTask(seen) /\ Switch(seen)
  <2>1. faults' \in 0..MaxFaults
    BY <1>2, ShelfAssumption
       DEF ShelfAssumption, ShelfInv, ShelfTypeOK, FocusedTask, Strike, NoStrike
  <2>2. SaveShown
    BY <1>2 DEF Switch
  <2>. QED  BY <1>1, <1>2, <2>1, <2>2, SwitchKeeps, ShownKeeps
<1>3. CASE SwitchHalf(seen)
  <2>1. faults' \in 0..MaxFaults /\ entry' \in Texts /\ task' \in Owners
    BY <1>3, ShelfAssumption
       DEF ShelfAssumption, ShelfInv, ShelfTypeOK, SwitchHalf, Strike
  <2>2. SaveShown /\ loading' = TRUE
    BY <1>3 DEF SwitchHalf
  <2>. QED  BY <1>1, <2>1, <2>2, ShownKeeps
<1>. QED  BY <1>2, <1>3

LEMMA NextShelf == ShelfInv /\ [ShelfNext]_shelfVars => ShelfInv'
<1>. SUFFICES ASSUME ShelfInv, [ShelfNext]_shelfVars PROVE ShelfInv'
  OBVIOUS
<1>. USE ShelfAssumption
     DEF ShelfAssumption, ShelfInv, ShelfTypeOK, TextKept, Frozen, Sending, Nothing, Owners,
         shelf, history, Load, Save, Keep, NoStrike, Strike
<1>1. ASSUME NEW t \in Owners, Focus(t) PROVE ShelfInv'
  BY <1>1 DEF Focus
<1>2. ASSUME NEW key \in Owners, NEW choice \in Tasks, OpenSurface(key, choice) PROVE ShelfInv'
  BY <1>2 DEF OpenSurface, FocusedTask, OwningTask
<1>3. CASE Tick
  <2>1. ticking' \in BOOLEAN
    BY <1>3, Zenon DEF Tick
  <2>2. PICK seen \in Owners :
          \/ Follows(seen) /\ FocusedTask(seen) /\ Switch(seen)
          \/ FocusedTask(seen) /\ Stay
          \/ Follows(seen) /\ SwitchHalf(seen)
          \/ Strike("write") /\ Stay
    BY <1>3 DEF Tick
  <2>3. UNCHANGED <<focus, sent, child, queued, history>>
    BY <1>3 DEF Tick
  <2>4. CASE Follows(seen) /\ ((FocusedTask(seen) /\ Switch(seen)) \/ SwitchHalf(seen))
    BY <2>1, <2>3, <2>4, FollowKeeps
  <2>5. CASE (FocusedTask(seen) \/ Strike("write")) /\ Stay
    BY <2>1, <2>3, <2>5 DEF FocusedTask, Stay
  <2>. QED  BY <2>2, <2>4, <2>5
<1>4. CASE FocusIn
  <2>1. PICK seen \in Owners :
          \/ Follows(seen) /\ FocusedTask(seen) /\ Switch(seen)
          \/ FocusedTask(seen) /\ Stay
          \/ Follows(seen) /\ SwitchHalf(seen)
    BY <1>4 DEF FocusIn
  <2>2. UNCHANGED <<focus, ticking, sent, child, queued, history>>
    BY <1>4 DEF FocusIn
  <2>3. CASE Follows(seen) /\ ((FocusedTask(seen) /\ Switch(seen)) \/ SwitchHalf(seen))
    BY <2>2, <2>3, FollowKeeps
  <2>4. CASE FocusedTask(seen) /\ Stay
    BY <2>2, <2>4 DEF FocusedTask, Stay
  <2>. QED  BY <2>1, <2>3, <2>4
<1>5. CASE SubmitText
  <2>1. PICK seen \in Owners :
          /\ FocusedTask(seen)
          /\ IF Follows(seen) THEN Switch(seen) ELSE SaveShown /\ UNCHANGED <<task, entry, loading>>
          /\ task' # NoTask /\ entry' # Blank
          /\ sent' = <<task', entry'>> /\ child' = "running"
    BY <1>5 DEF SubmitText
  <2>2. ~Sending /\ UNCHANGED <<focus, ticking, queued, history>>
    BY <1>5 DEF SubmitText
  <2>3. CASE Follows(seen)
    BY <2>1, <2>2, <2>3, SwitchKeeps, SaveKeeps DEF FocusedTask, Follows, Switch, history
  <2>4. CASE ~Follows(seen)
    BY <2>1, <2>2, <2>4 DEF FocusedTask, SaveShown, history
  <2>. QED  BY <2>3, <2>4
<1>6. CASE ChildEnds
  BY <1>6 DEF ChildEnds
<1>7. CASE Deadline
  BY <1>7 DEF Deadline
<1>8. CASE Finish
  BY <1>8 DEF Finish
<1>9. CASE Restart
  <2>1. ticking' \in BOOLEAN
    BY <1>9, Zenon DEF Restart
  <2>2. loading' = FALSE /\ entry' \in Texts /\ task' \in Owners /\ ~Sending'
        /\ child' = "none" /\ faults' \in 0..MaxFaults
    BY <1>9 DEF Restart
  <2>3. queued' \subseteq Tasks \X Texts
    BY <1>9 DEF Restart
  <2>4. UNCHANGED <<focus, draft, written>>
    BY <1>9 DEF Restart
  <2>5. unsaved' = unsaved \cup {t \in Tasks : t = task /\ ~loading /\ draft[t] # entry}
    BY <1>9 DEF Restart
  <2>6. task' \in Tasks => entry' = draft'[task']
    BY <1>9 DEF Restart
  <2>7. TextKept'
    BY <2>2, <2>4, <2>5, <2>6
  <2>8. loading' \in BOOLEAN /\ sent' = Nothing
    BY <1>9, Zenon DEF Restart, Load
  <2>9. ShelfTypeOK'
    BY <2>1, <2>2, <2>3, <2>4, <2>5, <2>8
  <2>. QED  BY <2>2, <2>6, <2>7, <2>9
<1>10. ASSUME NEW x \in Texts, Edit(x) PROVE ShelfInv'
  BY <1>10 DEF Edit
<1>11. CASE UNCHANGED shelfVars
  BY <1>11 DEF shelfVars
<1>. QED
  BY <1>1, <1>2, <1>3, <1>4, <1>5, <1>6, <1>7, <1>8, <1>9, <1>10, <1>11 DEF ShelfNext

THEOREM AlwaysShelfInv == ShelfSpec => []ShelfInv
<1>. QED  BY InitShelf, NextShelf, PTL DEF ShelfSpec

\* Every variable keeps its type.
THEOREM ShelfTypeCorrect == ShelfSpec => []ShelfTypeOK
<1>1. ShelfInv => ShelfTypeOK
  BY DEF ShelfInv
<1>. QED  BY <1>1, AlwaysShelfInv, PTL

\* What a person wrote is in the draft or on show, unless it was typed over a
\* draft that cannot be read, or was saved nowhere when the shelf was restarted.
THEOREM TextStays == ShelfSpec => []TextKept
<1>1. ShelfInv => TextKept
  BY DEF ShelfInv
<1>. QED  BY <1>1, AlwaysShelfInv, PTL

\* A request being sent carries what was written for its task, unless the draft
\* of that task could not be loaded.
THEOREM WrittenIsSent == ShelfSpec => []SentAsWritten
<1>1. ShelfInv => SentAsWritten
  BY ShelfAssumption DEF ShelfAssumption, ShelfInv, ShelfTypeOK, TextKept, Frozen, SentAsWritten,
       Sending, Nothing, Owners
<1>. QED  BY <1>1, AlwaysShelfInv, PTL

\* A draft is emptied only by its owner or once its text is queued.
THEOREM ClearedWhenQueued == ShelfSpec => ClearedOnlyWhenQueued
<1>1. ASSUME ShelfInv, ShelfInv', [ShelfNext]_shelfVars, NEW t \in Tasks,
             draft[t] # Blank, draft'[t] = Blank, written[t] # Blank
      PROVE  <<t, draft[t]>> \in queued \/ (written'[t] # written[t] /\ ~Sending)
  <2>. USE <1>1, ShelfAssumption
       DEF ShelfAssumption, ShelfInv, ShelfTypeOK, TextKept, Frozen, Sending, Nothing, Owners,
           shelf, history, Save, Keep
  <2>1. ASSUME NEW u \in Owners, Focus(u) PROVE FALSE
    BY <2>1 DEF Focus
  <2>2. ASSUME NEW key \in Owners, NEW choice \in Tasks, OpenSurface(key, choice) PROVE FALSE
    BY <2>2 DEF OpenSurface
  <2>3. CASE Tick
    <3>1. SaveShown \/ Stay
      BY <2>3 DEF Tick, Switch, SwitchHalf
    <3>. QED  BY <3>1, SaveKeeps DEF Stay
  <2>4. CASE FocusIn
    <3>1. SaveShown \/ Stay
      BY <2>4 DEF FocusIn, Switch, SwitchHalf
    <3>. QED  BY <3>1, SaveKeeps DEF Stay
  <2>5. CASE SubmitText
    <3>1. SaveShown
      BY <2>5 DEF SubmitText, Switch
    <3>. QED  BY <3>1, SaveKeeps
  <2>6. CASE ChildEnds
    BY <2>6 DEF ChildEnds
  <2>7. CASE Deadline
    BY <2>7 DEF Deadline
  <2>8. CASE Finish
    BY <2>8 DEF Finish
  <2>9. CASE Restart
    BY <2>9 DEF Restart
  <2>10. ASSUME NEW x \in Texts, Edit(x)
         PROVE  <<t, draft[t]>> \in queued \/ (written'[t] # written[t] /\ ~Sending)
    BY <2>10 DEF Edit
  <2>11. CASE UNCHANGED shelfVars
    BY <2>11 DEF shelfVars
  <2>. QED
    BY <2>1, <2>2, <2>3, <2>4, <2>5, <2>6, <2>7, <2>8, <2>9, <2>10, <2>11 DEF ShelfNext
<1>2. ShelfInv /\ ShelfInv' /\ [ShelfNext]_shelfVars =>
        [\A t \in Tasks : draft[t] # Blank /\ draft'[t] = Blank /\ written[t] # Blank
           => <<t, draft[t]>> \in queued \/ (written'[t] # written[t] /\ ~Sending)]_shelfVars
  BY <1>1
<1>. QED  BY <1>2, AlwaysShelfInv, PTL DEF ShelfSpec, ClearedOnlyWhenQueued
=============================================================================
