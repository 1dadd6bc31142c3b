----------------------------- MODULE AgentQueue -----------------------------
(***************************************************************************)
(* The private queue of Agent requests: clawos-agent-submit writes the     *)
(* files of a request and asks systemd for a transient unit,               *)
(* clawos-agent-run is that unit and hands the message to OpenClaw, and    *)
(* clawos-agent-request lists what no unit works on, and resumes or        *)
(* discards it for the person who looks at the list.  Nothing locks the    *)
(* files: the processes meet on them and on the name of the unit.          *)
(***************************************************************************)
EXTENDS FiniteSets, Disturb

CONSTANTS
    Requests,   \* request identifiers: 128 random bits, never repeated
    NoRequest

\* The disturbances it knows: "write", "late", "refuse", "probe", "kill" and
\* "crash".
ASSUME QueueAssumption ==
    /\ NoRequest \notin Requests
    /\ MaxFaults \in Nat

VARIABLES
    \* durable: the state directory of the account
    file,       \* the message file: absent, partial before its fsync, whole
    bound,      \* requests whose .task.json names their conversation
    receipt,    \* receipt of each request, "none" before the first
    \* the processes
    sub,        \* next step of each submitter, then what it answered
    unit,       \* state of each transient unit
    run,        \* next step of the runner inside it
    tool,       \* next step of the clawos-agent-request under way
    picked,     \* the request it works on
    cards,      \* requests in the last list
    \* history, for the properties
    handed,     \* what OpenClaw read of each request
    done,       \* requests OpenClaw completed
    dropped     \* requests whose file a discard deleted

disk == <<file, bound, receipt>>
runner == <<unit, run>>
center == <<tool, picked, cards>>
past == <<handed, done, dropped>>
vars == <<disk, sub, runner, center, faults, past>>

Contents == {"absent", "partial", "whole"}
Statuses == {"none", "needs-task", "failed", "completed", "discarded"}
Writing == {"create", "write", "ask"}
SubSteps == Writing \cup {"none", "wait", "sweep", "unbind", "queued", "refused", "gone"}
RunSteps == {"none", "validate", "bind", "hand", "working", "sweep", "unbind",
             "completed", "failed"}
ToolSteps == {"idle", "resume", "start", "wait",
              "discard", "unlink", "unbind", "record"}

Exists(r) == file[r] # "absent"
Unlink(r) == file' = [file EXCEPT ![r] = "absent"]
Unbind(r) == bound' = bound \ {r}
Record(r, s) == receipt' = [receipt EXCEPT ![r] = s]
SubGoto(r, l) == sub' = [sub EXCEPT ![r] = l]
RunGoto(r, l) == run' = [run EXCEPT ![r] = l]
ToolGoto(l) == tool' = l /\ UNCHANGED <<picked, cards>>
ToolDone == tool' = "idle" /\ picked' = NoRequest /\ UNCHANGED cards

\* StartTransientUnit: the name of a loaded unit is refused.
Start(r) == unit' = [unit EXCEPT ![r] = "starting"]

\* The process of a unit ends; --collect unloads the unit.
Exit(r) == unit' = [unit EXCEPT ![r] = "none"] /\ RunGoto(r, "none")

-----------------------------------------------------------------------------
(* clawos-agent-submit.                                                     *)

\* The binding is on disk before the message.  A binding that cannot be
\* written ends the submitter with nothing queued.
Bind(r) ==
    /\ sub[r] = "none"
    /\ \/ bound' = bound \cup {r} /\ SubGoto(r, "create") /\ NoStrike
       \/ UNCHANGED bound /\ SubGoto(r, "refused") /\ Strike("write")
    /\ UNCHANGED <<file, receipt, runner, center, past>>

\* A failing open is not caught: the binding stays behind.
Create(r) ==
    /\ sub[r] = "create"
    /\ \/ file' = [file EXCEPT ![r] = "partial"] /\ SubGoto(r, "write") /\ NoStrike
       \/ UNCHANGED file /\ SubGoto(r, "refused") /\ Strike("write")
    /\ UNCHANGED <<bound, receipt, runner, center, past>>

\* A discard in between removes the name: the text goes to an unlinked file.
Write(r) ==
    /\ sub[r] = "write"
    /\ \/ /\ file' = IF Exists(r) THEN [file EXCEPT ![r] = "whole"] ELSE file
          /\ SubGoto(r, "ask") /\ NoStrike
       \/ UNCHANGED file /\ SubGoto(r, "sweep") /\ Strike("write")
    /\ UNCHANGED <<bound, receipt, runner, center, past>>

\* systemd-run asks for the unit and waits for its process to start.
Ask(r) ==
    /\ sub[r] = "ask"
    /\ \/ unit[r] = "none" /\ Start(r) /\ SubGoto(r, "wait") /\ NoStrike
       \/ UNCHANGED unit /\ SubGoto(r, "sweep")
          /\ IF unit[r] = "none" THEN Strike("refuse") ELSE NoStrike
    /\ UNCHANGED <<disk, run, center, past>>

\* It answers once the process runs or has ended already, or its 10 s pass.
Answer(r) ==
    /\ sub[r] = "wait"
    /\ \/ unit[r] # "starting" /\ SubGoto(r, "queued") /\ NoStrike
       \/ SubGoto(r, "sweep") /\ Strike("late")
    /\ UNCHANGED <<disk, runner, center, past>>

\* The error path deletes the message, then the binding, and says so.
SweepFile(r) ==
    /\ sub[r] = "sweep" /\ Unlink(r) /\ SubGoto(r, "unbind")
    /\ UNCHANGED <<bound, receipt, runner, center, faults, past>>

SweepBinding(r) ==
    /\ sub[r] = "unbind" /\ Unbind(r) /\ SubGoto(r, "refused")
    /\ UNCHANGED <<file, receipt, runner, center, faults, past>>

Submit(r) ==
    \/ Bind(r) \/ Create(r) \/ Write(r) \/ Ask(r) \/ Answer(r)
    \/ SweepFile(r) \/ SweepBinding(r)

-----------------------------------------------------------------------------
(* clawos-agent-run, the process of the unit.                               *)

Exec(r) ==
    /\ unit[r] = "starting"
    /\ unit' = [unit EXCEPT ![r] = "running"] /\ RunGoto(r, "validate")
    /\ UNCHANGED <<disk, sub, center, faults, past>>

\* Without its message file the runner ends, and leaves no receipt.
Validate(r) ==
    /\ run[r] = "validate"
    /\ IF Exists(r) THEN RunGoto(r, "bind") /\ UNCHANGED unit ELSE Exit(r)
    /\ UNCHANGED <<disk, sub, center, faults, past>>

ReadBinding(r) ==
    /\ run[r] = "bind"
    /\ IF r \in bound THEN RunGoto(r, "hand") /\ UNCHANGED <<receipt, unit>>
       ELSE Record(r, "needs-task") /\ Exit(r)
    /\ UNCHANGED <<file, bound, sub, center, faults, past>>

\* openclaw agent --message-file: it fails when it cannot read the file.
Hand(r) ==
    /\ run[r] = "hand"
    /\ IF Exists(r)
       THEN handed' = [handed EXCEPT ![r] = file[r]] /\ RunGoto(r, "working")
       ELSE RunGoto(r, "failed") /\ UNCHANGED handed
    /\ UNCHANGED <<disk, sub, unit, center, faults, done, dropped>>

\* It ends with success, or with an error or after 900 s.
Work(r) ==
    /\ run[r] = "working"
    /\ \/ RunGoto(r, "sweep") /\ done' = done \cup {r}
       \/ RunGoto(r, "failed") /\ UNCHANGED done
    /\ UNCHANGED <<disk, sub, unit, center, faults, handed, dropped>>

\* Mutant of RunSweep: the message goes whatever the outcome.
RunSweepAlways(r) ==
    /\ run[r] \in {"sweep", "failed"} /\ Unlink(r)
    /\ RunGoto(r, IF run[r] = "sweep" THEN "unbind" ELSE "failed")
    /\ UNCHANGED <<bound, receipt, sub, unit, center, faults, past>>

\* Only a completed request leaves the queue: message, then binding.
RunSweep(r) ==
    /\ run[r] = "sweep" /\ Unlink(r) /\ RunGoto(r, "unbind")
    /\ UNCHANGED <<bound, receipt, sub, unit, center, faults, past>>

RunUnbind(r) ==
    /\ run[r] = "unbind" /\ Unbind(r) /\ RunGoto(r, "completed")
    /\ UNCHANGED <<file, receipt, sub, unit, center, faults, past>>

\* The receipt replaces an earlier one.
Report(r) ==
    /\ run[r] \in {"completed", "failed"} /\ Record(r, run[r]) /\ Exit(r)
    /\ UNCHANGED <<file, bound, sub, center, faults, past>>

Runner(r) ==
    \/ Exec(r) \/ Validate(r) \/ ReadBinding(r) \/ Hand(r) \/ Work(r)
    \/ RunSweep(r) \/ RunUnbind(r) \/ Report(r)

-----------------------------------------------------------------------------
(* clawos-agent-request, and the surface that shows its list.               *)

\* Mutant of Interrupted: a request whose unit is gone is not looked for.
InterruptedLoaded == {r \in Requests : Exists(r) /\ unit[r] = "starting"}

\* is-active is false for a unit that is still starting.
Interrupted == {r \in Requests : Exists(r) /\ unit[r] # "running"}

\* is-active has 3 s: no answer counts as not active.
List ==
    /\ \/ cards' = Interrupted /\ cards' # cards /\ NoStrike
       \/ \E r \in Requests \ Interrupted :
              Exists(r) /\ cards' = Interrupted \cup {r} /\ Strike("probe")
    /\ UNCHANGED <<disk, sub, runner, tool, picked, past>>

\* A person acts on a card, which may be out of date.
Choose(op, r) ==
    /\ tool = "idle" /\ r \in cards
    /\ tool' = op /\ picked' = r
    /\ UNCHANGED <<disk, sub, runner, cards, faults, past>>

\* Both commands look at the file and at the unit before they act.
Check ==
    /\ tool \in {"resume", "discard"}
    /\ LET act == ToolGoto(IF tool = "resume" THEN "start" ELSE "unlink") IN
       \/ Exists(picked) /\ unit[picked] # "running" /\ act /\ NoStrike
       \/ Exists(picked) /\ unit[picked] = "running" /\ act /\ Strike("probe")
       \/ (~Exists(picked) \/ unit[picked] = "running") /\ ToolDone /\ NoStrike
    /\ UNCHANGED <<disk, sub, runner, past>>

Resume ==
    /\ tool = "start"
    /\ IF unit[picked] = "none" THEN Start(picked) /\ ToolGoto("wait")
       ELSE ToolDone /\ UNCHANGED unit
    /\ UNCHANGED <<disk, sub, run, faults, past>>

ResumeAnswer ==
    /\ tool = "wait" /\ ToolDone
    /\ IF unit[picked] = "starting" THEN Strike("late") ELSE NoStrike
    /\ UNCHANGED <<disk, sub, runner, past>>

\* Mutant of DiscardFile: a message that is gone already is not noticed.
DiscardFileMissingOk ==
    /\ tool = "unlink"
    /\ Unlink(picked) /\ ToolGoto("unbind")
    /\ dropped' = IF Exists(picked) THEN dropped \cup {picked} ELSE dropped
    /\ UNCHANGED <<bound, receipt, sub, runner, faults, handed, done>>

\* Mutant of DiscardFile: the binding goes before the message.
DiscardFileUnbound ==
    /\ tool = "unlink"
    /\ IF Exists(picked) THEN Unbind(picked) /\ ToolGoto("record")
       ELSE ToolDone /\ UNCHANGED bound
    /\ UNCHANGED <<file, receipt, sub, runner, faults, past>>

\* A message that is gone meanwhile ends the command.
DiscardFile ==
    /\ tool = "unlink"
    /\ IF Exists(picked)
       THEN Unlink(picked) /\ dropped' = dropped \cup {picked} /\ ToolGoto("unbind")
       ELSE ToolDone /\ UNCHANGED <<file, dropped>>
    /\ UNCHANGED <<bound, receipt, sub, runner, faults, handed, done>>

DiscardBinding ==
    /\ tool = "unbind" /\ Unbind(picked) /\ ToolGoto("record")
    /\ UNCHANGED <<file, receipt, sub, runner, faults, past>>

DiscardRecord ==
    /\ tool = "record" /\ Record(picked, "discarded") /\ ToolDone
    /\ UNCHANGED <<file, bound, sub, runner, faults, past>>

Tool ==
    \/ Check \/ Resume \/ ResumeAnswer
    \/ DiscardFile \/ DiscardBinding \/ DiscardRecord

-----------------------------------------------------------------------------
(* Disturbances.                                                            *)

\* A unit is killed, or the process of a starting one cannot be executed.
Kill(r) ==
    /\ unit[r] # "none" /\ Strike("kill") /\ Exit(r)
    /\ UNCHANGED <<disk, sub, center, past>>

\* The surface that started a submitter waits 12 s, then kills it.
Abandon(r) ==
    /\ sub[r] \in Writing \cup {"wait", "sweep", "unbind"}
    /\ Strike("kill") /\ SubGoto(r, "gone")
    /\ UNCHANGED <<disk, runner, center, past>>

\* The session ends with everything that runs in it.
Crash ==
    /\ Strike("crash")
    /\ sub' = [r \in Requests |-> IF sub[r] \in {"none", "queued", "refused"}
                                  THEN sub[r] ELSE "gone"]
    /\ unit' = [r \in Requests |-> "none"] /\ run' = [r \in Requests |-> "none"]
    /\ tool' = "idle" /\ picked' = NoRequest /\ cards' = {}
    /\ UNCHANGED <<disk, past>>

\* Nobody asks for anything.
Idle == UNCHANGED vars

-----------------------------------------------------------------------------

Init ==
    /\ file = [r \in Requests |-> "absent"] /\ bound = {}
    /\ receipt = [r \in Requests |-> "none"]
    /\ sub = [r \in Requests |-> "none"]
    /\ unit = [r \in Requests |-> "none"] /\ run = [r \in Requests |-> "none"]
    /\ tool = "idle" /\ picked = NoRequest /\ cards = {}
    /\ faults = 0
    /\ handed = [r \in Requests |-> "absent"] /\ done = {} /\ dropped = {}

Next ==
    \/ \E r \in Requests : Submit(r) \/ Runner(r) \/ Kill(r) \/ Abandon(r)
                           \/ Choose("resume", r) \/ Choose("discard", r)
    \/ List \/ Tool \/ Crash \/ Idle

Spec == Init /\ [][Next]_vars

\* Processes run, and the desktop bar collects the list again and again.  A
\* person need not submit, resume or discard anything.
FairSpec ==
    Spec /\ WF_vars(List) /\ WF_vars(Tool)
         /\ \A r \in Requests : WF_vars(Runner(r)) /\ WF_vars(Submit(r) /\ sub[r] # "none")

-----------------------------------------------------------------------------
(* Properties.                                                              *)

\* Every variable has its type.
TypeOK ==
    /\ file \in [Requests -> Contents] /\ bound \subseteq Requests
    /\ receipt \in [Requests -> Statuses]
    /\ sub \in [Requests -> SubSteps]
    /\ unit \in [Requests -> {"none", "starting", "running"}]
    /\ run \in [Requests -> RunSteps]
    /\ tool \in ToolSteps /\ picked \in Requests \cup {NoRequest}
    /\ cards \subseteq Requests
    /\ faults \in 0..MaxFaults
    /\ handed \in [Requests -> Contents]
    /\ done \subseteq Requests /\ dropped \subseteq Requests

\* A message on disk always has the binding that names its conversation, so
\* that no interrupted or resumed request has to be refused for want of one:
\* submit, run and discard may be stopped between any two of their steps.
BoundWhileQueued == \A r \in Requests : Exists(r) => r \in bound

\* A request whose submitter answered that it is queued leaves the queue only
\* after OpenClaw completed it or a person discarded it, however runners,
\* discards, timeouts and crashes fall together.
NothingLostUnrun ==
    \A r \in Requests : sub[r] = "queued" /\ ~Exists(r) => r \in done \cup dropped

\* OpenClaw never reads a half-written message of a submitter that has gone on
\* to ask for a unit; only the message of one that is still writing, or that
\* failed or died while it did, can be resumed incomplete.
HandedWholeOnceAsked ==
    [][\A r \in Requests :
          handed'[r] = "partial" /\ handed[r] # "partial"
              => sub[r] \notin {"ask", "wait", "queued"}]_vars

\* The receipt of a completed request that no discard deleted stays: a discard
\* or a second run that lost the race against the runner records nothing.
CompletedIsFinal ==
    [][\A r \in Requests :
          receipt[r] = "completed" /\ r \notin dropped => receipt'[r] = "completed"]_vars

\* Whatever is answered as queued gets a receipt, or stands in the list of
\* interrupted requests where a person can resume it: kills and crashes leave
\* no request that nobody sees.
AcceptedResolves ==
    \A r \in Requests :
        sub[r] = "queued"
            ~> receipt[r] # "none" \/ r \in cards \/ r \in done \cup dropped

=============================================================================
