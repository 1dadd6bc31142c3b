-------------------------------- MODULE Shelf --------------------------------
(***************************************************************************)
(* The composer over the task windows (clawos-agent-shelf): it follows the *)
(* focused window, keeps one private draft per task (clawos_task.py) and   *)
(* hands what is written to clawos-agent-submit in a thread of its own.    *)
(* The private queue behind that helper is the module AgentQueue.          *)
(***************************************************************************)
EXTENDS Disturb

CONSTANTS
    Tasks,      \* conversations that have windows
    NoTask,
    Texts,      \* what a person may write, and Blank
    Blank

\* The disturbances it knows: "probe", "write", "read", "refuse", "late" and
\* "restart".
ASSUME ShelfAssumption ==
    /\ NoTask \notin Tasks /\ Blank \in Texts
    /\ MaxFaults \in Nat

VARIABLES
    focus,      \* the task of the focused window
    draft,      \* the private draft file of each task
    \* the shelf
    task,       \* the task the composer shows
    entry,      \* and the text in it
    loading,    \* loading_draft: the text is being replaced, nothing is saved
    ticking,    \* its one-second timer is alive
    sent,       \* what is being queued: the task and the text, frozen
    child,      \* clawos-agent-submit: "none", "running", then its outcome
    queued,     \* what the queue has accepted, as <<task, text>>
    \* history, for the properties
    written,    \* what the person last wrote for each task
    unsaved     \* tasks whose last text was typed while their draft could not
                \* be read, or was on no disk when the shelf was restarted

shelf == <<task, entry, loading, ticking, sent>>
history == <<written, unsaved>>
shelfVars == <<focus, draft, shelf, child, queued, faults, history>>

Owners == Tasks \cup {NoTask}
Nothing == <<NoTask, Blank>>
Sending == sent # Nothing

-----------------------------------------------------------------------------
(* clawos_task.py.                                                          *)

\* The focused window is looked up by its application id, which carries the
\* hash of the key; whatever cannot be read owns nothing.
FocusedTask(seen) ==
    \/ seen = focus /\ NoStrike
    \/ seen = NoTask /\ focus # NoTask /\ Strike("probe")

\* The main program: the terminal's key, else the focused task, else a choice.
OwningTask(key, seen, choice) ==
    CASE key # NoTask -> key
      [] key = NoTask /\ seen # NoTask -> seen
      [] OTHER -> choice

\* A draft is replaced whole, or not at all.
Save(t, x) == draft' = [draft EXCEPT ![t] = x]
Keep == UNCHANGED draft

-----------------------------------------------------------------------------
(* The windows.                                                             *)

Focus(t) ==
    /\ focus' = t
    /\ UNCHANGED <<draft, shelf, child, queued, faults, history>>

\* A shortcut or a command of a task terminal opens a window of the task.
OpenSurface(key, choice) ==
    /\ \E seen \in Owners : FocusedTask(seen) /\ focus' = OwningTask(key, seen, choice)
    /\ UNCHANGED <<draft, shelf, child, queued, history>>

-----------------------------------------------------------------------------
(* clawos-agent-shelf.                                                      *)

Follows(seen) == ~Sending /\ seen # task

\* What is on show is saved, unless loading_draft says it is not the person's.
SaveShown == IF task = NoTask \/ loading THEN Keep ELSE Save(task, entry)

Load(seen) == entry' = (IF seen = NoTask THEN Blank ELSE draft[seen]) /\ loading' = FALSE

\* Mutant of Switch: the text was saved while it was written, so it is not
\* saved again.
SwitchUnsaved(seen) == Keep /\ task' = seen /\ Load(seen)

\* The draft of one task is saved and that of the other loaded.
Switch(seen) == SaveShown /\ task' = seen /\ Load(seen)

\* A draft that is there and cannot be read: the composer is on the new task
\* with the text of the old one, and saves nothing until it loads another.
SwitchHalf(seen) ==
    /\ seen = focus /\ seen # NoTask /\ Strike("read")
    /\ SaveShown /\ task' = seen /\ loading' = TRUE /\ UNCHANGED entry

Stay == UNCHANGED <<draft, task, entry, loading>>

\* The timer.  An exception in its callback ends it.
Tick ==
    /\ ticking
    /\ \E seen \in Owners :
          \/ Follows(seen) /\ FocusedTask(seen) /\ Switch(seen) /\ UNCHANGED ticking
          \/ ~Follows(seen) /\ FocusedTask(seen) /\ Stay /\ UNCHANGED ticking
          \/ Follows(seen) /\ SwitchHalf(seen) /\ ticking' = FALSE
          \/ /\ seen = focus /\ Follows(seen) /\ task # NoTask /\ ~loading
             /\ Strike("write") /\ Stay /\ ticking' = FALSE
    /\ UNCHANGED <<focus, sent, child, queued, history>>

\* The entry is clicked, or Enter gets no further: an exception in a signal
\* handler is only printed.
FocusIn ==
    /\ \E seen \in Owners :
          \/ Follows(seen) /\ FocusedTask(seen) /\ Switch(seen)
          \/ ~Follows(seen) /\ FocusedTask(seen) /\ Stay
          \/ Follows(seen) /\ SwitchHalf(seen)
    /\ UNCHANGED <<focus, ticking, sent, child, queued, history>>

\* Every change of the entry is saved, if it can be and nothing is loading.
Edit(x) ==
    /\ task # NoTask /\ ~Sending /\ x # entry
    /\ entry' = x /\ written' = [written EXCEPT ![task] = x]
    /\ unsaved' = IF loading THEN unsaved \cup {task} ELSE unsaved \ {task}
    /\ \/ ~loading /\ Save(task, x) /\ NoStrike
       \/ ~loading /\ Keep /\ Strike("write")
       \/ loading /\ Keep /\ NoStrike
    /\ UNCHANGED <<focus, task, loading, ticking, sent, child, queued>>

\* Mutant of SubmitText: the destination is taken before the composer follows.
SubmitTextEarly ==
    /\ ~Sending /\ task # NoTask
    /\ \E seen \in Owners :
          /\ FocusedTask(seen) /\ Follows(seen) /\ Switch(seen)
          /\ entry' # Blank /\ sent' = <<task, entry'>> /\ child' = "running"
    /\ UNCHANGED <<focus, ticking, queued, history>>

\* Enter: the composer follows the focus once more, then what it shows is
\* saved and frozen.
SubmitText ==
    /\ ~Sending
    /\ \E seen \in Owners :
          /\ FocusedTask(seen)
          /\ IF Follows(seen) THEN Switch(seen) ELSE SaveShown /\ UNCHANGED <<task, entry, loading>>
          /\ task' # NoTask /\ entry' # Blank
          /\ sent' = <<task', entry'>> /\ child' = "running"
    /\ UNCHANGED <<focus, ticking, queued, history>>

\* The queue's answer, or its refusal.
ChildEnds ==
    /\ child = "running"
    /\ \/ queued' = queued \cup {sent} /\ child' = "queued" /\ NoStrike
       \/ UNCHANGED queued /\ child' = "refused" /\ Strike("refuse")
    /\ UNCHANGED <<focus, draft, shelf, history>>

\* After twelve seconds the helper is killed, whether or not it has queued.
Deadline ==
    /\ child = "running" /\ Strike("late")
    /\ queued' \in {queued, queued \cup {sent}} /\ child' = "offline"
    /\ UNCHANGED <<focus, draft, shelf, history>>

\* Mutant of Finish: the composer is emptied whatever the answer was.
FinishAnyway ==
    /\ Sending /\ child \notin {"none", "running"}
    /\ draft' = [draft EXCEPT ![sent[1]] = Blank] /\ entry' = Blank
    /\ sent' = Nothing /\ child' = "none"
    /\ written' = [written EXCEPT ![sent[1]] = Blank]
    /\ UNCHANGED <<focus, task, loading, ticking, queued, faults, unsaved>>

\* The callback clears the draft that was queued, unless a newer one has taken
\* its place.  If that draft cannot be read or written, the composer stays
\* frozen.
Finish ==
    LET t == sent[1]  same == draft[t] = sent[2]  mine == task = t /\ entry = sent[2] IN
    /\ Sending
    /\ \/ /\ child = "queued" /\ sent' = Nothing /\ child' = "none" /\ NoStrike
          /\ IF same \/ (mine /\ ~loading) THEN Save(t, Blank) ELSE Keep
          /\ entry' = IF mine THEN Blank ELSE entry
          /\ written' = IF same \/ (mine /\ ~loading) THEN [written EXCEPT ![t] = Blank]
                                                     ELSE written
       \/ /\ child = "queued" /\ (Strike("read") \/ (same /\ Strike("write")))
          /\ child' = "none" /\ UNCHANGED <<draft, entry, sent, written>>
       \/ /\ child \in {"refused", "offline"} /\ sent' = Nothing /\ child' = "none"
          /\ UNCHANGED <<draft, entry, faults, written>>
    /\ UNCHANGED <<focus, task, loading, ticking, queued, unsaved>>

\* The shelf starts anew, once it can read the draft; a helper that was running
\* may still have queued.  The text on show goes with the shelf.
Restart ==
    /\ Strike("restart")
    /\ task' = focus /\ Load(focus)
    /\ ticking' = TRUE /\ sent' = Nothing /\ child' = "none"
    /\ queued' \in IF child = "running" THEN {queued, queued \cup {sent}} ELSE {queued}
    /\ unsaved' = unsaved \cup {t \in Tasks : t = task /\ ~loading /\ draft[t] # entry}
    /\ UNCHANGED <<focus, draft, written>>

-----------------------------------------------------------------------------

ShelfInit ==
    /\ focus \in Owners /\ draft \in [Tasks -> Texts] /\ written = draft
    /\ task = focus /\ entry = IF focus = NoTask THEN Blank ELSE draft[focus]
    /\ loading = FALSE /\ ticking = TRUE /\ sent = Nothing /\ child = "none"
    /\ queued = {} /\ faults = 0 /\ unsaved = {}

ShelfNext ==
    \/ \E t \in Owners : Focus(t)
    \/ \E key \in Owners, choice \in Tasks : OpenSurface(key, choice)
    \/ Tick \/ FocusIn \/ SubmitText \/ ChildEnds \/ Deadline \/ Finish \/ Restart
    \/ \E x \in Texts : Edit(x)

ShelfSpec == ShelfInit /\ [][ShelfNext]_shelfVars

-----------------------------------------------------------------------------

\* Every variable has its type.
ShelfTypeOK ==
    /\ focus \in Owners /\ task \in Owners /\ entry \in Texts
    /\ draft \in [Tasks -> Texts] /\ written \in [Tasks -> Texts]
    /\ ticking \in BOOLEAN /\ loading \in BOOLEAN /\ unsaved \subseteq Tasks
    /\ sent \in Owners \X Texts
    /\ child \in {"none", "running", "queued", "refused", "offline"}
    /\ queued \subseteq Tasks \X Texts /\ faults \in 0..MaxFaults

\* What a person wrote for a task is in its draft, or still in the composer
\* that shows the task, until it is queued: switching windows, probes that
\* fail, drafts that cannot be written and refused requests lose none of it.
\* It is lost (unsaved) only when it was typed over a draft that could not be
\* read, or when its last save failed and the shelf was then restarted; the
\* next text typed for the task is kept again.
TextKept ==
    \A t \in Tasks \ unsaved :
        written[t] = IF t = task /\ ~loading THEN entry ELSE draft[t]

\* A draft that holds a text loses it only to what the person wrote instead,
\* or once that text is queued for its own task.
ClearedOnlyWhenQueued ==
    [][\A t \in Tasks : draft[t] # Blank /\ draft'[t] = Blank /\ written[t] # Blank
          => <<t, draft[t]>> \in queued \/ (written'[t] # written[t] /\ ~Sending)]_shelfVars

\* A request goes to the conversation its text was written for, and carries
\* what was last written there if that was not lost (unsaved), unless the
\* composer is on a task whose draft it could not read (loading): then Enter
\* sends whatever text is on show.
SentAsWritten ==
    Sending /\ ~loading /\ sent[1] \notin unsaved => written[sent[1]] = sent[2]

=============================================================================
