------------------------------- MODULE Center -------------------------------
(***************************************************************************)
(* Work and decisions: clawos_attention.py collects what waits for the     *)
(* person from four commands and two directories, behind one lock and one  *)
(* five-second snapshot, for the desktop bar and for the Center window of  *)
(* clawos_approval.py, which draws it, polls it from a thread and sends    *)
(* the person's decisions from another.                                    *)
(***************************************************************************)
EXTENDS FiniteSets, Disturb

CONSTANTS
    Items,      \* pieces of work, each with an identity of its own
    KindOf,     \* the source that lists each of them
    Malformed,  \* items whose card raises while it is drawn
    Nothing

Queried == {"machine", "approvals", "tasks", "interrupted"}
Kinds == Queried \cup {"deployments", "notice"}
Disturbances == {"query", "write"}

ASSUME CenterAssumption ==
    /\ IsFiniteSet(Items)
    /\ KindOf \in [Items -> Kinds] /\ Malformed \subseteq Items
    /\ Nothing \notin Items
    /\ Faults \subseteq Disturbances /\ MaxFaults \in Nat

VARIABLES
    work,       \* what each item is in its source
    seen,       \* reviewed failures and notices, in center-seen.json
    \* the shared collector
    cache,      \* the last snapshot of the sources
    fresh,      \* it is less than five seconds old
    holder,     \* who holds its lock
    asked,      \* sources whose answer is outstanding
    got,        \* what the holder has gathered
    \* the Center window
    open,
    stage,      \* "idle" unless a refresh is under way
    snap,       \* what its thread collected, until it is drawn
    screen,     \* last_snapshot, the last one the window began to draw
    dialog,     \* the item a modal question is about
    sensitive,  \* the window takes input
    deciding    \* items whose decision a thread is carrying out

collector == <<cache, fresh, holder, asked, got>>
input == <<dialog, sensitive, deciding>>
window == <<open, stage, snap, screen>>
vars == <<work, seen, collector, window, input, faults>>

OfKind(k) == {i \in Items : KindOf[i] = k}
Waiting == {i \in Items : work[i] = "waiting"}
Running == {i \in Items : work[i] = "running"}

\* Sources that list nothing in this instance are left out.
Sources == {KindOf[i] : i \in Items} \cap Queried

\* Only failures and notices are reviewed; the rest has to be decided.
Reviewable == OfKind("tasks") \cup OfKind("deployments") \cup OfKind("notice")

\* What a source answered; missed is history: what it would have answered.
Answers == [waiting : SUBSET Items, active : SUBSET Items,
            errors : SUBSET Sources, missed : SUBSET Items]
NoAnswers == [waiting |-> {}, active |-> {}, errors |-> {}, missed |-> {}]

Snapshots == [review : SUBSET Items, active : SUBSET Items,
              errors : SUBSET Sources, missed : SUBSET Items]
Blank == [review |-> {}, active |-> {}, errors |-> {}, missed |-> {}]

Count(s) == Cardinality(s.review) + Cardinality(s.errors)

-----------------------------------------------------------------------------
(* clawos_attention.py.                                                     *)

\* The sources' answers, with the receipts of deployments and the activity's
\* notice read afresh.  A notice stands for something that is not listed: it
\* is left out while anything concrete waits.
Project(a) ==
    LET concrete == (a.waiting \cup (Waiting \cap OfKind("deployments"))) \ seen
        hint == IF concrete = {} THEN (Waiting \cap OfKind("notice")) \ seen ELSE {}
    IN [review |-> concrete \cup hint,
        active |-> a.active \cup (Running \cap OfKind("deployments")),
        errors |-> a.errors,
        missed |-> a.missed \ seen]

\* Mutant of Answer: a source that fails counts as empty.
AnswerEmpty(s) ==
    /\ holder # Nothing /\ s \in asked /\ asked' = asked \ {s}
    /\ \/ got' = [got EXCEPT !.waiting = @ \cup (Waiting \cap OfKind(s))] /\ NoStrike
       \/ got' = [got EXCEPT !.missed = @ \cup (Waiting \cap OfKind(s))] /\ Strike("query")
    /\ UNCHANGED <<work, seen, cache, fresh, holder, window, input>>

\* An unread source answers nothing and is listed as unavailable.
Answer(s) ==
    /\ holder # Nothing /\ s \in asked /\ asked' = asked \ {s}
    /\ \/ got' = [got EXCEPT !.waiting = @ \cup (Waiting \cap OfKind(s)),
                             !.active = @ \cup (Running \cap OfKind(s) \cap OfKind("tasks"))]
          /\ NoStrike
       \/ got' = [got EXCEPT !.errors = @ \cup {s},
                             !.missed = @ \cup (Waiting \cap OfKind(s))]
          /\ Strike("query")
    /\ UNCHANGED <<work, seen, cache, fresh, holder, window, input>>

\* The lock is free: a young snapshot is reused, else the sources are asked.
Lookup(c) ==
    /\ holder = Nothing /\ ~fresh
    /\ holder' = c /\ asked' = Sources /\ got' = NoAnswers
    /\ UNCHANGED <<cache, fresh, faults>>

Reuse(c) == holder = Nothing /\ fresh /\ UNCHANGED <<collector, faults>>

\* The snapshot is replaced in one rename.
Store(c) ==
    /\ holder = c /\ asked = {}
    /\ cache' = got /\ fresh' = TRUE /\ holder' = Nothing /\ got' = NoAnswers
    /\ UNCHANGED <<asked, faults>>

StoreFails(c) ==
    /\ holder = c /\ asked = {} /\ Strike("write")
    /\ holder' = Nothing /\ got' = NoAnswers
    /\ UNCHANGED <<cache, fresh, asked>>

\* An old snapshot is never read again.
Expire ==
    /\ fresh /\ fresh' = FALSE /\ cache' = NoAnswers
    /\ UNCHANGED <<work, seen, holder, asked, got, window, input, faults>>

\* The bar runs the script again and again, and shows the text of what it
\* collected.
BarCollect ==
    /\ Lookup("bar") \/ Store("bar") \/ StoreFails("bar")
    /\ UNCHANGED <<work, seen, window, input>>

BarText(s) ==
    IF Count(s) > 0 THEN "Review" ELSE IF s.active # {} THEN "Working" ELSE "Work"

-----------------------------------------------------------------------------
(* The Center's refresh.                                                    *)

\* A refresh during a refresh is dropped.
Refresh == stage' = IF stage = "idle" THEN "collect" ELSE stage

\* One window at a time: a second one only brings the first to the front.
Open ==
    /\ ~open /\ open' = TRUE /\ screen' = Blank /\ stage' = "collect"
    /\ UNCHANGED <<work, seen, collector, snap, input, faults>>

\* Mutant of Poll: the window refreshes only while nothing is on it.
PollEmpty ==
    /\ open /\ sensitive /\ stage = "idle" /\ screen.review = {} /\ stage' = "collect"
    /\ UNCHANGED <<work, seen, collector, open, snap, screen, input, faults>>

\* Every five seconds, unless a decision is under way.
Poll ==
    /\ open /\ sensitive /\ stage = "idle" /\ stage' = "collect"
    /\ UNCHANGED <<work, seen, collector, open, snap, screen, input, faults>>

Collect ==
    /\ stage = "collect"
    /\ \/ Lookup("center") /\ UNCHANGED <<stage, snap>>
       \/ /\ Reuse("center") \/ Store("center")
          /\ snap' = Project(IF holder = "center" THEN got ELSE cache) /\ stage' = "draw"
       \/ StoreFails("center") /\ stage' = "report" /\ UNCHANGED snap
    /\ UNCHANGED <<work, seen, open, screen, input>>

\* The main loop draws the snapshot, or shows the error over what is there.
\* The snapshot that it began to draw last is not drawn again: what a card that
\* raised left off the window stays off, and the error is cleared.
Draw ==
    /\ stage \in {"draw", "report"} /\ stage' = "idle" /\ snap' = Blank
    /\ screen' = IF stage = "draw" THEN snap ELSE screen
    /\ UNCHANGED <<work, seen, collector, open, input, faults>>

\* What the window holds then: the counts, and the cards in their order up to
\* the first that raises, which ends the drawing of the others and of the work
\* under way.
Order == [k \in Kinds |-> CASE k = "notice" -> 1 [] k = "interrupted" -> 2
                            [] k = "machine" -> 3 [] k = "approvals" -> 4 [] OTHER -> 5]
Above(i, j) == Order[KindOf[i]] < Order[KindOf[j]]
Cards(s) == {i \in s.review : \A m \in Malformed \cap s.review : Above(i, m)}
ActiveCards(s) == IF Malformed \cap (s.review \cup s.active) = {} THEN s.active ELSE {}

-----------------------------------------------------------------------------
(* The person's decisions.                                                  *)

\* Mark reviewed is carried out at once.
Review(i) ==
    /\ open /\ sensitive /\ dialog = Nothing /\ i \in Cards(screen) \cap Reviewable
    /\ seen' = seen \cup {i} /\ Refresh
    /\ UNCHANGED <<work, collector, open, snap, screen, input, faults>>

\* Mutant of Send: the window goes on taking input.
SendSensitive(i) == deciding' = deciding \cup {i} /\ UNCHANGED sensitive
Send(i) == deciding' = deciding \cup {i} /\ sensitive' = FALSE

\* A system action or an approval is decided by one press.
Decide(i) ==
    /\ open /\ sensitive /\ dialog = Nothing /\ i \in Cards(screen)
    /\ KindOf[i] \in {"machine", "approvals"} /\ Send(i)
    /\ UNCHANGED <<work, seen, collector, window, dialog, faults>>

\* Stopping work, resuming and discarding a request are asked again, in a
\* dialog under which the window keeps polling.
Ask(i) ==
    /\ open /\ sensitive /\ dialog = Nothing
    /\ \/ i \in Cards(screen) /\ KindOf[i] = "interrupted"
       \/ i \in ActiveCards(screen) /\ KindOf[i] = "tasks"
    /\ dialog' = i
    /\ UNCHANGED <<work, seen, collector, window, sensitive, deciding, faults>>

Confirm ==
    /\ dialog # Nothing /\ dialog' = Nothing /\ Send(dialog)
    /\ UNCHANGED <<work, seen, collector, window, faults>>

Dismiss ==
    /\ dialog # Nothing /\ dialog' = Nothing
    /\ UNCHANGED <<work, seen, collector, window, sensitive, deciding, faults>>

\* What the command does; a resumed request runs again.
Effect(i) ==
    /\ work[i] = IF KindOf[i] = "tasks" THEN "running" ELSE "waiting"
    /\ \/ work' = [work EXCEPT ![i] = "gone"]
       \/ KindOf[i] = "interrupted" /\ work' = [work EXCEPT ![i] = "running"]

\* The command succeeds and the window refreshes, or it is refused, or its
\* answer is lost; in every case the window takes input again.
Finish(i) ==
    /\ i \in deciding /\ deciding' = deciding \ {i} /\ sensitive' = TRUE
    /\ \/ Effect(i) /\ Refresh
       \/ (UNCHANGED work \/ Effect(i)) /\ UNCHANGED stage
    /\ UNCHANGED <<seen, collector, open, snap, screen, dialog, faults>>

\* The process ends: its lock goes, a command it started may still act.
Close ==
    /\ open /\ open' = FALSE
    /\ stage' = "idle" /\ snap' = Blank /\ screen' = Blank
    /\ dialog' = Nothing /\ sensitive' = TRUE /\ deciding' = {}
    /\ IF holder = "center" THEN holder' = Nothing /\ asked' = {} /\ got' = NoAnswers
                            ELSE UNCHANGED <<holder, asked, got>>
    /\ UNCHANGED work \/ \E i \in deciding : Effect(i)
    /\ UNCHANGED <<seen, cache, fresh, faults>>

-----------------------------------------------------------------------------
(* The sources.                                                             *)

\* Tasks, deployments and requests run first; a notice replaces the last one.
Arise(i) ==
    /\ work[i] = "new"
    /\ work' = [j \in Items |->
          IF j = i THEN IF KindOf[i] \in {"tasks", "deployments", "interrupted"}
                        THEN "running" ELSE "waiting"
          ELSE IF KindOf[i] = "notice" /\ KindOf[j] = "notice" /\ work[j] = "waiting"
               THEN "gone" ELSE work[j]]
    /\ UNCHANGED <<seen, collector, window, input, faults>>

Fail(i) ==
    /\ work[i] = "running" /\ work' = [work EXCEPT ![i] = "waiting"]
    /\ UNCHANGED <<seen, collector, window, input, faults>>

\* It completes, expires, is withdrawn, decided elsewhere or delivered.  A
\* failed task stays listed.
Settle(i) ==
    /\ work[i] \in {"running", "waiting"}
    /\ KindOf[i] = "tasks" => work[i] = "running"
    /\ work' = [work EXCEPT ![i] = "gone"]
    /\ UNCHANGED <<seen, collector, window, input, faults>>

-----------------------------------------------------------------------------

Init ==
    /\ work = [i \in Items |-> "new"] /\ seen = {}
    /\ cache = NoAnswers /\ fresh = FALSE
    /\ holder = Nothing /\ asked = {} /\ got = NoAnswers
    /\ open = FALSE /\ stage = "idle" /\ snap = Blank /\ screen = Blank
    /\ dialog = Nothing /\ sensitive = TRUE /\ deciding = {}
    /\ faults = 0

Next ==
    \/ \E s \in Sources : Answer(s)
    \/ Expire \/ BarCollect
    \/ Open \/ Poll \/ Collect \/ Draw \/ Confirm \/ Dismiss \/ Close
    \/ \E i \in Items : \/ Review(i) \/ Decide(i) \/ Ask(i) \/ Finish(i)
                        \/ Arise(i) \/ Fail(i) \/ Settle(i)

Spec == Init /\ [][Next]_vars

\* Commands have timeouts, threads and main loops run, the snapshot grows old,
\* and the kernel grants a flock to its waiters in turn.  Nobody has to open
\* the window, press anything or answer a dialog.
FairSpec ==
    /\ Spec
    /\ WF_vars(\E s \in Sources : Answer(s)) /\ WF_vars(Expire)
    /\ WF_vars(BarCollect)
    /\ SF_vars(Poll) /\ SF_vars(Collect) /\ WF_vars(Draw)
    /\ \A i \in Items : WF_vars(Finish(i))

-----------------------------------------------------------------------------
(* Properties.                                                              *)

\* Every variable has its type.
TypeOK ==
    /\ work \in [Items -> {"new", "running", "waiting", "gone"}]
    /\ seen \subseteq Items
    /\ cache \in Answers /\ got \in Answers /\ fresh \in BOOLEAN
    /\ holder \in {Nothing, "bar", "center"} /\ asked \subseteq Sources
    /\ open \in BOOLEAN /\ stage \in {"idle", "collect", "draw", "report"}
    /\ snap \in Snapshots /\ screen \in Snapshots
    /\ dialog \in Items \cup {Nothing} /\ sensitive \in BOOLEAN
    /\ deciding \subseteq Items
    /\ faults \in 0..MaxFaults

\* "Unavailable sources appear as review items rather than pretending the queue
\* is empty": the bar and the window show nothing to review only when every
\* source answered, through the cache that keeps answers and failures alike.
QuietIsHonest ==
    \A s \in {screen, Project(cache)} : BarText(s) # "Review" => s.missed = {}

\* One decision at a time, and none while a question is open: the window gives
\* no input away until the thread of the last decision has ended.
OneDecision == Cardinality(deciding) <= 1 /\ (dialog # Nothing => deciding = {})

\* An open window comes to show what there is, again and again: no dropped
\* refresh, failed collection, old snapshot, refused decision or reused failure
\* keeps a settled card on it or a waiting item off it for good.  While a
\* malformed item waits, this is said of the count above the cards and of the
\* cards before that item's only; the rest of the window is never drawn.
InStep ==
    LET now == Project([waiting |-> UNION {Waiting \cap OfKind(s) : s \in Sources},
                        active |-> Running \cap OfKind("tasks"),
                        errors |-> {}, missed |-> {}])
    IN /\ Count(screen) = Count(now) /\ screen.errors = {}
       /\ Cards(screen) = Cards(now) /\ ActiveCards(screen) = ActiveCards(now)

CatchesUp == []<>(~open \/ InStep)

=============================================================================
