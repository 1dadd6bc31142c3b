------------------------------- MODULE Surface -------------------------------
(***************************************************************************)
(* The surface broker of a graphical session, clawos-surfaced, and the     *)
(* activity lifecycle of the OpenClaw plugin that reports to it.  Every    *)
(* session starts a broker of its own, which takes over from the one of a  *)
(* session that is gone by way of a lock directory; whichever serves       *)
(* answers one request after the other, and opens and marks windows.       *)
(***************************************************************************)
EXTENDS Sequences, FiniteSets, Disturb

CONSTANTS
    Apps, Runs, Kids,   \* applications, agent runs, delegated sessions
    MaxSessions,        \* bound: sessions, and so brokers, that are started
    MaxQueue           \* bound: requests that wait at one broker

Disturbances == {"stale", "crash", "patience", "slow", "focus", "gateway"}

Brokers == 1..MaxSessions
Nobody == 0

\* "over" is idle, complete or failed.
States == {"over", "running", "waiting", "needs-attention"}
Requests == States \cup {"attention", "clear"} \cup Apps

ASSUME SurfaceAssumption ==
    /\ Nobody \notin Apps /\ Apps \cap (States \cup {"attention", "clear"}) = {}
    /\ MaxSessions \in Nat \ {0} /\ MaxQueue \in Nat /\ MaxFaults \in Nat
    /\ Faults \subseteq Disturbances

VARIABLES
    \* the runtime directory and the persistent state
    dir,        \* the directory surfaced.lock exists
    pid,        \* the broker its pid file names, Nobody without one
    sock,       \* who listens on surface.sock
    disk,       \* the activity state in activity.json
    \* clawos-surfaced, broker b started by session b
    pc,         \* next step of each broker
    mem,        \* the activity state in its memory
    queue,      \* its requests, in the order they arrived
    opening,    \* applications whose window it waits for
    before,     \* the windows that were there when it launched them
    \* Sway
    session,    \* the session that is current
    gone,       \* sessions whose socket is no longer there
    starting,   \* applications launched, without a window yet
    shown,      \* applications whose window is there
    marks,      \* which window carries the mark of each application
    \* the plugin
    runs, kids, \* its two maps
    due,        \* a failed delegation has still to ask for attention
    \* history, for the properties
    struck,     \* the disturbances so far
    raced,      \* a broker was started while another was taking the lock
    blind       \* the last thing the plugin reported did not get through

lock == <<dir, pid>>
files == <<lock, sock, disk>>
opens == <<opening, before>>
sway == <<session, gone, starting, shown, marks>>
plugin == <<runs, kids, due>>
past == <<struck, raced, blind>>
vars == <<files, pc, mem, queue, opens, sway, plugin, faults, past>>

Taking == {"acquire", "pid", "read", "remove"}
Alive(b) == pc[b] \notin {"off", "exited"}
Owned == pid # Nobody /\ Alive(pid)

Hit(f) == Strike(f) /\ struck' = struck \cup {f}
Spared == NoStrike /\ UNCHANGED struck
Goto(b, l) == pc' = [pc EXCEPT ![b] = l]

-----------------------------------------------------------------------------
(* Taking over from the last broker.                                        *)

Start(b) ==
    /\ b = session /\ pc[b] = "off" /\ Goto(b, "acquire")
    /\ raced' = (raced \/ \E c \in Brokers : pc[c] \in Taking)
    /\ UNCHANGED <<files, mem, queue, opens, sway, plugin, faults, struck, blind>>

\* mkdir of the lock; after fifty attempts it gives up.
Acquire(b) ==
    /\ pc[b] = "acquire"
    /\ \/ ~dir /\ dir' = TRUE /\ Goto(b, "pid") /\ Spared
       \/ dir /\ UNCHANGED dir /\ Goto(b, "read") /\ Spared
       \/ dir /\ UNCHANGED dir /\ pid # Nobody /\ Goto(b, "exited") /\ Hit("patience")
    /\ UNCHANGED <<pid, sock, disk, mem, queue, opens, sway, plugin, raced, blind>>

\* The pid goes into whatever directory bears the name; without one it fails.
WritePid(b) ==
    /\ pc[b] = "pid"
    /\ IF dir THEN pid' = b /\ Goto(b, "listen") ELSE UNCHANGED pid /\ Goto(b, "exited")
    /\ UNCHANGED <<dir, sock, disk, mem, queue, opens, sway, plugin, faults, past>>

\* Mutant of ReadOwner: the broker of a session that is gone is left alone.
ReadOwnerYields(b) ==
    /\ pc[b] = "read"
    /\ Goto(b, IF Owned THEN "exited" ELSE "remove")
    /\ UNCHANGED <<files, mem, queue, opens, sway, plugin, faults, past>>

\* Mutant of ReadOwner: the lock is taken while its owner is still ending.
ReadOwnerSeizes(b) ==
    /\ pc[b] = "read"
    /\ \/ /\ Owned /\ pid \notin gone
          /\ Goto(b, "exited") /\ UNCHANGED sock
       \/ /\ Owned /\ pid \in gone
          /\ pc' = [pc EXCEPT ![pid] = "closing", ![b] = "remove"] /\ UNCHANGED sock
       \/ ~Owned /\ Goto(b, "remove") /\ UNCHANGED sock
    /\ UNCHANGED <<lock, disk, mem, queue, opens, sway, plugin, faults, past>>

\* A live owner whose compositor is there keeps its place, one whose compositor
\* is gone gets a SIGTERM, and what no live broker owns is removed.  A broker
\* that serves then accepts no more and finishes what it has; one that does not
\* serve yet just dies.
ReadOwner(b) ==
    /\ pc[b] = "read"
    /\ \/ /\ Owned /\ pid \notin gone
          /\ Goto(b, "exited") /\ UNCHANGED sock
       \/ /\ Owned /\ pid \in gone
          /\ LET after == IF pc[pid] \in {"serving", "closing"} THEN "closing" ELSE "exited"
             IN pc' = [pc EXCEPT ![pid] = after, ![b] = "acquire"]
          /\ sock' = IF pc[pid] = "serving" THEN Nobody ELSE sock
       \/ ~Owned /\ Goto(b, "remove") /\ UNCHANGED sock
    /\ UNCHANGED <<lock, disk, mem, queue, opens, sway, plugin, faults, past>>

Remove(b) ==
    /\ pc[b] = "remove" /\ dir' = FALSE /\ pid' = Nobody /\ Goto(b, "acquire")
    /\ UNCHANGED <<sock, disk, mem, queue, opens, sway, plugin, faults, past>>

\* The saved activity is loaded, work that was running now waits, and the
\* socket is bound anew.
Listen(b) ==
    /\ pc[b] = "listen" /\ Goto(b, "serving") /\ sock' = b
    /\ LET loaded == IF disk = "running" THEN "waiting" ELSE disk
       IN disk' = loaded /\ mem' = [mem EXCEPT ![b] = loaded]
    /\ UNCHANGED <<lock, queue, opens, sway, plugin, faults, past>>

-----------------------------------------------------------------------------
(* Serving.                                                                 *)

\* Mutant of Busy: every connection is handled as its line arrives.
BusyNever(b) == FALSE

\* The promise chain: a request begins when the one before it has ended.
Busy(b) == b = session /\ opening # {}

\* What a request does to the activity; attention.clear resumes the work that
\* waited for it.
After(m, r) ==
    CASE r \in States -> r
      [] r = "attention" -> "needs-attention"
      [] r = "clear" -> IF m = "needs-attention" THEN "running" ELSE m

\* writeState: for whoever looks now, and for the next broker.
TakeUpdate(b) ==
    /\ queue[b] # <<>> /\ ~Busy(b) /\ Head(queue[b]) \notin Apps
    /\ queue' = [queue EXCEPT ![b] = Tail(@)]
    /\ LET m == After(mem[b], Head(queue[b]))
       IN mem' = [mem EXCEPT ![b] = m] /\ disk' = m
    /\ blind' = (blind \/ (Head(queue[b]) = "clear" /\ mem[b] = "needs-attention"))
    /\ UNCHANGED <<lock, sock, pc, opens, sway, plugin, faults, struck, raced>>

\* app.open: a window that carries the mark or has the class of the application
\* is taken up; otherwise it is launched, and the windows there remembered.
TakeOpen(b) ==
    /\ queue[b] # <<>> /\ ~Busy(b) /\ Head(queue[b]) \in Apps
    /\ queue' = [queue EXCEPT ![b] = Tail(@)]
    /\ LET a == Head(queue[b])
       IN \/ b # session /\ UNCHANGED <<opens, starting, marks>>
          \/ /\ b = session /\ (marks[a] \in shown \/ a \in shown) /\ UNCHANGED <<opens, starting>>
             /\ marks' = IF marks[a] \in shown THEN marks ELSE [marks EXCEPT ![a] = a]
          \/ /\ b = session /\ marks[a] \notin shown /\ a \notin shown /\ UNCHANGED marks
             /\ opening' = opening \cup {a} /\ before' = [before EXCEPT ![a] = shown]
             /\ starting' = starting \cup {a}
    /\ UNCHANGED <<files, pc, mem, session, gone, shown, plugin, faults, past>>

Ends(a) == opening' = opening \ {a} /\ before' = [before EXCEPT ![a] = {}]
Claim(a, w) == marks' = [marks EXCEPT ![a] = w] /\ Ends(a)

\* The first window that is new is the one; within eight seconds.  So is one
\* that was there, if the focus has moved to it.
Await(a) ==
    /\ a \in opening
    /\ \/ \E w \in shown \ before[a] : Claim(a, w) /\ Spared
       \/ \E w \in before[a] : Claim(a, w) /\ Hit("focus")
       \/ shown \subseteq before[a] /\ Ends(a) /\ UNCHANGED marks /\ Hit("slow")
    /\ UNCHANGED <<files, pc, mem, queue, session, gone, starting, shown, plugin, raced, blind>>

\* The last connection has ended: the socket's name, the lock if it is still
\* its own, and the process go.
Close(b) ==
    /\ pc[b] = "closing" /\ queue[b] = <<>> /\ ~Busy(b)
    /\ sock' = Nobody /\ Goto(b, "exited") /\ mem' = [mem EXCEPT ![b] = "over"]
    /\ IF pid = b THEN dir' = FALSE /\ pid' = Nobody ELSE UNCHANGED lock
    /\ UNCHANGED <<disk, queue, opens, sway, plugin, faults, past>>

-----------------------------------------------------------------------------
(* The activity lifecycle of the plugin.                                    *)

\* One line over a connection of its own; without a broker it is dropped.
Send(r) ==
    IF sock # Nobody /\ pc[sock] = "serving"
    THEN /\ Len(queue[sock]) < MaxQueue
         /\ queue' = [queue EXCEPT ![sock] = Append(@, r)]
         /\ blind' = (blind /\ r \notin States)
    ELSE UNCHANGED queue /\ blind' = (blind \/ r \in States \cup {"attention"})

Still == runs' # {} \/ kids' # {}

ModelCallStarted(r) ==
    /\ runs' = runs \cup {r} /\ Send("running")
    /\ UNCHANGED <<files, pc, mem, opens, sway, kids, due, faults, struck, raced>>

\* Mutant of AgentEnded: delegated work is forgotten.
AgentEndedAlone(r) ==
    /\ r \in runs /\ runs' = runs \ {r} /\ UNCHANGED kids
    /\ Send(IF runs' # {} THEN "running" ELSE "over")
    /\ UNCHANGED <<files, pc, mem, opens, sway, due, faults, struck, raced>>

AgentEnded(r) ==
    /\ r \in runs /\ runs' = runs \ {r} /\ UNCHANGED kids
    /\ Send(IF Still THEN "running" ELSE "over")
    /\ UNCHANGED <<files, pc, mem, opens, sway, due, faults, struck, raced>>

SubagentSpawned(k) ==
    /\ runs # {} /\ k \notin kids /\ kids' = kids \cup {k} /\ Send("running")
    /\ UNCHANGED <<files, pc, mem, opens, sway, runs, due, faults, struck, raced>>

\* A failure that leaves nothing running asks for attention once the broker has
\* answered the first report, or a second has passed.
SubagentEnded(k) ==
    /\ k \in kids /\ kids' = kids \ {k} /\ UNCHANGED runs
    /\ \E failed \in BOOLEAN :
          /\ Send(IF Still THEN "running" ELSE IF failed THEN "needs-attention" ELSE "over")
          /\ due' = (due \/ (failed /\ ~Still))
    /\ UNCHANGED <<files, pc, mem, opens, sway, faults, struck, raced>>

AskAttention ==
    /\ due /\ due' = FALSE /\ Send("attention")
    /\ UNCHANGED <<files, pc, mem, opens, sway, runs, kids, faults, struck, raced>>

\* The tools of a run, and the person at the machine.
Request(r) ==
    /\ \/ r \in Apps
       \/ r = "attention" /\ runs # {}
       \/ r = "clear"
    /\ sock # Nobody /\ queue[sock] = <<>> /\ Send(r)
    /\ UNCHANGED <<files, pc, mem, opens, sway, plugin, faults, struck, raced>>

-----------------------------------------------------------------------------
(* The session around them.                                                 *)

\* The compositor ends, with its windows, and another session begins.  One that
\* crashes leaves its socket behind.
NewSession ==
    /\ session < MaxSessions /\ session' = session + 1
    /\ \/ gone' = gone \cup {session} /\ Spared
       \/ UNCHANGED gone /\ Hit("stale")
    /\ starting' = {} /\ shown' = {} /\ marks' = [a \in Apps |-> Nobody]
    /\ opening' = {} /\ before' = [a \in Apps |-> {}]
    /\ UNCHANGED <<files, pc, mem, queue, plugin, raced, blind>>

WindowAppears(a) ==
    /\ a \in starting /\ starting' = starting \ {a} /\ shown' = shown \cup {a}
    /\ UNCHANGED <<files, pc, mem, queue, opens, session, gone, marks, plugin, faults, past>>

Crash(b) ==
    /\ Alive(b) /\ Goto(b, "exited") /\ Hit("crash")
    /\ queue' = [queue EXCEPT ![b] = <<>>] /\ blind' = (blind \/ queue[b] # <<>>)
    /\ IF b = session THEN opening' = {} /\ before' = [a \in Apps |-> {}] ELSE UNCHANGED opens
    /\ mem' = [mem EXCEPT ![b] = "over"]
    /\ UNCHANGED <<files, sway, plugin, raced>>

\* The Gateway restarts: its maps are empty, and it reports nothing.
GatewayRestarts ==
    /\ Hit("gateway") /\ runs' = {} /\ kids' = {} /\ due' = FALSE /\ blind' = TRUE
    /\ UNCHANGED <<files, pc, mem, queue, opens, sway, raced>>

\* Nobody has to ask for anything.
Idle ==
    /\ raced \/ \A b \in Brokers : pc[b] \in {"off", "serving", "exited"}
    /\ UNCHANGED vars

-----------------------------------------------------------------------------

Init ==
    /\ dir = FALSE /\ pid = Nobody /\ sock = Nobody
    /\ disk = "over"
    /\ pc = [b \in Brokers |-> "off"] /\ mem = [b \in Brokers |-> disk]
    /\ queue = [b \in Brokers |-> <<>>]
    /\ opening = {} /\ before = [a \in Apps |-> {}]
    /\ session = 1 /\ gone = {} /\ starting = {} /\ shown = {}
    /\ marks = [a \in Apps |-> Nobody]
    /\ runs = {} /\ kids = {} /\ due = FALSE
    /\ faults = 0 /\ struck = {} /\ raced = FALSE /\ blind = FALSE

Broker(b) ==
    \/ Start(b) \/ Acquire(b) \/ WritePid(b) \/ ReadOwner(b) \/ Remove(b) \/ Listen(b)
    \/ TakeUpdate(b) \/ TakeOpen(b) \/ Close(b)

Plugin ==
    \/ \E r \in Runs : ModelCallStarted(r) \/ AgentEnded(r)
    \/ \E k \in Kids : SubagentSpawned(k) \/ SubagentEnded(k)
    \/ AskAttention

World ==
    \/ \E a \in Apps : Await(a) \/ WindowAppears(a)
    \/ \E r \in Requests : Request(r)
    \/ Plugin \/ NewSession \/ GatewayRestarts

\* Bound: once two brokers have raced for the lock only they are followed.
Next ==
    \/ \E b \in Brokers : Broker(b) \/ Crash(b)
    \/ ~raced /\ World
    \/ Idle

Spec == Init /\ [][Next]_vars

\* A broker runs on, also the one that is asked to end while another polls, and
\* an application that was launched shows its window.
FairSpec ==
    /\ Spec /\ \A b \in Brokers : WF_vars(Broker(b))
    /\ \A a \in Apps : WF_vars(~raced /\ Await(a)) /\ WF_vars(~raced /\ WindowAppears(a))

-----------------------------------------------------------------------------

\* Every variable has its type.
TypeOK ==
    /\ dir \in BOOLEAN /\ pid \in Brokers \cup {Nobody} /\ sock \in Brokers \cup {Nobody}
    /\ disk \in States /\ mem \in [Brokers -> States]
    /\ pc \in [Brokers -> Taking \cup {"off", "listen", "serving", "closing", "exited"}]
    /\ queue \in [Brokers -> Seq(Requests)]
    /\ opening \subseteq Apps /\ before \in [Apps -> SUBSET Apps]
    /\ session \in Brokers /\ gone \subseteq Brokers
    /\ starting \subseteq Apps /\ shown \subseteq Apps
    /\ marks \in [Apps -> Apps \cup {Nobody}]
    /\ runs \subseteq Runs /\ kids \subseteq Kids /\ due \in BOOLEAN
    /\ faults \in 0..MaxFaults /\ struck \subseteq Faults
    /\ raced \in BOOLEAN /\ blind \in BOOLEAN

\* "Old broker cannot own windows in the replacement compositor": at most one
\* broker has the lock and the socket, through crashes, signals and takeovers,
\* unless one is started while another is taking the lock.
OneBroker ==
    raced \/ \A b, c \in Brokers :
                /\ pc[b] \in {"listen", "serving", "closing"} => pid = b
                /\ pc[b] = "serving" => sock = b

\* "Two concurrent requests must not discover or claim each other's new
\* window": a mark is on the window of its own application, unless a launch
\* took longer than eight seconds or the focus moved during one.
OwnWindow ==
    struck \cap {"slow", "focus"} # {}
    \/ \A a \in Apps : marks[a] \in {a, Nobody}

\* When its broker has answered everything, what is shown is how the plugin's
\* work stands: work under way is not shown as over, nor the reverse, also with
\* sessions replaced and brokers killed in between.
ShownIsTrue ==
    \A b \in Brokers :
        /\ pc[b] = "serving" /\ queue[b] = <<>> /\ ~raced /\ ~blind
        => IF runs = {} /\ kids = {} THEN mem[b] # "running"
           ELSE mem[b] # "over"

\* The session that lasts has a broker in the end, unless one crashed, or found
\* the socket of a crashed compositor, or lost its patience.
SessionServed ==
    <>[](\/ pc[session] = "serving" /\ sock = session
         \/ struck \cap {"crash", "stale", "patience"} # {} \/ raced)

=============================================================================
