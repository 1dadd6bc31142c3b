---------------------------- MODULE SurfaceProofs ----------------------------
(***************************************************************************)
(* What TLAPS proves of Surface for every number of sessions, and all      *)
(* applications, runs, delegations, queues, disturbances and bounds.       *)
(*                                                                         *)
(* The inductive invariant Inv says who may have the lock (LockInv), who   *)
(* is sent requests (QueueInv), which windows can appear while one is      *)
(* awaited (OpenInv), that the disk follows the broker (DiskInv), and what *)
(* will be shown once what is queued has been answered (ShownInv).         *)
(***************************************************************************)
EXTENDS Surface, TLAPS

\* The part of a broker's life in which it holds the lock.
Holding == {"listen", "serving", "closing"}
Owning == {"serving", "closing"}

\* Unless two brokers raced for it: one takes the lock at a time, the pid file
\* names whoever got past it, and it is removed only when nobody owns it.
LockInv ==
    ~raced =>
      /\ \A b, c \in Brokers : pc[b] \in Taking /\ pc[c] \in Taking => b = c
      /\ ~dir => pid = Nobody
      /\ pid # Nobody => pc[pid] \in Holding \cup {"exited"}
      /\ \A b \in Brokers :
            /\ pc[b] = "pid" => dir /\ pid = Nobody
            /\ pc[b] \in Holding => pid = b
            /\ pc[b] = "remove" => ~Owned
            /\ pc[b] = "serving" => sock = b

\* Only a broker that serves is sent anything.
QueueInv == \A b \in Brokers : pc[b] \notin Owning => queue[b] = <<>>

\* One application is opened at a time, and no window but its own can appear
\* meanwhile.
OpenInv ==
    struck \cap {"slow", "focus"} = {} =>
      /\ \A a, c \in opening : a = c
      /\ \A a \in opening :
            /\ starting \subseteq {a}
            /\ shown \ before[a] \subseteq {a}
            /\ a \notin before[a]
      /\ starting \cap shown = {}
      /\ opening = {} => starting = {} \/ pc[session] = "exited"
      /\ \A a \in Apps : marks[a] \in {a, Nobody}

\* What may be shown without contradicting the plugin's maps.
Honest == {s \in States : IF runs = {} /\ kids = {} THEN s # "running" ELSE s # "over"}

\* What is shown once queue q has been answered from state m on is in T: the last
\* report in q is, or, without one, m.
Told(q, m, T) ==
    /\ \A i \in 1..Len(q) :
          /\ q[i] \in States
          /\ \A k \in 1..Len(q) : k > i => q[k] \notin States
          => q[i] \in T
    /\ (\A i \in 1..Len(q) : q[i] \notin States) => m \in T

\* What is on disk is what the broker shows, for the next one.
DiskInv == ~raced => \A b \in Brokers : pc[b] \in Owning => disk = mem[b]

\* As long as every report got through: what a broker will have shown is true,
\* and so is, without one, what the next one will load.
ShownInv ==
    ~raced /\ ~blind =>
      /\ \A b \in Brokers : pc[b] \in Owning => Told(queue[b], mem[b], Honest)
      /\ (\A b \in Brokers : pc[b] \notin Owning) => disk \in Honest

Inv == TypeOK /\ LockInv /\ QueueInv /\ OpenInv /\ DiskInv /\ ShownInv

-----------------------------------------------------------------------------
(* Types.                                                                   *)

\* What SMT can see of the types; the truth values are left to Zenon.
Truths == dir \in BOOLEAN /\ due \in BOOLEAN /\ raced \in BOOLEAN /\ blind \in BOOLEAN
Shapes ==
    /\ pid \in Brokers \cup {Nobody} /\ sock \in Brokers \cup {Nobody}
    /\ disk \in States /\ mem \in [Brokers -> States]
    /\ pc \in [Brokers -> Taking \cup {"off", "listen", "serving", "closing", "exited"}]
    /\ queue \in [Brokers -> Seq(Requests)]
    /\ opening \subseteq Apps /\ before \in [Apps -> SUBSET Apps]
    /\ session \in Brokers /\ gone \subseteq Brokers
    /\ starting \subseteq Apps /\ shown \subseteq Apps
    /\ marks \in [Apps -> Apps \cup {Nobody}]
    /\ runs \subseteq Runs /\ kids \subseteq Kids
    /\ faults \in 0..MaxFaults /\ struck \subseteq Faults

LEMMA Typed == TypeOK <=> Truths /\ Shapes
BY DEF TypeOK, Truths, Shapes

\* An answered request leaves a state.
LEMMA AfterState ==
    ASSUME NEW m \in States, NEW r \in Requests \ Apps PROVE After(m, r) \in States
BY DEF After, States, Requests

\* Queues stay queues when one grows or shrinks.
LEMMA QueueShape ==
    ASSUME NEW q \in [Brokers -> Seq(Requests)], NEW b \in Brokers
    PROVE  /\ [q EXCEPT ![b] = <<>>] \in [Brokers -> Seq(Requests)]
           /\ \A r \in Requests :
                [q EXCEPT ![b] = Append(q[b], r)] \in [Brokers -> Seq(Requests)]
           /\ q[b] # <<>> => /\ Head(q[b]) \in Requests
                             /\ [q EXCEPT ![b] = Tail(q[b])] \in [Brokers -> Seq(Requests)]
<1>1. q[b] \in Seq(Requests)
  OBVIOUS
<1>2. \A s \in Seq(Requests) : [q EXCEPT ![b] = s] \in [Brokers -> Seq(Requests)]
  BY Zenon
<1>3. <<>> \in Seq(Requests)
  OBVIOUS
<1>4. \A r \in Requests : Append(q[b], r) \in Seq(Requests)
  BY <1>1
<1>5. q[b] # <<>> => Head(q[b]) \in Requests /\ Tail(q[b]) \in Seq(Requests)
  BY <1>1
<1>. QED  BY <1>2, <1>3, <1>4, <1>5

\* A line arrives whole at the end of one queue, or nowhere.
LEMMA SendShape ==
    ASSUME Shapes, NEW r \in Requests, Send(r)
    PROVE  /\ queue' \in [Brokers -> Seq(Requests)]
           /\ blind' \in BOOLEAN
<1>1. blind' \in BOOLEAN
  BY Zenon DEF Send
<1>2. queue' \in [Brokers -> Seq(Requests)]
  <2>1. CASE sock # Nobody /\ pc[sock] = "serving"
    <3>1. sock \in Brokers /\ queue \in [Brokers -> Seq(Requests)]
      BY <2>1 DEF Shapes
    <3>2. queue' = [queue EXCEPT ![sock] = Append(queue[sock], r)]
      BY <2>1 DEF Send
    <3>. QED  BY <3>1, <3>2, QueueShape
  <2>2. CASE ~(sock # Nobody /\ pc[sock] = "serving")
    BY <2>2 DEF Send, Shapes
  <2>. QED  BY <2>1, <2>2
<1>. QED  BY <1>1, <1>2

\* Disturbances are counted and remembered.
LEMMA HitShape ==
    ASSUME Shapes, Spared \/ \E f \in Disturbances : Hit(f)
    PROVE  faults' \in 0..MaxFaults /\ struck' \subseteq Faults
BY SurfaceAssumption DEF Shapes, Hit, Spared, Strike, NoStrike

LEMMA InitTypes == Init => TypeOK
<1>. SUFFICES ASSUME Init PROVE TypeOK
  OBVIOUS
<1>1. Truths
  BY Zenon DEF Init, Truths
<1>2. Shapes
  BY SurfaceAssumption DEF Init, Shapes, Brokers, States, Nobody
<1>. QED  BY <1>1, <1>2, Typed

\* The steps of one broker.
LEMMA BrokerTypes == ASSUME TypeOK, NEW b \in Brokers, Broker(b) \/ Crash(b) PROVE TypeOK'
<1>. USE SurfaceAssumption, Typed
     DEF files, lock, opens, sway, plugin, past, Goto, Hit, Spared, Strike, NoStrike
<1>1. Truths'
  <2>. Truths BY Zenon
  <2>. USE DEF Truths
  <2>1. CASE Start(b) BY <2>1, Zenon DEF Start
  <2>2. CASE Acquire(b) BY <2>2, Zenon DEF Acquire
  <2>3. CASE WritePid(b) BY <2>3, Zenon DEF WritePid
  <2>4. CASE ReadOwner(b) BY <2>4, Zenon DEF ReadOwner
  <2>5. CASE Remove(b) BY <2>5, Zenon DEF Remove
  <2>6. CASE Listen(b) BY <2>6, Zenon DEF Listen
  <2>7. CASE TakeUpdate(b) BY <2>7, Zenon DEF TakeUpdate
  <2>8. CASE TakeOpen(b) BY <2>8, Zenon DEF TakeOpen
  <2>9. CASE Close(b) BY <2>9, Zenon DEF Close
  <2>10. CASE Crash(b) BY <2>10, Zenon DEF Crash
  <2>. QED
    BY <2>1, <2>2, <2>3, <2>4, <2>5, <2>6, <2>7, <2>8, <2>9, <2>10 DEF Broker
<1>2. Shapes'
  <2>. Shapes OBVIOUS
  <2>. USE DEF Shapes, Taking
  <2>1. CASE Start(b) BY <2>1 DEF Start
  <2>2. CASE Acquire(b)
    <3>1. pc' \in [Brokers -> Taking \cup {"off", "listen", "serving", "closing", "exited"}]
      BY <2>2 DEF Acquire
    <3>2. faults' \in 0..MaxFaults /\ struck' \subseteq Faults
      BY <2>2, HitShape DEF Acquire, Disturbances
    <3>. QED  BY <2>2, <3>1, <3>2 DEF Acquire
  <2>3. CASE WritePid(b) BY <2>3 DEF WritePid
  <2>4. CASE ReadOwner(b) BY <2>4 DEF ReadOwner, Owned
  <2>5. CASE Remove(b) BY <2>5 DEF Remove
  <2>6. CASE Listen(b) BY <2>6 DEF Listen, States
  <2>7. CASE TakeUpdate(b) BY <2>7, AfterState, QueueShape DEF TakeUpdate
  <2>8. CASE TakeOpen(b)
    <3>1. queue' \in [Brokers -> Seq(Requests)] /\ Head(queue[b]) \in Apps
      BY <2>8, QueueShape DEF TakeOpen
    <3>2. /\ opening' \subseteq Apps /\ before' \in [Apps -> SUBSET Apps]
          /\ starting' \subseteq Apps /\ marks' \in [Apps -> Apps \cup {Nobody}]
      BY <2>8, <3>1 DEF TakeOpen
    <3>. QED  BY <2>8, <3>1, <3>2 DEF TakeOpen
  <2>9. CASE Close(b) BY <2>9 DEF Close, States
  <2>10. CASE Crash(b) BY <2>10, QueueShape DEF Crash, States
  <2>. QED
    BY <2>1, <2>2, <2>3, <2>4, <2>5, <2>6, <2>7, <2>8, <2>9, <2>10 DEF Broker
<1>. QED  BY <1>1, <1>2 DEF TypeOK, Truths, Shapes

\* The steps of the plugin and of the person.
LEMMA PluginTypes ==
    ASSUME TypeOK, Plugin \/ \E r \in Requests : Request(r) PROVE TypeOK'
<1>. Truths /\ Shapes
  BY Typed
<1>1. PICK r \in Requests : Send(r)
  BY DEF Plugin, ModelCallStarted, AgentEnded, SubagentSpawned, SubagentEnded, AskAttention,
         Request, Requests, States
<1>2. queue' \in [Brokers -> Seq(Requests)] /\ blind' \in BOOLEAN
  BY <1>1, SendShape
<1>3. due' \in BOOLEAN
  <2>1. ASSUME NEW k \in Kids, SubagentEnded(k) PROVE due' \in BOOLEAN
    BY <2>1, Zenon DEF SubagentEnded
  <2>. QED
    BY <2>1, Zenon DEF Truths, Plugin, ModelCallStarted, AgentEnded, SubagentSpawned,
       AskAttention, Request, plugin
<1>4. runs' \subseteq Runs /\ kids' \subseteq Kids
  BY DEF Shapes, Plugin, ModelCallStarted, AgentEnded, SubagentSpawned, SubagentEnded,
         AskAttention, Request, plugin
<1>5. UNCHANGED <<files, pc, mem, opens, sway, faults, struck, raced>>
  BY DEF Plugin, ModelCallStarted, AgentEnded, SubagentSpawned, SubagentEnded, AskAttention,
         Request
<1>6. Truths'
  BY <1>2, <1>3, <1>5, Zenon DEF Truths, files, lock
<1>7. Shapes'
  BY <1>2, <1>4, <1>5 DEF Shapes, files, lock, opens, sway
<1>. QED  BY <1>6, <1>7 DEF TypeOK, Truths, Shapes

\* The steps of the compositor and of the Gateway.
LEMMA SessionTypes ==
    ASSUME TypeOK,
           \/ \E a \in Apps : Await(a) \/ WindowAppears(a)
           \/ NewSession \/ GatewayRestarts \/ UNCHANGED vars
    PROVE  TypeOK'
<1>. Truths /\ Shapes
  BY Typed
<1>. USE SurfaceAssumption
     DEF files, lock, opens, sway, plugin, past, Hit, Spared, Strike, NoStrike
<1>1. Truths'
  BY Zenon DEF Truths, Await, WindowAppears, NewSession, GatewayRestarts, vars
<1>2. Shapes'
  <2>. USE DEF Shapes
  <2>1. ASSUME NEW a \in Apps, Await(a) PROVE Shapes'
    <3>1. faults' \in 0..MaxFaults /\ struck' \subseteq Faults
      BY <2>1, HitShape DEF Await, Disturbances
    <3>2. before[a] \subseteq Apps
      OBVIOUS
    <3>3. Ends(a) /\ (UNCHANGED marks \/ \E w \in Apps : marks' = [marks EXCEPT ![a] = w])
      BY <2>1, <3>2 DEF Await, Claim
    <3>4. opening' \subseteq Apps /\ before' \in [Apps -> SUBSET Apps]
      BY <3>3 DEF Ends
    <3>5. marks' \in [Apps -> Apps \cup {Nobody}]
      BY <3>3
    <3>. QED  BY <2>1, <3>1, <3>4, <3>5 DEF Await
  <2>2. ASSUME NEW a \in Apps, WindowAppears(a) PROVE Shapes'
    BY <2>2 DEF WindowAppears
  <2>3. CASE NewSession
    <3>1. faults' \in 0..MaxFaults /\ struck' \subseteq Faults
      BY <2>3, HitShape DEF NewSession, Disturbances
    <3>2. session' \in Brokers
      BY <2>3 DEF NewSession, Brokers
    <3>. QED  BY <2>3, <3>1, <3>2 DEF NewSession
  <2>4. CASE GatewayRestarts
    BY <2>4 DEF GatewayRestarts
  <2>5. CASE UNCHANGED vars
    BY <2>5 DEF vars
  <2>. QED  BY <2>1, <2>2, <2>3, <2>4, <2>5
<1>. QED  BY <1>1, <1>2 DEF TypeOK, Truths, Shapes

LEMMA TypeStep == TypeOK /\ [Next]_vars => TypeOK'
BY BrokerTypes, PluginTypes, SessionTypes DEF Next, World, Idle

-----------------------------------------------------------------------------
(* The lock.                                                                *)

\* What the requests, the plugin and the windows leave alone.
Aside ==
    \/ \E b \in Brokers : TakeUpdate(b) \/ TakeOpen(b)
    \/ World \/ UNCHANGED vars

LEMMA AsideKeeps == Aside => UNCHANGED <<lock, sock, pc, raced>>
BY DEF Aside, TakeUpdate, TakeOpen, World, Await, WindowAppears, Request, Plugin,
       ModelCallStarted, AgentEnded, SubagentSpawned, SubagentEnded, AskAttention,
       NewSession, GatewayRestarts, vars, files, lock, past

LEMMA NextSteps ==
    [Next]_vars =>
      \/ Aside
      \/ \E b \in Brokers :
           \/ Start(b) \/ Acquire(b) \/ WritePid(b) \/ ReadOwner(b) \/ Remove(b)
           \/ Listen(b) \/ Close(b) \/ Crash(b)
BY DEF Next, Aside, Broker, Idle

\* A race is not forgotten; without one nobody else took the lock at a start.
LEMMA RacedGrows ==
    ASSUME [Next]_vars, ~raced'
    PROVE  ~raced
<1>1. ASSUME NEW b \in Brokers, Start(b) PROVE ~raced
  BY <1>1, Zenon DEF Start
<1>2. ASSUME NEW b \in Brokers,
             \/ Acquire(b) \/ WritePid(b) \/ ReadOwner(b) \/ Remove(b) \/ Listen(b)
             \/ Close(b) \/ Crash(b)
      PROVE  raced' = raced
  BY <1>2, Zenon DEF Acquire, WritePid, ReadOwner, Remove, Listen, Close, Crash, past
<1>3. Aside => raced' = raced
  BY AsideKeeps
<1>. QED  BY <1>1, <1>2, <1>3, NextSteps, Zenon

LEMMA StartAlone ==
    ASSUME NEW b \in Brokers, Start(b), ~raced'
    PROVE  \A c \in Brokers : pc[c] \notin Taking
BY Zenon DEF Start

LEMMA InitLock == Init => LockInv
BY DEF Init, LockInv, Taking, Holding

LEMMA LockStep == TypeOK /\ LockInv /\ [Next]_vars => LockInv'
<1>. SUFFICES ASSUME TypeOK, LockInv, [Next]_vars, ~raced' PROVE LockInv'
  BY DEF LockInv
<1>0. ~raced
  BY RacedGrows
<1>. USE <1>0, SurfaceAssumption
     DEF TypeOK, LockInv, Taking, Holding, Owned, Alive, Brokers, Nobody, Goto, files, lock
<1>1. ASSUME NEW b \in Brokers, Start(b) PROVE LockInv'
  BY <1>1, StartAlone DEF Start
<1>2. ASSUME NEW b \in Brokers, Acquire(b) PROVE LockInv'
  <2>0. pc[b] = "acquire" /\ UNCHANGED <<pid, sock, raced>>
    BY <1>2 DEF Acquire
  <2>1. CASE ~dir
    <3>1. dir' /\ Goto(b, "pid")
      BY <1>2, <2>1, Zenon DEF Acquire
    <3>. QED  BY <2>0, <2>1, <3>1
  <2>2. CASE dir
    <3>1. dir' /\ (Goto(b, "read") \/ Goto(b, "exited"))
      BY <1>2, <2>2, Zenon DEF Acquire
    <3>. QED  BY <2>0, <2>2, <3>1
  <2>. QED  BY <2>1, <2>2
<1>3. ASSUME NEW b \in Brokers, WritePid(b) PROVE LockInv'
  <2>1. /\ pc[b] = "pid" /\ pid' = b /\ Goto(b, "listen") /\ dir /\ dir'
        /\ UNCHANGED <<sock, raced>>
    BY <1>3, Zenon DEF WritePid, past
  <2>. QED  BY <2>1
<1>4. ASSUME NEW b \in Brokers, ReadOwner(b) PROVE LockInv'
  <2>0. pc[b] = "read" /\ UNCHANGED <<lock, raced>>
    BY <1>4 DEF ReadOwner, past
  <2>1. CASE Owned /\ pid \notin gone
    <3>1. Goto(b, "exited") /\ UNCHANGED sock
      BY <1>4, <2>1, Zenon DEF ReadOwner
    <3>. QED  BY <2>0, <3>1
  <2>2. CASE ~Owned
    <3>1. Goto(b, "remove") /\ UNCHANGED sock
      BY <1>4, <2>2, Zenon DEF ReadOwner
    <3>. QED  BY <2>0, <2>2, <3>1
  <2>3. CASE Owned /\ pid \in gone
    <3>1. pid # b /\ pid \in Brokers /\ pc[pid] \in Holding
      BY <2>0, <2>3
    <3>2. \E after \in {"closing", "exited"} :
            pc' = [pc EXCEPT ![pid] = after, ![b] = "acquire"]
      BY <1>4, <2>3 DEF ReadOwner
    <3>3. \A c \in Brokers \ {pid, b} : pc'[c] = pc[c] /\ pc[c] \notin Holding
      BY <3>1, <3>2
    <3>. QED  BY <2>0, <3>1, <3>2, <3>3
  <2>. QED  BY <2>1, <2>2, <2>3
<1>5. ASSUME NEW b \in Brokers, Remove(b) PROVE LockInv'
  BY <1>5 DEF Remove
<1>6. ASSUME NEW b \in Brokers, Listen(b) PROVE LockInv'
  BY <1>6 DEF Listen
<1>7. ASSUME NEW b \in Brokers, Close(b) PROVE LockInv'
  <2>0. /\ pc[b] = "closing" /\ pid = b /\ pid' = Nobody /\ ~dir' /\ sock' = Nobody
        /\ Goto(b, "exited") /\ raced' = raced
    BY <1>7, Zenon DEF Close, past
  <2>. QED  BY <2>0
<1>8. ASSUME NEW b \in Brokers, Crash(b) PROVE LockInv'
  BY <1>8 DEF Crash
<1>9. CASE Aside
  BY <1>9, AsideKeeps
<1>. QED
  BY <1>1, <1>2, <1>3, <1>4, <1>5, <1>6, <1>7, <1>8, <1>9, NextSteps

-----------------------------------------------------------------------------
(* The queues.                                                              *)

\* The steps of the plugin and of the person send one line.
LEMMA Sends ==
    ASSUME Plugin \/ \E r \in Requests : Request(r)
    PROVE  /\ \E r \in Requests : Send(r)
           /\ UNCHANGED <<files, pc, mem, opens, sway, struck, raced>>
BY DEF Plugin, ModelCallStarted, AgentEnded, SubagentSpawned, SubagentEnded, AskAttention,
       Request, Requests, States

\* What the compositor and the Gateway do beside the queues.
LEMMA BesideQueues ==
    ASSUME (\E a \in Apps : Await(a) \/ WindowAppears(a)) \/ NewSession \/ GatewayRestarts
    PROVE  UNCHANGED <<files, pc, mem, queue, raced>>
BY DEF Await, WindowAppears, NewSession, GatewayRestarts, past

LEMMA InitQueues == Init => QueueInv
BY DEF Init, QueueInv

\* Lines go to a broker that serves, and one that is killed leaves none.
LEMMA QueueStep == TypeOK /\ QueueInv /\ [Next]_vars => QueueInv'
<1>. SUFFICES ASSUME TypeOK, QueueInv, [Next]_vars PROVE QueueInv'
  OBVIOUS
<1>. USE DEF TypeOK, QueueInv, Owning, Goto, files, lock
<1>1. ASSUME NEW b \in Brokers,
             Start(b) \/ Acquire(b) \/ WritePid(b) \/ Remove(b) \/ Listen(b) \/ Close(b)
      PROVE  QueueInv'
  BY <1>1 DEF Start, Acquire, WritePid, Remove, Listen, Close
<1>2. ASSUME NEW b \in Brokers, ReadOwner(b) PROVE QueueInv'
  <2>1. pc[b] = "read" /\ queue' = queue
    BY <1>2 DEF ReadOwner
  <2>2. \A c \in Brokers : pc[c] \in Owning => pc'[c] \in Owning
    BY <1>2 DEF ReadOwner, Owned
  <2>. QED  BY <2>1, <2>2
<1>3. ASSUME NEW b \in Brokers, Crash(b) PROVE QueueInv'
  BY <1>3 DEF Crash
<1>4. ASSUME NEW b \in Brokers, TakeUpdate(b) \/ TakeOpen(b) PROVE QueueInv'
  BY <1>4 DEF TakeUpdate, TakeOpen
<1>5. CASE Plugin \/ \E r \in Requests : Request(r)
  <2>1. PICK r \in Requests : Send(r)
    BY <1>5, Sends
  <2>2. pc' = pc
    BY <1>5, Sends
  <2>3. \A c \in Brokers : queue'[c] # queue[c] => c = sock /\ pc[c] = "serving"
    BY <2>1 DEF Send
  <2>. QED  BY <2>2, <2>3
<1>6. CASE (\E a \in Apps : Await(a) \/ WindowAppears(a)) \/ NewSession \/ GatewayRestarts
  BY <1>6, BesideQueues
<1>7. CASE UNCHANGED vars
  BY <1>7 DEF vars
<1>. QED
  BY <1>1, <1>2, <1>3, <1>4, <1>5, <1>6, <1>7, NextSteps DEF Aside, World

-----------------------------------------------------------------------------
(* The windows.                                                             *)

LEMMA InitOpen == Init => OpenInv
BY DEF Init, OpenInv

\* What is remembered of the disturbances stays remembered.
LEMMA StruckGrows == [Next]_vars => struck \subseteq struck'
<1>1. ASSUME NEW b \in Brokers,
             \/ Start(b) \/ Acquire(b) \/ WritePid(b) \/ ReadOwner(b) \/ Remove(b)
             \/ Listen(b) \/ Close(b) \/ Crash(b) \/ TakeUpdate(b) \/ TakeOpen(b)
      PROVE  struck \subseteq struck'
  BY <1>1 DEF Start, Acquire, WritePid, ReadOwner, Remove, Listen, Close, Crash,
              TakeUpdate, TakeOpen, Hit, Spared, past
<1>2. World \/ UNCHANGED vars => struck \subseteq struck'
  BY Sends DEF World, Await, WindowAppears, NewSession, GatewayRestarts, Hit, Spared, past, vars
<1>. QED  BY <1>1, <1>2, NextSteps DEF Aside

\* The broker of the session opens one application at a time, so that the only
\* window that can appear meanwhile is that application's.
LEMMA OpenStep == TypeOK /\ QueueInv /\ OpenInv /\ [Next]_vars => OpenInv'
<1>. SUFFICES ASSUME TypeOK, QueueInv, OpenInv, [Next]_vars,
                     struck' \cap {"slow", "focus"} = {}
              PROVE  OpenInv'
  BY DEF OpenInv
<1>0. struck \cap {"slow", "focus"} = {}
  BY StruckGrows
<1>. USE <1>0, SurfaceAssumption DEF TypeOK, OpenInv, Goto, opens, sway
<1>1. ASSUME NEW b \in Brokers,
             \/ Start(b) \/ Acquire(b) \/ WritePid(b) \/ Remove(b) \/ Listen(b)
             \/ ReadOwner(b) \/ Close(b)
      PROVE  OpenInv'
  <2>1. UNCHANGED <<opens, sway>>
    BY <1>1 DEF Start, Acquire, WritePid, Remove, Listen, ReadOwner, Close
  <2>2. \A c \in Brokers : pc[c] = "exited" => pc'[c] = "exited"
    BY <1>1 DEF Start, Acquire, WritePid, Remove, Listen, ReadOwner, Close, Owned, Alive
  <2>. QED  BY <2>1, <2>2
<1>2. ASSUME NEW b \in Brokers, Crash(b) PROVE OpenInv'
  BY <1>2 DEF Crash
<1>3. ASSUME NEW b \in Brokers, TakeUpdate(b) PROVE OpenInv'
  BY <1>3 DEF TakeUpdate
<1>4. ASSUME NEW b \in Brokers, TakeOpen(b) PROVE OpenInv'
  <2>1. queue[b] # <<>> /\ pc[b] # "exited"
    BY <1>4 DEF TakeOpen, QueueInv, Owning
  <2>2. PICK a \in Apps : a = Head(queue[b])
    BY <1>4 DEF TakeOpen
  <2>3. CASE b # session
    BY <1>4, <2>3 DEF TakeOpen
  <2>4. CASE b = session /\ (marks[a] \in shown \/ a \in shown)
    BY <1>4, <2>2, <2>4 DEF TakeOpen
  <2>5. CASE b = session /\ marks[a] \notin shown /\ a \notin shown
    <3>1. opening = {} /\ starting = {}
      BY <1>4, <2>1, <2>5 DEF TakeOpen, Busy
    <3>2. /\ opening' = {a} /\ before' = [before EXCEPT ![a] = shown] /\ starting' = {a}
          /\ UNCHANGED <<shown, marks, session, pc>>
      BY <1>4, <2>2, <2>5, <3>1 DEF TakeOpen
    <3>. QED  BY <2>5, <3>1, <3>2
  <2>. QED  BY <2>3, <2>4, <2>5
<1>5. CASE Plugin \/ \E r \in Requests : Request(r)
  BY <1>5, Sends
<1>6. ASSUME NEW a \in Apps, Await(a) PROVE OpenInv'
  <2>1. PICK w \in shown \ before[a] : Claim(a, w)
    BY <1>6 DEF Await, Hit
  <2>2. w = a /\ starting = {} /\ opening = {a}
    BY <1>6, <2>1 DEF Await
  <2>3. /\ opening' = {} /\ marks' = [marks EXCEPT ![a] = a]
        /\ UNCHANGED <<starting, shown, session, pc>>
    BY <1>6, <2>1, <2>2 DEF Await, Claim, Ends
  <2>. QED  BY <2>2, <2>3
<1>7. ASSUME NEW a \in Apps, WindowAppears(a) PROVE OpenInv'
  BY <1>7 DEF WindowAppears
<1>8. CASE NewSession
  BY <1>8 DEF NewSession
<1>9. CASE GatewayRestarts \/ UNCHANGED vars
  BY <1>9 DEF GatewayRestarts, vars
<1>. QED
  BY <1>1, <1>2, <1>3, <1>4, <1>5, <1>6, <1>7, <1>8, <1>9, NextSteps DEF Aside, World

-----------------------------------------------------------------------------
(* What is shown.                                                           *)

\* A report decides; anything else leaves the decision where it was.
LEMMA ToldMore ==
    ASSUME NEW q \in Seq(Requests), NEW r \in Requests, NEW m, NEW T,
           IF r \in States THEN r \in T ELSE Told(q, m, T)
    PROVE  Told(Append(q, r), m, T)
<1>. DEFINE p == Append(q, r)
<1>1. /\ Len(q) \in Nat /\ Len(p) = Len(q) + 1
      /\ \A i \in 1..Len(q) : p[i] = q[i]
      /\ p[Len(q) + 1] = r
  OBVIOUS
<1>. HIDE DEF p
<1>2. CASE r \in States
  BY <1>1, <1>2 DEF Told
<1>3. CASE r \notin States
  <2>1. ASSUME NEW i \in 1..Len(p), p[i] \in States,
               \A k \in 1..Len(p) : k > i => p[k] \notin States
        PROVE  p[i] \in T
    <3>1. i \in 1..Len(q)
      BY <1>1, <1>3, <2>1
    <3>2. \A k \in 1..Len(q) : k > i => q[k] \notin States
      BY <1>1, <2>1
    <3>. QED  BY <1>1, <1>3, <2>1, <3>1, <3>2 DEF Told
  <2>2. (\A i \in 1..Len(p) : p[i] \notin States) => m \in T
    BY <1>1, <1>3 DEF Told
  <2>. QED  BY <2>1, <2>2 DEF Told
<1>. QED  BY <1>2, <1>3 DEF p

\* Answering the first request as it asks leaves the decision where it was.
LEMMA ToldLess ==
    ASSUME NEW q \in Seq(Requests), q # <<>>, NEW m, NEW n, NEW T, Told(q, m, T),
           IF Head(q) \in States THEN n = Head(q) ELSE m \in T => n \in T
    PROVE  Told(Tail(q), n, T)
<1>. DEFINE p == Tail(q)
<1>1. /\ Len(q) \in Nat \ {0} /\ Len(p) = Len(q) - 1 /\ Head(q) = q[1]
      /\ \A i \in 1..Len(p) : p[i] = q[i + 1]
  OBVIOUS
<1>. HIDE DEF p
<1>2. ASSUME NEW i \in 1..Len(p), p[i] \in States,
             \A k \in 1..Len(p) : k > i => p[k] \notin States
      PROVE  p[i] \in T
  <2>1. i + 1 \in 1..Len(q) /\ q[i + 1] = p[i]
    BY <1>1
  <2>2. ASSUME NEW k \in 1..Len(q), k > i + 1 PROVE q[k] \notin States
    <3>1. k - 1 \in 1..Len(p) /\ k - 1 > i /\ p[k - 1] = q[k]
      BY <1>1, <2>2
    <3>. QED  BY <1>2, <3>1
  <2>. QED  BY <1>2, <2>1, <2>2 DEF Told
<1>3. ASSUME \A i \in 1..Len(p) : p[i] \notin States PROVE n \in T
  <2>1. ASSUME NEW k \in 1..Len(q), k > 1 PROVE q[k] \notin States
    <3>1. k - 1 \in 1..Len(p) /\ p[k - 1] = q[k]
      BY <1>1, <2>1
    <3>. QED  BY <1>3, <3>1
  <2>2. CASE q[1] \in States
    BY <1>1, <2>1, <2>2 DEF Told
  <2>3. CASE q[1] \notin States
    BY <1>1, <2>1, <2>3 DEF Told
  <2>. QED  BY <2>2, <2>3
<1>. QED  BY <1>2, <1>3 DEF p, Told

LEMMA ToldNothing ==
    ASSUME NEW m, NEW T PROVE Told(<<>>, m, T) <=> m \in T
BY DEF Told

\* The one broker that serves.
LEMMA OneOwner ==
    ASSUME LockInv, ~raced, NEW b \in Brokers, NEW c \in Brokers,
           pc[b] \in Holding, pc[c] \in Holding
    PROVE  b = c
BY DEF LockInv

LEMMA InitShown == Init => DiskInv /\ ShownInv
BY DEF Init, DiskInv, ShownInv, Owning, Honest, States

\* Whoever answers a request is the only broker past the lock.
LEMMA DiskStep == TypeOK /\ LockInv /\ QueueInv /\ DiskInv /\ [Next]_vars => DiskInv'
<1>. SUFFICES ASSUME TypeOK, LockInv, QueueInv, DiskInv, [Next]_vars, ~raced'
              PROVE  \A b \in Brokers : pc'[b] \in Owning => disk' = mem'[b]
  BY Zenon DEF DiskInv
<1>0. ~raced
  BY RacedGrows
<1>01. \A b \in Brokers : pc[b] \in Owning => disk = mem[b]
  BY <1>0, Zenon DEF DiskInv
<1>02. \A b, c \in Brokers : pc[b] \in Holding /\ pc[c] \in Holding => b = c
  BY <1>0, OneOwner
<1>. USE <1>01 DEF TypeOK, Owning, Goto, files
<1>1. ASSUME NEW b \in Brokers, Start(b) \/ Acquire(b) \/ WritePid(b) \/ Remove(b)
      PROVE  \A c \in Brokers : pc'[c] \in Owning => disk' = mem'[c]
  BY <1>1 DEF Start, Acquire, WritePid, Remove
<1>2. ASSUME NEW b \in Brokers, ReadOwner(b)
      PROVE  \A c \in Brokers : pc'[c] \in Owning => disk' = mem'[c]
  <2>1. \A c \in Brokers : pc'[c] \in Owning => pc[c] \in Owning
    BY <1>2 DEF ReadOwner, Owned
  <2>. QED  BY <1>2, <2>1 DEF ReadOwner
<1>3. ASSUME NEW b \in Brokers, Listen(b)
      PROVE  \A c \in Brokers : pc'[c] \in Owning => disk' = mem'[c]
  BY <1>3, <1>02 DEF Listen, Holding
<1>4. ASSUME NEW b \in Brokers, Close(b) \/ Crash(b)
      PROVE  \A c \in Brokers : pc'[c] \in Owning => disk' = mem'[c]
  BY <1>4 DEF Close, Crash
<1>5. ASSUME NEW b \in Brokers, TakeUpdate(b)
      PROVE  \A c \in Brokers : pc'[c] \in Owning => disk' = mem'[c]
  <2>1. pc[b] \in Owning
    BY <1>5 DEF TakeUpdate, QueueInv
  <2>. QED  BY <1>5, <1>02, <2>1 DEF TakeUpdate, Holding
<1>6. ASSUME NEW b \in Brokers, TakeOpen(b)
      PROVE  \A c \in Brokers : pc'[c] \in Owning => disk' = mem'[c]
  BY <1>6 DEF TakeOpen
<1>7. CASE World \/ UNCHANGED vars
  BY <1>7, Sends, BesideQueues DEF World, vars
<1>. QED
  BY <1>1, <1>2, <1>3, <1>4, <1>5, <1>6, <1>7, NextSteps DEF Aside

\* The plugin's report of its own state is true when it is sent.
LEMMA ReportsTrue ==
    ASSUME TypeOK, Plugin
    PROVE  \E r \in Requests : /\ Send(r)
                               /\ r \in States => r \in Honest'
                               /\ r \notin States => UNCHANGED <<runs, kids>>
<1>0. Requests = States \cup {"attention", "clear"} \cup Apps
  BY DEF Requests
<1>. USE <1>0 DEF States, Honest
<1>1. ASSUME NEW r \in Runs, ModelCallStarted(r) PROVE Send("running") /\ "running" \in Honest'
  BY <1>1 DEF ModelCallStarted
<1>2. ASSUME NEW r \in Runs, AgentEnded(r)
      PROVE  \E x \in States : Send(x) /\ x \in Honest'
  BY <1>2 DEF AgentEnded, Still
<1>3. ASSUME NEW k \in Kids, SubagentSpawned(k) PROVE Send("running") /\ "running" \in Honest'
  BY <1>3 DEF SubagentSpawned
<1>4. ASSUME NEW k \in Kids, SubagentEnded(k)
      PROVE  \E x \in States : Send(x) /\ x \in Honest'
  <2>1. PICK failed \in BOOLEAN :
          Send(IF Still THEN "running" ELSE IF failed THEN "needs-attention" ELSE "over")
    BY <1>4 DEF SubagentEnded
  <2>2. CASE Still
    BY <2>1, <2>2 DEF Still
  <2>3. CASE ~Still /\ failed
    BY <2>1, <2>3
  <2>4. CASE ~Still /\ ~failed
    BY <2>1, <2>4 DEF Still
  <2>. QED  BY <2>2, <2>3, <2>4
<1>5. AskAttention => Send("attention") /\ UNCHANGED <<runs, kids>>
  BY DEF AskAttention
<1>. QED  BY <1>1, <1>2, <1>3, <1>4, <1>5 DEF Plugin

\* A line that reaches the broker decides or changes nothing; one that does not
\* leaves the plugin's report unheard.
LEMMA SendShown ==
    ASSUME TypeOK, LockInv, ShownInv, ~raced, NEW r \in Requests, Send(r), ~blind',
           r \in States => r \in Honest',
           r \notin States => UNCHANGED <<runs, kids>>,
           UNCHANGED <<disk, pc, mem>>
    PROVE  /\ \A b \in Brokers : pc[b] \in Owning => Told(queue'[b], mem[b], Honest')
           /\ (\A b \in Brokers : pc[b] \notin Owning) => disk \in Honest'
<1>1. r \notin States => ~blind /\ Honest' = Honest
  <2>1. r \notin States => ~blind
    BY Zenon DEF Send
  <2>. QED  BY <2>1 DEF Honest
<1>2. CASE sock # Nobody /\ pc[sock] = "serving"
  <2>1. sock \in Brokers /\ queue' = [queue EXCEPT ![sock] = Append(queue[sock], r)]
    BY <1>2 DEF Send, TypeOK
  <2>2. \A b \in Brokers : pc[b] \in Owning => b = sock
    BY <1>2, <2>1, OneOwner DEF Owning, Holding
  <2>3. r \notin States => Told(queue[sock], mem[sock], Honest')
    BY <1>1, <1>2, <2>1, Zenon DEF ShownInv, Owning
  <2>4. queue[sock] \in Seq(Requests) /\ queue'[sock] = Append(queue[sock], r)
    BY <2>1 DEF TypeOK
  <2>5. Told(queue'[sock], mem[sock], Honest')
    BY <2>3, <2>4, ToldMore
  <2>. QED  BY <1>2, <2>1, <2>2, <2>5 DEF Owning
<1>3. CASE ~(sock # Nobody /\ pc[sock] = "serving")
  <2>1. r \notin States /\ queue' = queue
    BY <1>3, Zenon DEF Send
  <2>. QED  BY <1>1, <2>1, Zenon DEF ShownInv
<1>. QED  BY <1>2, <1>3

\* A broker that answers a request shows what it decided.
LEMMA TakeShown ==
    ASSUME TypeOK, LockInv, QueueInv, DiskInv, ShownInv, ~raced, ~blind,
           NEW b \in Brokers, queue[b] # <<>>, NEW n \in States,
           queue' = [queue EXCEPT ![b] = Tail(queue[b])],
           mem' = [mem EXCEPT ![b] = n], pc' = pc, UNCHANGED <<runs, kids>>,
           IF Head(queue[b]) \in States THEN n = Head(queue[b])
           ELSE n \in {mem[b], "needs-attention"}
    PROVE  /\ pc[b] \in Owning
           /\ \A c \in Brokers : pc'[c] \in Owning => Told(queue'[c], mem'[c], Honest')
<1>1. pc[b] \in Owning
  BY DEF QueueInv
<1>2. \A c \in Brokers : pc[c] \in Owning => c = b
  BY <1>1, OneOwner DEF Owning, Holding
<1>3. Told(queue[b], mem[b], Honest)
  BY <1>1, Zenon DEF ShownInv
<1>4. /\ queue[b] \in Seq(Requests) /\ queue'[b] = Tail(queue[b]) /\ mem'[b] = n
      /\ Honest' = Honest /\ "needs-attention" \in Honest
  BY DEF TypeOK, Honest, States
<1>5. IF Head(queue[b]) \in States THEN n = Head(queue[b])
      ELSE mem[b] \in Honest => n \in Honest
  BY <1>4
<1>6. Told(Tail(queue[b]), n, Honest)
  BY <1>3, <1>4, <1>5, ToldLess
<1>7. Told(queue'[b], mem'[b], Honest')
  BY <1>4, <1>6
<1>. QED  BY <1>1, <1>2, <1>7

\* While no report is lost and nobody races for the lock, what will be shown
\* when the queue is empty is true; without a broker so is what is on disk.
LEMMA ShownStep ==
    TypeOK /\ LockInv /\ QueueInv /\ DiskInv /\ ShownInv /\ [Next]_vars => ShownInv'
<1>. DEFINE Goal ==
       /\ \A b \in Brokers : pc'[b] \in Owning => Told(queue'[b], mem'[b], Honest')
       /\ (\A b \in Brokers : pc'[b] \notin Owning) => disk' \in Honest'
<1>. SUFFICES ASSUME TypeOK, LockInv, QueueInv, DiskInv, ShownInv, [Next]_vars,
                     ~raced', ~blind'
              PROVE  Goal
  BY Zenon DEF ShownInv
<1>0. ~raced
  BY RacedGrows
<1>01. ~blind =>
         /\ \A b \in Brokers : pc[b] \in Owning => Told(queue[b], mem[b], Honest)
         /\ (\A b \in Brokers : pc[b] \notin Owning) => disk \in Honest
  BY <1>0, Zenon DEF ShownInv
<1>02. \A b \in Brokers : pc[b] \in Owning => disk = mem[b]
  BY <1>0, Zenon DEF DiskInv
<1>03. \A b, c \in Brokers : pc[b] \in Holding /\ pc[c] \in Holding => b = c
  BY <1>0, OneOwner
<1>. USE <1>01 DEF TypeOK, Goto, files
<1>1. ASSUME NEW b \in Brokers, Start(b) \/ Acquire(b) \/ WritePid(b) \/ Remove(b) \/ ReadOwner(b)
      PROVE  Goal
  <2>1. ~blind
    BY <1>1, Zenon DEF Start, Acquire, WritePid, Remove, ReadOwner, past
  <2>2. UNCHANGED <<disk, mem, queue, runs, kids>>
    BY <1>1 DEF Start, Acquire, WritePid, Remove, ReadOwner, plugin
  <2>3. \A c \in Brokers : pc[c] \in Owning <=> pc'[c] \in Owning
    BY <1>1 DEF Start, Acquire, WritePid, Remove, ReadOwner, Owned, Alive, Owning
  <2>. QED  BY <2>1, <2>2, <2>3 DEF Honest
<1>2. ASSUME NEW b \in Brokers, Listen(b) PROVE Goal
  <2>1. ~blind
    BY <1>2, Zenon DEF Listen, past
  <2>2. \A c \in Brokers : pc[c] \notin Owning /\ (pc'[c] \in Owning => c = b)
    BY <1>2, <1>03 DEF Listen, Owning, Holding
  <2>3. disk \in Honest /\ queue[b] = <<>>
    BY <2>1, <2>2 DEF QueueInv
  <2>4. mem'[b] \in Honest' /\ queue'[b] = <<>>
    BY <1>2, <2>3 DEF Listen, Honest, States, plugin
  <2>5. Told(queue'[b], mem'[b], Honest')
    BY <2>4, ToldNothing
  <2>6. pc'[b] \in Owning
    BY <1>2 DEF Listen, Owning
  <2>. QED  BY <2>2, <2>5, <2>6
<1>3. ASSUME NEW b \in Brokers, Close(b) PROVE Goal
  <2>1. ~blind
    BY <1>3, Zenon DEF Close, past
  <2>2. /\ pc[b] \in Owning /\ queue[b] = <<>> /\ pc'[b] \notin Owning
        /\ \A c \in Brokers : pc'[c] \in Owning => c # b /\ pc[c] \in Owning
        /\ UNCHANGED <<disk, runs, kids>>
    BY <1>3 DEF Close, Owning, plugin
  <2>3. mem[b] \in Honest
    BY <2>1, <2>2, ToldNothing
  <2>4. disk' \in Honest' /\ \A c \in Brokers : pc'[c] \notin Owning
    BY <1>02, <1>03, <2>2, <2>3 DEF Owning, Holding, Honest
  <2>. QED  BY <2>4
<1>4. ASSUME NEW b \in Brokers, Crash(b) PROVE Goal
  <2>1. ~blind /\ queue[b] = <<>>
    BY <1>4, Zenon DEF Crash
  <2>2. /\ pc'[b] \notin Owning /\ UNCHANGED <<disk, runs, kids>>
        /\ \A c \in Brokers \ {b} : /\ pc'[c] = pc[c] /\ mem'[c] = mem[c]
                                    /\ queue'[c] = queue[c]
    BY <1>4 DEF Crash, Owning, plugin
  <2>3. Honest' = Honest
    BY <2>2 DEF Honest
  <2>4. pc[b] \in Owning => disk \in Honest
    BY <1>02, <2>1, ToldNothing
  <2>. QED  BY <2>1, <2>2, <2>3, <2>4
<1>5. ASSUME NEW b \in Brokers, TakeUpdate(b) PROVE Goal
  <2>1. ~blind /\ ~(Head(queue[b]) = "clear" /\ mem[b] = "needs-attention")
    BY <1>5, Zenon DEF TakeUpdate
  <2>. DEFINE n == After(mem[b], Head(queue[b]))
  <2>2. Head(queue[b]) \in Requests \ Apps
    BY <1>5, QueueShape DEF TakeUpdate
  <2>3. /\ n \in States
        /\ IF Head(queue[b]) \in States THEN n = Head(queue[b])
           ELSE n \in {mem[b], "needs-attention"}
    BY <2>1, <2>2 DEF After, Requests, States
  <2>4. /\ queue[b] # <<>> /\ queue' = [queue EXCEPT ![b] = Tail(queue[b])]
        /\ mem' = [mem EXCEPT ![b] = n] /\ pc' = pc /\ UNCHANGED <<runs, kids>>
    BY <1>5 DEF TakeUpdate, plugin
  <2>. HIDE DEF n
  <2>5. /\ pc[b] \in Owning
        /\ \A c \in Brokers : pc'[c] \in Owning => Told(queue'[c], mem'[c], Honest')
    BY <1>0, <2>1, <2>3, <2>4, TakeShown
  <2>. QED  BY <2>4, <2>5
<1>6. ASSUME NEW b \in Brokers, TakeOpen(b) PROVE Goal
  <2>1. ~blind
    BY <1>6, Zenon DEF TakeOpen, past
  <2>2. Head(queue[b]) \notin States
    BY <1>6, SurfaceAssumption DEF TakeOpen
  <2>3. /\ queue[b] # <<>> /\ queue' = [queue EXCEPT ![b] = Tail(queue[b])]
        /\ mem' = [mem EXCEPT ![b] = mem[b]] /\ pc' = pc /\ UNCHANGED <<runs, kids>>
    BY <1>6 DEF TakeOpen, plugin
  <2>4. /\ pc[b] \in Owning
        /\ \A c \in Brokers : pc'[c] \in Owning => Told(queue'[c], mem'[c], Honest')
    BY <1>0, <2>1, <2>2, <2>3, TakeShown
  <2>. QED  BY <2>3, <2>4
<1>7. CASE Plugin
  <2>1. PICK r \in Requests : /\ Send(r)
                              /\ r \in States => r \in Honest'
                              /\ r \notin States => UNCHANGED <<runs, kids>>
    BY <1>7, ReportsTrue
  <2>2. UNCHANGED <<disk, pc, mem>>
    BY <1>7, Sends
  <2>. QED  BY <1>0, <2>1, <2>2, SendShown
<1>8. ASSUME NEW r \in Requests, Request(r) PROVE Goal
  <2>1. r \notin States /\ Send(r) /\ UNCHANGED <<disk, pc, mem, runs, kids>>
    BY <1>8, SurfaceAssumption DEF Request, States, plugin
  <2>. QED  BY <1>0, <2>1, SendShown
<1>9. CASE (\E a \in Apps : Await(a) \/ WindowAppears(a)) \/ NewSession
  <2>1. ~blind
    BY <1>9, Zenon DEF Await, WindowAppears, NewSession, past
  <2>2. UNCHANGED <<runs, kids>>
    BY <1>9 DEF Await, WindowAppears, NewSession, plugin
  <2>. QED  BY <1>9, <2>1, <2>2, BesideQueues DEF Honest
<1>10. CASE GatewayRestarts
  BY <1>10, Zenon DEF GatewayRestarts
<1>11. CASE UNCHANGED vars
  <2>1. ~blind
    BY <1>11, Zenon DEF vars, past
  <2>. QED  BY <1>11, <2>1 DEF vars, plugin, Honest
<1>. QED
  BY <1>1, <1>2, <1>3, <1>4, <1>5, <1>6, <1>7, <1>8, <1>9, <1>10, <1>11, NextSteps
     DEF Aside, World

-----------------------------------------------------------------------------
(* What follows.                                                            *)

LEMMA Invariance == Spec => []Inv
<1>1. Init => Inv
  BY InitTypes, InitLock, InitQueues, InitOpen, InitShown DEF Inv
<1>2. Inv /\ [Next]_vars => Inv'
  BY TypeStep, LockStep, QueueStep, OpenStep, DiskStep, ShownStep DEF Inv
<1>. QED  BY <1>1, <1>2, PTL DEF Spec

\* Every variable has its type.
THEOREM TypeCorrect == Spec => []TypeOK
<1>1. Inv => TypeOK
  BY DEF Inv
<1>. QED  BY <1>1, Invariance, PTL

\* At most one broker has the lock and the socket, unless two raced for it.
THEOREM BrokerAlone == Spec => []OneBroker
<1>1. Inv => OneBroker
  <2>. SUFFICES ASSUME LockInv, ~raced
                PROVE  \A b, c \in Brokers :
                         /\ pc[b] \in {"listen", "serving", "closing"} => pid = b
                         /\ pc[b] = "serving" => sock = b
    BY Zenon DEF Inv, OneBroker
  <2>. QED  BY DEF LockInv, Holding
<1>. QED  BY <1>1, Invariance, PTL

\* A mark is on the window of its own application, unless a launch took longer
\* than eight seconds or the focus moved during one.
THEOREM MarksOwn == Spec => []OwnWindow
<1>1. Inv => OwnWindow
  BY DEF Inv, OpenInv, OwnWindow
<1>. QED  BY <1>1, Invariance, PTL

\* A broker that has answered everything shows how the plugin's work stands,
\* unless two raced or the last report was lost.
THEOREM ShownTruly == Spec => []ShownIsTrue
<1>1. Inv => ShownIsTrue
  <2>. SUFFICES ASSUME ShownInv, NEW b \in Brokers,
                       pc[b] = "serving", queue[b] = <<>>, ~raced, ~blind
                PROVE  mem[b] \in Honest
    BY Zenon DEF Inv, ShownIsTrue, Honest
  <2>1. Told(queue[b], mem[b], Honest)
    BY Zenon DEF ShownInv, Owning
  <2>. QED  BY <2>1, ToldNothing
<1>. QED  BY <1>1, Invariance, PTL
=============================================================================
