----------------------------- MODULE CenterProofs -----------------------------
(***************************************************************************)
(* Proofs about Center: the window and the bar never look quiet over a     *)
(* source that did not answer, and one decision is carried out at a time.  *)
(***************************************************************************)
EXTENDS Center, FiniteSetTheorems, TLAPS

\* What was not answered goes together with the error that says so.
Honest(s) == s.errors = {} => s.missed = {}
NothingHidden == Honest(got) /\ Honest(cache) /\ Honest(snap) /\ Honest(screen)

\* The window takes input only when no decision is under way, and asks its
\* question only when it takes input.
InputOff ==
    /\ deciding = {} \/ \E i \in Items : deciding = {i}
    /\ sensitive => deciding = {}
    /\ dialog # Nothing => sensitive

CenterInv == TypeOK /\ NothingHidden /\ InputOff

LEMMA SourcesQueried == Sources \subseteq Queried /\ Sources \subseteq Kinds
BY DEF Sources, Kinds

LEMMA ProjectType ==
    ASSUME TypeOK, NEW a \in Answers
    PROVE  Project(a) \in Snapshots /\ (Honest(a) => Honest(Project(a)))
BY DEF TypeOK, Answers, Snapshots, Project, Honest, Waiting, Running, OfKind

LEMMA InitCenter == Init => CenterInv
<1>. SUFFICES ASSUME Init PROVE CenterInv
  OBVIOUS
<1>1. fresh \in BOOLEAN /\ open \in BOOLEAN /\ sensitive \in BOOLEAN
  BY Zenon DEF Init
<1>2. cache \in Answers /\ got \in Answers /\ snap \in Snapshots /\ screen \in Snapshots
  BY DEF Init, NoAnswers, Blank, Answers, Snapshots
<1>3. TypeOK
  BY <1>1, <1>2, CenterAssumption DEF CenterAssumption, Init, TypeOK
<1>4. NothingHidden /\ InputOff
  BY DEF Init, NothingHidden, InputOff, Honest, NoAnswers, Blank
<1>. QED  BY <1>3, <1>4 DEF CenterInv

\* The steps of the collector, and of the bar that runs it.
LEMMA CollectorKeeps ==
    ASSUME CenterInv, \/ \E s \in Sources : Answer(s)
                      \/ Expire \/ BarCollect
    PROVE  CenterInv'
<1>. USE CenterAssumption
     DEF CenterAssumption, CenterInv, TypeOK, NothingHidden, InputOff, Honest, window, input,
         collector, Strike, NoStrike
<1>1. ASSUME NEW s \in Sources, Answer(s) PROVE CenterInv'
  <2>1. Waiting \subseteq Items /\ Running \subseteq Items /\ got \in Answers
    BY DEF Waiting, Running
  <2>2. ASSUME NEW w \in SUBSET Items, NEW a \in SUBSET Items,
               got' = [got EXCEPT !.waiting = @ \cup w, !.active = @ \cup a]
        PROVE  got' \in Answers /\ Honest(got')
    <3>1. got' = [waiting |-> got.waiting \cup w, active |-> got.active \cup a,
                  errors |-> got.errors, missed |-> got.missed]
      BY <2>1, <2>2 DEF Answers
    <3>. QED  BY <2>1, <3>1 DEF Answers
  <2>3. ASSUME NEW m \in SUBSET Items,
               got' = [got EXCEPT !.errors = @ \cup {s}, !.missed = @ \cup m]
        PROVE  got' \in Answers /\ Honest(got')
    <3>1. got' = [waiting |-> got.waiting, active |-> got.active,
                  errors |-> got.errors \cup {s}, missed |-> got.missed \cup m]
      BY <2>1, <2>3 DEF Answers
    <3>2. got.errors \cup {s} \subseteq Sources /\ got.errors \cup {s} # {}
      BY <2>1 DEF Answers
    <3>. QED  BY <2>1, <3>1, <3>2 DEF Answers
  <2>4. got' \in Answers /\ Honest(got')
    <3>1. \/ got' = [got EXCEPT !.waiting = @ \cup (Waiting \cap OfKind(s)),
                                !.active = @ \cup (Running \cap OfKind(s) \cap OfKind("tasks"))]
          \/ got' = [got EXCEPT !.errors = @ \cup {s},
                                !.missed = @ \cup (Waiting \cap OfKind(s))]
      BY <1>1, Zenon DEF Answer
    <3>2. /\ Waiting \cap OfKind(s) \in SUBSET Items
          /\ Running \cap OfKind(s) \cap OfKind("tasks") \in SUBSET Items
      BY <2>1
    <3>3. CASE got' = [got EXCEPT !.waiting = @ \cup (Waiting \cap OfKind(s)),
                         !.active = @ \cup (Running \cap OfKind(s) \cap OfKind("tasks"))]
      BY <2>2, <3>2, <3>3, Zenon
    <3>4. CASE got' = [got EXCEPT !.errors = @ \cup {s},
                                  !.missed = @ \cup (Waiting \cap OfKind(s))]
      BY <2>3, <3>2, <3>4, Zenon
    <3>. QED  BY <3>1, <3>3, <3>4, Zenon
  <2>5. asked' = asked \ {s} /\ UNCHANGED <<work, seen, cache, fresh, holder, window, input>>
    BY <1>1, Zenon DEF Answer
  <2>6. NoStrike \/ Strike("query")
    BY <1>1, Zenon DEF Answer
  <2>. QED  BY <2>4, <2>5, <2>6
<1>2. CASE Expire
  <2>1. fresh' \in BOOLEAN
    BY <1>2, Zenon DEF Expire
  <2>. QED  BY <1>2, <2>1 DEF Expire, NoAnswers, Answers
<1>3. CASE BarCollect
  <2>1. fresh' \in BOOLEAN
    BY <1>3, Zenon DEF BarCollect, Lookup, Store, StoreFails
  <2>. QED  BY <1>3, <2>1 DEF BarCollect, Lookup, Store, StoreFails, NoAnswers, Answers
<1>. QED  BY <1>1, <1>2, <1>3

\* The steps of the window's refresh.
LEMMA RefreshKeeps ==
    ASSUME CenterInv, Open \/ Poll \/ Collect \/ Draw \/ Close
    PROVE  CenterInv'
<1>. USE CenterAssumption
     DEF CenterAssumption, CenterInv, TypeOK, NothingHidden, InputOff, Honest, window, input,
         collector, Strike, NoStrike
<1>1. CASE Open
  <2>1. open' \in BOOLEAN
    BY <1>1, Zenon DEF Open
  <2>. QED  BY <1>1, <2>1 DEF Open, Blank, Snapshots
<1>2. CASE Poll
  BY <1>2 DEF Poll
<1>3. CASE Collect
  <2>1. fresh' \in BOOLEAN
    BY <1>3, Zenon DEF Collect, Lookup, Reuse, Store, StoreFails
  <2>2. snap' \in Snapshots /\ Honest(snap')
    BY <1>3, ProjectType DEF Collect
  <2>3. cache' \in Answers /\ got' \in Answers /\ Honest(cache') /\ Honest(got')
    BY <1>3 DEF Collect, Lookup, Reuse, Store, StoreFails, NoAnswers, Answers
  <2>4. holder' \in {Nothing, "bar", "center"} /\ asked' \subseteq Sources
        /\ stage' \in {"idle", "collect", "draw", "report"} /\ faults' \in 0..MaxFaults
    BY <1>3 DEF Collect, Lookup, Reuse, Store, StoreFails
  <2>. QED  BY <1>3, <2>1, <2>2, <2>3, <2>4 DEF Collect
<1>4. CASE Draw
  BY <1>4 DEF Draw, Blank, Snapshots
<1>5. CASE Close
  <2>1. open' \in BOOLEAN /\ sensitive' \in BOOLEAN
    BY <1>5, Zenon DEF Close
  <2>2. work' \in [Items -> {"new", "running", "waiting", "gone"}]
    BY <1>5 DEF Close, Effect
  <2>3. got' \in Answers /\ Honest(got') /\ asked' \subseteq Sources
        /\ holder' \in {Nothing, "bar", "center"}
    BY <1>5 DEF Close, NoAnswers, Answers
  <2>. QED  BY <1>5, <2>1, <2>2, <2>3 DEF Close, Blank, Snapshots
<1>. QED  BY <1>1, <1>2, <1>3, <1>4, <1>5

\* The person's steps, and what becomes of the work.
LEMMA PersonKeeps ==
    ASSUME CenterInv, NEW i \in Items,
           \/ Review(i) \/ Decide(i) \/ Ask(i) \/ Finish(i) \/ Arise(i) \/ Fail(i) \/ Settle(i)
           \/ Confirm \/ Dismiss
    PROVE  CenterInv'
<1>. USE CenterAssumption
     DEF CenterAssumption, CenterInv, TypeOK, NothingHidden, InputOff, Honest, window, input,
         collector, Strike, NoStrike
<1>1. CASE Review(i)
  BY <1>1 DEF Review, Refresh
<1>2. CASE Decide(i)
  <2>1. sensitive' \in BOOLEAN
    BY <1>2, Zenon DEF Decide, Send
  <2>. QED  BY <1>2, <2>1 DEF Decide, Send
<1>3. CASE Ask(i)
  BY <1>3 DEF Ask
<1>4. CASE Finish(i)
  <2>1. sensitive' \in BOOLEAN
    BY <1>4, Zenon DEF Finish
  <2>2. work' \in [Items -> {"new", "running", "waiting", "gone"}]
    BY <1>4 DEF Finish, Effect
  <2>3. deciding' = {}
    BY <1>4 DEF Finish
  <2>. QED  BY <1>4, <2>1, <2>2, <2>3 DEF Finish, Refresh
<1>5. CASE Arise(i)
  BY <1>5 DEF Arise
<1>6. CASE Fail(i)
  BY <1>6 DEF Fail
<1>7. CASE Settle(i)
  BY <1>7 DEF Settle
<1>8. CASE Confirm
  <2>1. sensitive' \in BOOLEAN
    BY <1>8, Zenon DEF Confirm, Send
  <2>. QED  BY <1>8, <2>1 DEF Confirm, Send
<1>9. CASE Dismiss
  BY <1>9 DEF Dismiss
<1>. QED  BY <1>1, <1>2, <1>3, <1>4, <1>5, <1>6, <1>7, <1>8, <1>9

LEMMA NextCenter == CenterInv /\ [Next]_vars => CenterInv'
<1>. SUFFICES ASSUME CenterInv, [Next]_vars PROVE CenterInv'
  OBVIOUS
<1>1. CASE UNCHANGED vars
  BY <1>1 DEF vars, collector, input, window, CenterInv, TypeOK, NothingHidden, InputOff
<1>2. CASE Confirm \/ Dismiss
  <2>1. dialog \in Items
    BY <1>2 DEF Confirm, Dismiss, CenterInv, TypeOK
  <2>. QED  BY <1>2, <2>1, PersonKeeps
<1>. QED  BY <1>1, <1>2, CollectorKeeps, RefreshKeeps, PersonKeeps DEF Next

THEOREM AlwaysCenterInv == Spec => []CenterInv
<1>. QED  BY InitCenter, NextCenter, PTL DEF Spec

\* Every variable keeps its type.
THEOREM TypeCorrect == Spec => []TypeOK
<1>1. CenterInv => TypeOK
  BY DEF CenterInv
<1>. QED  BY <1>1, AlwaysCenterInv, PTL

\* What has not been read never looks like nothing to review.
THEOREM QuietHonest == Spec => []QuietIsHonest
<1>1. ASSUME NEW s \in Snapshots, Honest(s), BarText(s) # "Review" PROVE s.missed = {}
  <2>1. IsFiniteSet(s.review) /\ s.errors \subseteq Queried
    BY FS_Subset, CenterAssumption, SourcesQueried DEF CenterAssumption, Snapshots
  <2>2. IsFiniteSet(Queried)
    <3>1. Queried = {"machine"} \cup {"approvals"} \cup {"tasks"} \cup {"interrupted"}
      BY DEF Queried
    <3>. QED  BY <3>1, FS_Singleton, FS_Union
  <2>3. IsFiniteSet(s.errors)
    BY <2>1, <2>2, FS_Subset
  <2>4. Cardinality(s.review) \in Nat /\ Cardinality(s.errors) \in Nat
    BY <2>1, <2>3, FS_CardinalityType
  <2>5. ~(Count(s) > 0)
    BY <1>1 DEF BarText
  <2>6. Cardinality(s.errors) = 0
    BY <2>4, <2>5 DEF Count
  <2>. QED  BY <1>1, <2>3, <2>6, FS_EmptySet DEF Honest
<1>2. CenterInv => QuietIsHonest
  BY <1>1, ProjectType DEF CenterInv, TypeOK, NothingHidden, QuietIsHonest
<1>. QED  BY <1>2, AlwaysCenterInv, PTL

\* One decision is carried out at a time, and none while a question is open.
THEOREM DecisionsAlone == Spec => []OneDecision
<1>1. ASSUME CenterInv PROVE Cardinality(deciding) <= 1
  <2>1. CASE deciding = {}
    BY <2>1, FS_EmptySet
  <2>2. ASSUME NEW i \in Items, deciding = {i} PROVE Cardinality(deciding) = 1
    BY <2>2, FS_Singleton
  <2>. QED  BY <1>1, <2>1, <2>2 DEF CenterInv, InputOff
<1>2. CenterInv => OneDecision
  BY <1>1 DEF CenterInv, InputOff, OneDecision
<1>. QED  BY <1>2, AlwaysCenterInv, PTL
=============================================================================
