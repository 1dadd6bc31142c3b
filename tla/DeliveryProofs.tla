---------------------------- MODULE DeliveryProofs ----------------------------
(***************************************************************************)
(* Proofs about Delivery: a conversation is told only what the receipt has *)
(* held, and what is recorded or shown as delivered has been told, unless  *)
(* a pass published over a newer receipt.                                  *)
(***************************************************************************)
EXTENDS Delivery, TLAPS

\* Whatever the plugin has read, the receipt has held.
ReadIsReached ==
    /\ receipt \in Outcomes => receipt \in reached
    /\ public.state \in Outcomes => public.state \in reached
    /\ held \in Outcomes => held \in reached
    /\ \A s \in stray : s # "none" => s \in reached
    /\ pass = "append" => seen \in reached
    /\ NoticeIsOutcome

\* The order in which outcomes can follow one another: only "recovery-required"
\* comes back.
SettlesInOrder ==
    /\ receipt \in Outcomes => worker \in {"off", "last"}
    /\ receipt \in {"none", "running"} => reached = {}
    /\ receipt = "none" => worker = "off"
    /\ receipt \in {"complete", "failed"} => reached = {receipt}
    /\ "rolled-back" \in reached => receipt = "rolled-back"
    /\ "failed" \in reached => receipt = "failed"

\* The published receipt shows no outcome but the last one, and none while a
\* worker is at work.
PublicInOrder ==
    ~overtaken =>
        /\ receipt \in Outcomes /\ public.state \in Outcomes => public.state = receipt
        /\ worker = "work" => public.state \notin Outcomes
        /\ public.state = "complete" => "recovery-required" \notin reached

\* The plugin has read an outcome for the call of this pass.
Read == pass = "append" \/ (pass \in {"record", "publish"} /\ acked)

\* What the call of a pass is about, and what its record says.
CallInOrder ==
    /\ pass # "idle" => held \in Outcomes
    /\ Read => seen \in Outcomes /\ seen \in reached
    /\ record.state = "delivered" => record.key \in Outcomes /\ record.key \in reached
    /\ pass \in {"record", "publish"} /\ acked => seen \in told
    /\ ~overtaken =>
        /\ Read /\ held = "recovery-required" => seen \in {"recovery-required", "rolled-back"}
        /\ Read /\ held = receipt => seen = held
        /\ record.state = "delivered" /\ record.key = "recovery-required" =>
              "recovery-required" \in told \/ "rolled-back" \in reached
        /\ record.state = "delivered" /\ record.key = receipt => receipt \in told
        /\ public.delivery = "delivered" => public.state \in told

DeliveryInv == TypeOK /\ ReadIsReached /\ SettlesInOrder /\ PublicInOrder /\ CallInOrder

LEMMA InitDelivery == Init => DeliveryInv
<1>. SUFFICES ASSUME Init PROVE DeliveryInv
  OBVIOUS
<1>1. bound \in BOOLEAN /\ acked \in BOOLEAN /\ archived \in BOOLEAN /\ overtaken \in BOOLEAN
  BY Zenon DEF Init
<1>2. TypeOK
  BY <1>1, DeliveryAssumption DEF DeliveryAssumption, Init, TypeOK, States, Outcomes
<1>3. ReadIsReached /\ SettlesInOrder /\ PublicInOrder /\ CallInOrder
  BY DEF Init, ReadIsReached, SettlesInOrder, PublicInOrder, CallInOrder, Read, NoticeIsOutcome,
         Outcomes
<1>. QED  BY <1>2, <1>3 DEF DeliveryInv

LEMMA NextDelivery == DeliveryInv /\ [Next]_vars => DeliveryInv'
<1>. SUFFICES ASSUME DeliveryInv, [Next]_vars PROVE DeliveryInv'
  OBVIOUS
<1>. USE DeliveryAssumption
     DEF DeliveryAssumption, DeliveryInv, TypeOK, ReadIsReached, SettlesInOrder, PublicInOrder,
         CallInOrder, Read, NoticeIsOutcome, States, Outcomes, private, published, delivery,
         gateway, past, Strike, NoStrike
<1>1. CASE Apply
  BY <1>1 DEF Apply, WriteReceipt
<1>2. CASE Settle
  <2>1. PICK s \in IF receipt = "running" THEN Outcomes ELSE {"rolled-back", "recovery-required"} :
          WriteReceipt(s, "last")
    BY <1>2 DEF Settle
  <2>2. UNCHANGED <<bound, published, delivery, gateway, faults, overtaken, events>> /\ worker = "work"
    BY <1>2 DEF Settle
  <2>3. receipt' = s /\ s \in Outcomes /\ worker' = "last" /\ reached' = reached \cup {s}
    BY <2>1 DEF WriteReceipt
  <2>4. receipt \in {"running", "rolling-back"} /\ "rolled-back" \notin reached /\ "failed" \notin reached
    BY <2>2
  <2>5. receipt = "running" => reached = {}
    BY <2>4
  <2>a. s \in {"complete", "failed"} => receipt = "running"
    BY <2>1
  <2>b. TypeOK' /\ ReadIsReached'
    BY <2>2, <2>3
  <2>c. SettlesInOrder'
    BY <2>2, <2>3, <2>4, <2>5, <2>a
  <2>6. TypeOK' /\ ReadIsReached' /\ SettlesInOrder'
    BY <2>b, <2>c
  <2>7. PublicInOrder'
    BY <2>2, <2>3
  <2>8. Read' = Read
    BY <2>2
  <2>9. ASSUME s \in reached PROVE s = "recovery-required"
    BY <2>1, <2>3, <2>4, <2>5, <2>9
  <2>10. ASSUME ~overtaken, Read, held = s PROVE seen = held
    BY <2>4, <2>9, <2>10
  <2>11. ASSUME ~overtaken, record.state = "delivered", record.key = s PROVE s \in told
    BY <2>4, <2>9, <2>11
  <2>12. CallInOrder'
    BY <2>2, <2>3, <2>8, <2>10, <2>11
  <2>. QED  BY <2>6, <2>7, <2>12
<1>3. CASE Rollback
  BY <1>3 DEF Rollback, WriteReceipt
<1>4. CASE Publish
  BY <1>4 DEF Publish, Projection
<1>5. CASE Republish
  BY <1>5 DEF Republish, Projection
<1>6. CASE PassReads
  <2>1. acked' \in BOOLEAN /\ acked' = FALSE
    BY <1>6, Zenon DEF PassReads
  <2>. QED  BY <1>6, <2>1 DEF PassReads, Due
<1>7. CASE PassRecords
  <2>1. /\ pass = "record" /\ pass' = "publish"
        /\ record' = [key |-> held, state |-> IF acked THEN "delivered" ELSE "retrying"]
        /\ UNCHANGED <<private, public, held, acked, gateway, faults, past>>
    BY <1>7 DEF PassRecords
  <2>2. (acked => Read) /\ (Read' => Read)
    BY <2>1
  <2>3. TypeOK' /\ ReadIsReached' /\ SettlesInOrder' /\ PublicInOrder'
    BY <2>1
  <2>4. CallInOrder'
    BY <2>1, <2>2
  <2>. QED  BY <2>3, <2>4
<1>8. CASE PassPublishes
  <2>1. overtaken' \in BOOLEAN
    BY <1>8, Zenon DEF PassPublishes
  <2>2. ~overtaken' => ~overtaken /\ held = receipt
    BY <1>8, Zenon DEF PassPublishes
  <2>3. /\ pass = "publish" /\ pass' = "idle" /\ public' = Projection(held)
        /\ UNCHANGED <<private, record, held, acked, gateway, faults, reached, events>>
    BY <1>8 DEF PassPublishes
  <2>. QED  BY <2>1, <2>2, <2>3 DEF Projection
<1>9. CASE PassIdles
  BY <1>9 DEF PassIdles, vars
<1>10. CASE TimesOut
  <2>1. acked' \in BOOLEAN /\ acked' = FALSE
    BY <1>10, Zenon DEF TimesOut
  <2>. QED  BY <1>10, <2>1 DEF TimesOut
<1>11. CASE PluginReads
  BY <1>11 DEF PluginReads, Accepts
<1>12. CASE PluginRefuses
  <2>1. acked' \in BOOLEAN /\ acked' = FALSE
    BY <1>12, Zenon DEF PluginRefuses
  <2>. QED  BY <1>12, <2>1 DEF PluginRefuses
<1>13. CASE PluginAppends
  <2>1. acked' \in BOOLEAN
    BY <1>13, Zenon DEF PluginAppends
  <2>. QED  BY <1>13, <2>1 DEF PluginAppends
<1>14. CASE StrayGoesOn
  <2>1. UNCHANGED <<private, published, pass, held, acked, seen, archived, faults, past>>
    BY <1>14 DEF StrayGoesOn
  <2>2. CASE /\ stray' = (stray \ {"none"}) \cup (IF Accepts THEN {public.state} ELSE {})
             /\ UNCHANGED told
    <3>1. stray' \subseteq States /\ \A s \in stray' : s # "none" => s \in reached
      BY <2>2 DEF Accepts
    <3>. QED  BY <2>1, <2>2, <3>1
  <2>3. ASSUME NEW s \in stray \ {"none"}, stray' = stray \ {s},
               told' = IF archived THEN told ELSE told \cup {s}
        PROVE  DeliveryInv'
    <3>1. told \subseteq told' /\ told' \subseteq reached /\ told' \subseteq States
      BY <2>3
    <3>. QED  BY <2>1, <2>3, <3>1
  <2>. QED  BY <1>14, <2>2, <2>3 DEF StrayGoesOn
<1>15. CASE Archive
  <2>1. archived' \in BOOLEAN
    BY <1>15, Zenon DEF Archive
  <2>. QED  BY <1>15, <2>1 DEF Archive
<1>16. CASE Crash
  BY <1>16 DEF Crash
<1>17. CASE UNCHANGED vars
  BY <1>17 DEF vars
<1>. QED
  BY <1>1, <1>2, <1>3, <1>4, <1>5, <1>6, <1>7, <1>8, <1>9, <1>10, <1>11, <1>12, <1>13,
     <1>14, <1>15, <1>16, <1>17 DEF Next, Pass, Plugin

THEOREM AlwaysDeliveryInv == Spec => []DeliveryInv
<1>. QED  BY InitDelivery, NextDelivery, PTL DEF Spec

\* Every variable keeps its type.
THEOREM TypeCorrect == Spec => []TypeOK
<1>1. DeliveryInv => TypeOK
  BY DEF DeliveryInv
<1>. QED  BY <1>1, AlwaysDeliveryInv, PTL

\* A conversation is told only outcomes that the private receipt has held.
THEOREM OnlyOutcomesTold == Spec => []NoticeIsOutcome
<1>1. DeliveryInv => NoticeIsOutcome
  BY DEF DeliveryInv, ReadIsReached
<1>. QED  BY <1>1, AlwaysDeliveryInv, PTL

\* What is recorded or shown as delivered was told, also of a job that was
\* rolled back, unless a pass published over a newer receipt.
THEOREM DeliveredTold == Spec => []DeliveredIsTold
<1>1. DeliveryInv => DeliveredIsTold
  BY DEF DeliveryInv, CallInOrder, DeliveredIsTold, Delivered
<1>. QED  BY <1>1, AlwaysDeliveryInv, PTL
=============================================================================
