------------------------------- MODULE Delivery -------------------------------
(***************************************************************************)
(* How the outcome of a deployment reaches the conversation it is bound    *)
(* to.  The worker keeps a private receipt and publishes a projection of   *)
(* it; every 15 seconds deliver_pending asks the Gateway to tell the       *)
(* conversation, and the plugin reads the published receipt to do so.      *)
(* What the worker does to the files is the module Deploy.                 *)
(***************************************************************************)
EXTENDS Disturb

Disturbances == {"rollback", "lost", "late", "archive", "crash"}

ASSUME DeliveryAssumption == Faults \subseteq Disturbances /\ MaxFaults \in Nat

VARIABLES
    \* the worker and the dispatcher of a rollback
    receipt,    \* state in receipt.json
    bound,      \* it names a conversation
    worker,     \* "off", "publish", "work", or "last" before its last publish
    \* published
    public,     \* state and delivery in the published receipt
    record,     \* delivery.json: the outcome it is about, and its state
    \* deliver_pending, under its lock
    pass,       \* its next step
    held,       \* state of the receipt as it read it
    acked,      \* the call returned a message identifier
    \* the Gateway and its plugin
    seen,       \* state the plugin read for the call under way
    stray,      \* calls the pass no longer waits for, by the state read
    told,       \* outcomes in the transcript of the conversation
    archived,   \* the conversation is archived or replaced
    \* history, for the properties
    reached,    \* outcomes the private receipt has held
    overtaken,  \* a pass published what it had read over what the job had come to
    events      \* "rollback", "crash": the ones there were

private == <<receipt, bound, worker>>
published == <<public, record>>
delivery == <<pass, held, acked>>
gateway == <<seen, stray, told, archived>>
past == <<reached, overtaken, events>>
vars == <<private, published, delivery, gateway, faults, past>>

Outcomes == {"complete", "rolled-back", "failed", "recovery-required"}
States == Outcomes \cup {"none", "running", "rolling-back"}

-----------------------------------------------------------------------------
(* The private receipt and its projection.                                  *)

\* write_json replaces the private file, then publishes.
WriteReceipt(s, next) ==
    /\ receipt' = s /\ worker' = next
    /\ reached' = IF s \in Outcomes THEN reached \cup {s} ELSE reached

Apply ==
    /\ receipt = "none" /\ WriteReceipt("running", "publish") /\ bound' \in BOOLEAN
    /\ UNCHANGED <<published, delivery, gateway, faults, overtaken, events>>

\* The last write of a worker, whichever way the deployment went.
Settle ==
    /\ worker = "work"
    /\ \E s \in IF receipt = "running" THEN Outcomes ELSE {"rolled-back", "recovery-required"} :
          WriteReceipt(s, "last")
    /\ UNCHANGED <<bound, published, delivery, gateway, faults, overtaken, events>>

\* Mutant of Rollback: the work begins before anybody is shown that it does.
RollbackUnseen ==
    /\ worker = "off" /\ receipt \notin {"none", "failed", "rolled-back"}
    /\ WriteReceipt("rolling-back", "work")
    /\ Strike("rollback") /\ events' = events \cup {"rollback"}
    /\ UNCHANGED <<bound, published, delivery, gateway, overtaken>>

\* The dispatcher of a rollback takes what no worker holds the lock for.
Rollback ==
    /\ worker = "off" /\ receipt \notin {"none", "failed", "rolled-back"}
    /\ WriteReceipt("rolling-back", "publish")
    /\ Strike("rollback") /\ events' = events \cup {"rollback"}
    /\ UNCHANGED <<bound, published, delivery, gateway, overtaken>>

\* publish_receipt: delivery.json counts only for the outcome it is about.
Projection(s) ==
    [state |-> s,
     delivery |-> IF record.key = s THEN record.state
                  ELSE IF bound THEN "pending" ELSE "unbound"]

Publish ==
    /\ worker \in {"publish", "last"}
    /\ public' = Projection(receipt) /\ worker' = IF worker = "last" THEN "off" ELSE "work"
    /\ UNCHANGED <<receipt, bound, record, delivery, gateway, faults, past>>

\* clawos-deploy publish-receipts, by hand.
Republish ==
    /\ receipt # "none" /\ public' = Projection(receipt)
    /\ UNCHANGED <<private, record, delivery, gateway, faults, past>>

-----------------------------------------------------------------------------
(* deliver_pending.                                                         *)

Delivered == record = [key |-> receipt, state |-> "delivered"]

\* Mutant of Due: an attempt that failed counts as made.
DueOnce == bound /\ receipt \in Outcomes /\ record.key # receipt
Due == bound /\ receipt \in Outcomes /\ ~Delivered

PassReads ==
    /\ pass = "idle" /\ Due /\ held' = receipt /\ pass' = "call" /\ acked' = FALSE
    /\ UNCHANGED <<private, published, gateway, faults, past>>

\* The timer fires and there is nothing to do.
PassIdles == pass = "idle" /\ ~Due /\ UNCHANGED vars

\* The call did not return within its 20 s.
TimesOut ==
    /\ pass \in {"call", "append"} /\ Strike("late")
    /\ stray' = stray \cup {IF pass = "call" THEN "none" ELSE seen}
    /\ pass' = "record" /\ acked' = FALSE
    /\ UNCHANGED <<private, published, held, seen, told, archived, past>>

PassRecords ==
    /\ pass = "record" /\ pass' = "publish"
    /\ record' = [key |-> held, state |-> IF acked THEN "delivered" ELSE "retrying"]
    /\ UNCHANGED <<private, public, held, acked, gateway, faults, past>>

\* Mutant of PassPublishes: delivery.json is all it writes.
PassKeepsQuiet ==
    /\ pass = "publish" /\ pass' = "idle"
    /\ UNCHANGED <<private, published, held, acked, gateway, faults, past>>

\* What it publishes is the receipt it read before the call.
PassPublishes ==
    /\ pass = "publish" /\ pass' = "idle" /\ public' = Projection(held)
    /\ overtaken' = (overtaken \/ held # receipt)
    /\ UNCHANGED <<private, record, held, acked, gateway, faults, reached, events>>

-----------------------------------------------------------------------------
(* The plugin in the Gateway.                                               *)

\* deliver: the published receipt must be terminal and the conversation live.
Accepts == public.state \in Outcomes /\ ~archived

PluginReads ==
    /\ pass = "call" /\ Accepts /\ seen' = public.state /\ pass' = "append"
    /\ UNCHANGED <<private, published, held, acked, stray, told, archived, faults, past>>

PluginRefuses ==
    /\ \/ pass = "call" /\ ~Accepts
       \/ pass = "append" /\ archived
    /\ pass' = "record" /\ acked' = FALSE
    /\ UNCHANGED <<private, published, held, gateway, faults, past>>

\* The append is transactional and keyed by job and state: a second one adds
\* nothing and is acknowledged.
PluginAppends ==
    /\ pass = "append" /\ ~archived
    /\ told' = told \cup {seen} /\ pass' = "record"
    /\ \/ acked' = TRUE /\ NoStrike
       \/ acked' = FALSE /\ Strike("lost")
    /\ UNCHANGED <<private, published, held, seen, stray, archived, past>>

\* A call nobody waits for goes on.
StrayGoesOn ==
    /\ \/ /\ "none" \in stray
          /\ stray' = (stray \ {"none"}) \cup (IF Accepts THEN {public.state} ELSE {})
          /\ UNCHANGED told
       \/ \E s \in stray \ {"none"} :
             /\ stray' = stray \ {s} /\ told' = IF archived THEN told ELSE told \cup {s}
    /\ UNCHANGED <<private, published, delivery, seen, archived, faults, past>>

Archive ==
    /\ ~archived /\ archived' = TRUE /\ Strike("archive")
    /\ UNCHANGED <<private, published, delivery, seen, stray, told, past>>

\* The machine stops: the worker, the pass and the calls are gone.
Crash ==
    /\ Strike("crash") /\ worker' = "off" /\ pass' = "idle" /\ stray' = {}
    /\ events' = events \cup {"crash"}
    /\ UNCHANGED <<receipt, bound, published, held, acked, seen, told, archived, reached, overtaken>>

-----------------------------------------------------------------------------

Init ==
    /\ receipt = "none" /\ bound = FALSE /\ worker = "off"
    /\ public = [state |-> "none", delivery |-> "unbound"]
    /\ record = [key |-> "none", state |-> "pending"]
    /\ pass = "idle" /\ held = "none" /\ acked = FALSE
    /\ seen = "none" /\ stray = {} /\ told = {} /\ archived = FALSE
    /\ faults = 0 /\ reached = {} /\ overtaken = FALSE /\ events = {}

Pass == PassReads \/ PassRecords \/ PassPublishes
Plugin == PluginReads \/ PluginRefuses \/ PluginAppends

Next ==
    \/ Apply \/ Settle \/ Rollback \/ Publish \/ Republish
    \/ Pass \/ PassIdles \/ TimesOut \/ Plugin \/ StrayGoesOn \/ Archive \/ Crash

Spec == Init /\ [][Next]_vars

\* The timer starts a pass every 15 seconds and its calls end.
FairSpec == Spec /\ WF_vars(Pass) /\ WF_vars(Plugin) /\ WF_vars(Publish)

-----------------------------------------------------------------------------

\* Every variable has its type.
TypeOK ==
    /\ receipt \in States /\ bound \in BOOLEAN
    /\ worker \in {"off", "publish", "work", "last"}
    /\ public \in [state : States, delivery : {"unbound", "pending", "retrying", "delivered"}]
    /\ record \in [key : States, state : {"pending", "retrying", "delivered"}]
    /\ pass \in {"idle", "call", "append", "record", "publish"}
    /\ held \in States /\ acked \in BOOLEAN
    /\ seen \in States /\ stray \subseteq States /\ told \subseteq States
    /\ archived \in BOOLEAN /\ events \subseteq {"rollback", "crash"}
    /\ faults \in 0..MaxFaults /\ reached \subseteq Outcomes /\ overtaken \in BOOLEAN

\* A conversation is told only outcomes that the private receipt has held,
\* whatever was lost, repeated or answered late.
NoticeIsOutcome == told \subseteq reached

\* "Work and decisions shows bound jobs until delivery": a settled job that is
\* recorded as delivered has had its outcome told, and so has the outcome that
\* the published receipt shows as delivered, although jobs are rolled back and
\* their workers stop while calls are under way.  Named exception: a pass
\* published the receipt it had read before its call over a newer one; the
\* plugin then reads that one for the next call, and its append of what was
\* told already is acknowledged.
DeliveredIsTold ==
    ~overtaken =>
        /\ bound /\ receipt \in Outcomes /\ Delivered => receipt \in told
        /\ public.delivery = "delivered" => public.state \in told

\* The published receipt of a bound job that has settled agrees with the
\* private one in the end, although a pass publishes what it read before its
\* call, unless the machine stops in the middle of a job rolled back.
PublicCatchesUp ==
    []<>(bound /\ receipt \in Outcomes /\ events # {"rollback", "crash"}
            => public.state = receipt)

\* A settled job is recorded as delivered in the end, however many calls are
\* lost or late, unless its conversation is archived.
DeliverySettles == []<>(bound /\ receipt \in Outcomes => archived \/ Delivered)

=============================================================================
