------------------------------ MODULE Receipt ------------------------------
(***************************************************************************)
(* What clawosd promises about an approval token, whatever the action: it  *)
(* is issued once, withdrawn, expired or spent; what it authorises happens *)
(* at most once and only after it is spent; the receipt is settled by the  *)
(* call that spent it, or after a restart, and then stays as it is.        *)
(***************************************************************************)
EXTENDS Naturals

CONSTANTS
    Tokens,
    NoToken     \* not a token: no call is open

VARIABLES
    st,     \* the state of each token's record
    ran,    \* tokens whose command has taken effect
    open    \* the token whose call is executing, or NoToken

vars == <<st, ran, open>>

Spent == {"executing", "scheduled", "complete", "failed"}

Init ==
    /\ st = [t \in Tokens |-> "absent"]
    /\ ran = {}
    /\ open = NoToken

Issue(t) ==
    /\ st[t] = "absent"
    /\ st' = [st EXCEPT ![t] = "pending"]
    /\ UNCHANGED <<ran, open>>

Withdraw(t) ==
    /\ st[t] = "pending"
    /\ st' = [st EXCEPT ![t] = "cancelled"]
    /\ UNCHANGED <<ran, open>>

Expire(S) ==
    /\ \A t \in S : st[t] = "pending"
    /\ st' = [t \in Tokens |-> IF t \in S THEN "expired" ELSE st[t]]
    /\ UNCHANGED <<ran, open>>

Spend(t) ==
    /\ open = NoToken /\ st[t] = "pending"
    /\ st' = [st EXCEPT ![t] = "executing"]
    /\ open' = t
    /\ UNCHANGED ran

\* The effect may come late: a unit outlives the call that started it.
TakeEffect(t) ==
    /\ st[t] \in Spent /\ t \notin ran
    /\ ran' = ran \cup {t}
    /\ UNCHANGED <<st, open>>

\* The open call writes its outcome and may still turn it into a failure.
Answer(t, outcome) ==
    /\ open = t /\ st[t] \in {"executing", "scheduled", "complete"}
    /\ outcome = "failed" \/ st[t] = "executing"
    /\ st' = [st EXCEPT ![t] = outcome]
    /\ open' \in {t, NoToken}
    /\ UNCHANGED ran

\* The call returns or dies with the record as it is.
Close ==
    /\ open # NoToken /\ open' = NoToken
    /\ UNCHANGED <<st, ran>>

\* A restarted broker settles what it finds interrupted.
SettleLater(t, outcome) ==
    /\ open = NoToken /\ st[t] \in {"executing", "scheduled"}
    /\ st' = [st EXCEPT ![t] = outcome]
    /\ UNCHANGED <<ran, open>>

Next ==
    \/ \E t \in Tokens :
         \/ Issue(t) \/ Withdraw(t) \/ Spend(t) \/ TakeEffect(t)
         \/ \E outcome \in {"scheduled", "complete", "failed"} : Answer(t, outcome)
         \/ \E outcome \in {"complete", "failed"} : SettleLater(t, outcome)
    \/ \E S \in SUBSET Tokens : Expire(S)
    \/ Close

Spec == Init /\ [][Next]_vars
=============================================================================
