------------------------------ MODULE MCBroker ------------------------------
(* Instances of Broker for TLC: small sets of tokens, callers and actions.  *)
EXTENDS Broker, TLC

CONSTANTS t1, t2, a1, a2

Cli == [uid |-> "owner", attested |-> FALSE, agent |-> NoAgent]
Gateway(a) == [uid |-> "owner", attested |-> TRUE, agent |-> a]
Restricted(a) == [uid |-> "agent", attested |-> TRUE, agent |-> a]

Do(k) == [kind |-> k, arg |-> "none"]
Service(op) == [kind |-> "service.manage", arg |-> op]
Level(l) == [kind |-> "security.level.configure", arg |-> l]
GrantTo(a) == [kind |-> "task.grant.create", arg |-> a]
Power == [kind |-> "power.schedule", arg |-> "reboot"]

MCTokens == {t1, t2}
MCAgents == {a1, a2}
OneAgent == {a1}
Symmetry == Permutations(Tokens)

\* a1 is the core agent of the shipped policy, a2 a child with no action.
MCPolicy == [a \in Agents |-> IF a = a1 THEN Kinds ELSE {}]
MCGrantable == {"service.manage"}

\* Authority: who may prepare, approve and start what, and when, while the
\* level changes under pending tokens.
AuthorityCallers == {Cli, Restricted(a2)}
AuthorityRequests == {Service("stop"), GrantTo(a2), Power} \cup {Level(l) : l \in Levels}

\* Execution: commands of every shape interrupted at every step.
CliOnly == {Cli}
ChangeRequests == {Do("openclaw.update"), Do("package.install"),
                   Do("system.time.configure"), Service("start"),
                   Service("restart"), Do("role.switch"),
                   Do("recovery.rollback"), Power, Level("user-limited")}
=============================================================================
