-------------------------------- MODULE Setup --------------------------------
(***************************************************************************)
(* From first boot to the Agent workspace.  The onboarding server takes a  *)
(* machine through checkpointed steps, clawos-role exchanges the profiles  *)
(* of the two roles, clawosd derives the startup state from what both      *)
(* leave on disk, and clawos-entry decides on that state whether to show   *)
(* setup, to wait, or to open the workspace.                               *)
(***************************************************************************)
EXTENDS Disturb

CONSTANTS
    Accesses,  \* access levels a person may choose
    Shipped    \* the one the image is shipped with

Disturbances ==
    {"step", "close", "crash", "switch", "activate", "network", "lock", "repair", "lost", "probe",
     "tokenless"}

ASSUME SetupAssumption == Shipped \in Accesses /\ Faults \subseteq Disturbances /\ MaxFaults \in Nat

VARIABLES
    \* on disk, in the home of the owner
    config,     \* openclaw.json: role, ClawOS plugin linked, tools enabled
    token,      \* whose Gateway token .env holds
    profile,    \* the saved profile of each role
    check,      \* the onboarding checkpoint
    level,      \* the machine's security level
    marker,     \* the root-owned repair marker exists
    \* clawos-onboard-server
    onb,        \* "idle", or the stage it works on
    work,       \* the work of the stage is done, its checkpoint is not written
    want,       \* role and access of the request it works on
    orphans,    \* commands of a server that was killed, still running
    \* clawos-role switch
    role,       \* its next step
    backup,     \* config and token before it
    \* the session
    entry,      \* where clawos-entry stands
    obs,        \* the first half of a status query
    locked,
    up,         \* Gateways that answer
    \* history, for the properties
    completed,  \* a role was set up to the end
    blurred,    \* a status was lost, or had something else to say, before setup was complete
    spoilt      \* what the named exceptions have struck: "stages", "token"

disk == <<config, token, profile, check, level, marker>>
server == <<onb, work, want, orphans>>
switch == <<role, backup>>
session == <<entry, obs, locked, up>>
past == <<completed, blurred, spoilt>>
vars == <<disk, server, switch, session, faults, past>>

Modes == {"local", "remote"}
Stages == <<"start", "base", "plugin", "tools", "profile", "machine-policy", "complete">>
Rank(s) == CHOOSE i \in DOMAIN Stages : Stages[i] = s

Fresh == [mode |-> "none", plugin |-> FALSE, tools |-> FALSE]
Absent == [config |-> Fresh, token |-> "none"]
NoChoice == [mode |-> "none", access |-> "none"]
NoObs == [mode |-> "none", done |-> FALSE, desktop |-> "none", locked |-> FALSE]

-----------------------------------------------------------------------------
(* clawos-onboard-server.                                                   *)

Saved(s) == check' = [mode |-> want.mode, access |-> want.access, stage |-> s]
StageComplete(s) ==
    check.mode = want.mode /\ check.access = want.access /\ Rank(check.stage) >= Rank(s)

\* Setup and a role switch at one time, or a switch cut off, may leave anything.
Beside(both) == {e \in {"stages", "token"} : both}

\* A request while another runs is refused.  Both roles keep their token under
\* one name: the local role makes one up only where there is none, and the
\* remote one may be given none, which leaves what is there.
Submit(m, a, given) ==
    /\ entry = "onboarding" /\ onb = "idle" /\ onb' = "start" /\ work' = FALSE
    /\ want' = [mode |-> m, access |-> a]
    /\ token' = IF given \/ (m = "local" /\ token = "none") THEN m ELSE token
    /\ given => m = "remote"
    /\ IF m = "remote" /\ ~given THEN Strike("tokenless") ELSE NoStrike
    /\ spoilt' = spoilt \cup Beside(role # "idle")
                        \cup {e \in {"token"} : m = "remote" /\ token' # "remote"}
    /\ UNCHANGED <<config, profile, check, level, marker, orphans, switch, session,
                   completed, blurred>>

\* Mutant of Start: the checkpoint of another role is resumed.
StartResumed ==
    /\ onb = "start" /\ UNCHANGED check /\ onb' = "base"
    /\ UNCHANGED <<config, token, profile, level, marker, work, want, orphans, switch,
                   session, faults, past>>

\* A checkpoint of another choice, or one whose base no longer stands, counts
\* for nothing.
Start ==
    /\ onb = "start"
    /\ IF check.mode # want.mode \/ check.access # want.access
          \/ (config.mode # want.mode /\ StageComplete("base"))
       THEN Saved("start") ELSE UNCHANGED check
    /\ onb' = "base"
    /\ UNCHANGED <<config, token, profile, level, marker, work, want, orphans, switch,
                   session, faults, past>>

\* profile-save waits for the lock of clawos-role and stores the role it finds;
\* where there is no .env it leaves the one that was saved.
SaveProfile ==
    profile' = [profile EXCEPT ![config.mode] =
                   [config |-> config, token |-> IF token = "none" THEN @.token ELSE token]]

\* The part of the choice that the command of a stage is given.
Arg(s) == CASE s \in {"base", "tools"} -> want.mode
            [] s = "machine-policy" -> want.access
            [] OTHER -> "none"

\* What the commands of a stage do; the local Gateway is told of the tools, a
\* node is not.
Does(s, arg) ==
    CASE s = "base" -> config' = [config EXCEPT !.mode = arg] /\ UNCHANGED <<profile, level>>
      [] s = "plugin" -> config' = [config EXCEPT !.plugin = TRUE] /\ UNCHANGED <<profile, level>>
      [] s = "tools" -> config' = [config EXCEPT !.tools = @ \/ arg = "local"]
                        /\ UNCHANGED <<profile, level>>
      [] s = "profile" -> role = "idle" /\ config.mode \in Modes /\ SaveProfile
                          /\ UNCHANGED <<config, level>>
      [] s = "machine-policy" -> level' = arg /\ UNCHANGED <<config, profile>>
      [] OTHER -> UNCHANGED <<config, profile, level>>

\* The base stage looks at the role whatever the checkpoint says; onboarding
\* one that is configured already changes nothing.
Due(s) == s \in {"base", "complete"} \/ ~StageComplete(s)

\* It is a command that changes something: the role and the level are looked at
\* first, and a node is not told of the tools.
Spawns(s) ==
    \/ s = "base" /\ config.mode # want.mode
    \/ s \in {"plugin", "profile"}
    \/ s = "tools" /\ want.mode = "local"
    \/ s = "machine-policy" /\ level # want.access

Work ==
    /\ onb \notin {"idle", "start"} /\ ~work
    /\ \/ Due(onb) /\ Does(onb, Arg(onb)) /\ work' = TRUE /\ UNCHANGED <<onb, want>> /\ NoStrike
       \/ Due(onb) /\ onb # "complete" /\ Strike("step") /\ onb' = "idle" /\ want' = NoChoice
          /\ UNCHANGED <<work, config, profile, level>>
       \/ ~Due(onb) /\ onb' = Stages[Rank(onb) + 1] /\ NoStrike
          /\ UNCHANGED <<work, want, config, profile, level>>
    /\ UNCHANGED <<token, check, marker, orphans, switch, session, past>>

Checkpoint ==
    /\ work /\ work' = FALSE
    /\ IF onb = "base" /\ StageComplete("base") THEN UNCHANGED check ELSE Saved(onb)
    /\ IF onb = "complete" THEN onb' = "idle" /\ want' = NoChoice
       ELSE onb' = Stages[Rank(onb) + 1] /\ UNCHANGED want
    /\ completed' = (completed \/ onb = "complete")
    /\ UNCHANGED <<config, token, profile, level, marker, orphans, switch, session, faults,
                   blurred, spoilt>>

\* It puts its role, or its level, under the checkpoint of another choice.
Misplaces(o) ==
    \/ o.stage = "base" /\ o.arg # check.mode
    \/ o.stage = "machine-policy" /\ o.arg # check.access

\* A command outlives its server: it takes effect beside, or after, whatever
\* was submitted since.
Outlives(o) ==
    /\ o \in orphans /\ orphans' = orphans \ {o} /\ Does(o.stage, o.arg)
    /\ spoilt' = spoilt \cup {e \in {"stages"} : Misplaces(o)}
    /\ UNCHANGED <<token, check, marker, onb, work, want, switch, session, faults, completed,
                   blurred>>

-----------------------------------------------------------------------------
(* clawos-role switch, run by the broker.                                   *)

\* The role that is active is saved, and backed up, before the other is put in
\* its place.
SwitchBegins(t) ==
    /\ role = "idle" /\ profile[t] # Absent /\ config.mode \in Modes \ {t} /\ Strike("switch")
    /\ SaveProfile /\ backup' = [config |-> config, token |-> token]
    /\ role' = "config" /\ spoilt' = spoilt \cup Beside(onb # "idle" \/ orphans # {})
    /\ UNCHANGED <<config, token, check, level, marker, server, session, completed, blurred>>

Other == CHOOSE m \in Modes : m # backup.config.mode

SwitchConfig ==
    /\ role = "config" /\ config' = profile[Other].config /\ role' = "token"
    /\ UNCHANGED <<token, profile, check, level, marker, server, backup, session, faults, past>>

SwitchToken ==
    /\ role = "token" /\ token' = profile[Other].token /\ role' = "activate"
    /\ UNCHANGED <<config, profile, check, level, marker, server, backup, session, faults, past>>

\* The local Gateway is restarted, or stopped for the node service.
Activated(m) == up' = IF m = "local" THEN up \cup {"local"} ELSE up \ {"local"}

SwitchActivates ==
    /\ role = "activate"
    /\ \/ Activated(Other) /\ role' = "save" /\ NoStrike
       \/ up' = up \ {"local"} /\ role' = "restore" /\ Strike("activate")
    /\ UNCHANGED <<disk, server, backup, entry, obs, locked, past>>

\* Mutant of SwitchEnds: the secrets of the previous role are not put back.
SwitchEndsBare ==
    /\ \/ /\ role = "restore" /\ UNCHANGED <<profile, token>>
          /\ config' = backup.config /\ Activated(backup.config.mode)
       \/ role = "save" /\ SaveProfile /\ UNCHANGED <<config, token, up>>
    /\ role' = "idle" /\ backup' = Absent
    /\ UNCHANGED <<check, level, marker, server, entry, obs, locked, faults, past>>

\* The previous role is put back and activated, or the new one saved.
SwitchEnds ==
    /\ \/ /\ role = "restore" /\ UNCHANGED profile
          /\ config' = backup.config /\ token' = backup.token /\ Activated(backup.config.mode)
       \/ role = "save" /\ SaveProfile /\ UNCHANGED <<config, token, up>>
    /\ role' = "idle" /\ backup' = Absent
    /\ UNCHANGED <<check, level, marker, server, entry, obs, locked, faults, past>>

-----------------------------------------------------------------------------
(* The startup state of clawosd.                                            *)

\* Mutant of SetupComplete: any checkpoint of the role that is configured counts.
SetupChosen == config.mode \in Modes /\ check.mode = config.mode

SetupComplete == config.mode \in Modes /\ check.mode = config.mode /\ check.stage = "complete"

\* The files, the session service and the lock first; a service manager that
\* does not answer leaves the desktop unknown.
StatusBegins ==
    /\ entry \in {"setup", "startup"} /\ obs = NoObs
    /\ \E d \in {"active", "unknown"} :
          /\ obs' = [mode |-> config.mode, done |-> SetupComplete, desktop |-> d, locked |-> locked]
          /\ IF d = "unknown" THEN Strike("probe") ELSE NoStrike
    /\ UNCHANGED <<disk, server, switch, entry, locked, up, past>>

\* The Gateway is asked, the marker looked for, and one state derived.
State ==
    CASE marker -> "repair-required"
      [] ~marker /\ obs.locked -> "locked"
      [] ~marker /\ ~obs.locked /\ obs.desktop # "active" -> "startup"
      [] ~marker /\ ~obs.locked /\ obs.desktop = "active" /\ ~obs.done -> "setup-incomplete"
      [] ~marker /\ ~obs.locked /\ obs.desktop = "active" /\ obs.done /\ obs.mode \notin up -> "startup"
      [] OTHER -> "ready"

-----------------------------------------------------------------------------
(* clawos-entry.                                                            *)

\* Mutant of Decide: the second loop waits for ready.
DecideWaits(state) ==
    CASE entry = "setup" /\ state = "setup-incomplete" -> "onboarding"
      [] state = "repair-required" -> "exited"
      [] state = "ready" -> "workspace"
      [] OTHER -> "startup"

\* The first loop leaves for anything but setup-incomplete, the second waits
\* while the state is startup; then only repair-required stops it.
Decide(state) ==
    CASE entry = "setup" /\ state = "setup-incomplete" -> "onboarding"
      [] state = "startup" -> "startup"
      [] state = "repair-required" -> "exited"
      [] OTHER -> "workspace"

\* A query that fails, or takes longer than five seconds, reads as startup.
StatusEnds ==
    /\ obs # NoObs /\ obs' = NoObs
    /\ \E state \in {State, "startup"} :
          /\ entry' = Decide(state)
          /\ IF state = State THEN NoStrike ELSE Strike("lost")
          /\ blurred' = (blurred \/ (~obs.done /\ (state # State \/ obs.locked \/ obs.desktop # "active")))
    /\ UNCHANGED <<disk, server, switch, locked, up, completed, spoilt>>

\* Setup offers to close once the checkpoint of the active role is complete.
FinishSetup ==
    /\ entry = "onboarding" /\ onb = "idle" /\ SetupComplete /\ entry' = "setup"
    /\ UNCHANGED <<disk, server, switch, obs, locked, up, faults, past>>

\* The window is closed before: the server is killed, and setup shown again.
\* A command it had just started runs on, unless its broken pipe stops it.
CloseSetup ==
    /\ entry = "onboarding" /\ Strike("close") /\ entry' = "setup"
    /\ onb' = "idle" /\ work' = FALSE /\ want' = NoChoice
    /\ orphans' \in {orphans, orphans \cup {o \in {[stage |-> onb, arg |-> Arg(onb)]} :
                                                Spawns(onb) /\ ~work /\ Due(onb)}}
    /\ UNCHANGED <<disk, switch, obs, locked, up, past>>

-----------------------------------------------------------------------------
(* The machine.                                                             *)

\* The daemon of the local role, and the controller of the remote one.
GatewayAnswers(m) ==
    /\ config.mode = m /\ m \notin up /\ up' = up \cup {m}
    /\ UNCHANGED <<disk, server, switch, entry, obs, locked, faults, past>>

GatewayLost(m) ==
    /\ config.mode = m /\ m \in up /\ up' = up \ {m} /\ Strike("network")
    /\ UNCHANGED <<disk, server, switch, entry, obs, locked, past>>

Lock ==
    /\ ~locked /\ Strike("lock") /\ locked' = TRUE
    /\ UNCHANGED <<disk, server, switch, entry, obs, up, past>>

Unlock ==
    /\ locked /\ locked' = FALSE
    /\ UNCHANGED <<disk, server, switch, entry, obs, up, faults, past>>

RepairNeeded ==
    /\ ~marker /\ Strike("repair") /\ marker' = TRUE
    /\ UNCHANGED <<config, token, profile, check, level, server, switch, session, past>>

\* Power is lost; the session starts again after the boot.
Crash ==
    /\ Strike("crash")
    /\ onb' = "idle" /\ work' = FALSE /\ orphans' = {} /\ role' = "idle"
    /\ entry' = "setup" /\ obs' = NoObs /\ locked' = FALSE /\ up' = up \ {"local"}
    /\ want' = NoChoice /\ backup' = Absent
    /\ spoilt' = spoilt \cup Beside(role # "idle") /\ blurred' = FALSE
    /\ UNCHANGED <<disk, completed>>

\* The workspace is open, or the entry process gave up.
Idle == entry \in {"workspace", "exited"} /\ UNCHANGED vars

-----------------------------------------------------------------------------

Init ==
    /\ config = Fresh /\ token = "none" /\ profile = [m \in Modes |-> Absent]
    /\ check = [mode |-> "none", access |-> Shipped, stage |-> "start"] /\ level = Shipped
    /\ want = NoChoice
    /\ marker = FALSE /\ onb = "idle" /\ work = FALSE /\ orphans = {}
    /\ role = "idle" /\ backup = Absent
    /\ entry = "setup" /\ obs = NoObs /\ locked = FALSE /\ up = {"remote"}
    /\ faults = 0 /\ completed = FALSE /\ blurred = FALSE /\ spoilt = {}

Onboarding == Start \/ Work \/ Checkpoint
Switching == SwitchConfig \/ SwitchToken \/ SwitchActivates \/ SwitchEnds
Query == StatusBegins \/ StatusEnds

Next ==
    \/ \E m \in Modes, a \in Accesses, given \in BOOLEAN : Submit(m, a, given)
    \/ \E o \in orphans : Outlives(o)
    \/ \E m \in Modes : SwitchBegins(m) \/ GatewayAnswers(m) \/ GatewayLost(m)
    \/ Onboarding \/ Switching \/ Query \/ FinishSetup \/ CloseSetup
    \/ Lock \/ Unlock \/ RepairNeeded \/ Crash \/ Idle

Spec == Init /\ [][Next]_vars

\* The scripts run on, the Gateway of the role comes up, and the person at the
\* machine unlocks it, submits setup and closes it when it offers to.
FairSpec ==
    /\ Spec /\ WF_vars(Onboarding) /\ WF_vars(Switching) /\ WF_vars(Query)
    /\ WF_vars(\E m \in Modes, a \in Accesses, given \in BOOLEAN : ~SetupComplete /\ Submit(m, a, given))
    /\ SF_vars(FinishSetup) /\ WF_vars(Unlock) /\ WF_vars(\E m \in Modes : GatewayAnswers(m))

-----------------------------------------------------------------------------

Configs == [mode : Modes \cup {"none"}, plugin : BOOLEAN, tools : BOOLEAN]
Tokens == Modes \cup {"none"}

\* Every variable has its type.
TypeOK ==
    /\ config \in Configs /\ token \in Tokens
    /\ profile \in [Modes -> [config : Configs, token : Tokens]]
    /\ check.mode \in Tokens /\ check.access \in Accesses /\ Rank(check.stage) \in 1..7
    /\ level \in Accesses /\ marker \in BOOLEAN
    /\ onb = "idle" \/ Rank(onb) \in 1..7
    /\ work \in BOOLEAN /\ want \in [mode : Modes, access : Accesses] \cup {NoChoice}
    /\ \A o \in orphans : Rank(o.stage) \in 2..6 /\ o.arg \in Tokens \cup Accesses
    /\ role \in {"idle", "config", "token", "activate", "restore", "save"}
    /\ backup \in [config : Configs, token : Tokens]
    /\ entry \in {"setup", "onboarding", "startup", "workspace", "exited"}
    /\ obs \in [mode : Tokens, done : BOOLEAN, desktop : {"none", "active", "unknown"},
                locked : BOOLEAN]
    /\ locked \in BOOLEAN /\ up \subseteq Modes /\ faults \in 0..MaxFaults
    /\ completed \in BOOLEAN /\ blurred \in BOOLEAN /\ spoilt \subseteq {"stages", "token"}

\* What the checkpoint claims has been done to the role it names: whatever is
\* interrupted, resumed or chosen anew, and whatever a killed server left
\* running, no stage is skipped.  Named exceptions: a role switch that was cut
\* off or ran beside setup, and a surviving command that put its own role or
\* level under the checkpoint of another choice.
StagesHold ==
    LET m == check.mode
        c == IF config.mode = m THEN config ELSE profile[m].config
        Past(s) == Rank(check.stage) >= Rank(s)
    IN m \in Modes /\ "stages" \notin spoilt /\ role = "idle" =>
        /\ Past("plugin") => c.plugin
        /\ Past("tools") /\ m = "local" => c.tools
        /\ Past("profile") => profile[m].config.plugin /\ (m = "local" => profile[m].config.tools)
        /\ Past("machine-policy") => level = check.access

\* A machine in the remote role has the token of its controller, and so has the
\* saved profile, through onboarding, switches that fail, and switches back.
\* Named exceptions: the remote role was submitted with no token while .env did
\* not hold one of the controller, or a role switch was cut off or ran beside
\* setup.
RemoteKeepsToken ==
    "token" \notin spoilt /\ role = "idle" =>
        /\ config.mode = "remote" => token = "remote"
        /\ profile["remote"] # Absent => profile["remote"].token = "remote"

\* "Finish setup before entering the Agent workspace": nobody gets past the
\* entry loops with no role set up, whatever the Gateway, the marker and the
\* checkpoint do between two queries and in the middle of one.  Named
\* exceptions: before setup was complete a query was lost, or met a locked
\* screen or a desktop whose state is unknown.
GateHolds == blurred \/ (entry = "workspace" => completed)

\* The session gets to the workspace, or stops for a repair.
SessionArrives == <>(entry \in {"workspace", "exited"})

=============================================================================
