------------------------------ MODULE SetupProofs ------------------------------
(***************************************************************************)
(* Proofs about Setup, for any access levels and disturbances: nobody gets *)
(* into the workspace before a role is set up, a machine in the remote     *)
(* role keeps the token of its controller, and the checkpoint claims no    *)
(* stage that was not carried out.                                         *)
(***************************************************************************)
EXTENDS Setup, TLAPS

Names == {"start", "base", "plugin", "tools", "profile", "machine-policy", "complete"}

LEMMA StageAt ==
    /\ DOMAIN Stages = 1..7
    /\ Stages[1] = "start" /\ Stages[2] = "base" /\ Stages[3] = "plugin" /\ Stages[4] = "tools"
    /\ Stages[5] = "profile" /\ Stages[6] = "machine-policy" /\ Stages[7] = "complete"
BY DEF Stages

LEMMA RankOf ==
    ASSUME NEW i \in 1..7
    PROVE  Rank(Stages[i]) = i
<1>1. \A j \in 1..7 : Stages[j] = Stages[i] => j = i
  BY StageAt
<1>2. \E j \in DOMAIN Stages : Stages[j] = Stages[i]
  BY StageAt
<1>. QED  BY <1>1, <1>2, StageAt DEF Rank

\* The stages in their order.
LEMMA Order ==
    /\ Rank("start") = 1 /\ Rank("base") = 2 /\ Rank("plugin") = 3 /\ Rank("tools") = 4
    /\ Rank("profile") = 5 /\ Rank("machine-policy") = 6 /\ Rank("complete") = 7
    /\ \A s \in Names : Rank(s) \in 1..7 /\ (s # "complete" => Stages[Rank(s) + 1] \in Names)
<1>1. /\ Rank(Stages[1]) = 1 /\ Rank(Stages[2]) = 2 /\ Rank(Stages[3]) = 3 /\ Rank(Stages[4]) = 4
      /\ Rank(Stages[5]) = 5 /\ Rank(Stages[6]) = 6 /\ Rank(Stages[7]) = 7
  BY RankOf
<1>2. /\ Rank("start") = 1 /\ Rank("base") = 2 /\ Rank("plugin") = 3 /\ Rank("tools") = 4
      /\ Rank("profile") = 5 /\ Rank("machine-policy") = 6 /\ Rank("complete") = 7
  BY <1>1, StageAt
<1>. QED  BY <1>2, StageAt DEF Names

SetupType ==
    /\ config \in Configs /\ token \in Tokens
    /\ profile \in [Modes -> [config : Configs, token : Tokens]]
    /\ check \in [mode : Tokens, access : Accesses, stage : Names]
    /\ level \in Accesses /\ marker \in BOOLEAN
    /\ onb \in Names \cup {"idle"}
    /\ work \in BOOLEAN /\ want \in [mode : Modes, access : Accesses] \cup {NoChoice}
    /\ \A o \in orphans : /\ o.stage \in {"base", "plugin", "tools", "profile", "machine-policy"}
                          /\ o.arg \in Tokens \cup Accesses
                          /\ o.stage = "base" => o.arg \in Modes
                          /\ o.stage = "machine-policy" => o.arg \in Accesses
    /\ role \in {"idle", "config", "token", "activate", "restore", "save"}
    /\ backup \in [config : Configs, token : Tokens]
    /\ entry \in {"setup", "onboarding", "startup", "workspace", "exited"}
    /\ obs \in [mode : Tokens, done : BOOLEAN, desktop : {"none", "active", "unknown"},
                locked : BOOLEAN]
    /\ locked \in BOOLEAN /\ up \subseteq Modes /\ faults \in 0..MaxFaults
    /\ completed \in BOOLEAN /\ blurred \in BOOLEAN /\ spoilt \subseteq {"stages", "token"}
    /\ onb # "idle" => want \in [mode : Modes, access : Accesses]
    /\ work => onb \notin {"idle", "start"}
    /\ role # "idle" => backup.config.mode \in Modes

\* The gate: what is known to be complete was completed.
GateInv ==
    /\ check.stage = "complete" => completed
    /\ obs.done => completed
    /\ obs # NoObs => entry \in {"setup", "startup"}
    /\ blurred \/ (entry \in {"startup", "workspace"} => completed)

\* No role switch was cut off, or ran while setup did.
Apart == ~({"stages", "token"} \subseteq spoilt)

\* A profile holds its own role, and a switch knows both.
SwitchInv ==
    Apart =>
      /\ \A m \in Modes : profile[m] # Absent => profile[m].config.mode = m
      /\ role # "idle" => /\ onb = "idle" /\ orphans = {}
                          /\ profile[backup.config.mode].config = backup.config
                          /\ profile[Other] # Absent
      /\ role = "config" => config = backup.config
      /\ role \in {"token", "activate", "save", "restore"} => config = profile[Other].config

\* The token of the remote role comes before the role does.
TokenInv ==
    "token" \notin spoilt =>
      /\ onb # "idle" /\ want.mode = "remote" => token = "remote"
      /\ \A o \in orphans : o.stage = "base" /\ o.arg = "remote" => token = "remote"
      /\ config.mode = "remote" /\ role = "idle" => token = "remote"
      /\ profile["remote"] # Absent => profile["remote"].token = "remote"
      /\ role # "idle" /\ backup.config.mode = "remote" => backup.token = "remote"
      /\ role \in {"activate", "save", "restore"} /\ Other = "remote" => token = "remote"

LEMMA Growing == [Next]_vars => spoilt \subseteq spoilt'
BY DEF Next, vars, Idle, past, Onboarding, Switching, Query, Submit, SwitchBegins, Start, Work,
       Checkpoint, Outlives, SwitchConfig, SwitchToken, SwitchActivates, SwitchEnds, StatusBegins,
       StatusEnds, FinishSetup, CloseSetup, GatewayAnswers, GatewayLost, Lock, Unlock,
       RepairNeeded, Crash

LEMMA OtherRole ==
    ASSUME backup.config.mode \in Modes
    PROVE  Other \in Modes /\ Other # backup.config.mode
BY DEF Other, Modes

\* What is saved, and what of the other role is left.
LEMMA ProfileSaved ==
    ASSUME SetupType, config.mode \in Modes, SaveProfile
    PROVE  /\ profile' \in [Modes -> [config : Configs, token : Tokens]]
           /\ profile'[config.mode].config = config
           /\ token # "none" => profile'[config.mode].token = token
           /\ \A m \in Modes \ {config.mode} : profile'[m] = profile[m]
BY DEF SaveProfile, SetupType

LEMMA InitSetup == Init => SetupType /\ GateInv /\ SwitchInv /\ TokenInv
<1>. SUFFICES ASSUME Init PROVE SetupType /\ GateInv /\ SwitchInv /\ TokenInv
  OBVIOUS
<1>1. /\ marker \in BOOLEAN /\ work \in BOOLEAN /\ locked \in BOOLEAN /\ completed \in BOOLEAN
      /\ blurred \in BOOLEAN
  BY Zenon DEF Init
<1>2. Fresh \in Configs /\ Absent \in [config : Configs, token : Tokens]
  BY DEF Fresh, Absent, Configs, Tokens, Modes
<1>3. SetupType
  BY <1>1, <1>2, SetupAssumption
     DEF SetupAssumption, Init, SetupType, Names, NoObs, NoChoice, Tokens, Modes
<1>4. GateInv /\ SwitchInv /\ TokenInv
  BY DEF Init, GateInv, SwitchInv, TokenInv, Fresh, Absent, NoObs, Modes
<1>. QED  BY <1>3, <1>4

\* What each stage does, apart.
LEMMA StageWork ==
    ASSUME NEW arg
    PROVE  /\ Does("base", arg) => config' = [config EXCEPT !.mode = arg] /\ UNCHANGED <<profile, level>>
           /\ Does("plugin", arg) => config' = [config EXCEPT !.plugin = TRUE]
                                     /\ UNCHANGED <<profile, level>>
           /\ Does("tools", arg) => config' = [config EXCEPT !.tools = @ \/ arg = "local"]
                                    /\ UNCHANGED <<profile, level>>
           /\ Does("profile", arg) => role = "idle" /\ config.mode \in Modes /\ SaveProfile
                                      /\ UNCHANGED <<config, level>>
           /\ Does("machine-policy", arg) => level' = arg /\ UNCHANGED <<config, profile>>
           /\ Does("complete", arg) => UNCHANGED <<config, profile, level>>
BY Zenon DEF Does

\* A stage leaves its files well typed, whoever does it.
LEMMA StageType ==
    ASSUME SetupType, NEW s \in Names \ {"start"}, NEW arg, Does(s, arg),
           s = "base" => arg \in Modes, s = "machine-policy" => arg \in Accesses
    PROVE  /\ config' \in Configs /\ level' \in Accesses
           /\ profile' \in [Modes -> [config : Configs, token : Tokens]]
<1>. USE DEF SetupType
<1>1. CASE s = "base"
  <2>1. config' = [mode |-> arg, plugin |-> config.plugin, tools |-> config.tools]
        /\ UNCHANGED <<profile, level>> /\ arg \in Tokens
    BY <1>1, StageWork DEF Configs, Tokens
  <2>. QED  BY <2>1 DEF Configs, Tokens
<1>a. CASE s = "plugin"
  <2>1. config' = [mode |-> config.mode, plugin |-> TRUE, tools |-> config.tools]
        /\ UNCHANGED <<profile, level>>
    BY <1>a, StageWork DEF Configs
  <2>. QED  BY <2>1 DEF Configs
<1>2. CASE s = "tools"
  <2>1. (config.tools \/ arg = "local") \in BOOLEAN
    BY Zenon
  <2>2. config' = [mode |-> config.mode, plugin |-> config.plugin,
                   tools |-> config.tools \/ arg = "local"]
    BY <1>2, StageWork DEF Configs
  <2>. QED  BY <1>2, <2>1, <2>2, StageWork DEF Configs
<1>3. CASE s = "profile"
  BY <1>3, StageWork, ProfileSaved
<1>4. CASE s \in {"machine-policy", "complete"}
  BY <1>4, StageWork
<1>. QED  BY <1>1, <1>a, <1>2, <1>3, <1>4 DEF Names

LEMMA TypeKeeps == ASSUME SetupType, [Next]_vars PROVE SetupType'
<1>. USE SetupAssumption
     DEF SetupAssumption, SetupType, Strike, NoStrike, disk, server, switch, session, past, Saved,
         NoChoice
<1>0. Fresh \in Configs /\ Absent \in [config : Configs, token : Tokens] /\ Modes \subseteq Tokens
      /\ NoObs \in [mode : Tokens, done : BOOLEAN, desktop : {"none", "active", "unknown"},
                    locked : BOOLEAN]
  BY DEF Fresh, Absent, NoObs, Configs, Tokens, Modes
<1>a. \A both : Beside(both) \subseteq {"stages", "token"}
  BY DEF Beside
<1>1. ASSUME NEW m \in Modes, NEW a \in Accesses, NEW given \in BOOLEAN, Submit(m, a, given)
      PROVE SetupType'
  <2>1. work' \in BOOLEAN
    BY <1>1, Zenon DEF Submit
  <2>2. spoilt' \subseteq {"stages", "token"}
    BY <1>1, <1>a DEF Submit
  <2>3. token' \in Tokens /\ faults' \in 0..MaxFaults /\ want' = [mode |-> m, access |-> a]
    BY <1>0, <1>1 DEF Submit
  <2>4. onb' = "start" /\ work' = FALSE
        /\ UNCHANGED <<config, profile, check, level, marker, orphans, switch, session,
                       completed, blurred>>
    BY <1>1 DEF Submit
  <2>. QED  BY <2>1, <2>2, <2>3, <2>4 DEF Names
<1>2. CASE Start
  BY <1>0, <1>2 DEF Start, Names
<1>3. CASE Work
  <2>1. work' \in BOOLEAN
    BY <1>3, Zenon DEF Work
  <2>2. onb \in Names \ {"start"} /\ onb' \in Names \cup {"idle"}
    BY <1>3, Order DEF Work, Due, Names
  <2>a. onb # "idle" /\ Arg("base") \in Modes /\ Arg("machine-policy") \in Accesses
    BY <2>2 DEF Arg, Names
  <2>3. config' \in Configs /\ level' \in Accesses
        /\ profile' \in [Modes -> [config : Configs, token : Tokens]]
    <3>1. CASE UNCHANGED <<config, profile, level>>
      BY <3>1
    <3>2. CASE Does(onb, Arg(onb))
      <4>1. onb \in Names \ {"start"}
        BY <2>2
      <4>2. (onb = "base" => Arg(onb) \in Modes) /\ (onb = "machine-policy" => Arg(onb) \in Accesses)
        BY <2>a
      <4>3. SetupType
        BY Zenon
      <4>. QED  BY <3>2, <4>1, <4>2, <4>3, StageType
    <3>. QED  BY <1>3, <3>1, <3>2 DEF Work
  <2>4. work' => onb' \notin {"idle", "start"}
    BY <1>3, Order, StageAt DEF Work, Due, Names
  <2>5. (NoStrike \/ Strike("step"))
        /\ UNCHANGED <<token, check, marker, orphans, switch, session, past>>
    BY <1>3 DEF Work
  <2>6. want' \in {want, NoChoice} /\ (onb' = "idle" \/ want' = want)
    BY <1>3 DEF Work
  <2>. QED  BY <2>1, <2>2, <2>a, <2>3, <2>4, <2>5, <2>6 DEF Names
<1>4. CASE Checkpoint
  <2>1. work' \in BOOLEAN /\ completed' \in BOOLEAN
    BY <1>4, Zenon DEF Checkpoint
  <2>2. onb' \in Names \cup {"idle"} /\ work' = FALSE /\ onb \in Names
    BY <1>4, Order DEF Checkpoint
  <2>3. check' \in [mode : Tokens, access : Accesses, stage : Names]
    BY <1>0, <1>4, <2>2 DEF Checkpoint
  <2>4. want \in [mode : Modes, access : Accesses]
    BY <2>2 DEF Names
  <2>5. want' \in {want, NoChoice} /\ (onb' = "idle" \/ want' = want)
    BY <1>4 DEF Checkpoint
  <2>. QED  BY <1>4, <2>1, <2>2, <2>3, <2>4, <2>5 DEF Checkpoint
<1>5. ASSUME NEW m \in Modes, SwitchBegins(m) PROVE SetupType'
  <2>1. spoilt' \subseteq {"stages", "token"}
    BY <1>5, <1>a DEF SwitchBegins
  <2>2. profile' \in [Modes -> [config : Configs, token : Tokens]]
    BY <1>5, ProfileSaved DEF SwitchBegins
  <2>. QED  BY <1>5, <2>1, <2>2 DEF SwitchBegins
<1>6. CASE SwitchConfig
  <2>1. Other \in Modes
    BY <1>6, OtherRole DEF SwitchConfig
  <2>. QED  BY <1>6, <2>1 DEF SwitchConfig
<1>7. CASE SwitchToken
  <2>1. Other \in Modes
    BY <1>7, OtherRole DEF SwitchToken
  <2>. QED  BY <1>7, <2>1 DEF SwitchToken
<1>8. CASE SwitchActivates
  <2>1. up' \subseteq Modes /\ role' \in {"save", "restore"} /\ role = "activate"
    BY <1>8 DEF SwitchActivates, Activated, Modes
  <2>2. UNCHANGED <<disk, server, backup, entry, obs, locked, past>>
        /\ (NoStrike \/ Strike("activate"))
    BY <1>8 DEF SwitchActivates
  <2>. QED  BY <2>1, <2>2
<1>9. CASE SwitchEnds
  <2>1. profile' \in [Modes -> [config : Configs, token : Tokens]]
    BY <1>9, ProfileSaved DEF SwitchEnds, SaveProfile
  <2>2. config' \in {config, backup.config} /\ token' \in {token, backup.token} /\ role' = "idle"
    BY <1>9 DEF SwitchEnds
  <2>3. up' \subseteq Modes
    BY <1>9 DEF SwitchEnds, Activated, Modes
  <2>4. backup' = Absent /\ UNCHANGED <<check, level, marker, server, entry, obs, locked, faults, past>>
    BY <1>9 DEF SwitchEnds
  <2>. QED  BY <1>0, <2>1, <2>2, <2>3, <2>4
<1>10. CASE StatusBegins
  <2>1. SetupComplete \in BOOLEAN
    BY Zenon DEF SetupComplete
  <2>2. PICK d \in {"active", "unknown"} :
          /\ obs' = [mode |-> config.mode, done |-> SetupComplete, desktop |-> d, locked |-> locked]
          /\ IF d = "unknown" THEN Strike("probe") ELSE NoStrike
    BY <1>10 DEF StatusBegins
  <2>3. UNCHANGED <<disk, server, switch, entry, locked, up, past>>
    BY <1>10 DEF StatusBegins
  <2>. QED  BY <2>1, <2>2, <2>3 DEF Configs, Tokens
<1>11. CASE StatusEnds
  <2>1. blurred' \in BOOLEAN
    BY <1>11, Zenon DEF StatusEnds
  <2>2. obs' = NoObs /\ UNCHANGED <<disk, server, switch, locked, up, completed, spoilt>>
    BY <1>11 DEF StatusEnds
  <2>3. PICK state : entry' = Decide(state) /\ (NoStrike \/ Strike("lost"))
    BY <1>11 DEF StatusEnds
  <2>4. entry' \in {"setup", "onboarding", "startup", "workspace", "exited"}
    BY <2>3 DEF Decide
  <2>. QED  BY <1>0, <2>1, <2>2, <2>3, <2>4
<1>12. CASE FinishSetup
  BY <1>12 DEF FinishSetup
<1>13. CASE CloseSetup
  <2>1. work' \in BOOLEAN
    BY <1>13, Zenon DEF CloseSetup
  <2>2. ASSUME NEW o \in orphans', o \notin orphans
        PROVE  /\ o.stage \in {"base", "plugin", "tools", "profile", "machine-policy"}
               /\ o.arg \in Tokens \cup Accesses
               /\ o.stage = "base" => o.arg \in Modes
               /\ o.stage = "machine-policy" => o.arg \in Accesses
    <3>1. o = [stage |-> onb, arg |-> Arg(onb)] /\ Spawns(onb)
      BY <1>13, <2>2 DEF CloseSetup
    <3>2. onb \in {"base", "plugin", "tools", "profile", "machine-policy"}
      BY <3>1 DEF Spawns
    <3>3. want \in [mode : Modes, access : Accesses]
      BY <3>2
    <3>. QED  BY <1>0, <3>1, <3>2, <3>3 DEF Arg, Tokens
  <2>3. onb' = "idle" /\ work' = FALSE /\ want' = NoChoice /\ entry' = "setup" /\ Strike("close")
        /\ UNCHANGED <<disk, switch, obs, locked, up, past>>
    BY <1>13 DEF CloseSetup
  <2>. QED  BY <2>1, <2>2, <2>3
<1>14. ASSUME NEW m \in Modes, GatewayAnswers(m) \/ GatewayLost(m) PROVE SetupType'
  <2>1. up' \subseteq Modes /\ faults' \in 0..MaxFaults
    BY <1>14 DEF GatewayAnswers, GatewayLost
  <2>2. UNCHANGED <<config, token, profile, check, level, marker, onb, work, want, orphans, role,
                    backup, entry, obs, locked, completed, blurred, spoilt>>
    BY <1>14 DEF GatewayAnswers, GatewayLost
  <2>. QED  BY <2>1, <2>2
<1>15. CASE Lock \/ Unlock \/ RepairNeeded
  <2>1. locked' \in BOOLEAN /\ marker' \in BOOLEAN
    BY <1>15, Zenon DEF Lock, Unlock, RepairNeeded
  <2>2. faults' \in 0..MaxFaults
        /\ UNCHANGED <<config, token, profile, check, level, onb, work, want, orphans, role,
                       backup, entry, obs, up, completed, blurred, spoilt>>
    BY <1>15 DEF Lock, Unlock, RepairNeeded
  <2>. QED  BY <2>1, <2>2
<1>16. CASE Crash
  <2>1. work' \in BOOLEAN /\ locked' \in BOOLEAN /\ blurred' \in BOOLEAN
    BY <1>16, Zenon DEF Crash
  <2>2. spoilt' \subseteq {"stages", "token"}
    BY <1>16, <1>a DEF Crash
  <2>. QED  BY <1>0, <1>16, <2>1, <2>2 DEF Crash
<1>b. ASSUME NEW o \in orphans, Outlives(o) PROVE SetupType'
  <2>1. o.stage \in Names \ {"start"} /\ Does(o.stage, o.arg)
        /\ (o.stage = "base" => o.arg \in Modes) /\ (o.stage = "machine-policy" => o.arg \in Accesses)
    BY <1>b DEF Outlives, Names
  <2>a. SetupType
    BY Zenon
  <2>2. config' \in Configs /\ level' \in Accesses
        /\ profile' \in [Modes -> [config : Configs, token : Tokens]]
    BY <2>1, <2>a, StageType
  <2>3. spoilt' \subseteq {"stages", "token"} /\ orphans' \subseteq orphans
    BY <1>b DEF Outlives
  <2>4. UNCHANGED <<token, check, marker, onb, work, want, switch, session, faults, completed,
                    blurred>>
    BY <1>b DEF Outlives
  <2>. QED  BY <2>2, <2>3, <2>4
<1>17. CASE UNCHANGED vars \/ Idle
  <2>1. UNCHANGED <<config, token, profile, check, level, marker, onb, work, want, orphans, role,
                    backup, entry, obs, locked, up, faults, completed, blurred, spoilt>>
    BY <1>17 DEF vars, Idle
  <2>. QED  BY <2>1
<1>. QED
  BY <1>1, <1>2, <1>3, <1>4, <1>5, <1>6, <1>7, <1>8, <1>9, <1>10, <1>11, <1>12, <1>13, <1>14,
     <1>15, <1>16, <1>b, <1>17 DEF Next, Onboarding, Switching, Query

LEMMA GateKeeps == ASSUME SetupType, GateInv, [Next]_vars PROVE GateInv'
<1>. USE DEF GateInv, disk, server, switch, session, past
<1>1. CASE Checkpoint
  <2>1. check'.stage = "complete" => completed'
    <3>1. check' \in {check, [mode |-> want.mode, access |-> want.access, stage |-> onb]}
      BY <1>1 DEF Checkpoint, Saved
    <3>2. completed \/ onb = "complete" => completed'
      BY <1>1, Zenon DEF Checkpoint
    <3>3. CASE check' = check
      BY <3>2, <3>3
    <3>4. CASE check' = [mode |-> want.mode, access |-> want.access, stage |-> onb]
      BY <3>2, <3>4
    <3>. QED  BY <3>1, <3>3, <3>4
  <2>2. (completed => completed') /\ UNCHANGED <<obs, entry, blurred>>
    BY <1>1 DEF Checkpoint
  <2>. QED  BY <2>1, <2>2
<1>2. CASE StatusBegins
  <2>1. SetupComplete => completed
    BY DEF SetupComplete
  <2>2. PICK d : obs' = [mode |-> config.mode, done |-> SetupComplete, desktop |-> d,
                         locked |-> locked]
    BY <1>2 DEF StatusBegins
  <2>3. obs'.done = SetupComplete
    BY <2>2
  <2>4. UNCHANGED <<check, completed, blurred, entry>> /\ entry \in {"setup", "startup"}
    BY <1>2 DEF StatusBegins
  <2>. QED  BY <2>1, <2>3, <2>4
<1>3. CASE StatusEnds
  <2>1. PICK state \in {State, "startup"} :
          /\ entry' = Decide(state)
          /\ blurred' = (blurred \/ (~obs.done /\ (state # State \/ obs.locked \/ obs.desktop # "active")))
    BY <1>3 DEF StatusEnds
  <2>2. UNCHANGED <<check, completed>> /\ obs' = NoObs /\ ~NoObs.done
        /\ entry \in {"setup", "startup"}
    BY <1>3 DEF StatusEnds, NoObs
  <2>3. ASSUME entry' \in {"startup", "workspace"}, ~completed, ~blurred' PROVE FALSE
    <3>1. ~blurred /\ entry = "setup" /\ ~obs.done
      BY <2>1, <2>2, <2>3, Zenon
    <3>2. state = State /\ ~obs.locked /\ obs.desktop = "active"
      BY <2>1, <2>3, <3>1, Zenon
    <3>3. State \in {"repair-required", "setup-incomplete"}
      BY <3>1, <3>2, Zenon DEF State
    <3>. QED  BY <2>1, <2>3, <3>1, <3>2, <3>3 DEF Decide
  <2>. QED  BY <2>2, <2>3
<1>4. CASE Start
  BY <1>4 DEF Start, Saved
<1>5. CASE Crash
  BY <1>5 DEF Crash, NoObs
<1>6. CASE FinishSetup \/ CloseSetup
  BY <1>6 DEF FinishSetup, CloseSetup
<1>7. CASE \/ Work \/ Switching \/ Lock \/ Unlock \/ RepairNeeded \/ Idle \/ UNCHANGED vars
           \/ \E m \in Modes, a \in Accesses, given \in BOOLEAN : Submit(m, a, given)
           \/ \E o \in orphans : Outlives(o)
           \/ \E m \in Modes : SwitchBegins(m) \/ GatewayAnswers(m) \/ GatewayLost(m)
  <2>1. UNCHANGED <<check, completed, obs, blurred, entry>>
    BY <1>7, Zenon DEF Work, Switching, SwitchConfig, SwitchToken, SwitchActivates, SwitchEnds,
         Lock, Unlock, RepairNeeded, Idle, vars, Submit, Outlives, SwitchBegins, GatewayAnswers, GatewayLost
  <2>. QED  BY <2>1
<1>. QED
  BY <1>1, <1>2, <1>3, <1>4, <1>5, <1>6, <1>7 DEF Next, Onboarding, Query

\* The switch of the role; what it does not touch changes nothing of it.
LEMMA SwitchKeeps == ASSUME SetupType, SwitchInv, [Next]_vars PROVE SwitchInv'
<1>. SUFFICES ASSUME Apart' PROVE SwitchInv'
  BY DEF SwitchInv
<1>0. Apart
  BY Growing DEF Apart
<1>a. \A both : both => {"stages", "token"} \subseteq Beside(both)
  BY DEF Beside
<1>. USE <1>0 DEF SwitchInv, disk, server, switch, session, past
<1>1. CASE \/ Start \/ StatusBegins \/ StatusEnds \/ FinishSetup \/ Lock \/ Unlock
           \/ RepairNeeded \/ Idle \/ UNCHANGED vars
           \/ \E m \in Modes : GatewayAnswers(m) \/ GatewayLost(m)
  <2>1. UNCHANGED <<config, token, profile, role, backup, orphans>>
    BY <1>1 DEF Start, StatusBegins, StatusEnds, FinishSetup, Lock, Unlock,
         RepairNeeded, Idle, vars, GatewayAnswers, GatewayLost
  <2>2. onb = "idle" => onb' = "idle"
    BY <1>1 DEF Start, StatusBegins, StatusEnds, FinishSetup, Lock, Unlock,
         RepairNeeded, Idle, vars, GatewayAnswers, GatewayLost
  <2>. QED  BY <2>1, <2>2 DEF Other
<1>2. ASSUME NEW m \in Modes, NEW a \in Accesses, NEW given \in BOOLEAN, Submit(m, a, given)
      PROVE SwitchInv'
  <2>1. role = "idle"
    <3>1. Beside(role # "idle") \subseteq spoilt'
      BY <1>2 DEF Submit
    <3>. QED  BY <1>a, <3>1 DEF Apart
  <2>2. UNCHANGED <<config, profile, role>>
    BY <1>2 DEF Submit
  <2>. QED  BY <2>1, <2>2
<1>3. CASE Work \/ \E o \in orphans : Outlives(o)
  <2>1. role = "idle" /\ role' = "idle"
    <3>1. onb # "idle" \/ orphans # {}
      BY <1>3 DEF Work
    <3>2. UNCHANGED role
      BY <1>3 DEF Work, Outlives
    <3>. QED  BY <3>1, <3>2
  <2>2. profile' = profile \/ (config.mode \in Modes /\ SaveProfile)
    <3>1. CASE Work
      BY <3>1, StageWork DEF Work, SetupType, Names
    <3>2. ASSUME NEW o \in orphans, Outlives(o) PROVE profile' = profile \/ (config.mode \in Modes /\ SaveProfile)
      BY <3>2, StageWork DEF Outlives, SetupType
    <3>. QED  BY <1>3, <3>1, <3>2
  <2>. QED  BY <2>1, <2>2, ProfileSaved
<1>4. CASE Checkpoint \/ CloseSetup
  <2>1. CASE role = "idle"
    <3>1. UNCHANGED <<profile, role>>
      BY <1>4 DEF Checkpoint, CloseSetup
    <3>. QED  BY <2>1, <3>1
  <2>2. CASE role # "idle"
    <3>1. onb = "idle" /\ ~work
      BY <2>2 DEF SetupType
    <3>2. CloseSetup /\ ~Spawns(onb)
      BY <1>4, <3>1 DEF Checkpoint, Spawns
    <3>3. orphans' = {}
      BY <2>2, <3>2 DEF CloseSetup
    <3>. QED  BY <3>2, <3>3 DEF CloseSetup, Other
  <2>. QED  BY <2>1, <2>2
<1>5. ASSUME NEW m \in Modes, SwitchBegins(m) PROVE SwitchInv'
  <2>1. onb = "idle" /\ orphans = {} /\ config.mode \in Modes \ {m}
    <3>1. Beside(onb # "idle" \/ orphans # {}) \subseteq spoilt' /\ config.mode \in Modes \ {m}
      BY <1>5 DEF SwitchBegins
    <3>. QED  BY <1>a, <3>1 DEF Apart
  <2>2. /\ backup' = [config |-> config, token |-> token] /\ SaveProfile /\ role' = "config"
        /\ profile[m] # Absent /\ role = "idle" /\ UNCHANGED <<config, token, onb, orphans>>
    BY <1>5 DEF SwitchBegins
  <2>3. Other' = m
    BY <2>1, <2>2 DEF Other, Modes
  <2>4. profile'[config.mode].config = config /\ \A n \in Modes \ {config.mode} : profile'[n] = profile[n]
    BY <2>1, <2>2, ProfileSaved
  <2>. QED  BY <2>1, <2>2, <2>3, <2>4
<1>6. CASE SwitchConfig
  BY <1>6 DEF SwitchConfig, Other
<1>7. CASE SwitchToken
  BY <1>7 DEF SwitchToken, Other
<1>8. CASE SwitchActivates
  BY <1>8 DEF SwitchActivates, Other
<1>9. CASE SwitchEnds
  <2>1. CASE role = "restore"
    BY <1>9, <2>1 DEF SwitchEnds
  <2>2. CASE role = "save"
    <3>1. Other \in Modes
      BY <2>2, OtherRole DEF SetupType
    <3>2. config.mode = Other
      BY <2>2, <3>1
    <3>3. SaveProfile /\ role' = "idle"
      BY <1>9, <2>2 DEF SwitchEnds
    <3>4. profile'[Other].config = config /\ \A n \in Modes \ {Other} : profile'[n] = profile[n]
      BY <3>1, <3>2, <3>3, ProfileSaved
    <3>. QED  BY <3>1, <3>2, <3>3, <3>4
  <2>. QED  BY <1>9, <2>1, <2>2 DEF SwitchEnds
<1>10. CASE Crash
  <2>1. role' = "idle" /\ UNCHANGED profile
    BY <1>10 DEF Crash
  <2>. QED  BY <2>1
<1>. QED
  BY <1>1, <1>2, <1>3, <1>4, <1>5, <1>6, <1>7, <1>8, <1>9, <1>10
     DEF Next, Onboarding, Switching, Query

LEMMA TokenKeeps == ASSUME SetupType, SwitchInv, TokenInv, [Next]_vars PROVE TokenInv'
<1>. SUFFICES ASSUME "token" \notin spoilt' PROVE TokenInv'
  BY DEF TokenInv
<1>0. "token" \notin spoilt /\ Apart
  BY Growing DEF Apart
<1>a. \A both : both => "token" \in Beside(both)
  BY DEF Beside
<1>. USE <1>0 DEF TokenInv, disk, server, switch, session, past
<1>1. CASE \/ Start \/ StatusBegins \/ StatusEnds \/ FinishSetup \/ Lock \/ Unlock
           \/ RepairNeeded \/ Idle \/ UNCHANGED vars
           \/ \E m \in Modes : GatewayAnswers(m) \/ GatewayLost(m)
  <2>1. UNCHANGED <<config, token, profile, role, backup, want, orphans>> /\ (onb = "idle" => onb' = "idle")
    BY <1>1 DEF Start, StatusBegins, StatusEnds, FinishSetup, Lock, Unlock,
         RepairNeeded, Idle, vars, GatewayAnswers, GatewayLost
  <2>. QED  BY <2>1 DEF Other
<1>2. ASSUME NEW m \in Modes, NEW a \in Accesses, NEW given \in BOOLEAN, Submit(m, a, given)
      PROVE TokenInv'
  <2>1. want'.mode = m /\ UNCHANGED <<config, profile, role, orphans>> /\ (given => m = "remote")
        /\ token' = IF given \/ (m = "local" /\ token = "none") THEN m ELSE token
    BY <1>2 DEF Submit
  <2>2. role = "idle"
    <3>1. Beside(role # "idle") \subseteq spoilt'
      BY <1>2 DEF Submit
    <3>. QED  BY <1>a, <3>1
  <2>3. m = "remote" => token' = "remote"
    <3>1. {e \in {"token"} : m = "remote" /\ token' # "remote"} \subseteq spoilt'
      BY <1>2 DEF Submit
    <3>. QED  BY <3>1
  <2>4. token = "remote" => token' = "remote"
    BY <2>1
  <2>. QED  BY <2>1, <2>2, <2>3, <2>4
<1>3. CASE Work
  <2>1. role = "idle" /\ onb # "idle" /\ UNCHANGED <<token, role, orphans>> /\ want' \in {want, NoChoice}
    BY <1>3 DEF Work, SwitchInv
  <2>2. config'.mode \in {config.mode, want.mode}
    BY <1>3, StageWork DEF Work, SetupType, Names, Configs, Arg
  <2>3. profile' = profile \/ (config.mode \in Modes /\ SaveProfile)
    BY <1>3, StageWork DEF Work, SetupType, Names
  <2>4. NoChoice.mode # "remote"
    BY DEF NoChoice
  <2>. QED  BY <2>1, <2>2, <2>3, <2>4, ProfileSaved DEF Modes
<1>b. ASSUME NEW o \in orphans, Outlives(o) PROVE TokenInv'
  <2>1. role = "idle" /\ orphans' \subseteq orphans /\ UNCHANGED <<token, role, want, onb>>
    BY <1>b DEF Outlives, SwitchInv
  <2>2. config'.mode = config.mode \/ (o.stage = "base" /\ config'.mode = o.arg)
    BY <1>b, StageWork DEF Outlives, SetupType, Configs
  <2>3. profile' = profile \/ (config.mode \in Modes /\ SaveProfile)
    BY <1>b, StageWork DEF Outlives, SetupType
  <2>. QED  BY <2>1, <2>2, <2>3, ProfileSaved DEF Modes
<1>4. CASE Checkpoint
  <2>1. onb # "idle" /\ want' \in {want, NoChoice} /\ NoChoice.mode # "remote"
    BY <1>4 DEF Checkpoint, SetupType, NoChoice
  <2>2. UNCHANGED <<config, token, profile, role, backup, orphans>>
    BY <1>4 DEF Checkpoint
  <2>. QED  BY <2>1, <2>2 DEF Other
<1>c. CASE CloseSetup
  <2>1. ASSUME NEW o \in orphans', o.stage = "base", o.arg = "remote" PROVE token = "remote"
    <3>1. CASE o \in orphans
      BY <2>1, <3>1
    <3>2. CASE o \notin orphans
      <4>1. o = [stage |-> onb, arg |-> Arg(onb)]
        BY <1>c, <3>2 DEF CloseSetup
      <4>. QED  BY <2>1, <4>1 DEF Arg
    <3>. QED  BY <3>1, <3>2
  <2>2. onb' = "idle" /\ UNCHANGED <<config, token, profile, role, backup>>
    BY <1>c DEF CloseSetup
  <2>. QED  BY <2>1, <2>2 DEF Other
<1>5. ASSUME NEW m \in Modes, SwitchBegins(m) PROVE TokenInv'
  <2>1. role' = "config" /\ role = "idle" /\ SaveProfile /\ config.mode \in Modes
        /\ backup' = [config |-> config, token |-> token] /\ UNCHANGED <<config, token, want, onb, orphans>>
    BY <1>5 DEF SwitchBegins
  <2>. QED  BY <2>1, ProfileSaved DEF Modes
<1>6. CASE SwitchConfig \/ SwitchActivates
  <2>1. /\ onb = "idle" /\ onb' = "idle" /\ orphans' = {} /\ role' # "idle" /\ role # "idle"
        /\ UNCHANGED <<profile, backup, token>>
        /\ (role' = "token" \/ role \in {"activate"})
    BY <1>6 DEF SwitchConfig, SwitchActivates, SwitchInv
  <2>. QED  BY <2>1 DEF Other
<1>7. CASE SwitchToken
  <2>1. /\ onb = "idle" /\ onb' = "idle" /\ orphans' = {} /\ role' # "idle" /\ role # "idle"
        /\ UNCHANGED <<profile, backup>> /\ token' = profile[Other].token /\ profile[Other] # Absent
    BY <1>7 DEF SwitchToken, SwitchInv
  <2>. QED  BY <2>1 DEF Other
<1>8. CASE SwitchEnds
  <2>1. onb = "idle" /\ onb' = "idle" /\ backup.config.mode \in Modes /\ orphans' = {} /\ role' = "idle"
    BY <1>8 DEF SwitchEnds, SwitchInv, SetupType
  <2>2. CASE role = "restore"
    <3>1. config' = backup.config /\ token' = backup.token /\ UNCHANGED profile
      BY <1>8, <2>2 DEF SwitchEnds
    <3>. QED  BY <2>1, <2>2, <3>1
  <2>3. CASE role = "save"
    <3>1. Other \in Modes /\ config.mode = Other
      BY <2>1, <2>3, OtherRole DEF SwitchInv
    <3>2. SaveProfile /\ UNCHANGED <<config, token>>
      BY <1>8, <2>3 DEF SwitchEnds
    <3>. QED  BY <2>1, <2>3, <3>1, <3>2, ProfileSaved DEF Modes
  <2>. QED  BY <1>8, <2>2, <2>3 DEF SwitchEnds
<1>9. CASE Crash
  <2>1. role = "idle" /\ role' = "idle" /\ onb' = "idle" /\ orphans' = {} /\ UNCHANGED <<config, token, profile>>
    <3>1. Beside(role # "idle") \subseteq spoilt'
      BY <1>9 DEF Crash
    <3>2. role = "idle"
      BY <1>a, <3>1
    <3>. QED  BY <1>9, <3>2 DEF Crash
  <2>. QED  BY <2>1
<1>. QED
  BY <1>1, <1>2, <1>3, <1>b, <1>4, <1>c, <1>5, <1>6, <1>7, <1>8, <1>9
     DEF Next, Onboarding, Switching, Query

\* What the checkpoint claims, whoever is active or being switched to.
Claimed(c, saved) ==
    /\ Rank(check.stage) >= 3 => c.plugin
    /\ Rank(check.stage) >= 4 /\ check.mode = "local" => c.tools
    /\ Rank(check.stage) >= 5 => saved.plugin /\ (check.mode = "local" => saved.tools)
    /\ Rank(check.stage) >= 6 => level = check.access

\* What onboarding has done since it started, ahead of the checkpoint.
Done(s) == onb # "idle" /\ (Rank(onb) > Rank(s) \/ (onb = s /\ work))

StageInv ==
    "stages" \notin spoilt =>
      /\ check.mode \in Modes =>
           Claimed(IF role = "idle" /\ config.mode = check.mode THEN config
                   ELSE profile[check.mode].config, profile[check.mode].config)
      /\ onb \notin {"idle", "start"} =>
           /\ check.mode = want.mode /\ check.access = want.access
           /\ config.mode = want.mode \/ Rank(check.stage) = 1
      /\ orphans # {} /\ check.mode \in Modes => config.mode = check.mode \/ Rank(check.stage) = 1
      /\ Done("base") => config.mode = want.mode
      /\ Done("plugin") => config.plugin
      /\ Done("tools") /\ want.mode = "local" => config.tools
      /\ Done("profile") => /\ profile[want.mode].config.plugin
                            /\ want.mode = "local" => profile[want.mode].config.tools
      /\ Done("machine-policy") => level = want.access

\* What onboarding leaves alone keeps what the checkpoint claims.
LEMMA ClaimsStay ==
    ASSUME StageInv, "stages" \notin spoilt, UNCHANGED <<config, profile, check, level>>, role' = role,
           \/ onb' = onb /\ want' = want /\ work' \in {work, FALSE}
           \/ onb' = "idle",
           orphans' = {} \/ orphans' = orphans \/ onb \notin {"idle", "start"}
    PROVE  StageInv'
<1>1. CASE onb' = "idle"
  BY <1>1 DEF StageInv, Claimed, Done
<1>2. CASE onb' = onb /\ want' = want /\ work' \in {work, FALSE}
  BY <1>2 DEF StageInv, Claimed, Done
<1>. QED  BY <1>1, <1>2

LEMMA StageKeeps == ASSUME SetupType, SwitchInv, StageInv, [Next]_vars PROVE StageInv'
<1>. SUFFICES ASSUME "stages" \notin spoilt' PROVE StageInv'
  BY DEF StageInv
<1>0. "stages" \notin spoilt /\ Apart
  BY Growing DEF Apart
<1>a. \A both : both => "stages" \in Beside(both)
  BY DEF Beside
<1>. USE <1>0 DEF disk, server, switch, session, past
<1>1. CASE \/ StatusBegins \/ StatusEnds \/ FinishSetup \/ CloseSetup \/ Lock \/ Unlock
           \/ RepairNeeded \/ Idle \/ UNCHANGED vars
           \/ \E m \in Modes : GatewayAnswers(m) \/ GatewayLost(m)
  <2>1. CASE CloseSetup
    <3>1. onb' = "idle" /\ UNCHANGED <<config, profile, check, level, role>>
      BY <2>1 DEF CloseSetup
    <3>2. onb \in {"idle", "start"} => ~Spawns(onb)
      BY DEF Spawns
    <3>3. orphans' = orphans \/ onb \notin {"idle", "start"}
      BY <2>1, <3>2 DEF CloseSetup
    <3>. QED  BY <3>1, <3>3, ClaimsStay
  <2>2. CASE ~CloseSetup
    <3>1. UNCHANGED <<config, profile, check, level, want, role, orphans, onb, work>>
      BY <1>1, <2>2, Zenon DEF StatusBegins, StatusEnds, FinishSetup, Lock, Unlock,
           RepairNeeded, Idle, vars, GatewayAnswers, GatewayLost
    <3>. QED  BY <3>1, ClaimsStay
  <2>. QED  BY <2>1, <2>2
<1>2. ASSUME NEW m \in Modes, NEW a \in Accesses, NEW given \in BOOLEAN, Submit(m, a, given)
      PROVE StageInv'
  <2>1. UNCHANGED <<config, profile, check, level, role, orphans>> /\ onb' = "start"
    BY <1>2 DEF Submit
  <2>2. work' = FALSE
    BY <1>2, Zenon DEF Submit
  <2>. QED  BY <2>1, <2>2, Order DEF StageInv, Claimed, Done, Names
<1>3. CASE Start
  <2>0. Rank(check.stage) \in 1..7
    BY Order DEF SetupType
  <2>1. onb = "start" /\ onb' = "base" /\ ~work /\ role = "idle" /\ want.mode \in Modes
    BY <1>3 DEF Start, SetupType, SwitchInv
  <2>2. UNCHANGED <<config, profile, level, want, work, role, orphans>>
    BY <1>3 DEF Start
  <2>3. CASE check' = [mode |-> want.mode, access |-> want.access, stage |-> "start"]
    BY <2>1, <2>2, <2>3, Order DEF StageInv, Claimed, Done
  <2>4. CASE /\ UNCHANGED check /\ check.mode = want.mode /\ check.access = want.access
             /\ config.mode = want.mode \/ Rank(check.stage) < 2
    BY <2>1, <2>2, <2>4, <2>0, Order DEF StageInv, Claimed, Done
  <2>5. \/ check' = [mode |-> want.mode, access |-> want.access, stage |-> "start"]
        \/ /\ UNCHANGED check /\ check.mode = want.mode /\ check.access = want.access
           /\ ~(config.mode # want.mode /\ StageComplete("base"))
    BY <1>3, Zenon DEF Start, Saved
  <2>. QED  BY <2>0, <2>3, <2>4, <2>5, Order DEF StageComplete
<1>4. CASE \/ SwitchConfig \/ SwitchToken \/ SwitchActivates \/ SwitchEnds
  <2>1. onb = "idle" /\ onb' = "idle" /\ orphans' = {} /\ UNCHANGED <<check, level, want>>
    BY <1>4 DEF SwitchConfig, SwitchToken, SwitchActivates, SwitchEnds, SwitchInv
  <2>2. CASE role' # "idle"
    BY <1>4, <2>1, <2>2
       DEF SwitchConfig, SwitchToken, SwitchActivates, SwitchEnds, StageInv, Claimed, Done
  <2>3. CASE SwitchEnds
    <3>1. backup.config.mode \in Modes /\ Other \in Modes /\ role' = "idle"
      BY <2>3, OtherRole DEF SwitchEnds, SetupType
    <3>2. CASE role = "restore"
      BY <2>1, <2>3, <3>1, <3>2 DEF SwitchEnds, SwitchInv, StageInv, Claimed, Done
    <3>3. CASE role = "save"
      <4>1. SaveProfile /\ UNCHANGED config /\ config = profile[Other].config /\ config.mode = Other
        BY <2>3, <3>1, <3>3 DEF SwitchEnds, SwitchInv
      <4>2. \A m \in Modes : profile'[m].config = profile[m].config
        BY <3>1, <4>1, ProfileSaved
      <4>. QED  BY <2>1, <3>1, <3>3, <4>1, <4>2 DEF StageInv, Claimed, Done
    <3>. QED  BY <2>3, <3>2, <3>3 DEF SwitchEnds
  <2>. QED  BY <1>4, <2>2, <2>3 DEF SwitchConfig, SwitchToken, SwitchActivates
<1>5. ASSUME NEW m \in Modes, SwitchBegins(m) PROVE StageInv'
  <2>1. onb = "idle" /\ onb' = "idle" /\ orphans' = {} /\ role = "idle" /\ role' = "config"
        /\ config.mode \in Modes /\ SaveProfile /\ UNCHANGED <<config, check, level, want>>
    <3>1. Beside(onb # "idle" \/ orphans # {}) \subseteq spoilt'
      BY <1>5 DEF SwitchBegins
    <3>2. onb = "idle" /\ orphans = {}
      BY <1>a, <3>1
    <3>. QED  BY <1>5, <3>2 DEF SwitchBegins
  <2>2. profile'[config.mode].config = config /\ \A n \in Modes \ {config.mode} : profile'[n] = profile[n]
    BY <2>1, ProfileSaved
  <2>3. Rank(check.stage) \in 1..7
    BY Order DEF SetupType
  <2>. QED  BY <2>1, <2>2, <2>3 DEF StageInv, Claimed, Done
<1>6. CASE Crash
  <2>1. Beside(role # "idle") \subseteq spoilt'
    BY <1>6 DEF Crash
  <2>2. role = "idle"
    BY <1>a, <2>1
  <2>3. onb' = "idle" /\ orphans' = {} /\ role' = role /\ UNCHANGED <<config, profile, check, level>>
    BY <1>6, <2>2 DEF Crash
  <2>. QED  BY <2>3, ClaimsStay
<1>b. ASSUME NEW o \in orphans, Outlives(o) PROVE StageInv'
  <2>1. /\ role = "idle" /\ orphans' \subseteq orphans
        /\ UNCHANGED <<token, check, onb, work, want, role>> /\ Does(o.stage, o.arg)
    BY <1>b DEF Outlives, SwitchInv
  <2>2. o.stage = "base" => o.arg = check.mode
    <3>1. o.stage = "base" /\ o.arg # check.mode => Misplaces(o)
      BY DEF Misplaces
    <3>. QED  BY <1>b, <3>1 DEF Outlives
  <2>3. o.stage = "machine-policy" => o.arg = check.access
    <3>1. o.stage = "machine-policy" /\ o.arg # check.access => Misplaces(o)
      BY DEF Misplaces
    <3>. QED  BY <1>b, <3>1 DEF Outlives
  <2>4. Rank(check.stage) \in 1..7
    BY Order DEF SetupType
  <2>5. CASE o.stage = "base"
    <3>1. config' = [config EXCEPT !.mode = check.mode] /\ UNCHANGED <<profile, level>>
          /\ check.mode \in Modes
      BY <2>1, <2>2, <2>5, StageWork DEF SetupType
    <3>2. config'.mode = check.mode /\ config'.plugin = config.plugin /\ config'.tools = config.tools
      BY <3>1 DEF SetupType, Configs
    <3>3. config.mode = check.mode \/ Rank(check.stage) = 1
      BY <3>1 DEF StageInv
    <3>4. (check.mode \in Modes =>
             Claimed(IF role = "idle" /\ config.mode = check.mode THEN config
                     ELSE profile[check.mode].config, profile[check.mode].config))'
      BY <2>1, <2>4, <3>1, <3>2, <3>3 DEF StageInv, Claimed
    <3>5. (Done("base") => config.mode = want.mode)'
      BY <2>1, <3>2, Order DEF StageInv, Done, SetupType
    <3>. QED  BY <2>1, <3>1, <3>2, <3>4, <3>5 DEF StageInv, Done
  <2>6. CASE o.stage \in {"plugin", "tools"}
    <3>1. config'.mode = config.mode /\ (config.plugin => config'.plugin)
          /\ (config.tools => config'.tools) /\ UNCHANGED <<profile, level>>
      BY <2>1, <2>6, StageWork DEF SetupType, Configs
    <3>. QED  BY <2>1, <3>1 DEF StageInv, Claimed, Done
  <2>7. CASE o.stage = "profile"
    <3>1. config.mode \in Modes /\ UNCHANGED <<config, level>> /\ SaveProfile
      BY <2>1, <2>7, StageWork
    <3>2. profile'[config.mode].config = config /\ \A n \in Modes \ {config.mode} : profile'[n] = profile[n]
      BY <3>1, ProfileSaved
    <3>3. onb # "idle" => want.mode \in Modes
      BY DEF SetupType
    <3>4. (check.mode \in Modes =>
             Claimed(IF role = "idle" /\ config.mode = check.mode THEN config
                     ELSE profile[check.mode].config, profile[check.mode].config))'
      BY <2>1, <2>4, <3>1, <3>2 DEF StageInv, Claimed
    <3>5. (Done("profile") => /\ profile[want.mode].config.plugin
                              /\ want.mode = "local" => profile[want.mode].config.tools)'
      BY <2>1, <3>1, <3>2, <3>3, Order DEF StageInv, Done, SetupType
    <3>. QED  BY <2>1, <3>1, <3>4, <3>5 DEF StageInv, Done
  <2>8. CASE o.stage = "machine-policy"
    <3>1. level' = check.access /\ UNCHANGED <<config, profile>>
      BY <2>1, <2>3, <2>8, StageWork
    <3>2. Done("machine-policy") => check.access = want.access
      BY Order DEF StageInv, Done, Names
    <3>. QED  BY <2>1, <2>4, <3>1, <3>2 DEF StageInv, Claimed, Done
  <2>. QED  BY <2>5, <2>6, <2>7, <2>8 DEF SetupType
<1>7. CASE Work
  <2>1. /\ onb \in Names \ {"start"} /\ ~work /\ role = "idle" /\ want.mode \in Modes
        /\ check.mode = want.mode /\ check.access = want.access
        /\ config.mode = want.mode \/ Rank(check.stage) = 1
    BY <1>7 DEF Work, SetupType, SwitchInv, StageInv
  <2>2. UNCHANGED <<check, role, orphans>>
    BY <1>7 DEF Work
  <2>a. /\ Arg("base") = want.mode /\ Arg("tools") = want.mode /\ Arg("machine-policy") = want.access
    BY DEF Arg
  <2>3. CASE onb' = "idle" /\ UNCHANGED <<work, config, profile, level>>
    BY <2>2, <2>3, ClaimsStay
  <2>4. CASE ~Due(onb) /\ onb' = Stages[Rank(onb) + 1] /\ UNCHANGED <<work, want, config, profile, level>>
    <3>1. onb \in {"plugin", "tools", "profile", "machine-policy"}
          /\ Rank(check.stage) >= Rank(onb) /\ config.mode = want.mode
      BY <2>1, <2>4, Order DEF Due, StageComplete, Names
    <3>2. Rank(onb') = Rank(onb) + 1 /\ onb' \in Names
      BY <2>4, <3>1, Order, StageAt DEF Names
    <3>. QED  BY <2>1, <2>2, <2>4, <3>1, <3>2, Order DEF StageInv, Claimed, Done
  <2>5. CASE Due(onb) /\ Does(onb, Arg(onb)) /\ work' = TRUE /\ UNCHANGED <<onb, want>>
    <3>1. onb # "base" => config.mode = want.mode
      BY <2>1, Order DEF StageInv, Done, Names
    <3>2. Rank(check.stage) \in 1..7 /\ (onb \notin {"base", "complete"} => Rank(check.stage) < Rank(onb))
      BY <2>1, <2>5, Order DEF Due, StageComplete, SetupType
    <3>3. CASE onb = "base"
      BY <2>1, <2>2, <2>a, <2>5, <3>2, <3>3, StageWork, Order DEF StageInv, Claimed, Done, SetupType, Configs
    <3>4. CASE onb = "plugin"
      BY <2>1, <2>2, <2>a, <2>5, <3>1, <3>2, <3>4, StageWork, Order
         DEF StageInv, Claimed, Done, SetupType, Configs
    <3>5. CASE onb = "tools"
      BY <2>1, <2>2, <2>a, <2>5, <3>1, <3>2, <3>5, StageWork, Order
         DEF StageInv, Claimed, Done, SetupType, Configs
    <3>6. CASE onb = "profile"
      <4>1. SaveProfile /\ UNCHANGED <<config, level>> /\ config.mode = want.mode
        BY <2>5, <3>1, <3>6, StageWork
      <4>2. profile'[config.mode].config = config
            /\ \A n \in Modes \ {config.mode} : profile'[n] = profile[n]
        BY <2>1, <4>1, ProfileSaved
      <4>. QED  BY <2>1, <2>2, <2>5, <3>2, <3>6, <4>1, <4>2, Order DEF StageInv, Claimed, Done
    <3>7. CASE onb = "machine-policy"
      BY <2>1, <2>2, <2>a, <2>5, <3>1, <3>2, <3>7, StageWork, Order DEF StageInv, Claimed, Done, SetupType
    <3>8. CASE onb = "complete"
      BY <2>1, <2>2, <2>a, <2>5, <3>1, <3>2, <3>8, StageWork, Order DEF StageInv, Claimed, Done, SetupType
    <3>. QED  BY <2>1, <3>3, <3>4, <3>5, <3>6, <3>7, <3>8 DEF Names
  <2>. QED  BY <1>7, <2>3, <2>4, <2>5 DEF Work
<1>8. CASE Checkpoint
  <2>1. /\ work /\ onb \in Names \ {"start"} /\ role = "idle" /\ want.mode \in Modes
        /\ UNCHANGED <<config, profile, level, role, orphans>>
    BY <1>8 DEF Checkpoint, SetupType, SwitchInv
  <2>2. work' = FALSE
    BY <1>8, Zenon DEF Checkpoint
  <2>3. onb' = "idle" \/ (onb # "complete" /\ onb' \in Names /\ Rank(onb') = Rank(onb) + 1 /\ want' = want)
    BY <1>8, <2>1, Order, StageAt DEF Checkpoint, Names
  <2>4. config.mode = want.mode
    BY <2>1, Order DEF StageInv, Done, Names
  <2>5. CASE onb = "base" /\ Rank(check.stage) >= 2 /\ UNCHANGED check
    BY <2>1, <2>2, <2>3, <2>4, <2>5, Order DEF StageInv, Claimed, Done
  <2>6. CASE check' = [mode |-> want.mode, access |-> want.access, stage |-> onb]
    BY <2>1, <2>2, <2>3, <2>4, <2>6, Order DEF StageInv, Claimed, Done, Names
  <2>. QED  BY <1>8, <2>5, <2>6, Order DEF Checkpoint, Saved, StageComplete
<1>. QED
  BY <1>1, <1>2, <1>3, <1>4, <1>5, <1>6, <1>b, <1>7, <1>8 DEF Next, Onboarding, Switching, Query

SetupInv == SetupType /\ GateInv /\ SwitchInv /\ TokenInv /\ StageInv

THEOREM AlwaysSetupInv == Spec => []SetupInv
<1>1. Init => StageInv
  BY Order DEF Init, StageInv, Claimed, Done, Modes
<1>2. SetupInv /\ [Next]_vars => SetupInv'
  BY TypeKeeps, GateKeeps, SwitchKeeps, TokenKeeps, StageKeeps DEF SetupInv
<1>. QED  BY <1>1, <1>2, InitSetup, PTL DEF Spec, SetupInv

\* Every variable keeps its type.
THEOREM TypeCorrect == Spec => []TypeOK
<1>1. SetupInv => TypeOK
  BY Order DEF SetupInv, SetupType, TypeOK
<1>. QED  BY <1>1, AlwaysSetupInv, PTL

\* Nobody gets past the entry loops before a role was set up, unless before that
\* a status was lost, or met a locked screen or an unknown desktop.
THEOREM GateIsHeld == Spec => []GateHolds
<1>1. SetupInv => GateHolds
  BY DEF SetupInv, GateInv, GateHolds
<1>. QED  BY <1>1, AlwaysSetupInv, PTL

\* The remote role, active or saved, has the token of its controller, unless it
\* was submitted without one, or a switch was cut off or ran beside setup.
THEOREM RemoteHasToken == Spec => []RemoteKeepsToken
<1>1. SetupInv => RemoteKeepsToken
  BY DEF SetupInv, TokenInv, RemoteKeepsToken
<1>. QED  BY <1>1, AlwaysSetupInv, PTL

\* No stage that the checkpoint claims was skipped or undone, unless a surviving
\* command misplaced a role or a level, or a switch was cut off or ran beside it.
THEOREM StagesDone == Spec => []StagesHold
<1>1. SetupInv => StagesHold
  BY Order DEF SetupInv, SetupType, StageInv, Claimed, StagesHold, Modes
<1>. QED  BY <1>1, AlwaysSetupInv, PTL
=============================================================================
