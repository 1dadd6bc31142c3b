SPECIFICATION Spec
CONSTANTS
    Tokens <- MCTokens
    NoToken = NoToken
    Agents <- OneAgent
    NoAgent = NoAgent
    Callers <- CliOnly
    Requests <- ChangeRequests
    Policy <- MCPolicy
    Grantable <- MCGrantable
    InitLevel = "full-root"
    ApprovalTTL = 1
    GrantTTL = 1
    Grace = 0
    Faults = {"crash", "reboot", "write", "audit", "drift", "lost"}
    MaxFaults = 2
    MaxTime = 1
    MaxBoot = 2
    t1 = t1
    t2 = t2
    a1 = a1
    a2 = a2
SYMMETRY Symmetry
INVARIANT EffectAtMostOnce
INVARIANT CompleteMeansGoalHeld
INVARIANT RollbackOffered
INVARIANT LevelAgrees
PROPERTY ImplementsReceipt
