SPECIFICATION FairSpec
CONSTANTS
    Tokens <- MCTokens
    NoToken = NoToken
    Agents <- MCAgents
    NoAgent = NoAgent
    Callers <- AuthorityCallers
    Requests <- AuthorityRequests
    Policy <- MCPolicy
    Grantable <- MCGrantable
    InitLevel = "user-limited"
    ApprovalTTL = 2
    GrantTTL = 2
    Grace = 1
    Faults = {"crash", "reboot", "audit", "write"}
    MaxFaults = 1
    MaxTime = 2
    MaxBoot = 2
    t1 = t1
    t2 = t2
    a1 = a1
    a2 = a2
INVARIANT TypeOK
PROPERTY StartsAuthorized
PROPERTY ExecutingSettles
