SPECIFICATION FairSpec
CONSTANTS
    task = task
    machine = machine
    approval = approval
    Items <- WorkItems
    KindOf <- WorkKinds
    Malformed = {approval}
    Nothing = Nothing
    Faults = {"query", "write"}
    MaxFaults = 1
INVARIANT QuietIsHonest
INVARIANT OneDecision
PROPERTY CatchesUp
