SPECIFICATION FairSpec
CONSTANTS
    root = root
    user = user
    Accesses <- TwoAccesses
    Shipped = root
    Faults = {"step", "close", "crash", "switch", "activate", "network", "lock", "repair", "lost", "probe", "tokenless"}
    MaxFaults = 2
INVARIANT StagesHold
INVARIANT RemoteKeepsToken
INVARIANT GateHolds
PROPERTY SessionArrives
