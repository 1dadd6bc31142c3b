SPECIFICATION FairSpec
CONSTANTS
    Apps <- TwoApps
    Runs <- OneRun
    Kids <- OneKid
    mail = mail
    editor = editor
    run = run
    kid = kid
    MaxSessions = 2
    MaxQueue = 2
    Faults = {"stale", "crash", "patience", "slow", "focus", "gateway"}
    MaxFaults = 2
INVARIANT OneBroker
INVARIANT OwnWindow
INVARIANT ShownIsTrue
PROPERTY SessionServed
