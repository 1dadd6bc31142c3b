SPECIFICATION FairSpec
CONSTANTS
    Requests <- OneRequest
    NoRequest = NoRequest
    Faults = {"write", "late", "refuse", "probe", "kill", "crash"}
    MaxFaults = 4
    r1 = r1
INVARIANT BoundWhileQueued
INVARIANT NothingLostUnrun
PROPERTY CompletedIsFinal
PROPERTY AcceptedResolves
