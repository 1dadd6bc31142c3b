SPECIFICATION Spec
CONSTANTS
    Jobs <- ThreeJobs
    NoJob = NoJob
    Files <- TwoFiles
    Contents <- MCContents
    Absent = Absent
    Versions <- TwoVersions
    NoVersion = NoVersion
    Payload <- MCPayload
    Shipped <- MCShipped
    Faults = {"step", "receipt", "crash", "power", "drift"}
    MaxFaults = 2
    j1 = j1
    j2 = j2
    j3 = j3
    f1 = f1
    f2 = f2
    f3 = f3
    x = x
    y = y
    v1 = v1
    v2 = v2
    v3 = v3
SYMMETRY Symmetry
INVARIANT OneAtATime
INVARIANT InterruptedIsRecoverable
PROPERTY RollbackNotOverNewer
PROPERTY OnlyManagedRetired
