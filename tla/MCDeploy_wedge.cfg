SPECIFICATION Spec
CONSTANTS
    Jobs <- TwoJobs
    NoJob = NoJob
    Files <- ThreeFiles
    Contents <- MCContents
    Absent = Absent
    Versions <- TwoVersions
    NoVersion = NoVersion
    Payload <- MCPayload
    Shipped <- MCShipped
    Faults = {"crash"}
    MaxFaults = 1
    j1 = j1
    j2 = j2
    j3 = j3
    f1 = f1
    f2 = f2
    f3 = f3
    x = x
    y = y
    v1 = v1
    v2 = v2
    v3 = v3
SYMMETRY Symmetry
INVARIANT BackedUpIsRecoverable
