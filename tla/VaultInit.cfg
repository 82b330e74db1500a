SPECIFICATION FairSpec
CONSTANTS
    v0 = v0
    v1 = v1
    v2 = v2
    Pods = {v0, v1, v2}
    First = v0
    MaxRuns = 4
    MaxRestarts = 2
    MaxFaults = 2
INVARIANTS
    TypeOK
    SuccessIsComplete
PROPERTIES
    RunEnds
    ClusterRecovered
CHECK_DEADLOCK FALSE
