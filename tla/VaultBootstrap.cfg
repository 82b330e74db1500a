SPECIFICATION FairSpec
CONSTANTS
    Pods = {p1, p2}
    None = None
    MaxRuns = 4
    MaxFaults = 2
INVARIANTS
    TypeOK
    PairMatches
    SuccessIsComplete
PROPERTIES
    JobSucceeds
CHECK_DEADLOCK FALSE
