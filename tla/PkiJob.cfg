SPECIFICATION FairSpec
CONSTANTS
    None = None
    MaxRuns = 5
    MaxFaults = 2
INVARIANTS
    TypeOK
    OneGeneratingCall
    Anchored
    FreshRunComplete
    FailsOnlyOnLeftover
PROPERTIES
    JobSucceeds
    ImplementsPublication
CHECK_DEADLOCK FALSE
