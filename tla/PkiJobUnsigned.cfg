SPECIFICATION Spec
CONSTANTS
    None = None
    MaxRuns = 2
    MaxFaults = 1
INVARIANTS
    SuccessMeansSigned
CHECK_DEADLOCK FALSE
