SPECIFICATION Spec
CONSTANTS
    v0 = v0
    v1 = v1
    v2 = v2
    Pods = {v0, v1, v2}
    First = v0
    MaxRuns = 1
    MaxRestarts = 0
    MaxFaults = 0
INVARIANTS
    KeyNotLost
CHECK_DEADLOCK FALSE
