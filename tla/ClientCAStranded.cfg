SPECIFICATION FairSpec
CONSTANTS
    Names = {n1}
    CNs = {a}
    SecretNames = {s1}
    CertNames = {k}
    Blank = Blank
    MaxOps = 1
    MaxFaults = 1
    None = None
PROPERTIES
    DesiredStateReached
CHECK_DEADLOCK FALSE
