SPECIFICATION FairSpec
CONSTANTS
    Names = {n1, n2}
    CNs = {a}
    SecretNames = {s1, s2}
    CertNames = {k, Blank}
    Blank = Blank
    MaxOps = 3
    MaxFaults = 1
    None = None
PROPERTIES
    EventuallyPublished
CHECK_DEADLOCK FALSE
