SPECIFICATION Spec
CONSTANTS
    Names = {n1, n2}
    CNs = {a, b}
    SecretNames = {s1, s2}
    CertNames = {k}
    Blank = Blank
    MaxOps = 3
    MaxFaults = 2
    None = None
SYMMETRY Interchangeable
INVARIANTS
    TypeOK
    Inductive
    WrongCAIsPending
    QuietMeansPublished
PROPERTIES
    RootsGeneratedOnce
    SecretNeverBlanked
    ImplementsPublication
CHECK_DEADLOCK FALSE
