SPECIFICATION Spec
CONSTANTS
    n1 = n1
    n2 = n2
    s1 = s1
    s2 = s2
    ca = ca
    cb = cb
    Names = {n1, n2}
    ClientCAs = {ca}
    SecretNames = {s1, s2}
    Choices <- Apart
    Blank = Blank
    None = None
    WebhookOn = TRUE
    CacheReadsFail = FALSE
    MaxOps = 3
    MaxFaults = 1
INVARIANTS
    TypeOK
    QuietMeansServed
CHECK_DEADLOCK FALSE
