SPECIFICATION FairSpec
CONSTANTS
    n1 = n1
    n2 = n2
    s1 = s1
    s2 = s2
    ca = ca
    cb = cb
    Names = {n1, n2}
    ClientCAs = {ca}
    SecretNames = {s1}
    Choices <- Shared
    Blank = Blank
    None = None
    WebhookOn = TRUE
    CacheReadsFail = TRUE
    MaxOps = 3
    MaxFaults = 1
PROPERTIES
    EventuallyServed
    ServerTakesNone
    ImplementsCustody
CHECK_DEADLOCK FALSE
