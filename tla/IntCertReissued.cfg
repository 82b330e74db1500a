SPECIFICATION Spec
CONSTANTS
    n1 = n1
    n2 = n2
    s1 = s1
    s2 = s2
    ca = ca
    cb = cb
    Names = {n1}
    ClientCAs = {ca}
    SecretNames = {s1}
    Choices <- OneClient
    Blank = Blank
    None = None
    WebhookOn = TRUE
    CacheReadsFail = FALSE
    MaxOps = 1
    MaxFaults = 1
PROPERTIES
    ClientPairKept
CHECK_DEADLOCK FALSE
