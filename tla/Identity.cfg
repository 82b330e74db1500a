SPECIFICATION FairSpec
CONSTANTS
    Consumer = consumer
    ConsumerSecret = cert
    ProviderCA = ca
    Spare = spare
    Blank = Blank
    None = None
    MaxGens = 2
    MaxOps = 3
    MaxFaults = 1
INVARIANTS
    TypeOK
    QuietMeansTrusted
    QuietMeansVerified
PROPERTIES
    EventuallyVerified
    ImplementsCustody
CHECK_DEADLOCK FALSE
