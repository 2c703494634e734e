SPECIFICATION FairSpec
CONSTANTS
    n1 = n1
    n2 = n2
    Node = {n1, n2}
    None = None
    Contact <- PairContact
    Fanout = 3
    HelperFanout = 2
    Threshold = 1
    MAX_CLUSTER_SIZE = 2
    Word = 100
    Skew <- InStep
    Cut = {}
    SecretSet = TRUE
    Permits = {TRUE, FALSE}
    MaxTime = 2
    MaxOutages = 1
    MaxLosses = 0
    MaxUpdates = 1
INVARIANTS
    TypeOK
    DownSilent
    EvidenceInv
PROPERTIES
    EventuallyDetected
    EventuallyMutual
CHECK_DEADLOCK FALSE
