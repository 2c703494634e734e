SPECIFICATION FairKeepingSpec
CONSTANTS
    Node = {n1, n2}
    User = {u1}
    Admin = admin
    None = None
    Pending = Pending
    Silent = Silent
    Leader = n1
    Coordinators = {n1}
    Views <- AllNodes
    Retries = 3
    MaxRequests = 4
    Faults = 1
    Gap = {1}
    Skew = {0, 2}
    Budget <- LeaderBudget
    SecretSet = FALSE
INVARIANTS
    TypeOK
    AckedWritesKept
    QuiescentConverged
    LeaderInv
    HistoryInv
    SeenInv
    FloorInv
PROPERTIES
    ImplementsPrimaryCopy
    NoRollback
    EventuallyQuiet
    EventuallyConverged
CHECK_DEADLOCK FALSE
