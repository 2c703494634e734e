SPECIFICATION KeepingSpec
CONSTANTS
    Node = {n1, n2}
    User = {u1}
    Admin = admin
    None = None
    Pending = Pending
    Silent = Silent
    Coordinators = {n1, n2}
    Views <- FullViews
    Retries = 2
    MaxRequests = 4
    Faults = 2
    Gap = {1}
    Skew = {0}
    Budget <- WritesBudget
    SecretSet = TRUE
SYMMETRY NodeSymmetry
INVARIANTS
    PairInv
    CausalClocks
    ClockIdentifies
    QuiescentConverged
    ReadFresh
    StaleRepaired
PROPERTIES
    NoRollback
CHECK_DEADLOCK FALSE
