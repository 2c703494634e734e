SPECIFICATION RestartSpec
CONSTANTS
    Node = {n1, n2}
    User = {u1, u2}
    Admin = admin
    None = None
    Pending = Pending
    Silent = Silent
    Coordinators = {n1, n2}
    Views <- AnyViews
    Retries = 1
    MaxRequests = 3
    MaxCrashes = 1
    Faults = 0
    Gap = {1}
    Skew = {0}
    Budget <- RestartBudget
    SecretSet = TRUE
SYMMETRY Symmetries
INVARIANTS
    OwnerWrote
    RecoveryInv
    
PROPERTIES
    ReplicaAdvances
CHECK_DEADLOCK FALSE
