SPECIFICATION Spec
CONSTANTS
    Node = {n1, n2}
    User = {u1}
    Admin = admin
    None = None
    Pending = Pending
    Silent = Silent
    Coordinators = {n1, n2}
    Views <- FullViews
    Retries = 3
    MaxRequests = 2
    Faults = 0
    Gap = {1}
    Skew = {0}
    Budget <- DeleteBudget
    SecretSet = TRUE
SYMMETRY NodeSymmetry
INVARIANT QuiescentConverged
CHECK_DEADLOCK FALSE
