SPECIFICATION Spec
CONSTANTS
    Node = {n1, n2, n3}
    User = {u1}
    Admin = admin
    None = None
    Pending = Pending
    Silent = Silent
    Coordinators = {n1, n2, n3}
    Views <- FullViews
    Retries = 3
    MaxRequests = 6
    Faults = 0
    Gap = {1}
    Skew = {0}
    Budget <- CausalBudget
    SecretSet = TRUE
SYMMETRY NodeSymmetry
INVARIANT CausalClocks
CHECK_DEADLOCK FALSE
