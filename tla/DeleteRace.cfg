SPECIFICATION Spec
CONSTANTS
    Node = {n1, n2}
    User = {u1, u2}
    Admin = admin
    None = None
    Pending = Pending
    Silent = Silent
    Coordinators = {n1, n2}
    Views <- FullViews
    Retries = 3
    MaxRequests = 3
    Faults = 0
    Gap = {1}
    Skew = {0}
    Budget <- RaceBudget
    SecretSet = TRUE
PROPERTY OnlyOwnerRemoves
CHECK_DEADLOCK FALSE
