SPECIFICATION Spec
CONSTANTS
    Node = {n1, n2}
    User = {alice, admin}
    Name = alice
    Admin = admin
    Secret = {s1, s2}
    Views = {{n1, n2}}
    MaxRequests = 2
    None = None
INVARIANTS
    AuthenticatesAnywhere
CHECK_DEADLOCK FALSE
