SPECIFICATION FairSpec
CONSTANTS
    t1 = t1
    t2 = t2
    t3 = t3
    put = put
    in1 = in1
    in2 = in2
    s1 = s1
    None = None
    Thread = {t1, t2, t3}
    Handler = {put, in1, in2}
    Subscriber = {s1}
    Guarded = {in1, in2}
    Place <- Apart
    Targets <- TwoTargets
    Capacity = 1
    Permits = 1
    Visits = 2
INVARIANTS
    NoOrphan
    GuardedInOrder
    MissedOnlyWhenFull
    PermitsKept
    RuntimeInv
PROPERTIES
    EventuallyAnswered
    EventuallyCaughtUp
CHECK_DEADLOCK FALSE
