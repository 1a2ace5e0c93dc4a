CONSTANTS
    User = {cfo, u1}
    Cfo = cfo
    Supply = 9
    Month = 1
    Amount = {4}
    Grant <- AllGrants
    MaxGrants = 2
    MaxTime = 6
SPECIFICATION Spec
INVARIANT OnSchedule
PROPERTY ReleasedWhenSpent
CHECK_DEADLOCK FALSE
