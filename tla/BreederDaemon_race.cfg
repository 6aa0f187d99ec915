SPECIFICATION Spec
CONSTANTS
    Stepper = {w1, w2}
    MaxChildren = 2
    PoolAgent = {p1}
    Killer = {k1}
    MaxWorkers = 1
    Room = {0, 1}
    MaxSlots = 1
    HysteresisTicks = 2
    Priority = {0, 1}
    MaxRequests = 1
    MaxCrashes = 0
    None = None
CHECK_DEADLOCK FALSE
INVARIANTS ServedOnce
