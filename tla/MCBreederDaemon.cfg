SPECIFICATION MCSpec
CONSTANTS
    p1 = p1
    p2 = p2
    k1 = k1
    k2 = k2
    Stepper = {w1}
    MaxChildren = 2
    PoolAgent = {p1, p2}
    Killer = {k1, k2}
    MaxWorkers = 2
    Room = {0, 1}
    MaxSlots = 2
    HysteresisTicks = 2
    Priority = {0, 1}
    MaxRequests = 2
    MaxCrashes = 1
    None = None
CHECK_DEADLOCK FALSE
INVARIANTS TypeOK NoSlotLeaks RetiredHoldNothing RequestAccounted
PROPERTIES TopTicketGetsTurn
