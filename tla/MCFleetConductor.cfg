CONSTANTS
    beat1 = beat1
    beat2 = beat2
    oper = oper
    call1 = call1
    call2 = call2
    task1 = task1
    task2 = task2
    None = None
    Sub = {"metronome", "pacing"}
    Order <- MCOrder
    Ticked <- MCTicked
    Queried <- MCTicked
    Dashboard = TRUE
    Beater = {beat1, beat2}
    Operator = {oper}
    Caller = {call1, call2}
    Task = {task1, task2}
    QueueLimit = 1
    Instance = {1, 2}
    MaxMade = 2
    MaxFaults = 2
    MaxTimeouts = 2
    LinearMax = 2
    HardMax = 3
    Reopen = 2
    Emitter = {emit1, emit2}
    MaxHandlers = 4
    MaxEvents = 2
    NoDevice = "none"
    Agent = {a1, a2, a3}
    Device = {"gpu", "cpu", "npu"}
    Configured = {"gpu", "cpu"}
    MaxAgents <- MCMaxAgents
    AuctionInterval = 2
    Rank = {1, 2}
    MaxBids = 3
SPECIFICATION MCSpec
INVARIANTS InstancesKept NothingSurvives QueuedOnce TurnsInOrder NeverOvercommitted DirectSlotsAccounted
PROPERTIES ReopensOnSuccesses BetterBidWins FailingIsRestarted CircuitRecovers
CHECK_DEADLOCK FALSE
