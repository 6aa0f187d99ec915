CONSTANTS
    main = main
    peer = peer
    a1 = a1
    a2 = a2
    c1 = c1
    c2 = c2
    None = None
    Garbled = Garbled
    Table = {main, peer}
    Agent = {a1, a2}
    Logged = main
    Entry <- MCEntry
    Verifies <- MCVerifies
    Op <- MCOp
    MaxFiles = 3
    MaxRecords = 3
    MaxTorn = 1
    Gap = {1, 4}
    MaxSent = 1
    Caller = {c1, c2}
    Fitness <- MCFitness
    Feverish <- MCFeverish
    HotMinFitness = 1
    HotMaxAge = 0
    WarmMaxAge = 0
    HotMaxEntries = 1
    EmergencyCapacity = 1
    AccessThreshold = 1
    ArchiveInterval = 1
    MaxTime = 1
    MaxFaults = 1
    Nothing = Nothing
    TornBytes = TornBytes
    SegmentSize = 2
    CheckpointInterval = 2
    MaxEntries = 4
    MaxCrashes = 3
SPECIFICATION MCSpec
INVARIANT MergesDoNotDeadlock
CHECK_DEADLOCK FALSE
