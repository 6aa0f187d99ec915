SPECIFICATION NetSpec
CONSTANTS
    N = 4
    NodeOrder <- MCNodeOrder
    Payload = {a}
    Empty = Empty
    CheckpointInterval = 1
    MaxView = 2
    MaxSeq = 1
    MaxProposals = 1
    FaultProne = {2}
    FaultProneAtFirst = {2}
CONSTRAINT Explored
CHECK_DEADLOCK FALSE
INVARIANTS LeaderAfterViewChange
