SPECIFICATION NetSpec
CONSTANTS
    N = 4
    NodeOrder <- MCNodeOrder
    Payload = {a}
    Empty = Empty
    CheckpointInterval = 1
    MaxView = 1
    MaxSeq = 2
    MaxProposals = 2
    FaultProne = {0, 3}
    FaultProneAtFirst = {0, 2, 3}
CONSTRAINT Explored
CHECK_DEADLOCK FALSE
INVARIANTS BreedsOnlyDecided NewViewSupport
PROPERTIES RoundIsAtomic RefinesPBFT
