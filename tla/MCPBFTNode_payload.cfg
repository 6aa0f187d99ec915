SPECIFICATION MCSpec
CONSTANTS
    N = 4
    Payload = {a}
    Empty = Empty
    CheckpointInterval = 1
    MaxView = 1
    MaxSeq = 1
CHECK_DEADLOCK FALSE
INVARIANTS ExecutesProposal
