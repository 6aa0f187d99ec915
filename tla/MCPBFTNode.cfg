SPECIFICATION MCSpec
CONSTANTS
    N = 4
    Payload = {a, b}
    Empty = Empty
    CheckpointInterval = 1
    MaxView = 2
    MaxSeq = 1
CHECK_DEADLOCK FALSE
INVARIANTS Agreement CommitCertificate DecisionSurvives ExecutedOnce ViewAnnounced
