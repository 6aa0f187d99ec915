SPECIFICATION Spec
CONSTANTS
    Id = {1, 2}
    Worker = {w1, w2}
    Priority = {1, 2}
    Reading = {1}
    Visibility = 1
    MaxRetries = 2
    MaxTimeout = 1
    Forever = Forever
    Idle = Idle
    Nothing = Nothing
INVARIANTS NothingStranded NoLostWakeup
PROPERTIES BestFirst TimedClaimReturns KeepsTasks
CHECK_DEADLOCK FALSE
