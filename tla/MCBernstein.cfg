SPECIFICATION MCSpec
CONSTANTS
    first = first
    second = second
    a = a
    b = b
    None = None
    Absent = Absent
    Corrupt = Corrupt
    MaxRaised = 2
    MaxSessions = 3
    MaxSigned = 5
    Run = {first, second}
    Tasks <- MCTasks
    MaxConcurrent = 3
    Schedule = {nightly}
    Cron <- MCCron
    CatchUpLimit = 1
    beat1 = beat1
    beat2 = beat2
    Ticker = {beat1, beat2}
    MaxMade = 2
    MaxMinute = 4
INVARIANTS ChainHonest RunsIsolated FiredOnce
CHECK_DEADLOCK FALSE
PROPERTIES WindowsAnswered
