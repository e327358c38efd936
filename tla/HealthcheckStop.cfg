SPECIFICATION FairSpec
CONSTANTS
    w1 = w1
    w2 = w2
    r1 = r1
    r2 = r2
    Nil = Nil
    Off = Off
    NoRecord = NoRecord
    Workers = {w1}
    Configs <- OneConfig
    Outcomes = {TRUE}
    MaxPending = 1
    MaxWrites = 0
    MaxStreak = 2
    Readers = {r1}
    Late = FALSE
    Overlap = FALSE
    Fails = FALSE
    Stops = TRUE
PROPERTIES
    ShutDownReturns
