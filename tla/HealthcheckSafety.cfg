SPECIFICATION Spec
CONSTANTS
    w1 = w1
    w2 = w2
    r1 = r1
    r2 = r2
    Nil = Nil
    Off = Off
    NoRecord = NoRecord
    Workers = {w1, w2}
    Configs <- TwoConfigs
    Outcomes = {TRUE, FALSE}
    MaxPending = 1
    MaxWrites = 2
    MaxStreak = 2
    Readers = {r1}
    Late = TRUE
    Overlap = FALSE
    Fails = TRUE
    Stops = TRUE
INVARIANTS
    StatusIsEarned
