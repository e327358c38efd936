SPECIFICATION Spec
CONSTANTS
    t1 = t1
    t2 = t2
    l1 = l1
    l2 = l2
    l3 = l3
    l4 = l4
    client = client
    hasty = hasty
    friend = friend
    foe = foe
    Threads = {t1, t2}
    Keys = {client}
    Patient = {}
    WhiteList = {}
    BlackList = {}
    Limiters = {l1, l2, l3}
    Enable = TRUE
    Rate = 4
    Burst = 2
    Minute = 12
    MaxClock = 4
    Nil = Nil
INVARIANTS EveryLimitIsEnforced
