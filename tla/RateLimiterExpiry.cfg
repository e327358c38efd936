SPECIFICATION Spec
CONSTANTS
    t1 = t1
    t2 = t2
    l1 = l1
    l2 = l2
    l3 = l3
    l4 = l4
    client = client
    hasty = hasty
    friend = friend
    foe = foe
    Threads = {t1}
    Keys = {client}
    Patient = {client}
    WhiteList = {}
    BlackList = {}
    Limiters = {l1, l2}
    Enable = TRUE
    Rate = 3
    Burst = 4
    Minute = 6
    MaxClock = 20
    Nil = Nil
INVARIANTS LimitIsEnforced
