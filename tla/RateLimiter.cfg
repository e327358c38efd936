SPECIFICATION Spec
CONSTANTS
    t1 = t1
    t2 = t2
    l1 = l1
    l2 = l2
    l3 = l3
    l4 = l4
    client = client
    hasty = hasty
    friend = friend
    foe = foe
    Threads = {t1, t2}
    Keys = {client, hasty, friend, foe}
    Patient = {client, friend, foe}
    WhiteList = {friend, foe}
    BlackList = {foe}
    Limiters = {l1, l2, l3, l4}
    Enable = TRUE
    Rate = 2
    Burst = 1
    Minute = 4
    MaxClock = 5
    Nil = Nil
VIEW View
INVARIANTS LimitIsEnforced LimiterIsBounded
PROPERTIES ImplementsBucket RefusalIsJustified
