SPECIFICATION Spec
CONSTANTS
    r1 = r1
    r2 = r2
    r3 = r3
    k1 = k1
    k2 = k2
    u1 = u1
    u2 = u2
    Nil = Nil
    Reqs = {r1, r2}
    Keys = {k1, k2}
    Servers <- TwoServers
    Answers <- SomeTtls
    DefaultTtl = 3
    MaxTtl = 4
    MaxClock = 4
INVARIANTS ZeroIsZero
CHECK_DEADLOCK FALSE
