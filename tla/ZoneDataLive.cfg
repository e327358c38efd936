SPECIFICATION FairSpec
CONSTANTS
    r1 = r1
    r2 = r2
    r3 = r3
    root = root
    www = www
    Reqs = {r1, r2}
    Labels = {root}
    Apex = root
    DnsSec = FALSE
    Failing = {"HKEYS", "GET", "HGET"}
    MaxStamp = 2
    Nil = Nil
PROPERTIES EveryRequestIsAnswered FreshBecomesCurrent
