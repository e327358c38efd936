SPECIFICATION Spec
CONSTANTS
    r1 = r1
    r2 = r2
    r3 = r3
    root = root
    www = www
    Reqs = {r1, r2}
    Labels = {root}
    Apex = root
    DnsSec = TRUE
    Failing = {"GET"}
    MaxStamp = 1
    Nil = Nil
PROPERTIES ConfigIsNotForgotten
