SPECIFICATION Spec
CONSTANTS
    r1 = r1
    r2 = r2
    r3 = r3
    root = root
    www = www
    Reqs = {r1, r2}
    Labels = {root, www}
    Apex = root
    DnsSec = TRUE
    Failing = {"HKEYS", "HGET"}
    MaxStamp = 2
    Nil = Nil
SYMMETRY Symmetry
INVARIANTS MonotonicReads LocationExists
PROPERTIES CacheNeverRegresses StaleIsBetterThanNothing
