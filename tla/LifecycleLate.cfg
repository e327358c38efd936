SPECIFICATION Spec
CONSTANTS
    MaxStarts = 2
    Sizes = {0, 1}
    Reqs = {r1}
    Capacity = 1
    Capnp = {1}
INVARIANT NoServerIsMissed
CHECK_DEADLOCK FALSE
