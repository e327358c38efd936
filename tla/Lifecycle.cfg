SPECIFICATION FairSpec
CONSTANTS
    MaxStarts = 2
    Sizes = {0, 1}
    Reqs = {r1}
    Capacity = 1
    Capnp = {1}
INVARIANTS PanicHasACause OldServersAreDown
PROPERTIES ShutDownWaits StopReturns HandlerGoesAway
CHECK_DEADLOCK FALSE
