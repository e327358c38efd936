SPECIFICATION Spec
CONSTANTS
    here = here
    there = there
    Unknown = Unknown
    Nil = Nil
    N = 3
    UpCount = 3
    DownCount <- Down
    Statuses <- Seen
    Codes = {here, there}
    Geos <- Places
    Orders <- Ways
INVARIANTS NearestIsServed
CHECK_DEADLOCK FALSE
