SPECIFICATION Spec
CONSTANTS
    a = a
    b = b
    x = x
    Dot = Dot
    Star = Star
    Nil = Nil
    Chars = {a, b, x, Dot, Star}
    Listings <- ZoneSets
    Contents <- LocationSets
    Questions <- Asked
INVARIANTS ZoneIsTheInnermost WildcardIsTheClosest DenialIsTrue
CHECK_DEADLOCK FALSE
