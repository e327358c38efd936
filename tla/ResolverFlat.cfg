SPECIFICATION Spec
CONSTANTS
    z = z
    a = a
    b = b
    w = w
    x = x
    y = y
    o = o
    s = s
    lz = lz
    la = la
    lb = lb
    lw = lw
    ly = ly
    Nil = Nil
    Top = Top
    Names <- AllNames
    ZoneNames = {z, y}
    Enclosing <- Suffixes
    Fqdn <- Dotted
    Labels <- AllLabels
    Location <- Locations
    Ups <- ZoneObjects
    Shapes <- ChainShapes
    QTypes = {"TXT"}
    MaxLoop = 3
    MaxChanges = 0
    Fails = FALSE
INVARIANTS
    FlatteningEliminatesAliases
CHECK_DEADLOCK FALSE
