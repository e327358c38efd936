SPECIFICATION MCSpec
CONSTANTS
    z = z
    a = a
    b = b
    w = w
    x = x
    y = y
    o = o
    s = s
    lz = lz
    la = la
    lb = lb
    lw = lw
    ly = ly
    Nil = Nil
    Top = Top
    Names <- AllNames
    ZoneNames = {z, y}
    Enclosing <- Suffixes
    Fqdn <- Dotted
    Labels <- AllLabels
    Location <- Locations
    Ups <- ZoneObjects
    Shapes <- AllShapes
    QTypes = {"A", "CNAME", "NS", "TXT", "CAA", "SOA", "DNSKEY", "ANY"}
    MaxLoop = 3
    MaxChanges = 1
    Fails = TRUE
INVARIANTS AnswerIsConnected LoopsAreRefused NegativeAnswerHasSOA FailureIsReported CAADenialIsTrue
PROPERTIES EveryRequestIsAnswered
CHECK_DEADLOCK FALSE
