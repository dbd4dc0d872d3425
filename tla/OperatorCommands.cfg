SPECIFICATION StateSpec
CONSTANTS
    p1 = p1
    p2 = p2
    Procs = {p1, p2}
    LeafDays = 2
    RenewDays = 1
    CaDays = 4
    CaMargin = 2
    None = None
    MaxKeys = 7
    MaxDay = 3
    MaxEnds = 2
    Documents <- MCDocuments
    QueueLimit = 2
    MaxCuts = 1
INVARIANTS
    ValidChain
    ConfigTrue
    NoCaLost
    OneDocument
PROPERTIES
    InterruptedRecovers
CHECK_DEADLOCK FALSE
