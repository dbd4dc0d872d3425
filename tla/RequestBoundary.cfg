SPECIFICATION FairSpec
CONSTANTS
    r1 = r1
    r2 = r2
    Requests = {r1, r2}
    MAX_CONCURRENT_REQUESTS = 1
    None = None
    MaxRotations = 1
    MaxFailures = 1
INVARIANTS
    RequestsAudited
    NoFalseComfort
PROPERTY
    EverythingEnds
CHECK_DEADLOCK FALSE
