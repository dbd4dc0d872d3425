SPECIFICATION AuditSpec
CONSTANTS
    small = small
    large = large
    s1 = s1
    s2 = s2
    e1 = e1
    w1 = w1
    w2 = w2
    Records = {small, large}
    Starts = {s1, s2}
    Stops = {e1}
    Size <- MCSize
    Parts <- MCParts
    Heavy = {large}
    Writers = {w1, w2}
    budget = 4
    reserve = 1
    SYSLOG_BATCH_RECORDS = 2
    SYSLOG_BATCH_BYTES = 2
    Forwarder = Forwarder
    None = None
    MaxFailures = 1
    MaxCrashes = 1
    MAX_MESSAGE = 2
    local_budget = 8
    segment_size = 5
    retention = 1
    Sizes = {2, 4}
    MaxRecords = 3
    MaxDays = 2
    MaxLocalFailures = 2
    id1 = id1
    id2 = id2
    Ids = {id1, id2}
    Raws <- MCRaws
    CHUNK_BYTES = 2
    MAX_PARTS = 2
    Garbage = Garbage
    Noise <- MCNoise
    MaxLines = 4
INVARIANTS
    RecordsKept
    BudgetKept
    RoundTrip
PROPERTIES
    EveryRecordLeaves
CHECK_DEADLOCK FALSE
