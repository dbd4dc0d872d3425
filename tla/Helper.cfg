SPECIFICATION HelperSpec
CONSTANTS
    q1 = q1
    d1 = d1
    a = a
    b = b
    x = x
    y = y
    g1 = g1
    g2 = g2
    a1 = a1
    r1 = r1
    r2 = r2
    None = None
    Threads = {t1, t2}
    Queries = {q1}
    Devices = {d1}
    Device <- MCDevice
    Verified = {d1}
    Outputs <- MCOutputs
    Pages <- MCPages
    MAX_ENTRIES = 1
    MaxCalls = 3
    MaxFailures = 1
    Targets = {t1, t2}
    Texts = {x, y}
    Filters = {f1, f2}
    Section <- MCSection
    Size <- MCSize
    Limits = {2, 3}
    Available = {1}
    BYTE_BUDGET = 4
    PER_TARGET = 2
    IN_ALL = 2
    MaxCaptures = 3
    Aliases = {a1}
    Reads = {r1, r2}
    Alias <- MCAlias
    Costs = {1, 2}
    RateLimits = {3}
    Window = 2
    NoPromise = NoPromise
    CONTINUATION_MAX_ENTRIES = 1
    CONTINUATION_TTL_SECONDS = 2
    MaxPages = 2
    MaxTime = 3
    MaxSpent = 4
    Writers = {t1, t2}
    RecordBytes = 2
    segment_bytes = 5
    retained_segments = 4
    MaxRecords = 10
    MaxCrashes = 3
    MaxFailedWrites = 1
SYMMETRY Symmetry
INVARIANTS
    PagesOfOneOutput
    ResultRecorded
    MemoryBounded
    PublishedOnly
    RateKept
    LogKept
PROPERTIES
    ConnectionsPaced
CHECK_DEADLOCK FALSE
