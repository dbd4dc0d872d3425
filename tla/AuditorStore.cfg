SPECIFICATION Spec
CONSTANTS
    p1 = p1
    p2 = p2
    t1 = t1
    t2 = t2
    a = a
    b = b
    c = c
    Procs = {p1, p2}
    Tenants = {t1, t2}
    Rules = {"required", "optional"}
    Required = {"required"}
    Findings = {a, b, c}
    Rule <- MCRule
    Snapshots <- MCSnapshots
    Policies = {"plain", "strict"}
    Commands <- MCCommands
    Earlier <- MCEarlier
    None = None
    MaxAttempts = 3
INVARIANTS
    QueryAgrees
    HistoryTrue
    BaselineEarned
PROPERTIES
    LedgerKept
SYMMETRY Symmetry
CHECK_DEADLOCK FALSE
