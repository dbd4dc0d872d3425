SPECIFICATION MCSpec
CONSTANTS
    d1 = d1
    d2 = d2
    t1 = t1
    t2 = t2
    f1 = f1
    f2 = f2
    Procs = {p1, p2}
    Devices = {d1, d2}
    Targets = {t1, t2}
    Target <- OneTarget
    Requests = {r1, r2}
    Prints = {f1, f2}
    Weight <- SingleChanges
    Changes = {c1, c2, c3}
    None = None
    Nobody = Nobody
    changes_per_device_per_hour = 2
    changes_per_day = 2
    journal_records = 2
    HOUR = 0
    DAY = 1
    MaxTime = 0
    BusyTime = 1
    MaxCrashes = 1
SYMMETRY Interchangeable
INVARIANTS
    OneOperationPerRequest
    OneExecutionPerTarget
    BudgetsKept
