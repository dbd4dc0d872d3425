SPECIFICATION Spec
CONSTANTS
    p1 = p1
    p2 = p2
    d1 = d1
    d2 = d2
    d3 = d3
    Procs = {p1, p2}
    Dirs = {d1, d2, d3}
    None = None
    MaxChunks <- MCMaxChunks
    Cap = 1
    MaxKills = 1
INVARIANTS
    WorkspaceKept
    RemainsRemoved
    AnswerWhole
PROPERTIES
    CallEnds
CHECK_DEADLOCK FALSE
