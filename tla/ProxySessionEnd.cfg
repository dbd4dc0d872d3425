SPECIFICATION FairSpec
CONSTANTS
    i1 = i1
    i2 = i2
    Ids = {i1, i2}
    MaxSends = 2
    MaxEpochs = 2
    MaxNotes = 1
    MaxFaults = 2
    None = None
INVARIANT
    EndedBeforeNext
CHECK_DEADLOCK FALSE
