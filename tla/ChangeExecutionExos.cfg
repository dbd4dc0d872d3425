SPECIFICATION FairSpec
CONSTANTS
    Ops = {o1}
    NoOp = NoOp
    Free = Free
    Values = {v1, v2}
    Rests = {r1, r2}
    Accounts = {a1, a2}
    NoAccounts = NoAccounts
    Platform = "exos"
    Webhook = FALSE
    Notifier = TRUE
    MaxForeign = 1
    MaxCrashes = 1
INVARIANTS
    SettledSafeguardGone
    SettledOutcomeTrue
    SettledOutcomeSaved
PROPERTIES
    EveryOperationSettles
