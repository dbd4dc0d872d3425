SPECIFICATION Spec
CONSTANTS
    Ops = {o1, o2}
    NoOp = NoOp
    Free = Free
    Values = {v1, v2}
    Rests = {r1}
    Accounts = {a1}
    NoAccounts = NoAccounts
    Platform = "fortios"
    Webhook = TRUE
    Notifier = TRUE
    MaxForeign = 0
    MaxCrashes = 1
SYMMETRY Interchangeable
INVARIANTS
    BlockingOutcomeBlocks
    EarlierOutcomesReported
    CertificateEarned
PROPERTIES
    NeverDisarmedUnconfirmed
