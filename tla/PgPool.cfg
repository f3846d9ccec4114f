SPECIFICATION PgSpec
CONSTANTS
    Browsers = {"browser"}
    MaxSessions = 2
    MaxSids = 3
    BatchSize = 2
    MaxEvents = 3
    MaxLooks = 1
INVARIANTS CapIsKept ReadOnlyReachesEverySession
PROPERTIES RequestsEnd LetGoSessionsComeBack PgImplementsBatch
CHECK_DEADLOCK FALSE
