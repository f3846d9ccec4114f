SPECIFICATION PgSpec
CONSTANTS
    Browsers = {"browser"}
    MaxSessions = 2
    MaxSids = 3
    BatchSize = 2
    MaxEvents = 3
    MaxLooks = 1
INVARIANT ReadOnlyRefusesWrites
CHECK_DEADLOCK FALSE
