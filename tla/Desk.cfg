\* Each part by itself; see MCDesk.  The lists of the gate overflow.
SPECIFICATION Spec
CONSTANTS
    a = a
    b = b
    Openers = {a, b}
    MaxOpens = 2
    MaxEdits = 1
    Hosts = {"h1", "h2"}
    Keys = {"k1", "k2", "k3"}
    Algorithm <- KeyAlgorithm
    Windows = {a, b}
    System <- KnownToSystem
    MaxReviews = 2
    MaxMishaps = 1
    Handles = {1, 2, 3}
    Exports = {a, b}
    Paths = {"p", "q"}
    Batches = 2
    LastStatement = 3
    Total = 4
    Hints = {1, 2, 3}
    Limits <- NoLimitOrTwo
    Docs = {1, 2}
    MaxAttempts = 2
    MaxOthers = 1
    Asks = {"scan", "fetch", "close", "write", "mutate", "begin", "begin_read_only",
            "commit", "rollback", "read_only", "look", "shutdown"}
    MaxCalls = 3
    MaxInterrupts = 1
    BatchLen = 2
    MaxRequests = 3
    Mutations = 2
    Callers = {a, b}
    MaxSize = 2
    MaxConns = 3
    NoConn = NoConn
    Slots = {1, 2, 3}
    Tasks = {a, b}
    Statements = {"read", "write"}
    Reads = {"read"}
    MaxScript = 2
    Levels = {"Silent", "AuthWrites"}
    MaxPending = 1
    MaxGrants = 2
    MaxTickets = 2
    MaxChanges = 1
    Tabs = {a, b}
    Connections = {"p", "q"}
    Nobody = Nobody
    Gated = {"q"}
    Writable = {"p", "q"}
    Documents = {"d"}
    MaxAsked = 2
    MaxRan = 3
    MaxOpen = 1
SYMMETRY Symmetry
INVARIANTS
    DeskTypeOK RaceHasOneWinner QuietEditTakesEffect PinsAreTheUsers HeldTunnelIsPooled
    TargetIsWhole StopIsHonoured CallbackHasItsContext PagesAreWhole ContextsGoBack
    GuardHolds ReportIsTrue MySqlBatchIsWhole PoolIsExclusive ClearsOnce
    TabsAreHonest
PROPERTIES
    HandsOutUsable PromisesAreKept
CHECK_DEADLOCK FALSE
