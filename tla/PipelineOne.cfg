\* One table whose spill file may fail: cap, hot window and budget all bite.
SPECIFICATION FairSpec
CONSTANTS
    q1 = q1
    q2 = q2
    Queries = {q1}
    Tables = {q1}
    MaxSource = 5
    BatchRows = {1, 2}
    MaxBlank = 1
    Bound = 2
    RowCap = 4
    HotWindow = 1
    SampleBatches = 1
    Limit = 3
    SpillWorks = {TRUE, FALSE}
    CursorMay = {"error", "cancelled"}
INVARIANTS
    BudgetExact PublishedInOrder ParkHolds
PROPERTIES
    StopTakesEffect DropReturnsMemory ReaderReachesTheEnd ImplementsStream
CHECK_DEADLOCK FALSE
