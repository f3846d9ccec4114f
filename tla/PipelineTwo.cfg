\* A table and a document result share a budget neither can spill out of, and cursors panic.
SPECIFICATION FairSpec
CONSTANTS
    q1 = q1
    q2 = q2
    Queries = {q1, q2}
    Tables = {q1}
    MaxSource = 1
    BatchRows = {1}
    MaxBlank = 0
    Bound = 1
    RowCap = 2
    HotWindow = 1
    SampleBatches = 1
    Limit = 1
    SpillWorks = {FALSE}
    CursorMay = {"panic"}
INVARIANTS
    FreedIsNotLost
PROPERTIES
    DroppingOthersResumes
CHECK_DEADLOCK FALSE
