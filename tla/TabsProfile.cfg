\* The tab in front is left and comes back, with a run in between.
SPECIFICATION TabsSpec
CONSTANTS
    Tabs = {"t1", "t2"}
    Connections = {"p", "q"}
    Nobody = Nobody
    Gated = {}
    Writable = {"p", "q"}
    Documents = {"d"}
    MaxAsked = 2
    MaxRan = 3
    MaxOpen = 1
INVARIANT StatementRunsWhereItResolved
CHECK_DEADLOCK FALSE
