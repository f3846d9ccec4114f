\* A late server-side cancel meets the next query on the connection.
SPECIFICATION Spec
CONSTANTS
    q1 = q1
    q2 = q2
    c1 = c1
    c2 = c2
    Queries = {q1, q2}
    Conns = {c1}
    NoConn = NoConn
    MaxSource = 1
    RowCap = 1
    MaxCancels = 1
INVARIANTS
    CancelKillsOnlyItsOwn
CHECK_DEADLOCK FALSE
