\* Two queries after each other on one connection, cancelled and closed at any moment.
SPECIFICATION FairSpec
CONSTANTS
    q1 = q1
    q2 = q2
    c1 = c1
    c2 = c2
    Queries = {q1, q2}
    Conns = {c1}
    NoConn = NoConn
    MaxSource = 1
    RowCap = 1
    MaxCancels = 1
INVARIANTS
    OneOwner QuietEndIsHonest
PROPERTIES
    EndIsAnnounced StoppedQueryLetsGo
CHECK_DEADLOCK FALSE
