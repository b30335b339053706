SPECIFICATION FairSpec
CONSTANTS
    n1 = n1
    n2 = n2
    d1 = d1
    d2 = d2
    c1 = c1
    c2 = c2
    c3 = c3
    NoNode = NoNode
    NoDevice = NoDevice
    NoConn = NoConn
    Node = {n1, n2}
    Device = {d1}
    Conn = {c1, c2}
    NodeOf <- TwoNodes
    MaxStops = 1
INVARIANTS
    RecordFollowsConnection
PROPERTIES
    LogoutDisconnects
    ClosedIsForgotten
CHECK_DEADLOCK FALSE
