SPECIFICATION Spec
CONSTANTS
    d1 = d1
    d2 = d2
    v1 = v1
    p1 = p1
    Bye = Bye
    Directs = {d1, d2}
    Delivers = {v1}
    Owed = {p1}
    Cap = 1
    PublicCap = 2
    DropBatch = 1
CHECK_DEADLOCK FALSE
INVARIANTS
    InOrder
    OverloadBounded
    DisconnectedLast
    DeliverSafe
PROPERTIES
    DispatcherExits
