\* One client is enough: it creates its unit before its id has arrived.
CONSTANTS
    Clients = {c1}
    Positions = {p1}
    NoOrder = nowhere
    MaxOrders = 0
    MaxRead = 1
    MaxLost = 0
    IndexRange = 5
SPECIFICATION Spec
INVARIANT
    CopiesAreOthers
CHECK_DEADLOCK FALSE
