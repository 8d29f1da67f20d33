\* Two clients that join at any time, and fairly scheduled threads; no orders.  The run
\* ends when all is processed.
CONSTANTS
    Clients = {c1, c2}
    Positions = {p1}
    NoOrder = nowhere
    MaxOrders = 0
    MaxRead = 1
    MaxLost = 0
    IndexRange = 4
SPECIFICATION FairSpec
PROPERTY
    EveryUnitBecomesKnown
CHECK_DEADLOCK FALSE
