\* Two clients, two orders between them; a read of the server takes in up to two
\* messages, of which the second is lost, and one message is lost between a client's
\* threads.  SecondBound keeps what follows a second order, or an order and a loss,
\* short.  The run ends when all is processed.
CONSTANTS
    Clients = {c1, c2}
    Positions = {p1, p2}
    NoOrder = nowhere
    MaxOrders = 2
    MaxRead = 2
    MaxLost = 1
    IndexRange = 5
SPECIFICATION Spec
INVARIANTS
    TypeOK
    Agreement
    AckIsOwn
    IdBeforeBroadcast
    KnownIsProcessed
    OrderAfterAnnouncement
    OrdersAreOwn
    Convergence
CONSTRAINT SecondBound
SYMMETRY Symmetry
CHECK_DEADLOCK FALSE
