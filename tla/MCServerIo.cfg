SPECIFICATION Spec
CONSTANTS
    Workers = {w1, w2}
    AcceptThread = accept
    TickThread = tick
    NumIncoming = 2
    Answered = {1}
    NumBroadcasts = 1
    MaxIds = 2
    MaxFailures = 1
SYMMETRY Symmetry
INVARIANTS ReadAccounting ReadsIntactWhileSingle SendsIntactUnlessOverlapped
\* The threads wait for the next completion once the client is silent.
CHECK_DEADLOCK FALSE
