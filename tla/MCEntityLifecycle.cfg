SPECIFICATION Spec
CONSTANTS
    IndexRange = 8
    Prototypes <- MCPrototypes
    Has <- MCHas
    MaxCreates = 3
    MaxBurns = 1
    MaxOrders = 1
INVARIANTS ComponentsPeak Paired RefCountIsUse ComponentsFollowPrototype IndexMapsLive OrdersMoveTheirUnit
\* The program may have crashed, and the units are bounded.
CHECK_DEADLOCK FALSE
