\* Five users of an array whose indices stop at 4 (_back != 65535 becomes
\* _back != 4).  A deadlock is the assertion of get() ending the program.
CONSTANTS
    Holders <- MCHolders
    IndexRange = 5
SPECIFICATION Spec
INVARIANTS
    TypeOK
    NoAliasing
    Accounting
    ValidIsHeld
    BackIsPeak
    IterationCoversHeld
PROPERTY
    PoolSpec
CHECK_DEADLOCK FALSE
