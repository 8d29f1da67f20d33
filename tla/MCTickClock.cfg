SPECIFICATION FairSpec
CONSTANTS
    Range = 20
    Period = 4
    MaxLate = 2
INVARIANTS DifferenceDoubles
PROPERTY ClientKeepsTicking
CHECK_DEADLOCK TRUE
