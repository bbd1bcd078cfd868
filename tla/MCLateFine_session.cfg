SPECIFICATION MCSpec
CONSTANTS
    Leap = 1
    LastSeen = 370
    PayDays <- MCPayDays
INVARIANTS
    FineFollowsTheRule
    OneDailyFine
CHECK_DEADLOCK FALSE
