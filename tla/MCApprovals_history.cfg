SPECIFICATION MCSpec
CONSTANTS
    c1 = c1
    c2 = c2
    Requests <- AllRequests
    KindOf <- AllKinds
    Strict <- StrictOnes
    Rivals <- SamePerson
    Callers <- TwoCallers
    Calls <- AllCalls
INVARIANTS
    HistoryStaysHidden
CHECK_DEADLOCK FALSE
