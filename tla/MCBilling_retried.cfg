SPECIFICATION FairSpec
CONSTANTS
    e1 = e1
    e2 = e2
    e3 = e3
    d1 = d1
    d2 = d2
    d3 = d3
    d4 = d4
    p1 = p1
    p2 = p2
    Events <- TwoEvents
    KindOf <- TopupAndCancellation
    References <- TwoReferences
    RefOf <- OwnPayment
    Complete <- AllButSecond
    Deliveries <- ThreeDeliveries
    EventOf <- FirstTwiceOfTwo
    Faults <- HandlerFaults
INVARIANT ProcessedIsCredited
PROPERTY TopupsAreCredited
CHECK_DEADLOCK FALSE
