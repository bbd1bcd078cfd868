SPECIFICATION Spec
CONSTANTS
    e1 = e1
    e2 = e2
    e3 = e3
    d1 = d1
    d2 = d2
    d3 = d3
    d4 = d4
    p1 = p1
    p2 = p2
    Events <- ThreeEvents
    KindOf <- TopupAndSubscription
    References <- TwoReferences
    RefOf <- OwnPayment
    Complete <- AllButThird
    Deliveries <- FourDeliveries
    EventOf <- FirstTwiceOfThree
    Faults <- AllFaults
INVARIANTS
    CreditedOnce
    ProcessedIsCredited
SYMMETRY SameEvent
CHECK_DEADLOCK FALSE
