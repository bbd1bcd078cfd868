SPECIFICATION Spec
CONSTANTS
    e1 = e1
    e2 = e2
    e3 = e3
    d1 = d1
    d2 = d2
    d3 = d3
    d4 = d4
    p1 = p1
    p2 = p2
    Events <- TwoEvents
    KindOf <- TopupsOnly
    References <- TwoReferences
    RefOf <- SamePayment
    Complete <- TwoEvents
    Deliveries <- TwoDeliveries
    EventOf <- AllOfFirst
    Faults <- CrashFaults
INVARIANT AcknowledgedIsCredited
CHECK_DEADLOCK FALSE
