SPECIFICATION FairSpec
CONSTANTS
    a = a
    b = b
    c = c
    t1 = t1
    t2 = t2
    u = u
    w = w
    Requests <- Two
    Tokens <- TwoTokens
    Users <- OneUser
    Workers <- OneWorker
    UserOf <- AllByU
    TokenOf <- EachItsOwn
    WorkerOf <- OneWorkerServes
    OwnerOf <- AllOwnedByU
    Unacked <- Nothing
    Destructive <- Nothing
    Mute <- SecondToken
    Drifted <- Nothing
    Limit = 1
    Lifetime = 0
    MaxTime = 1
    HourOf <- OneHour
    FailingCalls <- AllCalls
    Switches <- ShadowSwitch
INVARIANTS
    RunsWithinBudget
    AuditIsTrue
PROPERTIES
    EveryRequestAnswered
CHECK_DEADLOCK FALSE
