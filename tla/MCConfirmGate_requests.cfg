SPECIFICATION Spec
CONSTANTS
    a = a
    b = b
    c = c
    t1 = t1
    t2 = t2
    u = u
    w = w
    Requests <- Three
    Tokens <- TwoTokens
    Users <- OneUser
    Workers <- OneWorker
    UserOf <- AllByU
    TokenOf <- ThirdForT2
    WorkerOf <- OneWorkerServes
    OwnerOf <- AllOwnedByU
    Unacked <- ThirdRequest
    Destructive <- SecondToken
    Mute <- Nothing
    Drifted <- SecondRequest
    Limit = 2
    Lifetime = 0
    MaxTime = 1
    HourOf <- OneHour
    FailingCalls <- Nothing
    Switches <- WritesSwitch
INVARIANTS
    TypeOK
    OneRunPerToken
    BudgetIsExact
    KillSwitchStops
    RefusalsKeepTheToken
CHECK_DEADLOCK FALSE
