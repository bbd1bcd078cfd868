SPECIFICATION FairSpec
CONSTANTS
    r1 = r1
    r2 = r2
    r3 = r3
    p1 = p1
    p2 = p2
    x = x
    Runs <- MCRuns
    Plans <- MCPlans
    Records <- MCRecords
    PlanOf <- MCPlanOf
    StepsOf <- MCStepsOf
    DryRuns <- MCDryRuns
INVARIANTS
    TypeOK
    AppliedAtMostOnce
    AllOrNothing
    RefusalsAreHonest
    AlreadyAppliedIsTrue
    CommittedSawItsRecords
    IInv
PROPERTIES
    EveryRunEnds
    ImplementsAtomicPlan
CHECK_DEADLOCK FALSE
