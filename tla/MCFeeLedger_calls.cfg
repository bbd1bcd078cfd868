SPECIFICATION MCSpec
CONSTANTS
    a = a
    b = b
    c = c
    None = None
    Joining = Joining
    Callers <- ThreeCallers
    LastQuarter = 2
    Gross = 10
    SiblingCut = 3
    OneTime = 6
    JoiningFee = 4
    Deposit = 5
    Corrected = 1
INVARIANTS
    TypeOK
    ResubmissionsAreRecognised
    PlannedPaymentsAreSingle
    SnapshotIsOriginal
    BillsFollowMarks
PROPERTIES
    PlansPostIntoOpenPeriods
    ReceiptsStand
SYMMETRY AnyCaller
CHECK_DEADLOCK FALSE
