SPECIFICATION Spec
CONSTANTS
    Families <- MCFamilies
    Horizon = 5
    NoGroup = NoGroup
    NoDuration = NoDuration
    NoAlloc = NoAlloc
INVARIANTS
    GreedyIsClosedForm
    PlanVerifies
    FitAgrees
    WindowExact
    MetricsAccount
    MetricsAgree
CHECK_DEADLOCK FALSE
