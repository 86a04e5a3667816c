SPECIFICATION Spec
CONSTANTS
    Families <- MCFamilies
    Horizon = 5
    NoGroup = NoGroup
    NoDuration = NoDuration
    NoAlloc = NoAlloc
INVARIANT
    NoFitIsAnswered
CHECK_DEADLOCK FALSE
