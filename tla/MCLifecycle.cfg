SPECIFICATION Spec
CONSTANTS
    Workers = {1, 2}
    Boots = {1, 2}
    ResourceIds = {1}
    AllocIds = {1, 2}
    ResourceMsgs <- OneDeviceTwice
    AllocMsgs <- MCAllocsCrossing
    LayoutMsgs <- MCLayoutsCrossing
    Demands <- OneDemand
    GenMax = 2
    MaxPolicyGen = 2
    MaxPlans = 2
    Epochs = {1, 2}
    FreshEpochs = TRUE
    Horizon = 8
    NoGroup = NoGroup
    NoDuration = NoDuration
    NoAlloc = NoAlloc
    NoRec = NoRec
    NoPlan = NoPlan
    NoSnap = NoSnap
    NoState = NoState
    NoVerification = NoVerification
    NoRes = NoRes
CONSTRAINT
    SimpleAroundFile
INVARIANTS
    TypeOK
    LiveEvidence
    ValidLayouts
    CompletedVerified
    FreshPlanIds
    Decidable
PROPERTIES
    CompletionAuthorised
    CompletionImproves
