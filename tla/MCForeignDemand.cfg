SPECIFICATION Spec
CONSTANTS
    Workers = {1}
    Boots = {1}
    ResourceIds = {1}
    AllocIds = {1, 2}
    ResourceMsgs <- OneDevice
    AllocMsgs <- MCAllocs
    LayoutMsgs <- MCLayouts
    Demands <- TwoDemands
    GenMax = 2
    MaxPolicyGen = 2
    MaxPlans = 1
    Epochs = {1}
    FreshEpochs = TRUE
    Horizon = 8
    NoGroup = NoGroup
    NoDuration = NoDuration
    NoAlloc = NoAlloc
    NoRec = NoRec
    NoPlan = NoPlan
    NoSnap = NoSnap
    NoState = NoState
    NoVerification = NoVerification
    NoRes = NoRes
PROPERTY
    CompletionImproves
