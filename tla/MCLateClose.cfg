SPECIFICATION TSpec
CONSTANTS
    Workers = {1}
    Boots = {1, 2}
    Conns <- OneWorker
    Generations <- CudaWorker
    ResourceIds = {1}
    AllocIds = {1}
    ResourceMsgs <- MCResources
    AllocMsgs <- MCAllocs
    LayoutMsgs <- MCLayouts
    Demands = {}
    GenMax = 2
    MaxPolicyGen = 1
    MaxPlans = 0
    Epochs = {1}
    FreshEpochs = TRUE
    Horizon = 8
    NoGroup = NoGroup
    NoDuration = NoDuration
    NoAlloc = NoAlloc
    NoRec = NoRec
    NoPlan = NoPlan
    NoSnap = NoSnap
    NoState = NoState
    NoVerification = NoVerification
    NoRes = NoRes
PROPERTIES
    Revalidated
CHECK_DEADLOCK FALSE
