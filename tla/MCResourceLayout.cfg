SPECIFICATION Spec
CONSTANTS
    UMax = 7
    Capacities <- MCCapacities
    Ids = {a1, a2, a3}
    Generations = {1, 2}
    Metas = {m1}
    NoId = NoId
CHECK_DEADLOCK FALSE
INVARIANTS
    TypeOK
    Tiling
    FreeMaximal
    Registry
    IndexesExact
    InsertExact
    NeverThrows
PROPERTY
    ImplementsCellMap
