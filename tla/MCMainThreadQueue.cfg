SPECIFICATION Spec
CONSTANTS
    Calls = {f1, f2, s1, s2}
    SyncCalls = {s1, s2}
    MaxDepth = 2
    MaxPauses = 2
    SpuriousWakeups = FALSE
INVARIANTS
    TypeOK
    NothingStranded
PROPERTIES
    ServesInOrder
    EveryCallEnds
CHECK_DEADLOCK FALSE
