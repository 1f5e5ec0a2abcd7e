\* Two processes and their restarts; one of them loads in any order.
CONSTANTS
    p1 = p1
    p2 = p2
    Procs = {p1, p2}
    AnyOrder = {p1}
    Layers = 2
    E = 2
    R = 1
    MayLack <- MCMayLack
    CacheSlots = 3
    RowSize <- MCRowSize
    PitchSize <- MCPitchSize
    WorkingRows = {2, 3}
    MaxStarts = 3
    MaxShort = 1
SPECIFICATION Spec
CHECK_DEADLOCK FALSE
INVARIANTS
    TypeOK
    LibraryIsWhole
    ReadyIsStored
    StagingFits
PROPERTY RefusedOnlyIfBroken
