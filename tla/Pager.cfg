\* Every path, two rows per chunk, the host always answers in time.
CONSTANTS
    E = 4
    S = 1
    R = 2
    W = 2
    Paths = {"decode", "acquire", "seed"}
    Ring = 4
    Compress = TRUE
    MaxFails = 0
    MaxFaults = 0
    MaxGiveUps = 0
SPECIFICATION Spec
VIEW PagerView
INVARIANTS
    TypeOK
    MoeUsesRightRows
    StepIsComplete
    RowsMatchTables
