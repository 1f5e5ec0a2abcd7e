\* One row per chunk and per tier; one wait is given up, here or in another layer,
\* and served late, or one read fails.
CONSTANTS
    E = 4
    S = 1
    R = 1
    W = 1
    Paths = {"decode", "seed"}
    Ring = 4
    Compress = FALSE
    MaxFails = 1
    MaxFaults = 1
    MaxGiveUps = 1
SPECIFICATION FairSpec
VIEW PagerView
INVARIANT MoeUsesRightRows
PROPERTY EveryStepEnds
