CONSTANTS
    E = 3
    S = 1
    R = 2
    W = 1
    Paths = {"decode"}
    Ring = 4
    Compress = TRUE
    MaxFails = 0
    MaxFaults = 1
    MaxGiveUps = 1
SPECIFICATION Spec
VIEW PagerViewWrong
INVARIANT OneWrongStepPerGiveUp
