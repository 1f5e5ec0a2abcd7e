\* As many RAM slots as VRAM slots, which the code allows.
CONSTANTS
    E = 4
    S = 2
    R = 2
    MaxCount = 1
    Protect = 1000
    SlotSpan = 4
    Paths = {"decode"}
SPECIFICATION MCSpec
VIEW TablesView
INVARIANT DecodeKeepsInclusion
