\* Every path with room in RAM for a seed; R = 2S-1 is the smallest RAM tier
\* that decode keeps a superset of VRAM.
CONSTANTS
    E = 4
    S = 2
    R = 3
    MaxCount = 1
    Protect = 1000
    SlotSpan = 4
    Paths = {"decode", "acquire", "seed"}
SPECIFICATION MCSpec
VIEW TablesView
INVARIANTS
    TypeOK
    TablesInverse
    RamRowsValid
    DecodeKeepsInclusion
PROPERTIES
    NeededAreResident
    KernelMatchesTable
    TablesAreLru
