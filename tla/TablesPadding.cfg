\* A seeding prefill whose references are all invalid.
CONSTANTS
    E = 3
    S = 1
    R = 2
    MaxCount = 1
    Protect = 1000
    SlotSpan = 4
    Paths = {"decode", "seed", "padding"}
SPECIFICATION MCSpec
VIEW TablesView
INVARIANT RamRowsValid
