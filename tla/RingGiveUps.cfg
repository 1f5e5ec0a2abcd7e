\* Waits may be given up; decode alone, and decode and prefill mixed.
CONSTANTS
    Ring = 4
    Forwards = {1, 2}
    MaxTries = 1
    MaxSeq = 7
    MaxLost = 4
    MaxGiveUps = 7
    MixedSeq = 5
    MixedLost = 2
SPECIFICATION Spec
CONSTRAINT Explored
INVARIANTS
    PendingBodyKept
    ForeignBodyNeedsGiveUps
    DecodeAcceptsServed
    DecodeMissedWasGivenUp
