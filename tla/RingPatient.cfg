\* Fewer than Ring-1 waits are given up; up to two stores are lost.
CONSTANTS
    Ring = 4
    Forwards = {1, 3}
    MaxTries = 3
    MaxSeq = 6
    MaxLost = 2
    MaxGiveUps = 2
SPECIFICATION FairSpec
INVARIANTS
    TypeOK
    WaitsForOwnRequest
    AcceptedWasServed
    NeverReadsTwice
PROPERTIES
    EveryWaitEnds
    ImplementsService
