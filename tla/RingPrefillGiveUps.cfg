\* Prefill after given-up waits: a wait accepts a request that was never read.
CONSTANTS
    Ring = 4
    Forwards = {1, 2}
    MaxTries = 1
    MaxSeq = 5
    MaxLost = 2
    MaxGiveUps = 3
SPECIFICATION Spec
INVARIANT AcceptedWasServed
