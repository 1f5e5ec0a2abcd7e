\* Words of 5 bits, codes of at most 4: the tree of the most skewed rows is too deep.
CONSTANTS
    NumSymbols = 6
    Limit = 4
    MaxRaises = 3
    Word = 5
    Chunk = 4
    Lanes = 2
    Groups = 2
    Nibbles = 2
    Pitch = 22
    Rows <- MCRows
SPECIFICATION FairSpec
CHECK_DEADLOCK FALSE
INVARIANTS
    CodesFillTable
    CheapestCode
    DecodedIsRow
    GroupsTakeOwnWords
PROPERTIES
    LimitLoopEnds
    LanesFollowSchedule
