\* One layer, requests of one and of two experts, one stop.
CONSTANTS
    Workers = {w1, w2}
    Server = server
    Sizes = {1, 2}
    MaxRequests = 2
SPECIFICATION FairSpec
INVARIANTS
    TypeOK
    ServedJobsReadOnce
    FailureVisibleAtDone
PROPERTIES
    FirstFailureKept
    EveryRequestServed
    StopReturns
\* After ssd_stop and the last request everything has ended.
CHECK_DEADLOCK FALSE
