SPECIFICATION FairSpec
CONSTANTS
    Workers = {w1, w2}
    Players = {p1, p2}
    MaxIO = 1
INVARIANTS
    EveryWorkerHasAnExit
    QuietAtDestroy
PROPERTIES
    ExitEndsServer
    EventsAreDispatched
CHECK_DEADLOCK FALSE
