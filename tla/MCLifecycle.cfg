CONSTANTS
    Threads <- TwoThreads
    MaxSignals = 3
    MaxBacklog = 1
SPECIFICATION Spec
INVARIANTS
    TypeOK
    InformersAreShared
    WorkersSeeFullCaches
    ExitTellsHowFar
PROPERTIES
    ServesUnlessStopped
    SignalEndsProcess
CHECK_DEADLOCK FALSE
