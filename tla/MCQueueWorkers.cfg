CONSTANTS
    k1 = k1
    k2 = k2
    w1 = w1
    w2 = w2
    Items = {k1, k2}
    Workers = {w1, w2}
    NoItem = NoItem
    ChannelCapacity = 1
SPECIFICATION Spec
INVARIANTS
    TypeOK
    QueueConsistent
    ProcessingIsHeld
    OneWorkerPerKey
    FailuresHaveARetry
    NothingLeftBehind
PROPERTIES
    FailedIsRetried
    ShutDownEndsWorkers
    ImplementsKeyedWork
