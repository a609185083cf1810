CONSTANTS
    n1 = n1
    a = a
    b = b
    none = none
    Namespaces = {n1}
    Names = {a, b}
    NoTool = none
    FirstName = a
    MaxRevision = 2
    MaxBreaks = 2
SPECIFICATION Spec
INVARIANTS
    Chain
    UnseenLeadsToServer
    NotesMakeSense
    FifoStaysConsistent
    SyncedMeansListed
PROPERTIES
    ImplementsInformer
    SharedAreReadOnly
    ToldMovesForward
    OverlookedOnlyWhenQueued
    ToldCatchesUp
CHECK_DEADLOCK FALSE
