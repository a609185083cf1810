CONSTANTS
    t1 = t1
    t2 = t2
    w1 = w1
    w2 = w2
    img1 = img1
    img2 = img2
    NoTool = NoTool
    Tools = {t1, t2}
    Images = {img1}
    PbtWorkers = {w1}
    Labels <- AllLabels
    WellFormed <- WithEquals
    LabelsOf <- OwnLabels
    Fold <- NoFolding
    ChannelCapacity = 1
    PendingBound = 1
    MaxEdits = 2
    MaxFaults = 0
    MaxRelists = 1
    MaxCrashes = 0
SPECIFICATION PbtSpec
INVARIANTS
    PbtTypeOK
    PoolSound
    PoolComplete
CHECK_DEADLOCK FALSE
