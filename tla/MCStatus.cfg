CONSTANTS
    t1 = t1
    t2 = t2
    w1 = w1
    w2 = w2
    img1 = img1
    img2 = img2
    NoTool = NoTool
    Tools = {t1}
    Images = {img1}
    PbtWorkers = {w1, w2}
    Labels <- AllLabels
    WellFormed <- WithEquals
    LabelsOf <- OneToolLabels
    Fold <- NoFolding
    ChannelCapacity = 1
    PendingBound = 1
    MaxEdits = 2
    MaxFaults = 1
    MaxRelists = 0
    MaxCrashes = 1
SPECIFICATION PbtSpec
PROPERTIES
    OnlyUsersChangeTools
    ToolsGetInstalled
    ComesToRest
CHECK_DEADLOCK FALSE
