CONSTANTS
    t1 = t1
    t2 = t2
    p1 = p1
    p2 = p2
    w1 = w1
    w2 = w2
    img1 = img1
    img2 = img2
    NoTool = NoTool
    NoPod = NoPod
    Tools = {t1}
    Labels <- TwoLabels
    WellFormed <- TwoLabels
    LabelsOf <- OneLabel
    Fold <- NoFolding
    Images = {img1}
    Nameable = {img1}
    PbtWorkers = {}
    ChannelCapacity = 1
    PendingBound = 1
    PodPendingBound = 1
    MaxEdits = 1
    MaxFaults = 0
    MaxRelists = 0
    MaxCrashes = 0
    Pods = {p1}
    PodLabelSets <- NoneOrX
    PodWorkers = {w1}
    MaxPolls = 1
    PodEvents = {"created"}
    MaxPodEvents = 1
    MaxPodFaults = 0
    MaxPodRelists = 0
SPECIFICATION Spec
INVARIANTS
    PoolNotRaced
CHECK_DEADLOCK FALSE
