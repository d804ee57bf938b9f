SPECIFICATION RemoteSpec
CONSTANTS
    Slots = {s1}
    MaxChannel = 1
    MaxSequence = 1
    AttemptCapacity = 1
    WatermarkCapacity = 2
    MaxRecords = 3
    MaxHandling = 2
    MayDepart = FALSE
    Single = {x1}
    Pair = {y1, y2}
    Deliveries = {y1, y2}
    Rows = {x1}
    Capacity = 1
    MaxGeneration = 1
    AdmissionSweeps = 0
    SilentSweeps = 0
    MaxRuns = 2
    MayStop = FALSE
    ViewMisses = FALSE
SYMMETRY Symmetry
INVARIANTS
    AdmittedOnceInOrder
    SendersToldTheTruth
    AnswersReachOwnRows
CHECK_DEADLOCK FALSE
