SPECIFICATION RelaySpec
CONSTANTS
    Dispatches = {d1, d2}
    Fences = {f1, f2}
    MaxEngagements = 2
    SolePublisher = {p3}
    Publishers = {d1, d2}
    Consumers = {c3}
    Capacities = {1}
    MaxBatches = 2
    MaxChanges = 0
    MayLeave = TRUE
    MayAbort = FALSE
SYMMETRY Symmetry
INVARIANTS
    LeaseExcludesDispatch
    NoLostWakeup
    PublishersWoken
    BatchesKept
CHECK_DEADLOCK FALSE
