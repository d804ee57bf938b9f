SPECIFICATION CheckpointSpec
CONSTANTS
    Writers = {w1, w2, w3}
    MayFail = "yes"
    MayCancel = "yes"
    Announcers = {a1, a2}
    Waiters = {t1}
    Replicas = {n1, n2}
    FirstReplicas = {n1}
    MaxRevision = 2
    MaxChanges = 1
    MaxLosses = 0
    Pair = {b1, b2}
    First = {b3}
    Unbranched = {u}
SYMMETRY Symmetry
INVARIANTS
    PromisesKept
    NoLostWakeup
    
    OffersAnnounced
CHECK_DEADLOCK FALSE
