SPECIFICATION KeySpec
CONSTANTS
    Owners = {o1, o2, o3}
    Keys = {k1, k2}
    Capacity = 1
    MaxIdle = 1
    MaxTime = 0
    Predecessor = o4
    Successor = o5
    ManyKeys = {k1, k2, k3, k4}
    Unit = u
SYMMETRY Symmetry
INVARIANTS
    OneOwner
    PublishedExact
    BranchesExact
PROPERTIES
    ImplementsBuckets
CHECK_DEADLOCK FALSE
