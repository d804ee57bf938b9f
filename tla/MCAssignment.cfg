SPECIFICATION StateSpec
CONSTANTS
    Tasks = {t1, t2, t3}
    MaxGeneration = 3
    MaxOperations = 2
    FirstOwner = n1
    Replica = n2
    OtherReplica = n3
    Partition = p0
    Pair = {p1, p2}
SYMMETRY Symmetry
INVARIANTS
    FencedOut
    EffectsHandedOver

    
CHECK_DEADLOCK FALSE
