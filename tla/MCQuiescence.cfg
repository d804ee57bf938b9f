SPECIFICATION QuietSpec
CONSTANTS
    Nodes = {n1, n2}
    Ops = {o1}
    Timed = {}
    MaxWork = 1
    MaxTimeouts = 1
    MaxStops = 0
    MaxCrashes = 0
    GraphNodes = {proc, keeper}
    Messages = {m1, m2}
    Path <- MCPath
    Needs <- MCNeeds
    Tracked = {}
    Generated = {}
    Parked = {m2}
    proc = proc
    keeper = keeper
    m1 = m1
    m2 = m2
SYMMETRY NodeSymmetry
INVARIANTS
    
    
    DrainMissesNothing
CHECK_DEADLOCK FALSE
