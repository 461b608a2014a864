CONSTANTS
    Nodes = {n1, n2, n3}
    MaxMsgs = 2
    MeshOptimal = 1
    MeshHigh = 1
    FanoutSize = 1
    Late = {}
    MaxOps = 4
    MaxRejects = 2
    MaxQueue = 2
SPECIFICATION Spec
SYMMETRY NodeSymmetry
INVARIANTS
    HandedOnce
    
    
CHECK_DEADLOCK FALSE
