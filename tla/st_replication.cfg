CONSTANTS
    N = 2
    Keys = {k1}
    None = None
    Skew = 1
    MaxTime = 1
    MaxEvents = 3
SPECIFICATION FairSpec
INVARIANTS
    StampNamesEntry
    Converged
 
CHECK_DEADLOCK FALSE
