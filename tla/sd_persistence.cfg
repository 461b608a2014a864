CONSTANTS
    Users = {u1, u2}
    None = None
    Torn = Torn
    MaxChanges = 3
    MaxFaults = 2
    MaxCrashes = 1
SPECIFICATION FairSpec

    
    
PROPERTY DirtyGetsSaved
CHECK_DEADLOCK FALSE
