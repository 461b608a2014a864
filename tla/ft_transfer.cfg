CONSTANTS
    Sizes <- MCSizes
    Window = 2
    Interval = 3
    Workers = {w1, w2}
    MaxEvents = 2
SPECIFICATION FairSpec
INVARIANTS
    CompletedMeansPlaced
    
PROPERTIES
    OutcomeStays
    Completes
CHECK_DEADLOCK FALSE
