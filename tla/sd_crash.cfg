CONSTANTS
    Users = {u1}
    None = None
    Torn = Torn
    MaxChanges = 2
    MaxFaults = 0
    MaxCrashes = 1
SPECIFICATION Spec
INVARIANT SavedSurvives
CHECK_DEADLOCK FALSE
