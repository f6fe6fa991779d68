SPECIFICATION LiveSpec
CONSTANTS
    AutoStart = TRUE
    Caller = {"toggle", "retry", "guard", "agent", "boot"}
    MaxTries = 2
    MaxPresses = 2
    MaxChanges = 4
    MaxSwitches = 1
INVARIANTS OffStays  
PROPERTIES OffGetsThrough KeepsIntent
CHECK_DEADLOCK FALSE
