\* Two tabs that move the connection, close their leases at any moment, and go
\* away with or without a farewell.
CONSTANTS
    Tab = {a, b}
    NoTab = NoTab
    Faults = {"early", "hide", "close", "hasty", "kill"}
    MaxJobs = 1
    MaxYields = 1
SPECIFICATION MCFairSpec
INVARIANTS
    OnlyHastyCloseBlocksFile
    GateHoldsWhenCalm
    
PROPERTIES
    ServesJobs
    NobodyWaitsForever
CHECK_DEADLOCK FALSE
