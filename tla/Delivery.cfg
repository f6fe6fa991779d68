SPECIFICATION Spec
CONSTANTS
    TimeOf <- AllApart
    Kind <- Corrected
    Refers <- ToFirst
    Overlap = 1
    FailedCap = 1
    MaxConnections = 2
    MaxRestarts = 1
    MaxUpsets = 1
    MaxFailures = 2
INVARIANTS NoFrameSkippedInSession NoStall OnceInProcess OneHandlerEach
CHECK_DEADLOCK FALSE
