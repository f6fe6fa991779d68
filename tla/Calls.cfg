SPECIFICATION FairSpec
CONSTANTS
    Phones = 3
    MaxCalls = 2
    MaxAccepts = 1
    MaxFaults = 1
    Dials <- MCDials
INVARIANTS TypeOK RecordedOnce MicOff StopsRinging
PROPERTY CallsEnd
CHECK_DEADLOCK FALSE
