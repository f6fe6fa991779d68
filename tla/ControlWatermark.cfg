\* Three decisions of a contact, delivered five times in any order, with two
\* failures of the database and one loss of memory.
CONSTANTS
    MaxTime = 3
    MaxDeliveries = 5
    MaxFailures = 2
    MaxLosses = 1
    MaxOwn = 1
SPECIFICATION Spec
INVARIANTS
    NewestStands
PROPERTIES
    NoRollback
    RefusalHasReason
CHECK_DEADLOCK FALSE
