\* A message of one profile to a contact, and one of another to a group; one
\* switch, one death, two failures.
CONSTANTS
    p1 = p1
    p2 = p2
    Profile = {p1, p2}
    NoOne = NoOne
    Messages = 2
    Owner <- OwnerOf
    Group = {2}
    Unreadable = {}
    Abandon = 2
    MaxSwitches = 1
    MaxKills = 1
    MaxFailures = 2
SPECIFICATION FairSpec
INVARIANTS
    RepeatNeedsFault
    NothingVanishes
    SentByOwner
PROPERTIES
    DueLeaves
CHECK_DEADLOCK FALSE
