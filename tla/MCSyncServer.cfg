\* Two devices, two profiles with one entity each, at most one device active.
CONSTANTS
    Device = {d1, d2}
    p1 = p1
    p2 = p2
    e1 = e1
    e2 = e2
    Profile = {p1, p2}
    Entity = {e1, e2}
    AccountScope = AccountScope
    ProfileOf <- MCProfileOf
    Body = {b1, b2}
    MaxActiveDevices = 1
    MaxEnrollments = 2
    PullLimit = 1
    GcMaxRows = 1
    QuotaRows = 2
    MaxRevision = 2
    MaxSequence = 2
    MaxEpoch = 2
SYMMETRY Symmetry
SPECIFICATION ServerSpec
INVARIANTS
    LogFollowsHeads
    ActiveDevicesLimited
    NoAcknowledgementAhead
PROPERTIES
    CompactionWaitsForActive
    RevocationAndHeadsAreFinal
CHECK_DEADLOCK FALSE
