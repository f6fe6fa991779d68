\* Every entity has one writing device; requests may fail to leave. The bounds
\* on revisions and sequences are above what the edits can use.
CONSTANTS
    d1 = d1
    d2 = d2
    e1 = e1
    e2 = e2
    Device = {d1, d2}
    Entity = {e1, e2}
    OwnProfile = OwnProfile
    Profile = {OwnProfile}
    AccountScope = AccountScope
    ProfileOf <- MCProfileOf
    Gone = Gone
    good = good
    bad = bad
    Value = {good, bad}
    Bad = {}
    Body <- SealedBody
    Writer <- OneWriter
    Faults = {"offline"}
    MaxActiveDevices = 2
    MaxEnrollments = 2
    PullLimit = 1
    GcMaxRows = 1
    QuotaRows = 4
    MaxPush = 1
    PoisonMax = 2
    MaxEdits = 2
    MaxRevision = 4
    MaxSequence = 5
    MaxEpoch = 1
SPECIFICATION FairSpec
PROPERTIES
    Convergence
CHECK_DEADLOCK FALSE
