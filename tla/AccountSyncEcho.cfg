\* Nothing fails: the user edits while a pass is under way.
CONSTANTS
    d1 = d1
    d2 = d2
    e1 = e1
    e2 = e2
    Device = {d1, d2}
    Entity = {e1}
    OwnProfile = OwnProfile
    Profile = {OwnProfile}
    AccountScope = AccountScope
    ProfileOf <- MCProfileOf
    Gone = Gone
    good = good
    bad = bad
    Value = {good, bad}
    Bad = {}
    Body <- SealedBody
    Writer <- AnyWriter
    Faults = {}
    MaxActiveDevices = 2
    MaxEnrollments = 2
    PullLimit = 1
    GcMaxRows = 1
    QuotaRows = 4
    MaxPush = 1
    PoisonMax = 2
    MaxEdits = 3
    MaxRevision = 3
    MaxSequence = 4
    MaxEpoch = 1
SPECIFICATION Spec
PROPERTIES
    EchoKeepsLocalEdit
CHECK_DEADLOCK FALSE
