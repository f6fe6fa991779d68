\* The server loses the account once, the apps are closed and opened: two
\* devices, two entities, any device edits any entity.
CONSTANTS
    d1 = d1
    d2 = d2
    e1 = e1
    e2 = e2
    Device = {d1, d2}
    Entity = {e1, e2}
    OwnProfile = OwnProfile
    Profile = {OwnProfile}
    AccountScope = AccountScope
    ProfileOf <- MCProfileOf
    Gone = Gone
    good = good
    bad = bad
    Value = {good, bad}
    Bad = {bad}
    Body <- SealedBody
    Writer <- AnyWriter
    Faults = {"restart", "account"}
    MaxActiveDevices = 2
    MaxEnrollments = 2
    PullLimit = 1
    GcMaxRows = 1
    QuotaRows = 4
    MaxPush = 1
    PoisonMax = 2
    MaxEdits = 2
    MaxRevision = 3
    MaxSequence = 3
    MaxEpoch = 2
SYMMETRY Symmetry
SPECIFICATION Spec
INVARIANTS
    HeadsAreTrue
CHECK_DEADLOCK FALSE
