\* Two devices edit one entity while answers get lost, runs are cancelled,
\* the app is killed, the database is busy, and one content can never be
\* imported.
CONSTANTS
    d1 = d1
    d2 = d2
    e1 = e1
    e2 = e2
    Device = {d1, d2}
    Entity = {e1}
    OwnProfile = OwnProfile
    Profile = {OwnProfile}
    AccountScope = AccountScope
    ProfileOf <- MCProfileOf
    Gone = Gone
    good = good
    bad = bad
    Value = {good, bad}
    Bad = {bad}
    Body <- SealedBody
    Writer <- AnyWriter
    Faults = {"crash", "cancel", "lost", "busy"}
    MaxActiveDevices = 2
    MaxEnrollments = 2
    PullLimit = 1
    GcMaxRows = 1
    QuotaRows = 4
    MaxPush = 1
    PoisonMax = 2
    MaxEdits = 3
    MaxRevision = 2
    MaxSequence = 3
    MaxEpoch = 1
SYMMETRY Symmetry
SPECIFICATION Spec
INVARIANTS
    ClientTypeOK
    NoRowSkipped
    SettledShowsNewest
PROPERTIES
    NoRollback
CHECK_DEADLOCK FALSE
