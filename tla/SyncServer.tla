----------------------------- MODULE SyncServer -----------------------------
(***************************************************************************)
(* The account-sync half of the cloud vault (server/cloud-vault):          *)
(* SyncDatabase.push, pull, ensureDevice, revokeDevice and the compaction  *)
(* that runs inside push and pull, for one account.                        *)
(*                                                                         *)
(* Every HTTP handler is synchronous (node:sqlite's DatabaseSync): the     *)
(* authentication of a request and the transaction it asks for run with no *)
(* other request between them, so one handler is one action here.          *)
(*                                                                         *)
(* A mutation's id is the pair (entity, revision): every client derives    *)
(* mutationId from exactly those two (liveAccountSync.ts, collectPending). *)
(* What a row carries besides its id - ciphertext, updatedAt, deleted      *)
(* flag - is its body, and the server only ever compares bodies.           *)
(***************************************************************************)
EXTENDS Integers, FiniteSets

CONSTANTS
    Device,             \* devices holding the seed phrase of this account
    Entity,             \* (kind, id, profile) triples
    Profile,            \* local profiles of the account, all >= 1 in the code
    AccountScope,       \* owner_profile_id 0: a pull that names no profile
    ProfileOf,          \* the profile an entity belongs to
    Body,               \* what a mutation carries besides entity and revision
    MaxActiveDevices,   \* SYNC_MAX_ACTIVE_DEVICES
    MaxEnrollments,     \* enrollments allowed per window
    PullLimit,          \* rows per pull response
    GcMaxRows,          \* rows one compaction may delete
    QuotaRows,          \* SYNC_MAX_ACCOUNT_BYTES, in rows of equal size
    MaxRevision,        \* bound: revisions a client may number
    MaxSequence,        \* bound: mutations the account may accept
    MaxEpoch            \* bound: times the account may be created

ASSUME ServerAssumption ==
    /\ IsFiniteSet(Device) /\ IsFiniteSet(Entity)
    /\ AccountScope \notin Profile
    /\ ProfileOf \in [Entity -> Profile]
    /\ MaxActiveDevices \in Nat \ {0} /\ MaxEnrollments \in Nat \ {0}
    /\ PullLimit \in Nat \ {0} /\ GcMaxRows \in Nat \ {0}
    /\ QuotaRows \in Nat /\ MaxRevision \in Nat
    /\ MaxSequence \in Nat /\ MaxEpoch \in Nat

VARIABLES
    live,       \* the account's row exists
    epoch,      \* which creation of the account this is (accountEpoch)
    dev,        \* sync_devices: none, active, idle (last seen before the cutoff), revoked
    recent,     \* enrollments still inside the rate window
    log,        \* sync_mutations
    heads,      \* sync_entity_heads: last accepted revision and its sequence
    lastSeq,    \* sync_accounts.last_mutation_sequence
    ack         \* sync_device_cursors: device, scope -> cursor

serverVars == <<live, epoch, dev, recent, log, heads, lastSeq, ack>>

Scope == Profile \cup {AccountScope}
Revision == 1..MaxRevision
DeviceState == {"none", "active", "idle", "revoked"}

\* A mutation as a client sends it, and as a row of sync_mutations.
Mutation == [ent: Entity, rev: Revision, body: Body]
Row == [ent: Entity, rev: Revision, body: Body, seq: Nat]

\* collectPending writes at most one mutation per entity into a push.
Batch == {b \in SUBSET Mutation : \A m, n \in b : m.ent = n.ent => m = n}

NoHead == [rev |-> 0, seq |-> 0]

TypeOK ==
    /\ live \in BOOLEAN
    /\ epoch \in Nat
    /\ dev \in [Device -> DeviceState]
    /\ recent \in Nat
    /\ log \in SUBSET Row
    /\ heads \in [Entity -> [rev: Nat, seq: Nat]]
    /\ lastSeq \in Nat
    /\ ack \in [Device -> [Scope -> Nat]]

ServerInit ==
    /\ live = FALSE
    /\ epoch = 0
    /\ dev = [d \in Device |-> "none"]
    /\ recent = 0
    /\ log = {}
    /\ heads = [e \in Entity |-> NoHead]
    /\ lastSeq = 0
    /\ ack = [d \in Device |-> [s \in Scope |-> 0]]

-----------------------------------------------------------------------------
(* Devices.                                                                *)

Active(devs) == {d \in Device : devs[d] = "active"}

\* Room for d under the active-device limit, d itself not counted.
HasRoom(d) == Cardinality(Active(dev) \ {d}) < MaxActiveDevices

\* Broken on purpose: an idle device comes back whatever the limit says.
AdmitsIdleAnyway(d, allowCreate) ==
    \/ dev[d] \in {"active", "idle"}
    \/ dev[d] = "none" /\ allowCreate /\ HasRoom(d) /\ recent < MaxEnrollments

\* Broken on purpose: a revoked device is let in like an idle one.
AdmitsRevoked(d, allowCreate) ==
    \/ dev[d] = "active"
    \/ dev[d] \in {"idle", "revoked"} /\ HasRoom(d)
    \/ dev[d] = "none" /\ allowCreate /\ HasRoom(d) /\ recent < MaxEnrollments

\* ensureDevice: a revoked device never passes, an idle one only under the
\* limit, an unknown one only at enrollment, under the limit and the window.
Admits(d, allowCreate) ==
    \/ dev[d] = "active"
    \/ dev[d] = "idle" /\ HasRoom(d)
    \/ /\ dev[d] = "none"
       /\ allowCreate
       /\ HasRoom(d)
       /\ recent < MaxEnrollments

\* The device registry once a request of d has been let in: last_seen_at is
\* now, so the device counts as active from here on.
Seen(d) == [dev EXCEPT ![d] = "active"]

\* authenticateSyncRequest: the account is only found, never created here.
Authentic(d) == live /\ Admits(d, FALSE)

\* authenticateDeviceEnrollment: creates the account when it is not there,
\* then the device.
Enroll(d) ==
    /\ Admits(d, TRUE)
    /\ epoch < MaxEpoch \/ live
    /\ live' = TRUE
    /\ epoch' = IF live THEN epoch ELSE epoch + 1
    /\ dev' = Seen(d)
    /\ recent' = IF dev[d] = "none" THEN recent + 1 ELSE recent
    /\ UNCHANGED <<log, heads, lastSeq, ack>>

\* A device other than the target asks for the revocation; the target may be
\* in any state, and revokeDevice does nothing to one already revoked.
Revoke(by, d) ==
    /\ by # d
    /\ Authentic(by)
    /\ dev' = [Seen(by) EXCEPT ![d] = IF @ = "none" THEN @ ELSE "revoked"]
    /\ UNCHANGED <<live, epoch, recent, log, heads, lastSeq, ack>>

\* The idle TTL passes with no request of d.
GoIdle(d) ==
    /\ dev[d] = "active"
    /\ dev' = [dev EXCEPT ![d] = "idle"]
    /\ UNCHANGED <<live, epoch, recent, log, heads, lastSeq, ack>>

\* Broken on purpose: the count of enrollments may fall below zero.
WindowUnderflows ==
    /\ recent' = recent - 1
    /\ UNCHANGED <<live, epoch, dev, log, heads, lastSeq, ack>>

\* The oldest enrollment leaves the rate window. Revoking a device does not.
WindowPasses ==
    /\ recent > 0
    /\ recent' = recent - 1
    /\ UNCHANGED <<live, epoch, dev, log, heads, lastSeq, ack>>

-----------------------------------------------------------------------------
(* Compaction.                                                             *)

\* Broken on purpose: the cursor of any one scope counts for the account.
AcknowledgedInSomeScope(r, devs, acks) ==
    /\ Active(devs) # {}
    /\ \A d \in Active(devs) : \E s \in Scope : r.seq <= acks[d][s]

\* Every active device's account-wide cursor has passed the row, and some
\* device is active. Cursors of profile-scoped pulls are not consulted.
Acknowledged(r, devs, acks) ==
    /\ Active(devs) # {}
    /\ \A d \in Active(devs) : r.seq <= acks[d][AccountScope]

\* compactSyncMutationsInTransaction: the oldest acknowledged rows go, at
\* most GcMaxRows of them.
Compact(rows, devs, acks) ==
    {r \in rows :
        \/ ~Acknowledged(r, devs, acks)
        \/ Cardinality({q \in rows : q.seq < r.seq}) >= GcMaxRows}

-----------------------------------------------------------------------------
(* Push.                                                                   *)

SameId(m, n) == m.ent = n.ent /\ m.rev = n.rev

\* The row already stored under the mutation's id, compaction done.
Stored(m, rows) == {r \in rows : SameId(r, m)}

\* A stored row with the same id and anything else different: the whole push
\* is rolled back with sync_mutation_conflict (HTTP 409).
Conflicts(b, rows) == \E m \in b : \E r \in Stored(m, rows) : r.body # m.body

\* Broken on purpose: staleness is judged by the stored rows alone.
FreshByLogOnly(b, rows) == {m \in b : Stored(m, rows) = {}}

\* Neither stored nor at or below the entity's head: what the push appends.
Fresh(b, rows) ==
    {m \in b : Stored(m, rows) = {} /\ m.rev > heads[m.ent].rev}

\* sync_account_quota (HTTP 413), again for the whole push.
OverQuota(b, rows) ==
    /\ Fresh(b, rows) # {}
    /\ Cardinality(rows) + Cardinality(Fresh(b, rows)) > QuotaRows

\* acceptedMutationIds of the response; the rest of the batch is rejected.
Accepted(b, rows) == {m \in b : Stored(m, rows) # {}} \cup Fresh(b, rows)

\* Sequence numbers for the appended rows, in the order of the batch.
Numbering(new) ==
    {pos \in [new -> (lastSeq + 1)..(lastSeq + Cardinality(new))] :
        \A m, n \in new : pos[m] = pos[n] => m = n}

AppendRows(new, pos) ==
    {[ent |-> m.ent, rev |-> m.rev, body |-> m.body, seq |-> pos[m]] : m \in new}

PushTaken(d, b) ==
    LET rows == Compact(log, Seen(d), ack)
        new == Fresh(b, rows)
    IN  /\ Authentic(d)
        /\ ~Conflicts(b, rows)
        /\ ~OverQuota(b, rows)
        /\ lastSeq + Cardinality(new) <= MaxSequence
        /\ \E pos \in Numbering(new) :
              /\ log' = rows \cup AppendRows(new, pos)
              /\ heads' = [e \in Entity |->
                    IF \E m \in new : m.ent = e
                    THEN LET m == CHOOSE m \in new : m.ent = e
                         IN  [rev |-> m.rev, seq |-> pos[m]]
                    ELSE heads[e]]
        /\ lastSeq' = lastSeq + Cardinality(new)
        /\ dev' = Seen(d)
        /\ UNCHANGED <<live, epoch, recent, ack>>

\* A push thrown back by a conflict or the quota. The transaction is undone,
\* its compaction included; that the device was seen is not.
PushRefused(d, b) ==
    LET rows == Compact(log, Seen(d), ack)
    IN  /\ Authentic(d)
        /\ Conflicts(b, rows) \/ OverQuota(b, rows)
        /\ dev' = Seen(d)
        /\ UNCHANGED <<live, epoch, recent, log, heads, lastSeq, ack>>

-----------------------------------------------------------------------------
(* Pull.                                                                   *)

\* Broken on purpose: the cursor of the request is believed.
AfterAsSent(cursor) == cursor

\* A cursor beyond the log is pulled back to its end.
After(cursor) == IF cursor < lastSeq THEN cursor ELSE lastSeq

Beyond(scope, after) ==
    {r \in log : /\ r.seq > after
                 /\ scope = AccountScope \/ ProfileOf[r.ent] = scope}

\* The first PullLimit rows of the scope past the cursor.
Page(scope, cursor) ==
    LET rows == Beyond(scope, After(cursor))
    IN  {r \in rows : Cardinality({q \in rows : q.seq < r.seq}) < PullLimit}

NextCursor(scope, cursor) ==
    LET page == Page(scope, cursor)
    IN  IF page = {} THEN After(cursor)
        ELSE CHOOSE n \in {r.seq : r \in page} : \A r \in page : r.seq <= n

HasMore(scope, cursor) == Beyond(scope, NextCursor(scope, cursor)) # {}

\* The cursor the response carries is recorded for the device, and the log is
\* compacted by it, in the transaction that reads the page: before the device
\* can have received a single row of it.
Pull(d, scope, cursor) ==
    LET next == NextCursor(scope, cursor)
        acks == [ack EXCEPT ![d][scope] = IF @ < next THEN next ELSE @]
    IN  /\ Authentic(d)
        /\ ack' = acks
        /\ log' = Compact(log, Seen(d), acks)
        /\ dev' = Seen(d)
        /\ UNCHANGED <<live, epoch, recent, heads, lastSeq>>

-----------------------------------------------------------------------------
\* The operator loses the database: the account goes with everything that
\* hangs on it. The next enrollment creates it anew, under another epoch and
\* with sequences counted from the start.
LoseAccount ==
    /\ live
    /\ epoch < MaxEpoch
    /\ live' = FALSE
    /\ dev' = [d \in Device |-> "none"]
    /\ recent' = 0
    /\ log' = {}
    /\ heads' = [e \in Entity |-> NoHead]
    /\ lastSeq' = 0
    /\ ack' = [d \in Device |-> [s \in Scope |-> 0]]
    /\ UNCHANGED epoch

DeviceRequest(d) ==
    \/ Enroll(d)
    \/ \E by \in Device : Revoke(by, d)
    \/ \E b \in Batch : PushTaken(d, b)
    \/ \E b \in Batch : PushRefused(d, b)
    \/ \E scope \in Scope, cursor \in 0..MaxSequence : Pull(d, scope, cursor)

Passage == WindowPasses \/ LoseAccount \/ \E d \in Device : GoIdle(d)

ServerNext == Passage \/ \E d \in Device : DeviceRequest(d)

ServerSpec == ServerInit /\ [][ServerNext]_serverVars

-----------------------------------------------------------------------------
(* Properties.                                                             *)

\* Reading the log in sequence order replays every entity in the order of its
\* revisions, no id is stored twice, and the head of an entity is at or past
\* everything stored of it: push decides staleness by the head alone, after
\* compaction may have taken the rows the head stands for.
LogFollowsHeads ==
    /\ \A r \in log : /\ r.seq \in 1..lastSeq
                      /\ r.rev <= heads[r.ent].rev
                      /\ r.seq <= heads[r.ent].seq
    /\ \A r, q \in log : r.seq = q.seq => r = q
    /\ \A r, q \in log : r.ent = q.ent => (r.seq < q.seq <=> r.rev < q.rev)
    /\ \A e \in Entity : heads[e].seq <= lastSeq

\* However devices fall idle, return, are revoked and replaced, no more than
\* MaxActiveDevices of them are active at once: a device returning after the
\* idle TTL competes for its place again (ensureDevice).
ActiveDevicesLimited == Cardinality(Active(dev)) <= MaxActiveDevices

\* No device is ever credited with a sequence the account has not reached,
\* whatever cursor it sends: a cursor past the end would count as an
\* acknowledgement of rows not yet written, and compaction would drop them.
NoAcknowledgementAhead == \A d \in Device, s \in Scope : ack[d][s] <= lastSeq

\* Compaction never takes a row that a device active at that moment has not
\* been served: not when a slower device returns from idleness, nor when only
\* profile-scoped cursors have advanced.
CompactionWaitsForActive ==
    [][live' => \A r \in log \ log' : \A d \in Active(dev') :
                    r.seq <= ack'[d][AccountScope]]_serverVars

\* Within one creation of the account a revoked device neither comes back nor
\* moves its cursor, and no entity's head ever goes down, deletions included.
RevocationAndHeadsAreFinal ==
    [][live' /\ epoch' = epoch =>
          /\ \A d \in Device : dev[d] = "revoked" =>
                dev'[d] = "revoked" /\ ack'[d] = ack[d]
          /\ \A e \in Entity : heads'[e].rev >= heads[e].rev]_serverVars
=============================================================================
