------------------------- MODULE AccountSyncProofs -------------------------
(***************************************************************************)
(* Theorems about SyncServer and AccountSync, for any number of devices,   *)
(* profiles, entities and bodies and any limits and bounds.                *)
(*                                                                         *)
(* First the vault by itself: whatever requests arrive, its log, cursors   *)
(* and registry are in order. Then the devices with it: they are type      *)
(* correct, the vault they talk to behaves as SyncServer says, so that     *)
(* what is proved about it holds of the composition, no device is taken    *)
(* back, no row is skipped, and heads are true of what the vault stores.   *)
(***************************************************************************)
EXTENDS AccountSync, FiniteSetTheorems, WellFoundedInduction, TLAPS

-----------------------------------------------------------------------------
(* The vault: SyncServer.                                                  *)

(***************************************************************************)
(* Helpers.                                                                *)
(***************************************************************************)

\* A non-empty set of naturals below a bound has a largest element: what makes
\* the cursor of a non-empty page (nextCursor in pull) well defined.
LEMMA LargestBelow ==
    ASSUME NEW n \in Nat, NEW S \in SUBSET (0..n), S # {}
    PROVE  \E x \in S : \A y \in S : y <= x
  <1> DEFINE T == {n - x : x \in S}
             Less == OpToRel(<, Nat)
  <1>1. T \subseteq Nat
    <2> SUFFICES ASSUME NEW x \in S PROVE n - x \in Nat
      BY Zenon
    <2> QED OBVIOUS
  <1>2. PICK z \in S : TRUE
    OBVIOUS
  <1>3. n - z \in T
    OBVIOUS
  <1>4. IsWellFoundedOn(Less, Nat)
    BY NatLessThanWellFounded
  <1>5. Less = {ss \in Nat \X Nat : ss[1] < ss[2]}
    BY Zenon DEF OpToRel
  <1> HIDE DEF Less
  <1>6. PICK t \in T : \A u \in T : ~(<<u, t>> \in Less)
    <2> T # {} BY <1>3
    <2> HIDE DEF T
    <2> QED BY <1>1, <1>4, WFMin, Zenon
  <1>7. \A u \in T : t <= u
    <2> HIDE DEF T
    <2> SUFFICES ASSUME NEW u \in T, u < t PROVE FALSE
      BY <1>1
    <2>1. <<u, t>> \in Less
      BY <1>1, <1>5
    <2> QED BY <2>1, <1>6
  <1>8. PICK x \in S : t = n - x
    BY DEF T
  <1>9. ASSUME NEW y \in S PROVE y <= x
    <2>1. n - y \in T
      OBVIOUS
    <2>2. n - x <= n - y
      BY <1>7, <1>8, <2>1
    <2>3. x \in Int /\ y \in Int
      BY <1>8
    <2> HIDE DEF T
    <2> QED BY <2>2, <2>3
  <1> QED BY <1>9

\* A push is finite: it has at most one mutation per entity.
LEMMA BatchFinite ==
    ASSUME NEW b \in Batch, NEW c \in SUBSET b
    PROVE  IsFiniteSet(c) /\ Cardinality(c) \in Nat
  <1> DEFINE f == [m \in b |-> m.ent]
  <1>1. f \in [b -> Entity] /\ \A m, n \in b : f[m] = f[n] => m = n
    BY DEF Batch, Mutation
  <1>2. f \in Injection(b, Entity)
    BY <1>1 DEF Injection, IsInjective
  <1>3. IsFiniteSet(b)
    BY <1>2, FS_Injection, ServerAssumption
  <1> QED BY <1>3, FS_Subset, FS_CardinalityType

\* A page's rows lie in the log, and the cursor it hands back never goes past
\* the end of the log, whatever cursor was sent.
LEMMA NextCursorBounded ==
    ASSUME TypeOK, LogFollowsHeads,
           NEW scope \in Scope, NEW sent \in Nat
    PROVE  NextCursor(scope, sent) \in 0..lastSeq
  <1> DEFINE page == Page(scope, sent)
             seqs == {r.seq : r \in page}
  <1>1. After(sent) \in 0..lastSeq
    BY DEF After, TypeOK
  <1>2. page \subseteq log
    BY DEF Page, Beyond
  <1>3. \A r \in log : r.seq \in 1..lastSeq
    BY DEF LogFollowsHeads
  <1>4. seqs \subseteq 0..lastSeq
    BY <1>2, <1>3 DEF TypeOK
  <1>5. CASE page = {}
    BY <1>1, <1>5 DEF NextCursor
  <1>6. CASE page # {}
    <2>1. \E n \in seqs : \A m \in seqs : m <= n
      BY <1>4, <1>6, LargestBelow DEF TypeOK
    <2>2. \E n \in seqs : \A r \in page : r.seq <= n
      BY <2>1
    <2>3. NextCursor(scope, sent) \in seqs
      BY <1>6, <2>2 DEF NextCursor
    <2> QED BY <2>3, <1>4
  <1> QED BY <1>5, <1>6

(***************************************************************************)
(* The inductive invariant. TypeOK needs the two others: that the cursor   *)
(* recorded by a pull is a natural number rests on the rows of the log     *)
(* lying within 1..lastSeq.                                                *)
(***************************************************************************)
IInv == TypeOK /\ LogFollowsHeads /\ NoAcknowledgementAhead

\* Taking rows out of the log, as compaction does, leaves the rest in order.
LEMMA LogMayShrink ==
    ASSUME LogFollowsHeads, log' \subseteq log, UNCHANGED <<heads, lastSeq>>
    PROVE  LogFollowsHeads'
  BY DEF LogFollowsHeads

\* An empty vault satisfies the inductive invariant.
LEMMA InitIInv == ServerInit => IInv
  <1> SUFFICES ASSUME ServerInit PROVE IInv
    OBVIOUS
  <1>1. TypeOK
    BY DEF ServerInit, TypeOK, NoHead, DeviceState
  <1>2. LogFollowsHeads
    BY DEF ServerInit, LogFollowsHeads, NoHead
  <1>3. NoAcknowledgementAhead
    BY DEF ServerInit, NoAcknowledgementAhead
  <1> QED BY <1>1, <1>2, <1>3 DEF IInv

\* Marking a device as seen just now (last_seen_at) keeps the registry typed.
LEMMA SeenType ==
    ASSUME TypeOK, NEW d \in Device
    PROVE  Seen(d) \in [Device -> DeviceState]
  BY DEF TypeOK, Seen, DeviceState

\* An enrollment may create the account; it touches neither log nor cursors.
LEMMA EnrollIInv ==
    ASSUME IInv, NEW d \in Device, Enroll(d)
    PROVE  IInv'
  <1>1. TypeOK'
    BY SeenType DEF IInv, TypeOK, Enroll
  <1>2. LogFollowsHeads' /\ NoAcknowledgementAhead'
    BY DEF IInv, LogFollowsHeads, NoAcknowledgementAhead, Enroll
  <1> QED BY <1>1, <1>2 DEF IInv

\* A step that only rewrites the registry and the enrollment window, such as a
\* revocation, keeps the inductive invariant.
LEMMA RegistryIInv ==
    ASSUME IInv, dev' \in [Device -> DeviceState], recent' \in Nat,
           UNCHANGED <<live, epoch, log, heads, lastSeq, ack>>
    PROVE  IInv'
  <1>1. TypeOK'
    BY DEF IInv, TypeOK
  <1>2. LogFollowsHeads' /\ NoAcknowledgementAhead'
    BY DEF IInv, LogFollowsHeads, NoAcknowledgementAhead
  <1> QED BY <1>1, <1>2 DEF IInv

\* With the account every row, head and cursor goes at once, so nothing is left
\* that could refer to what is gone.
LEMMA LoseAccountIInv ==
    ASSUME IInv, LoseAccount
    PROVE  IInv'
  <1>1. TypeOK'
    BY DEF IInv, TypeOK, LoseAccount, NoHead, DeviceState
  <1>2. LogFollowsHeads' /\ NoAcknowledgementAhead'
    BY DEF LogFollowsHeads, NoAcknowledgementAhead, LoseAccount, NoHead
  <1> QED BY <1>1, <1>2 DEF IInv

\* A pull credits the device with the cursor it hands back, which lies within
\* the log, and then only takes rows out.
LEMMA PullIInv ==
    ASSUME IInv, NEW d \in Device, NEW scope \in Scope,
           NEW sent \in 0..MaxSequence, Pull(d, scope, sent)
    PROVE  IInv'
  <1> DEFINE next == NextCursor(scope, sent)
             acks == [ack EXCEPT ![d][scope] = IF @ < next THEN next ELSE @]
  <1>1. next \in 0..lastSeq
    BY NextCursorBounded, ServerAssumption DEF IInv
  <1> HIDE DEF next
  <1>2. ack' = acks /\ log' = Compact(log, Seen(d), acks) /\ dev' = Seen(d)
        /\ UNCHANGED <<live, epoch, recent, heads, lastSeq>>
    BY DEF Pull, next
  <1>3. acks \in [Device -> [Scope -> Nat]]
        /\ \A e \in Device, s \in Scope : acks[e][s] <= lastSeq
    BY <1>1 DEF IInv, TypeOK, NoAcknowledgementAhead
  <1> HIDE DEF acks
  <1>4. log' \subseteq log
    BY <1>2 DEF Compact
  <1>5. TypeOK'
    BY <1>2, <1>3, <1>4, SeenType DEF IInv, TypeOK
  <1>6. LogFollowsHeads'
    BY <1>2, <1>4, LogMayShrink DEF IInv
  <1>7. NoAcknowledgementAhead'
    BY <1>2, <1>3 DEF NoAcknowledgementAhead
  <1> QED BY <1>5, <1>6, <1>7 DEF IInv

\* The rows a push appends are numbered in the order of the batch, above
\* everything stored, and at most one per entity: the log stays ordered and
\* the heads of the entities in the push move to the appended rows.
LEMMA AppendFollowsHeads ==
    ASSUME TypeOK, LogFollowsHeads,
           NEW rows \in SUBSET log, NEW new \in SUBSET Mutation,
           \A m, n \in new : m.ent = n.ent => m = n,
           \A m \in new : m.rev > heads[m.ent].rev,
           NEW k \in Nat, NEW pos \in [new -> (lastSeq + 1)..(lastSeq + k)],
           \A m, n \in new : pos[m] = pos[n] => m = n,
           log' = rows \cup AppendRows(new, pos),
           heads' = [e \in Entity |->
                        IF \E m \in new : m.ent = e
                        THEN LET m == CHOOSE m \in new : m.ent = e
                             IN  [rev |-> m.rev, seq |-> pos[m]]
                        ELSE heads[e]],
           lastSeq' = lastSeq + k
    PROVE  /\ LogFollowsHeads'
           /\ log' \in SUBSET Row
           /\ heads' \in [Entity -> [rev: Nat, seq: Nat]]
           /\ lastSeq' \in Nat
  <1> DEFINE row(m) == [ent |-> m.ent, rev |-> m.rev, body |-> m.body, seq |-> pos[m]]
             app == AppendRows(new, pos)
  <1>0. lastSeq \in Nat /\ log \in SUBSET Row /\ rows \subseteq Row
        /\ heads \in [Entity -> [rev: Nat, seq: Nat]]
    BY DEF TypeOK
  <1>1. \A m \in new : /\ m.ent \in Entity /\ m.body \in Body
                       /\ m.rev \in Revision /\ m.rev \in Nat
                       /\ pos[m] \in Nat /\ pos[m] > lastSeq /\ pos[m] <= lastSeq'
                       /\ pos[m] \in 1..lastSeq'
    BY <1>0, ServerAssumption DEF Mutation, Revision
  <1>2. \A m \in new : heads'[m.ent] = [rev |-> m.rev, seq |-> pos[m]]
    <2> SUFFICES ASSUME NEW m \in new
                 PROVE  heads'[m.ent] = [rev |-> m.rev, seq |-> pos[m]]
      OBVIOUS
    <2>1. (CHOOSE n \in new : n.ent = m.ent) = m
      OBVIOUS
    <2> QED BY <1>1, <2>1
  <1>3. \A e \in Entity : (~\E m \in new : m.ent = e) => heads'[e] = heads[e]
    OBVIOUS
  <1>4. \A r \in app : \E m \in new : r = row(m)
    BY DEF AppendRows
  <1>5. app \subseteq Row
    BY <1>1, <1>4 DEF Row
  <1>6. heads' \in [Entity -> [rev: Nat, seq: Nat]]
    <2>1. \A e \in Entity : heads'[e] \in [rev: Nat, seq: Nat]
      BY <1>0, <1>1, <1>2, <1>3
    <2> QED BY <2>1
  <1>7. \A e \in Entity : /\ heads'[e].rev >= heads[e].rev
                          /\ heads'[e].seq >= heads[e].seq
                          /\ heads'[e].seq <= lastSeq'
    <2> SUFFICES ASSUME NEW e \in Entity
                 PROVE  /\ heads'[e].rev >= heads[e].rev
                        /\ heads'[e].seq >= heads[e].seq
                        /\ heads'[e].seq <= lastSeq'
      OBVIOUS
    <2>1. heads[e].rev \in Nat /\ heads[e].seq \in Nat /\ heads[e].seq <= lastSeq
      BY <1>0 DEF LogFollowsHeads
    <2>2. CASE \E m \in new : m.ent = e
      BY <1>0, <1>1, <1>2, <2>1, <2>2
    <2>3. CASE ~\E m \in new : m.ent = e
      BY <1>0, <1>3, <2>1, <2>3
    <2> QED BY <2>2, <2>3
  <1> DEFINE Old(r) == /\ r.ent \in Entity /\ r.rev \in Nat /\ r.seq \in Nat
                       /\ r.seq \in 1..lastSeq
                       /\ r.rev <= heads[r.ent].rev /\ r.seq <= heads[r.ent].seq
             New(r) == /\ r.ent \in Entity /\ r.rev \in Nat /\ r.seq \in Nat
                       /\ r.seq \in 1..lastSeq' /\ r.seq > lastSeq
                       /\ r.rev > heads[r.ent].rev
                       /\ heads'[r.ent].rev = r.rev /\ heads'[r.ent].seq = r.seq
  <1>8. \A r \in rows : Old(r)
    BY <1>0 DEF LogFollowsHeads, Row, Revision
  <1>9. \A r \in app : New(r)
    <2> SUFFICES ASSUME NEW r \in app PROVE New(r)
      BY Zenon
    <2>1. PICK m \in new : r = row(m)
      BY <1>4
    <2>2. r.ent = m.ent /\ r.rev = m.rev /\ r.seq = pos[m]
      BY <2>1
    <2>3. heads'[r.ent].rev = m.rev /\ heads'[r.ent].seq = pos[m]
      <3> DEFINE head == [rev |-> m.rev, seq |-> pos[m]]
      <3>1. heads'[m.ent] = head
        BY <1>2
      <3>2. head.rev = m.rev /\ head.seq = pos[m]
        OBVIOUS
      <3> HIDE DEF head
      <3> QED BY <2>2, <3>1, <3>2, Zenon
    <2> QED BY <1>1, <2>2, <2>3
  <1>10. \A r \in log' : /\ r.seq \in 1..lastSeq'
                         /\ r.rev <= heads'[r.ent].rev
                         /\ r.seq <= heads'[r.ent].seq
    <2> SUFFICES ASSUME NEW r \in log'
                 PROVE  /\ r.seq \in 1..lastSeq'
                        /\ r.rev <= heads'[r.ent].rev
                        /\ r.seq <= heads'[r.ent].seq
      OBVIOUS
    <2>1. CASE r \in rows
      <3>1. Old(r) BY <1>8, <2>1
      <3>2. heads[r.ent] \in [rev: Nat, seq: Nat] /\ heads'[r.ent] \in [rev: Nat, seq: Nat]
        BY <3>1, <1>0, <1>6
      <3> QED BY <3>1, <3>2, <1>0, <1>7
    <2>2. CASE r \in app
      <3>1. New(r) BY <1>9, <2>2
      <3> QED BY <3>1
    <2> QED BY <2>1, <2>2
  <1>11. \A r, q \in app : r.seq = q.seq => r = q
    BY <1>4
  <1>12. \A r, q \in app : r.ent = q.ent => r = q
    BY <1>4
  <1>13. \A r, q \in log' : r.seq = q.seq => r = q
    <2> SUFFICES ASSUME NEW r \in log', NEW q \in log', r.seq = q.seq
                 PROVE  r = q
      OBVIOUS
    <2>1. CASE r \in rows /\ q \in rows
      BY <2>1 DEF LogFollowsHeads
    <2>2. CASE r \in app /\ q \in app
      BY <2>2, <1>11
    <2>3. CASE r \in rows /\ q \in app
      <3>1. Old(r) /\ New(q) BY <2>3, <1>8, <1>9
      <3> QED BY <3>1, <1>0
    <2>4. CASE r \in app /\ q \in rows
      <3>1. New(r) /\ Old(q) BY <2>4, <1>8, <1>9
      <3> QED BY <3>1, <1>0
    <2> QED BY <2>1, <2>2, <2>3, <2>4
  <1>14. \A r, q \in log' : r.ent = q.ent => (r.seq < q.seq <=> r.rev < q.rev)
    <2> SUFFICES ASSUME NEW r \in log', NEW q \in log', r.ent = q.ent
                 PROVE  r.seq < q.seq <=> r.rev < q.rev
      OBVIOUS
    <2>0. heads[r.ent].rev \in Nat \/ r.ent \notin Entity
      BY <1>0
    <2>1. CASE r \in rows /\ q \in rows
      BY <2>1 DEF LogFollowsHeads
    <2>2. CASE r \in app /\ q \in app
      <3>1. r = q BY <2>2, <1>12
      <3> QED BY <3>1, <1>5, <2>2 DEF Row, Revision
    <2>3. CASE r \in rows /\ q \in app
      <3>1. Old(r) /\ New(q) BY <2>3, <1>8, <1>9
      <3> QED BY <3>1, <2>0, <1>0
    <2>4. CASE r \in app /\ q \in rows
      <3>1. New(r) /\ Old(q) BY <2>4, <1>8, <1>9
      <3> QED BY <3>1, <2>0, <1>0
    <2> QED BY <2>1, <2>2, <2>3, <2>4
  <1>15. LogFollowsHeads'
    BY <1>7, <1>10, <1>13, <1>14 DEF LogFollowsHeads
  <1> QED BY <1>0, <1>5, <1>6, <1>15

\* A push that is taken keeps the inductive invariant: what compaction leaves
\* is in order, and what is appended comes after it.
LEMMA PushIInv ==
    ASSUME IInv, NEW d \in Device, NEW b \in Batch, PushTaken(d, b)
    PROVE  IInv'
  <1> DEFINE rows == Compact(log, Seen(d), ack)
             new == Fresh(b, rows)
             k == Cardinality(new)
  <1>1. rows \in SUBSET log
    BY DEF Compact
  <1>2. new \in SUBSET b /\ new \in SUBSET Mutation
        /\ \A m, n \in new : m.ent = n.ent => m = n
    BY DEF Fresh, Batch
  <1>3. \A m \in new : m.rev > heads[m.ent].rev
    BY DEF Fresh
  <1>4. k \in Nat
    BY <1>2, BatchFinite
  <1>5. PICK pos \in Numbering(new) :
            /\ log' = rows \cup AppendRows(new, pos)
            /\ heads' = [e \in Entity |->
                  IF \E m \in new : m.ent = e
                  THEN LET m == CHOOSE m \in new : m.ent = e
                       IN  [rev |-> m.rev, seq |-> pos[m]]
                  ELSE heads[e]]
    BY DEF PushTaken
  <1>6. /\ lastSeq' = lastSeq + k /\ dev' = Seen(d)
        /\ UNCHANGED <<live, epoch, recent, ack>>
    BY DEF PushTaken
  <1>7. pos \in [new -> (lastSeq + 1)..(lastSeq + k)]
        /\ \A m, n \in new : pos[m] = pos[n] => m = n
    BY <1>5 DEF Numbering
  <1> HIDE DEF rows, new, k
  <1>8. /\ LogFollowsHeads' /\ log' \in SUBSET Row
        /\ heads' \in [Entity -> [rev: Nat, seq: Nat]] /\ lastSeq' \in Nat
    BY <1>1, <1>2, <1>3, <1>4, <1>5, <1>6, <1>7, AppendFollowsHeads DEF IInv
  <1>9. TypeOK'
    BY <1>6, <1>8, SeenType DEF IInv, TypeOK
  <1>10. NoAcknowledgementAhead'
    <2>1. lastSeq \in Nat /\ ack \in [Device -> [Scope -> Nat]]
          /\ \A e \in Device, s \in Scope : ack[e][s] <= lastSeq
      BY DEF IInv, TypeOK, NoAcknowledgementAhead
    <2> QED BY <1>4, <1>6, <2>1 DEF NoAcknowledgementAhead
  <1> QED BY <1>8, <1>9, <1>10 DEF IInv

\* Every step of the vault keeps the inductive invariant.
LEMMA StepIInv == IInv /\ [ServerNext]_serverVars => IInv'
  <1> SUFFICES ASSUME IInv, [ServerNext]_serverVars PROVE IInv'
    OBVIOUS
  <1>0. dev \in [Device -> DeviceState] /\ recent \in Nat
    BY DEF IInv, TypeOK
  <1>1. CASE WindowPasses
    BY <1>0, <1>1, RegistryIInv DEF WindowPasses
  <1>2. CASE LoseAccount
    BY <1>2, LoseAccountIInv
  <1>3. ASSUME NEW d \in Device, GoIdle(d) PROVE IInv'
    <2>1. dev' \in [Device -> DeviceState]
      BY <1>0, <1>3 DEF GoIdle, DeviceState
    <2> QED BY <1>0, <1>3, <2>1, RegistryIInv DEF GoIdle
  <1>4. ASSUME NEW d \in Device, DeviceRequest(d) PROVE IInv'
    <2>1. CASE Enroll(d)
      BY <2>1, EnrollIInv
    <2>2. ASSUME NEW by \in Device, Revoke(by, d) PROVE IInv'
      <3>1. dev' \in [Device -> DeviceState]
        BY <2>2, SeenType DEF Revoke, DeviceState, IInv
      <3> QED BY <1>0, <2>2, <3>1, RegistryIInv DEF Revoke
    <2>3. ASSUME NEW b \in Batch, PushTaken(d, b) PROVE IInv'
      BY <2>3, PushIInv
    <2>4. ASSUME NEW b \in Batch, PushRefused(d, b) PROVE IInv'
      <3>1. dev' \in [Device -> DeviceState]
        BY <2>4, SeenType DEF PushRefused, IInv
      <3> QED BY <1>0, <2>4, <3>1, RegistryIInv DEF PushRefused
    <2>5. ASSUME NEW scope \in Scope, NEW sent \in 0..MaxSequence,
                 Pull(d, scope, sent)
          PROVE  IInv'
      BY <2>5, PullIInv
    <2> QED BY <1>4, <2>1, <2>2, <2>3, <2>4, <2>5 DEF DeviceRequest
  <1>5. CASE UNCHANGED serverVars
    BY <1>0, <1>5, RegistryIInv DEF serverVars
  <1> QED BY <1>1, <1>2, <1>3, <1>4, <1>5 DEF ServerNext, Passage

\* The inductive invariant holds of every behaviour of the vault.
THEOREM Invariance == ServerSpec => []IInv
  BY InitIInv, StepIInv, PTL DEF ServerSpec

\* SyncServer is type correct: in particular no cursor a device sends makes
\* the vault record anything but a natural number.
THEOREM TypeCorrect == ServerSpec => []TypeOK
  <1>1. IInv => TypeOK
    BY DEF IInv
  <1> QED BY <1>1, Invariance, PTL

\* The log replays every entity in revision order and never outruns the heads
\* by which push decides what is stale (push, compaction).
THEOREM LogOrdered == ServerSpec => []LogFollowsHeads
  <1>1. IInv => LogFollowsHeads
    BY DEF IInv
  <1> QED BY <1>1, Invariance, PTL

\* No device is credited with rows that are not yet written, whatever cursor
\* its requests carry (pull).
THEOREM NoneAhead == ServerSpec => []NoAcknowledgementAhead
  <1>1. IInv => NoAcknowledgementAhead
    BY DEF IInv
  <1> QED BY <1>1, Invariance, PTL

(***************************************************************************)
(* The limit on active devices is inductive once the registry is typed.    *)
(***************************************************************************)

\* The set of active devices is finite, and a smaller one counts no more.
LEMMA FewerActive ==
    ASSUME NEW devs, NEW S, S \subseteq Active(devs)
    PROVE  /\ IsFiniteSet(S) /\ Cardinality(S) \in Nat
           /\ Cardinality(Active(devs)) \in Nat
           /\ Cardinality(S) <= Cardinality(Active(devs))
  <1>1. IsFiniteSet(Active(devs))
    BY FS_Subset, ServerAssumption DEF Active
  <1> QED BY <1>1, FS_Subset, FS_CardinalityType

\* Letting a device in keeps the limit: an active one is counted already, any
\* other needs room (ensureDevice).
LEMMA SeenWithinLimit ==
    ASSUME TypeOK, ActiveDevicesLimited, NEW d \in Device,
           NEW allow \in BOOLEAN, Admits(d, allow)
    PROVE  Cardinality(Active(Seen(d))) <= MaxActiveDevices
  <1>1. Active(Seen(d)) = Active(dev) \cup {d}
    BY DEF Active, Seen, TypeOK
  <1>2. CASE d \in Active(dev)
    <2>1. Active(Seen(d)) = Active(dev)
      BY <1>1, <1>2
    <2> QED BY <2>1 DEF ActiveDevicesLimited
  <1>3. CASE d \notin Active(dev)
    <2>1. HasRoom(d)
      BY <1>3 DEF Admits, Active
    <2>2. Active(dev) \ {d} = Active(dev)
      BY <1>3
    <2>3. Cardinality(Active(dev)) < MaxActiveDevices
      BY <2>1, <2>2 DEF HasRoom
    <2>4. IsFiniteSet(Active(dev)) /\ Cardinality(Active(dev)) \in Nat
      BY FewerActive
    <2>5. Cardinality(Active(dev) \cup {d}) = Cardinality(Active(dev)) + 1
      BY <1>3, <2>4, FS_AddElement
    <2> QED BY <1>1, <2>3, <2>4, <2>5, ServerAssumption
  <1> QED BY <1>2, <1>3

\* Only letting a device in can raise the count: whatever else a step does to
\* the registry, the active devices stay among those of some earlier state.
LEMMA LimitStep ==
    ASSUME IInv, ActiveDevicesLimited, [ServerNext]_serverVars
    PROVE  ActiveDevicesLimited'
  <1> USE DEF IInv
  <1>0. dev \in [Device -> DeviceState] /\ Cardinality(Active(dev)) <= MaxActiveDevices
    BY DEF TypeOK, ActiveDevicesLimited
  <1>1. ASSUME NEW devs, Cardinality(Active(devs)) <= MaxActiveDevices,
               Active(dev') \subseteq Active(devs)
        PROVE  ActiveDevicesLimited'
    <2>1. Cardinality(Active(dev')) <= Cardinality(Active(devs))
          /\ Cardinality(Active(dev')) \in Nat /\ Cardinality(Active(devs)) \in Nat
      BY <1>1, FewerActive
    <2>2. Cardinality(Active(dev')) <= MaxActiveDevices
      BY <1>1, <2>1, ServerAssumption
    <2> QED BY <2>2 DEF ActiveDevicesLimited, Active
  <1>2. ASSUME NEW d \in Device, NEW allow \in BOOLEAN, Admits(d, allow), dev' = Seen(d)
        PROVE  ActiveDevicesLimited'
    BY <1>1, <1>2, SeenWithinLimit
  <1>3. ASSUME dev' = dev PROVE ActiveDevicesLimited'
    BY <1>0, <1>1, <1>3
  <1>4. CASE WindowPasses \/ UNCHANGED serverVars
    BY <1>3, <1>4 DEF WindowPasses, serverVars
  <1>5. CASE LoseAccount
    <2>1. Active(dev') = {}
      BY <1>5 DEF LoseAccount, Active
    <2> QED BY <1>0, <1>1, <2>1
  <1>6. ASSUME NEW d \in Device, GoIdle(d) PROVE ActiveDevicesLimited'
    <2>1. Active(dev') \subseteq Active(dev)
      BY <1>0, <1>6 DEF GoIdle, Active
    <2> QED BY <1>0, <1>1, <2>1
  <1>7. ASSUME NEW d \in Device, DeviceRequest(d) PROVE ActiveDevicesLimited'
    <2>1. CASE Enroll(d)
      BY <1>2, <2>1 DEF Enroll
    <2>2. ASSUME NEW by \in Device, Revoke(by, d) PROVE ActiveDevicesLimited'
      <3>1. Active(dev') \subseteq Active(Seen(by))
        BY <2>2, SeenType DEF Revoke, Active
      <3>2. Cardinality(Active(Seen(by))) <= MaxActiveDevices
        BY <2>2, SeenWithinLimit DEF Revoke, Authentic
      <3> QED BY <1>1, <3>1, <3>2
    <2>3. ASSUME NEW b \in Batch, PushTaken(d, b) \/ PushRefused(d, b)
          PROVE  ActiveDevicesLimited'
      BY <1>2, <2>3 DEF PushTaken, PushRefused, Authentic
    <2>4. ASSUME NEW scope \in Scope, NEW sent \in 0..MaxSequence,
                 Pull(d, scope, sent)
          PROVE  ActiveDevicesLimited'
      BY <1>2, <2>4 DEF Pull, Authentic
    <2> QED BY <1>7, <2>1, <2>2, <2>3, <2>4 DEF DeviceRequest
  <1> QED BY <1>4, <1>5, <1>6, <1>7 DEF ServerNext, Passage

\* However many devices an account has, no more than MaxActiveDevices of them
\* are active at once: enrollment and the return from idleness both check.
THEOREM LimitHolds == ServerSpec => []ActiveDevicesLimited
  <1>1. ServerInit => ActiveDevicesLimited
    <2> SUFFICES ASSUME ServerInit PROVE ActiveDevicesLimited
      OBVIOUS
    <2>1. Active(dev) = {}
      BY DEF ServerInit, Active
    <2> QED BY <2>1, FS_EmptySet, ServerAssumption DEF ActiveDevicesLimited
  <1>2. IInv /\ ActiveDevicesLimited /\ [ServerNext]_serverVars => ActiveDevicesLimited'
    BY LimitStep
  <1> QED BY <1>1, <1>2, Invariance, PTL DEF ServerSpec

(***************************************************************************)
(* What a step may never do.                                               *)
(***************************************************************************)

\* Compaction, in a push or in a pull, takes only rows that every device
\* active at that moment has acknowledged with its account-wide cursor.
THEOREM CompactionSafe == ServerSpec => CompactionWaitsForActive
  <1> DEFINE Kept == \A r \in log \ log' : \A d \in Active(dev') :
                        r.seq <= ack'[d][AccountScope]
  <1>1. ASSUME NEW devs, NEW acks, dev' = devs, ack' = acks,
               Compact(log, devs, acks) \subseteq log'
        PROVE  Kept
    <2> SUFFICES ASSUME NEW r \in log, r \notin log', NEW d \in Active(devs)
                 PROVE  r.seq <= acks[d][AccountScope]
      BY <1>1
    <2>1. r \notin Compact(log, devs, acks)
      BY <1>1
    <2>2. Acknowledged(r, devs, acks)
      BY <2>1 DEF Compact
    <2> QED BY <2>2 DEF Acknowledged
  <1>2. ASSUME log' = log PROVE Kept
    BY <1>2
  <1>3. ASSUME NEW d \in Device, DeviceRequest(d) PROVE Kept
    <2>1. CASE Enroll(d) \/ \E by \in Device : Revoke(by, d)
      BY <1>2, <2>1 DEF Enroll, Revoke
    <2>2. ASSUME NEW b \in Batch, PushTaken(d, b) PROVE Kept
      <3>1. Compact(log, Seen(d), ack) \subseteq log'
        BY <2>2 DEF PushTaken
      <3> QED BY <1>1, <2>2, <3>1 DEF PushTaken
    <2>3. ASSUME NEW b \in Batch, PushRefused(d, b) PROVE Kept
      BY <1>2, <2>3 DEF PushRefused
    <2>4. ASSUME NEW scope \in Scope, NEW sent \in 0..MaxSequence,
                 Pull(d, scope, sent)
          PROVE  Kept
      <3>1. log' = Compact(log, Seen(d), ack') /\ dev' = Seen(d)
        BY <2>4 DEF Pull
      <3> QED BY <1>1, <3>1
    <2> QED BY <1>3, <2>1, <2>2, <2>3, <2>4 DEF DeviceRequest
  <1>4. [ServerNext]_serverVars => [live' => Kept]_serverVars
    BY <1>2, <1>3 DEF ServerNext, Passage, WindowPasses, LoseAccount, GoIdle, serverVars
  <1> QED BY <1>4, PTL DEF ServerSpec, CompactionWaitsForActive

\* Letting d in touches no revoked device.
LEMMA SeenKeepsRevoked ==
    ASSUME TypeOK, NEW d \in Device, NEW allow \in BOOLEAN, Admits(d, allow),
           NEW e \in Device, dev[e] = "revoked"
    PROVE  e # d /\ Seen(d)[e] = "revoked"
  BY DEF TypeOK, Admits, Seen

\* Revocation is for good and heads only grow, for as long as the account is
\* not created anew.
THEOREM Finality == ServerSpec => RevocationAndHeadsAreFinal
  <1> DEFINE Final == /\ \A d \in Device : dev[d] = "revoked" =>
                            dev'[d] = "revoked" /\ ack'[d] = ack[d]
                      /\ \A e \in Entity : heads'[e].rev >= heads[e].rev
             Holds == live' /\ epoch' = epoch => Final
  <1>1. ASSUME IInv, ServerNext PROVE Holds
    <2>0. TypeOK
      BY <1>1 DEF IInv
    <2>1. ASSUME heads' = heads PROVE \A e \in Entity : heads'[e].rev >= heads[e].rev
      BY <2>0, <2>1 DEF TypeOK
    <2>2. CASE WindowPasses
      BY <2>1, <2>2 DEF WindowPasses
    <2>3. CASE LoseAccount
      BY <2>3 DEF LoseAccount
    <2>4. ASSUME NEW d \in Device, GoIdle(d) PROVE Holds
      BY <2>0, <2>1, <2>4 DEF GoIdle, TypeOK
    <2>5. ASSUME NEW d \in Device, Enroll(d) PROVE Holds
      BY <2>0, <2>1, <2>5, SeenKeepsRevoked DEF Enroll
    <2>6. ASSUME NEW d \in Device, NEW by \in Device, Revoke(by, d) PROVE Holds
      <3>1. \A e \in Device : dev[e] = "revoked" => Seen(by)[e] = "revoked"
        BY <2>0, <2>6, SeenKeepsRevoked DEF Revoke, Authentic
      <3>2. \A e \in Device : dev[e] = "revoked" => dev'[e] = "revoked"
        BY <2>0, <2>6, <3>1, SeenType DEF Revoke
      <3> QED BY <2>1, <2>6, <3>2 DEF Revoke
    <2>7. ASSUME NEW d \in Device, NEW b \in Batch, PushTaken(d, b) PROVE Holds
      <3> DEFINE new == Fresh(b, Compact(log, Seen(d), ack))
      <3>1. \A e \in Device : dev[e] = "revoked" => dev'[e] = "revoked" /\ ack'[e] = ack[e]
        BY <2>0, <2>7, SeenKeepsRevoked DEF PushTaken, Authentic
      <3>2. \A m \in new : m.rev > heads[m.ent].rev
        BY DEF Fresh
      <3>3. PICK pos \in Numbering(new) :
                heads' = [e \in Entity |->
                    IF \E m \in new : m.ent = e
                    THEN LET m == CHOOSE m \in new : m.ent = e
                         IN  [rev |-> m.rev, seq |-> pos[m]]
                    ELSE heads[e]]
        BY <2>7 DEF PushTaken
      <3> HIDE DEF new
      <3>4. ASSUME NEW e \in Entity PROVE heads'[e].rev >= heads[e].rev
        <4>1. CASE \E m \in new : m.ent = e
          <5>1. PICK m \in new : m.ent = e /\ heads'[e] = [rev |-> m.rev, seq |-> pos[m]]
            <6> DEFINE m == CHOOSE m \in new : m.ent = e
            <6>1. m \in new /\ m.ent = e
              BY <4>1
            <6>2. heads'[e] = [rev |-> m.rev, seq |-> pos[m]]
              BY <3>3, <4>1
            <6> QED BY <6>1, <6>2
          <5>2. m.rev \in Nat /\ heads[e].rev \in Nat
            BY <2>0, ServerAssumption DEF new, Fresh, Batch, Mutation, Revision, TypeOK
          <5> QED BY <3>2, <5>1, <5>2
        <4>2. CASE ~\E m \in new : m.ent = e
          BY <2>0, <3>3, <4>2 DEF TypeOK
        <4> QED BY <4>1, <4>2
      <3> QED BY <3>1, <3>4
    <2>8. ASSUME NEW d \in Device, NEW b \in Batch, PushRefused(d, b) PROVE Holds
      BY <2>0, <2>1, <2>8, SeenKeepsRevoked DEF PushRefused, Authentic
    <2>9. ASSUME NEW d \in Device, NEW scope \in Scope, NEW sent \in 0..MaxSequence,
                 Pull(d, scope, sent)
          PROVE  Holds
      <3>1. ack \in [Device -> [Scope -> Nat]]
        BY <2>0 DEF TypeOK
      <3>2. \A e \in Device : e # d => ack'[e] = ack[e]
        BY <2>9, <3>1 DEF Pull
      <3>3. \A e \in Device : dev[e] = "revoked" => e # d /\ dev'[e] = "revoked"
        BY <2>0, <2>9, SeenKeepsRevoked DEF Pull, Authentic
      <3>4. heads' = heads
        BY <2>9 DEF Pull
      <3> QED BY <2>1, <3>2, <3>3, <3>4
    <2> QED BY <1>1, <2>2, <2>3, <2>4, <2>5, <2>6, <2>7, <2>8, <2>9
            DEF ServerNext, Passage, DeviceRequest
  <1>2. IInv /\ [ServerNext]_serverVars => [Holds]_serverVars
    BY <1>1
  <1> QED BY <1>2, Invariance, PTL DEF ServerSpec, RevocationAndHeadsAreFinal

-----------------------------------------------------------------------------
(* The devices and the vault: AccountSync.                                 *)

(***************************************************************************)
(* The inductive invariant: the vault's own, the types, and what a pass    *)
(* holds. A batch has one mutation per entity, cursors stay within what    *)
(* the vault can number, and a head is only saved for a row of the page.   *)
(***************************************************************************)

LocalOK ==
    /\ val \in [Device -> [Entity -> Content]]
    /\ localHead \in [Device -> [Entity -> Head]]
    /\ cursor \in [Device -> 0..MaxSequence]
    /\ knownEpoch \in [Device -> Nat]
    /\ enrolled \in [Device -> BOOLEAN]
    /\ attempts \in [Device -> [Entity \X Revision -> 0..(PoisonMax - 1)]]
    /\ edits \in 0..MaxEdits

RunOK ==
    /\ cut \in [Device -> BOOLEAN]
    /\ pc \in [Device -> Phase]
    /\ pass \in [Device -> Pass]

PassOK ==
    \A d \in Device : /\ pass[d].batch \in Batch
                      /\ pass[d].next <= MaxSequence
                      /\ pc[d] = "rowhead" => pass[d].page # {}

ServerOK == IInv /\ lastSeq <= MaxSequence

Inv == ServerOK /\ LocalOK /\ RunOK /\ PassOK

(***************************************************************************)
(* The vault.                                                              *)
(***************************************************************************)

\* The actions by which a device's run or its user leaves the vault alone.
Quiet(d) ==
    \/ UserStep(d)
    \/ StopRun(d) \/ Collect(d) \/ SkipPush(d) \/ Unreachable(d) \/ Denied(d)
    \/ PushThrows(d) \/ DatabaseRefuses(d) \/ PushFindsReset(d) \/ SaveReset(d)
    \/ TakePushAnswer(d) \/ SaveAccepted(d)
    \/ SkipRow(d) \/ ImportRow(d) \/ SaveRowHead(d)
    \/ \E answers \in BOOLEAN : ProjectionThrows(d, answers)
    \/ PoisonRow(d) \/ FinishPass(d) \/ PullFindsReset(d)

\* Those that are a request to the vault.
Requested(d) ==
    EnrollDevice(d) \/ SendPush(d) \/ SendRefusedPush(d) \/ LoseAnswer(d) \/ SendPull(d)

\* A quiet step changes nothing of the vault.
LEMMA QuietServer ==
    ASSUME NEW d \in Device, Quiet(d)
    PROVE  UNCHANGED serverVars
  <1>1. CASE UserStep(d)
    BY <1>1 DEF UserStep, Edit, StartRun, CancelRun, Restart, Crash, EndProcess
  <1>2. CASE \/ StopRun(d) \/ Collect(d) \/ SkipPush(d) \/ Unreachable(d)
             \/ Denied(d) \/ PushThrows(d) \/ DatabaseRefuses(d)
             \/ PushFindsReset(d) \/ SaveReset(d) \/ TakePushAnswer(d)
             \/ SaveAccepted(d)
    BY <1>2 DEF StopRun, Collect, SkipPush, Unreachable, Denied, PushThrows,
       DatabaseRefuses, PushFindsReset, SaveReset, TakePushAnswer, SaveAccepted
  <1>3. CASE \/ SkipRow(d) \/ ImportRow(d) \/ SaveRowHead(d)
             \/ \E answers \in BOOLEAN : ProjectionThrows(d, answers)
             \/ PoisonRow(d) \/ FinishPass(d) \/ PullFindsReset(d)
    BY <1>3 DEF SkipRow, ImportRow, SaveRowHead, ProjectionThrows, PoisonRow,
       FinishPass, PullFindsReset
  <1> QED BY <1>1, <1>2, <1>3 DEF Quiet

\* What a device asks of the vault, the vault's specification allows.
LEMMA RequestServer ==
    ASSUME Inv, NEW d \in Device, Requested(d)
    PROVE  DeviceRequest(d) \/ UNCHANGED serverVars
  <1>1. CASE EnrollDevice(d)
    BY <1>1 DEF EnrollDevice, DeviceRequest
  <1>2. CASE SendPush(d)
    BY <1>2 DEF SendPush, DeviceRequest, Inv, PassOK
  <1>3. CASE SendRefusedPush(d)
    BY <1>3 DEF SendRefusedPush, DeviceRequest, Inv, PassOK
  <1>4. CASE LoseAnswer(d) \/ SendPull(d)
    <2>1. OwnProfile \in Scope /\ cursor[d] \in 0..MaxSequence
      BY ClientAssumption DEF Scope, Inv, LocalOK
    <2>2. Pull(d, OwnProfile, cursor[d]) => DeviceRequest(d)
      BY <2>1 DEF DeviceRequest
    <2> QED BY <1>4, <2>2 DEF LoseAnswer, SendPull
  <1> QED BY <1>1, <1>2, <1>3, <1>4 DEF Requested

\* Every step is a loss of the account, a request or quiet.
LEMMA StepKinds == Next => AccountLost \/ \E d \in Device : Quiet(d) \/ Requested(d)
  <1> SUFFICES ASSUME Next, ~AccountLost
               PROVE  \E d \in Device : Quiet(d) \/ Requested(d)
    OBVIOUS
  <1>1. PICK d \in Device : UserStep(d) \/ PushStep(d) \/ PullStep(d)
    BY DEF Next
  <1>2. Quiet(d) \/ Requested(d)
    BY <1>1 DEF PushStep, PullStep, Quiet, Requested
  <1> QED BY <1>2

\* Every step of the composition is a step of the vault, or none.
LEMMA StepServer == Inv /\ [Next]_vars => [ServerNext]_serverVars
  <1> SUFFICES ASSUME Inv, [Next]_vars PROVE [ServerNext]_serverVars
    OBVIOUS
  <1>1. CASE UNCHANGED vars
    BY <1>1 DEF vars, serverVars
  <1>2. CASE AccountLost
    BY <1>2 DEF AccountLost, ServerNext, Passage
  <1>3. CASE \E d \in Device : Quiet(d)
    BY <1>3, QuietServer
  <1>4. CASE \E d \in Device : Requested(d)
    BY <1>4, RequestServer DEF ServerNext
  <1> QED BY <1>1, <1>2, <1>3, <1>4, StepKinds

\* The vault keeps its invariant, and numbers no further than its bound.
LEMMA StepServerOK ==
    ASSUME Inv, [ServerNext]_serverVars
    PROVE  ServerOK'
  <1>1. IInv'
    BY StepIInv DEF Inv, ServerOK
  <1>2. lastSeq <= MaxSequence /\ MaxSequence \in Nat
    BY ServerAssumption DEF Inv, ServerOK
  <1>3. lastSeq' <= MaxSequence
    <2>1. CASE UNCHANGED serverVars
      BY <1>2, <2>1 DEF serverVars
    <2>2. CASE Passage
      BY <1>2, <2>2 DEF Passage, WindowPasses, LoseAccount, GoIdle
    <2>3. ASSUME NEW d \in Device, DeviceRequest(d) PROVE lastSeq' <= MaxSequence
      BY <1>2, <2>3 DEF DeviceRequest, Enroll, Revoke, PushTaken, PushRefused, Pull
    <2> QED BY <2>1, <2>2, <2>3 DEF ServerNext
  <1> QED BY <1>1, <1>3 DEF ServerOK

(***************************************************************************)
(* The rows a device holds.                                                *)
(***************************************************************************)

\* A non-empty set of naturals has a smallest element.
LEMMA SmallestOf ==
    ASSUME NEW S \in SUBSET Nat, S # {}
    PROVE  \E x \in S : \A y \in S : x <= y
  <1> DEFINE Less == OpToRel(<, Nat)
  <1>1. IsWellFoundedOn(Less, Nat)
    BY NatLessThanWellFounded
  <1>2. Less = {ss \in Nat \X Nat : ss[1] < ss[2]}
    BY Zenon DEF OpToRel
  <1> HIDE DEF Less
  <1>3. PICK x \in S : \A y \in S : ~(<<y, x>> \in Less)
    BY <1>1, WFMin, Zenon
  <1>4. ASSUME NEW y \in S PROVE x <= y
    <2>1. x \in Nat /\ y \in Nat
      OBVIOUS
    <2>2. ~(y < x)
      BY <1>2, <1>3, <2>1
    <2> QED BY <2>1, <2>2
  <1> QED BY <1>4

\* The row to project next is one of the page, and has the types of a row.
LEMMA FirstRowOfPage ==
    ASSUME RunOK, NEW d \in Device, pass[d].page # {}
    PROVE  /\ FirstRow(d) \in pass[d].page
           /\ FirstRow(d).ent \in Entity /\ FirstRow(d).rev \in Revision
           /\ FirstRow(d).body \in SealedBody
  <1> DEFINE seqs == {r.seq : r \in pass[d].page}
  <1>1. pass[d].page \subseteq Row
    BY DEF RunOK, Pass
  <1>2. seqs \subseteq Nat /\ seqs # {}
    BY <1>1 DEF Row
  <1>3. \E n \in seqs : \A m \in seqs : n <= m
    BY <1>2, SmallestOf
  <1>4. \E r \in pass[d].page : \A q \in pass[d].page : r.seq <= q.seq
    BY <1>3
  <1>5. FirstRow(d) \in pass[d].page
    BY <1>4, Zenon DEF FirstRow
  <1> QED BY <1>1, <1>5, BodyAssumption DEF Row

\* A row, or a mutation, makes a head.
LEMMA HeadOfType ==
    ASSUME NEW m, m.rev \in Revision, m.body \in SealedBody
    PROVE  HeadOf(m) \in Head
  BY ServerAssumption DEF HeadOf, Head, SealedBody, Content, Revision

\* What is collected has one mutation per entity.
LEMMA CollectedBatch ==
    ASSUME LocalOK, NEW d \in Device, NEW es \in SUBSET Entity,
           \A e \in es : localHead[d][e].rev < MaxRevision
    PROVE  {Sealed(d, e) : e \in es} \in Batch
  <1>1. ASSUME NEW e \in es PROVE Sealed(d, e) \in Mutation /\ Sealed(d, e).ent = e
    <2>1. localHead[d][e].rev + 1 \in Revision
      BY <1>1, ServerAssumption DEF LocalOK, Head, Revision
    <2>2. Sealed(d, e).body \in SealedBody
      BY <1>1 DEF LocalOK, Sealed, SealedBody, Content
    <2> QED BY <2>1, <2>2, BodyAssumption DEF Sealed, Mutation
  <1> QED BY <1>1 DEF Batch

(***************************************************************************)
(* The devices' steps.                                                     *)
(***************************************************************************)

\* A step of d that leaves a well-formed pass behind, at a place that fits it.
LEMMA RunStep ==
    ASSUME RunOK, PassOK, NEW d \in Device,
           NEW p \in Pass, p.batch \in Batch, p.next <= MaxSequence,
           NEW at \in Phase, at = "rowhead" => p.page # {},
           pass' = [pass EXCEPT ![d] = p], pc' = [pc EXCEPT ![d] = at],
           cut' \in [Device -> BOOLEAN]
    PROVE  RunOK' /\ PassOK'
  <1> USE DEF RunOK, PassOK
  <1>1. RunOK'
    <2> HIDE DEF Pass, Phase, PassOK
    <2> QED OBVIOUS
  <1>2. ASSUME NEW c \in Device
        PROVE  /\ pass'[c].batch \in Batch
               /\ pass'[c].next <= MaxSequence
               /\ pc'[c] = "rowhead" => pass'[c].page # {}
    BY <1>2
  <1> QED BY <1>1, <1>2

\* A pass begins, and a run ends, with nothing in hand.
LEMMA EmptyPass == Empty \in Pass /\ Empty.batch \in Batch /\ Empty.next <= MaxSequence
  <1>1. {} \in Batch
    BY DEF Batch
  <1>2. Empty \in Pass
    BY ServerAssumption DEF Empty, Pass
  <1> QED BY <1>1, <1>2, ServerAssumption DEF Empty

\* However a run ends, it leaves nothing in hand.
LEMMA EndRunOK ==
    ASSUME RunOK, PassOK, NEW d \in Device, EndRun(d)
    PROVE  RunOK' /\ PassOK'
  <1>1. cut' \in [Device -> BOOLEAN]
    BY DEF EndRun, RunOK
  <1>2. "idle" \in Phase
    BY DEF Phase
  <1> QED BY <1>1, <1>2, EmptyPass, RunStep DEF EndRun

\* Nothing of the device's memory of its run changes but the place.
LEMMA MoveOK ==
    ASSUME RunOK, PassOK, NEW d \in Device, NEW at \in Phase,
           at = "rowhead" => pass[d].page # {},
           pc' = [pc EXCEPT ![d] = at], UNCHANGED pass,
           cut' \in [Device -> BOOLEAN]
    PROVE  RunOK' /\ PassOK'
  <1>1. pass' = [pass EXCEPT ![d] = pass[d]] /\ pass[d] \in Pass
    BY DEF RunOK
  <1>2. pass[d].batch \in Batch /\ pass[d].next <= MaxSequence
    BY DEF PassOK
  <1> QED BY <1>1, <1>2, RunStep

\* Nothing of it changes at all.
LEMMA RunUntouched ==
    ASSUME RunOK, PassOK, UNCHANGED <<pc, pass, cut>>
    PROVE  RunOK' /\ PassOK'
  BY DEF RunOK, PassOK

\* Edits, and the steps that begin, cancel and end runs and processes.
LEMMA UserOK ==
    ASSUME Inv, NEW d \in Device, UserStep(d)
    PROVE  LocalOK' /\ RunOK' /\ PassOK'
  <1> USE DEF Inv
  <1>1. CASE \E e \in Entity, v \in Content : Edit(d, e, v)
    <2>1. PICK e \in Entity, v \in Content : Edit(d, e, v)
      BY <1>1
    <2>2. edits' \in 0..MaxEdits
      BY <2>1, ClientAssumption DEF Edit, LocalOK
    <2>3. val' \in [Device -> [Entity -> Content]]
      BY <2>1 DEF Edit, LocalOK
    <2>4. LocalOK'
      BY <2>1, <2>2, <2>3 DEF Edit, LocalOK
    <2> QED BY <2>1, <2>4, RunUntouched DEF Edit
  <1>2. CASE StartRun(d)
    <2>1. "collect" \in Phase /\ cut' \in [Device -> BOOLEAN]
      BY <1>2 DEF Phase, StartRun, RunOK
    <2> QED BY <1>2, <2>1, MoveOK DEF StartRun, LocalOK
  <1>3. CASE CancelRun(d)
    BY <1>3 DEF CancelRun, LocalOK, RunOK, PassOK
  <1>4. CASE Restart(d) \/ Crash(d)
    <2>1. EndProcess(d)
      BY <1>4 DEF Restart, Crash
    <2>2. NoAttempts \in [Entity \X Revision -> 0..(PoisonMax - 1)]
      BY ClientAssumption DEF NoAttempts
    <2>3. LocalOK'
      BY <2>1, <2>2 DEF EndProcess, LocalOK
    <2> QED BY <2>1, <2>3, EndRunOK DEF EndProcess
  <1> QED BY <1>1, <1>2, <1>3, <1>4 DEF UserStep

\* The steps that end a run and touch nothing the device keeps.
LEMMA ThrowOK ==
    ASSUME Inv, NEW d \in Device,
           \/ StopRun(d) \/ Unreachable(d) \/ Denied(d) \/ PushThrows(d)
           \/ DatabaseRefuses(d) \/ LoseAnswer(d)
    PROVE  LocalOK' /\ RunOK' /\ PassOK'
  <1>1. /\ EndRun(d)
        /\ UNCHANGED <<val, localHead, cursor, knownEpoch, enrolled, attempts, edits>>
    BY DEF StopRun, Unreachable, Denied, PushThrows, DatabaseRefuses, LoseAnswer
  <1> QED BY <1>1, EndRunOK DEF Inv, LocalOK

\* Collecting, and the steps between a push and its answer.
LEMMA SendOK ==
    ASSUME Inv, NEW d \in Device,
           \/ Collect(d) \/ SkipPush(d) \/ EnrollDevice(d) \/ SendPush(d)
           \/ SendRefusedPush(d)
    PROVE  LocalOK' /\ RunOK' /\ PassOK'
  <1> USE DEF Inv
  <1>0. cut' \in [Device -> BOOLEAN]
    BY DEF Collect, SkipPush, EnrollDevice, SendPush, SendRefusedPush, RunOK
  <1>1. CASE Collect(d)
    <2>1. PICK es \in Collectable(d) :
             /\ \A e \in es : localHead[d][e].rev < MaxRevision
             /\ pass' = [pass EXCEPT ![d] =
                   [Empty EXCEPT !.batch = {Sealed(d, e) : e \in es},
                                 !.seen = [e \in Entity |-> localHead[d][e].rev],
                                 !.base = knownEpoch[d]]]
             /\ pc' = [pc EXCEPT ![d] = "send"]
      BY <1>1 DEF Collect
    <2> DEFINE b == {Sealed(d, e) : e \in es}
               seen == [e \in Entity |-> localHead[d][e].rev]
               p == [Empty EXCEPT !.batch = b, !.seen = seen, !.base = knownEpoch[d]]
    <2>2. es \in SUBSET Entity
      BY DEF Collectable, ChangedRows, LostRows
    <2>3. b \in Batch
      BY <2>1, <2>2, CollectedBatch
    <2>4. seen \in [Entity -> 0..MaxRevision]
      BY DEF LocalOK, Head
    <2>5. knownEpoch[d] \in Nat
      BY DEF LocalOK
    <2>6. p \in Pass /\ p.batch \in Batch /\ p.next <= MaxSequence
      <3> HIDE DEF b, seen
      <3>1. Empty \in Pass /\ Empty.next <= MaxSequence
        BY EmptyPass
      <3>2. b \in SUBSET Mutation
        BY <2>3 DEF Batch
      <3> QED BY <2>3, <2>4, <2>5, <3>1, <3>2 DEF Pass
    <2>7. "send" \in Phase
      BY DEF Phase
    <2>8. RunOK' /\ PassOK'
      <3> HIDE DEF b, seen
      <3>1. pass' = [pass EXCEPT ![d] = p]
        BY <2>1 DEF b, seen
      <3> HIDE DEF p
      <3> QED BY <1>0, <2>1, <2>6, <2>7, <3>1, RunStep
    <2> QED BY <1>1, <2>8 DEF Collect, LocalOK
  <1>2. CASE SkipPush(d)
    BY <1>0, <1>2, MoveOK DEF SkipPush, LocalOK, Phase
  <1>3. CASE EnrollDevice(d)
    BY <1>3, RunUntouched DEF EnrollDevice, LocalOK
  <1>4. CASE SendRefusedPush(d)
    BY <1>0, <1>4, MoveOK DEF SendRefusedPush, LocalOK, Phase
  <1>5. CASE SendPush(d)
    <2> DEFINE batch == pass[d].batch
               accepted == Accepted(batch, Compact(log, Seen(d), ack))
               again == accepted # batch \/ Cardinality(batch) >= MaxPush
               p == [pass[d] EXCEPT !.batch = {}, !.accepted = accepted,
                                    !.epoch = epoch, !.again = again]
    <2>1. accepted \in SUBSET Mutation
      BY DEF Accepted, Fresh, RunOK, Pass
    <2>2. epoch \in Nat /\ again \in BOOLEAN
      BY DEF ServerOK, IInv, TypeOK
    <2>3. p \in Pass /\ p.batch \in Batch /\ p.next <= MaxSequence
      <3> HIDE DEF accepted, again
      <3>1. pass[d] \in Pass /\ pass[d].next <= MaxSequence
        BY DEF RunOK, PassOK
      <3>2. {} \in Batch /\ {} \in SUBSET Mutation
        BY DEF Batch
      <3> QED BY <2>1, <2>2, <3>1, <3>2 DEF Pass
    <2>4. pass' = [pass EXCEPT ![d] = p] /\ pc' = [pc EXCEPT ![d] = "pushed"]
      BY <1>5 DEF SendPush, RunOK
    <2>5. "pushed" \in Phase
      BY DEF Phase
    <2>6. RunOK' /\ PassOK'
      <3> HIDE DEF p
      <3> QED BY <1>0, <2>3, <2>4, <2>5, RunStep
    <2> QED BY <1>5, <2>6 DEF SendPush, LocalOK
  <1> QED BY <1>1, <1>2, <1>3, <1>4, <1>5

\* The steps from the answer of a push to the pull, and those of a reset.
LEMMA AnswerOK ==
    ASSUME Inv, NEW d \in Device,
           \/ PushFindsReset(d) \/ PullFindsReset(d) \/ SaveReset(d)
           \/ TakePushAnswer(d) \/ SaveAccepted(d)
    PROVE  LocalOK' /\ RunOK' /\ PassOK'
  <1> USE DEF Inv
  <1>0. cut' \in [Device -> BOOLEAN]
    BY DEF PushFindsReset, PullFindsReset, SaveReset, TakePushAnswer,
       SaveAccepted, RunOK
  <1>1. pass[d] \in Pass /\ pass[d].batch \in Batch /\ pass[d].next <= MaxSequence
    BY DEF RunOK, PassOK
  <1>2. pass[d].epoch \in Nat /\ pass[d].accepted \in SUBSET Mutation
    BY <1>1 DEF Pass
  <1>3. CASE PushFindsReset(d) \/ PullFindsReset(d)
    <2>1. Forgotten(localHead[d]) \in [Entity -> Head]
      <3>1. Gone \in Content
        BY DEF Content
      <3>2. ASSUME NEW e \in Entity
            PROVE  [localHead[d][e] EXCEPT !.print = Gone] \in Head
        <4>1. localHead[d][e] \in Head
          BY DEF LocalOK
        <4> QED BY <3>1, <4>1 DEF Head
      <3> QED BY <3>2 DEF Forgotten
    <2>2. LocalOK'
      BY <1>3, <2>1 DEF PushFindsReset, PullFindsReset, LocalOK
    <2>3. RunOK' /\ PassOK'
      BY <1>0, <1>3, MoveOK DEF PushFindsReset, PullFindsReset, Phase
    <2> QED BY <2>2, <2>3
  <1>4. CASE SaveReset(d)
    <2>1. LocalOK'
      <3>1. cursor' \in [Device -> 0..MaxSequence]
        BY <1>4, ServerAssumption DEF SaveReset, LocalOK
      <3>2. knownEpoch' \in [Device -> Nat]
        BY <1>2, <1>4 DEF SaveReset, LocalOK
      <3> QED BY <1>4, <3>1, <3>2 DEF SaveReset, LocalOK
    <2> DEFINE at == IF cut[d] THEN "idle" ELSE "collect"
    <2>2. at \in Phase /\ at # "rowhead"
      BY DEF Phase
    <2>3. pass' = [pass EXCEPT ![d] = Empty] /\ pc' = [pc EXCEPT ![d] = at]
      BY <1>4 DEF SaveReset
    <2>4. RunOK' /\ PassOK'
      <3> HIDE DEF at
      <3> QED BY <1>0, <2>2, <2>3, EmptyPass, RunStep
    <2> QED BY <2>1, <2>4
  <1>5. CASE TakePushAnswer(d)
    <2>1. LocalOK'
      BY <1>2, <1>5 DEF TakePushAnswer, LocalOK
    <2> QED BY <1>0, <1>5, <2>1, MoveOK DEF TakePushAnswer, Phase
  <1>6. CASE SaveAccepted(d)
    <2> DEFINE new(e) == CHOOSE m \in pass[d].accepted : m.ent = e
               hs == [e \in Entity |->
                        IF \E m \in pass[d].accepted : m.ent = e
                        THEN Saved(localHead[d][e], HeadOf(new(e)))
                        ELSE localHead[d][e]]
               p == [pass[d] EXCEPT !.accepted = {}]
    <2>1. ASSUME NEW e \in Entity, \E m \in pass[d].accepted : m.ent = e
          PROVE  HeadOf(new(e)) \in Head
      <3>1. new(e) \in pass[d].accepted
        BY <2>1
      <3>2. new(e) \in Mutation
        BY <1>2, <3>1
      <3> HIDE DEF new
      <3> QED BY <3>2, HeadOfType, BodyAssumption DEF Mutation
    <2>2. hs \in [Entity -> Head]
      <3> HIDE DEF new
      <3>1. localHead[d] \in [Entity -> Head]
        BY DEF LocalOK
      <3>2. ASSUME NEW e \in Entity
            PROVE  (IF \E m \in pass[d].accepted : m.ent = e
                    THEN Saved(localHead[d][e], HeadOf(new(e)))
                    ELSE localHead[d][e]) \in Head
        BY <2>1, <3>1 DEF Saved
      <3> QED BY <3>2
    <2>3. localHead' = [localHead EXCEPT ![d] = hs]
      BY <1>6 DEF SaveAccepted, LocalOK
    <2>4. LocalOK'
      <3> HIDE DEF hs
      <3> QED BY <1>6, <2>2, <2>3 DEF SaveAccepted, LocalOK
    <2>5. p \in Pass /\ p.batch \in Batch /\ p.next <= MaxSequence
      BY <1>1 DEF Pass
    <2>6. pass' = [pass EXCEPT ![d] = p] /\ pc' = [pc EXCEPT ![d] = "pull"]
      BY <1>6 DEF SaveAccepted, RunOK
    <2>7. "pull" \in Phase
      BY DEF Phase
    <2>8. RunOK' /\ PassOK'
      <3> HIDE DEF p
      <3> QED BY <1>0, <2>5, <2>6, <2>7, RunStep
    <2> QED BY <2>4, <2>8
  <1> QED BY <1>3, <1>4, <1>5, <1>6

\* The answer of a pull: a page of typed rows, and a cursor within the bound.
LEMMA PullOK ==
    ASSUME Inv, NEW d \in Device, SendPull(d)
    PROVE  LocalOK' /\ RunOK' /\ PassOK'
  <1> DEFINE page == Page(OwnProfile, cursor[d])
             next == NextCursor(OwnProfile, cursor[d])
             again == pass[d].again \/ HasMore(OwnProfile, cursor[d])
             p == [pass[d] EXCEPT !.page = page, !.next = next,
                                  !.epoch = epoch, !.again = again]
  <1> USE DEF Inv
  <1>1. pass[d] \in Pass /\ pass[d].batch \in Batch
    BY DEF RunOK, PassOK
  <1>2. page \in SUBSET Row
    BY DEF Page, Beyond, ServerOK, IInv, TypeOK
  <1>3. next \in Nat /\ next <= MaxSequence
    <2>1. OwnProfile \in Scope /\ cursor[d] \in Nat
      BY ClientAssumption DEF Scope, LocalOK
    <2>2. next \in 0..lastSeq
      BY <2>1, NextCursorBounded DEF ServerOK, IInv
    <2> HIDE DEF next
    <2> QED BY <2>2, ServerAssumption DEF ServerOK, IInv, TypeOK
  <1>4. epoch \in Nat /\ again \in BOOLEAN
    BY DEF ServerOK, IInv, TypeOK
  <1>5. p \in Pass /\ p.batch \in Batch /\ p.next <= MaxSequence
    <2> HIDE DEF page, next, again
    <2> QED BY <1>1, <1>2, <1>3, <1>4 DEF Pass
  <1>6. pass' = [pass EXCEPT ![d] = p] /\ pc' = [pc EXCEPT ![d] = "pulled"]
    BY DEF SendPull, RunOK
  <1>7. "pulled" \in Phase /\ cut' \in [Device -> BOOLEAN]
    BY DEF Phase, SendPull, RunOK
  <1>8. RunOK' /\ PassOK'
    <2> HIDE DEF p
    <2> QED BY <1>5, <1>6, <1>7, RunStep
  <1> QED BY <1>8 DEF SendPull, LocalOK

\* A row is projected, skipped, given up or thrown out.
LEMMA ProjectOK ==
    ASSUME Inv, NEW d \in Device,
           \/ SkipRow(d) \/ ImportRow(d) \/ SaveRowHead(d) \/ PoisonRow(d)
           \/ \E answers \in BOOLEAN : ProjectionThrows(d, answers)
    PROVE  LocalOK' /\ RunOK' /\ PassOK'
  <1> USE DEF Inv
  <1> DEFINE r == FirstRow(d)
             rest == pass[d].page \ {r}
  <1>1. pass[d].page # {}
    BY DEF SkipRow, ImportRow, SaveRowHead, PoisonRow, ProjectionThrows,
       Projecting, Applying, PassOK
  <1>2. /\ r.ent \in Entity /\ r.rev \in Revision
        /\ r.body.content \in Content /\ r.body \in SealedBody
    BY <1>1, FirstRowOfPage DEF SealedBody, Content
  <1>3. Id(r) \in Entity \X Revision
    BY <1>2 DEF Id
  <1>4. pass[d] \in Pass /\ pass[d].batch \in Batch /\ pass[d].next <= MaxSequence
    BY DEF RunOK, PassOK
  <1>5. rest \in SUBSET Row
    BY <1>4 DEF Pass
  <1>6. HeadOf(r) \in Head /\ r.rev \in 0..MaxRevision
    BY <1>2, HeadOfType, ServerAssumption DEF Revision
  <1>7. "pulled" \in Phase /\ "rowhead" \in Phase /\ pc[d] \in Phase
    BY DEF Phase, RunOK
  <1>8. PoisonMax \in Nat \ {0}
    BY ClientAssumption
  <1> DEFINE Attempts == [Entity \X Revision -> 0..(PoisonMax - 1)]
  <1>9. attempts \in [Device -> Attempts] /\ 0 \in 0..(PoisonMax - 1)
    <2>1. 0 \in 0..(PoisonMax - 1)
      BY <1>8
    <2>2. attempts \in [Device -> Attempts]
      BY Zenon DEF LocalOK
    <2> QED BY <2>1, <2>2
  <1> HIDE DEF r, Pass, Batch
  <1>10. [attempts EXCEPT ![d][Id(r)] = 0] \in [Device -> Attempts]
    BY <1>3, <1>9
  <1>11. CASE SkipRow(d)
    <2> DEFINE p == [pass[d] EXCEPT !.page = rest]
    <2>1. attempts' = [attempts EXCEPT ![d][Id(r)] = 0]
      BY <1>11 DEF SkipRow, r
    <2>2. LocalOK'
      BY <1>10, <1>11, <2>1 DEF SkipRow, LocalOK
    <2>3. p \in Pass /\ p.batch \in Batch /\ p.next <= MaxSequence
      <3> HIDE DEF rest
      <3> QED BY <1>4, <1>5 DEF Pass
    <2>4. pass' = [pass EXCEPT ![d] = p]
      BY <1>11 DEF SkipRow, RunOK, r
    <2>5. pc' = [pc EXCEPT ![d] = "pulled"] /\ cut' \in [Device -> BOOLEAN]
      BY <1>11 DEF SkipRow, Projecting, RunOK
    <2>6. RunOK' /\ PassOK'
      <3> HIDE DEF p
      <3> QED BY <1>7, <2>3, <2>4, <2>5, RunStep
    <2> QED BY <2>2, <2>6
  <1>12. CASE ImportRow(d)
    <2>1. val' = [val EXCEPT ![d][r.ent] = r.body.content]
      BY <1>12 DEF ImportRow, r
    <2>2. val' \in [Device -> [Entity -> Content]]
      BY <1>2, <2>1 DEF LocalOK
    <2>3. LocalOK'
      BY <1>12, <2>2 DEF ImportRow, LocalOK
    <2>4. RunOK' /\ PassOK'
      BY <1>1, <1>7, <1>12, MoveOK DEF ImportRow, RunOK
    <2> QED BY <2>3, <2>4
  <1>13. CASE SaveRowHead(d)
    <2> DEFINE p == [pass[d] EXCEPT !.page = rest, !.seen[r.ent] = r.rev]
    <2>1. attempts' = [attempts EXCEPT ![d][Id(r)] = 0]
      BY <1>13 DEF SaveRowHead, r
    <2>2. localHead' = [localHead EXCEPT ![d][r.ent] = Saved(@, HeadOf(r))]
      BY <1>13 DEF SaveRowHead, r
    <2>3. localHead' \in [Device -> [Entity -> Head]]
      BY <1>2, <1>6, <2>2 DEF LocalOK, Saved
    <2>4. LocalOK'
      BY <1>10, <1>13, <2>1, <2>3 DEF SaveRowHead, LocalOK
    <2>5. p \in Pass /\ p.batch \in Batch /\ p.next <= MaxSequence
      <3> HIDE DEF rest
      <3> QED BY <1>2, <1>4, <1>5, <1>6 DEF Pass
    <2>6. pass' = [pass EXCEPT ![d] = p]
      BY <1>13 DEF SaveRowHead, RunOK, r
    <2>7. pc' = [pc EXCEPT ![d] = "pulled"] /\ cut' \in [Device -> BOOLEAN]
      BY <1>13 DEF SaveRowHead, RunOK
    <2>8. RunOK' /\ PassOK'
      <3> HIDE DEF p
      <3> QED BY <1>7, <2>5, <2>6, <2>7, RunStep
    <2> QED BY <2>4, <2>8
  <1>14. CASE PoisonRow(d)
    <2> DEFINE p == [pass[d] EXCEPT !.page = rest]
    <2>1. attempts' = [attempts EXCEPT ![d][Id(r)] = 0]
      BY <1>14 DEF PoisonRow, r
    <2>2. LocalOK'
      BY <1>10, <1>14, <2>1 DEF PoisonRow, LocalOK
    <2>3. p \in Pass /\ p.batch \in Batch /\ p.next <= MaxSequence
      <3> HIDE DEF rest
      <3> QED BY <1>4, <1>5 DEF Pass
    <2>4. pass' = [pass EXCEPT ![d] = p]
      BY <1>14 DEF PoisonRow, RunOK, r
    <2>5. pc' = [pc EXCEPT ![d] = "pulled"] /\ cut' \in [Device -> BOOLEAN]
      BY <1>14 DEF PoisonRow, RunOK
    <2>6. RunOK' /\ PassOK'
      <3> HIDE DEF p
      <3> QED BY <1>7, <2>3, <2>4, <2>5, RunStep
    <2> QED BY <2>2, <2>6
  <1>15. ASSUME NEW answers \in BOOLEAN, ProjectionThrows(d, answers)
         PROVE  LocalOK' /\ RunOK' /\ PassOK'
    <2> DEFINE n == attempts[d][Id(r)]
               tried == IF LastAttempt(d, r) THEN n ELSE n + 1
    <2>1. n \in 0..(PoisonMax - 1)
      BY <1>3, <1>9
    <2>2. tried \in 0..(PoisonMax - 1)
      <3> HIDE DEF n
      <3>1. LastAttempt(d, r) <=> n + 1 >= PoisonMax
        BY DEF LastAttempt, n
      <3> QED BY <1>8, <2>1, <3>1
    <2>3. attempts' = [attempts EXCEPT ![d][Id(r)] = tried]
      BY <1>15 DEF ProjectionThrows, r
    <2>4. attempts' \in [Device -> Attempts]
      <3> HIDE DEF tried
      <3> QED BY <1>3, <1>9, <2>2, <2>3
    <2>5. LocalOK'
      BY <1>15, <2>4 DEF ProjectionThrows, LocalOK
    <2> QED BY <1>15, <2>5, EndRunOK DEF ProjectionThrows
  <1> QED BY <1>11, <1>12, <1>13, <1>14, <1>15

\* The page is behind: the cursor moves to the one the vault handed out.
LEMMA FinishOK ==
    ASSUME Inv, NEW d \in Device, FinishPass(d)
    PROVE  LocalOK' /\ RunOK' /\ PassOK'
  <1> USE DEF Inv
  <1>1. pass[d] \in Pass /\ pass[d].next <= MaxSequence
    BY DEF RunOK, PassOK
  <1>2. pass[d].next \in 0..MaxSequence /\ pass[d].epoch \in Nat
    BY <1>1, ServerAssumption DEF Pass
  <1>3. LocalOK'
    <2>1. cursor' \in [Device -> 0..MaxSequence]
      BY <1>2 DEF FinishPass, LocalOK
    <2>2. knownEpoch' \in [Device -> Nat]
      BY <1>2 DEF FinishPass, LocalOK
    <2> QED BY <2>1, <2>2 DEF FinishPass, LocalOK
  <1>4. PICK to \in Phase : to # "rowhead" /\ pc' = [pc EXCEPT ![d] = to]
    BY DEF FinishPass, Phase
  <1>5. pass' = [pass EXCEPT ![d] = Empty] /\ cut' \in [Device -> BOOLEAN]
    BY DEF FinishPass, RunOK
  <1>6. RunOK' /\ PassOK'
    BY <1>4, <1>5, EmptyPass, RunStep
  <1> QED BY <1>3, <1>6

(***************************************************************************)
(* The theorems.                                                           *)
(***************************************************************************)

LEMMA InitInv == Init => Inv
  <1> SUFFICES ASSUME Init PROVE Inv
    OBVIOUS
  <1>1. ServerOK
    BY InitIInv, ServerAssumption DEF Init, ServerInit, ServerOK
  <1>2. LocalOK
    <2>1. NoLocalHead \in Head /\ Gone \in Content
      BY ServerAssumption DEF NoLocalHead, Head, Content
    <2>2. NoAttempts \in [Entity \X Revision -> 0..(PoisonMax - 1)]
      BY ClientAssumption DEF NoAttempts
    <2> QED BY <2>1, <2>2, ServerAssumption, ClientAssumption DEF Init, LocalOK
  <1>3. RunOK /\ PassOK
    <2>1. "idle" \in Phase
      BY DEF Phase
    <2> QED BY <2>1, EmptyPass DEF Init, RunOK, PassOK
  <1> QED BY <1>1, <1>2, <1>3 DEF Inv

\* Every step of the composition keeps the inductive invariant.
LEMMA StepInv == Inv /\ [Next]_vars => Inv'
  <1> SUFFICES ASSUME Inv, [Next]_vars PROVE Inv'
    OBVIOUS
  <1>1. ServerOK'
    BY StepServer, StepServerOK
  <1>2. LocalOK' /\ RunOK' /\ PassOK'
    <2>1. CASE UNCHANGED deviceVars
      BY <2>1 DEF Inv, deviceVars, LocalOK, RunOK, PassOK
    <2>2. ASSUME NEW d \in Device, Quiet(d) PROVE LocalOK' /\ RunOK' /\ PassOK'
      BY <2>2, UserOK, ThrowOK, SendOK, AnswerOK, ProjectOK, FinishOK DEF Quiet
    <2>3. ASSUME NEW d \in Device, Requested(d) PROVE LocalOK' /\ RunOK' /\ PassOK'
      BY <2>3, ThrowOK, SendOK, PullOK DEF Requested
    <2>4. AccountLost \/ UNCHANGED vars => UNCHANGED deviceVars
      BY DEF AccountLost, vars, deviceVars
    <2> QED BY <2>1, <2>2, <2>3, <2>4, StepKinds
  <1> QED BY <1>1, <1>2 DEF Inv

\* The inductive invariant holds of every behaviour of the devices and the
\* vault together.
THEOREM SyncInvariance == Spec => []Inv
  BY InitInv, StepInv, PTL DEF Spec

\* AccountSync is type correct; in particular no row is tried PoisonMax times
\* (runSync's poisonAttempts) and no head carries a revision out of range.
THEOREM ClientTypeCorrect == Spec => []ClientTypeOK
  <1>1. Inv => ClientTypeOK
    <2>1. ASSUME Inv PROVE cursor \in [Device -> Nat]
      BY <2>1, ServerAssumption DEF Inv, LocalOK
    <2> QED BY <2>1, Zenon DEF Inv, LocalOK, RunOK, ClientTypeOK
  <1> QED BY <1>1, SyncInvariance, PTL

\* The devices as they are programmed are among the devices the vault is
\* specified for: they never send a batch with two mutations of one entity or
\* a cursor the vault could not have handed out.
THEOREM DevicesRespectVault == Spec => ServerSpec
  <1>1. Init => ServerInit
    BY DEF Init
  <1> QED BY <1>1, StepServer, SyncInvariance, PTL DEF Spec, ServerSpec

\* What is proved about the vault alone holds of it among these devices: its
\* log is in order, no device is credited with rows it has not reached, and no
\* more of them are active than may be.
THEOREM VaultInComposition ==
    Spec => [](LogFollowsHeads /\ NoAcknowledgementAhead /\ ActiveDevicesLimited)
  BY DevicesRespectVault, LogOrdered, NoneAhead, LimitHolds, PTL

(***************************************************************************)
(* No device is taken back. What a pass knows of the heads, read when it   *)
(* began, lags at most one revision behind them: the one the pass itself   *)
(* pushed. A row that is news to the pass is then never older than what    *)
(* the device shows.                                                       *)
(***************************************************************************)

Passing == Phase \ {"idle", "collect", "reset"}

SeenAt(d) ==
    pc[d] \in Passing =>
        /\ \A e \in Entity : localHead[d][e].rev <= pass[d].seen[e] + 1
        /\ \A m \in pass[d].batch \cup pass[d].accepted : m.rev <= pass[d].seen[m.ent] + 1
        /\ pc[d] = "rowhead" => ~Stale(d, FirstRow(d))

SeenOK == \A d \in Device : SeenAt(d)

\* A step of one device is nothing to another.
LEMMA OthersUntouched ==
    ASSUME Inv, NEW d \in Device, Quiet(d) \/ Requested(d),
           NEW c \in Device, c # d
    PROVE  pc'[c] = pc[c] /\ pass'[c] = pass[c] /\ localHead'[c] = localHead[c]
  <1> USE DEF Inv, RunOK, LocalOK
  <1>1. CASE UserStep(d)
    BY <1>1 DEF UserStep, Edit, StartRun, CancelRun, Restart, Crash, EndProcess, EndRun
  <1>2. CASE \/ StopRun(d) \/ Unreachable(d) \/ Denied(d) \/ PushThrows(d)
             \/ DatabaseRefuses(d) \/ LoseAnswer(d)
             \/ \E answers \in BOOLEAN : ProjectionThrows(d, answers)
    BY <1>2 DEF StopRun, Unreachable, Denied, PushThrows, DatabaseRefuses,
       LoseAnswer, ProjectionThrows, EndRun
  <1>3. CASE Collect(d) \/ SkipPush(d) \/ SendPush(d)
    BY <1>3 DEF Collect, SkipPush, SendPush
  <1>4. CASE SendRefusedPush(d) \/ EnrollDevice(d)
    BY <1>4 DEF SendRefusedPush, EnrollDevice
  <1>5. CASE PushFindsReset(d) \/ PullFindsReset(d) \/ SaveReset(d) \/ TakePushAnswer(d)
    BY <1>5 DEF PushFindsReset, PullFindsReset, SaveReset, TakePushAnswer
  <1>6. CASE SaveAccepted(d) \/ SendPull(d) \/ FinishPass(d)
    BY <1>6 DEF SaveAccepted, SendPull, FinishPass
  <1>7. CASE SkipRow(d) \/ ImportRow(d) \/ SaveRowHead(d) \/ PoisonRow(d)
    BY <1>7 DEF SkipRow, ImportRow, SaveRowHead, PoisonRow, Projecting
  <1> QED BY <1>1, <1>2, <1>3, <1>4, <1>5, <1>6, <1>7 DEF Quiet, Requested

\* What SeenAt says depends on nothing else.
LEMMA SeenFrame ==
    ASSUME NEW c \in Device, SeenAt(c),
           pc'[c] = pc[c], pass'[c] = pass[c], localHead'[c] = localHead[c]
    PROVE  SeenAt(c)'
  <1>1. FirstRow(c)' = FirstRow(c)
    BY DEF FirstRow
  <1>2. Stale(c, FirstRow(c))' = Stale(c, FirstRow(c))
    BY <1>1 DEF Stale
  <1> QED BY <1>2 DEF SeenAt

\* The heads of a device only grow.
LEMMA HeadsGrow ==
    ASSUME Inv, [Next]_vars, NEW d \in Device, NEW e \in Entity
    PROVE  localHead'[d][e].rev >= localHead[d][e].rev
  <1> USE DEF Inv
  <1>1. localHead[d] \in [Entity -> Head] /\ localHead[d][e].rev \in Nat
    BY ServerAssumption DEF LocalOK, Head
  <1>2. CASE UNCHANGED localHead
    BY <1>1, <1>2
  <1>3. ASSUME NEW c \in Device, c # d, Quiet(c) \/ Requested(c)
        PROVE  localHead'[d][e].rev >= localHead[d][e].rev
    BY <1>1, <1>3, OthersUntouched
  <1>4. CASE PushFindsReset(d) \/ PullFindsReset(d)
    <2>1. localHead'[d] = Forgotten(localHead[d])
      BY <1>4 DEF PushFindsReset, PullFindsReset, LocalOK
    <2>2. Forgotten(localHead[d])[e].rev = localHead[d][e].rev
      <3>1. localHead[d][e] \in Head
        BY <1>1
      <3> QED BY <3>1 DEF Forgotten, Head
    <2> QED BY <1>1, <2>1, <2>2
  <1>5. CASE SaveAccepted(d)
    <2> DEFINE new == HeadOf(CHOOSE m \in pass[d].accepted : m.ent = e)
    <2>1. localHead'[d][e] \in {localHead[d][e], Saved(localHead[d][e], new)}
      BY <1>5 DEF SaveAccepted, LocalOK
    <2> HIDE DEF new
    <2>2. Saved(localHead[d][e], new) = localHead[d][e]
          \/ Saved(localHead[d][e], new).rev >= localHead[d][e].rev
      BY DEF Saved
    <2> QED BY <1>1, <2>1, <2>2
  <1>6. CASE SaveRowHead(d)
    <2> DEFINE new == HeadOf(FirstRow(d))
    <2>1. localHead'[d][e] \in {localHead[d][e], Saved(localHead[d][e], new)}
      BY <1>6 DEF SaveRowHead, LocalOK
    <2> HIDE DEF new
    <2>2. Saved(localHead[d][e], new) = localHead[d][e]
          \/ Saved(localHead[d][e], new).rev >= localHead[d][e].rev
      BY DEF Saved
    <2> QED BY <1>1, <2>1, <2>2
  <1>7. ASSUME Quiet(d) \/ Requested(d), ~PushFindsReset(d), ~PullFindsReset(d),
               ~SaveAccepted(d), ~SaveRowHead(d)
        PROVE  UNCHANGED localHead
    <2>1. CASE UserStep(d)
      BY <2>1 DEF UserStep, Edit, StartRun, CancelRun, Restart, Crash, EndProcess
    <2>2. CASE Requested(d)
      BY <2>2 DEF Requested, EnrollDevice, SendPush, SendRefusedPush, LoseAnswer, SendPull
    <2>3. CASE Quiet(d) /\ ~UserStep(d)
      BY <1>7, <2>3 DEF Quiet, StopRun, Collect, SkipPush, Unreachable, Denied,
         PushThrows, DatabaseRefuses, SaveReset, TakePushAnswer, SkipRow,
         ImportRow, ProjectionThrows, PoisonRow, FinishPass
    <2> QED BY <1>7, <2>1, <2>2, <2>3
  <1>8. AccountLost \/ UNCHANGED vars => UNCHANGED localHead
    BY DEF AccountLost, deviceVars, vars
  <1> QED BY <1>2, <1>3, <1>4, <1>5, <1>6, <1>7, <1>8, StepKinds

\* Steps by which a run moves on and its heads stay as they are.
LEMMA SeenMoves ==
    ASSUME Inv, NEW d \in Device, SeenAt(d), UNCHANGED localHead,
           NEW at \in Phase, pc' = [pc EXCEPT ![d] = at],
           NEW p, pass' = [pass EXCEPT ![d] = p],
           at \in Passing => /\ pc[d] \in Passing
                             /\ p.seen = pass[d].seen
                             /\ p.batch \subseteq pass[d].batch
                             /\ p.accepted \subseteq pass[d].batch \cup pass[d].accepted
                             /\ at # "rowhead"
    PROVE  SeenAt(d)'
  <1>1. pc'[d] = at /\ pass'[d] = p
    BY DEF Inv, RunOK
  <1> QED BY <1>1 DEF SeenAt, Passing

\* Every step of a device keeps what its pass knows of the heads in order.
LEMMA SeenStep ==
    ASSUME Inv, NEW d \in Device, SeenAt(d), Quiet(d) \/ Requested(d)
    PROVE  SeenAt(d)'
  <1> USE DEF Inv
  <1> DEFINE r == FirstRow(d)
             seen == pass[d].seen
  <1>1. pass[d] \in Pass /\ seen \in [Entity -> 0..MaxRevision] /\ pc[d] \in Phase
    BY DEF RunOK, Pass
  <1>2. \A e \in Entity : seen[e] \in Nat /\ localHead[d][e].rev \in Nat
    BY <1>1, ServerAssumption DEF LocalOK, Head
  <1>3. CASE pc'[d] \notin Passing
    BY <1>3 DEF SeenAt
  <1>4. CASE UNCHANGED <<pc, pass, localHead>>
    BY <1>4, SeenFrame
  <1>5. CASE SkipPush(d) \/ SendRefusedPush(d) \/ TakePushAnswer(d)
    <2>1. pass' = [pass EXCEPT ![d] = pass[d]]
      BY <1>5 DEF SkipPush, SendRefusedPush, TakePushAnswer, RunOK
    <2>2. PICK at \in {"pull", "refused", "save"} : pc' = [pc EXCEPT ![d] = at]
      BY <1>5 DEF SkipPush, SendRefusedPush, TakePushAnswer
    <2>3. UNCHANGED localHead /\ pc[d] \in Passing
      BY <1>5 DEF SkipPush, SendRefusedPush, TakePushAnswer, Passing, Phase
    <2> QED BY <2>1, <2>2, <2>3, SeenMoves DEF Phase
  <1>6. CASE Collect(d)
    <2>1. pc'[d] = "send" /\ UNCHANGED localHead
      BY <1>6 DEF Collect, RunOK
    <2>2. PICK es \in Collectable(d) :
             pass' = [pass EXCEPT ![d] =
                   [Empty EXCEPT !.batch = {Sealed(d, e) : e \in es},
                                 !.seen = [e \in Entity |-> localHead[d][e].rev],
                                 !.base = knownEpoch[d]]]
      BY <1>6 DEF Collect
    <2>3. /\ pass'[d].seen = [e \in Entity |-> localHead[d][e].rev]
          /\ pass'[d].batch = {Sealed(d, e) : e \in es}
          /\ pass'[d].accepted = {}
      BY <2>2 DEF RunOK, Empty
    <2>4. es \subseteq Entity
      BY DEF Collectable, ChangedRows, LostRows
    <2>5. ASSUME NEW e \in es
          PROVE  Sealed(d, e).ent = e /\ Sealed(d, e).rev = localHead[d][e].rev + 1
      BY DEF Sealed
    <2>6. \A m \in pass'[d].batch \cup pass'[d].accepted : m.rev <= pass'[d].seen[m.ent] + 1
      <3> SUFFICES ASSUME NEW m \in pass'[d].batch PROVE m.rev <= pass'[d].seen[m.ent] + 1
        BY <2>3
      <3>1. PICK e \in es : m = Sealed(d, e)
        BY <2>3
      <3> QED BY <1>2, <2>3, <2>4, <2>5, <3>1
    <2> QED BY <1>2, <2>1, <2>3, <2>6 DEF SeenAt
  <1>7. CASE SendPush(d)
    <2> DEFINE accepted == Accepted(pass[d].batch, Compact(log, Seen(d), ack))
    <2>1. accepted \subseteq pass[d].batch
      BY DEF Accepted, Fresh
    <2>2. /\ pass'[d].seen = seen /\ pass'[d].batch = {}
          /\ pass'[d].accepted = accepted
          /\ pc'[d] = "pushed" /\ pc[d] = "send" /\ UNCHANGED localHead
      <3> HIDE DEF Pass
      <3> QED BY <1>1, <1>7 DEF SendPush, RunOK, Pass
    <2> QED BY <2>1, <2>2 DEF SeenAt, Passing, Phase
  <1>8. CASE SaveAccepted(d)
    <2>1. /\ pass'[d].seen = seen /\ pass'[d].batch = pass[d].batch
          /\ pass'[d].accepted = {} /\ pc'[d] = "pull" /\ pc[d] = "save"
      BY <1>1, <1>8 DEF SaveAccepted, RunOK, Pass
    <2>2. ASSUME NEW e \in Entity PROVE localHead'[d][e].rev <= seen[e] + 1
      <3> DEFINE m == CHOOSE m \in pass[d].accepted : m.ent = e
      <3>1. localHead[d][e].rev <= seen[e] + 1
        BY <2>1 DEF SeenAt, Passing, Phase
      <3>2. CASE \E n \in pass[d].accepted : n.ent = e
        <4>1. m \in pass[d].accepted /\ m.ent = e
          BY <3>2
        <4>2. localHead'[d][e] = Saved(localHead[d][e], HeadOf(m))
          BY <1>8, <3>2 DEF SaveAccepted, LocalOK
        <4> HIDE DEF m
        <4>3. m.rev <= seen[e] + 1
          BY <2>1, <4>1 DEF SeenAt, Passing, Phase
        <4> QED BY <3>1, <4>2, <4>3 DEF Saved, HeadOf
      <3>3. CASE ~ \E n \in pass[d].accepted : n.ent = e
        <4>1. localHead'[d][e] = localHead[d][e]
          BY <1>8, <3>3 DEF SaveAccepted, LocalOK
        <4> QED BY <3>1, <4>1
      <3> QED BY <3>2, <3>3
    <2>3. \A m \in pass[d].batch : m.rev <= seen[m.ent] + 1
      BY <2>1 DEF SeenAt, Passing, Phase
    <2> QED BY <2>1, <2>2, <2>3 DEF SeenAt
  <1>9. CASE SendPull(d)
    <2>1. /\ pass'[d].seen = seen /\ pass'[d].batch = pass[d].batch
          /\ pass'[d].accepted = pass[d].accepted
          /\ pc'[d] = "pulled" /\ pc[d] = "pull" /\ UNCHANGED localHead
      BY <1>1, <1>9 DEF SendPull, RunOK, Pass
    <2> QED BY <2>1 DEF SeenAt, Passing, Phase
  <1>10. CASE SkipRow(d) \/ PoisonRow(d)
    <2>1. pc'[d] = "pulled" /\ pc[d] \in {"pulled", "rowhead"} /\ UNCHANGED localHead
      BY <1>1, <1>10 DEF SkipRow, PoisonRow, Projecting, Applying, RunOK
    <2>2. pass' = [pass EXCEPT ![d].page = @ \ {r}]
      <3>1. CASE SkipRow(d)
        BY <3>1 DEF SkipRow
      <3>2. CASE PoisonRow(d)
        BY <3>2 DEF PoisonRow
      <3> QED BY <1>10, <3>1, <3>2
    <2>3. /\ pass'[d].seen = seen /\ pass'[d].batch = pass[d].batch
          /\ pass'[d].accepted = pass[d].accepted
      BY <1>1, <2>2 DEF RunOK, Pass
    <2> QED BY <2>1, <2>3 DEF SeenAt, Passing, Phase
  <1>11. CASE ImportRow(d)
    <2>1. /\ UNCHANGED <<pass, localHead>> /\ pc'[d] = "rowhead" /\ pc[d] = "pulled"
          /\ ~Stale(d, r)
      BY <1>11 DEF ImportRow, Projecting, RunOK
    <2>2. Stale(d, FirstRow(d))' = Stale(d, FirstRow(d))
      BY <2>1 DEF Stale, FirstRow
    <2> QED BY <2>1, <2>2 DEF SeenAt, Passing, Phase
  <1>12. CASE SaveRowHead(d)
    <2>1. pc[d] = "rowhead" /\ pass[d].page # {}
      BY <1>12 DEF SaveRowHead, PassOK
    <2>2. r.ent \in Entity /\ r.rev \in Nat
      BY <2>1, FirstRowOfPage DEF Revision
    <2>3. seen[r.ent] < r.rev
      BY <1>2, <2>1, <2>2 DEF SeenAt, Passing, Phase, Stale
    <2>4. /\ pass'[d].seen = [seen EXCEPT ![r.ent] = r.rev]
          /\ pass'[d].batch = pass[d].batch /\ pass'[d].accepted = pass[d].accepted
          /\ pc'[d] = "pulled"
      BY <1>1, <1>12 DEF SaveRowHead, RunOK, Pass
    <2>5. localHead'[d] = [localHead[d] EXCEPT ![r.ent] = Saved(@, HeadOf(r))]
      BY <1>12 DEF SaveRowHead, LocalOK
    <2> HIDE DEF r
    <2>6. ASSUME NEW e \in Entity PROVE localHead'[d][e].rev <= pass'[d].seen[e] + 1
      <3>1. localHead[d][e].rev <= seen[e] + 1
        BY <2>1 DEF SeenAt, Passing, Phase
      <3>2. CASE e = r.ent
        <4>1. localHead'[d][e] = Saved(localHead[d][e], HeadOf(r)) /\ pass'[d].seen[e] = r.rev
          BY <1>1, <2>4, <2>5, <3>2 DEF LocalOK
        <4> QED BY <1>2, <2>2, <2>3, <3>1, <3>2, <4>1 DEF Saved, HeadOf
      <3>3. CASE e # r.ent
        <4>1. localHead'[d][e] = localHead[d][e] /\ pass'[d].seen[e] = seen[e]
          BY <1>1, <2>4, <2>5, <3>3 DEF LocalOK
        <4> QED BY <3>1, <4>1
      <3> QED BY <3>2, <3>3
    <2>7. ASSUME NEW m \in pass[d].batch \cup pass[d].accepted
          PROVE  m.rev <= pass'[d].seen[m.ent] + 1
      <3>1. m.ent \in Entity /\ m.rev \in Nat
        BY <1>1 DEF Pass, Mutation, Revision
      <3>2. m.rev <= seen[m.ent] + 1
        BY <2>1 DEF SeenAt, Passing, Phase
      <3>3. pass'[d].seen[m.ent] \in {r.rev, seen[m.ent]}
            /\ (m.ent = r.ent => pass'[d].seen[m.ent] = r.rev)
            /\ (m.ent # r.ent => pass'[d].seen[m.ent] = seen[m.ent])
        BY <1>1, <2>4, <3>1
      <3> QED BY <1>2, <2>2, <2>3, <3>1, <3>2, <3>3
    <2> QED BY <2>4, <2>6, <2>7 DEF SeenAt
  <1>13. CASE CancelRun(d) \/ EnrollDevice(d) \/ \E e \in Entity, v \in Content : Edit(d, e, v)
    BY <1>4, <1>13 DEF CancelRun, EnrollDevice, Edit
  <1>14. CASE \/ StartRun(d) \/ Restart(d) \/ Crash(d) \/ StopRun(d) \/ Unreachable(d)
              \/ Denied(d) \/ PushThrows(d) \/ DatabaseRefuses(d) \/ LoseAnswer(d)
              \/ \E answers \in BOOLEAN : ProjectionThrows(d, answers)
    <2>1. pc'[d] \in {"idle", "collect"}
      BY <1>14 DEF StartRun, Restart, Crash, EndProcess, StopRun, Unreachable, Denied,
         PushThrows, DatabaseRefuses, LoseAnswer, ProjectionThrows, EndRun, RunOK
    <2> QED BY <1>3, <2>1 DEF Passing
  <1>15. CASE PushFindsReset(d) \/ PullFindsReset(d) \/ SaveReset(d) \/ FinishPass(d)
    <2>1. pc'[d] \in {"idle", "collect", "reset"}
      BY <1>15 DEF PushFindsReset, PullFindsReset, SaveReset, FinishPass, RunOK
    <2> QED BY <1>3, <2>1 DEF Passing
  <1> QED BY <1>5, <1>6, <1>7, <1>8, <1>9, <1>10, <1>11, <1>12, <1>13, <1>14, <1>15
      DEF Quiet, Requested, UserStep

\* What passes know of the heads stays in order in every behaviour.
LEMMA SeenInvariant == Spec => []SeenOK
  <1>1. Init => SeenOK
    BY DEF Init, SeenOK, SeenAt, Passing
  <1>2. Inv /\ SeenOK /\ [Next]_vars => SeenOK'
    <2> SUFFICES ASSUME Inv, SeenOK, [Next]_vars, NEW c \in Device
                 PROVE  SeenAt(c)'
      BY DEF SeenOK
    <2>1. SeenAt(c)
      BY DEF SeenOK
    <2>2. CASE AccountLost \/ UNCHANGED vars
      BY <2>1, <2>2, SeenFrame DEF AccountLost, deviceVars, vars
    <2>3. ASSUME NEW d \in Device, Quiet(d) \/ Requested(d)
          PROVE  SeenAt(c)'
      BY <2>1, <2>3, SeenStep, SeenFrame, OthersUntouched
    <2> QED BY <2>2, <2>3, StepKinds
  <1> QED BY <1>1, <1>2, SyncInvariance, PTL DEF Spec

\* Only an edit or the import of a row writes a row of the user's, and an
\* imported row is one the pass has not seen.
LEMMA ValStep ==
    ASSUME Inv, SeenOK, [Next]_vars, NEW d \in Device, NEW e \in Entity,
           val'[d][e] # val[d][e], edits' = edits
    PROVE  \E r \in pass[d].page : /\ r.ent = e /\ r.body.content = val'[d][e]
                                   /\ r.rev >= localHead[d][e].rev
  <1> USE DEF Inv
  <1>1. ~ UNCHANGED val
    OBVIOUS
  <1>2. PICK c \in Device : ImportRow(c)
    <2>1. ~AccountLost /\ ~UNCHANGED vars
      BY <1>1 DEF AccountLost, deviceVars, vars
    <2>2. PICK c \in Device : Quiet(c) \/ Requested(c)
      BY <2>1, StepKinds
    <2>3. ~Requested(c)
      BY <1>1 DEF Requested, EnrollDevice, SendPush, SendRefusedPush, LoseAnswer, SendPull
    <2>4. ~UserStep(c)
      <3>1. ~ \E f \in Entity, v \in Content : Edit(c, f, v)
        BY DEF Edit, LocalOK
      <3> QED BY <1>1, <3>1 DEF UserStep, StartRun, CancelRun, Restart, Crash, EndProcess
    <2>5. ImportRow(c)
      BY <1>1, <2>2, <2>3, <2>4 DEF Quiet, StopRun, Collect, SkipPush, Unreachable,
         Denied, PushThrows, DatabaseRefuses, PushFindsReset, PullFindsReset,
         SaveReset, TakePushAnswer, SaveAccepted, SkipRow, SaveRowHead,
         ProjectionThrows, PoisonRow, FinishPass
    <2> QED BY <2>5
  <1> DEFINE r == FirstRow(c)
  <1>3. pc[c] = "pulled" /\ pass[c].page # {} /\ ~Stale(c, r)
    BY <1>2 DEF ImportRow, Projecting
  <1>4. r \in pass[c].page /\ r.ent \in Entity /\ r.rev \in Nat
    BY <1>3, FirstRowOfPage DEF Revision
  <1>5. val' = [val EXCEPT ![c][r.ent] = r.body.content]
    BY <1>2 DEF ImportRow
  <1> HIDE DEF r
  <1>6. d = c /\ e = r.ent /\ val'[d][e] = r.body.content
    BY <1>4, <1>5 DEF LocalOK
  <1>7. localHead[c][e].rev <= pass[c].seen[e] + 1
    BY <1>3 DEF SeenOK, SeenAt, Passing, Phase
  <1>8. pass[c].seen[e] < r.rev
    <2>1. pass[c].seen[e] \in Nat
      BY ServerAssumption DEF RunOK, Pass
    <2> QED BY <1>3, <1>4, <1>6, <2>1 DEF Stale
  <1>9. localHead[c][e].rev \in Nat /\ pass[c].seen[e] \in Nat
    BY ServerAssumption DEF LocalOK, Head, RunOK, Pass
  <1> QED BY <1>4, <1>6, <1>7, <1>8, <1>9

\* No step takes a device back: its heads only grow, losses of the account
\* included, and only a row at least as new as its head overwrites a row
\* (applyMutation, saveSyncEntityHeads, forgetSyncEntityFingerprints).
THEOREM NothingRollsBack == Spec => NoRollback
  <1>1. Inv /\ SeenOK /\ [Next]_vars =>
           [\A d \in Device, e \in Entity :
              /\ localHead'[d][e].rev >= localHead[d][e].rev
              /\ val'[d][e] # val[d][e] /\ edits' = edits =>
                    \E r \in pass[d].page : /\ r.ent = e /\ r.body.content = val'[d][e]
                                            /\ r.rev >= localHead[d][e].rev]_vars
    BY HeadsGrow, ValStep
  <1> QED BY <1>1, SyncInvariance, SeenInvariant, PTL DEF Spec, NoRollback

(***************************************************************************)
(* No row is skipped. Below the cursor of the account that is there now,   *)
(* everything the vault holds has been projected or cannot be; while a     *)
(* page is being projected, the same is true below the page's end but for  *)
(* the rows still on the page. An epoch a device remembers is never ahead  *)
(* of the vault's, so a new account makes every remembered cursor void.    *)
(***************************************************************************)

Covered(d, r) == r.body.content \in Bad \/ localHead[d][r.ent].rev >= r.rev

EpochOK == live => epoch >= 1

CursorAt(d) ==
    /\ knownEpoch[d] <= epoch
    /\ knownEpoch[d] = 0 => cursor[d] = 0
    /\ Current(d) => /\ cursor[d] <= lastSeq
                     /\ \A r \in log : r.seq <= cursor[d] => Covered(d, r)

Answered == {"pushed", "pulled", "rowhead", "reset"}

KnowAt(d) ==
    /\ pass[d].epoch <= epoch
    /\ pc[d] \in Answered => pass[d].epoch >= 1
    /\ pc[d] \in Passing =>
          /\ pass[d].base \in {0, knownEpoch[d]}
          /\ pass[d].base = 0 => cursor[d] = 0
          /\ \A e \in Entity : pass[d].seen[e] <= localHead[d][e].rev

AtPage == {"pulled", "rowhead"}

PageAt(d) ==
    pc[d] \in AtPage /\ live /\ pass[d].epoch = epoch /\ ~ServerReset(d) =>
        /\ pass[d].next <= lastSeq
        /\ \A r \in log : r.seq <= pass[d].next => r \in pass[d].page \/ Covered(d, r)

SkipAt(d) == CursorAt(d) /\ KnowAt(d) /\ PageAt(d)

SkipInv == EpochOK /\ \A d \in Device : SkipAt(d)

\* What a step of the vault may do to epoch and log: as long as the account
\* lives its rows are only taken out or appended past the end; an account made
\* anew has an epoch nobody knows.
VaultMoves ==
    /\ epoch \in Nat /\ epoch' \in Nat /\ lastSeq \in Nat /\ lastSeq' \in Nat
    /\ epoch <= epoch'
    /\ live' => epoch' >= 1
    /\ live' /\ epoch' = epoch =>
          /\ live
          /\ lastSeq <= lastSeq'
          /\ \A r \in log' : r \in log \/ r.seq > lastSeq

LEMMA VaultStep ==
    ASSUME Inv, EpochOK, [ServerNext]_serverVars
    PROVE  VaultMoves
  <1>1. TypeOK /\ TypeOK'
    BY StepServerOK DEF Inv, ServerOK, IInv
  <1>2. epoch \in Nat /\ epoch' \in Nat /\ lastSeq \in Nat /\ lastSeq' \in Nat
    BY <1>1 DEF TypeOK
  <1>3. CASE UNCHANGED serverVars
    BY <1>2, <1>3 DEF VaultMoves, EpochOK, serverVars
  <1>4. CASE Passage
    BY <1>2, <1>4 DEF VaultMoves, EpochOK, Passage, WindowPasses, LoseAccount, GoIdle
  <1>5. ASSUME NEW d \in Device, DeviceRequest(d) PROVE VaultMoves
    <2>1. CASE Enroll(d)
      BY <1>2, <2>1 DEF VaultMoves, EpochOK, Enroll
    <2>2. ASSUME NEW by \in Device, Revoke(by, d) PROVE VaultMoves
      BY <1>2, <2>2 DEF VaultMoves, EpochOK, Revoke
    <2>3. ASSUME NEW b \in Batch, PushRefused(d, b) PROVE VaultMoves
      BY <1>2, <2>3 DEF VaultMoves, EpochOK, PushRefused
    <2>4. ASSUME NEW scope \in Scope, NEW c \in 0..MaxSequence, Pull(d, scope, c)
          PROVE  VaultMoves
      <3>1. log' \subseteq log
        BY <2>4 DEF Pull, Compact
      <3>2. UNCHANGED <<live, epoch, lastSeq>> /\ live
        BY <2>4 DEF Pull, Authentic
      <3> QED BY <1>2, <3>1, <3>2 DEF VaultMoves, EpochOK
    <2>5. ASSUME NEW b \in Batch, PushTaken(d, b) PROVE VaultMoves
      <3> DEFINE rows == Compact(log, Seen(d), ack)
                 new == Fresh(b, rows)
      <3>1. Cardinality(new) \in Nat
        BY BatchFinite DEF Fresh
      <3>2. rows \subseteq log
        BY DEF Compact
      <3>3. lastSeq' = lastSeq + Cardinality(new) /\ UNCHANGED <<live, epoch>> /\ live
        BY <2>5 DEF PushTaken, Authentic
      <3>4. PICK pos \in Numbering(new) : log' = rows \cup AppendRows(new, pos)
        BY <2>5 DEF PushTaken
      <3> HIDE DEF rows, new
      <3>5. \A r \in AppendRows(new, pos) : r.seq > lastSeq
        <4>1. \A m \in new : pos[m] > lastSeq
          BY <1>2, <3>1 DEF Numbering
        <4> QED BY <4>1 DEF AppendRows
      <3> QED BY <1>2, <3>1, <3>2, <3>3, <3>4, <3>5 DEF VaultMoves, EpochOK
    <2> QED BY <1>5, <2>1, <2>2, <2>3, <2>4, <2>5 DEF DeviceRequest
  <1> QED BY <1>3, <1>4, <1>5 DEF ServerNext

\* A row once covered stays so.
LEMMA CoveredStays ==
    ASSUME Inv, [Next]_vars, NEW d \in Device, NEW r \in Row, Covered(d, r)
    PROVE  Covered(d, r)'
  <1>1. r.ent \in Entity /\ r.rev \in Nat
    BY DEF Row, Revision
  <1>2. localHead[d][r.ent].rev \in Nat /\ localHead'[d][r.ent].rev \in Nat
    <2>1. LocalOK /\ LocalOK'
      BY StepInv DEF Inv
    <2>2. localHead[d][r.ent] \in Head /\ localHead'[d][r.ent] \in Head
      BY <1>1, <2>1 DEF LocalOK
    <2> QED BY <2>2, ServerAssumption DEF Head
  <1>3. localHead'[d][r.ent].rev >= localHead[d][r.ent].rev
    BY <1>1, HeadsGrow
  <1> QED BY <1>1, <1>2, <1>3 DEF Covered

\* A device whose cursor and epoch stay as they are.
LEMMA CursorKept ==
    ASSUME Inv, [Next]_vars, VaultMoves, NEW d \in Device, CursorAt(d),
           knownEpoch'[d] = knownEpoch[d], cursor'[d] = cursor[d]
    PROVE  CursorAt(d)'
  <1>1. knownEpoch[d] \in Nat /\ cursor[d] \in Nat
    BY ServerAssumption DEF Inv, LocalOK
  <1>2. CASE ~Current(d)'
    BY <1>1, <1>2 DEF CursorAt, VaultMoves
  <1>3. CASE Current(d)'
    <2>1. live' /\ epoch' = epoch /\ knownEpoch[d] = epoch
      BY <1>1, <1>3 DEF Current, CursorAt, VaultMoves
    <2>2. Current(d)
      BY <2>1 DEF Current, VaultMoves
    <2>3. ASSUME NEW r \in log', r.seq <= cursor[d] PROVE Covered(d, r)'
      <3>1. log' \subseteq Row
        BY StepInv DEF Inv, ServerOK, IInv, TypeOK
      <3>2. r \in log
        BY <1>1, <2>1, <2>2, <2>3, <3>1 DEF VaultMoves, CursorAt, Row
      <3> QED BY <2>2, <2>3, <3>1, <3>2, CoveredStays DEF CursorAt
    <2> QED BY <1>1, <2>1, <2>2, <2>3 DEF CursorAt, VaultMoves
  <1> QED BY <1>2, <1>3

\* A run that knows what it knew; its heads may have grown.
LEMMA KnowKept ==
    ASSUME Inv, [Next]_vars, VaultMoves, NEW d \in Device, KnowAt(d),
           knownEpoch'[d] = knownEpoch[d], cursor'[d] = cursor[d],
           pass'[d].base = pass[d].base, pass'[d].epoch = pass[d].epoch,
           pc'[d] \in Answered => pc[d] \in Answered,
           pc'[d] \in Passing => pc[d] \in Passing,
           \A e \in Entity : \/ pass'[d].seen[e] = pass[d].seen[e]
                             \/ pass'[d].seen[e] <= localHead'[d][e].rev
    PROVE  KnowAt(d)'
  <1>1. pass[d].epoch \in Nat
    BY DEF Inv, RunOK, Pass
  <1>2. ASSUME NEW e \in Entity, pc'[d] \in Passing
        PROVE  pass'[d].seen[e] <= localHead'[d][e].rev
    <2>1. pass[d].seen[e] \in Nat
      BY ServerAssumption DEF Inv, RunOK, Pass
    <2>2. localHead[d][e].rev \in Nat /\ localHead'[d][e].rev \in Nat
      <3>1. LocalOK /\ LocalOK'
        BY StepInv DEF Inv
      <3>2. localHead[d][e] \in Head /\ localHead'[d][e] \in Head
        BY <3>1 DEF LocalOK
      <3> QED BY <3>2, ServerAssumption DEF Head
    <2>3. pass[d].seen[e] <= localHead[d][e].rev
      BY <1>2 DEF KnowAt
    <2>4. localHead'[d][e].rev >= localHead[d][e].rev
      BY HeadsGrow
    <2> QED BY <2>1, <2>2, <2>3, <2>4
  <1> QED BY <1>1, <1>2 DEF KnowAt, VaultMoves

\* A page that loses only rows that are covered by then.
LEMMA PageKept ==
    ASSUME Inv, [Next]_vars, VaultMoves, NEW d \in Device, KnowAt(d), PageAt(d),
           pc'[d] \in AtPage => pc[d] \in AtPage,
           pass'[d].base = pass[d].base, pass'[d].epoch = pass[d].epoch,
           pass'[d].next = pass[d].next,
           \A r \in pass[d].page \ pass'[d].page : Covered(d, r)'
    PROVE  PageAt(d)'
  <1>1. pass[d].epoch \in Nat /\ pass[d].next \in Nat
    BY DEF Inv, RunOK, Pass
  <1>2. ServerReset(d)' = ServerReset(d)
    BY DEF ServerReset
  <1> SUFFICES ASSUME pc[d] \in AtPage, live', pass[d].epoch = epoch', ~ServerReset(d)
               PROVE  /\ pass[d].next <= lastSeq'
                      /\ \A r \in log' : r.seq <= pass[d].next =>
                            r \in pass'[d].page \/ Covered(d, r)'
    BY <1>2 DEF PageAt, AtPage
  <1>3. epoch' = epoch /\ live
    BY <1>1 DEF KnowAt, VaultMoves
  <1>4. /\ pass[d].next <= lastSeq
        /\ \A r \in log : r.seq <= pass[d].next => r \in pass[d].page \/ Covered(d, r)
    BY <1>3 DEF PageAt, AtPage
  <1>5. ASSUME NEW r \in log', r.seq <= pass[d].next
        PROVE  r \in pass'[d].page \/ Covered(d, r)'
    <2>1. log' \subseteq Row
      BY StepInv DEF Inv, ServerOK, IInv, TypeOK
    <2>2. r \in log
      BY <1>1, <1>3, <1>4, <1>5, <2>1 DEF VaultMoves, Row
    <2> QED BY <1>4, <1>5, <2>1, <2>2, CoveredStays
  <1> QED BY <1>1, <1>3, <1>4, <1>5 DEF VaultMoves

\* The vault's answer to a pull: no row between the cursor and the end of the
\* page is missing from the page.
LEMMA PageComplete ==
    ASSUME Inv, NEW c \in Nat, NEW r \in log,
           r.seq > c, r.seq <= NextCursor(OwnProfile, c)
    PROVE  r \in Page(OwnProfile, c)
  <1> DEFINE rows == Beyond(OwnProfile, After(c))
             page == Page(OwnProfile, c)
             before(q) == {x \in rows : x.seq < q.seq}
  <1>1. TypeOK /\ LogFollowsHeads
    BY DEF Inv, ServerOK, IInv
  <1>2. lastSeq \in Nat /\ log \subseteq Row
    BY <1>1 DEF TypeOK
  <1>3. After(c) \in Nat /\ After(c) <= c
    BY <1>2 DEF After
  <1>4. r.seq \in Nat /\ r.seq > After(c)
    BY <1>2, <1>3 DEF Row
  <1>5. r \in rows
    <2>1. ProfileOf[r.ent] = OwnProfile
      BY <1>2, ClientAssumption DEF Row
    <2> QED BY <1>4, <2>1 DEF Beyond
  <1>6. IsFiniteSet(rows)
    <2> DEFINE f == [q \in rows |-> q.seq]
    <2>1. rows \subseteq log
      BY DEF Beyond
    <2>2. \A q \in log : q.seq \in 1..lastSeq
      BY <1>1 DEF LogFollowsHeads
    <2>3. \A q, s \in log : q.seq = s.seq => q = s
      BY <1>1 DEF LogFollowsHeads
    <2> HIDE DEF rows
    <2>4. f \in Injection(rows, 1..lastSeq)
      BY <2>1, <2>2, <2>3 DEF Injection, IsInjective
    <2>5. IsFiniteSet(1..lastSeq)
      BY <1>2, FS_Interval
    <2> QED BY <2>4, <2>5, FS_Injection
  <1>7. page # {}
    BY <1>3, <1>4 DEF NextCursor
  <1>8. PICK p \in page : r.seq <= p.seq
    <2> DEFINE seqs == {q.seq : q \in page}
    <2>1. page \subseteq log
      BY DEF Page, Beyond
    <2>2. seqs \subseteq 0..lastSeq /\ seqs # {}
      BY <1>1, <1>2, <1>7, <2>1 DEF LogFollowsHeads
    <2>3. \E n \in seqs : \A m \in seqs : m <= n
      BY <1>2, <2>2, LargestBelow
    <2>4. \E n \in seqs : \A q \in page : q.seq <= n
      BY <2>3
    <2>5. NextCursor(OwnProfile, c) \in seqs
      BY <1>7, <2>4 DEF NextCursor
    <2> QED BY <2>5
  <1>9. p \in rows /\ Cardinality(before(p)) < PullLimit
    BY DEF Page
  <1>10. before(r) \subseteq before(p)
    <2> SUFFICES ASSUME NEW x \in rows, x.seq < r.seq PROVE x.seq < p.seq
      OBVIOUS
    <2>1. x.seq \in Nat /\ p.seq \in Nat
      BY <1>2, <1>9 DEF Beyond, Row
    <2> QED BY <1>4, <1>8, <2>1
  <1>11. Cardinality(before(r)) < PullLimit
    <2>1. IsFiniteSet(before(p))
      BY <1>6, FS_Subset
    <2> HIDE DEF before
    <2>2. Cardinality(before(r)) <= Cardinality(before(p)) /\ IsFiniteSet(before(r))
      BY <1>10, <2>1, FS_Subset
    <2>3. Cardinality(before(r)) \in Nat /\ Cardinality(before(p)) \in Nat
      BY <2>1, <2>2, FS_CardinalityType
    <2> QED BY <1>9, <2>2, <2>3, ServerAssumption
  <1> QED BY <1>5, <1>11 DEF Page

\* The answer of a pull leaves everything below the page's end on the page or
\* covered: what lies below the cursor is, if the cursor is of this account.
LEMMA PullSkips ==
    ASSUME Inv, [Next]_vars, VaultMoves, NEW d \in Device, SendPull(d),
           CursorAt(d), KnowAt(d)
    PROVE  KnowAt(d)' /\ PageAt(d)'
  <1> DEFINE next == NextCursor(OwnProfile, cursor[d])
             page == Page(OwnProfile, cursor[d])
  <1>1. pass[d] \in Pass /\ cursor[d] \in Nat /\ knownEpoch[d] \in Nat
    BY ServerAssumption DEF Inv, RunOK, LocalOK
  <1>2. /\ pass'[d].base = pass[d].base /\ pass'[d].seen = pass[d].seen
        /\ pass'[d].page = page /\ pass'[d].next = next /\ pass'[d].epoch = epoch
        /\ pc'[d] = "pulled" /\ pc[d] = "pull"
        /\ UNCHANGED <<knownEpoch, cursor, localHead>>
    BY <1>1 DEF SendPull, Inv, RunOK, Pass
  <1>3. live /\ live' /\ epoch' = epoch /\ lastSeq' = lastSeq /\ log' \subseteq log
    BY DEF SendPull, Pull, Authentic, Compact
  <1>4. KnowAt(d)'
    <2>1. epoch' >= 1
      BY <1>3 DEF VaultMoves
    <2> QED BY <1>2, <1>3, <2>1 DEF KnowAt, VaultMoves, Passing, Phase
  <1>5. next \in 0..lastSeq
    BY <1>1, NextCursorBounded, ClientAssumption DEF Inv, ServerOK, IInv, Scope
  <1> HIDE DEF next, page
  <1>6. ASSUME ~ServerReset(d)', NEW r \in log', r.seq <= next
        PROVE  r \in page \/ Covered(d, r)'
    <2>1. r \in log /\ r \in Row /\ r.seq \in Nat /\ r.seq >= 1
      <3>1. log \subseteq Row /\ \A q \in log : q.seq \in 1..lastSeq
        BY DEF Inv, ServerOK, IInv, TypeOK, LogFollowsHeads
      <3> QED BY <1>3, <3>1 DEF Row
    <2>2. CASE r.seq > cursor[d]
      BY <1>1, <1>6, <2>1, <2>2, PageComplete DEF next, page
    <2>3. CASE r.seq <= cursor[d]
      <3>1. pass[d].base # 0
        BY <1>1, <1>2, <2>1, <2>3 DEF KnowAt, Passing, Phase
      <3>2. pass[d].base = epoch
        BY <1>2, <1>6, <3>1 DEF ServerReset
      <3>3. Current(d)
        BY <1>2, <1>3, <3>1, <3>2 DEF Current, KnowAt, Passing, Phase
      <3> QED BY <2>1, <2>3, <3>3, CoveredStays DEF CursorAt
    <2> QED BY <1>1, <2>1, <2>2, <2>3
  <1>7. PageAt(d)'
    BY <1>2, <1>3, <1>5, <1>6 DEF PageAt, AtPage
  <1> QED BY <1>4, <1>7

\* A run that has ended, or begins anew, has nothing to keep but its cursor.
LEMMA BetweenPasses ==
    ASSUME Inv, VaultMoves, NEW d \in Device, KnowAt(d),
           pc'[d] \in {"idle", "collect"}, pass'[d] \in {Empty, pass[d]}
    PROVE  KnowAt(d)' /\ PageAt(d)'
  <1>1. pass[d].epoch \in Nat
    BY DEF Inv, RunOK, Pass
  <1>2. pass'[d].epoch \in {0, pass[d].epoch}
    BY DEF Empty
  <1> QED BY <1>1, <1>2 DEF KnowAt, PageAt, AtPage, VaultMoves, Answered, Passing

\* Cursor and epoch are written at three places.
LEMMA CursorWritten ==
    ASSUME NEW d \in Device, Quiet(d) \/ Requested(d)
    PROVE  \/ UNCHANGED <<cursor, knownEpoch>>
           \/ TakePushAnswer(d) \/ SaveReset(d) \/ FinishPass(d)
  <1>1. CASE UserStep(d)
    BY <1>1 DEF UserStep, Edit, StartRun, CancelRun, Restart, Crash, EndProcess
  <1>2. CASE Requested(d)
    BY <1>2 DEF Requested, EnrollDevice, SendPush, SendRefusedPush, LoseAnswer, SendPull
  <1>3. CASE Quiet(d) /\ ~UserStep(d)
    BY <1>3 DEF Quiet, StopRun, Collect, SkipPush, Unreachable, Denied, PushThrows,
       DatabaseRefuses, PushFindsReset, SaveAccepted, SkipRow, ImportRow,
       SaveRowHead, ProjectionThrows, PoisonRow, PullFindsReset
  <1> QED BY <1>1, <1>2, <1>3

\* Ends of runs and processes.
LEMMA SkipEnds ==
    ASSUME Inv, [Next]_vars, VaultMoves, NEW d \in Device, SkipAt(d),
           \/ StartRun(d) \/ Restart(d) \/ Crash(d) \/ StopRun(d) \/ Unreachable(d)
           \/ Denied(d) \/ PushThrows(d) \/ DatabaseRefuses(d) \/ LoseAnswer(d)
           \/ \E answers \in BOOLEAN : ProjectionThrows(d, answers)
    PROVE  SkipAt(d)'
  <1>1. pc'[d] \in {"idle", "collect"} /\ pass'[d] \in {Empty, pass[d]}
    BY DEF StartRun, Restart, Crash, EndProcess, StopRun, Unreachable, Denied,
       PushThrows, DatabaseRefuses, LoseAnswer, ProjectionThrows, EndRun, Inv, RunOK
  <1>2. UNCHANGED <<cursor, knownEpoch>>
    BY DEF StartRun, Restart, Crash, EndProcess, StopRun, Unreachable, Denied,
       PushThrows, DatabaseRefuses, LoseAnswer, ProjectionThrows
  <1> QED BY <1>1, <1>2, CursorKept, BetweenPasses DEF SkipAt

\* Steps that leave what the run knows alone and are nowhere near a page.
LEMMA SkipMoves ==
    ASSUME Inv, [Next]_vars, VaultMoves, NEW d \in Device, SkipAt(d),
           \/ SkipPush(d) \/ SendRefusedPush(d) \/ SaveAccepted(d)
           \/ PushFindsReset(d) \/ PullFindsReset(d)
    PROVE  SkipAt(d)'
  <1>1. UNCHANGED <<cursor, knownEpoch>>
    BY DEF SkipPush, SendRefusedPush, SaveAccepted, PushFindsReset, PullFindsReset
  <1>2. /\ pass'[d].base = pass[d].base /\ pass'[d].epoch = pass[d].epoch
        /\ pass'[d].seen = pass[d].seen
    <2>1. pass' = pass \/ pass' = [pass EXCEPT ![d].accepted = {}]
      BY DEF SkipPush, SendRefusedPush, SaveAccepted, PushFindsReset, PullFindsReset
    <2>2. pass[d] \in Pass
      BY DEF Inv, RunOK
    <2> QED BY <2>1, <2>2 DEF Inv, RunOK, Pass
  <1>3. /\ pc'[d] \in {"pull", "refused", "reset"}
        /\ pc'[d] \in Answered => pc[d] \in Answered
        /\ pc'[d] \in Passing => pc[d] \in Passing
    BY DEF SkipPush, SendRefusedPush, SaveAccepted, PushFindsReset, PullFindsReset,
       Projected, Answered, Passing, Phase, Inv, RunOK
  <1>4. KnowAt(d)'
    BY <1>1, <1>2, <1>3, KnowKept DEF SkipAt
  <1>5. PageAt(d)'
    BY <1>3 DEF PageAt, AtPage
  <1> QED BY <1>1, <1>4, <1>5, CursorKept DEF SkipAt

\* A pass begins with the cursor and the heads of that moment.
LEMMA SkipCollect ==
    ASSUME Inv, [Next]_vars, VaultMoves, NEW d \in Device, SkipAt(d), Collect(d)
    PROVE  SkipAt(d)'
  <1>1. /\ UNCHANGED <<serverVars, cursor, knownEpoch, localHead>>
        /\ pc'[d] = "send"
    BY DEF Collect, Inv, RunOK
  <1>2. PICK es \in Collectable(d) :
           pass' = [pass EXCEPT ![d] =
                 [Empty EXCEPT !.batch = {Sealed(d, e) : e \in es},
                               !.seen = [e \in Entity |-> localHead[d][e].rev],
                               !.base = knownEpoch[d]]]
    BY DEF Collect
  <1>3. /\ pass'[d].seen = [e \in Entity |-> localHead[d][e].rev]
        /\ pass'[d].base = knownEpoch[d] /\ pass'[d].epoch = 0
    BY <1>2 DEF Inv, RunOK, Empty
  <1>4. \A e \in Entity : localHead[d][e].rev \in Nat
    BY ServerAssumption DEF Inv, LocalOK, Head
  <1>5. KnowAt(d)'
    BY <1>1, <1>3, <1>4 DEF SkipAt, CursorAt, KnowAt, VaultMoves, Answered
  <1>6. PageAt(d)'
    BY <1>1 DEF PageAt, AtPage
  <1> QED BY <1>1, <1>5, <1>6, CursorKept DEF SkipAt

\* A push is answered by the account that is there.
LEMMA SkipPushed ==
    ASSUME Inv, [Next]_vars, VaultMoves, NEW d \in Device, SkipAt(d), SendPush(d)
    PROVE  SkipAt(d)'
  <1>1. pass[d] \in Pass
    BY DEF Inv, RunOK
  <1>2. /\ pass'[d].base = pass[d].base /\ pass'[d].seen = pass[d].seen
        /\ pass'[d].epoch = epoch /\ pc'[d] = "pushed" /\ pc[d] = "send"
        /\ UNCHANGED <<cursor, knownEpoch, localHead>>
    <2> HIDE DEF Pass
    <2> QED BY <1>1 DEF SendPush, Inv, RunOK, Pass
  <1>3. live' /\ epoch' = epoch
    BY DEF SendPush, PushTaken, Authentic
  <1>4. KnowAt(d)'
    BY <1>2, <1>3 DEF SkipAt, KnowAt, VaultMoves, Passing, Phase
  <1>5. PageAt(d)'
    BY <1>2 DEF PageAt, AtPage
  <1> QED BY <1>2, <1>4, <1>5, CursorKept DEF SkipAt

\* A cursor of nothing skips nothing.
LEMMA CursorOfNothing ==
    ASSUME Inv, NEW d \in Device, UNCHANGED serverVars,
           cursor'[d] = 0, knownEpoch'[d] \in Nat \ {0}, knownEpoch'[d] <= epoch
    PROVE  CursorAt(d)'
  <1>1. lastSeq \in Nat /\ \A r \in log : r.seq \in 1..lastSeq
    BY DEF Inv, ServerOK, IInv, TypeOK, LogFollowsHeads
  <1>2. UNCHANGED <<live, epoch, log, lastSeq>>
    BY DEF serverVars
  <1> QED BY <1>1, <1>2 DEF CursorAt, Current

\* The epoch of a push's answer is remembered, and the cursor with it.
LEMMA SkipAnswered ==
    ASSUME Inv, [Next]_vars, VaultMoves, NEW d \in Device, SkipAt(d), TakePushAnswer(d)
    PROVE  SkipAt(d)'
  <1>1. /\ UNCHANGED <<serverVars, cursor, localHead, pass>>
        /\ knownEpoch'[d] = pass[d].epoch
        /\ pc'[d] = "save" /\ pc[d] = "pushed" /\ ~ServerReset(d)
    BY DEF TakePushAnswer, Inv, RunOK, LocalOK
  <1>2. pass[d].epoch \in Nat /\ pass[d].base \in Nat
    BY DEF Inv, RunOK, Pass
  <1>3. pass[d].epoch >= 1 /\ pass[d].epoch <= epoch
    BY <1>1 DEF SkipAt, KnowAt, Answered
  <1>4. CASE pass[d].base = 0
    <2>1. cursor[d] = 0
      BY <1>1, <1>4 DEF SkipAt, KnowAt, Passing, Phase
    <2>2. CursorAt(d)'
      BY <1>1, <1>2, <1>3, <2>1, CursorOfNothing
    <2>3. KnowAt(d)'
      BY <1>1, <1>2, <1>3, <1>4, <2>1 DEF SkipAt, KnowAt, serverVars, Answered, Passing, Phase
    <2> QED BY <1>1, <2>2, <2>3 DEF SkipAt, PageAt, AtPage
  <1>5. CASE pass[d].base # 0
    <2>1. pass[d].base = pass[d].epoch /\ pass[d].base = knownEpoch[d]
      BY <1>1, <1>5 DEF ServerReset, SkipAt, KnowAt, Passing, Phase
    <2>2. knownEpoch'[d] = knownEpoch[d] /\ cursor'[d] = cursor[d]
      BY <1>1, <2>1
    <2>3. CursorAt(d)'
      BY <2>2, CursorKept DEF SkipAt
    <2>4. KnowAt(d)'
      <3>1. pc'[d] \notin Answered /\ pc[d] \in Passing
        BY <1>1 DEF Answered, Passing, Phase
      <3> QED BY <1>1, <2>2, <3>1, KnowKept DEF SkipAt
    <2> QED BY <1>1, <2>3, <2>4 DEF SkipAt, PageAt, AtPage
  <1> QED BY <1>4, <1>5

\* After a reset the device begins from nothing.
LEMMA SkipReset ==
    ASSUME Inv, [Next]_vars, VaultMoves, NEW d \in Device, SkipAt(d), SaveReset(d)
    PROVE  SkipAt(d)'
  <1>1. /\ UNCHANGED serverVars /\ cursor'[d] = 0 /\ knownEpoch'[d] = pass[d].epoch
        /\ pc'[d] \in {"idle", "collect"} /\ pc[d] = "reset" /\ pass'[d] = Empty
    BY DEF SaveReset, Inv, RunOK, LocalOK
  <1>2. pass[d].epoch \in Nat
    BY DEF Inv, RunOK, Pass
  <1>3. pass[d].epoch >= 1 /\ pass[d].epoch <= epoch
    BY <1>1 DEF SkipAt, KnowAt, Answered
  <1>4. CursorAt(d)'
    BY <1>1, <1>2, <1>3, CursorOfNothing
  <1> QED BY <1>1, <1>4, BetweenPasses DEF SkipAt

\* The cursor moves to the end of a page that is empty by then.
LEMMA SkipFinish ==
    ASSUME Inv, [Next]_vars, VaultMoves, NEW d \in Device, SkipAt(d), FinishPass(d)
    PROVE  SkipAt(d)'
  <1>1. /\ UNCHANGED <<serverVars, localHead>>
        /\ cursor'[d] = pass[d].next /\ knownEpoch'[d] = pass[d].epoch
        /\ pc[d] = "pulled" /\ pass[d].page = {} /\ ~ServerReset(d)
        /\ pc'[d] \in {"idle", "collect"} /\ pass'[d] = Empty
    BY DEF FinishPass, Projected, Inv, RunOK, LocalOK
  <1>2. pass[d].epoch \in Nat
    BY DEF Inv, RunOK, Pass
  <1>3. pass[d].epoch >= 1 /\ pass[d].epoch <= epoch
    BY <1>1 DEF SkipAt, KnowAt, Answered
  <1>4. CursorAt(d)'
    <2>1. UNCHANGED <<live, epoch, log, lastSeq>>
      BY <1>1 DEF serverVars
    <2>2. live /\ pass[d].epoch = epoch =>
             /\ pass[d].next <= lastSeq
             /\ \A r \in log : r.seq <= pass[d].next => Covered(d, r)
      BY <1>1 DEF SkipAt, PageAt, AtPage
    <2> QED BY <1>1, <1>2, <1>3, <2>1, <2>2 DEF CursorAt, Current, Covered
  <1> QED BY <1>1, <1>4, BetweenPasses DEF SkipAt

\* The other steps that leave the run where it is, and the import of a row,
\* whose head is still to be saved.
LEMMA SkipStays ==
    ASSUME Inv, [Next]_vars, VaultMoves, NEW d \in Device, SkipAt(d),
           \/ UNCHANGED <<pc, pass, cursor, knownEpoch>>
           \/ ImportRow(d)
    PROVE  SkipAt(d)'
  <1>1. UNCHANGED <<pass, cursor, knownEpoch>>
    BY DEF ImportRow
  <1>2. pc'[d] = pc[d] \/ (pc'[d] = "rowhead" /\ pc[d] = "pulled")
    BY DEF ImportRow, Projecting, Inv, RunOK
  <1>3. KnowAt(d)'
    BY <1>1, <1>2, KnowKept DEF SkipAt, Answered, Passing, Phase
  <1>4. PageAt(d)'
    BY <1>1, <1>2, PageKept DEF SkipAt, AtPage
  <1> QED BY <1>1, <1>3, <1>4, CursorKept DEF SkipAt

\* A row leaves the page when it is old, projected, or beyond projecting.
LEMMA SkipRows ==
    ASSUME "flicker" \notin Faults,
           Inv, [Next]_vars, VaultMoves, NEW d \in Device, SkipAt(d),
           SkipRow(d) \/ SaveRowHead(d) \/ PoisonRow(d)
    PROVE  SkipAt(d)'
  <1> DEFINE seen == pass[d].seen
  <1>0. PICK r : r = FirstRow(d)
    OBVIOUS
  <1>1. pass[d] \in Pass /\ seen \in [Entity -> 0..MaxRevision]
    BY DEF Inv, RunOK, Pass
  <1>2. pc[d] \in AtPage /\ pass[d].page # {}
    BY DEF SkipRow, SaveRowHead, PoisonRow, Applying, Projecting, AtPage, Inv, PassOK
  <1>3. pc'[d] = "pulled" /\ UNCHANGED <<cursor, knownEpoch>>
    BY <1>2 DEF SkipRow, SaveRowHead, PoisonRow, Applying, Projecting, AtPage, Inv, RunOK
  <1>4. r.ent \in Entity /\ r.rev \in Nat
    BY <1>0, <1>2, FirstRowOfPage DEF Inv, Revision
  <1>5. /\ pass'[d].base = pass[d].base /\ pass'[d].epoch = pass[d].epoch
        /\ pass'[d].next = pass[d].next /\ pass'[d].page = pass[d].page \ {r}
    <2>1. \/ pass' = [pass EXCEPT ![d].page = @ \ {r}]
          \/ pass' = [pass EXCEPT ![d].page = @ \ {r}, ![d].seen[r.ent] = r.rev]
      BY <1>0 DEF SkipRow, SaveRowHead, PoisonRow
    <2> QED BY <1>1, <2>1 DEF Inv, RunOK, Pass
  <1>6. localHead[d][r.ent].rev \in Nat
    BY <1>4, ServerAssumption DEF Inv, LocalOK, Head
  <1>7. Covered(d, r)' /\ \A e \in Entity : \/ pass'[d].seen[e] = seen[e]
                                            \/ pass'[d].seen[e] <= localHead'[d][e].rev
    <2>1. CASE SkipRow(d)
      <3>1. seen[r.ent] >= r.rev /\ UNCHANGED localHead
        BY <1>0, <2>1 DEF SkipRow, Stale
      <3>2. seen[r.ent] <= localHead[d][r.ent].rev
        BY <1>2, <1>4 DEF SkipAt, KnowAt, AtPage, Passing, Phase
      <3>3. seen[r.ent] \in Nat
        BY <1>1, <1>4, ServerAssumption
      <3>4. localHead[d][r.ent].rev >= r.rev
        BY <1>4, <1>6, <3>1, <3>2, <3>3
      <3>5. pass'[d].seen = seen
        BY <1>1, <2>1 DEF SkipRow, Inv, RunOK, Pass
      <3> QED BY <3>1, <3>4, <3>5 DEF Covered
    <2>2. CASE PoisonRow(d)
      <3>1. r.body.content \in Bad
        BY <1>0, <2>2 DEF PoisonRow, Throws
      <3>2. pass'[d].seen = seen
        BY <1>1, <2>2 DEF PoisonRow, Inv, RunOK, Pass
      <3> QED BY <3>1, <3>2 DEF Covered
    <2>3. CASE SaveRowHead(d)
      <3>1. localHead'[d][r.ent] = Saved(localHead[d][r.ent], HeadOf(r))
        BY <1>0, <1>4, <2>3 DEF SaveRowHead, Inv, LocalOK
      <3>2. localHead'[d][r.ent].rev >= r.rev
        BY <1>4, <1>6, <3>1 DEF Saved, HeadOf
      <3>3. pass'[d].seen = [seen EXCEPT ![r.ent] = r.rev]
        BY <1>0, <1>1, <2>3 DEF SaveRowHead, Inv, RunOK, Pass
      <3>4. localHead'[d][r.ent].rev \in Nat
        BY <1>4, <1>6, <3>1 DEF Saved, HeadOf
      <3>5. ASSUME NEW e \in Entity
            PROVE  pass'[d].seen[e] = seen[e] \/ pass'[d].seen[e] <= localHead'[d][e].rev
        BY <1>1, <1>4, <3>2, <3>3, <3>4
      <3> QED BY <3>2, <3>5 DEF Covered
    <2> QED BY <2>1, <2>2, <2>3
  <1>8. KnowAt(d)'
    BY <1>2, <1>3, <1>5, <1>7, KnowKept DEF SkipAt, AtPage, Answered, Passing, Phase
  <1>9. PageAt(d)'
    BY <1>2, <1>3, <1>5, <1>7, PageKept DEF SkipAt
  <1> QED BY <1>3, <1>8, <1>9, CursorKept DEF SkipAt

\* Every step of a device keeps what it knows in order.
LEMMA SkipStep ==
    ASSUME "flicker" \notin Faults,
           Inv, [Next]_vars, VaultMoves, NEW d \in Device, SkipAt(d),
           Quiet(d) \/ Requested(d)
    PROVE  SkipAt(d)'
  <1>1. CASE CancelRun(d) \/ EnrollDevice(d) \/ \E e \in Entity, v \in Content : Edit(d, e, v)
    BY <1>1, SkipStays DEF CancelRun, EnrollDevice, Edit
  <1>2. CASE SendPull(d)
    <2>1. UNCHANGED <<cursor, knownEpoch>>
      BY <1>2 DEF SendPull
    <2> QED BY <1>2, <2>1, PullSkips, CursorKept DEF SkipAt
  <1> QED BY <1>1, <1>2, SkipEnds, SkipMoves, SkipCollect, SkipPushed, SkipAnswered,
      SkipReset, SkipFinish, SkipStays, SkipRows DEF Quiet, Requested, UserStep

\* The cursor of a device is its own.
LEMMA OthersKeepCursor ==
    ASSUME Inv, NEW d \in Device, Quiet(d) \/ Requested(d), NEW c \in Device, c # d
    PROVE  cursor'[c] = cursor[c] /\ knownEpoch'[c] = knownEpoch[c]
  BY CursorWritten DEF TakePushAnswer, SaveReset, FinishPass, Inv, LocalOK

\* A device whose run stands still while others, or the vault, move on.
LEMMA SkipElsewhere ==
    ASSUME Inv, [Next]_vars, VaultMoves, NEW c \in Device, SkipAt(c),
           pc'[c] = pc[c], pass'[c] = pass[c],
           cursor'[c] = cursor[c], knownEpoch'[c] = knownEpoch[c]
    PROVE  SkipAt(c)'
  BY CursorKept, KnowKept, PageKept DEF SkipAt

\* Everything below a cursor is covered in every behaviour.
LEMMA SkipInvariant ==
    ASSUME "flicker" \notin Faults
    PROVE  Spec => []SkipInv
  <1>1. Init => SkipInv
    BY DEF Init, ServerInit, SkipInv, EpochOK, SkipAt, CursorAt, KnowAt, PageAt, AtPage,
       Current, Empty, Answered, Passing
  <1>2. Inv /\ SkipInv /\ [Next]_vars => SkipInv'
    <2> SUFFICES ASSUME Inv, SkipInv, [Next]_vars PROVE SkipInv'
      OBVIOUS
    <2>1. VaultMoves
      BY StepServer, VaultStep DEF SkipInv
    <2>2. EpochOK'
      BY <2>1 DEF EpochOK, VaultMoves
    <2>3. ASSUME NEW c \in Device PROVE SkipAt(c)'
      <3>1. SkipAt(c)
        BY DEF SkipInv
      <3>2. CASE AccountLost \/ UNCHANGED vars
        BY <2>1, <3>1, <3>2, SkipElsewhere DEF AccountLost, deviceVars, vars
      <3>3. ASSUME NEW d \in Device, Quiet(d) \/ Requested(d) PROVE SkipAt(c)'
        BY <2>1, <3>1, <3>3, SkipStep, SkipElsewhere, OthersUntouched, OthersKeepCursor
      <3> QED BY <3>2, <3>3, StepKinds
    <2> QED BY <2>2, <2>3 DEF SkipInv
  <1> QED BY <1>1, <1>2, SyncInvariance, PTL DEF Spec

\* No cursor passes a row its device has not projected, but for rows no import
\* can take, however runs are cut, cancelled, crashed or repeated and whatever
\* the vault loses - as long as the probe of the database is right: a database
\* that is busy for a moment only makes PoisonRow give up a healthy row
\* (runSync's projection loop and its last saveSyncState).
THEOREM NothingIsSkipped ==
    ASSUME "flicker" \notin Faults
    PROVE  Spec => []NoRowSkipped
  <1>1. Inv /\ SkipInv => NoRowSkipped
    <2> SUFFICES ASSUME Inv, SkipInv, NEW d \in Device, Current(d), NEW r \in log,
                        r.seq <= cursor[d], r.body.content \notin Bad
                 PROVE  localHead[d][r.ent].rev >= r.rev
      BY DEF NoRowSkipped
    <2>1. CursorAt(d)
      BY DEF SkipInv, SkipAt
    <2> QED BY <2>1 DEF CursorAt, Covered
  <1> QED BY <1>1, SkipInvariant, SyncInvariance, PTL

-----------------------------------------------------------------------------
(***************************************************************************)
(* Heads are true. A head's print is written only of rows the vault holds, *)
(* and the vault's log only grows while the account lives: compaction asks *)
(* for cursors of the whole account, which these devices never move. What  *)
(* remains is the loss of the account, after which prints have to be       *)
(* forgotten before the new epoch is remembered. A process hears of one    *)
(* account only, since it enrolls once; and a device that remembers no     *)
(* epoch has no prints, if nothing ends its first pass half-way.           *)
(***************************************************************************)

\* Nothing can end a pass between the heads of two of its rows.
FirstPassWhole ==
    /\ Faults \cap {"crash", "cancel", "busy", "flicker"} = {}
    /\ Bad = {} \/ PullLimit = 1

\* The vault stores that content under that revision.
Stands(e, rev, content) ==
    \E r \in log : r.ent = e /\ r.rev = rev /\ r.body.content = content

PrintsStand(d) ==
    \A e \in Entity : localHead[d][e].print # Gone =>
        Stands(e, localHead[d][e].rev, localHead[d][e].print)

NoPrints(d) == \A e \in Entity : localHead[d][e].print = Gone

\* Without an account nobody is registered; nobody acknowledges account-wide; and
\* an account that is not lost is the first.
VaultAt ==
    /\ EpochOK
    /\ ~live => \A d \in Device : dev[d] = "none"
    /\ \A d \in Device : ack[d][AccountScope] = 0
    /\ "account" \notin Faults => (~live => epoch = 0) /\ epoch <= 1

\* What a process has heard, it has heard from the account it is enrolled in.
HeardAt(d) ==
    /\ pass[d].epoch # 0 => enrolled[d] /\ (dev[d] # "none" => pass[d].epoch = epoch)
    /\ pass[d].epoch = 0 => pass[d].accepted = {} /\ pass[d].page = {}

\* An answer is of no earlier account than the one that is remembered.
EpochsAt(d) ==
    /\ knownEpoch[d] <= epoch /\ pass[d].epoch <= epoch
    /\ pc[d] \in Answered \cup {"save"} =>
          pass[d].epoch >= 1 /\ pass[d].epoch >= knownEpoch[d]
    /\ pc[d] \in Passing =>
          /\ pass[d].base \in {0, knownEpoch[d]}
          /\ pass[d].base = 0 /\ knownEpoch[d] # 0 => pass[d].epoch = knownEpoch[d]
    /\ pc[d] = "save" => knownEpoch[d] = pass[d].epoch

\* What a pass holds of the account that is there, the vault stores.
HeldAt(d) ==
    live /\ pass[d].epoch = epoch =>
        /\ \A m \in pass[d].accepted : Stands(m.ent, m.rev, m.body.content)
        /\ pass[d].page \subseteq log

\* The prints of a device are those of the account that is there, or will be
\* taken for such.
Trusted(d) ==
    /\ live
    /\ \/ knownEpoch[d] = epoch
       \/ "account" \notin Faults
       \/ knownEpoch[d] = 0 /\ pc[d] \in AtPage /\ pass[d].epoch = epoch

\* Nothing has been printed, or all of it forgotten.
Untold(d) ==
    \/ pc[d] = "reset"
    \/ "account" \notin Faults /\ ~live
    \/ /\ "account" \in Faults /\ knownEpoch[d] = 0
       /\ pc[d] \notin AtPage \/ (PullLimit = 1 /\ pass[d].page # {})

PrintAt(d) ==
    /\ Trusted(d) => PrintsStand(d)
    /\ Untold(d) => NoPrints(d)

\* Pages of one row, and runs that nothing cancels.
PlainAt(d) ==
    /\ PullLimit = 1 => \A r, q \in pass[d].page : r = q
    /\ "cancel" \notin Faults => ~cut[d]

HeadAt(d) == HeardAt(d) /\ EpochsAt(d) /\ HeldAt(d) /\ PrintAt(d) /\ PlainAt(d)

HeadInv == VaultAt /\ \A d \in Device : HeadAt(d)

\* What a step of d may do to the vault: the log grows, the account stays, and
\* only d is registered.
Grows(d) ==
    /\ log \subseteq log'
    /\ live => live' /\ epoch' = epoch
    /\ \A c \in Device : c # d => dev'[c] = dev[c]

\* Nothing is compacted as long as cursors are those of profiles.
LEMMA NothingCompacted ==
    ASSUME Inv, NEW d \in Device, NEW acks, \A c \in Device : acks[c][AccountScope] = 0
    PROVE  Compact(log, Seen(d), acks) = log
  <1>1. d \in Active(Seen(d))
    BY DEF Active, Seen, Inv, ServerOK, IInv, TypeOK
  <1>2. ASSUME NEW r \in log PROVE ~Acknowledged(r, Seen(d), acks)
    <2>1. r.seq \in 1..lastSeq /\ lastSeq \in Nat
      BY DEF Inv, ServerOK, IInv, LogFollowsHeads, TypeOK
    <2>2. ~(r.seq <= acks[d][AccountScope])
      BY <2>1
    <2> QED BY <1>1, <2>2 DEF Acknowledged
  <1> QED BY <1>2 DEF Compact

\* What devices do to the vault.
LEMMA VaultGrows ==
    ASSUME Inv, VaultAt, NEW d \in Device, Quiet(d) \/ Requested(d)
    PROVE  VaultAt' /\ Grows(d)
  <1>0. /\ epoch \in Nat /\ dev \in [Device -> DeviceState]
        /\ ack \in [Device -> [Scope -> Nat]]
    BY DEF Inv, ServerOK, IInv, TypeOK
  <1>1. CASE UNCHANGED serverVars
    BY <1>1 DEF serverVars, VaultAt, EpochOK, Grows
  <1>2. CASE EnrollDevice(d)
    <2>1. /\ live' /\ epoch' = IF live THEN epoch ELSE epoch + 1
          /\ dev' = Seen(d) /\ UNCHANGED <<log, ack>>
      BY <1>2 DEF EnrollDevice, Enroll
    <2>2. VaultAt'
      BY <1>0, <2>1 DEF VaultAt, EpochOK
    <2> QED BY <1>0, <2>1, <2>2 DEF Grows, Seen
  <1>3. CASE SendPush(d)
    <2> DEFINE rows == Compact(log, Seen(d), ack)
               new == Fresh(pass[d].batch, rows)
    <2>1. PushTaken(d, pass[d].batch)
      BY <1>3 DEF SendPush
    <2>2. /\ live /\ UNCHANGED <<live, epoch, ack>> /\ dev' = Seen(d)
      BY <2>1 DEF PushTaken, Authentic
    <2>3. \E pos \in Numbering(new) : log' = rows \cup AppendRows(new, pos)
      BY <2>1 DEF PushTaken
    <2>4. rows = log
      BY NothingCompacted DEF VaultAt
    <2> HIDE DEF rows, new
    <2>5. log \subseteq log'
      BY <2>3, <2>4
    <2> QED BY <1>0, <2>2, <2>5 DEF VaultAt, EpochOK, Grows, Seen
  <1>4. CASE SendRefusedPush(d)
    BY <1>0, <1>4 DEF SendRefusedPush, PushRefused, Authentic, VaultAt, EpochOK, Grows, Seen
  <1>5. CASE Pull(d, OwnProfile, cursor[d])
    <2> DEFINE next == NextCursor(OwnProfile, cursor[d])
               acks == [ack EXCEPT ![d][OwnProfile] = IF @ < next THEN next ELSE @]
    <2>1. /\ live /\ UNCHANGED <<live, epoch>> /\ dev' = Seen(d)
          /\ ack' = acks /\ log' = Compact(log, Seen(d), acks)
      BY <1>5 DEF Pull, Authentic
    <2> HIDE DEF next
    <2>2. \A c \in Device : acks[c][AccountScope] = 0
      <3>1. OwnProfile # AccountScope /\ OwnProfile \in Scope /\ AccountScope \in Scope
        BY ServerAssumption, ClientAssumption DEF Scope
      <3> QED BY <1>0, <3>1 DEF VaultAt
    <2> HIDE DEF acks
    <2>3. log' = log
      BY <2>1, <2>2, NothingCompacted
    <2> QED BY <1>0, <2>1, <2>2, <2>3 DEF VaultAt, EpochOK, Grows, Seen
  <1>6. Requested(d) => \/ EnrollDevice(d) \/ SendPush(d) \/ SendRefusedPush(d)
                        \/ Pull(d, OwnProfile, cursor[d]) \/ UNCHANGED serverVars
    BY DEF Requested, LoseAnswer, SendPull
  <1> QED BY <1>1, <1>2, <1>3, <1>4, <1>5, <1>6, QuietServer

\* A step in which the account is not lost, as far as the vault goes.
Beside ==
    /\ VaultMoves /\ VaultAt /\ VaultAt'
    /\ log \subseteq log' /\ (live => live' /\ epoch' = epoch)

\* Prints that are true stay true while the account lives.
LEMMA StandsStays ==
    ASSUME NEW e, NEW rev, NEW content, Stands(e, rev, content), log \subseteq log'
    PROVE  Stands(e, rev, content)'
  BY DEF Stands

\* The types of what a device holds.
LEMMA HeadTypes ==
    ASSUME Inv, NEW c \in Device
    PROVE  /\ epoch \in Nat /\ knownEpoch[c] \in Nat /\ pass[c] \in Pass
           /\ pass[c].epoch \in Nat /\ pass[c].base \in Nat
           /\ pc[c] \in Phase /\ enrolled[c] \in BOOLEAN
           /\ localHead[c] \in [Entity -> Head]
  BY DEF Inv, ServerOK, IInv, TypeOK, LocalOK, RunOK, Pass

\* What a pass holds stays with the vault.
LEMMA HeldStays ==
    ASSUME Inv, VaultMoves, NEW c \in Device, HeldAt(c), pass[c].epoch <= epoch,
           log \subseteq log',
           pass'[c].epoch = pass[c].epoch, pass'[c].accepted \subseteq pass[c].accepted,
           pass'[c].page \subseteq pass[c].page
    PROVE  HeldAt(c)'
  <1> SUFFICES ASSUME live', pass[c].epoch = epoch'
               PROVE  /\ \A m \in pass'[c].accepted : Stands(m.ent, m.rev, m.body.content)'
                      /\ pass'[c].page \subseteq log'
    BY DEF HeldAt
  <1>1. epoch' = epoch /\ live
    BY HeadTypes DEF VaultMoves
  <1>2. /\ \A m \in pass[c].accepted : Stands(m.ent, m.rev, m.body.content)
        /\ pass[c].page \subseteq log
    BY <1>1 DEF HeldAt
  <1> QED BY <1>2, StandsStays

\* Prints stay as good as they were while heads and epochs stay.
LEMMA PrintsStay ==
    ASSUME Inv, Beside, NEW c \in Device, PrintAt(c), EpochsAt(c),
           localHead'[c] = localHead[c], knownEpoch'[c] = knownEpoch[c],
           pass'[c].epoch = pass[c].epoch \/ pc'[c] \notin AtPage,
           pc'[c] \in AtPage => pc[c] \in AtPage,
           Untold(c)' => Untold(c)
    PROVE  PrintAt(c)'
  <1>1. NoPrints(c)' <=> NoPrints(c)
    BY DEF NoPrints
  <1>2. ASSUME PrintsStand(c) PROVE PrintsStand(c)'
    BY <1>2, StandsStays DEF PrintsStand, Beside
  <1>3. ASSUME NoPrints(c) PROVE PrintsStand(c)
    BY <1>3 DEF PrintsStand, NoPrints
  <1>4. ASSUME Trusted(c)' PROVE Trusted(c) \/ Untold(c)
    <2>1. live' /\ epoch' \in Nat
      BY <1>4 DEF Trusted, Beside, VaultMoves
    <2>2. CASE live
      <3>1. epoch' = epoch
        BY <2>2 DEF Beside
      <3> QED BY <1>4, <2>2, <3>1 DEF Trusted
    <2>3. CASE ~live
      <3>1. epoch' > epoch
        BY <2>1, <2>3, HeadTypes DEF Beside, VaultMoves
      <3>2. knownEpoch[c] # epoch' /\ pass[c].epoch # epoch'
        BY <2>1, <3>1, HeadTypes DEF EpochsAt
      <3>3. "account" \notin Faults
        BY <1>4, <3>2 DEF Trusted
      <3> QED BY <2>3, <3>3 DEF Untold
    <2> QED BY <2>2, <2>3
  <1> QED BY <1>1, <1>2, <1>3, <1>4 DEF PrintAt

\* A device whose run holds what it held, and at most moves on.
LEMMA HeadMoves ==
    ASSUME Inv, Beside, NEW c \in Device, HeadAt(c),
           pass'[c] = pass[c], localHead'[c] = localHead[c], knownEpoch'[c] = knownEpoch[c],
           enrolled'[c] = enrolled[c] \/ pass[c].epoch = 0,
           dev'[c] # "none" => dev[c] # "none" \/ pass[c].epoch = 0,
           "cancel" \notin Faults => cut'[c] = cut[c],
           \/ pc'[c] = pc[c]
           \/ pc[c] = "idle" /\ pc'[c] = "collect"
           \/ pc[c] = "send" /\ pc'[c] \in {"pull", "refused"}
           \/ pc[c] = "pulled" /\ pc'[c] = "rowhead"
    PROVE  HeadAt(c)'
  <1> USE HeadTypes DEF HeadAt
  <1>1. HeardAt(c)'
    <2>1. dev[c] # "none" => live
      BY DEF Beside, VaultAt
    <2> QED BY <2>1 DEF HeardAt, Beside
  <1>2. EpochsAt(c)'
    <2>1. epoch <= epoch' /\ epoch' \in Nat
      BY DEF Beside, VaultMoves
    <2>2. knownEpoch[c] <= epoch' /\ pass[c].epoch <= epoch'
      BY <2>1 DEF EpochsAt
    <2> QED BY <2>2 DEF EpochsAt, Answered, Passing, Phase
  <1>3. HeldAt(c)'
    BY HeldStays DEF EpochsAt, Beside
  <1>4. PrintAt(c)'
    <2>1. pc'[c] \in AtPage <=> pc[c] \in AtPage
      BY DEF AtPage
    <2>2. pc'[c] = "reset" <=> pc[c] = "reset"
      OBVIOUS
    <2>3. ~live' => ~live
      BY DEF Beside
    <2>4. Untold(c)' => Untold(c)
      BY <2>1, <2>2, <2>3 DEF Untold
    <2> QED BY <2>1, <2>4, PrintsStay
  <1>5. PlainAt(c)'
    BY DEF PlainAt
  <1> QED BY <1>1, <1>2, <1>3, <1>4, <1>5

\* A run that ends has nothing left, and none of its prints is in doubt, unless it
\* ended half-way.
LEMMA HeadEnds ==
    ASSUME Inv, Beside, NEW d \in Device, HeadAt(d),
           pc'[d] = "idle", pass'[d] = Empty, cut'[d] = FALSE,
           localHead'[d] = localHead[d], knownEpoch'[d] = knownEpoch[d],
           "account" \in Faults /\ pc[d] \in AtPage => PullLimit = 1 /\ pass[d].page # {}
    PROVE  HeadAt(d)'
  <1> USE HeadTypes DEF HeadAt
  <1>1. Empty.epoch = 0 /\ Empty.accepted = {} /\ Empty.page = {}
    BY DEF Empty
  <1>2. epoch' \in Nat /\ epoch <= epoch' /\ (live' => epoch' >= 1)
    BY DEF Beside, VaultMoves
  <1>3. HeardAt(d)' /\ HeldAt(d)' /\ PlainAt(d)'
    BY <1>1, <1>2 DEF HeardAt, HeldAt, PlainAt
  <1>4. EpochsAt(d)'
    BY <1>1, <1>2 DEF EpochsAt, Answered, Passing, Phase
  <1>5. PrintAt(d)'
    <2>1. ~live' => ~live
      BY DEF Beside
    <2>2. Untold(d)' => Untold(d)
      BY <2>1 DEF Untold
    <2>3. pc'[d] \notin AtPage
      BY DEF AtPage
    <2> QED BY <2>2, <2>3, PrintsStay
  <1> QED BY <1>3, <1>4, <1>5

\* No run of the faults allowed ends half-way: only a row that no import can take
\* ends a run at its page, and it is the only one of it.
LEMMA EndsWhole ==
    ASSUME "account" \notin Faults \/ FirstPassWhole,
           Inv, Beside, NEW d \in Device, HeadAt(d),
           \/ Restart(d) \/ Crash(d) \/ StopRun(d) \/ Unreachable(d)
           \/ Denied(d) \/ PushThrows(d) \/ DatabaseRefuses(d) \/ LoseAnswer(d)
           \/ \E answers \in BOOLEAN : ProjectionThrows(d, answers)
    PROVE  HeadAt(d)'
  <1>1. /\ EndRun(d) /\ UNCHANGED <<localHead, knownEpoch>>
    BY DEF Restart, Crash, EndProcess, StopRun, Unreachable, Denied, PushThrows,
       DatabaseRefuses, LoseAnswer, ProjectionThrows
  <1>2. pc'[d] = "idle" /\ pass'[d] = Empty /\ cut'[d] = FALSE
    BY <1>1 DEF EndRun, Inv, RunOK
  <1>3. ASSUME "account" \in Faults, pc[d] \in AtPage
        PROVE  PullLimit = 1 /\ pass[d].page # {}
    <2>1. "crash" \notin Faults /\ "busy" \notin Faults /\ "flicker" \notin Faults /\ ~cut[d]
      BY <1>3 DEF FirstPassWhole, HeadAt, PlainAt
    <2>2. PICK answers \in BOOLEAN : ProjectionThrows(d, answers)
      BY <1>3, <2>1 DEF Restart, Crash, StopRun, Unreachable, Denied, PushThrows,
         DatabaseRefuses, LoseAnswer, Requesting, AtPage
    <2>3. pc[d] = "pulled" /\ FirstRow(d).body.content \in Bad
      BY <2>1, <2>2 DEF ProjectionThrows, Throws
    <2>4. pass[d].page # {}
      BY <2>2, <2>3 DEF ProjectionThrows, Applying, Projecting
    <2> QED BY <1>3, <2>3, <2>4 DEF FirstPassWhole
  <1> QED BY <1>1, <1>2, <1>3, HeadEnds

\* A pass begins.
LEMMA HeadCollect ==
    ASSUME Inv, Beside, NEW d \in Device, HeadAt(d), Collect(d)
    PROVE  HeadAt(d)'
  <1> USE HeadTypes DEF HeadAt
  <1>1. /\ UNCHANGED <<serverVars, localHead, knownEpoch, enrolled, cut>>
        /\ pc[d] = "collect" /\ pc'[d] = "send"
    BY DEF Collect, Inv, RunOK
  <1>2. PICK es \in Collectable(d) :
           pass' = [pass EXCEPT ![d] =
                 [Empty EXCEPT !.batch = {Sealed(d, e) : e \in es},
                               !.seen = [e \in Entity |-> localHead[d][e].rev],
                               !.base = knownEpoch[d]]]
    BY DEF Collect
  <1>3. /\ pass'[d].base = knownEpoch[d] /\ pass'[d].epoch = 0
        /\ pass'[d].accepted = {} /\ pass'[d].page = {}
    BY <1>2 DEF Inv, RunOK, Empty
  <1>4. live' = live /\ epoch' = epoch
    BY <1>1 DEF serverVars
  <1>5. HeardAt(d)' /\ PlainAt(d)'
    BY <1>1, <1>3 DEF HeardAt, PlainAt
  <1>6. EpochsAt(d)'
    BY <1>1, <1>3, <1>4 DEF EpochsAt, Answered, Passing, Phase
  <1>7. HeldAt(d)'
    BY <1>3 DEF HeldAt
  <1>8. PrintAt(d)'
    <2>1. pc'[d] \notin AtPage /\ pc[d] \notin AtPage
      BY <1>1 DEF AtPage
    <2>2. Untold(d)' => Untold(d)
      BY <1>1, <1>4, <2>1 DEF Untold
    <2> QED BY <1>1, <2>1, <2>2, PrintsStay
  <1> QED BY <1>5, <1>6, <1>7, <1>8

\* What a push says it has accepted, the vault stores.
LEMMA AcceptedStands ==
    ASSUME Inv, VaultAt, NEW d \in Device, SendPush(d),
           NEW m \in Accepted(pass[d].batch, Compact(log, Seen(d), ack))
    PROVE  Stands(m.ent, m.rev, m.body.content)'
  <1> DEFINE batch == pass[d].batch
             rows == Compact(log, Seen(d), ack)
             new == Fresh(batch, rows)
  <1>1. PushTaken(d, batch)
    BY DEF SendPush
  <1>2. PICK pos \in Numbering(new) : log' = rows \cup AppendRows(new, pos)
    BY <1>1 DEF PushTaken
  <1>3. ~Conflicts(batch, rows)
    BY <1>1 DEF PushTaken
  <1>4. m \in batch /\ (Stored(m, rows) # {} \/ m \in new)
    BY DEF Accepted, Fresh
  <1>5. CASE Stored(m, rows) # {}
    <2>1. PICK r \in rows : SameId(r, m)
      BY <1>5 DEF Stored
    <2>2. r.body = m.body
      BY <1>3, <1>4, <2>1 DEF Conflicts, Stored
    <2> HIDE DEF rows, new
    <2>3. r \in log' /\ r.ent = m.ent /\ r.rev = m.rev /\ r.body.content = m.body.content
      BY <1>2, <2>1, <2>2 DEF SameId
    <2> QED BY <2>3 DEF Stands
  <1>6. CASE m \in new
    <2> DEFINE r == [ent |-> m.ent, rev |-> m.rev, body |-> m.body, seq |-> pos[m]]
    <2>1. r \in AppendRows(new, pos)
      BY <1>6 DEF AppendRows
    <2>2. r.ent = m.ent /\ r.rev = m.rev /\ r.body.content = m.body.content
      OBVIOUS
    <2> HIDE DEF rows, new, r
    <2>3. r \in log'
      BY <1>2, <2>1
    <2> QED BY <2>2, <2>3 DEF Stands
  <1> QED BY <1>4, <1>5, <1>6

\* A push is answered.
LEMMA HeadPushed ==
    ASSUME Inv, Beside, NEW d \in Device, HeadAt(d), SendPush(d)
    PROVE  HeadAt(d)'
  <1> USE HeadTypes DEF HeadAt
  <1> DEFINE accepted == Accepted(pass[d].batch, Compact(log, Seen(d), ack))
  <1>1. /\ pass'[d].base = pass[d].base /\ pass'[d].epoch = epoch
        /\ pass'[d].accepted = accepted /\ pass'[d].page = pass[d].page
        /\ pc[d] = "send" /\ pc'[d] = "pushed"
        /\ UNCHANGED <<localHead, knownEpoch, enrolled, cut>> /\ enrolled[d]
    <2>1. pass[d] \in Pass
      OBVIOUS
    <2> HIDE DEF accepted
    <2> QED BY <2>1 DEF SendPush, Inv, RunOK, Pass, accepted
  <1>2. live /\ live' /\ epoch' = epoch /\ epoch >= 1 /\ dev[d] # "none"
    BY DEF SendPush, PushTaken, Authentic, Admits, Beside, VaultAt, EpochOK
  <1>3. pass[d].page \subseteq log
    BY <1>2 DEF HeardAt, HeldAt
  <1>4. HeardAt(d)' /\ PlainAt(d)'
    BY <1>1, <1>2 DEF HeardAt, PlainAt
  <1>5. EpochsAt(d)'
    <2>1. pass[d].base \in {0, knownEpoch[d]} /\ knownEpoch[d] <= epoch
      BY <1>1 DEF EpochsAt, Passing, Phase
    <2>2. pass[d].base = 0 /\ knownEpoch[d] # 0 => knownEpoch[d] = epoch
      BY <1>1, <1>2 DEF EpochsAt, HeardAt, Passing, Phase
    <2> QED BY <1>1, <1>2, <2>1, <2>2 DEF EpochsAt, Answered, Passing, Phase
  <1>6. HeldAt(d)'
    <2>1. \A m \in accepted : Stands(m.ent, m.rev, m.body.content)'
      BY AcceptedStands DEF Beside
    <2> QED BY <1>1, <1>3, <2>1 DEF HeldAt, Beside
  <1>7. PrintAt(d)'
    <2>1. pc'[d] \notin AtPage /\ pc[d] \notin AtPage
      BY <1>1 DEF AtPage
    <2>2. Untold(d)' => Untold(d)
      BY <1>1, <1>2, <2>1 DEF Untold
    <2> QED BY <1>1, <2>1, <2>2, PrintsStay
  <1> QED BY <1>4, <1>5, <1>6, <1>7

\* The epoch of a push's answer is remembered: it was before, or nothing has been
\* printed yet.
LEMMA HeadAnswered ==
    ASSUME Inv, Beside, NEW d \in Device, HeadAt(d), TakePushAnswer(d)
    PROVE  HeadAt(d)'
  <1> USE HeadTypes DEF HeadAt
  <1>1. /\ UNCHANGED <<serverVars, localHead, enrolled, pass, cut>>
        /\ knownEpoch'[d] = pass[d].epoch
        /\ pc'[d] = "save" /\ pc[d] = "pushed" /\ ~ServerReset(d)
    BY DEF TakePushAnswer, Inv, RunOK, LocalOK
  <1>2. live' = live /\ epoch' = epoch /\ log' = log /\ dev' = dev
    BY <1>1 DEF serverVars
  <1>3. /\ pass[d].epoch >= 1 /\ pass[d].epoch <= epoch
        /\ pass[d].base \in {0, knownEpoch[d]}
        /\ pass[d].base = 0 /\ knownEpoch[d] # 0 => pass[d].epoch = knownEpoch[d]
    BY <1>1 DEF EpochsAt, Answered, Passing, Phase
  <1>4. knownEpoch[d] = 0 \/ knownEpoch[d] = pass[d].epoch
    BY <1>1, <1>3 DEF ServerReset
  <1>5. HeardAt(d)' /\ PlainAt(d)'
    BY <1>1, <1>2 DEF HeardAt, PlainAt
  <1>6. EpochsAt(d)'
    <2>1. pass[d].base \in {0, pass[d].epoch}
      BY <1>1, <1>3 DEF ServerReset
    <2> QED BY <1>1, <1>2, <1>3, <2>1 DEF EpochsAt, Answered, Passing, Phase
  <1>7. HeldAt(d)'
    BY <1>1, <1>2 DEF HeldAt, Stands
  <1>8. PrintAt(d)'
    <2>1. (NoPrints(d)' <=> NoPrints(d)) /\ (PrintsStand(d)' <=> PrintsStand(d))
      BY <1>1, <1>2 DEF NoPrints, PrintsStand, Stands
    <2>2. NoPrints(d) => PrintsStand(d)
      BY DEF NoPrints, PrintsStand
    <2>3. CASE knownEpoch[d] = pass[d].epoch
      BY <1>1, <1>2, <1>3, <2>1, <2>3 DEF PrintAt, Trusted, Untold, AtPage
    <2>4. CASE knownEpoch[d] = 0
      <3>1. "account" \in Faults => NoPrints(d)
        BY <1>1, <2>4 DEF PrintAt, Untold, AtPage
      <3>2. "account" \notin Faults => (Trusted(d)' => Trusted(d)) /\ (Untold(d)' => Untold(d))
        BY <1>1, <1>2 DEF Trusted, Untold
      <3>3. "account" \in Faults => ~Untold(d)'
        BY <1>1, <1>3 DEF Untold, AtPage
      <3> QED BY <2>1, <2>2, <3>1, <3>2, <3>3 DEF PrintAt
    <2> QED BY <1>4, <2>3, <2>4
  <1> QED BY <1>5, <1>6, <1>7, <1>8

\* Another account has answered: the prints are forgotten.
LEMMA HeadForgets ==
    ASSUME Inv, Beside, NEW d \in Device, HeadAt(d), PushFindsReset(d) \/ PullFindsReset(d)
    PROVE  HeadAt(d)'
  <1> USE HeadTypes DEF HeadAt
  <1>1. /\ UNCHANGED <<serverVars, knownEpoch, enrolled, pass, cut>>
        /\ localHead'[d] = Forgotten(localHead[d])
        /\ pc'[d] = "reset" /\ pc[d] \in {"pushed", "pulled"}
    BY DEF PushFindsReset, PullFindsReset, Projected, Inv, RunOK, LocalOK
  <1>2. live' = live /\ epoch' = epoch /\ log' = log /\ dev' = dev
    BY <1>1 DEF serverVars
  <1>3. HeardAt(d)' /\ PlainAt(d)'
    BY <1>1, <1>2 DEF HeardAt, PlainAt
  <1>4. EpochsAt(d)'
    BY <1>1, <1>2 DEF EpochsAt, Answered, Passing, Phase
  <1>5. HeldAt(d)'
    BY <1>1, <1>2 DEF HeldAt, Stands
  <1>6. NoPrints(d)'
    <2>1. ASSUME NEW e \in Entity PROVE localHead'[d][e].print = Gone
      <3>1. localHead[d][e] \in Head
        OBVIOUS
      <3> QED BY <1>1, <3>1 DEF Forgotten, Head
    <2> QED BY <2>1 DEF NoPrints
  <1>7. PrintAt(d)'
    BY <1>6 DEF PrintAt, NoPrints, PrintsStand
  <1> QED BY <1>3, <1>4, <1>5, <1>7

\* The pass, or the reset, ends in a new epoch, with prints that are of it or none.
LEMMA HeadFinish ==
    ASSUME Inv, Beside, NEW d \in Device, HeadAt(d), SaveReset(d) \/ FinishPass(d)
    PROVE  HeadAt(d)'
  <1> USE HeadTypes DEF HeadAt
  <1>1. /\ UNCHANGED <<serverVars, localHead, enrolled>>
        /\ knownEpoch'[d] = pass[d].epoch /\ pass'[d] = Empty
        /\ pc'[d] \in {"idle", "collect"} /\ cut'[d] \in {cut[d], FALSE}
        /\ \/ pc[d] = "reset"
           \/ pc[d] = "pulled" /\ pass[d].page = {} /\ ~ServerReset(d)
    BY DEF SaveReset, FinishPass, Projected, Inv, RunOK, LocalOK
  <1>2. live' = live /\ epoch' = epoch /\ log' = log /\ dev' = dev
    BY <1>1 DEF serverVars
  <1>3. Empty.epoch = 0 /\ Empty.accepted = {} /\ Empty.page = {}
    BY DEF Empty
  <1>4. pass[d].epoch >= 1 /\ pass[d].epoch <= epoch
    BY <1>1 DEF EpochsAt, Answered
  <1>5. HeardAt(d)' /\ PlainAt(d)'
    BY <1>1, <1>2, <1>3 DEF HeardAt, PlainAt
  <1>6. EpochsAt(d)'
    BY <1>1, <1>2, <1>3, <1>4 DEF EpochsAt, Answered, Passing
  <1>7. HeldAt(d)'
    BY <1>1, <1>3 DEF HeldAt
  <1>8. PrintAt(d)'
    <2>1. (NoPrints(d)' <=> NoPrints(d)) /\ (PrintsStand(d)' <=> PrintsStand(d))
      BY <1>1, <1>2 DEF NoPrints, PrintsStand, Stands
    <2>2. Untold(d)' => Untold(d)
      BY <1>1, <1>2, <1>4 DEF Untold
    <2>3. CASE pc[d] = "reset"
      BY <2>1, <2>3 DEF PrintAt, Untold, NoPrints, PrintsStand
    <2>4. CASE pc[d] = "pulled" /\ ~ServerReset(d)
      <3>1. knownEpoch[d] \in {0, pass[d].epoch}
        BY <2>4 DEF EpochsAt, ServerReset, Passing, Phase
      <3>2. Trusted(d)' => Trusted(d)
        BY <1>1, <1>2, <2>4, <3>1 DEF Trusted, AtPage
      <3> QED BY <2>1, <2>2, <3>2 DEF PrintAt
    <2> QED BY <1>1, <2>3, <2>4
  <1> QED BY <1>5, <1>6, <1>7, <1>8

\* The print of a head that is saved is true: its row is in the vault, or the account
\* is not the one the device will believe in.
LEMMA SavedStands ==
    ASSUME Inv, NEW d \in Device, NEW e \in Entity, NEW m,
           Stands(m.ent, m.rev, m.body.content), m.ent = e,
           localHead[d][e].print # Gone =>
                Stands(e, localHead[d][e].rev, localHead[d][e].print),
           NEW h, h = Saved(localHead[d][e], HeadOf(m)), h.print # Gone
    PROVE  Stands(e, h.rev, h.print)
  <1>1. HeadOf(m).rev = m.rev /\ HeadOf(m).print = m.body.content
    BY DEF HeadOf
  <1>2. h = HeadOf(m) \/ h = localHead[d][e]
    BY DEF Saved
  <1> QED BY <1>1, <1>2

\* The heads of what the push accepted are saved.
LEMMA HeadAccepted ==
    ASSUME Inv, Beside, NEW d \in Device, HeadAt(d), SaveAccepted(d)
    PROVE  HeadAt(d)'
  <1> USE HeadTypes DEF HeadAt
  <1> DEFINE accepted == pass[d].accepted
  <1>1. /\ UNCHANGED <<serverVars, knownEpoch, enrolled, cut>>
        /\ pc'[d] = "pull" /\ pc[d] = "save"
        /\ \A e \in Entity : localHead'[d][e] =
              IF \E m \in accepted : m.ent = e
              THEN Saved(localHead[d][e], HeadOf(CHOOSE m \in accepted : m.ent = e))
              ELSE localHead[d][e]
    BY DEF SaveAccepted, Inv, RunOK, LocalOK
  <1>2. /\ pass'[d].base = pass[d].base /\ pass'[d].epoch = pass[d].epoch
        /\ pass'[d].accepted = {} /\ pass'[d].page = pass[d].page
    <2>1. pass' = [pass EXCEPT ![d].accepted = {}] /\ pass[d] \in Pass
      BY DEF SaveAccepted
    <2> QED BY <2>1 DEF Inv, RunOK, Pass
  <1>3. live' = live /\ epoch' = epoch /\ log' = log /\ dev' = dev
    BY <1>1 DEF serverVars
  <1>4. knownEpoch[d] = pass[d].epoch /\ pass[d].epoch >= 1 /\ pass[d].epoch <= epoch
    BY <1>1 DEF EpochsAt
  <1>5. HeardAt(d)' /\ PlainAt(d)'
    BY <1>1, <1>2, <1>3 DEF HeardAt, PlainAt
  <1>6. EpochsAt(d)'
    BY <1>1, <1>2, <1>3 DEF EpochsAt, Answered, Passing, Phase
  <1>7. HeldAt(d)'
    BY <1>2, <1>3 DEF HeldAt, Stands
  <1>8. PrintAt(d)'
    <2>1. ~Untold(d)'
      <3>1. "account" \notin Faults => live
        BY <1>4 DEF Beside, VaultAt
      <3> QED BY <1>1, <1>3, <1>4, <3>1 DEF Untold, AtPage
    <2>2. ASSUME Trusted(d)' PROVE Trusted(d) /\ live /\ pass[d].epoch = epoch
      <3>1. Trusted(d) /\ live
        BY <1>1, <1>3, <1>4, <2>2 DEF Trusted, AtPage
      <3>2. "account" \notin Faults => epoch = 1
        BY <1>4 DEF Beside, VaultAt
      <3> QED BY <1>1, <1>4, <3>1, <3>2 DEF Trusted, AtPage
    <2>3. ASSUME Trusted(d)', NEW e \in Entity, localHead'[d][e].print # Gone
          PROVE  Stands(e, localHead'[d][e].rev, localHead'[d][e].print)
      <3>1. localHead[d][e].print # Gone => Stands(e, localHead[d][e].rev, localHead[d][e].print)
        BY <2>2, <2>3 DEF PrintAt, PrintsStand
      <3>2. CASE \E m \in accepted : m.ent = e
        <4> DEFINE m == CHOOSE m \in accepted : m.ent = e
        <4>1. m \in accepted /\ m.ent = e
          BY <3>2
        <4>2. Stands(m.ent, m.rev, m.body.content)
          BY <2>2, <2>3, <4>1 DEF HeldAt
        <4>3. localHead'[d][e] = Saved(localHead[d][e], HeadOf(m))
          BY <1>1, <3>2
        <4> HIDE DEF m
        <4> QED BY <2>3, <3>1, <4>1, <4>2, <4>3, SavedStands
      <3>3. CASE ~\E m \in accepted : m.ent = e
        BY <1>1, <2>3, <3>1, <3>3
      <3> QED BY <3>2, <3>3
    <2>4. PrintsStand(d)' <=> \A e \in Entity : localHead'[d][e].print # Gone =>
                                 Stands(e, localHead'[d][e].rev, localHead'[d][e].print)
      BY <1>3 DEF PrintsStand, Stands
    <2> QED BY <2>1, <2>3, <2>4 DEF PrintAt
  <1> QED BY <1>5, <1>6, <1>7, <1>8

\* The log is finite.
LEMMA LogFinite == Inv => IsFiniteSet(log)
  <1> SUFFICES ASSUME Inv PROVE IsFiniteSet(log)
    OBVIOUS
  <1> DEFINE f == [q \in log |-> q.seq]
  <1>1. lastSeq \in Nat /\ \A q \in log : q.seq \in 1..lastSeq
    BY DEF Inv, ServerOK, IInv, TypeOK, LogFollowsHeads
  <1>2. \A q, s \in log : q.seq = s.seq => q = s
    BY DEF Inv, ServerOK, IInv, LogFollowsHeads
  <1>3. f \in Injection(log, 1..lastSeq)
    BY <1>1, <1>2 DEF Injection, IsInjective
  <1>4. IsFiniteSet(1..lastSeq)
    BY <1>1, FS_Interval
  <1> QED BY <1>3, <1>4, FS_Injection

\* A page of one row has one row.
LEMMA SinglePage ==
    ASSUME Inv, PullLimit = 1, NEW c, NEW r \in Page(OwnProfile, c), NEW q \in Page(OwnProfile, c)
    PROVE  r = q
  <1> DEFINE rows == Beyond(OwnProfile, After(c))
             before(x) == {y \in rows : y.seq < x.seq}
  <1>1. rows \subseteq log /\ IsFiniteSet(rows)
    <2>1. rows \subseteq log
      BY DEF Beyond
    <2> QED BY <2>1, LogFinite, FS_Subset
  <1>2. r \in rows /\ q \in rows /\ Cardinality(before(r)) < 1 /\ Cardinality(before(q)) < 1
    BY DEF Page
  <1>3. ASSUME NEW x \in rows, NEW y \in rows, Cardinality(before(x)) < 1 PROVE ~(y.seq < x.seq)
    <2> HIDE DEF rows
    <2>1. IsFiniteSet(before(x))
      BY <1>1, FS_Subset
    <2> HIDE DEF before
    <2>2. before(x) = {}
      BY <1>3, <2>1, FS_CardinalityType, FS_EmptySet
    <2> QED BY <2>2 DEF before
  <1>4. r \in log /\ q \in log /\ r.seq \in Nat /\ q.seq \in Nat
    BY <1>1, <1>2 DEF Inv, ServerOK, IInv, TypeOK, Row
  <1>5. r.seq = q.seq
    BY <1>2, <1>3, <1>4
  <1> QED BY <1>4, <1>5 DEF Inv, ServerOK, IInv, LogFollowsHeads

\* A page arrives, of the account the process has enrolled in.
LEMMA HeadPulled ==
    ASSUME Inv, Beside, NEW d \in Device, HeadAt(d), SendPull(d)
    PROVE  HeadAt(d)'
  <1> USE HeadTypes DEF HeadAt
  <1> DEFINE page == Page(OwnProfile, cursor[d])
  <1>1. /\ pass'[d].base = pass[d].base /\ pass'[d].epoch = epoch
        /\ pass'[d].accepted = pass[d].accepted /\ pass'[d].page = page
        /\ pc[d] = "pull" /\ pc'[d] = "pulled"
        /\ UNCHANGED <<localHead, knownEpoch, enrolled, cut>> /\ enrolled[d]
    <2>1. pass[d] \in Pass
      OBVIOUS
    <2> HIDE DEF page
    <2> QED BY <2>1 DEF SendPull, Inv, RunOK, Pass, page
  <1>2. live /\ live' /\ epoch' = epoch /\ epoch >= 1 /\ dev[d] # "none" /\ log \subseteq log'
    BY DEF SendPull, Pull, Authentic, Admits, Beside, VaultAt, EpochOK
  <1>3. \A m \in pass[d].accepted : Stands(m.ent, m.rev, m.body.content)
    BY <1>2 DEF HeardAt, HeldAt
  <1>4. page \subseteq log
    BY DEF Page, Beyond
  <1>5. PullLimit = 1 => \A r, q \in page : r = q
    BY SinglePage
  <1> HIDE DEF page
  <1>6. HeardAt(d)' /\ PlainAt(d)'
    BY <1>1, <1>2, <1>5 DEF HeardAt, PlainAt
  <1>7. EpochsAt(d)'
    <2>1. pass[d].base \in {0, knownEpoch[d]} /\ knownEpoch[d] <= epoch
      BY <1>1 DEF EpochsAt, Passing, Phase
    <2>2. pass[d].base = 0 /\ knownEpoch[d] # 0 => knownEpoch[d] = epoch
      BY <1>1, <1>2 DEF EpochsAt, HeardAt, Passing, Phase
    <2> QED BY <1>1, <1>2, <2>1, <2>2 DEF EpochsAt, Answered, Passing, Phase
  <1>8. HeldAt(d)'
    <2>1. \A m \in pass[d].accepted : Stands(m.ent, m.rev, m.body.content)'
      BY <1>2, <1>3, StandsStays
    <2> QED BY <1>1, <1>2, <1>4, <2>1 DEF HeldAt
  <1>9. PrintAt(d)'
    <2>1. NoPrints(d)' <=> NoPrints(d)
      BY <1>1 DEF NoPrints
    <2>2. PrintsStand(d) => PrintsStand(d)'
      BY <1>1, <1>2, StandsStays DEF PrintsStand
    <2>3. NoPrints(d) => PrintsStand(d)
      BY DEF NoPrints, PrintsStand
    <2>4. Untold(d)' => Untold(d)
      BY <1>1, <1>2 DEF Untold, AtPage
    <2>5. Trusted(d)' => Trusted(d) \/ Untold(d)
      BY <1>1, <1>2 DEF Trusted, Untold, AtPage
    <2> QED BY <2>1, <2>2, <2>3, <2>4, <2>5 DEF PrintAt
  <1> QED BY <1>6, <1>7, <1>8, <1>9

\* A row leaves the page.
LEMMA HeadRow ==
    ASSUME Inv, Beside, NEW d \in Device, HeadAt(d),
           SkipRow(d) \/ PoisonRow(d) \/ SaveRowHead(d)
    PROVE  HeadAt(d)'
  <1> USE HeadTypes DEF HeadAt
  <1>0. PICK r : r = FirstRow(d)
    OBVIOUS
  <1>1. /\ UNCHANGED <<serverVars, knownEpoch, enrolled, cut>>
        /\ pc[d] \in AtPage /\ pc'[d] = "pulled" /\ pass[d].page # {}
    BY DEF SkipRow, SaveRowHead, PoisonRow, Applying, Projecting, AtPage, Inv, RunOK, PassOK
  <1>2. r \in pass[d].page /\ r.ent \in Entity
    BY <1>0, <1>1, FirstRowOfPage DEF Inv
  <1>3. /\ pass'[d].base = pass[d].base /\ pass'[d].epoch = pass[d].epoch
        /\ pass'[d].accepted = pass[d].accepted /\ pass'[d].page = pass[d].page \ {r}
    <2>1. \/ pass' = [pass EXCEPT ![d].page = @ \ {r}]
          \/ pass' = [pass EXCEPT ![d].page = @ \ {r}, ![d].seen[r.ent] = r.rev]
      BY <1>0 DEF SkipRow, SaveRowHead, PoisonRow
    <2>2. pass[d] \in Pass
      OBVIOUS
    <2> QED BY <2>1, <2>2 DEF Inv, RunOK, Pass
  <1>4. live' = live /\ epoch' = epoch /\ log' = log /\ dev' = dev
    BY <1>1 DEF serverVars
  <1>5. /\ pass[d].epoch >= 1 /\ pass[d].epoch <= epoch
        /\ knownEpoch[d] <= epoch /\ pass[d].epoch >= knownEpoch[d]
    BY <1>1 DEF EpochsAt, Answered, AtPage
  <1>6. HeardAt(d)' /\ PlainAt(d)'
    BY <1>1, <1>3, <1>4 DEF HeardAt, PlainAt
  <1>7. EpochsAt(d)'
    BY <1>1, <1>3, <1>4 DEF EpochsAt, Answered, Passing, Phase, AtPage
  <1>8. HeldAt(d)'
    BY <1>3, HeldStays DEF EpochsAt, Beside
  <1>9. PrintAt(d)'
    <2>1. CASE UNCHANGED localHead
      <3>1. Untold(d)' => Untold(d)
        BY <1>1, <1>3, <1>4 DEF Untold, AtPage
      <3> QED BY <1>1, <1>3, <2>1, <3>1, PrintsStay
    <2>2. CASE SaveRowHead(d)
      <3>1. \A e \in Entity : localHead'[d][e] =
              IF e = r.ent THEN Saved(localHead[d][e], HeadOf(r)) ELSE localHead[d][e]
        BY <1>0, <1>2, <2>2 DEF SaveRowHead, Inv, LocalOK
      <3>2. ~Untold(d)'
        <4>1. "account" \notin Faults => live
          BY <1>5 DEF Beside, VaultAt
        <4>2. PullLimit = 1 => pass'[d].page = {}
          BY <1>2, <1>3 DEF PlainAt
        <4> QED BY <1>1, <1>4, <4>1, <4>2 DEF Untold, AtPage
      <3>3. ASSUME Trusted(d)' PROVE Trusted(d) /\ live /\ pass[d].epoch = epoch
        <4>1. Trusted(d) /\ live
          BY <1>1, <1>3, <1>4, <3>3 DEF Trusted, AtPage
        <4>2. "account" \notin Faults => epoch <= 1
          BY DEF Beside, VaultAt
        <4> QED BY <1>5, <4>1, <4>2 DEF Trusted
      <3>4. ASSUME Trusted(d)', NEW e \in Entity, localHead'[d][e].print # Gone
            PROVE  Stands(e, localHead'[d][e].rev, localHead'[d][e].print)
        <4>1. localHead[d][e].print # Gone => Stands(e, localHead[d][e].rev, localHead[d][e].print)
          BY <3>3, <3>4 DEF PrintAt, PrintsStand
        <4>2. Stands(r.ent, r.rev, r.body.content)
          BY <1>2, <3>3, <3>4 DEF HeldAt, Stands
        <4>3. CASE e = r.ent
          BY <3>1, <3>4, <4>1, <4>2, <4>3, SavedStands
        <4>4. CASE e # r.ent
          BY <3>1, <3>4, <4>1, <4>4
        <4> QED BY <4>3, <4>4
      <3>5. PrintsStand(d)' <=> \A e \in Entity : localHead'[d][e].print # Gone =>
                                   Stands(e, localHead'[d][e].rev, localHead'[d][e].print)
        BY <1>4 DEF PrintsStand, Stands
      <3> QED BY <3>2, <3>4, <3>5 DEF PrintAt
    <2> QED BY <2>1, <2>2 DEF SkipRow, PoisonRow
  <1> QED BY <1>6, <1>7, <1>8, <1>9

\* Every step of a device keeps its heads in order.
LEMMA HeadStep ==
    ASSUME "account" \notin Faults \/ FirstPassWhole,
           Inv, Beside, NEW d \in Device, HeadAt(d), Quiet(d) \/ Requested(d)
    PROVE  HeadAt(d)'
  <1>1. CASE \/ StartRun(d) \/ SkipPush(d) \/ ImportRow(d)
             \/ \E e \in Entity, v \in Content : Edit(d, e, v)
    <2>1. /\ UNCHANGED <<serverVars, pass, localHead, knownEpoch, enrolled, cut>>
          /\ \/ pc'[d] = pc[d]
             \/ pc[d] = "idle" /\ pc'[d] = "collect"
             \/ pc[d] = "send" /\ pc'[d] \in {"pull", "refused"}
             \/ pc[d] = "pulled" /\ pc'[d] = "rowhead"
      BY <1>1 DEF StartRun, SkipPush, ImportRow, Projecting, Edit, Inv, RunOK
    <2> QED BY <2>1, HeadMoves DEF serverVars
  <1>2. CASE CancelRun(d)
    BY <1>2, HeadMoves DEF CancelRun, serverVars
  <1>3. CASE EnrollDevice(d)
    <2>1. pass[d].epoch = 0 /\ UNCHANGED <<pass, localHead, knownEpoch, cut, pc>>
      BY <1>3 DEF EnrollDevice, HeadAt, HeardAt
    <2> QED BY <2>1, HeadMoves
  <1>4. CASE SendRefusedPush(d)
    <2>1. /\ UNCHANGED <<pass, localHead, knownEpoch, enrolled, cut>>
          /\ pc[d] = "send" /\ pc'[d] = "refused" /\ dev[d] # "none"
      BY <1>4 DEF SendRefusedPush, PushRefused, Authentic, Admits, Inv, RunOK
    <2> QED BY <2>1, HeadMoves
  <1> QED BY <1>1, <1>2, <1>3, <1>4, EndsWhole, HeadCollect, HeadPushed, HeadAnswered,
      HeadForgets, HeadFinish, HeadAccepted, HeadPulled, HeadRow DEF Quiet, Requested, UserStep

\* A device whose run stands still while another takes a step.
LEMMA HeadElsewhere ==
    ASSUME Inv, Beside, NEW d \in Device, Quiet(d) \/ Requested(d), Grows(d),
           NEW c \in Device, c # d, HeadAt(c)
    PROVE  HeadAt(c)'
  <1>1. pc'[c] = pc[c] /\ pass'[c] = pass[c] /\ localHead'[c] = localHead[c]
    BY OthersUntouched
  <1>2. knownEpoch'[c] = knownEpoch[c]
    BY OthersKeepCursor
  <1>3. enrolled'[c] = enrolled[c] /\ cut'[c] = cut[c]
    <2>1. CASE UserStep(d)
      BY <2>1 DEF UserStep, Edit, StartRun, CancelRun, Restart, Crash, EndProcess, EndRun,
         Inv, RunOK, LocalOK
    <2>2. CASE Requested(d)
      BY <2>2 DEF Requested, EnrollDevice, SendPush, SendRefusedPush, LoseAnswer, SendPull,
         EndRun, Inv, RunOK, LocalOK
    <2>3. CASE Quiet(d) /\ ~UserStep(d)
      BY <2>3 DEF Quiet, StopRun, Collect, SkipPush, Unreachable, Denied, PushThrows,
         DatabaseRefuses, PushFindsReset, SaveReset, TakePushAnswer, SaveAccepted, SkipRow,
         ImportRow, SaveRowHead, ProjectionThrows, PoisonRow, FinishPass, PullFindsReset,
         EndRun, Inv, RunOK, LocalOK
    <2> QED BY <2>1, <2>2, <2>3
  <1>4. dev'[c] = dev[c]
    BY DEF Grows
  <1> QED BY <1>1, <1>2, <1>3, <1>4, HeadMoves

\* With the account go registry, log and cursors; what devices hold is of an account
\* that is no more.
LEMMA HeadLost ==
    ASSUME Inv, HeadInv, AccountLost
    PROVE  HeadInv'
  <1>1. /\ "account" \in Faults /\ live /\ ~live' /\ epoch' = epoch
        /\ dev' = [d \in Device |-> "none"] /\ ack' = [d \in Device |-> [s \in Scope |-> 0]]
        /\ UNCHANGED <<pc, pass, localHead, knownEpoch, enrolled, cut>>
    BY DEF AccountLost, LoseAccount, deviceVars
  <1>2. VaultAt'
    BY <1>1 DEF VaultAt, EpochOK, Scope
  <1>3. ASSUME NEW d \in Device PROVE HeadAt(d)'
    <2>1. HeadAt(d)
      BY DEF HeadInv
    <2>2. HeardAt(d)' /\ EpochsAt(d)' /\ HeldAt(d)' /\ PlainAt(d)'
      BY <1>1, <2>1 DEF HeadAt, HeardAt, EpochsAt, HeldAt, PlainAt
    <2>3. PrintAt(d)'
      <3>1. ~Trusted(d)'
        BY <1>1 DEF Trusted
      <3>2. Untold(d)' => Untold(d)
        BY <1>1 DEF Untold
      <3>3. NoPrints(d)' <=> NoPrints(d)
        BY <1>1 DEF NoPrints
      <3> QED BY <2>1, <3>1, <3>2, <3>3 DEF HeadAt, PrintAt
    <2> QED BY <2>2, <2>3 DEF HeadAt
  <1> QED BY <1>2, <1>3 DEF HeadInv

\* What heads stand for is inductive.
LEMMA HeadInvariant ==
    ASSUME "account" \notin Faults \/ FirstPassWhole
    PROVE  Spec => []HeadInv
  <1>1. Init => HeadInv
    <2> SUFFICES ASSUME Init PROVE HeadInv
      OBVIOUS
    <2>1. VaultAt
      BY DEF Init, ServerInit, VaultAt, EpochOK, Scope
    <2>2. ASSUME NEW d \in Device PROVE HeadAt(d)
      <3>1. pass[d] = Empty /\ pc[d] = "idle" /\ knownEpoch[d] = 0 /\ epoch = 0 /\ ~live /\ ~cut[d]
            /\ \A e \in Entity : localHead[d][e].print = Gone
        BY DEF Init, ServerInit, NoLocalHead
      <3>2. Empty.epoch = 0 /\ Empty.accepted = {} /\ Empty.page = {}
        BY DEF Empty
      <3> QED BY <3>1, <3>2 DEF HeadAt, HeardAt, EpochsAt, HeldAt, PrintAt, PlainAt, Trusted,
              NoPrints, Answered, Passing
    <2> QED BY <2>1, <2>2 DEF HeadInv
  <1>2. Inv /\ HeadInv /\ [Next]_vars => HeadInv'
    <2> SUFFICES ASSUME Inv, HeadInv, [Next]_vars PROVE HeadInv'
      OBVIOUS
    <2>1. CASE UNCHANGED vars
      BY <2>1 DEF vars, HeadInv, VaultAt, EpochOK, HeadAt, HeardAt, EpochsAt, HeldAt, PrintAt,
         PlainAt, Trusted, Untold, NoPrints, PrintsStand, Stands
    <2>2. CASE AccountLost
      BY <2>2, HeadLost
    <2>3. ASSUME NEW d \in Device, Quiet(d) \/ Requested(d) PROVE HeadInv'
      <3>1. VaultAt' /\ Grows(d)
        BY <2>3, VaultGrows DEF HeadInv
      <3>2. VaultMoves
        BY StepServer, VaultStep DEF HeadInv, VaultAt
      <3>3. Beside
        BY <3>1, <3>2 DEF Beside, Grows, HeadInv
      <3>4. ASSUME NEW c \in Device PROVE HeadAt(c)'
        BY <2>3, <3>1, <3>3, HeadStep, HeadElsewhere DEF HeadInv
      <3> QED BY <3>1, <3>4 DEF HeadInv
    <2> QED BY <2>1, <2>2, <2>3, StepKinds
  <1> QED BY <1>1, <1>2, SyncInvariance, PTL DEF Spec

\* A head that carries a print is true: the vault stores that content under that
\* revision, whatever is cut, crashed, lost or given up as long as the account lives,
\* and after its loss too if nothing ends the first pass of a device half-way
\* (forgetSyncEntityFingerprints, detectServerReset).
THEOREM HeadsStand ==
    ASSUME "account" \notin Faults \/ FirstPassWhole
    PROVE  Spec => []HeadsAreTrue
  <1>1. HeadInv => HeadsAreTrue
    <2> SUFFICES ASSUME HeadInv, NEW d \in Device, NEW e \in Entity, Current(d),
                        localHead[d][e].print # Gone
                 PROVE  Stands(e, localHead[d][e].rev, localHead[d][e].print)
      BY DEF HeadsAreTrue, Stands
    <2>1. HeadAt(d) /\ Trusted(d)
      BY DEF HeadInv, Trusted, Current
    <2> QED BY <2>1 DEF HeadAt, PrintAt, PrintsStand
  <1> QED BY <1>1, HeadInvariant, PTL
-----------------------------------------------------------------------------
(***************************************************************************)
(* Settled devices show what the vault holds last.  A settled device has   *)
(* passed the whole log, so its head of an entity is at the entity's       *)
(* newest row (NothingIsSkipped); what is in its database is what that     *)
(* head was taken of (HeadsStand), or nothing, if the head is a tombstone. *)
(* The vault stores a row for every head it keeps, and a device's          *)
(* tombstone is one the vault stores: both for want of compaction and as   *)
(* long as the account is not lost.                                        *)
(***************************************************************************)

\* The vault still has the row its own head of an entity was taken of.
HeadsStored ==
    \A e \in Entity : heads[e].rev > 0 => \E r \in log : r.ent = e /\ r.rev = heads[e].rev

\* What a device holds for deleted the vault stores as deleted.
TombsStand(d) ==
    \A e \in Entity : localHead[d][e].del => Stands(e, localHead[d][e].rev, Gone)

NewestInv == HeadsStored /\ \A d \in Device : TombsStand(d)

\* A head moves only together with the row it is taken of.
LEMMA HeadsStoredStep ==
    ASSUME Inv, VaultAt, HeadsStored, NEW d \in Device, Quiet(d) \/ Requested(d)
    PROVE  HeadsStored'
  <1>1. log \subseteq log'
    BY VaultGrows DEF Grows
  <1>2. CASE heads' = heads
    BY <1>1, <1>2 DEF HeadsStored
  <1>3. CASE SendPush(d)
    <2> DEFINE rows == Compact(log, Seen(d), ack)
               new == Fresh(pass[d].batch, rows)
    <2>1. PushTaken(d, pass[d].batch)
      BY <1>3 DEF SendPush
    <2>2. PICK pos \in Numbering(new) :
            /\ log' = rows \cup AppendRows(new, pos)
            /\ heads' = [e \in Entity |->
                  IF \E m \in new : m.ent = e
                  THEN LET m == CHOOSE m \in new : m.ent = e
                       IN  [rev |-> m.rev, seq |-> pos[m]]
                  ELSE heads[e]]
      BY <2>1 DEF PushTaken
    <2> HIDE DEF rows, new
    <2>3. ASSUME NEW e \in Entity, heads'[e].rev > 0
          PROVE  \E r \in log' : r.ent = e /\ r.rev = heads'[e].rev
      <3>1. CASE \E m \in new : m.ent = e
        <4>1. PICK m \in new : m.ent = e /\ heads'[e].rev = m.rev
          BY <2>2, <3>1
        <4> DEFINE r == [ent |-> m.ent, rev |-> m.rev, body |-> m.body, seq |-> pos[m]]
        <4>2. r \in AppendRows(new, pos)
          BY DEF AppendRows
        <4>3. r \in log'
          BY <2>2, <4>2
        <4> QED BY <4>1, <4>3
      <3>2. CASE ~\E m \in new : m.ent = e
        <4>1. heads'[e] = heads[e]
          BY <2>2, <3>2
        <4> QED BY <1>1, <2>3, <4>1 DEF HeadsStored
      <3> QED BY <3>1, <3>2
    <2> QED BY <2>3 DEF HeadsStored
  <1>4. Requested(d) => heads' = heads \/ SendPush(d)
    BY DEF Requested, EnrollDevice, Enroll, SendRefusedPush, PushRefused, LoseAnswer, SendPull,
       Pull, serverVars
  <1>5. Quiet(d) => heads' = heads
    BY QuietServer DEF serverVars
  <1> QED BY <1>2, <1>3, <1>4, <1>5

\* A saved head that is a tombstone is one the vault stores.
LEMMA SavedTomb ==
    ASSUME NEW d \in Device, NEW e \in Entity, NEW m, m.ent = e,
           Stands(m.ent, m.rev, m.body.content),
           localHead[d][e].del => Stands(e, localHead[d][e].rev, Gone),
           NEW h, h = Saved(localHead[d][e], HeadOf(m)), h.del
    PROVE  Stands(e, h.rev, Gone)
  <1>1. HeadOf(m).rev = m.rev /\ (HeadOf(m).del => m.body.content = Gone)
    BY DEF HeadOf
  <1>2. h = HeadOf(m) \/ h = localHead[d][e]
    BY DEF Saved
  <1> QED BY <1>1, <1>2

\* An answer is of the account that is there, when there is only one.
LEMMA AnswerIsCurrent ==
    ASSUME "account" \notin Faults, Inv, VaultAt, NEW d \in Device, HeadAt(d),
           pc[d] \in {"save", "rowhead"}
    PROVE  live /\ pass[d].epoch = epoch
  <1>1. pass[d].epoch >= 1 /\ pass[d].epoch <= epoch
    BY DEF HeadAt, EpochsAt, Answered
  <1>2. (~live => epoch = 0) /\ epoch <= 1
    BY DEF VaultAt
  <1> QED BY <1>1, <1>2, HeadTypes

\* A device's tombstones stay true: heads are written of what the vault stores, and
\* forgetting takes the prints only.
LEMMA TombsStep ==
    ASSUME "account" \notin Faults, Inv, VaultAt, NEW d \in Device, HeadAt(d), TombsStand(d),
           Quiet(d) \/ Requested(d)
    PROVE  TombsStand(d)'
  <1> USE HeadTypes
  <1>1. log \subseteq log'
    BY VaultGrows DEF Grows
  <1>2. ASSUME \A e \in Entity : /\ localHead'[d][e].del = localHead[d][e].del
                                 /\ localHead'[d][e].rev = localHead[d][e].rev
        PROVE  TombsStand(d)'
    BY <1>1, <1>2, StandsStays DEF TombsStand
  <1>3. ASSUME \A e \in Entity : localHead'[d][e].del => Stands(e, localHead'[d][e].rev, Gone)
        PROVE  TombsStand(d)'
    <2>1. ASSUME NEW e \in Entity, localHead'[d][e].del
          PROVE  Stands(e, localHead[d][e].rev, Gone)'
      BY <1>1, <1>3, <2>1 DEF Stands
    <2> QED BY <2>1 DEF TombsStand
  <1>4. CASE SaveAccepted(d)
    <2> DEFINE accepted == pass[d].accepted
    <2>1. \A e \in Entity : localHead'[d][e] =
            IF \E m \in accepted : m.ent = e
            THEN Saved(localHead[d][e], HeadOf(CHOOSE m \in accepted : m.ent = e))
            ELSE localHead[d][e]
      BY <1>4 DEF SaveAccepted, Inv, LocalOK
    <2>2. \A m \in accepted : Stands(m.ent, m.rev, m.body.content)
      BY <1>4, AnswerIsCurrent DEF SaveAccepted, HeadAt, HeldAt
    <2> HIDE DEF accepted
    <2>3. ASSUME NEW e \in Entity, localHead'[d][e].del
          PROVE  Stands(e, localHead'[d][e].rev, Gone)
      <3>1. CASE \E m \in accepted : m.ent = e
        <4>1. PICK m \in accepted : m.ent = e /\ localHead'[d][e] = Saved(localHead[d][e], HeadOf(m))
          BY <2>1, <3>1
        <4> QED BY <2>2, <2>3, <4>1, SavedTomb DEF TombsStand
      <3>2. CASE ~\E m \in accepted : m.ent = e
        BY <2>1, <2>3, <3>2 DEF TombsStand
      <3> QED BY <3>1, <3>2
    <2> QED BY <1>3, <2>3
  <1>5. CASE SaveRowHead(d)
    <2> DEFINE r == FirstRow(d)
    <2>1. r \in pass[d].page /\ r.ent \in Entity
      BY <1>5, FirstRowOfPage DEF SaveRowHead, Inv, PassOK
    <2>2. \A e \in Entity : localHead'[d][e] =
            IF e = r.ent THEN Saved(localHead[d][e], HeadOf(r)) ELSE localHead[d][e]
      BY <1>5, <2>1 DEF SaveRowHead, Inv, LocalOK
    <2>3. r \in log
      BY <1>5, <2>1, AnswerIsCurrent DEF SaveRowHead, HeadAt, HeldAt
    <2> HIDE DEF r
    <2>4. Stands(r.ent, r.rev, r.body.content)
      BY <2>3 DEF Stands
    <2>5. ASSUME NEW e \in Entity, localHead'[d][e].del
          PROVE  Stands(e, localHead'[d][e].rev, Gone)
      <3>1. CASE e = r.ent
        BY <2>2, <2>4, <2>5, <3>1, SavedTomb DEF TombsStand
      <3>2. CASE e # r.ent
        BY <2>2, <2>5, <3>2 DEF TombsStand
      <3> QED BY <3>1, <3>2
    <2> QED BY <1>3, <2>5
  <1>6. CASE PushFindsReset(d) \/ PullFindsReset(d)
    <2>1. localHead'[d] = Forgotten(localHead[d])
      BY <1>6 DEF PushFindsReset, PullFindsReset, Inv, LocalOK
    <2>2. \A e \in Entity : localHead'[d][e] = [localHead[d][e] EXCEPT !.print = Gone]
      BY <2>1 DEF Forgotten
    <2>3. \A e \in Entity : localHead[d][e] \in Head
      OBVIOUS
    <2> QED BY <1>2, <2>2, <2>3 DEF Head
  <1>7. CASE UNCHANGED localHead
    BY <1>2, <1>7
  <1>8. UserStep(d) => UNCHANGED localHead
    BY DEF UserStep, Edit, StartRun, CancelRun, Restart, Crash, EndProcess
  <1>9. Requested(d) => UNCHANGED localHead
    BY DEF Requested, EnrollDevice, SendPush, SendRefusedPush, LoseAnswer, SendPull
  <1>10. ASSUME \/ StopRun(d) \/ Collect(d) \/ SkipPush(d) \/ Unreachable(d) \/ Denied(d)
                \/ PushThrows(d) \/ DatabaseRefuses(d) \/ SaveReset(d) \/ TakePushAnswer(d)
                \/ SkipRow(d) \/ ImportRow(d) \/ PoisonRow(d) \/ FinishPass(d)
                \/ \E answers \in BOOLEAN : ProjectionThrows(d, answers)
         PROVE  UNCHANGED localHead
    <2>1. StopRun(d) \/ SkipPush(d) \/ Unreachable(d) => UNCHANGED localHead
      BY DEF StopRun, SkipPush, Unreachable
    <2>2. Collect(d) => UNCHANGED localHead
      BY DEF Collect
    <2>3. Denied(d) \/ PushThrows(d) \/ DatabaseRefuses(d) => UNCHANGED localHead
      BY DEF Denied, PushThrows, DatabaseRefuses
    <2>4. SaveReset(d) \/ TakePushAnswer(d) \/ FinishPass(d) => UNCHANGED localHead
      BY DEF SaveReset, TakePushAnswer, FinishPass
    <2>5. SkipRow(d) \/ ImportRow(d) \/ PoisonRow(d) => UNCHANGED localHead
      BY DEF SkipRow, ImportRow, PoisonRow
    <2>6. \A answers \in BOOLEAN : ProjectionThrows(d, answers) => UNCHANGED localHead
      BY DEF ProjectionThrows
    <2> QED BY <1>10, <2>1, <2>2, <2>3, <2>4, <2>5, <2>6
  <1>11. Quiet(d) => \/ UNCHANGED localHead \/ SaveAccepted(d) \/ SaveRowHead(d)
                     \/ PushFindsReset(d) \/ PullFindsReset(d)
    BY <1>8, <1>10 DEF Quiet
  <1> QED BY <1>4, <1>5, <1>6, <1>7, <1>9, <1>11

\* What settled devices rest on is inductive.
LEMMA NewestInvariant ==
    ASSUME "account" \notin Faults
    PROVE  Spec => []NewestInv
  <1>1. Init => NewestInv
    <2> SUFFICES ASSUME Init PROVE HeadsStored /\ \A d \in Device : TombsStand(d)
      BY DEF NewestInv
    <2>1. \A e \in Entity : heads[e].rev = 0
      BY DEF Init, ServerInit, NoHead
    <2>2. \A d \in Device, e \in Entity : ~localHead[d][e].del
      BY DEF Init, NoLocalHead
    <2> QED BY <2>1, <2>2 DEF HeadsStored, TombsStand
  <1>2. Inv /\ HeadInv /\ NewestInv /\ [Next]_vars => NewestInv'
    <2> SUFFICES ASSUME Inv, HeadInv, NewestInv, [Next]_vars PROVE NewestInv'
      OBVIOUS
    <2>1. CASE UNCHANGED vars
      BY <2>1 DEF vars, NewestInv, HeadsStored, TombsStand, Stands
    <2>2. ~AccountLost
      BY DEF AccountLost
    <2>3. ASSUME NEW d \in Device, Quiet(d) \/ Requested(d) PROVE NewestInv'
      <3>1. HeadsStored'
        BY <2>3, HeadsStoredStep DEF HeadInv, NewestInv
      <3>2. log \subseteq log'
        BY <2>3, VaultGrows DEF Grows, HeadInv
      <3>3. ASSUME NEW c \in Device PROVE TombsStand(c)'
        <4>1. TombsStand(c) /\ HeadAt(c) /\ VaultAt
          BY DEF NewestInv, HeadInv
        <4>2. CASE c = d
          BY <2>3, <4>1, <4>2, TombsStep
        <4>3. CASE c # d
          <5>1. localHead'[c] = localHead[c]
            BY <2>3, <4>3, OthersUntouched
          <5> QED BY <3>2, <4>1, <5>1, StandsStays DEF TombsStand
        <4> QED BY <4>2, <4>3
      <3> QED BY <3>1, <3>3 DEF NewestInv
    <2> QED BY <2>1, <2>2, <2>3, StepKinds
  <1> QED BY <1>1, <1>2, SyncInvariance, HeadInvariant, PTL DEF Spec

\* No id is stored twice.
LEMMA IdsUnique ==
    ASSUME Inv, NEW r \in log, NEW q \in log, r.ent = q.ent, r.rev = q.rev
    PROVE  r = q
  <1>1. /\ r.seq \in Nat /\ q.seq \in Nat /\ r.rev \in Nat /\ q.rev \in Nat
    BY ServerAssumption DEF Inv, ServerOK, IInv, TypeOK, Row, Revision
  <1>2. ~(r.seq < q.seq) /\ ~(q.seq < r.seq)
    BY <1>1 DEF Inv, ServerOK, IInv, LogFollowsHeads
  <1>3. r.seq = q.seq
    BY <1>1, <1>2
  <1> QED BY <1>3 DEF Inv, ServerOK, IInv, LogFollowsHeads

\* A device with nothing left to fetch or to send shows what the vault holds last of
\* every entity, whoever wrote it and whatever was cut, crashed, lost or repeated on
\* the way - as long as the account is not lost and the probe of the database is
\* right.  With it, settled devices show the same (runLiveSync: collectPending,
\* applyPulledMutation, saveSyncState).
THEOREM SettledIsNewest ==
    ASSUME "account" \notin Faults, "flicker" \notin Faults
    PROVE  Spec => []SettledShowsNewest
  <1>1. Inv /\ NoRowSkipped /\ HeadsAreTrue /\ NewestInv => SettledShowsNewest
    <2> SUFFICES ASSUME Inv, NoRowSkipped, HeadsAreTrue, NewestInv,
                        NEW d \in Device, NEW e \in Entity, Settled(d, e)
                 PROVE  \/ heads[e].rev = 0 /\ val[d][e] = Gone
                        \/ \E r \in log : /\ r.ent = e /\ r.rev = heads[e].rev
                                          /\ r.body.content \in {val[d][e]} \cup Bad
      BY DEF SettledShowsNewest
    <2> DEFINE head == localHead[d][e]
    <2>0. /\ Current(d) /\ cursor[d] = lastSeq
          /\ val[d][e] # Gone => head.rev > 0 /\ head.print = val[d][e]
          /\ val[d][e] = Gone => ~(head.rev > 0) \/ head.del
      BY DEF Settled, ChangedRows, LostRows, Unchanged
    <2>1. /\ head.rev \in 0..MaxRevision /\ heads[e].rev \in Nat /\ MaxRevision \in Nat
          /\ \A r \in log : r.rev \in Nat /\ r.ent \in Entity
      BY ServerAssumption DEF Inv, ServerOK, IInv, TypeOK, LocalOK, Head, Row, Revision
    <2> HIDE DEF head
    <2>2. \A r \in log : r.seq <= lastSeq /\ r.rev <= heads[r.ent].rev
      BY DEF Inv, ServerOK, IInv, LogFollowsHeads, TypeOK
    <2>3. \A r, q \in log : r.ent = q.ent /\ r.rev = q.rev => r = q
      BY IdsUnique
    <2>4. val[d][e] # Gone \/ head.del => Stands(e, head.rev, val[d][e])
      <3>1. CASE val[d][e] # Gone
        BY <2>0, <3>1 DEF HeadsAreTrue, Stands, head
      <3>2. CASE head.del /\ val[d][e] = Gone
        BY <3>2 DEF NewestInv, TombsStand, head
      <3> QED BY <3>1, <3>2
    <2>5. ASSUME val[d][e] # Gone \/ head.rev > 0
          PROVE  \E r \in log : r.ent = e /\ r.rev = head.rev /\ r.body.content = val[d][e]
      BY <2>0, <2>4, <2>5 DEF Stands
    <2>6. CASE heads[e].rev = 0
      <3>1. ~\E r \in log : r.ent = e /\ r.rev = head.rev /\ head.rev > 0
        BY <2>1, <2>2, <2>6
      <3>2. val[d][e] = Gone
        BY <2>0, <2>5, <3>1
      <3> QED BY <2>6, <3>2
    <2>7. CASE heads[e].rev > 0
      <3>1. PICK r \in log : r.ent = e /\ r.rev = heads[e].rev
        BY <2>7 DEF NewestInv, HeadsStored
      <3>2. CASE r.body.content \in Bad
        BY <3>1, <3>2
      <3>3. CASE r.body.content \notin Bad
        <4>1. head.rev >= r.rev
          BY <2>0, <2>2, <3>1, <3>3 DEF NoRowSkipped, head
        <4>2. PICK q \in log : q.ent = e /\ q.rev = head.rev /\ q.body.content = val[d][e]
          BY <2>1, <2>5, <2>7, <3>1, <4>1
        <4>3. q.rev = r.rev
          BY <2>1, <2>2, <3>1, <4>1, <4>2
        <4>4. q = r
          BY <2>3, <3>1, <4>2, <4>3
        <4> QED BY <3>1, <4>2, <4>4
      <3> QED BY <3>2, <3>3
    <2> QED BY <2>1, <2>6, <2>7
  <1> QED BY <1>1, SyncInvariance, NothingIsSkipped, HeadsStand, NewestInvariant, PTL

\* Settled devices show the same, if there is no content that only some of them can
\* take: no two devices of the account are ever left with different rows that none
\* of them has any reason to look at again (the same passes of runLiveSync).
THEOREM SettledAgree ==
    ASSUME "account" \notin Faults, "flicker" \notin Faults, Bad = {}
    PROVE  Spec => [](\A c, d \in Device, e \in Entity :
                         Settled(c, e) /\ Settled(d, e) => val[c][e] = val[d][e])
  <1>1. Inv /\ SettledShowsNewest =>
          \A c, d \in Device, e \in Entity :
              Settled(c, e) /\ Settled(d, e) => val[c][e] = val[d][e]
    <2> SUFFICES ASSUME Inv, SettledShowsNewest, NEW c \in Device, NEW d \in Device,
                        NEW e \in Entity, Settled(c, e), Settled(d, e)
                 PROVE  val[c][e] = val[d][e]
      OBVIOUS
    <2>1. CASE heads[e].rev = 0
      <3>1. \A r \in log : r.ent = e => r.rev # heads[e].rev
        BY <2>1, ServerAssumption DEF Inv, ServerOK, IInv, TypeOK, Row, Revision
      <3> QED BY <3>1 DEF SettledShowsNewest
    <2>2. CASE heads[e].rev # 0
      <3>1. PICK r \in log : r.ent = e /\ r.rev = heads[e].rev /\ r.body.content = val[c][e]
        BY <2>2 DEF SettledShowsNewest
      <3>2. PICK q \in log : q.ent = e /\ q.rev = heads[e].rev /\ q.body.content = val[d][e]
        BY <2>2 DEF SettledShowsNewest
      <3>3. r = q
        BY <3>1, <3>2, IdsUnique
      <3> QED BY <3>1, <3>2, <3>3
    <2> QED BY <2>1, <2>2
  <1> QED BY <1>1, SyncInvariance, SettledIsNewest, PTL
=============================================================================
