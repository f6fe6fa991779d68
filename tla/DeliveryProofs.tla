--------------------------- MODULE DeliveryProofs ---------------------------
(***************************************************************************)
(* Theorems about Delivery, for any frames, connections, restarts, deaths  *)
(* and failures: the types, that each frame has one handler and takes      *)
(* effect once, that the watermark is not left behind, and that it passes  *)
(* no frame that was neither handled nor let go.                           *)
(***************************************************************************)
EXTENDS Delivery, FiniteSetTheorems, WellFoundedInduction, TLAPS

-----------------------------------------------------------------------------
(* What the operators of the coordinator return.                           *)

Closure == [mark : Nat, done : {0} \cup Time, failed : SUBSET Time,
            held : SUBSET Time, inFlight : [Time -> Nat]]

\* Frames are numbers, and times are positive numbers.
LEMMA TimesCount ==
    /\ Frame = 1..Len(TimeOf) /\ Len(TimeOf) \in Nat
    /\ \A f \in Frame : TimeOf[f] \in Time
    /\ \A t \in Time : t \in Nat /\ t > 0
<1>1. TimeOf \in Seq(Nat \ {0})
  BY RelayAssumption
<1>2. Frame = 1..Len(TimeOf) /\ Len(TimeOf) \in Nat
  BY <1>1 DEF Frame
<1>3. \A f \in Frame : TimeOf[f] \in Nat \ {0}
  BY <1>1, <1>2
<1> QED BY <1>2, <1>3 DEF Time

\* A set of numbers that is not empty has a smallest one.
LEMMA Smallest ==
    ASSUME NEW S \in SUBSET Nat, S # {}
    PROVE \E x \in S : \A y \in S : x <= y
<1> DEFINE Less == OpToRel(<, Nat)
<1>1. IsWellFoundedOn(Less, Nat)
  BY NatLessThanWellFounded
<1>2. Less = {p \in Nat \X Nat : p[1] < p[2]}
  BY Zenon DEF OpToRel
<1> HIDE DEF Less
<1>3. PICK x \in S : \A y \in S : ~(<<y, x>> \in Less)
  BY <1>1, WFMin, Zenon
<1>4. ASSUME NEW y \in S, y < x PROVE FALSE
  <2>1. <<y, x>> \in Less
    BY <1>2, <1>4
  <2> QED BY <2>1, <1>3
<1> QED BY <1>4

\* advance() stays below all that is blocked.
LEMMA TargetBelow ==
    ASSUME NEW k \in Closure, NEW t \in Nat
    PROVE /\ Target(k, t) \in Nat /\ Target(k, t) <= t
          /\ \A b \in Blocked(k) : Target(k, t) < b
          /\ Blocked(k) = {} => Target(k, t) = t
<1> DEFINE S == {b - 1 : b \in {b \in Blocked(k) : b <= t}} \cup {t}
<1>1. Blocked(k) \subseteq Time
  BY DEF Blocked, Closure
<1>2. \A b \in Blocked(k) : b \in Nat /\ b > 0
  BY <1>1, TimesCount
<1>3. S \subseteq Nat /\ t \in S
  BY <1>2
<1>4. Target(k, t) = CHOOSE x \in S : \A y \in S : x <= y
  BY DEF Target
<1>5. \A b \in Blocked(k) : b <= t => b - 1 \in S
  OBVIOUS
<1>6. Blocked(k) = {} => S = {t}
  OBVIOUS
<1> HIDE DEF S
<1>7. \E x \in S : \A y \in S : x <= y
  BY <1>3, Smallest
<1>8. Target(k, t) \in S /\ \A y \in S : Target(k, t) <= y
  BY <1>4, <1>7
<1>9. ASSUME NEW b \in Blocked(k) PROVE Target(k, t) < b
  <2>1. Target(k, t) \in Nat /\ b \in Nat /\ Target(k, t) <= t
    BY <1>2, <1>3, <1>8
  <2>2. CASE b <= t
    <3>1. Target(k, t) <= b - 1
      BY <1>5, <1>8, <2>2
    <3> QED BY <2>1, <3>1
  <2>3. CASE ~(b <= t)
    BY <2>1, <2>3
  <2> QED BY <2>2, <2>3
<1> QED BY <1>3, <1>6, <1>8, <1>9

\* What markDone leaves in each part of the watermark.
LEMMA MarkDoneShape ==
    ASSUME NEW k \in Closure, NEW t \in Time
    PROVE LET n == MarkDone(k, t)
          IN  /\ n \in Closure
              /\ n.failed = k.failed /\ n.held = k.held /\ n.inFlight = k.inFlight
              /\ n.done = IF t > k.done THEN t ELSE k.done
              /\ n.mark >= k.mark
              /\ n.mark = k.mark \/ (n.mark <= n.done /\ \A b \in Blocked(k) : n.mark < b)
              /\ Blocked(k) = {} => n.mark >= n.done
<1> DEFINE done == IF t > k.done THEN t ELSE k.done
           target == Target(k, done)
<1>1. done \in {0} \cup Time /\ done \in Nat
  BY TimesCount DEF Closure
<1>2. /\ target \in Nat /\ target <= done
      /\ \A b \in Blocked(k) : target < b
      /\ Blocked(k) = {} => target = done
  BY <1>1, TargetBelow
<1>3. MarkDone(k, t) = [k EXCEPT !.done = done, !.mark = IF target > @ THEN target ELSE @]
  BY DEF MarkDone
<1> HIDE DEF done, target
<1>4. k.mark \in Nat
  BY DEF Closure
<1> DEFINE mark == IF target > k.mark THEN target ELSE k.mark
<1>5. mark \in Nat /\ mark >= k.mark
  BY <1>2, <1>4
<1>6. MarkDone(k, t) = [k EXCEPT !.done = done, !.mark = mark]
  BY <1>3
<1>7. mark = k.mark \/ (mark <= done /\ \A b \in Blocked(k) : mark < b)
  BY <1>2, <1>4
<1>8. Blocked(k) = {} => mark >= done
  BY <1>1, <1>2, <1>4
<1> HIDE DEF mark
<1>9. /\ MarkDone(k, t) \in Closure
      /\ MarkDone(k, t).done = done /\ MarkDone(k, t).mark = mark
      /\ MarkDone(k, t).failed = k.failed /\ MarkDone(k, t).held = k.held
      /\ MarkDone(k, t).inFlight = k.inFlight
  BY <1>1, <1>5, <1>6 DEF Closure
<1> QED BY <1>5, <1>7, <1>8, <1>9 DEF done

\* A closure once a frame of time t has been handled.
Ended(k, t, consumed) ==
    IF consumed THEN Consumed(Release(k, t), t) ELSE Refused(Release(k, t), t)

\* What releaseHeld leaves in each part of the watermark.
LEMMA ReleaseShape ==
    ASSUME NEW k \in Closure, NEW t \in Time
    PROVE /\ Release(k, t) \in Closure
          /\ Release(k, t).mark = k.mark /\ Release(k, t).done = k.done
          /\ Release(k, t).failed = k.failed /\ Release(k, t).held = k.held
          /\ \A u \in Time : Release(k, t).inFlight[u] =
                IF u = t /\ k.inFlight[t] > 0 THEN k.inFlight[t] - 1 ELSE k.inFlight[u]
BY DEF Closure, Release

\* What hold leaves in each part of the watermark.
LEMMA HoldShape ==
    ASSUME NEW s \in Session, closure[s] \in Closure, NEW t \in Time
    PROVE /\ Hold(s, t) \in Closure
          /\ Hold(s, t).mark = closure[s].mark /\ Hold(s, t).done = closure[s].done
          /\ Hold(s, t).failed = closure[s].failed /\ Hold(s, t).held = closure[s].held
          /\ \A u \in Time : Hold(s, t).inFlight[u] =
                IF u = t THEN closure[s].inFlight[t] + 1 ELSE closure[s].inFlight[u]
<1> DEFINE k == closure[s]
<1>1. Hold(s, t) = [k EXCEPT !.inFlight[t] = @ + 1]
  BY DEF Hold
<1>2. k \in Closure
  OBVIOUS
<1> HIDE DEF k
<1> QED BY <1>1, <1>2 DEF Closure, k

\* What becomes of closure k.
Follows(k, t, ok, n) ==
    /\ n \in Closure
    /\ n.done \in {k.done, t}
    /\ n.failed \subseteq (IF ok THEN k.failed ELSE k.failed \cup {t})
    /\ n.held = IF ok \/ t \in k.failed THEN k.held \ {t} ELSE k.held \cup {t}
    /\ \A u \in Time : n.inFlight[u] =
          IF u = t /\ k.inFlight[t] > 0 THEN k.inFlight[t] - 1 ELSE k.inFlight[u]
    /\ n.mark >= k.mark
    /\ n.mark = k.mark \/ (n.mark <= n.done /\ \A b \in Blocked(n) : n.mark < b)
    /\ Blocked(n) = {} => n.mark >= n.done

LEMMA EndedShape ==
    ASSUME NEW k \in Closure, NEW t \in Time, NEW ok \in BOOLEAN
    PROVE Follows(k, t, ok, Ended(k, t, ok))
<1> DEFINE r == Release(k, t)
           n == Ended(k, t, ok)
<1>1. /\ r \in Closure
      /\ r.mark = k.mark /\ r.done = k.done
      /\ r.failed = k.failed /\ r.held = k.held
      /\ \A u \in Time : r.inFlight[u] =
            IF u = t /\ k.inFlight[t] > 0 THEN k.inFlight[t] - 1 ELSE k.inFlight[u]
  BY ReleaseShape
<1> HIDE DEF r
<1>2. CASE ok
  <2> DEFINE q == [r EXCEPT !.held = @ \ {t}, !.failed = @ \ {t}]
  <2>1. /\ q \in Closure
        /\ q.mark = r.mark /\ q.done = r.done /\ q.inFlight = r.inFlight
        /\ q.held = r.held \ {t} /\ q.failed = r.failed \ {t}
    BY <1>1 DEF Closure
  <2>2. n = MarkDone(q, t)
    BY <1>2 DEF Ended, Consumed, r
  <2> HIDE DEF q, n
  <2>3. Blocked(n) = Blocked(q)
    BY <2>1, <2>2, MarkDoneShape DEF Blocked
  <2>4. /\ n \in Closure
        /\ n.failed = q.failed /\ n.held = q.held /\ n.inFlight = q.inFlight
        /\ n.done \in {q.done, t} /\ n.mark >= q.mark
        /\ n.mark = q.mark \/ (n.mark <= n.done /\ \A b \in Blocked(q) : n.mark < b)
        /\ Blocked(q) = {} => n.mark >= n.done
    BY <2>1, <2>2, MarkDoneShape
  <2> QED BY <1>1, <1>2, <2>1, <2>3, <2>4 DEF Follows, n
<1>3. CASE ~ok /\ t \in r.failed
  <2> DEFINE q == [r EXCEPT !.held = @ \ {t}]
  <2>1. /\ q \in Closure
        /\ q.mark = r.mark /\ q.done = r.done /\ q.inFlight = r.inFlight
        /\ q.held = r.held \ {t} /\ q.failed = r.failed
    BY <1>1 DEF Closure
  <2>2. n = MarkDone(q, t)
    BY <1>3 DEF Ended, Refused, r
  <2> HIDE DEF q, n
  <2>3. Blocked(n) = Blocked(q)
    BY <2>1, <2>2, MarkDoneShape DEF Blocked
  <2>4. /\ n \in Closure
        /\ n.failed = q.failed /\ n.held = q.held /\ n.inFlight = q.inFlight
        /\ n.done \in {q.done, t} /\ n.mark >= q.mark
        /\ n.mark = q.mark \/ (n.mark <= n.done /\ \A b \in Blocked(q) : n.mark < b)
        /\ Blocked(q) = {} => n.mark >= n.done
    BY <2>1, <2>2, MarkDoneShape
  <2> QED BY <1>1, <1>3, <2>1, <2>3, <2>4 DEF Follows, n
<1>4. CASE ~ok /\ t \notin r.failed
  <2> DEFINE rest == IF Cardinality(r.failed) > FailedCap THEN {} ELSE r.failed
  <2>1. n = [r EXCEPT !.held = r.held \cup {t}, !.failed = rest \cup {t}]
    BY <1>4 DEF Ended, Refused, r
  <2>2. rest \subseteq r.failed
    OBVIOUS
  <2> HIDE DEF rest, n
  <2>3. /\ n \in Closure
        /\ n.mark = r.mark /\ n.done = r.done /\ n.inFlight = r.inFlight
        /\ n.held = r.held \cup {t} /\ n.failed \subseteq r.failed \cup {t}
    BY <1>1, <2>1, <2>2 DEF Closure
  <2>4. t \in Blocked(n)
    BY <2>3 DEF Blocked
  <2>5. n.mark >= k.mark
    BY <1>1, <2>3 DEF Closure
  <2> QED BY <1>1, <1>4, <2>3, <2>4, <2>5 DEF Follows, n
<1> QED BY <1>2, <1>3, <1>4

\* Handled, in these words.
LEMMA HandledEnds ==
    ASSUME TypeOK, NEW f \in Frame, NEW c \in Connection, NEW ok \in BOOLEAN,
           Handled(f, c, ok)
    PROVE LET s == sessionOf[c]
              n == Ended(closure[s], TimeOf[f], ok)
          IN  /\ s \in Session /\ closure[s] \in Closure /\ n \in Closure
              /\ closure' = [closure EXCEPT ![s] = n]
              /\ <<disk', pending'>> \in {<<disk, pending>>, <<n.mark, 0>>, <<disk, n.mark>>}
              /\ UNCHANGED <<started, session, connection, sessionOf, next>>
<1>1. sessionOf[c] \in Session /\ closure[sessionOf[c]] \in Closure /\ TimeOf[f] \in Time
  BY TimesCount DEF TypeOK, RelayTypeOK, Closure
<1>2. Ended(closure[sessionOf[c]], TimeOf[f], ok) \in Closure
  BY <1>1, EndedShape DEF Follows
<1> QED BY <1>1, <1>2 DEF Handled, Ended, Save

-----------------------------------------------------------------------------
(* What a step does to the inbox, and to the relay's side.                 *)

\* A frame is handed over by a connection there is.
Linked == next # 0 => connection \in Connection

\* Only a deletion or an edit has a second write.
Ordered ==
    \A m \in Frame, c \in Connection :
        handling[<<m, c>>] \in {"deleting", "editing", "marking"} => Kind[m] # "text"

InboxStep(m, c) ==
    \/ Inbox!Receive(m, c) \/ Inbox!Proceed(m, c) \/ Inbox!Done(m, c)
    \/ Inbox!Deferred(m, c) \/ Inbox!LookFails(m, c) \/ Inbox!MarkFails(m, c)

\* A step leaves the inbox alone, begins it anew, or is one of one handling.
LEMMA InboxMoves ==
    ASSUME TypeOK, Linked, [Next]_vars
    PROVE \/ UNCHANGED <<inbox, kills>>
          \/ Inbox!InboxReborn /\ kills' = kills + 1
          \/ /\ UNCHANGED kills
             /\ \E m \in Frame, c \in Connection : InboxStep(m, c)
<1>1. CASE UNCHANGED vars
  BY <1>1 DEF vars, inbox
<1>2. CASE Relay
  BY <1>2 DEF Relay, inbox
<1>3. CASE Kill
  BY <1>3 DEF Kill
<1>4. ASSUME NEW f \in Frame, Deliver(f)
      PROVE UNCHANGED kills /\ connection \in Connection /\ Inbox!Receive(f, connection)
  <2>1. next # 0
    BY <1>4, TimesCount DEF Deliver, HandOver
  <2> QED BY <1>4, <2>1 DEF Deliver, Linked
<1>5. ASSUME NEW f \in Frame, NEW c \in Connection,
             Handle(f, c) \/ Accept(f, c) \/ Refuse(f, c) \/ Overlook(f, c)
      PROVE UNCHANGED kills /\ InboxStep(f, c)
  BY <1>5 DEF Handle, Accept, Refuse, Overlook, InboxStep
<1> QED BY <1>1, <1>2, <1>3, <1>4, <1>5 DEF Next, InboxStep

\* A step keeps the types of the inbox.
LEMMA InboxTypes ==
    ASSUME TypeOK, Linked, Ordered, [Next]_vars
    PROVE Inbox!InboxTypeOK' /\ Ordered'
<1> USE DEF TypeOK, Inbox!InboxTypeOK, Ordered, Inbox!Pc, Inbox!Text
<1>1. /\ Kind \in [Frame -> {"text", "delete", "edit"}] /\ Refers \in [Frame -> Frame]
      /\ \A m \in Frame : Kind[m] # "text" => Kind[Refers[m]] = "text"
  BY DeliveryAssumption DEF Inbox!InboxAssumption, Inbox!KindOf
<1>2. CASE UNCHANGED <<inbox, kills>>
  BY <1>2 DEF inbox
<1>3. CASE Inbox!InboxReborn
  BY <1>3 DEF Inbox!InboxReborn
<1>4. ASSUME NEW m \in Frame, NEW c \in Connection, InboxStep(m, c)
      PROVE Inbox!InboxTypeOK' /\ Ordered'
  <2> USE DEF Inbox!At, Inbox!Goto
  <2>1. CASE Inbox!Receive(m, c)
    BY <2>1 DEF Inbox!Receive
  <2>2. CASE Inbox!OpenFails(m, c) \/ Inbox!Repeated(m, c)
    BY <2>2 DEF Inbox!OpenFails, Inbox!Repeated
  <2>3. CASE Inbox!Stored(m, c) \/ Inbox!NotStored(m, c) \/ Inbox!LookFails(m, c)
    BY <2>3 DEF Inbox!Stored, Inbox!NotStored, Inbox!LookFails, Inbox!Look
  <2>4. CASE Inbox!DbFails(m, c)
    BY <2>4 DEF Inbox!DbFails
  <2>5. CASE Inbox!SaveText(m, c)
    BY <2>5 DEF Inbox!SaveText
  <2>6. CASE Inbox!NoTarget(m, c) \/ Inbox!TargetFound(m, c)
    BY <2>6, <1>1 DEF Inbox!NoTarget, Inbox!TargetFound
  <2>7. CASE Inbox!DeleteRow(m, c)
    <3>1. Refers[m] \in Frame /\ (m \in Frame /\ Kind[m] # "text" => Kind[Refers[m]] = "text")
      BY <1>1
    <3>2. row' = [row EXCEPT ![Refers[m]] = "none"] /\ erased' = erased \cup {Refers[m]}
      BY <2>7 DEF Inbox!DeleteRow
    <3> QED BY <2>7, <3>1, <3>2 DEF Inbox!DeleteRow
  <2>8. CASE Inbox!MarkDeleted(m, c) \/ Inbox!MarkFails(m, c)
    BY <2>8 DEF Inbox!MarkDeleted, Inbox!MarkFails
  <2>9. CASE Inbox!EditRow(m, c)
    BY <2>9, <1>1 DEF Inbox!EditRow
  <2> QED BY <1>4, <2>1, <2>2, <2>3, <2>4, <2>5, <2>6, <2>7, <2>8, <2>9
          DEF InboxStep, Inbox!Proceed, Inbox!Done, Inbox!Deferred
<1> QED BY <1>2, <1>3, <1>4, InboxMoves

\* A set of numbers that are above a bound begins at one of the positions of a
\* sequence in order, or after the last one.
LEMMA Beginning ==
    ASSUME NEW since \in Nat
    PROVE \E f \in 1..Len(TimeOf) + 1 :
            \A g \in Frame : (g >= f) <=> TimeOf[g] >= since
<1> DEFINE S == {f \in 1..Len(TimeOf) + 1 : \A g \in Frame : g >= f => TimeOf[g] >= since}
<1>1. Frame = 1..Len(TimeOf) /\ Len(TimeOf) \in Nat /\ \A g \in Frame : TimeOf[g] \in Nat
  BY TimesCount
<1>2. Len(TimeOf) + 1 \in S /\ S \in SUBSET Nat
  BY <1>1
<1>3. PICK f \in S : \A h \in S : f <= h
  <2> HIDE DEF S
  <2> QED BY <1>2, Smallest
<1>4. ASSUME NEW g \in Frame, g < f PROVE ~(TimeOf[g] >= since)
  <2> SUFFICES ASSUME TimeOf[g] >= since PROVE FALSE
    OBVIOUS
  <2>1. \A h \in Frame : h >= g => TimeOf[h] >= since
    <3>1. \A h \in Frame : g < h => TimeOf[g] <= TimeOf[h]
      BY RelayAssumption
    <3> QED BY <1>1, <3>1
  <2>2. g \in S
    BY <1>1, <2>1
  <2> HIDE DEF S
  <2> QED BY <1>1, <1>2, <1>3, <1>4, <2>2
<1> QED BY <1>1, <1>3, <1>4

\* The steps that end the handling of a frame, and those that do not.
LEMMA RelayMoves ==
    ASSUME TypeOK, [Next]_vars
    PROVE \/ UNCHANGED relayVars \/ Connect \/ Disconnect \/ Stop \/ Start \/ RelayReborn
          \/ \E f \in Frame : HandOver(f)
          \/ \E f \in Frame, c \in Connection, ok \in BOOLEAN : Handled(f, c, ok)
<1>1. CASE UNCHANGED vars \/ Relay \/ Kill \/ \E f \in Frame : Deliver(f)
  BY <1>1 DEF vars, Relay, Kill, Deliver
<1>2. ASSUME NEW f \in Frame, NEW c \in Connection, Handle(f, c)
      PROVE UNCHANGED relayVars
  BY <1>2 DEF Handle
<1>3. ASSUME NEW f \in Frame, NEW c \in Connection,
             Accept(f, c) \/ Refuse(f, c) \/ Overlook(f, c)
      PROVE Handled(f, c, TRUE) \/ Handled(f, c, FALSE) \/ UNCHANGED relayVars
  BY <1>3 DEF Accept, Refuse, Overlook
<1> QED BY <1>1, <1>2, <1>3 DEF Next

\* A step keeps the types of the relay's connections and of their watermarks.
LEMMA RelayTypes ==
    ASSUME TypeOK, Linked, [Next]_vars
    PROVE RelayTypeOK' /\ Linked'
<1> DEFINE Shape ==
             /\ next \in 0..Len(TimeOf) + 1
             /\ disk \in Nat /\ pending \in Nat
             /\ started \in BOOLEAN
             /\ session \in Session /\ connection \in 0..MaxConnections
             /\ sessionOf \in [Connection -> Session]
             /\ closure \in [Session -> Closure]
             /\ Linked
<1>s. Shape /\ (Shape' => RelayTypeOK' /\ Linked')
  BY DEF TypeOK, RelayTypeOK, Closure
<1> SUFFICES Shape'
  BY <1>s
<1> USE <1>s DEF Linked
<1>0. /\ Frame = 1..Len(TimeOf) /\ Len(TimeOf) \in Nat
      /\ MaxConnections \in Nat /\ MaxRestarts \in Nat
  BY TimesCount, RelayAssumption
<1>1. CASE UNCHANGED relayVars
  BY <1>1 DEF relayVars
<1>2. CASE Connect
  <2> DEFINE since == Since(closure[session].mark)
             P(f) == \A g \in Frame : (g >= f) <=> TimeOf[g] >= since
  <2>1. since \in Nat
    BY RelayAssumption DEF Since, Closure
  <2>2. next' = CHOOSE f \in 1..Len(TimeOf) + 1 : P(f)
    BY <1>2 DEF Connect
  <2> HIDE DEF since
  <2>3. \E f \in 1..Len(TimeOf) + 1 : P(f)
    BY <2>1, Beginning
  <2> HIDE DEF P
  <2>4. next' \in 1..Len(TimeOf) + 1
    BY <2>2, <2>3
  <2>5. connection + 1 \in Connection
    BY <1>2, <1>0 DEF Connect, Connection
  <2> QED BY <1>2, <1>0, <2>4, <2>5 DEF Connect
<1>3. CASE Disconnect
  BY <1>3, <1>0 DEF Disconnect
<1>8. CASE Stop
  <2>1. disk' \in Nat /\ pending' = 0
    BY <1>8 DEF Stop
  <2>2. started' \in BOOLEAN /\ next' = 0 /\ UNCHANGED <<session, connection, sessionOf, closure>>
    BY <1>8 DEF Stop
  <2> QED BY <1>0, <2>1, <2>2
<1>4. CASE Start
  <2>1. NoClosure(disk) \in Closure
    BY DEF NoClosure, Closure
  <2>2. session + 1 \in Session
    BY <1>4, <1>0 DEF Start, Session
  <2> QED BY <1>4, <1>0, <2>1, <2>2 DEF Start
<1>5. CASE RelayReborn
  <2>1. \A m \in Nat : NoClosure(m) \in Closure
    BY DEF NoClosure, Closure
  <2>2. closure' \in [Session -> Closure]
    <3>1. \A x \in Session : (IF x = session THEN disk ELSE 0) \in Nat
      OBVIOUS
    <3> QED BY <1>5, <2>1, <3>1 DEF RelayReborn
  <2> QED BY <1>5, <1>0, <2>2 DEF RelayReborn
<1>6. ASSUME NEW f \in Frame, HandOver(f) PROVE Shape'
  <2>1. Hold(session, TimeOf[f]) \in Closure
    BY TimesCount, HoldShape
  <2>2. closure' \in [Session -> Closure]
    BY <1>6, <2>1 DEF HandOver
  <2>3. next # 0 /\ next' \in 0..Len(TimeOf) + 1
    BY <1>6, <1>0 DEF HandOver
  <2> QED BY <1>6, <2>2, <2>3 DEF HandOver
<1>7. ASSUME NEW f \in Frame, NEW c \in Connection, NEW ok \in BOOLEAN, Handled(f, c, ok)
      PROVE Shape'
  <2>1. PICK s \in Session, n \in Closure :
            /\ closure' = [closure EXCEPT ![s] = n]
            /\ <<disk', pending'>> \in {<<disk, pending>>, <<n.mark, 0>>, <<disk, n.mark>>}
            /\ UNCHANGED <<started, session, connection, sessionOf, next>>
    BY <1>7, HandledEnds
  <2>2. disk' \in Nat /\ pending' \in Nat
    BY <2>1 DEF Closure
  <2> QED BY <2>1, <2>2
<1> QED BY <1>1, <1>2, <1>3, <1>4, <1>5, <1>6, <1>7, <1>8, RelayMoves

\* The counters stay within their bounds.
LEMMA CountersTypes ==
    ASSUME TypeOK, Linked, [Next]_vars
    PROVE /\ refused' \in [Session -> SUBSET Frame] /\ letGo' \subseteq Frame
          /\ kills' \in 0..MaxUpsets /\ failures' \in 0..MaxFailures
<1> USE DEF TypeOK
<1>0. /\ session \in Nat /\ session > 0 /\ sessionOf \in [Connection -> Session]
      /\ MaxUpsets \in Nat /\ MaxFailures \in Nat
  BY RelayAssumption, DeliveryAssumption DEF RelayTypeOK, Session
<1>1. CASE UNCHANGED vars \/ Relay \/ \E f \in Frame : Deliver(f)
  BY <1>1 DEF vars, Relay, Deliver
<1>2. CASE Kill
  <2>1. kills' = kills + 1 /\ kills + session <= MaxUpsets /\ UNCHANGED <<letGo, failures>>
    BY <1>2 DEF Kill, MoreUpsets
  <2>2. refused' = [s \in Session |-> {}]
    BY <1>2 DEF Kill
  <2>3. kills' \in 0..MaxUpsets
    BY <1>0, <2>1
  <2> QED BY <2>1, <2>2, <2>3
<1>3. ASSUME NEW f \in Frame, NEW c \in Connection,
             Handle(f, c) \/ Accept(f, c) \/ Refuse(f, c) \/ Overlook(f, c)
      PROVE /\ refused' \in [Session -> SUBSET Frame] /\ letGo' \subseteq Frame
            /\ kills' \in 0..MaxUpsets /\ failures' \in 0..MaxFailures
  <2>1. failures' = failures \/ (failures < MaxFailures /\ failures' = failures + 1)
    BY <1>3 DEF Handle, Accept, Refuse, Overlook
  <2>2. /\ kills' = kills
        /\ refused' = refused \/ refused' = [refused EXCEPT ![sessionOf[c]] = @ \cup {f}]
        /\ letGo' \in {letGo, letGo \cup {f}}
    BY <1>3 DEF Handle, Accept, Refuse, Overlook
  <2> QED BY <1>0, <2>1, <2>2
<1> QED BY <1>1, <1>2, <1>3 DEF Next

-----------------------------------------------------------------------------
(* One handler, once, and no stall.                                        *)

\* No copy of the frame will take effect any more while the process lives.
Landed(m) ==
    m \in seen /\ \A c \in Connection : handling[<<m, c>>] \in {"idle", "opening"}

\* While the process lives, what left a trace has landed, and so has what is
\* about to be deleted or edited.
Once ==
    kills = 0 =>
        \A m \in Frame :
            /\ unread[m] > 0 \/ m \in erased \/ row[m] # "none" => Landed(m)
            /\ m \in erased => row[m] = "none"
            /\ unread[m] <= 1
            /\ \A c \in Connection :
                  handling[<<m, c>>] \in {"deleting", "editing"} => Landed(Refers[m])

IInv ==
    /\ TypeOK /\ Linked /\ Ordered
    /\ OneHandlerEach /\ NoStall /\ Once

\* Whoever is past the opening of a frame is alone with it.
Past == {"applying", "deleting", "editing", "marking"}

\* OneHandlerEach, without cardinalities.
LEMMA HandlersAlone ==
    ASSUME TypeOK
    PROVE OneHandlerEach <=>
            \A m \in Frame, c \in Connection : handling[<<m, c>>] \in Past =>
                m \in seen /\ \A d \in Connection : handling[<<m, d>>] \in Past => c = d
BY DEF TypeOK, Inbox!InboxTypeOK, Inbox!Pc, OneHandlerEach, Inbox!OneHandlerEach, Past

\* A step leaves one handling of each frame past its opening.
LEMMA StepHandlers ==
    ASSUME TypeOK, TypeOK', Linked, OneHandlerEach, [Next]_vars
    PROVE OneHandlerEach'
<1> DEFINE Alone == \A m \in Frame, c \in Connection : handling[<<m, c>>] \in Past =>
               m \in seen /\ \A d \in Connection : handling[<<m, d>>] \in Past => c = d
<1>1. Alone /\ (Alone' => OneHandlerEach')
  <2>1. ASSUME Alone' PROVE OneHandlerEach'
    <3>1. \A m \in Frame, c \in Connection :
            handling'[<<m, c>>] \notin {"idle", "opening"} => handling'[<<m, c>>] \in Past
      BY DEF TypeOK, Inbox!InboxTypeOK, Inbox!Pc, Past
    <3>2. \A m \in Frame, c \in Connection : handling'[<<m, c>>] \in Past =>
            m \in seen' /\ \A d \in Connection : handling'[<<m, d>>] \in Past => c = d
      BY <2>1
    <3> SUFFICES ASSUME NEW m \in Frame, NEW busy,
                        busy = {c \in Connection :
                                  handling'[<<m, c>>] \notin {"idle", "opening"}}
                 PROVE (busy # {} => m \in seen') /\ \A c, d \in busy : c = d
      BY DEF OneHandlerEach, Inbox!OneHandlerEach
    <3>3. \A c \in busy : c \in Connection /\ handling'[<<m, c>>] \in Past
      BY <3>1
    <3>4. ASSUME NEW c \in busy PROVE m \in seen' /\ \A d \in busy : c = d
      BY <3>2, <3>3
    <3> QED BY <3>4
  <2> QED BY <2>1, HandlersAlone
<1>2. handling \in [Frame \X Connection -> Inbox!Pc]
  BY DEF TypeOK, Inbox!InboxTypeOK
<1>3. CASE UNCHANGED <<inbox, kills>>
  BY <1>1, <1>3 DEF inbox
<1>4. CASE Inbox!InboxReborn
  <2>1. \A m \in Frame, c \in Connection : handling'[<<m, c>>] = "idle"
    BY <1>4 DEF Inbox!InboxReborn
  <2> QED BY <1>1, <2>1 DEF Past
<1>5. ASSUME NEW m \in Frame, NEW c \in Connection, InboxStep(m, c)
      PROVE Alone'
  <2> USE <1>1, <1>2 DEF Inbox!At, Inbox!Goto, Past
  <2>1. CASE \/ Inbox!Receive(m, c) \/ Inbox!OpenFails(m, c) \/ Inbox!Repeated(m, c)
             \/ Inbox!SaveText(m, c) \/ Inbox!NoTarget(m, c)
             \/ Inbox!MarkDeleted(m, c) \/ Inbox!MarkFails(m, c) \/ Inbox!EditRow(m, c)
    <3>1. /\ seen' = seen
          /\ \E pc \in {"idle", "opening"} : handling' = [handling EXCEPT ![<<m, c>>] = pc]
      BY <2>1 DEF Inbox!Receive, Inbox!OpenFails, Inbox!Repeated, Inbox!SaveText,
                  Inbox!NoTarget, Inbox!MarkDeleted, Inbox!MarkFails, Inbox!EditRow
    <3> QED BY <3>1
  <2>2. CASE Inbox!Stored(m, c) \/ Inbox!NotStored(m, c) \/ Inbox!LookFails(m, c)
    BY <2>2 DEF Inbox!Stored, Inbox!NotStored, Inbox!LookFails, Inbox!Look
  <2>3. CASE Inbox!TargetFound(m, c) \/ Inbox!DeleteRow(m, c)
    <3>1. /\ seen' = seen /\ handling[<<m, c>>] \in Past
          /\ \E pc \in Past : handling' = [handling EXCEPT ![<<m, c>>] = pc]
      BY <2>3 DEF Inbox!TargetFound, Inbox!DeleteRow
    <3> QED BY <3>1
  <2>4. CASE Inbox!DbFails(m, c)
    BY <2>4 DEF Inbox!DbFails
  <2> QED BY <1>5, <2>1, <2>2, <2>3, <2>4
          DEF InboxStep, Inbox!Proceed, Inbox!Done, Inbox!Deferred
<1> QED BY <1>1, <1>3, <1>4, <1>5, InboxMoves

\* A frame handed over blocks, and what ends the last handling catches up.
LEMMA StepStall ==
    ASSUME TypeOK, TypeOK', NoStall, [Next]_vars
    PROVE NoStall'
<1>0. closure \in [Session -> Closure] /\ disk \in Nat
  BY DEF TypeOK, RelayTypeOK, Closure
<1>1. CASE UNCHANGED closure
  BY <1>1 DEF NoStall, Blocked
<1>2. ASSUME NEW m \in Nat PROVE NoClosure(m).mark >= NoClosure(m).done
  BY DEF NoClosure
<1>3. CASE Start \/ RelayReborn
  <2> SUFFICES ASSUME NEW s \in Session, Blocked(closure'[s]) = {}
               PROVE closure'[s].mark >= closure'[s].done
    BY DEF NoStall, Blocked
  <2>1. closure'[s] = closure[s] \/ \E m \in Nat : closure'[s] = NoClosure(m)
    BY <1>0, <1>3 DEF Start, RelayReborn
  <2> QED BY <1>2, <2>1 DEF NoStall
<1>4. ASSUME NEW f \in Frame, HandOver(f) PROVE NoStall'
  <2>1. session \in Session
    BY DEF TypeOK, RelayTypeOK
  <2>2. TimeOf[f] \in Blocked(Hold(session, TimeOf[f]))
    BY <1>0, <2>1, HoldShape, TimesCount DEF Blocked, Closure
  <2>3. closure' = [closure EXCEPT ![session] = Hold(session, TimeOf[f])]
    BY <1>4 DEF HandOver
  <2> QED BY <1>0, <2>1, <2>2, <2>3 DEF NoStall
<1>5. ASSUME NEW f \in Frame, NEW c \in Connection, NEW ok \in BOOLEAN, Handled(f, c, ok)
      PROVE NoStall'
  <2> DEFINE s == sessionOf[c]
             n == Ended(closure[s], TimeOf[f], ok)
  <2>1. s \in Session /\ closure[s] \in Closure /\ closure' = [closure EXCEPT ![s] = n]
    BY <1>5, HandledEnds
  <2>2. Blocked(n) = {} => n.mark >= n.done
    <3>1. ok \in BOOLEAN /\ TimeOf[f] \in Time
      BY <1>5, TimesCount
    <3>2. Follows(closure[s], TimeOf[f], ok, n)
      BY <2>1, <3>1, EndedShape
    <3> QED BY <3>2 DEF Follows
  <2> HIDE DEF s, n
  <2> QED BY <1>0, <2>1, <2>2 DEF NoStall
<1>6. Connect \/ Disconnect \/ Stop \/ UNCHANGED relayVars => UNCHANGED closure
  BY DEF Connect, Disconnect, Stop, relayVars
<1> QED BY <1>1, <1>3, <1>4, <1>5, <1>6, RelayMoves

\* The steps of the inbox, by what they do to a frame that has landed.
LEMMA StepOnce ==
    ASSUME TypeOK, Linked, Ordered, OneHandlerEach, Once, [Next]_vars
    PROVE Once'
<1>1. kills \in Nat
  BY DeliveryAssumption DEF TypeOK
<1>2. CASE UNCHANGED <<inbox, kills>>
  BY <1>2 DEF inbox, Once, Landed
<1>3. CASE kills' = kills + 1
  BY <1>1, <1>3 DEF Once
<1>4. ASSUME NEW m \in Frame, NEW c \in Connection, InboxStep(m, c),
             UNCHANGED kills, kills = 0
      PROVE Once'
  <2> DEFINE Effect(x) == unread[x] > 0 \/ x \in erased \/ row[x] # "none"
  <2>1. /\ handling \in [Frame \X Connection -> {"idle", "opening"} \cup Past]
        /\ row \in [Frame -> {"none", "sent", "edited"}] /\ unread \in [Frame -> Nat]
        /\ Refers \in [Frame -> Frame]
    BY DeliveryAssumption
       DEF TypeOK, Inbox!InboxTypeOK, Inbox!Pc, Past, Inbox!InboxAssumption
  <2>2. \A x \in Frame, d \in Connection : handling[<<x, d>>] \in Past =>
            x \in seen /\ \A e \in Connection : handling[<<x, e>>] \in Past => d = e
    BY HandlersAlone
  <2>3. \A x \in Frame :
            /\ Effect(x) => Landed(x)
            /\ x \in erased => row[x] = "none"
            /\ unread[x] <= 1
            /\ \A d \in Connection :
                  handling[<<x, d>>] \in {"deleting", "editing"} => Landed(Refers[x])
    BY <1>4 DEF Once
  <2>4. \A x \in Frame : Landed(x)' <=>
            x \in seen' /\ \A d \in Connection : handling'[<<x, d>>] \in {"idle", "opening"}
    BY DEF Landed
  <2> SUFFICES \A x \in Frame :
            /\ Effect(x)' => Landed(x)'
            /\ x \in erased' => row'[x] = "none"
            /\ unread'[x] <= 1
            /\ \A d \in Connection :
                  handling'[<<x, d>>] \in {"deleting", "editing"} => Landed(Refers[x])'
    BY DEF Once
  <2> USE <2>1 DEF Inbox!At, Inbox!Goto, Past
  <2>5. CASE Inbox!Receive(m, c) \/ Inbox!OpenFails(m, c) \/ Inbox!Repeated(m, c)
    <3>1. /\ UNCHANGED <<seen, row, unread, erased>>
          /\ \E pc \in {"idle", "opening"} : handling' = [handling EXCEPT ![<<m, c>>] = pc]
      BY <2>5 DEF Inbox!Receive, Inbox!OpenFails, Inbox!Repeated
    <3> QED BY <2>3, <2>4, <3>1 DEF Landed
  <2>6. CASE Inbox!Stored(m, c) \/ Inbox!NotStored(m, c) \/ Inbox!LookFails(m, c)
    <3>1. m \notin seen /\ seen' = seen \cup {m} /\ UNCHANGED <<row, unread, erased>>
      BY <2>6 DEF Inbox!Stored, Inbox!NotStored, Inbox!LookFails, Inbox!Look
    <3>2. \E pc \in {"idle", "applying"} : handling' = [handling EXCEPT ![<<m, c>>] = pc]
      BY <2>6 DEF Inbox!Stored, Inbox!NotStored, Inbox!LookFails, Inbox!Look
    <3>3. ~Landed(m) /\ \A x \in Frame : Landed(x) => Landed(x)'
      BY <3>1, <3>2, <2>4 DEF Landed
    <3> QED BY <2>3, <3>1, <3>2, <3>3
  <2>7. CASE Inbox!DbFails(m, c)
    <3>1. /\ handling[<<m, c>>] \in Past /\ seen' = seen \ {m}
          /\ handling' = [handling EXCEPT ![<<m, c>>] = "idle"]
          /\ UNCHANGED <<row, unread, erased>>
      BY <2>7 DEF Inbox!DbFails
    <3>2. ~Landed(m) /\ \A x \in Frame : Landed(x) => Landed(x)'
      BY <3>1, <2>4 DEF Landed
    <3> QED BY <2>3, <3>1, <3>2
  <2>8. CASE \/ Inbox!NoTarget(m, c) \/ Inbox!MarkDeleted(m, c) \/ Inbox!MarkFails(m, c)
    <3>1. /\ UNCHANGED <<seen, row, unread, erased>>
          /\ handling' = [handling EXCEPT ![<<m, c>>] = "idle"]
      BY <2>8 DEF Inbox!NoTarget, Inbox!MarkDeleted, Inbox!MarkFails
    <3> QED BY <2>3, <2>4, <3>1 DEF Landed
  <2>9. CASE Inbox!SaveText(m, c)
    <3>1. /\ handling[<<m, c>>] = "applying" /\ UNCHANGED <<seen, erased>>
          /\ handling' = [handling EXCEPT ![<<m, c>>] = "idle"]
      BY <2>9 DEF Inbox!SaveText
    <3>2. ~Landed(m) /\ \A x \in Frame : Landed(x) => Landed(x)'
      BY <3>1, <2>4 DEF Landed
    <3>3. Landed(m)'
      BY <2>2, <2>4, <3>1
    <3>4. row[m] = "none" /\ unread[m] = 0 /\ m \notin erased
      BY <2>3, <3>2
    <3>5. row' = [row EXCEPT ![m] = "sent"] /\ unread' = [unread EXCEPT ![m] = @ + 1]
      BY <2>9, <3>4 DEF Inbox!SaveText
    <3> QED BY <2>3, <3>1, <3>2, <3>3, <3>4, <3>5
  <2>10. CASE Inbox!TargetFound(m, c)
    <3>1. /\ handling[<<m, c>>] = "applying" /\ row[Refers[m]] # "none"
          /\ UNCHANGED <<seen, row, unread, erased>>
          /\ \E pc \in Past : handling' = [handling EXCEPT ![<<m, c>>] = pc]
      BY <2>10 DEF Inbox!TargetFound
    <3>2. ~Landed(m) /\ \A x \in Frame : Landed(x) => Landed(x)'
      BY <3>1, <2>4 DEF Landed
    <3>3. Landed(Refers[m])'
      BY <2>3, <3>1, <3>2
    <3> QED BY <2>3, <3>1, <3>2, <3>3
  <2>11. CASE Inbox!DeleteRow(m, c)
    <3>1. /\ handling[<<m, c>>] = "deleting" /\ UNCHANGED <<seen, unread>>
          /\ row' = [row EXCEPT ![Refers[m]] = "none"] /\ erased' = erased \cup {Refers[m]}
          /\ handling' = [handling EXCEPT ![<<m, c>>] = "marking"]
      BY <2>11 DEF Inbox!DeleteRow
    <3>2. ~Landed(m) /\ \A x \in Frame : Landed(x) => Landed(x)'
      BY <3>1, <2>4 DEF Landed
    <3>3. Landed(Refers[m])'
      BY <2>3, <3>1, <3>2
    <3> QED BY <2>3, <3>1, <3>2, <3>3
  <2>12. CASE Inbox!EditRow(m, c)
    <3>1. /\ handling[<<m, c>>] = "editing" /\ UNCHANGED <<seen, unread, erased>>
          /\ row' = [row EXCEPT ![Refers[m]] = IF @ = "none" THEN "none" ELSE "edited"]
          /\ handling' = [handling EXCEPT ![<<m, c>>] = "idle"]
      BY <2>12 DEF Inbox!EditRow
    <3>2. \A x \in Frame : Landed(x) => Landed(x)'
      BY <3>1, <2>4 DEF Landed
    <3> QED BY <2>3, <3>1, <3>2
  <2> QED BY <1>4, <2>5, <2>6, <2>7, <2>8, <2>9, <2>10, <2>11, <2>12
          DEF InboxStep, Inbox!Proceed, Inbox!Done, Inbox!Deferred
<1>5. CASE kills # 0 /\ UNCHANGED kills
  BY <1>5 DEF Once
<1> QED BY <1>2, <1>3, <1>4, <1>5, InboxMoves

\* The invariant holds at the first start of the process.
LEMMA InitInv == Init => IInv
<1> SUFFICES ASSUME Init PROVE IInv
  OBVIOUS
<1> USE DEF Init, RelayInit, Inbox!InboxInit
<1>1. RelayTypeOK /\ Linked
  <2>1. Len(TimeOf) \in Nat /\ 1 \in Session /\ 0 \in 0..MaxConnections
    BY TimesCount, RelayAssumption DEF Session
  <2>2. NoClosure(0) \in Closure
    BY DEF NoClosure, Closure
  <2> QED BY <2>1, <2>2 DEF RelayTypeOK, Linked, Closure
<1>2. Inbox!InboxTypeOK /\ Ordered
  BY DEF Inbox!InboxTypeOK, Ordered, Inbox!Pc
<1>3. TypeOK
  BY <1>1, <1>2, DeliveryAssumption DEF TypeOK
<1>4. OneHandlerEach
  BY <1>3, HandlersAlone DEF Past
<1>5. NoStall
  BY DEF NoStall, NoClosure
<1>6. Once
  BY DEF Once
<1> QED BY <1>1, <1>2, <1>3, <1>4, <1>5, <1>6 DEF IInv

\* What the watermark, the inbox and the frames in flight owe to each other is
\* inductive over every interleaving of handlings, failures, restarts and deaths.
THEOREM DeliveryInvariance == Spec => []IInv
<1>1. Init => IInv
  BY InitInv
<1>2. IInv /\ [Next]_vars => IInv'
  <2> SUFFICES ASSUME IInv, [Next]_vars PROVE IInv'
    OBVIOUS
  <2>1. TypeOK' /\ Linked' /\ Ordered'
    BY InboxTypes, RelayTypes, CountersTypes DEF IInv, TypeOK
  <2>2. OneHandlerEach'
    BY <2>1, StepHandlers DEF IInv
  <2>3. NoStall'
    BY <2>1, StepStall DEF IInv
  <2>4. Once'
    BY StepOnce DEF IInv
  <2> QED BY <2>1, <2>2, <2>3, <2>4 DEF IInv
<1> QED BY <1>1, <1>2, PTL DEF Spec

\* Delivery is type correct for any frames and bounds.
THEOREM TypeCorrect == Spec => []TypeOK
BY DeliveryInvariance, PTL DEF IInv

\* However many copies of a frame are fetched, one of them is handled past its
\* opening (the two checks of repetition in receiveDirectLanEnvelope).
THEOREM OneHandler == Spec => []OneHandlerEach
BY DeliveryInvariance, PTL DEF IInv

\* The watermark catches up with what was handled once nothing is held or in
\* flight, in whatever order frames were finished (advance and markDone).
THEOREM MarkCatchesUp == Spec => []NoStall
BY DeliveryInvariance, PTL DEF IInv

\* While the process lives no text comes back or is counted twice.
THEOREM EffectOnce == Spec => []OnceInProcess
<1>1. IInv => OnceInProcess
  BY DEF IInv, Once, OnceInProcess, DeletedStaysDeleted, TypeOK, Inbox!InboxTypeOK, Inbox!Text
<1> QED BY <1>1, DeliveryInvariance, PTL

-----------------------------------------------------------------------------
(* Nothing is skipped, as long as the times of frames tell them apart and  *)
(* the transport is not restarted.                                         *)

Apart == \A f, g \in Frame : TimeOf[f] = TimeOf[g] => f = g

\* The connections whose copy of the frame is being handled.
InHand(f) == {c \in Connection : handling[<<f, c>>] # "idle"}

Finished(f) == f \in settled \cup letGo

\* A frame that this process has not been handed yet.
Fresh(f) == ~Finished(f) /\ InHand(f) = {} /\ TimeOf[f] \notin closure[1].held

\* What the closure counts and remembers.
Counted ==
    /\ \A c \in Connection : sessionOf[c] = 1
    /\ disk <= closure[1].mark /\ pending <= closure[1].mark
    /\ \A f \in Frame : closure[1].inFlight[TimeOf[f]] = Cardinality(InHand(f))
    /\ \A f \in Frame : TimeOf[f] \in closure[1].failed => f \in refused[1]

\* What has been seen is handled to the end, or somebody is at it.
SeenThrough ==
    \A m \in seen : m \in settled \/ \E c \in Connection : handling[<<m, c>>] \in Past

\* The watermark is before every frame that is not finished, and connections
\* hand over frames in order.
Ahead == \A f \in Frame : ~Finished(f) => closure[1].mark < TimeOf[f]

InOrder ==
    \A f \in Frame : Fresh(f) =>
        /\ closure[1].done < TimeOf[f]
        /\ next # 0 => next <= f
        /\ \A g \in Frame : f <= g => InHand(g) = {}

SkipInv == session = 1 => Counted /\ SeenThrough /\ Ahead /\ InOrder

\* Frames that are told apart by their times have times in a strict order.
LEMMA TimesOrdered ==
    ASSUME Apart, NEW f \in Frame, NEW g \in Frame, f < g
    PROVE TimeOf[f] < TimeOf[g]
<1>1. TimeOf[f] <= TimeOf[g] /\ TimeOf[f] # TimeOf[g]
  BY RelayAssumption, TimesCount DEF Apart
<1> QED BY <1>1, TimesCount

\* The first session has a watermark, and the copies of a frame in hand are finite.
LEMMA FirstSession ==
    ASSUME TypeOK
    PROVE /\ 1 \in Session /\ closure[1] \in Closure
          /\ \A f \in Frame : IsFiniteSet(InHand(f))
<1>1. MaxConnections \in Int /\ MaxRestarts \in Nat
  BY RelayAssumption
<1>2. IsFiniteSet(Connection)
  BY <1>1, FS_Interval DEF Connection
<1>3. \A f \in Frame : InHand(f) \subseteq Connection
  BY DEF InHand
<1> QED BY <1>1, <1>2, <1>3, FS_Subset DEF TypeOK, RelayTypeOK, Session, Closure

\* The steps of the inbox that go on with a handling, and those that end it.
LEMMA GoesOn ==
    ASSUME TypeOK, NEW m \in Frame, NEW c \in Connection,
           Inbox!Proceed(m, c) \/ Inbox!LookFails(m, c)
    PROVE /\ settled' = settled /\ seen' \subseteq seen \cup {m}
          /\ handling[<<m, c>>] # "idle"
          /\ \E pc \in Past : handling' = [handling EXCEPT ![<<m, c>>] = pc]
BY DEF Inbox!Proceed, Inbox!LookFails, Inbox!NotStored, Inbox!TargetFound, Inbox!DeleteRow,
       Inbox!Look, Inbox!At, Inbox!Goto, Past

\* A handling that consumed its frame has ended at a frame that was being handled.
LEMMA Consumes ==
    ASSUME TypeOK, NEW m \in Frame, NEW c \in Connection,
           Inbox!Done(m, c) \/ Inbox!MarkFails(m, c)
    PROVE /\ handling[<<m, c>>] # "idle"
          /\ handling' = [handling EXCEPT ![<<m, c>>] = "idle"]
          /\ seen' \subseteq seen \cup {m}
          /\ \/ settled' = settled \cup {m}
             \/ settled' = settled /\ m \in seen /\ handling[<<m, c>>] = "opening"
BY DEF Inbox!Done, Inbox!MarkFails, Inbox!Repeated, Inbox!Stored, Inbox!SaveText,
       Inbox!NoTarget, Inbox!MarkDeleted, Inbox!EditRow, Inbox!Look, Inbox!At, Inbox!Goto

\* A handling that deferred its frame has ended, and the frame left no trace by it.
LEMMA Defers ==
    ASSUME TypeOK, NEW m \in Frame, NEW c \in Connection, Inbox!Deferred(m, c)
    PROVE /\ handling[<<m, c>>] # "idle" /\ settled' = settled
          /\ handling' = [handling EXCEPT ![<<m, c>>] = "idle"]
          /\ \/ handling[<<m, c>>] = "opening" /\ seen' = seen
             \/ seen' = seen \ {m}
BY DEF Inbox!Deferred, Inbox!OpenFails, Inbox!DbFails, Inbox!At, Inbox!Goto

\* A frame is handed over: nothing that waited behind it is before it.
LEMMA SkipDeliver ==
    ASSUME IInv, Apart, SkipInv, session = 1, NEW f \in Frame, Deliver(f)
    PROVE Counted' /\ SeenThrough' /\ Ahead' /\ InOrder'
<1> DEFINE n == Hold(1, TimeOf[f])
<1>1. /\ TypeOK /\ connection \in Connection /\ next = f /\ next' = f + 1
      /\ closure' = [closure EXCEPT ![1] = n]
      /\ handling[<<f, connection>>] = "idle"
      /\ handling' = [handling EXCEPT ![<<f, connection>>] = "opening"]
      /\ UNCHANGED <<disk, pending, sessionOf, seen, settled, refused, letGo>>
  <2>1. next # 0
    BY TimesCount DEF Deliver, HandOver
  <2> QED BY <2>1 DEF IInv, Linked, Deliver, HandOver, Inbox!Receive, Inbox!At, Inbox!Goto
<1>2. /\ n \in Closure /\ n.mark = closure[1].mark /\ n.done = closure[1].done
      /\ n.failed = closure[1].failed /\ n.held = closure[1].held
      /\ \A u \in Time : n.inFlight[u] =
            IF u = TimeOf[f] THEN closure[1].inFlight[TimeOf[f]] + 1
                             ELSE closure[1].inFlight[u]
  BY <1>1, FirstSession, HoldShape, TimesCount
<1> HIDE DEF n
<1>3. closure'[1] = n
  BY <1>1, FirstSession DEF TypeOK, RelayTypeOK
<1>4. handling \in [Frame \X Connection -> Inbox!Pc]
  BY <1>1 DEF TypeOK, Inbox!InboxTypeOK
<1>5. /\ InHand(f)' = InHand(f) \cup {connection} /\ connection \notin InHand(f)
      /\ \A g \in Frame : g # f => InHand(g)' = InHand(g)
  BY <1>1, <1>4 DEF InHand
<1>6. Counted /\ SeenThrough /\ Ahead /\ InOrder
  BY DEF SkipInv
<1>7. Counted'
  <2>1. Cardinality(InHand(f)') = Cardinality(InHand(f)) + 1
    BY <1>1, <1>5, FirstSession, FS_AddElement
  <2>2. \A g \in Frame : n.inFlight[TimeOf[g]] = Cardinality(InHand(g)')
    <3>1. \A g \in Frame : closure[1].inFlight[TimeOf[g]] = Cardinality(InHand(g))
      BY <1>6 DEF Counted
    <3>2. \A g \in Frame : g # f => TimeOf[g] # TimeOf[f]
      BY DEF Apart
    <3> QED BY <1>2, <1>5, <2>1, <3>1, <3>2, TimesCount
  <2> QED BY <1>1, <1>2, <1>3, <1>6, <2>2 DEF Counted
<1>8. SeenThrough'
  <2>1. \A m \in Frame, d \in Connection :
            handling[<<m, d>>] \in Past => handling'[<<m, d>>] \in Past
    BY <1>1, <1>4 DEF Past
  <2> QED BY <1>1, <1>6, <2>1 DEF SeenThrough, TypeOK, Inbox!InboxTypeOK
<1>9. Ahead'
  BY <1>1, <1>2, <1>3, <1>6 DEF Ahead, Finished
<1>10. InOrder'
  <2> SUFFICES ASSUME NEW g \in Frame, Fresh(g)'
               PROVE /\ n.done < TimeOf[g] /\ f + 1 <= g
                     /\ \A h \in Frame : g <= h => InHand(h)' = {}
    BY <1>1, <1>3 DEF InOrder
  <2>1. g # f /\ Fresh(g)
    BY <1>1, <1>2, <1>3, <1>5 DEF Fresh, Finished
  <2>2. /\ closure[1].done < TimeOf[g] /\ f <= g
        /\ \A h \in Frame : g <= h => InHand(h) = {}
    BY <1>1, <1>6, <2>1, TimesCount DEF InOrder
  <2>3. f + 1 <= g
    BY <2>1, <2>2, TimesCount
  <2> QED BY <1>2, <1>5, <2>2, <2>3, TimesCount
<1> QED BY <1>7, <1>8, <1>9, <1>10

\* A handling goes on.
LEMMA SkipHandle ==
    ASSUME IInv, SkipInv, session = 1, NEW f \in Frame, NEW c \in Connection,
           Inbox!Proceed(f, c) \/ Inbox!LookFails(f, c),
           UNCHANGED <<relayVars, refused, letGo>>
    PROVE Counted' /\ SeenThrough' /\ Ahead' /\ InOrder'
<1>1. /\ TypeOK /\ settled' = settled /\ seen' \subseteq seen \cup {f}
      /\ handling[<<f, c>>] # "idle"
      /\ \E pc \in Past : handling' = [handling EXCEPT ![<<f, c>>] = pc]
  BY GoesOn DEF IInv
<1>2. handling \in [Frame \X Connection -> Inbox!Pc]
  BY <1>1 DEF TypeOK, Inbox!InboxTypeOK
<1>3. \A g \in Frame : InHand(g)' = InHand(g)
  BY <1>1, <1>2 DEF InHand, Past
<1>4. Counted /\ SeenThrough /\ Ahead /\ InOrder
  BY DEF SkipInv
<1>5. Counted'
  BY <1>3, <1>4 DEF Counted, relayVars
<1>6. SeenThrough'
  <2>1. handling'[<<f, c>>] \in Past
    BY <1>1, <1>2
  <2>2. seen \subseteq Frame
    BY <1>1 DEF TypeOK, Inbox!InboxTypeOK
  <2>3. ASSUME NEW m \in seen'
        PROVE m \in settled' \/ \E d \in Connection : handling'[<<m, d>>] \in Past
    <3>1. CASE m = f
      BY <2>1, <3>1
    <3>2. CASE m # f
      <4>1. m \in seen /\ m \in Frame
        BY <1>1, <2>2, <3>2
      <4>2. \A d \in Connection : handling'[<<m, d>>] = handling[<<m, d>>]
        BY <1>1, <1>2, <3>2, <4>1
      <4> QED BY <1>1, <1>4, <4>1, <4>2 DEF SeenThrough
    <3> QED BY <3>1, <3>2
  <2> QED BY <2>3 DEF SeenThrough
<1>7. Ahead' /\ InOrder'
  BY <1>1, <1>3, <1>4 DEF Ahead, InOrder, Fresh, Finished, relayVars
<1> QED BY <1>5, <1>6, <1>7

\* A handling ends. If a frame that has not been finished was handled, the closure
\* holds it, or another copy is in flight.
LEMMA SkipEnd ==
    ASSUME IInv, Apart, SkipInv, session = 1, NEW f \in Frame, NEW c \in Connection,
           NEW ok \in BOOLEAN, Handled(f, c, ok),
           IF ok THEN (Inbox!Done(f, c) \/ Inbox!MarkFails(f, c)) /\ UNCHANGED <<refused, letGo>>
                 ELSE /\ Inbox!Deferred(f, c)
                      /\ refused' = [refused EXCEPT ![sessionOf[c]] = @ \cup {f}]
                      /\ letGo' = IF f \in refused[sessionOf[c]] THEN letGo \cup {f} ELSE letGo
    PROVE Counted' /\ SeenThrough' /\ Ahead' /\ InOrder'
<1> DEFINE k == closure[1]
           n == Ended(k, TimeOf[f], ok)
<1>1. TypeOK /\ Counted /\ SeenThrough /\ Ahead /\ InOrder
  BY DEF IInv, SkipInv
<1>2. sessionOf[c] = 1
  BY <1>1 DEF Counted
<1>3. /\ k \in Closure /\ closure' = [closure EXCEPT ![1] = n]
      /\ <<disk', pending'>> \in {<<disk, pending>>, <<n.mark, 0>>, <<disk, n.mark>>}
      /\ UNCHANGED <<started, session, connection, sessionOf, next>>
  BY <1>1, <1>2, HandledEnds
<1>4. Follows(k, TimeOf[f], ok, n)
  BY <1>3, EndedShape, TimesCount
<1> HIDE DEF n
<1> USE DEF Follows
<1>5. closure'[1] = n
  BY <1>1, <1>3, FirstSession DEF TypeOK, RelayTypeOK
<1> HIDE DEF k
<1>6. handling \in [Frame \X Connection -> Inbox!Pc] /\ seen \subseteq Frame
  BY <1>1 DEF TypeOK, Inbox!InboxTypeOK
<1>7. /\ handling[<<f, c>>] # "idle" /\ handling' = [handling EXCEPT ![<<f, c>>] = "idle"]
      /\ seen' \subseteq seen \cup {f}
      /\ settled \subseteq settled' /\ settled' \subseteq settled \cup {f}
      /\ letGo \subseteq letGo' /\ letGo' \subseteq letGo \cup {f}
  BY <1>1, Consumes, Defers
<1>8. /\ InHand(f)' = InHand(f) \ {c} /\ c \in InHand(f)
      /\ \A g \in Frame : g # f => InHand(g)' = InHand(g)
  BY <1>6, <1>7 DEF InHand
<1>9. \A g \in Frame : k.inFlight[TimeOf[g]] = Cardinality(InHand(g))
  BY <1>1 DEF Counted, k
<1>10. \A g \in Frame : n.inFlight[TimeOf[g]] = Cardinality(InHand(g)')
  <2>1. /\ IsFiniteSet(InHand(f)) /\ Cardinality(InHand(f)) \in Nat
        /\ Cardinality(InHand(f)) # 0
        /\ Cardinality(InHand(f)') = Cardinality(InHand(f)) - 1
    BY <1>1, <1>8, FirstSession, FS_RemoveElement, FS_CardinalityType, FS_EmptySet
  <2>2. \A g \in Frame : g # f => TimeOf[g] # TimeOf[f]
    BY DEF Apart
  <2>3. \A g \in Frame : g # f => n.inFlight[TimeOf[g]] = Cardinality(InHand(g)')
    BY <1>4, <1>8, <1>9, <2>2, TimesCount
  <2>4. n.inFlight[TimeOf[f]] = Cardinality(InHand(f)')
    BY <1>4, <1>9, <2>1, TimesCount
  <2> QED BY <2>3, <2>4
<1>11. \A g \in Frame : InHand(g)' # {} => TimeOf[g] \in Blocked(n)
  <2> SUFFICES ASSUME NEW g \in Frame, InHand(g)' # {} PROVE n.inFlight[TimeOf[g]] > 0
    BY TimesCount DEF Blocked
  <2>1. InHand(g)' \subseteq InHand(g)
    BY <1>8
  <2>2. IsFiniteSet(InHand(g)')
    BY <1>1, <2>1, FirstSession, FS_Subset
  <2>3. Cardinality(InHand(g)') \in Nat /\ Cardinality(InHand(g)') # 0
    BY <2>2, FS_CardinalityType, FS_EmptySet
  <2> QED BY <1>10, <2>3
\* What was refused for the first time is held; for the second time, let go.
<1>12. ASSUME ~ok PROVE TimeOf[f] \in n.held \/ f \in letGo'
  <2>1. CASE TimeOf[f] \in k.failed
    BY <1>1, <1>2, <1>12, <2>1 DEF Counted, k
  <2>2. CASE TimeOf[f] \notin k.failed
    BY <1>4, <1>12, <2>2
  <2> QED BY <2>1, <2>2
\* What was consumed is finished, or another copy of it is in flight.
<1>13. ASSUME ok PROVE f \in settled' \/ InHand(f)' # {}
  <2>1. CASE settled' = settled \cup {f}
    BY <2>1
  <2>2. CASE f \in seen /\ settled' = settled /\ handling[<<f, c>>] = "opening"
    <3>1. f \in settled \/ \E d \in Connection : handling[<<f, d>>] \in Past
      BY <1>1, <2>2 DEF SeenThrough
    <3>2. ASSUME NEW d \in Connection, handling[<<f, d>>] \in Past PROVE d \in InHand(f)'
      BY <1>8, <2>2, <3>2 DEF InHand, Past
    <3> QED BY <2>2, <3>1, <3>2
  <2> QED BY <1>1, <1>13, <2>1, <2>2, Consumes
<1>14. ~Fresh(f)'
  BY <1>5, <1>12, <1>13 DEF Fresh, Finished
<1>15. \A g \in Frame : Fresh(g)' => g # f /\ Fresh(g)
  <2> SUFFICES ASSUME NEW g \in Frame, Fresh(g)' PROVE g # f /\ Fresh(g)
    OBVIOUS
  <2>1. g # f /\ ~Finished(g) /\ InHand(g) = {}
    BY <1>7, <1>8, <1>14 DEF Fresh, Finished
  <2>2. TimeOf[g] # TimeOf[f] /\ TimeOf[g] \notin n.held
    BY <1>5, <2>1 DEF Fresh, Apart
  <2>3. TimeOf[g] \notin k.held
    BY <1>4, <2>2
  <2> QED BY <2>1, <2>3 DEF Fresh, k
<1>16. InOrder'
  <2> SUFFICES ASSUME NEW g \in Frame, Fresh(g)'
               PROVE /\ n.done < TimeOf[g]
                     /\ next # 0 => next <= g
                     /\ \A h \in Frame : g <= h => InHand(h)' = {}
    BY <1>3, <1>5 DEF InOrder
  <2>1. /\ k.done < TimeOf[g]
        /\ next # 0 => next <= g
        /\ \A h \in Frame : g <= h => InHand(h) = {}
    BY <1>1, <1>15 DEF InOrder, k
  <2>2. f < g
    BY <1>8, <2>1, TimesCount
  <2>3. n.done < TimeOf[g]
    BY <1>4, <2>1, <2>2, TimesOrdered
  <2> QED BY <1>8, <2>1, <2>3
<1>17. Ahead'
  <2> SUFFICES ASSUME NEW g \in Frame, ~Finished(g)' PROVE n.mark < TimeOf[g]
    BY <1>5 DEF Ahead
  <2>1. k.mark < TimeOf[g]
    BY <1>1, <1>7 DEF Ahead, Finished, k
  <2>2. CASE Fresh(g)'
    <3>1. n.done < TimeOf[g]
      BY <1>5, <1>16, <2>2 DEF InOrder
    <3>2. n.mark \in Nat /\ n.done \in Nat /\ TimeOf[g] \in Nat
      BY <1>4, TimesCount DEF Closure
    <3> QED BY <1>4, <2>1, <3>1, <3>2
  <2>3. CASE ~Fresh(g)'
    <3>1. TimeOf[g] \in Blocked(n)
      BY <1>5, <1>11, <2>3, TimesCount DEF Fresh, Blocked
    <3> QED BY <1>4, <2>1, <3>1
  <2> QED BY <2>2, <2>3
<1>18. Counted'
  <2>1. disk' <= n.mark /\ pending' <= n.mark
    <3>1. disk <= k.mark /\ pending <= k.mark
      BY <1>1 DEF Counted, k
    <3>2. /\ k.mark \in Nat /\ n.mark \in Nat /\ disk \in Nat /\ pending \in Nat
      BY <1>1, <1>3, <1>4 DEF Closure, TypeOK, RelayTypeOK
    <3> QED BY <1>3, <1>4, <3>1, <3>2
  <2>2. \A g \in Frame : TimeOf[g] \in n.failed => g \in refused'[1]
    <3> SUFFICES ASSUME NEW g \in Frame, TimeOf[g] \in n.failed PROVE g \in refused'[1]
      OBVIOUS
    <3>1. refused \in [Session -> SUBSET Frame] /\ 1 \in Session
      BY <1>1, FirstSession DEF TypeOK
    <3>2. CASE ok
      BY <1>1, <1>4, <3>2 DEF Counted, k
    <3>3. CASE ~ok
      <4>1. refused'[1] = refused[1] \cup {f}
        BY <1>2, <3>1, <3>3
      <4> QED BY <1>1, <1>4, <3>3, <4>1 DEF Counted, Apart, k
    <3> QED BY <3>2, <3>3
  <2> QED BY <1>1, <1>3, <1>5, <1>10, <2>1, <2>2 DEF Counted
<1>19. SeenThrough'
  <2> SUFFICES ASSUME NEW m \in seen'
               PROVE m \in settled' \/ \E d \in Connection : handling'[<<m, d>>] \in Past
    BY DEF SeenThrough
  <2>1. CASE m # f
    <3>1. m \in seen /\ m \in Frame
      BY <1>6, <1>7, <2>1
    <3>2. \A d \in Connection : handling'[<<m, d>>] = handling[<<m, d>>]
      BY <1>6, <1>7, <2>1, <3>1
    <3> QED BY <1>1, <1>7, <3>1, <3>2 DEF SeenThrough
  <2>2. CASE m = f /\ settled' = settled \cup {f}
    BY <2>2
  <2>3. CASE m = f /\ f \in seen /\ handling[<<f, c>>] = "opening"
    <3>1. f \in settled \/ \E d \in Connection : handling[<<f, d>>] \in Past
      BY <1>1, <2>3 DEF SeenThrough
    <3>2. ASSUME NEW d \in Connection, handling[<<f, d>>] \in Past
          PROVE handling'[<<f, d>>] \in Past
      BY <1>6, <1>7, <2>3, <3>2 DEF Past
    <3> QED BY <1>7, <2>3, <3>1, <3>2
  <2> QED BY <1>1, <2>1, <2>2, <2>3, Consumes, Defers
<1> QED BY <1>16, <1>17, <1>18, <1>19

\* The process dies: what it had not finished lies before the mark on disk.
LEMMA SkipKill ==
    ASSUME IInv, SkipInv, session = 1, Kill
    PROVE Counted' /\ SeenThrough' /\ Ahead' /\ InOrder'
<1> DEFINE n == NoClosure(disk)
<1>1. TypeOK /\ Counted /\ Ahead
  BY DEF IInv, SkipInv
<1>2. /\ n.mark = disk /\ n.done = 0 /\ n.failed = {} /\ n.held = {}
      /\ \A t \in Time : n.inFlight[t] = 0
  BY DEF NoClosure
<1>3. closure'[1] = n
  BY <1>1, FirstSession DEF Kill, RelayReborn
<1> HIDE DEF n
<1>4. /\ next' = 0 /\ pending' = 0 /\ seen' = {}
      /\ UNCHANGED <<disk, sessionOf, settled, letGo>>
      /\ \A f \in Frame : InHand(f)' = {}
  BY DEF Kill, RelayReborn, Inbox!InboxReborn, InHand
<1>5. disk \in Nat /\ disk <= closure[1].mark /\ closure[1].mark \in Nat
  BY <1>1, FirstSession DEF Counted, TypeOK, RelayTypeOK, Closure
<1>6. Counted'
  <2>1. \A f \in Frame : n.inFlight[TimeOf[f]] = Cardinality(InHand(f)')
    BY <1>2, <1>4, FS_EmptySet, TimesCount
  <2>2. \A f \in Frame : TimeOf[f] \notin n.failed
    BY <1>2
  <2>3. disk' <= n.mark /\ pending' <= n.mark
    BY <1>2, <1>4, <1>5
  <2> QED BY <1>1, <1>3, <1>4, <2>1, <2>2, <2>3 DEF Counted
<1>7. SeenThrough'
  BY <1>4 DEF SeenThrough
<1>8. Ahead'
  BY <1>1, <1>2, <1>3, <1>4, <1>5, TimesCount DEF Ahead, Finished
<1>9. InOrder'
  BY <1>2, <1>3, <1>4, TimesCount DEF InOrder
<1> QED BY <1>6, <1>7, <1>8, <1>9

\* A connection asks for what lies before the watermark no more than it has to.
LEMMA SkipRelay ==
    ASSUME IInv, SkipInv, session = 1, Connect \/ Disconnect \/ Stop,
           UNCHANGED <<inbox, refused, letGo>>
    PROVE Counted' /\ SeenThrough' /\ Ahead' /\ InOrder'
<1>1. TypeOK /\ Counted /\ SeenThrough /\ Ahead /\ InOrder
  BY DEF IInv, SkipInv
<1>2. UNCHANGED <<session, closure, seen, settled, handling, refused, letGo>>
  BY DEF Connect, Disconnect, Stop, inbox
<1>3. \A f \in Frame : InHand(f)' = InHand(f)
  BY <1>2 DEF InHand
<1>4. SeenThrough' /\ Ahead'
  BY <1>1, <1>2 DEF SeenThrough, Ahead, Finished
<1>5. disk' <= closure[1].mark /\ pending' <= closure[1].mark
  <2>1. closure[1].mark \in Nat
    BY <1>1, FirstSession DEF Closure
  <2> QED BY <1>1, <2>1 DEF Counted, Connect, Disconnect, Stop
<1>6. \A c \in Connection : sessionOf'[c] = 1
  BY <1>1 DEF Counted, Connect, Disconnect, Stop, TypeOK, RelayTypeOK
<1>7. Counted'
  BY <1>1, <1>2, <1>3, <1>5, <1>6 DEF Counted
<1>8. ASSUME NEW f \in Frame, Fresh(f) PROVE next' # 0 => next' <= f
  <2>1. CASE Connect
    <3> DEFINE since == Since(closure[1].mark)
               P(i) == \A g \in Frame : (g >= i) <=> TimeOf[g] >= since
    <3>1. closure[1].mark < TimeOf[f] /\ closure[1].mark \in Nat
      BY <1>1, <1>8, FirstSession DEF Ahead, Fresh, Closure
    <3>2. since \in Nat /\ since <= TimeOf[f]
      BY <3>1, RelayAssumption, TimesCount DEF Since
    <3>3. next' = CHOOSE i \in 1..Len(TimeOf) + 1 : P(i)
      BY <2>1 DEF Connect
    <3> HIDE DEF since
    <3>4. \E i \in 1..Len(TimeOf) + 1 : P(i)
      BY <3>2, Beginning
    <3>5. P(next') /\ next' \in 1..Len(TimeOf) + 1
      <4> HIDE DEF P
      <4> QED BY <3>3, <3>4
    <3>6. TimeOf[f] >= since
      BY <3>2, TimesCount
    <3> QED BY <3>5, <3>6, TimesCount
  <2>2. CASE Disconnect \/ Stop
    BY <2>2 DEF Disconnect, Stop
  <2> QED BY <2>1, <2>2
<1>9. InOrder'
  BY <1>1, <1>2, <1>3, <1>8 DEF InOrder, Fresh, Finished
<1> QED BY <1>4, <1>7, <1>9

\* Nothing has been skipped at the first start of the process.
LEMMA InitSkip == Init => SkipInv
<1> SUFFICES ASSUME Init PROVE SkipInv
  OBVIOUS
<1>1. 1 \in Session
  BY RelayAssumption DEF Session
<1>2. /\ closure[1].mark = 0 /\ closure[1].done = 0 /\ closure[1].failed = {}
      /\ \A t \in Time : closure[1].inFlight[t] = 0
  BY <1>1 DEF Init, RelayInit, NoClosure
<1>3. disk = 0 /\ pending = 0 /\ next = 0 /\ seen = {} /\ \A c \in Connection : sessionOf[c] = 1
  BY DEF Init, RelayInit, Inbox!InboxInit
<1>4. \A f \in Frame : InHand(f) = {}
  BY DEF Init, Inbox!InboxInit, InHand
<1>5. Counted
  <2>1. \A f \in Frame : closure[1].inFlight[TimeOf[f]] = Cardinality(InHand(f))
    BY <1>2, <1>4, TimesCount, FS_EmptySet
  <2>2. \A f \in Frame : TimeOf[f] \notin closure[1].failed
    BY <1>2
  <2> QED BY <1>2, <1>3, <2>1, <2>2 DEF Counted
<1>6. \A f \in Frame : 0 < TimeOf[f]
  BY TimesCount
<1>7. Ahead
  BY <1>2, <1>6 DEF Ahead
<1>8. InOrder
  BY <1>2, <1>3, <1>4, <1>6 DEF InOrder
<1>9. SeenThrough
  BY <1>3 DEF SeenThrough
<1> QED BY <1>5, <1>7, <1>8, <1>9 DEF SkipInv

\* Every step keeps what is said of frames that are not finished.
LEMMA StepSkip ==
    ASSUME Apart, IInv, SkipInv, [Next]_vars
    PROVE SkipInv'
<1> SUFFICES ASSUME session' = 1 PROVE Counted' /\ SeenThrough' /\ Ahead' /\ InOrder'
  BY DEF SkipInv
<1>1. session \in Nat /\ session > 0
  BY RelayAssumption DEF IInv, TypeOK, RelayTypeOK, Session
<1>2. CASE Start
  BY <1>1, <1>2 DEF Start
<1>3. CASE UNCHANGED vars
  <2>1. UNCHANGED <<relayVars, seen, handling, settled, refused, letGo>>
    BY <1>3 DEF vars, inbox
  <2>2. \A f \in Frame : InHand(f)' = InHand(f)
    BY <2>1 DEF InHand
  <2>3. Counted /\ SeenThrough /\ Ahead /\ InOrder
    BY <2>1 DEF SkipInv, relayVars
  <2>4. Counted' /\ SeenThrough'
    BY <2>1, <2>2, <2>3 DEF Counted, SeenThrough, relayVars
  <2> QED BY <2>1, <2>2, <2>3, <2>4 DEF Ahead, InOrder, Finished, Fresh, relayVars
<1>4. CASE Relay /\ ~Start
  <2>1. session = 1 /\ (Connect \/ Disconnect \/ Stop)
    BY <1>4 DEF Relay, Connect, Disconnect, Stop
  <2> QED BY <1>4, <2>1, SkipRelay DEF Relay
<1>5. CASE Kill
  BY <1>5, SkipKill DEF Kill, RelayReborn
<1>6. ASSUME NEW f \in Frame, Deliver(f) PROVE Counted' /\ SeenThrough' /\ Ahead' /\ InOrder'
  BY <1>6, SkipDeliver DEF Deliver, HandOver
<1>7. ASSUME NEW f \in Frame, NEW c \in Connection,
             Handle(f, c) \/ Accept(f, c) \/ Refuse(f, c) \/ Overlook(f, c)
      PROVE Counted' /\ SeenThrough' /\ Ahead' /\ InOrder'
  <2>1. CASE \/ Inbox!Proceed(f, c) /\ UNCHANGED <<relayVars, refused, letGo>>
             \/ Inbox!LookFails(f, c) /\ UNCHANGED <<relayVars, refused, letGo>>
    <3>1. session = 1
      BY <2>1 DEF relayVars
    <3> QED BY <2>1, <3>1, SkipHandle
  <2>2. CASE /\ Inbox!Done(f, c) \/ Inbox!MarkFails(f, c)
             /\ Handled(f, c, TRUE) /\ UNCHANGED <<refused, letGo>>
    <3>1. session = 1
      BY <2>2 DEF Handled
    <3> QED BY <2>2, <3>1, SkipEnd
  <2>3. CASE Refuse(f, c)
    <3>1. session = 1
      BY <2>3 DEF Refuse, Handled
    <3> QED BY <2>3, <3>1, SkipEnd DEF Refuse
  <2> QED BY <1>7, <2>1, <2>2, <2>3 DEF Handle, Accept, Overlook
<1> QED BY <1>2, <1>3, <1>4, <1>5, <1>6, <1>7 DEF Next

\* The watermark passes only frames that were handled to their end or refused
\* twice (internetCoordinator.ts:64-78), through every loss of the connection,
\* failure and death, if the times of frames tell them apart and the transport is
\* not restarted while handlings go on.
THEOREM NoneSkipped ==
    ASSUME Apart
    PROVE Spec => []NoFrameSkippedInSession
<1>1. Init => SkipInv
  BY InitSkip
<1>2. IInv /\ SkipInv /\ [Next]_vars => SkipInv'
  BY StepSkip
<1>3. IInv /\ SkipInv => NoFrameSkippedInSession
  <2> SUFFICES ASSUME IInv, SkipInv, session = 1, NEW f \in Frame, Passed(f), ~Finished(f)
               PROVE FALSE
    BY DEF NoFrameSkippedInSession, NoFrameSkipped, Finished
  <2>1. closure[1].mark < TimeOf[f] /\ disk <= closure[1].mark
    BY DEF SkipInv, Ahead, Counted
  <2>2. closure[1].mark \in Nat /\ disk \in Nat /\ TimeOf[f] \in Nat
    BY FirstSession, TimesCount DEF IInv, TypeOK, RelayTypeOK, Closure
  <2>3. \A m \in Nat : Since(m) <= m
    BY RelayAssumption DEF Since
  <2>4. \A m \in Nat : Since(m) \in Nat
    BY RelayAssumption DEF Since
  <2> QED BY <2>1, <2>2, <2>3, <2>4 DEF Passed
<1> QED BY <1>1, <1>2, <1>3, DeliveryInvariance, PTL DEF Spec
=============================================================================
