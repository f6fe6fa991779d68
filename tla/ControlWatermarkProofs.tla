----------------------- MODULE ControlWatermarkProofs -----------------------
(***************************************************************************)
(* Theorems about ControlWatermark, for any number of frames, deliveries,  *)
(* failures and losses: the types, that no decision is undone by an older  *)
(* one, that none is refused without a reason, and that the newest stands. *)
(***************************************************************************)
EXTENDS ControlWatermark, TLAPS

Passed == {"applying", "noting", "writing"}

\* No frame that is not newer than g can pass any more: the marks it would be judged
\* by, those that are on their way to a judgement included, have reached g.
Guarded(g) ==
    /\ g <= disk
    /\ mirror = 0 \/ g <= mirror
    /\ \A h \in Frame : pc[h] \in Passed => g < h
    /\ \A h \in Frame : pc[h] = "reading" /\ remembered[h] # 0 => g <= remembered[h]

\* Every mark there is stands for a decision that was carried out.
MarksAreEnds ==
    /\ disk # 0 => disk \in ended
    /\ mirror # 0 => mirror \in ended
    /\ \A f \in Frame : remembered[f] # 0 => remembered[f] \in ended
    /\ \A f \in Frame : pc[f] = "writing" => f \in ended

\* The mirror has reached what was carried out since memory was lost.
MirrorReaches == \A g \in recent : g <= mirror

\* What a handling must know is in the marks it was given, or guarded.
KnownReaches ==
    ~blind => \A f \in Frame : \A g \in known[f] :
        /\ pc[f] = "reading" => g <= remembered[f] \/ Guarded(g)
        /\ pc[f] = "applying" => g < f

\* Handlings that do not overlap: one frame is handled at a time, and a saved mark
\* guards for ever.
OneAtATime ==
    ~overlapped =>
        /\ \A f, g \in Frame : pc[f] # "idle" /\ pc[g] # "idle" => f = g
        /\ \A f \in Frame : pc[f] = "writing" => mirror = 0 \/ f <= mirror

SavedGuards == ~overlapped /\ ~blind => \A g \in durable : Guarded(g)

\* What the conversation follows while nothing went out of sight.
InSight == ~overlapped /\ ~blind /\ ~lossy

EndsReach ==
    /\ ~lossy => ended \subseteq recent \cup durable
    /\ InSight => \A f \in Frame : \A g \in ended :
        /\ pc[f] = "reading" => g <= remembered[f] \/ Guarded(g)
        /\ pc[f] \in {"applying", "noting"} => g < f

TimerFollows ==
    InSight /\ own = 0 =>
        /\ \A f \in Frame : pc[f] = "noting" => timer = f
        /\ (owed = {} /\ \A f \in Frame : pc[f] # "noting") =>
              timer \in ended \cup {0} /\ \A g \in ended : g <= timer

IInv ==
    /\ TypeOK /\ MarksAreEnds /\ MirrorReaches /\ KnownReaches
    /\ OneAtATime /\ SavedGuards /\ EndsReach /\ TimerFollows

-----------------------------------------------------------------------------
\* A step keeps the types.
LEMMA TypesStay ==
    ASSUME TypeOK, MarksAreEnds, [Next]_vars
    PROVE  TypeOK'
<1> USE ControlAssumption DEF TypeOK, MarksAreEnds, Frame, Pc, bounds, history, code
<1>1. ASSUME NEW f \in Frame, Arrive(f) PROVE TypeOK'
  <2>1. known' \in [Frame -> SUBSET ended]
    <3>1. CASE overlapped'
      BY <1>1, <3>1 DEF Arrive
    <3>2. CASE ~overlapped'
      BY <1>1, <3>2 DEF Arrive
    <3> QED BY <3>1, <3>2
  <2>2. overlapped' \in BOOLEAN
    BY <1>1 DEF Arrive, Busy
  <2> QED BY <1>1, <2>1, <2>2 DEF Arrive, Goto
<1>2. ASSUME NEW f \in Frame, MarkRead(f) PROVE TypeOK'
  BY <1>2 DEF MarkRead, Judged, Goto, Larger
<1>3. ASSUME NEW f \in Frame, MarkUnreadable(f) PROVE TypeOK'
  BY <1>3 DEF MarkUnreadable, Judged, Goto, Fail
<1>4. ASSUME NEW f \in Frame, Apply(f) PROVE TypeOK'
  BY <1>4 DEF Apply, Goto
<1>5. ASSUME NEW f \in Frame, Explain(f) PROVE TypeOK'
  BY <1>5 DEF Explain, Goto, Larger
<1>6. ASSUME NEW f \in Frame, Defer(f) PROVE TypeOK'
  BY <1>6 DEF Defer, Goto, Fail
<1>7. ASSUME NEW f \in Frame, MarkSaved(f) PROVE TypeOK'
  BY <1>7 DEF MarkSaved, Goto
<1>8. ASSUME NEW f \in Frame, MarkNotSaved(f) PROVE TypeOK'
  BY <1>8 DEF MarkNotSaved, Goto, Fail
<1>9. CASE OwnDecision
  BY <1>9 DEF OwnDecision
<1>10. CASE Evicted
  BY <1>10 DEF Evicted, Forget
<1>11. CASE Killed
  <2>1. pc' = [f \in Frame |-> "idle"] /\ losses' \in 0..MaxLosses /\ recent' = {} /\ mirror' = 0
    BY <1>11 DEF Killed, Forget
  <2>2. owed' \subseteq Frame /\ lossy' \in BOOLEAN
    BY <1>11 DEF Killed, Forget
  <2> QED BY <1>11, <2>1, <2>2 DEF Killed
<1>12. CASE UNCHANGED vars
  BY <1>12 DEF vars
<1> QED BY <1>1, <1>2, <1>3, <1>4, <1>5, <1>6, <1>7, <1>8,
         <1>9, <1>10, <1>11, <1>12 DEF Next

\* A step keeps every mark that of a decision which was carried out.
LEMMA MarksStay ==
    ASSUME TypeOK, MarksAreEnds, [Next]_vars
    PROVE  MarksAreEnds'
<1> USE ControlAssumption DEF TypeOK, MarksAreEnds, Frame, Pc, bounds, history, code
<1>1. ASSUME NEW f \in Frame, Arrive(f) PROVE MarksAreEnds'
  BY <1>1 DEF Arrive, Goto, Busy
<1>2. ASSUME NEW f \in Frame, MarkRead(f) PROVE MarksAreEnds'
  BY <1>2 DEF MarkRead, Judged, Goto, Larger
<1>3. ASSUME NEW f \in Frame, MarkUnreadable(f) PROVE MarksAreEnds'
  BY <1>3 DEF MarkUnreadable, Judged, Goto, Fail
<1>4. ASSUME NEW f \in Frame, Apply(f) PROVE MarksAreEnds'
  BY <1>4 DEF Apply, Goto
<1>5. ASSUME NEW f \in Frame, Explain(f) PROVE MarksAreEnds'
  BY <1>5 DEF Explain, Goto, Larger
<1>6. ASSUME NEW f \in Frame, Defer(f) PROVE MarksAreEnds'
  BY <1>6 DEF Defer, Goto, Fail
<1>7. ASSUME NEW f \in Frame, MarkSaved(f) PROVE MarksAreEnds'
  BY <1>7 DEF MarkSaved, Goto
<1>8. ASSUME NEW f \in Frame, MarkNotSaved(f) PROVE MarksAreEnds'
  BY <1>8 DEF MarkNotSaved, Goto, Fail
<1>9. CASE OwnDecision
  BY <1>9 DEF OwnDecision
<1>10. CASE Evicted
  BY <1>10 DEF Evicted, Forget
<1>11. CASE Killed
  BY <1>11 DEF Killed, Forget
<1>12. CASE UNCHANGED vars
  BY <1>12 DEF vars
<1> QED BY <1>1, <1>2, <1>3, <1>4, <1>5, <1>6, <1>7, <1>8,
         <1>9, <1>10, <1>11, <1>12 DEF Next

\* A step keeps the mirror up with what is remembered.
LEMMA MirrorStays ==
    ASSUME TypeOK, MirrorReaches, [Next]_vars
    PROVE  MirrorReaches'
<1> USE ControlAssumption DEF TypeOK, MirrorReaches, Frame, Pc, bounds, history, code
<1>1. ASSUME NEW f \in Frame, Arrive(f) PROVE MirrorReaches'
  BY <1>1 DEF Arrive, Goto, Busy
<1>2. ASSUME NEW f \in Frame, MarkRead(f) PROVE MirrorReaches'
  BY <1>2 DEF MarkRead, Judged, Goto, Larger
<1>3. ASSUME NEW f \in Frame, MarkUnreadable(f) PROVE MirrorReaches'
  BY <1>3 DEF MarkUnreadable, Judged, Goto, Fail
<1>4. ASSUME NEW f \in Frame, Apply(f) PROVE MirrorReaches'
  BY <1>4 DEF Apply, Goto
<1>5. ASSUME NEW f \in Frame, Explain(f) PROVE MirrorReaches'
  BY <1>5 DEF Explain, Goto, Larger
<1>6. ASSUME NEW f \in Frame, Defer(f) PROVE MirrorReaches'
  BY <1>6 DEF Defer, Goto, Fail
<1>7. ASSUME NEW f \in Frame, MarkSaved(f) PROVE MirrorReaches'
  BY <1>7 DEF MarkSaved, Goto
<1>8. ASSUME NEW f \in Frame, MarkNotSaved(f) PROVE MirrorReaches'
  BY <1>8 DEF MarkNotSaved, Goto, Fail
<1>9. CASE OwnDecision
  BY <1>9 DEF OwnDecision
<1>10. CASE Evicted
  BY <1>10 DEF Evicted, Forget
<1>11. CASE Killed
  BY <1>11 DEF Killed, Forget
<1>12. CASE UNCHANGED vars
  BY <1>12 DEF vars
<1> QED BY <1>1, <1>2, <1>3, <1>4, <1>5, <1>6, <1>7, <1>8,
         <1>9, <1>10, <1>11, <1>12 DEF Next

\* A guarded frame stays guarded, as long as no frame passes without a mark.
LEMMA GuardStays ==
    ASSUME TypeOK, [Next]_vars, NEW g \in Frame, Guarded(g), ~blind'
    PROVE  Guarded(g)'
<1> USE ControlAssumption DEF TypeOK, Guarded, Passed, Frame, Pc, bounds, history, code
<1>1. ASSUME NEW f \in Frame, Arrive(f) PROVE Guarded(g)'
  BY <1>1 DEF Arrive, Goto, Busy
<1>2. ASSUME NEW f \in Frame, MarkRead(f) PROVE Guarded(g)'
  BY <1>2 DEF MarkRead, Judged, Goto, Larger
<1>3. ASSUME NEW f \in Frame, MarkUnreadable(f) PROVE Guarded(g)'
  <2>1. remembered[f] # 0 /\ g <= remembered[f]
    BY <1>3 DEF MarkUnreadable
  <2>2. pc' = [pc EXCEPT ![f] = IF f > remembered[f] THEN "applying" ELSE "idle"]
    BY <1>3 DEF MarkUnreadable, Judged, Goto
  <2>3. \A h \in Frame : pc'[h] \in Passed => g < h
    BY <2>1, <2>2
  <2> QED BY <1>3, <2>2, <2>3 DEF MarkUnreadable
<1>4. ASSUME NEW f \in Frame, Apply(f) PROVE Guarded(g)'
  BY <1>4 DEF Apply, Goto
<1>5. ASSUME NEW f \in Frame, Explain(f) PROVE Guarded(g)'
  BY <1>5 DEF Explain, Goto, Larger
<1>6. ASSUME NEW f \in Frame, Defer(f) PROVE Guarded(g)'
  BY <1>6 DEF Defer, Goto, Fail
<1>7. ASSUME NEW f \in Frame, MarkSaved(f) PROVE Guarded(g)'
  BY <1>7 DEF MarkSaved, Goto
<1>8. ASSUME NEW f \in Frame, MarkNotSaved(f) PROVE Guarded(g)'
  BY <1>8 DEF MarkNotSaved, Goto, Fail
<1>9. CASE OwnDecision
  BY <1>9 DEF OwnDecision
<1>10. CASE Evicted
  BY <1>10 DEF Evicted, Forget
<1>11. CASE Killed
  BY <1>11 DEF Killed, Forget
<1>12. CASE UNCHANGED vars
  BY <1>12 DEF vars
<1> QED BY <1>1, <1>2, <1>3, <1>4, <1>5, <1>6, <1>7, <1>8,
         <1>9, <1>10, <1>11, <1>12 DEF Next

\* Handlings that do not overlap: a step lets one frame be handled at a time.
LEMMA OneStays ==
    ASSUME TypeOK, OneAtATime, [Next]_vars
    PROVE  OneAtATime'
<1> USE ControlAssumption DEF TypeOK, OneAtATime, Frame, Pc, bounds, history, code
<1>1. ASSUME NEW f \in Frame, Arrive(f) PROVE OneAtATime'
  <2>1. CASE Busy # {}
    BY <1>1, <2>1 DEF Arrive
  <2>2. CASE Busy = {}
    BY <1>1, <2>2 DEF Arrive, Goto, Busy
  <2> QED BY <2>1, <2>2
<1>2. ASSUME NEW f \in Frame, MarkRead(f) PROVE OneAtATime'
  BY <1>2 DEF MarkRead, Judged, Goto, Larger
<1>3. ASSUME NEW f \in Frame, MarkUnreadable(f) PROVE OneAtATime'
  BY <1>3 DEF MarkUnreadable, Judged, Goto, Fail
<1>4. ASSUME NEW f \in Frame, Apply(f) PROVE OneAtATime'
  BY <1>4 DEF Apply, Goto
<1>5. ASSUME NEW f \in Frame, Explain(f) PROVE OneAtATime'
  BY <1>5 DEF Explain, Goto, Larger
<1>6. ASSUME NEW f \in Frame, Defer(f) PROVE OneAtATime'
  BY <1>6 DEF Defer, Goto, Fail
<1>7. ASSUME NEW f \in Frame, MarkSaved(f) PROVE OneAtATime'
  BY <1>7 DEF MarkSaved, Goto
<1>8. ASSUME NEW f \in Frame, MarkNotSaved(f) PROVE OneAtATime'
  BY <1>8 DEF MarkNotSaved, Goto, Fail
<1>9. CASE OwnDecision
  BY <1>9 DEF OwnDecision
<1>10. CASE Evicted
  BY <1>10 DEF Evicted, Forget
<1>11. CASE Killed
  BY <1>11 DEF Killed, Forget
<1>12. CASE UNCHANGED vars
  BY <1>12 DEF vars
<1> QED BY <1>1, <1>2, <1>3, <1>4, <1>5, <1>6, <1>7, <1>8,
         <1>9, <1>10, <1>11, <1>12 DEF Next

\* A saved mark guards from then on.
LEMMA SavedStay ==
    ASSUME TypeOK, TypeOK', OneAtATime, SavedGuards, [Next]_vars
    PROVE  SavedGuards'
<1> SUFFICES ASSUME ~overlapped', ~blind', NEW g \in durable'
             PROVE  Guarded(g)'
  BY DEF SavedGuards
<1>1. ~overlapped /\ ~blind /\ g \in Frame
  BY DEF TypeOK, Next, vars, Arrive, MarkRead, MarkUnreadable, Apply, Explain, Defer,
         MarkSaved, MarkNotSaved, OwnDecision, Evicted, Killed, Forget, bounds, history
<1>2. CASE g \in durable
  BY <1>1, <1>2, GuardStays DEF SavedGuards
<1>3. CASE g \notin durable
  <2>1. g \in Frame /\ MarkSaved(g)
    BY <1>1, <1>3 DEF Next, vars, Arrive, MarkRead, MarkUnreadable, Apply, Explain, Defer,
           MarkSaved, MarkNotSaved, OwnDecision, Evicted, Killed, Forget, bounds, history
  <2>2. disk' = g /\ mirror' = mirror /\ remembered' = remembered
    BY <2>1 DEF MarkSaved
  <2>3. mirror = 0 \/ g <= mirror
    BY <1>1, <2>1 DEF OneAtATime, MarkSaved
  <2>4. \A h \in Frame : pc'[h] = "idle"
    BY <1>1, <2>1 DEF OneAtATime, MarkSaved, Goto, TypeOK
  <2> QED BY <1>1, <2>2, <2>3, <2>4 DEF Guarded, Passed, Frame
<1> QED BY <1>2, <1>3

\* What a handling knows is fixed when it begins.
LEMMA KnownAtArrival ==
    ASSUME TypeOK, MirrorReaches, SavedGuards, NEW f \in Frame, Arrive(f), ~blind',
           NEW g \in known'[f]
    PROVE  g <= remembered'[f] \/ Guarded(g)'
<1> USE DEF TypeOK
<1>1. g \in Frame /\ remembered'[f] = mirror
  BY DEF Arrive
<1>2. CASE g \in recent
  BY <1>1, <1>2 DEF MirrorReaches
<1>3. CASE g \notin recent
  <2>1. g \in durable /\ ~overlapped'
    BY <1>3 DEF Arrive
  <2>2. Guarded(g)
    BY <2>1 DEF Arrive, SavedGuards
  <2> QED BY <1>1, <2>2, GuardStays, ControlAssumption DEF Next
<1> QED BY <1>2, <1>3

\* Frame h is newer than the marks it is judged by, one of which is not missing.
Passes(h) ==
    \/ h > remembered[h] /\ h > disk
    \/ h > remembered[h] /\ remembered[h] # 0

MovesOn(h) ==
    /\ known'[h] = known[h] /\ remembered'[h] = remembered[h]
    /\ pc'[h] = "reading" => pc[h] = "reading"
    /\ pc'[h] = "applying" => pc[h] \in {"reading", "applying"}
    /\ pc'[h] = "noting" => pc[h] \in {"applying", "noting"}
    /\ pc'[h] = "applying" /\ pc[h] = "reading" /\ ~blind' => Passes(h)
    /\ pc'[h] = "idle" /\ pc[h] = "reading" /\ losses' = losses
         => h <= remembered[h] \/ h <= disk

\* What a step does to a handling that it does not begin.
LEMMA HandlingMoves ==
    ASSUME TypeOK, [Next]_vars, NEW h \in Frame, ~Arrive(h)
    PROVE  MovesOn(h)
<1> USE ControlAssumption DEF TypeOK, MovesOn, Passes, Frame, Pc, bounds, history, code
<1>1. ASSUME NEW f \in Frame, Arrive(f) PROVE MovesOn(h)
  BY <1>1 DEF Arrive, Goto
<1>2. ASSUME NEW f \in Frame, MarkRead(f) PROVE MovesOn(h)
  BY <1>2 DEF MarkRead, Judged, Goto, Larger
<1>3. ASSUME NEW f \in Frame, MarkUnreadable(f) PROVE MovesOn(h)
  <2>1. CASE f = h
    <3>1. ~blind' => remembered[h] # 0
      BY <1>3, <2>1 DEF MarkUnreadable
    <3>2. /\ pc'[h] = IF h > remembered[h] THEN "applying" ELSE "idle"
          /\ UNCHANGED <<known, remembered, disk>> /\ pc[h] = "reading"
      BY <1>3, <2>1 DEF MarkUnreadable, Judged, Goto
    <3>3. h \in Nat /\ remembered[h] \in Nat
      OBVIOUS
    <3>4. pc'[h] = "applying" /\ ~blind' => Passes(h)
      BY <3>1, <3>2, <3>3
    <3>5. pc'[h] = "idle" => h <= remembered[h]
      BY <3>2, <3>3
    <3> QED BY <3>2, <3>4, <3>5
  <2>2. CASE f # h
    BY <1>3, <2>2 DEF MarkUnreadable, Judged, Goto, Fail
  <2> QED BY <2>1, <2>2
<1>4. ASSUME NEW f \in Frame, Apply(f) PROVE MovesOn(h)
  BY <1>4 DEF Apply, Goto
<1>5. ASSUME NEW f \in Frame, Explain(f) PROVE MovesOn(h)
  BY <1>5 DEF Explain, Goto, Larger
<1>6. ASSUME NEW f \in Frame, Defer(f) PROVE MovesOn(h)
  BY <1>6 DEF Defer, Goto, Fail
<1>7. ASSUME NEW f \in Frame, MarkSaved(f) PROVE MovesOn(h)
  BY <1>7 DEF MarkSaved, Goto
<1>8. ASSUME NEW f \in Frame, MarkNotSaved(f) PROVE MovesOn(h)
  BY <1>8 DEF MarkNotSaved, Goto, Fail
<1>9. CASE OwnDecision
  BY <1>9 DEF OwnDecision
<1>10. CASE Evicted
  BY <1>10 DEF Evicted, Forget
<1>11. CASE Killed
  BY <1>11 DEF Killed, Forget
<1>12. CASE UNCHANGED vars
  BY <1>12 DEF vars
<1> QED BY <1>1, <1>2, <1>3, <1>4, <1>5, <1>6, <1>7, <1>8,
         <1>9, <1>10, <1>11, <1>12 DEF Next

\* What reaches a handling before its judgement goes on reaching it, and a frame that
\* passes is newer.
LEMMA ReachStays ==
    ASSUME TypeOK, [Next]_vars, ~blind', NEW h \in Frame, NEW g \in Frame, MovesOn(h),
           pc[h] = "reading" => g <= remembered[h] \/ Guarded(g)
    PROVE  /\ pc'[h] = "reading" => g <= remembered'[h] \/ Guarded(g)'
           /\ pc'[h] = "applying" /\ pc[h] = "reading" => g < h
<1>1. ASSUME pc'[h] = "reading" PROVE g <= remembered'[h] \/ Guarded(g)'
  BY <1>1, GuardStays DEF MovesOn
<1>2. ASSUME pc'[h] = "applying", pc[h] = "reading" PROVE g < h
  <2>1. Passes(h)
    BY <1>2 DEF MovesOn
  <2>2. remembered[h] \in Nat /\ disk \in Nat /\ g \in Nat /\ h \in Nat
    BY ControlAssumption DEF TypeOK, Frame
  <2>3. CASE g <= remembered[h]
    BY <2>1, <2>2, <2>3 DEF Passes
  <2>4. CASE Guarded(g)
    <3>1. g <= disk /\ (remembered[h] # 0 => g <= remembered[h])
      BY <1>2, <2>4 DEF Guarded
    <3> QED BY <2>1, <2>2, <3>1 DEF Passes
  <2> QED BY <1>2, <2>3, <2>4
<1> QED BY <1>1, <1>2

\* What a handling must know still reaches it.
LEMMA KnownStays ==
    ASSUME TypeOK, TypeOK', MirrorReaches, SavedGuards, KnownReaches, [Next]_vars
    PROVE  KnownReaches'
<1> SUFFICES ASSUME ~blind', NEW h \in Frame, NEW g \in known'[h]
             PROVE  /\ pc'[h] = "reading" => g <= remembered'[h] \/ Guarded(g)'
                    /\ pc'[h] = "applying" => g < h
  BY DEF KnownReaches
<1>1. ~blind /\ g \in Frame
  BY DEF TypeOK, Next, vars, Arrive, MarkRead, MarkUnreadable, Apply, Explain, Defer,
         MarkSaved, MarkNotSaved, OwnDecision, Evicted, Killed, Forget, bounds, history
<1>2. CASE Arrive(h)
  <2>1. g <= remembered'[h] \/ Guarded(g)'
    BY <1>2, KnownAtArrival
  <2>2. pc'[h] = "reading"
    BY <1>2 DEF Arrive, Goto, TypeOK
  <2> QED BY <2>1, <2>2
<1>3. CASE ~Arrive(h)
  <2>1. g \in known[h] /\ MovesOn(h)
    BY <1>3, HandlingMoves DEF MovesOn
  <2>2. /\ pc[h] = "reading" => g <= remembered[h] \/ Guarded(g)
        /\ pc[h] = "applying" => g < h
    BY <1>1, <2>1 DEF KnownReaches
  <2> QED BY <1>1, <2>1, <2>2, ReachStays DEF MovesOn
<1> QED BY <1>2, <1>3

\* What was carried out is in memory or saved, unless a loss took it.
LEMMA NothingUnseen ==
    ASSUME TypeOK, MarksAreEnds, ~lossy => ended \subseteq recent \cup durable, [Next]_vars
    PROVE  ~lossy' => ended' \subseteq recent' \cup durable'
<1> USE ControlAssumption DEF TypeOK, MarksAreEnds, Frame, Pc, bounds, history, code
<1>1. ASSUME NEW f \in Frame, Arrive(f) PROVE ~lossy' => ended' \subseteq recent' \cup durable'
  BY <1>1 DEF Arrive, Goto, Busy
<1>2. ASSUME NEW f \in Frame, MarkRead(f) PROVE ~lossy' => ended' \subseteq recent' \cup durable'
  BY <1>2 DEF MarkRead, Judged, Goto, Larger
<1>3. ASSUME NEW f \in Frame, MarkUnreadable(f) PROVE ~lossy' => ended' \subseteq recent' \cup durable'
  BY <1>3 DEF MarkUnreadable, Judged, Goto, Fail
<1>4. ASSUME NEW f \in Frame, Apply(f) PROVE ~lossy' => ended' \subseteq recent' \cup durable'
  BY <1>4 DEF Apply, Goto
<1>5. ASSUME NEW f \in Frame, Explain(f) PROVE ~lossy' => ended' \subseteq recent' \cup durable'
  BY <1>5 DEF Explain, Goto, Larger
<1>6. ASSUME NEW f \in Frame, Defer(f) PROVE ~lossy' => ended' \subseteq recent' \cup durable'
  BY <1>6 DEF Defer, Goto, Fail
<1>7. ASSUME NEW f \in Frame, MarkSaved(f) PROVE ~lossy' => ended' \subseteq recent' \cup durable'
  BY <1>7 DEF MarkSaved, Goto
<1>8. ASSUME NEW f \in Frame, MarkNotSaved(f) PROVE ~lossy' => ended' \subseteq recent' \cup durable'
  BY <1>8 DEF MarkNotSaved, Goto, Fail
<1>9. CASE OwnDecision
  BY <1>9 DEF OwnDecision
<1>10. CASE Evicted
  BY <1>10 DEF Evicted, Forget
<1>11. CASE Killed
  BY <1>11 DEF Killed, Forget
<1>12. CASE UNCHANGED vars
  BY <1>12 DEF vars
<1> QED BY <1>1, <1>2, <1>3, <1>4, <1>5, <1>6, <1>7, <1>8,
         <1>9, <1>10, <1>11, <1>12 DEF Next

\* Every decision that was carried out reaches the handling that goes on.
LEMMA EndsStay ==
    ASSUME TypeOK, TypeOK', MarksAreEnds, MirrorReaches, OneAtATime, SavedGuards, EndsReach,
           [Next]_vars
    PROVE  EndsReach'
<1>1. ~lossy' => ended' \subseteq recent' \cup durable'
  BY NothingUnseen DEF EndsReach
<1>2. ASSUME InSight', NEW h \in Frame, NEW g \in ended'
      PROVE  /\ pc'[h] = "reading" => g <= remembered'[h] \/ Guarded(g)'
             /\ pc'[h] \in {"applying", "noting"} => g < h
  <2>1. InSight /\ ~blind' /\ ~overlapped' /\ g \in Frame
    BY <1>2 DEF InSight, TypeOK, Next, vars, Arrive, MarkRead, MarkUnreadable, Apply,
         Explain, Defer, MarkSaved, MarkNotSaved, OwnDecision, Evicted, Killed, Forget,
         bounds, history
  <2>2. CASE Arrive(h)
    <3>1. ended' = ended /\ remembered'[h] = mirror /\ pc'[h] = "reading"
      BY <2>2 DEF Arrive, Goto, TypeOK
    <3>2. CASE g \in recent
      BY <3>1, <3>2 DEF MirrorReaches
    <3>3. CASE g \in durable
      <4>1. Guarded(g)
        BY <2>1, <3>3 DEF SavedGuards, InSight
      <4> QED BY <2>1, <3>1, <4>1, GuardStays
    <3> QED BY <1>2, <2>1, <3>1, <3>2, <3>3 DEF EndsReach, InSight
  <2>3. CASE ~Arrive(h) /\ g \in ended
    <3>1. MovesOn(h)
      BY <2>3, HandlingMoves
    <3>2. /\ pc[h] = "reading" => g <= remembered[h] \/ Guarded(g)
          /\ pc[h] \in {"applying", "noting"} => g < h
      BY <2>1, <2>3 DEF EndsReach
    <3> QED BY <2>1, <3>1, <3>2, ReachStays DEF MovesOn
  <2>4. CASE ~Arrive(h) /\ g \notin ended
    <3>1. Explain(g)
      BY <1>2, <2>4 DEF Next, vars, Arrive, MarkRead, MarkUnreadable, Apply,
         Explain, Defer, MarkSaved, MarkNotSaved, OwnDecision, Evicted, Killed, Forget,
         bounds, history
    <3>2. pc[g] = "noting" /\ pc'[g] = "writing"
      BY <2>1, <3>1 DEF Explain, Goto, TypeOK
    <3>3. MovesOn(h)
      BY <2>4, HandlingMoves
    <3> QED BY <2>1, <3>2, <3>3 DEF OneAtATime, InSight, MovesOn
  <2> QED BY <2>2, <2>3, <2>4
<1> QED BY <1>1, <1>2 DEF EndsReach

\* The conversation goes on following the newest decision.
LEMMA TimerStays ==
    ASSUME TypeOK, TypeOK', MarksAreEnds, OneAtATime, EndsReach, EndsReach', TimerFollows,
           [Next]_vars
    PROVE  TimerFollows'
<1> USE ControlAssumption DEF TypeOK, OneAtATime, EndsReach, TimerFollows, InSight, Frame, Pc, bounds, history, code
<1>1. ASSUME NEW f \in Frame, Arrive(f) PROVE TimerFollows'
  BY <1>1 DEF Arrive, Goto, Busy
<1>2. ASSUME NEW f \in Frame, MarkRead(f) PROVE TimerFollows'
  BY <1>2 DEF MarkRead, Judged, Goto, Larger
<1>3. ASSUME NEW f \in Frame, MarkUnreadable(f) PROVE TimerFollows'
  BY <1>3 DEF MarkUnreadable, Judged, Goto, Fail
<1>4. ASSUME NEW f \in Frame, Apply(f) PROVE TimerFollows'
  BY <1>4 DEF Apply, Goto
<1>5. ASSUME NEW f \in Frame, Explain(f) PROVE TimerFollows'
  BY <1>5 DEF Explain, Goto, Larger
<1>6. ASSUME NEW f \in Frame, Defer(f) PROVE TimerFollows'
  BY <1>6 DEF Defer, Goto, Fail
<1>7. ASSUME NEW f \in Frame, MarkSaved(f) PROVE TimerFollows'
  BY <1>7 DEF MarkSaved, Goto
<1>8. ASSUME NEW f \in Frame, MarkNotSaved(f) PROVE TimerFollows'
  BY <1>8 DEF MarkNotSaved, Goto, Fail
<1>9. CASE OwnDecision
  BY <1>9 DEF OwnDecision
<1>10. CASE Evicted
  BY <1>10 DEF Evicted, Forget
<1>11. CASE Killed
  BY <1>11 DEF Killed, Forget
<1>12. CASE UNCHANGED vars
  BY <1>12 DEF vars
<1> QED BY <1>1, <1>2, <1>3, <1>4, <1>5, <1>6, <1>7, <1>8,
         <1>9, <1>10, <1>11, <1>12 DEF Next

-----------------------------------------------------------------------------
\* The first state has nothing to guard.
LEMMA InitIInv == Init => IInv
<1> SUFFICES ASSUME Init PROVE IInv
  OBVIOUS
<1> USE ControlAssumption DEF Init, Frame, Pc
<1>1. TypeOK
  <2>1. known \in [Frame -> SUBSET ended] /\ remembered \in [Frame -> 0..MaxTime]
    OBVIOUS
  <2>2. pc \in [Frame -> Pc] /\ overlapped \in BOOLEAN /\ blind \in BOOLEAN /\ lossy \in BOOLEAN
    OBVIOUS
  <2> QED BY <2>1, <2>2 DEF TypeOK
<1>2. MarksAreEnds /\ MirrorReaches /\ KnownReaches /\ OneAtATime /\ SavedGuards
  BY DEF MarksAreEnds, MirrorReaches, KnownReaches, OneAtATime, SavedGuards
<1>3. EndsReach /\ TimerFollows
  BY DEF EndsReach, TimerFollows, InSight
<1> QED BY <1>1, <1>2, <1>3 DEF IInv

LEMMA StepIInv == IInv /\ [Next]_vars => IInv'
<1> SUFFICES ASSUME IInv, [Next]_vars PROVE IInv'
  OBVIOUS
<1>1. TypeOK'
  BY TypesStay DEF IInv
<1>2. MarksAreEnds' /\ MirrorReaches' /\ OneAtATime'
  BY MarksStay, MirrorStays, OneStays DEF IInv
<1>3. SavedGuards' /\ KnownReaches' /\ EndsReach'
  BY <1>1, SavedStay, KnownStays, EndsStay DEF IInv
<1>4. TimerFollows'
  BY <1>1, <1>3, TimerStays DEF IInv
<1> QED BY <1>1, <1>2, <1>3, <1>4 DEF IInv

\* The types, what the marks stand for and what they reach are kept by every step
\* (controlWatermark.ts, freshTs and commitTs; disappearSync.ts, handleIncomingDisappear).
THEOREM WatermarkInvariance == Spec => []IInv
BY InitIInv, StepIInv, PTL DEF Spec

\* ControlWatermark is type correct.
THEOREM TypeCorrect == Spec => []TypeOK
<1>1. IInv => TypeOK
  BY DEF IInv
<1> QED BY <1>1, WatermarkInvariance, PTL

\* The conversation follows the newest decision of the contact that was carried out, when
\* handlings did not overlap and no mark was out of reach (disappearSync.ts).
THEOREM NewestFollowed == Spec => []NewestStands
<1>1. IInv => NewestStands
  <2> SUFFICES ASSUME IInv, Busy = {}, owed = {}, own = 0, InSight
               PROVE  timer \in ended \cup {0} /\ \A f \in ended : f <= timer
    BY DEF NewestStands, InSight
  <2>1. \A f \in Frame : pc[f] # "noting"
    BY DEF Busy
  <2> QED BY <2>1 DEF IInv, TimerFollows
<1> QED BY <1>1, WatermarkInvariance, PTL

\* No older decision undoes a newer one that its handling must know of, whatever arrives
\* again and whatever fails (controlWatermark.ts, freshTs and commitTs).
THEOREM NothingUndone == Spec => NoRollback
<1>1. IInv /\ [Next]_vars =>
        [\A f \in Frame : pc[f] = "applying" /\ pc'[f] = "noting" /\ ~blind
                              => \A g \in known[f] : g < f]_vars
  BY DEF IInv, KnownReaches
<1> QED BY <1>1, WatermarkInvariance, PTL DEF Spec, NoRollback

\* A frame is out of date only for a decision that was carried out and is not older, so
\* that one that was deferred is not refused when it comes again (disappearSync.ts).
THEOREM RefusalsHaveReason == Spec => RefusalHasReason
<1>1. ASSUME IInv, [Next]_vars, NEW f \in Frame,
             pc[f] = "reading", pc'[f] = "idle", losses' = losses
      PROVE  \E g \in ended : g >= f
  <2>1. f <= remembered[f] \/ f <= disk
    <3>1. ~Arrive(f)
      BY <1>1 DEF Arrive
    <3> QED BY <1>1, <3>1, HandlingMoves DEF IInv, MovesOn
  <2>2. f \in Nat /\ f # 0 /\ remembered[f] \in Nat /\ disk \in Nat
    BY ControlAssumption, <1>1 DEF IInv, TypeOK, Frame
  <2>3. CASE f <= remembered[f]
    <3>1. remembered[f] \in ended
      BY <1>1, <2>2, <2>3 DEF IInv, MarksAreEnds
    <3> QED BY <2>2, <2>3, <3>1
  <2>4. CASE f <= disk
    <3>1. disk \in ended
      BY <1>1, <2>2, <2>4 DEF IInv, MarksAreEnds
    <3> QED BY <2>2, <2>4, <3>1
  <2> QED BY <2>1, <2>3, <2>4
<1>2. IInv /\ [Next]_vars =>
        [\A f \in Frame : pc[f] = "reading" /\ pc'[f] = "idle" /\ losses' = losses
                              => \E g \in ended : g >= f]_vars
  BY <1>1
<1> QED BY <1>2, WatermarkInvariance, PTL DEF Spec, RefusalHasReason

=============================================================================
