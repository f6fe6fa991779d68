---------------------- MODULE ScheduledMessagesProofs ----------------------
(***************************************************************************)
(* Theorems about ScheduledMessages, for any profiles, owners, groups,     *)
(* attempts and bounds: the types, that nothing is sent again without a    *)
(* fault, that no row goes for nothing, and whose key a message is sent    *)
(* with.                                                                   *)
(***************************************************************************)
EXTENDS ScheduledMessages, TLAPS

\* A reason is there while a row is removed, and a list while a pass goes through it.
Tidy ==
    /\ pass.pc # "removing" => pass.why = "none"
    /\ pass.pc \in {"idle", "listing"} => pass.todo = {}
    /\ pass.pc # "idle" => pass.pid \in Profile /\ pass.service \in Profile
    /\ switch.pc # "idle" => switch.from \in Profile /\ switch.to \in Profile
    /\ \A m \in pass.todo : Owner[m] = pass.pid
    /\ pass.pc = "sending" /\ pass.this \notin Group => pass.through = pass.service

\* The message in hand has been sent, and its row is about to go.
Going == pass.pc = "copying" \/ pass.why = "sent"

\* No pass will send the message again.
Handled(m) ==
    \/ pass.this = m /\ Going
    \/ row[m] = "gone" /\ m \notin pass.todo

\* A message that may be sent again was sent once for each time its row had to stay.
Counted ==
    \A m \in Message :
        /\ Len(sent[m]) <= excused[m] + 1
        /\ ~Handled(m) => Len(sent[m]) <= excused[m]

\* Before the first switch there is one profile.
Steady ==
    switches = 0 =>
        /\ ~hasty /\ switch = NoSwitch /\ stored = active /\ pair = active
        /\ service \in {NoOne, active}
        /\ pass.pc # "idle" => pass.pid = active /\ pass.service = active
        /\ pass.through \in {NoOne, active}

\* A row that is about to go has a reason to.
Grounded ==
    Going => \/ sent[pass.this] # <<>>
             \/ pass.this \in Group /\ switches > 0

\* The services are those of the profile that is active, and a switch has none.
Loyal ==
    ~hasty =>
        /\ binding = "waiting" => switch = NoSwitch /\ pair = active
        /\ service # NoOne => service = active /\ switch = NoSwitch
        /\ pass.pc # "idle" => pass.service = pass.pid

IInv ==
    /\ TypeOK /\ Tidy /\ Counted /\ Steady /\ Grounded /\ Loyal
    /\ NothingVanishes /\ SentByOwner

\* The message in hand is one of those of the pass.
LEMMA InHand ==
    ASSUME TypeOK, pass.pc \in {"marking", "sending", "copying", "removing"}
    PROVE /\ pass.this \in pass.todo /\ pass.this \in Message
          /\ attempts[pass.this] \in Nat /\ excused[pass.this] \in Nat
          /\ sent[pass.this] \in Seq(Profile)
BY DEF TypeOK, PassRecord

\* Going on with the next message, and removing one, are states of a pass.
LEMMA SkipShape ==
    ASSUME TypeOK, NEW m \in Message
    PROVE /\ Skip(m) \in PassRecord
          /\ Skip(m).pc = "turn" /\ Skip(m).why = "none" /\ Skip(m).this = 0
          /\ Skip(m).todo = pass.todo \ {m} /\ Skip(m).through = NoOne
          /\ Skip(m).pid = pass.pid /\ Skip(m).service = pass.service
<1>1. /\ pass \in PassRecord /\ 0 \in 0..Messages
  BY ScheduleAssumption DEF ScheduleAssumption, TypeOK
<1>2. Skip(m) \in PassRecord
  BY <1>1 DEF Skip, PassRecord, PassPc, Reason
<1> QED BY <1>1, <1>2 DEF Skip, PassRecord

LEMMA RemoveShape ==
    ASSUME TypeOK, NEW m \in Message, NEW why \in Reason
    PROVE /\ Remove(m, why) \in PassRecord
          /\ Remove(m, why).pc = "removing" /\ Remove(m, why).why = why
          /\ Remove(m, why).this = m /\ Remove(m, why).todo = pass.todo
          /\ Remove(m, why).pid = pass.pid /\ Remove(m, why).service = pass.service
          /\ Remove(m, why).through = pass.through
<1>1. /\ pass \in PassRecord /\ m \in 0..Messages
  BY ScheduleAssumption DEF ScheduleAssumption, TypeOK, Message
<1>2. Remove(m, why) \in PassRecord
  BY <1>1 DEF Remove, PassRecord, PassPc
<1> QED BY <1>1, <1>2 DEF Remove, PassRecord

\* A message sent once more.
LEMMA Appended ==
    ASSUME NEW s \in Seq(Profile), NEW p \in Profile
    PROVE /\ Append(s, p) \in Seq(Profile) /\ Append(s, p) # <<>>
          /\ Len(Append(s, p)) = Len(s) + 1
          /\ \A i \in DOMAIN Append(s, p) :
                Append(s, p)[i] = p \/ (i \in DOMAIN s /\ Append(s, p)[i] = s[i])
<1>1. Append(s, p) \in Seq(Profile) /\ Len(Append(s, p)) = Len(s) + 1 /\ Len(s) \in Nat
  OBVIOUS
<1>2. Append(s, p) # <<>>
  BY <1>1
<1>3. ASSUME NEW i \in DOMAIN Append(s, p), i # Len(s) + 1
      PROVE i \in DOMAIN s /\ Append(s, p)[i] = s[i]
  <2>1. i \in 1..(Len(s) + 1)
    BY <1>1
  <2>2. i \in 1..Len(s)
    BY <2>1, <1>1, <1>3
  <2> QED BY <2>2
<1>4. Append(s, p)[Len(s) + 1] = p
  OBVIOUS
<1> QED BY <1>1, <1>2, <1>3, <1>4

\* No pass is a state of a pass.
LEMMA NoPassShape == NoPass \in PassRecord
BY ScheduleAssumption DEF ScheduleAssumption, NoPass, PassRecord, PassPc, Reason

\* The types; that the profiles of a switch are profiles comes from Tidy.
LEMMA StepTypes ==
    ASSUME TypeOK, Tidy, [Next]_vars
    PROVE TypeOK'
<1> USE ScheduleAssumption DEF ScheduleAssumption, Message
<1>1. ASSUME NEW m \in Message, Schedule(m) PROVE TypeOK'
  BY <1>1 DEF Schedule, TypeOK, rows, identity, bounds, history
<1>2. ASSUME NEW m \in Message, Cancel(m) PROVE TypeOK'
  BY <1>2 DEF Cancel, TypeOK, rows, identity, bounds, history
<1>3. ASSUME NEW m \in Message, Block(m) PROVE TypeOK'
  BY <1>3 DEF Block, TypeOK, rows, identity, bounds, history
<1>4. ASSUME TimePasses PROVE TypeOK'
  BY <1>4 DEF TimePasses, TypeOK, rows, identity, bounds, history
<1>5. ASSUME NEW p \in Profile, SwitchBegins(p) PROVE TypeOK'
  <2>1. (switch \in SwitchRecord)'
    BY <1>5 DEF SwitchBegins, TypeOK, SwitchRecord
  <2>2. (hasty \in BOOLEAN)'
    BY <1>5 DEF SwitchBegins, TypeOK
  <2>3. (switches \in 0..MaxSwitches /\ service \in Profile \cup {NoOne})'
    BY <1>5 DEF SwitchBegins, TypeOK
  <2>4. UNCHANGED <<row, attempts, now, blocked, active, stored, binding, pair, timer,
                    pass, kills, failures, sent, excused, settled>>
    BY <1>5 DEF SwitchBegins, rows
  <2> QED BY <2>1, <2>2, <2>3, <2>4 DEF TypeOK
<1>6. ASSUME SwitchMoves PROVE TypeOK'
  <2>1. (active \in Profile /\ switch \in SwitchRecord)'
    BY <1>6 DEF SwitchMoves, Tidy, TypeOK, SwitchRecord
  <2> QED BY <1>6, <2>1 DEF SwitchMoves, TypeOK, rows, identity, bounds, history
<1>7. ASSUME SwitchFails PROVE TypeOK'
  <2>1. (active \in Profile /\ stored \in Profile /\ switch \in SwitchRecord)'
    BY <1>7 DEF SwitchFails, Tidy, TypeOK, SwitchRecord, NoSwitch
  <2>2. (failures \in 0..MaxFailures)'
    BY <1>7 DEF SwitchFails, Fail, TypeOK
  <2>3. UNCHANGED <<row, attempts, now, blocked, service, binding, pair, timer, pass,
                    switches, kills, sent, excused, settled, hasty>>
    BY <1>7 DEF SwitchFails, Fail, rows, history
  <2> QED BY <2>1, <2>2, <2>3 DEF TypeOK
<1>8. ASSUME SwitchDone PROVE TypeOK'
  <2>1. (switch \in SwitchRecord)'
    BY <1>8 DEF SwitchDone, TypeOK, SwitchRecord, NoSwitch
  <2> QED BY <1>8, <2>1 DEF SwitchDone, TypeOK, rows, identity, bounds, history
<1>9. ASSUME Bind PROVE TypeOK'
  BY <1>9 DEF Bind, TypeOK, rows, identity, bounds, history
<1>10. ASSUME StartScheduler PROVE TypeOK'
  BY <1>10 DEF StartScheduler, TypeOK, rows, identity, bounds, history
<1>11. ASSUME Kill PROVE TypeOK'
  <2>1. (pass \in PassRecord /\ pass.pc = "idle" /\ switch \in SwitchRecord)'
    BY <1>11, NoPassShape DEF Kill, NoPass, NoSwitch, SwitchRecord
  <2>2. (excused \in [Message -> Nat])'
    <3>1. CASE pass.pc = "copying" \/ pass.why = "sent"
      <4>1. pass.this \in Message /\ excused[pass.this] + 1 \in Nat
        BY <3>1, InHand DEF Tidy
      <4> QED BY <1>11, <3>1, <4>1 DEF Kill, TypeOK
    <3> QED BY <1>11, <3>1 DEF Kill, TypeOK
  <2>3. kills' \in 0..MaxKills
    BY <1>11 DEF Kill, TypeOK
  <2> QED BY <1>11, <2>1, <2>2, <2>3 DEF Kill, TypeOK, rows, history
<1>12. ASSUME Tick PROVE TypeOK'
  <2>1. (pass \in PassRecord /\ pass.pc = "listing")'
    BY <1>12 DEF Tick, NoPass, TypeOK, PassRecord, PassPc, Reason
  <2> QED BY <1>12, <2>1 DEF Tick, TypeOK, rows, identity, bounds, history
<1>13. ASSUME Listed PROVE TypeOK'
  <2>1. Due(pass.pid) \subseteq Message
    BY <1>13 DEF Due, TypeOK, Message
  <2>2. (pass \in PassRecord)'
    BY <1>13, <2>1, NoPassShape DEF Listed, TypeOK, PassRecord, PassPc
  <2>3. (pass.pc \in {"idle", "turn"})'
    BY <1>13 DEF Listed, NoPass, TypeOK, PassRecord
  <2> QED BY <1>13, <2>2, <2>3 DEF Listed, TypeOK, rows, identity, bounds, history
<1>14. ASSUME ListFails PROVE TypeOK'
  <2>1. (pass \in PassRecord /\ pass.pc = "idle")'
    BY <1>14, NoPassShape DEF ListFails, NoPass
  <2> QED BY <1>14, <2>1 DEF ListFails, Fail, TypeOK, rows, identity, bounds, history
<1>15. ASSUME PassOver PROVE TypeOK'
  <2>1. (pass \in PassRecord /\ pass.pc = "idle")'
    BY <1>15, NoPassShape DEF PassOver, NoPass
  <2> QED BY <1>15, <2>1 DEF PassOver, Fail, TypeOK, rows, identity, bounds, history
<1>16. ASSUME Turn PROVE TypeOK'
  <2> PICK m \in First : pass' = CASE m \in Unreadable -> Skip(m)
                    [] m \in blocked \ Unreadable ->
                         [Remove(m, "blocked") EXCEPT !.attempt = attempts[m] + 1]
                    [] OTHER -> [pass EXCEPT !.pc = "marking", !.this = m,
                                             !.attempt = attempts[m] + 1]
    BY <1>16 DEF Turn
  <2>1. m \in Message /\ m \in pass.todo /\ attempts[m] + 1 \in Nat
    BY DEF First, TypeOK, PassRecord
  <2>2. CASE m \in Unreadable
    BY <2>1, <2>2, <1>16, SkipShape DEF Turn, TypeOK, rows, identity, bounds, history
  <2>3. CASE m \in blocked \ Unreadable
    <3>1. pass' = [Remove(m, "blocked") EXCEPT !.attempt = attempts[m] + 1]
      BY <2>3
    <3>2. /\ Remove(m, "blocked") \in PassRecord
          /\ Remove(m, "blocked").this = m /\ Remove(m, "blocked").todo = pass.todo
      BY <2>1, RemoveShape DEF Reason
    <3>3. (pass \in PassRecord /\ pass.this \in pass.todo)'
      <4> DEFINE r == Remove(m, "blocked")
      <4>1. r \in PassRecord /\ r.this = m /\ r.todo = pass.todo
        BY <3>2
      <4>2. pass' = [r EXCEPT !.attempt = attempts[m] + 1]
        BY <3>1
      <4> HIDE DEF r
      <4>3. pass' \in PassRecord
        BY <4>1, <4>2, <2>1 DEF PassRecord
      <4>4. pass'.this = m /\ pass'.todo = pass.todo
        BY <4>1, <4>2 DEF PassRecord
      <4> QED BY <4>3, <4>4, <2>1
    <3> QED BY <3>3, <1>16 DEF Turn, TypeOK, rows, identity, bounds, history
  <2>4. CASE m \notin Unreadable /\ m \notin blocked
    <3>1. pass' = [pass EXCEPT !.pc = "marking", !.this = m, !.attempt = attempts[m] + 1]
      BY <2>4
    <3>2. pass \in PassRecord /\ m \in 0..Messages
      BY <2>1 DEF TypeOK, Message
    <3>3. (pass \in PassRecord /\ pass.this \in pass.todo)'
      BY <3>1, <3>2, <2>1 DEF PassRecord, PassPc
    <3> QED BY <3>3, <1>16 DEF Turn, TypeOK, rows, identity, bounds, history
  <2> QED BY <2>2, <2>3, <2>4
<1>17. ASSUME Postponed PROVE TypeOK'
  <2>1. PICK m \in First : pass' = Skip(m)
    BY <1>17 DEF Postponed
  <2>2. m \in Message
    BY DEF First, TypeOK, PassRecord
  <2>3. (pass \in PassRecord /\ pass.pc = "turn")'
    BY <2>1, <2>2, SkipShape
  <2> QED BY <1>17, <2>3 DEF Postponed, Fail, TypeOK, rows, identity, bounds, history
<1>18. ASSUME Marked PROVE TypeOK'
  <2>1. (pass \in PassRecord /\ pass.this \in pass.todo)'
    BY <1>18 DEF Marked, TypeOK, PassRecord, PassPc
  <2>2. (attempts \in [Message -> Nat])'
    BY <1>18 DEF Marked, TypeOK, PassRecord
  <2> QED BY <1>18, <2>1, <2>2 DEF Marked, TypeOK, rows, identity, bounds, history
<1>19. ASSUME NotMarked PROVE TypeOK'
  <2>1. pass.this \in Message /\ pass.this \in pass.todo
    BY <1>19, InHand DEF NotMarked
  <2>2. (pass \in PassRecord)'
    BY <1>19, <2>1, SkipShape DEF NotMarked, Reason
  <2>3. (pass.pc \in {"marking", "sending", "copying", "removing"}
          => pass.this \in pass.todo)'
    BY <1>19, <2>1, SkipShape DEF NotMarked, Reason
  <2> QED BY <1>19, <2>2, <2>3 DEF NotMarked, Fail, TypeOK, rows, identity, bounds,
             history
<1>20. ASSUME Sent PROVE TypeOK'
  <2>1. pass.this \in Message /\ pass.this \in pass.todo /\ pass.through \in Profile
    BY <1>20, InHand DEF Sent, TypeOK, PassRecord
  <2>2. (pass \in PassRecord)'
    BY <1>20, <2>1, RemoveShape DEF Sent, TypeOK, PassRecord, PassPc, Reason
  <2>3. (pass.this \in pass.todo)'
    BY <1>20, <2>1, <2>2, RemoveShape DEF Sent, PassRecord, Reason
  <2>4. (sent \in [Message -> Seq(Profile)])'
    BY <1>20, <2>1 DEF Sent, TypeOK
  <2> QED BY <1>20, <2>2, <2>3, <2>4 DEF Sent, TypeOK, rows, identity, bounds, history
<1>21. ASSUME NobodyThere PROVE TypeOK'
  <2>1. (pass \in PassRecord /\ pass.this \in pass.todo)'
    BY <1>21 DEF NobodyThere, TypeOK, PassRecord, PassPc
  <2> QED BY <1>21, <2>1 DEF NobodyThere, TypeOK, rows, identity, bounds, history
<1>22. ASSUME Refused PROVE TypeOK'
  <2>1. pass.this \in Message /\ pass.this \in pass.todo
    BY <1>22, InHand DEF Refused
  <2>2. (pass \in PassRecord)'
    BY <1>22, <2>1, RemoveShape DEF Refused, Reason
  <2>3. (pass.pc \in {"marking", "sending", "copying", "removing"}
          => pass.this \in pass.todo)'
    BY <1>22, <2>1, RemoveShape DEF Refused, Reason
  <2> QED BY <1>22, <2>2, <2>3 DEF Refused, Fail, TypeOK, rows, identity, bounds,
             history
<1>23. ASSUME Unsent PROVE TypeOK'
  <2>1. pass.this \in Message /\ pass.this \in pass.todo
    BY <1>23, InHand DEF Unsent
  <2>2. (pass \in PassRecord)'
    BY <1>23, <2>1, SkipShape, RemoveShape DEF Unsent, Again, Reason
  <2>3. (pass.pc \in {"marking", "sending", "copying", "removing"}
          => pass.this \in pass.todo)'
    BY <1>23, <2>1, SkipShape, RemoveShape DEF Unsent, Again, Reason
  <2> QED BY <1>23, <2>2, <2>3 DEF Unsent, Fail, TypeOK, rows, identity, bounds, history
<1>24. ASSUME Copied PROVE TypeOK'
  <2>1. pass.this \in Message /\ pass.this \in pass.todo
    BY <1>24, InHand DEF Copied
  <2>2. (pass \in PassRecord)'
    BY <1>24, <2>1, RemoveShape DEF Copied, Reason
  <2>3. (pass.pc \in {"marking", "sending", "copying", "removing"}
          => pass.this \in pass.todo)'
    BY <1>24, <2>1, RemoveShape DEF Copied, Reason
  <2> QED BY <1>24, <2>2, <2>3 DEF Copied, Fail, TypeOK, rows, identity, bounds, history
<1>25. ASSUME NotCopied PROVE TypeOK'
  <2>1. pass.this \in Message /\ pass.this \in pass.todo
    BY <1>25, InHand DEF NotCopied
  <2>2. (pass \in PassRecord)'
    BY <1>25, <2>1, SkipShape, RemoveShape DEF NotCopied, Again, Reason
  <2>3. (pass.pc \in {"marking", "sending", "copying", "removing"}
          => pass.this \in pass.todo)'
    BY <1>25, <2>1, SkipShape, RemoveShape DEF NotCopied, Again, Reason
  <2>4. (excused \in [Message -> Nat])'
    <3>1. pass.this \in Message /\ excused[pass.this] + 1 \in Nat
      BY <1>25, InHand DEF NotCopied
    <3> QED BY <1>25, <3>1 DEF NotCopied, TypeOK
  <2>5. /\ UNCHANGED <<rows, identity, sent, settled, hasty, switches, kills>>
        /\ failures' \in 0..MaxFailures
    BY <1>25 DEF NotCopied, Fail, TypeOK
  <2> QED BY <2>2, <2>3, <2>4, <2>5 DEF TypeOK, rows, identity
<1>26. ASSUME Removed PROVE TypeOK'
  <2>1. pass.this \in Message /\ pass.this \in pass.todo
    BY <1>26, InHand DEF Removed
  <2>2. (pass \in PassRecord)'
    BY <1>26, <2>1, SkipShape DEF Removed, Reason
  <2>3. (pass.pc \in {"marking", "sending", "copying", "removing"}
          => pass.this \in pass.todo)'
    BY <1>26, <2>1, SkipShape DEF Removed, Reason
  <2>4. (row \in [Message -> {"new", "stored", "gone"}] /\ settled \subseteq Message)'
    BY <1>26, <2>1 DEF Removed, TypeOK
  <2> QED BY <1>26, <2>2, <2>3, <2>4 DEF Removed, Fail, TypeOK, rows, identity, bounds,
             history
<1>27. ASSUME NotRemoved PROVE TypeOK'
  <2>1. pass.this \in Message /\ pass.this \in pass.todo
    BY <1>27, InHand DEF NotRemoved
  <2>2. (pass \in PassRecord)'
    BY <1>27, <2>1, SkipShape, RemoveShape DEF NotRemoved, Reason
  <2>3. (pass.pc \in {"marking", "sending", "copying", "removing"}
          => pass.this \in pass.todo)'
    BY <1>27, <2>1, SkipShape, RemoveShape DEF NotRemoved, Reason
  <2>4. (excused \in [Message -> Nat])'
    <3>1. pass.this \in Message /\ excused[pass.this] + 1 \in Nat
      BY <1>27, InHand DEF NotRemoved
    <3> QED BY <1>27, <3>1 DEF NotRemoved, TypeOK
  <2>5. (failures \in 0..MaxFailures)'
    <3>1. failures' = failures + 1 /\ failures < MaxFailures
      BY <1>27 DEF NotRemoved, Fail
    <3>2. failures \in 0..MaxFailures
      BY DEF TypeOK
    <3> QED BY <3>1, <3>2
  <2>6. UNCHANGED <<row, attempts, now, blocked, active, stored, service, binding, pair,
                    timer, switch, switches, kills, sent, settled, hasty>>
    BY <1>27 DEF NotRemoved, Fail, rows, identity
  <2> QED BY <2>2, <2>3, <2>4, <2>5, <2>6 DEF TypeOK
<1>28. CASE UNCHANGED vars
  BY <1>28 DEF vars, TypeOK, rows, identity, bounds, history
<1> QED BY <1>1, <1>2, <1>3, <1>4, <1>5, <1>6, <1>7, <1>8, <1>9, <1>10,
     <1>11, <1>12, <1>13, <1>14, <1>15, <1>16, <1>17, <1>18, <1>19, <1>20,
     <1>21, <1>22, <1>23, <1>24, <1>25, <1>26, <1>27, <1>28 DEF Next, Switch, Pass

\* A pass goes through its own list, with what it was begun with.
LEMMA StepTidy ==
    ASSUME TypeOK, Tidy, [Next]_vars
    PROVE Tidy'
<1> USE ScheduleAssumption DEF ScheduleAssumption, TypeOK, Tidy, PassRecord,
        SwitchRecord, Message, PassPc, Reason, NoSwitch
<1>1. ASSUME NEW m \in Message, Schedule(m) PROVE Tidy'
  BY <1>1 DEF Schedule, rows, identity, bounds, history
<1>2. ASSUME NEW m \in Message, Cancel(m) PROVE Tidy'
  BY <1>2 DEF Cancel, rows, identity, bounds, history
<1>3. ASSUME NEW m \in Message, Block(m) PROVE Tidy'
  BY <1>3 DEF Block, rows, identity, bounds, history
<1>4. ASSUME TimePasses PROVE Tidy'
  BY <1>4 DEF TimePasses, rows, identity, bounds, history
<1>5. ASSUME NEW p \in Profile, SwitchBegins(p) PROVE Tidy'
  BY <1>5 DEF SwitchBegins, rows, identity, bounds, history
<1>6. ASSUME SwitchMoves PROVE Tidy'
  BY <1>6 DEF SwitchMoves, rows, identity, bounds, history
<1>7. ASSUME SwitchFails PROVE Tidy'
  BY <1>7 DEF SwitchFails, Fail, rows, identity, bounds, history
<1>8. ASSUME SwitchDone PROVE Tidy'
  BY <1>8 DEF SwitchDone, rows, identity, bounds, history
<1>9. ASSUME Bind PROVE Tidy'
  BY <1>9 DEF Bind, rows, identity, bounds, history
<1>10. ASSUME StartScheduler PROVE Tidy'
  BY <1>10 DEF StartScheduler, rows, identity, bounds, history
<1>11. ASSUME Kill PROVE Tidy'
  BY <1>11 DEF Kill, NoPass, NoSwitch, rows, identity, bounds, history
<1>12. ASSUME Tick PROVE Tidy'
  BY <1>12 DEF Tick, NoPass, rows, identity, bounds, history
<1>13. ASSUME Listed PROVE Tidy'
  BY <1>13 DEF Listed, Due, NoPass, rows, identity, bounds, history
<1>14. ASSUME ListFails PROVE Tidy'
  BY <1>14 DEF ListFails, Fail, NoPass, rows, identity, bounds, history
<1>15. ASSUME PassOver PROVE Tidy'
  BY <1>15 DEF PassOver, NoPass, rows, identity, bounds, history
<1>16. ASSUME Turn PROVE Tidy'
  BY <1>16 DEF Turn, First, Skip, Remove, rows, identity, bounds, history
<1>17. ASSUME Postponed PROVE Tidy'
  BY <1>17 DEF Postponed, First, Skip, Fail, rows, identity, bounds, history
<1>18. ASSUME Marked PROVE Tidy'
  BY <1>18 DEF Marked, rows, identity, bounds, history
<1>19. ASSUME NotMarked PROVE Tidy'
  BY <1>19 DEF NotMarked, Skip, Fail, rows, identity, bounds, history
<1>20. ASSUME Sent PROVE Tidy'
  BY <1>20 DEF Sent, Remove, rows, identity, bounds, history
<1>21. ASSUME NobodyThere PROVE Tidy'
  BY <1>21 DEF NobodyThere, rows, identity, bounds, history
<1>22. ASSUME Refused PROVE Tidy'
  BY <1>22 DEF Refused, Remove, rows, identity, bounds, history
<1>23. ASSUME Unsent PROVE Tidy'
  BY <1>23 DEF Unsent, Again, Exhausted, Skip, Remove, rows, identity, bounds, history
<1>24. ASSUME Copied PROVE Tidy'
  BY <1>24 DEF Copied, Remove, rows, identity, bounds, history
<1>25. ASSUME NotCopied PROVE Tidy'
  BY <1>25 DEF NotCopied, Again, Exhausted, Skip, Remove, Fail, rows, identity, bounds,
     history
<1>26. ASSUME Removed PROVE Tidy'
  BY <1>26 DEF Removed, Skip, rows, identity, bounds, history
<1>27. ASSUME NotRemoved PROVE Tidy'
  BY <1>27 DEF NotRemoved, Exhausted, Skip, Remove, Fail, rows, identity, bounds,
     history
<1>28. CASE UNCHANGED vars
  BY <1>28 DEF vars, rows, identity, bounds, history
<1> QED BY <1>1, <1>2, <1>3, <1>4, <1>5, <1>6, <1>7, <1>8, <1>9, <1>10,
     <1>11, <1>12, <1>13, <1>14, <1>15, <1>16, <1>17, <1>18, <1>19, <1>20,
     <1>21, <1>22, <1>23, <1>24, <1>25, <1>26, <1>27, <1>28 DEF Next, Switch, Pass

\* Each repetition is paid for by a fault: a copy or a removal that failed, a death.
LEMMA StepCounted ==
    ASSUME TypeOK, Tidy, Counted, [Next]_vars
    PROVE Counted'
<1> USE ScheduleAssumption DEF ScheduleAssumption, Message
<1>1. ASSUME NEW m \in Message, Schedule(m) PROVE Counted'
  BY <1>1 DEF TypeOK, Tidy, PassRecord, SwitchRecord, PassPc, Reason, NoSwitch, Counted,
     Handled, Going, Schedule, rows, identity, bounds, history
<1>2. ASSUME NEW m \in Message, Cancel(m) PROVE Counted'
  BY <1>2 DEF TypeOK, Tidy, PassRecord, SwitchRecord, PassPc, Reason, NoSwitch, Counted,
     Handled, Going, Cancel, rows, identity, bounds, history
<1>3. ASSUME NEW m \in Message, Block(m) PROVE Counted'
  BY <1>3 DEF Counted, Handled, Going, Block, rows, identity, bounds, history
<1>4. ASSUME TimePasses PROVE Counted'
  BY <1>4 DEF Counted, Handled, Going, TimePasses, rows, identity, bounds, history
<1>5. ASSUME NEW p \in Profile, SwitchBegins(p) PROVE Counted'
  BY <1>5 DEF Counted, Handled, Going, SwitchBegins, rows, identity, bounds, history
<1>6. ASSUME SwitchMoves PROVE Counted'
  BY <1>6 DEF Counted, Handled, Going, SwitchMoves, rows, identity, bounds, history
<1>7. ASSUME SwitchFails PROVE Counted'
  BY <1>7 DEF Counted, Handled, Going, SwitchFails, Fail, rows, identity, bounds,
     history
<1>8. ASSUME SwitchDone PROVE Counted'
  BY <1>8 DEF Counted, Handled, Going, SwitchDone, rows, identity, bounds, history
<1>9. ASSUME Bind PROVE Counted'
  BY <1>9 DEF Counted, Handled, Going, Bind, rows, identity, bounds, history
<1>10. ASSUME StartScheduler PROVE Counted'
  BY <1>10 DEF Counted, Handled, Going, StartScheduler, rows, identity, bounds, history
<1>11. ASSUME Kill PROVE Counted'
  <2> SUFFICES ASSUME NEW m \in Message
               PROVE (/\ Len(sent[m]) <= excused[m] + 1
                      /\ ~Handled(m) => Len(sent[m]) <= excused[m])'
    BY DEF Counted
  <2>1. /\ Len(sent[m]) \in Nat /\ excused[m] \in Nat /\ Len(sent[m]) <= excused[m] + 1
        /\ ~Handled(m) => Len(sent[m]) <= excused[m]
    BY DEF Counted, TypeOK
  <2>2. CASE Going /\ m = pass.this
    <3>1. sent'[m] = sent[m] /\ excused'[m] = excused[m] + 1
      BY <1>11, <2>2 DEF Kill, Going, TypeOK, history
    <3> QED BY <2>1, <3>1
  <2>3. CASE ~(Going /\ m = pass.this)
    <3>1. sent'[m] = sent[m] /\ excused'[m] = excused[m]
      BY <1>11, <2>3 DEF Kill, Going, TypeOK, history
    <3>2. Handled(m) => Handled(m)'
      BY <1>11, <2>3 DEF Kill, Handled, Going, NoPass, rows
    <3> QED BY <2>1, <3>1, <3>2
  <2> QED BY <2>2, <2>3
<1>12. ASSUME Tick PROVE Counted'
  BY <1>12 DEF TypeOK, Tidy, PassRecord, SwitchRecord, PassPc, Reason, NoSwitch,
     Counted, Handled, Going, Tick, NoPass, rows, identity, bounds, history
<1>13. ASSUME Listed PROVE Counted'
  BY <1>13 DEF TypeOK, Tidy, PassRecord, SwitchRecord, PassPc, Reason, NoSwitch,
     Counted, Handled, Going, Listed, Due, NoPass, rows, identity, bounds, history
<1>14. ASSUME ListFails PROVE Counted'
  BY <1>14 DEF TypeOK, Tidy, PassRecord, SwitchRecord, PassPc, Reason, NoSwitch,
     Counted, Handled, Going, ListFails, Fail, NoPass, rows, identity, bounds, history
<1>15. ASSUME PassOver PROVE Counted'
  BY <1>15 DEF TypeOK, Tidy, PassRecord, SwitchRecord, PassPc, Reason, NoSwitch,
     Counted, Handled, Going, PassOver, NoPass, rows, identity, bounds, history
<1>16. ASSUME Turn PROVE Counted'
  <2>1. UNCHANGED <<row, sent, excused>> /\ pass.pc = "turn"
    BY <1>16 DEF Turn, rows, history
  <2>2. ~Going
    BY <2>1 DEF Going, Tidy
  <2>3. pass'.todo \subseteq pass.todo
    <3> PICK m \in First : pass' = CASE m \in Unreadable -> Skip(m)
                    [] m \in blocked \ Unreadable ->
                         [Remove(m, "blocked") EXCEPT !.attempt = attempts[m] + 1]
                    [] OTHER -> [pass EXCEPT !.pc = "marking", !.this = m,
                                             !.attempt = attempts[m] + 1]
      BY <1>16 DEF Turn
    <3>1. pass \in PassRecord
      BY DEF TypeOK
    <3> QED BY <3>1 DEF Skip, Remove, PassRecord
  <2>4. ASSUME NEW m \in Message, Handled(m) PROVE Handled(m)'
    BY <2>1, <2>2, <2>3, <2>4 DEF Handled
  <2> QED BY <2>1, <2>4 DEF Counted
<1>17. ASSUME Postponed PROVE Counted'
  <2> SUFFICES ASSUME NEW m \in Message
               PROVE (/\ Len(sent[m]) <= excused[m] + 1
                      /\ ~Handled(m) => Len(sent[m]) <= excused[m])'
    BY DEF Counted
  <2>1. /\ Len(sent[m]) \in Nat /\ excused[m] \in Nat /\ Len(sent[m]) <= excused[m] + 1
        /\ ~Handled(m) => Len(sent[m]) <= excused[m]
    BY DEF Counted, TypeOK
  <2>2. PICK n \in First : pass' = Skip(n)
    BY <1>17 DEF Postponed
  <2>3. Handled(m) => Handled(m)'
    <3>1. n \in Message /\ ~Going /\ row' = row
      BY <1>17 DEF Postponed, First, Going, Tidy, TypeOK, PassRecord, rows
    <3>2. pass'.todo \subseteq pass.todo
      BY <2>2, <3>1, SkipShape
    <3> QED BY <3>1, <3>2 DEF Handled
  <2>4. sent'[m] = sent[m] /\ excused'[m] = excused[m]
    BY <1>17 DEF Postponed, history
  <2> QED BY <2>1, <2>3, <2>4
<1>18. ASSUME Marked PROVE Counted'
  BY <1>18 DEF Counted, Handled, Going, Marked, rows, identity, bounds, history
<1>19. ASSUME NotMarked PROVE Counted'
  BY <1>19 DEF TypeOK, Tidy, PassRecord, SwitchRecord, PassPc, Reason, NoSwitch,
     Counted, Handled, Going, NotMarked, Skip, Fail, rows, identity, bounds, history
<1>20. ASSUME Sent PROVE Counted'
  <2> SUFFICES ASSUME NEW m \in Message
               PROVE (/\ Len(sent[m]) <= excused[m] + 1
                      /\ ~Handled(m) => Len(sent[m]) <= excused[m])'
    BY DEF Counted
  <2>1. /\ Len(sent[m]) \in Nat /\ excused[m] \in Nat /\ Len(sent[m]) <= excused[m] + 1
        /\ ~Handled(m) => Len(sent[m]) <= excused[m]
    BY DEF Counted, TypeOK
  <2>2. /\ pass.this \in Message /\ pass.this \in pass.todo
        /\ sent[pass.this] \in Seq(Profile) /\ pass.through \in Profile
        /\ ~Going /\ excused' = excused /\ row' = row
        /\ pass'.this = pass.this /\ pass'.todo = pass.todo
    <3>1. pass \in PassRecord /\ pass.this \in Message /\ pass.this \in pass.todo
          /\ sent[pass.this] \in Seq(Profile)
      BY <1>20, InHand DEF Sent, TypeOK
    <3>2. pass.through \in Profile
      BY <1>20, <3>1 DEF Sent, PassRecord
    <3>3. ~Going /\ excused' = excused /\ row' = row
      BY <1>20 DEF Sent, Going, Tidy, rows
    <3>4. pass'.this = pass.this /\ pass'.todo = pass.todo
      BY <1>20, <3>1 DEF Sent, Remove, PassRecord
    <3> QED BY <3>1, <3>2, <3>3, <3>4
  <2>3. CASE m = pass.this
    <3>1. Len(sent[m]) <= excused[m]
      BY <2>1, <2>2, <2>3 DEF Handled
    <3>2. Handled(m)'
      <4>1. pass'.pc = "copying" \/ pass'.why = "sent"
        BY <1>20 DEF Sent, Remove, TypeOK, PassRecord
      <4> QED BY <2>2, <2>3, <4>1 DEF Handled, Going
    <3>3. sent'[m] = Append(sent[m], pass.through)
      BY <1>20, <2>3 DEF Sent, TypeOK
    <3>4. Len(sent'[m]) = Len(sent[m]) + 1
      BY <3>3, <2>2, <2>3, Appended
    <3> QED BY <2>1, <2>2, <3>1, <3>2, <3>4
  <2>4. CASE m # pass.this
    <3>1. sent'[m] = sent[m] /\ (Handled(m) => Handled(m)')
      BY <1>20, <2>2, <2>4 DEF Sent, TypeOK, Handled
    <3> QED BY <2>1, <2>2, <3>1
  <2> QED BY <2>3, <2>4
<1>21. ASSUME NobodyThere PROVE Counted'
  BY <1>21 DEF Counted, Handled, Going, NobodyThere, rows, identity, bounds, history
<1>22. ASSUME Refused PROVE Counted'
  BY <1>22 DEF TypeOK, Tidy, PassRecord, SwitchRecord, PassPc, Reason, NoSwitch,
     Counted, Handled, Going, Refused, Remove, rows, identity, bounds, history
<1>23. ASSUME Unsent PROVE Counted'
  BY <1>23 DEF TypeOK, Tidy, PassRecord, SwitchRecord, PassPc, Reason, NoSwitch,
     Counted, Handled, Going, Unsent, Again, Exhausted, Skip, Remove, rows, identity,
     bounds, history
<1>24. ASSUME Copied PROVE Counted'
  BY <1>24 DEF TypeOK, Tidy, PassRecord, SwitchRecord, PassPc, Reason, NoSwitch,
     Counted, Handled, Going, Copied, Remove, rows, identity, bounds, history
<1>25. ASSUME NotCopied PROVE Counted'
  <2> SUFFICES ASSUME NEW m \in Message
               PROVE (/\ Len(sent[m]) <= excused[m] + 1
                      /\ ~Handled(m) => Len(sent[m]) <= excused[m])'
    BY DEF Counted
  <2>1. /\ Len(sent[m]) \in Nat /\ excused[m] \in Nat /\ Len(sent[m]) <= excused[m] + 1
        /\ ~Handled(m) => Len(sent[m]) <= excused[m]
    BY DEF Counted, TypeOK
  <2>2. /\ pass.this \in Message /\ pass.this \in pass.todo /\ pass.pc = "copying"
        /\ sent' = sent /\ row' = row /\ pass'.todo \subseteq pass.todo
    <3>1. pass \in PassRecord /\ pass.this \in Message /\ pass.this \in pass.todo
      BY <1>25, InHand DEF NotCopied, TypeOK
    <3>2. pass'.todo \subseteq pass.todo
      BY <1>25, <3>1 DEF NotCopied, Again, Exhausted, Skip, Remove, PassRecord
    <3> QED BY <1>25, <3>1, <3>2 DEF NotCopied, rows
  <2>3. CASE m = pass.this
    <3>1. excused'[m] = excused[m] + 1
      BY <1>25, <2>3 DEF NotCopied, TypeOK
    <3> QED BY <2>1, <2>2, <3>1
  <2>4. CASE m # pass.this
    <3>1. excused'[m] = excused[m]
      BY <1>25, <2>2, <2>4 DEF NotCopied, TypeOK
    <3>2. Handled(m) => Handled(m)'
      BY <2>2, <2>4 DEF Handled
    <3> QED BY <2>1, <2>2, <3>1, <3>2
  <2> QED BY <2>3, <2>4
<1>26. ASSUME Removed PROVE Counted'
  BY <1>26 DEF TypeOK, Tidy, PassRecord, SwitchRecord, PassPc, Reason, NoSwitch,
     Counted, Handled, Going, Removed, Skip, rows, identity, bounds, history
<1>27. ASSUME NotRemoved PROVE Counted'
  <2> SUFFICES ASSUME NEW m \in Message
               PROVE (/\ Len(sent[m]) <= excused[m] + 1
                      /\ ~Handled(m) => Len(sent[m]) <= excused[m])'
    BY DEF Counted
  <2>1. /\ Len(sent[m]) \in Nat /\ excused[m] \in Nat /\ Len(sent[m]) <= excused[m] + 1
        /\ ~Handled(m) => Len(sent[m]) <= excused[m]
    BY DEF Counted, TypeOK
  <2>2. /\ pass.this \in Message /\ pass.this \in pass.todo /\ pass.pc = "removing"
        /\ sent' = sent /\ row' = row /\ pass'.todo \subseteq pass.todo
    <3>1. pass \in PassRecord /\ pass.this \in Message /\ pass.this \in pass.todo
      BY <1>27, InHand DEF NotRemoved, TypeOK
    <3>2. pass'.todo \subseteq pass.todo
      BY <1>27, <3>1 DEF NotRemoved, Exhausted, Skip, Remove, PassRecord
    <3> QED BY <1>27, <3>1, <3>2 DEF NotRemoved, rows
  <2>3. CASE m = pass.this /\ pass.why = "sent"
    <3>1. excused'[m] = excused[m] + 1
      BY <1>27, <2>3 DEF NotRemoved, TypeOK
    <3> QED BY <2>1, <2>2, <3>1
  <2>4. CASE ~(m = pass.this /\ pass.why = "sent")
    <3>1. excused'[m] = excused[m]
      BY <1>27, <2>2, <2>4 DEF NotRemoved, TypeOK
    <3>2. Handled(m) => Handled(m)'
      BY <2>2, <2>4 DEF Handled, Going
    <3> QED BY <2>1, <2>2, <3>1, <3>2
  <2> QED BY <2>3, <2>4
<1>28. CASE UNCHANGED vars
  BY <1>28 DEF Counted, Handled, Going, vars, rows, identity, bounds, history
<1> QED BY <1>1, <1>2, <1>3, <1>4, <1>5, <1>6, <1>7, <1>8, <1>9, <1>10,
     <1>11, <1>12, <1>13, <1>14, <1>15, <1>16, <1>17, <1>18, <1>19, <1>20,
     <1>21, <1>22, <1>23, <1>24, <1>25, <1>26, <1>27, <1>28 DEF Next, Switch, Pass

\* Nothing but a switch parts the services from the profile.
LEMMA StepSteady ==
    ASSUME TypeOK, Tidy, Steady, [Next]_vars
    PROVE Steady'
<1> USE ScheduleAssumption DEF ScheduleAssumption, TypeOK, Tidy, PassRecord,
        SwitchRecord, Message, PassPc, Reason, NoSwitch, Steady
<1>1. ASSUME NEW m \in Message, Schedule(m) PROVE Steady'
  BY <1>1 DEF Schedule, rows, identity, bounds, history
<1>2. ASSUME NEW m \in Message, Cancel(m) PROVE Steady'
  BY <1>2 DEF Cancel, rows, identity, bounds, history
<1>3. ASSUME NEW m \in Message, Block(m) PROVE Steady'
  BY <1>3 DEF Block, rows, identity, bounds, history
<1>4. ASSUME TimePasses PROVE Steady'
  BY <1>4 DEF TimePasses, rows, identity, bounds, history
<1>5. ASSUME NEW p \in Profile, SwitchBegins(p) PROVE Steady'
  BY <1>5 DEF SwitchBegins, rows, identity, bounds, history
<1>6. ASSUME SwitchMoves PROVE Steady'
  BY <1>6 DEF SwitchMoves, rows, identity, bounds, history
<1>7. ASSUME SwitchFails PROVE Steady'
  BY <1>7 DEF SwitchFails, Fail, rows, identity, bounds, history
<1>8. ASSUME SwitchDone PROVE Steady'
  BY <1>8 DEF SwitchDone, rows, identity, bounds, history
<1>9. ASSUME Bind PROVE Steady'
  BY <1>9 DEF Bind, rows, identity, bounds, history
<1>10. ASSUME StartScheduler PROVE Steady'
  BY <1>10 DEF StartScheduler, rows, identity, bounds, history
<1>11. ASSUME Kill PROVE Steady'
  BY <1>11 DEF Kill, NoPass, NoSwitch, rows, identity, bounds, history
<1>12. ASSUME Tick PROVE Steady'
  BY <1>12 DEF Tick, NoPass, rows, identity, bounds, history
<1>13. ASSUME Listed PROVE Steady'
  BY <1>13 DEF Listed, Due, NoPass, rows, identity, bounds, history
<1>14. ASSUME ListFails PROVE Steady'
  BY <1>14 DEF ListFails, Fail, NoPass, rows, identity, bounds, history
<1>15. ASSUME PassOver PROVE Steady'
  BY <1>15 DEF PassOver, NoPass, rows, identity, bounds, history
<1>16. ASSUME Turn PROVE Steady'
  BY <1>16 DEF Turn, First, Skip, Remove, rows, identity, bounds, history
<1>17. ASSUME Postponed PROVE Steady'
  BY <1>17 DEF Postponed, First, Skip, Fail, rows, identity, bounds, history
<1>18. ASSUME Marked PROVE Steady'
  BY <1>18 DEF Marked, rows, identity, bounds, history
<1>19. ASSUME NotMarked PROVE Steady'
  BY <1>19 DEF NotMarked, Skip, Fail, rows, identity, bounds, history
<1>20. ASSUME Sent PROVE Steady'
  BY <1>20 DEF Sent, Remove, rows, identity, bounds, history
<1>21. ASSUME NobodyThere PROVE Steady'
  BY <1>21 DEF NobodyThere, rows, identity, bounds, history
<1>22. ASSUME Refused PROVE Steady'
  BY <1>22 DEF Refused, Remove, rows, identity, bounds, history
<1>23. ASSUME Unsent PROVE Steady'
  BY <1>23 DEF Unsent, Again, Exhausted, Skip, Remove, rows, identity, bounds, history
<1>24. ASSUME Copied PROVE Steady'
  BY <1>24 DEF Copied, Remove, rows, identity, bounds, history
<1>25. ASSUME NotCopied PROVE Steady'
  BY <1>25 DEF NotCopied, Again, Exhausted, Skip, Remove, Fail, rows, identity, bounds,
     history
<1>26. ASSUME Removed PROVE Steady'
  BY <1>26 DEF Removed, Skip, rows, identity, bounds, history
<1>27. ASSUME NotRemoved PROVE Steady'
  BY <1>27 DEF NotRemoved, Exhausted, Skip, Remove, Fail, rows, identity, bounds,
     history
<1>28. CASE UNCHANGED vars
  BY <1>28 DEF vars, rows, identity, bounds, history
<1> QED BY <1>1, <1>2, <1>3, <1>4, <1>5, <1>6, <1>7, <1>8, <1>9, <1>10,
     <1>11, <1>12, <1>13, <1>14, <1>15, <1>16, <1>17, <1>18, <1>19, <1>20,
     <1>21, <1>22, <1>23, <1>24, <1>25, <1>26, <1>27, <1>28 DEF Next, Switch, Pass

\* What is about to be removed was sent, or its group was asked for after a switch.
LEMMA StepGrounded ==
    ASSUME TypeOK, Tidy, Steady, Grounded, [Next]_vars
    PROVE Grounded'
<1> USE ScheduleAssumption DEF ScheduleAssumption, TypeOK, Tidy, PassRecord,
        SwitchRecord, Message, PassPc, Reason, NoSwitch, Steady, Grounded, Going
<1>1. ASSUME NEW m \in Message, Schedule(m) PROVE Grounded'
  BY <1>1 DEF Schedule, rows, identity, bounds, history
<1>2. ASSUME NEW m \in Message, Cancel(m) PROVE Grounded'
  BY <1>2 DEF Cancel, rows, identity, bounds, history
<1>3. ASSUME NEW m \in Message, Block(m) PROVE Grounded'
  BY <1>3 DEF Block, rows, identity, bounds, history
<1>4. ASSUME TimePasses PROVE Grounded'
  BY <1>4 DEF TimePasses, rows, identity, bounds, history
<1>5. ASSUME NEW p \in Profile, SwitchBegins(p) PROVE Grounded'
  BY <1>5 DEF SwitchBegins, rows, identity, bounds, history
<1>6. ASSUME SwitchMoves PROVE Grounded'
  BY <1>6 DEF SwitchMoves, rows, identity, bounds, history
<1>7. ASSUME SwitchFails PROVE Grounded'
  BY <1>7 DEF SwitchFails, Fail, rows, identity, bounds, history
<1>8. ASSUME SwitchDone PROVE Grounded'
  BY <1>8 DEF SwitchDone, rows, identity, bounds, history
<1>9. ASSUME Bind PROVE Grounded'
  BY <1>9 DEF Bind, rows, identity, bounds, history
<1>10. ASSUME StartScheduler PROVE Grounded'
  BY <1>10 DEF StartScheduler, rows, identity, bounds, history
<1>11. ASSUME Kill PROVE Grounded'
  BY <1>11 DEF Kill, NoPass, NoSwitch, rows, identity, bounds, history
<1>12. ASSUME Tick PROVE Grounded'
  BY <1>12 DEF Tick, NoPass, rows, identity, bounds, history
<1>13. ASSUME Listed PROVE Grounded'
  BY <1>13 DEF Listed, Due, NoPass, rows, identity, bounds, history
<1>14. ASSUME ListFails PROVE Grounded'
  BY <1>14 DEF ListFails, Fail, NoPass, rows, identity, bounds, history
<1>15. ASSUME PassOver PROVE Grounded'
  BY <1>15 DEF PassOver, NoPass, rows, identity, bounds, history
<1>16. ASSUME Turn PROVE Grounded'
  BY <1>16 DEF Turn, First, Skip, Remove, rows, identity, bounds, history
<1>17. ASSUME Postponed PROVE Grounded'
  BY <1>17 DEF Postponed, First, Skip, Fail, rows, identity, bounds, history
<1>18. ASSUME Marked PROVE Grounded'
  BY <1>18 DEF Marked, rows, identity, bounds, history
<1>19. ASSUME NotMarked PROVE Grounded'
  BY <1>19 DEF NotMarked, Skip, Fail, rows, identity, bounds, history
<1>20. ASSUME Sent PROVE Grounded'
  <2>1. /\ pass.this \in Message /\ sent[pass.this] \in Seq(Profile)
        /\ pass.through \in Profile /\ pass'.this = pass.this
    BY <1>20, InHand DEF Sent, Remove
  <2>2. sent'[pass.this] = Append(sent[pass.this], pass.through)
    BY <1>20, <2>1 DEF Sent, TypeOK
  <2>3. Len(sent'[pass.this]) = Len(sent[pass.this]) + 1 /\ Len(sent[pass.this]) \in Nat
    BY <2>1, <2>2, Appended
  <2>4. sent'[pass.this] # <<>>
    BY <2>3
  <2> QED BY <2>1, <2>4 DEF Grounded
<1>21. ASSUME NobodyThere PROVE Grounded'
  BY <1>21 DEF NobodyThere, rows, identity, bounds, history
<1>22. ASSUME Refused PROVE Grounded'
  BY <1>22 DEF Refused, Remove, rows, identity, bounds, history
<1>23. ASSUME Unsent PROVE Grounded'
  BY <1>23 DEF Unsent, Again, Exhausted, Skip, Remove, rows, identity, bounds, history
<1>24. ASSUME Copied PROVE Grounded'
  BY <1>24 DEF Copied, Remove, rows, identity, bounds, history
<1>25. ASSUME NotCopied PROVE Grounded'
  BY <1>25 DEF NotCopied, Again, Exhausted, Skip, Remove, Fail, rows, identity, bounds,
     history
<1>26. ASSUME Removed PROVE Grounded'
  BY <1>26 DEF Removed, Skip, rows, identity, bounds, history
<1>27. ASSUME NotRemoved PROVE Grounded'
  BY <1>27 DEF NotRemoved, Exhausted, Skip, Remove, Fail, rows, identity, bounds,
     history
<1>28. CASE UNCHANGED vars
  BY <1>28 DEF vars, rows, identity, bounds, history
<1> QED BY <1>1, <1>2, <1>3, <1>4, <1>5, <1>6, <1>7, <1>8, <1>9, <1>10,
     <1>11, <1>12, <1>13, <1>14, <1>15, <1>16, <1>17, <1>18, <1>19, <1>20,
     <1>21, <1>22, <1>23, <1>24, <1>25, <1>26, <1>27, <1>28 DEF Next, Switch, Pass

\* The services are disposed of before the number changes, and bound after it.
LEMMA StepLoyal ==
    ASSUME TypeOK, Tidy, Loyal, [Next]_vars
    PROVE Loyal'
<1> USE ScheduleAssumption DEF ScheduleAssumption, TypeOK, Tidy, PassRecord,
        SwitchRecord, Message, PassPc, Reason, NoSwitch, Loyal
<1>1. ASSUME NEW m \in Message, Schedule(m) PROVE Loyal'
  BY <1>1 DEF Schedule, rows, identity, bounds, history
<1>2. ASSUME NEW m \in Message, Cancel(m) PROVE Loyal'
  BY <1>2 DEF Cancel, rows, identity, bounds, history
<1>3. ASSUME NEW m \in Message, Block(m) PROVE Loyal'
  BY <1>3 DEF Block, rows, identity, bounds, history
<1>4. ASSUME TimePasses PROVE Loyal'
  BY <1>4 DEF TimePasses, rows, identity, bounds, history
<1>5. ASSUME NEW p \in Profile, SwitchBegins(p) PROVE Loyal'
  BY <1>5 DEF SwitchBegins, rows, identity, bounds, history
<1>6. ASSUME SwitchMoves PROVE Loyal'
  BY <1>6 DEF SwitchMoves, rows, identity, bounds, history
<1>7. ASSUME SwitchFails PROVE Loyal'
  BY <1>7 DEF SwitchFails, Fail, rows, identity, bounds, history
<1>8. ASSUME SwitchDone PROVE Loyal'
  BY <1>8 DEF SwitchDone, rows, identity, bounds, history
<1>9. ASSUME Bind PROVE Loyal'
  BY <1>9 DEF Bind, rows, identity, bounds, history
<1>10. ASSUME StartScheduler PROVE Loyal'
  BY <1>10 DEF StartScheduler, rows, identity, bounds, history
<1>11. ASSUME Kill PROVE Loyal'
  BY <1>11 DEF Kill, NoPass, NoSwitch, rows, identity, bounds, history
<1>12. ASSUME Tick PROVE Loyal'
  BY <1>12 DEF Tick, NoPass, rows, identity, bounds, history
<1>13. ASSUME Listed PROVE Loyal'
  BY <1>13 DEF Listed, Due, NoPass, rows, identity, bounds, history
<1>14. ASSUME ListFails PROVE Loyal'
  BY <1>14 DEF ListFails, Fail, NoPass, rows, identity, bounds, history
<1>15. ASSUME PassOver PROVE Loyal'
  BY <1>15 DEF PassOver, NoPass, rows, identity, bounds, history
<1>16. ASSUME Turn PROVE Loyal'
  BY <1>16 DEF Turn, First, Skip, Remove, rows, identity, bounds, history
<1>17. ASSUME Postponed PROVE Loyal'
  BY <1>17 DEF Postponed, First, Skip, Fail, rows, identity, bounds, history
<1>18. ASSUME Marked PROVE Loyal'
  BY <1>18 DEF Marked, rows, identity, bounds, history
<1>19. ASSUME NotMarked PROVE Loyal'
  BY <1>19 DEF NotMarked, Skip, Fail, rows, identity, bounds, history
<1>20. ASSUME Sent PROVE Loyal'
  BY <1>20 DEF Sent, Remove, rows, identity, bounds, history
<1>21. ASSUME NobodyThere PROVE Loyal'
  BY <1>21 DEF NobodyThere, rows, identity, bounds, history
<1>22. ASSUME Refused PROVE Loyal'
  BY <1>22 DEF Refused, Remove, rows, identity, bounds, history
<1>23. ASSUME Unsent PROVE Loyal'
  BY <1>23 DEF Unsent, Again, Exhausted, Skip, Remove, rows, identity, bounds, history
<1>24. ASSUME Copied PROVE Loyal'
  BY <1>24 DEF Copied, Remove, rows, identity, bounds, history
<1>25. ASSUME NotCopied PROVE Loyal'
  BY <1>25 DEF NotCopied, Again, Exhausted, Skip, Remove, Fail, rows, identity, bounds,
     history
<1>26. ASSUME Removed PROVE Loyal'
  BY <1>26 DEF Removed, Skip, rows, identity, bounds, history
<1>27. ASSUME NotRemoved PROVE Loyal'
  BY <1>27 DEF NotRemoved, Exhausted, Skip, Remove, Fail, rows, identity, bounds,
     history
<1>28. CASE UNCHANGED vars
  BY <1>28 DEF vars, rows, identity, bounds, history
<1> QED BY <1>1, <1>2, <1>3, <1>4, <1>5, <1>6, <1>7, <1>8, <1>9, <1>10,
     <1>11, <1>12, <1>13, <1>14, <1>15, <1>16, <1>17, <1>18, <1>19, <1>20,
     <1>21, <1>22, <1>23, <1>24, <1>25, <1>26, <1>27, <1>28 DEF Next, Switch, Pass

\* Rows go by Cancel, which settles them, and by Removed.
LEMMA StepVanishes ==
    ASSUME TypeOK, Tidy, Grounded, NothingVanishes, [Next]_vars
    PROVE NothingVanishes'
<1> USE ScheduleAssumption DEF ScheduleAssumption, TypeOK, Tidy, PassRecord,
        SwitchRecord, Message, PassPc, Reason, NoSwitch, Grounded, Going,
        NothingVanishes
<1>1. ASSUME NEW m \in Message, Schedule(m) PROVE NothingVanishes'
  BY <1>1 DEF Schedule, rows, identity, bounds, history
<1>2. ASSUME NEW m \in Message, Cancel(m) PROVE NothingVanishes'
  BY <1>2 DEF Cancel, rows, identity, bounds, history
<1>3. ASSUME NEW m \in Message, Block(m) PROVE NothingVanishes'
  BY <1>3 DEF Block, rows, identity, bounds, history
<1>4. ASSUME TimePasses PROVE NothingVanishes'
  BY <1>4 DEF TimePasses, rows, identity, bounds, history
<1>5. ASSUME NEW p \in Profile, SwitchBegins(p) PROVE NothingVanishes'
  BY <1>5 DEF SwitchBegins, rows, identity, bounds, history
<1>6. ASSUME SwitchMoves PROVE NothingVanishes'
  BY <1>6 DEF SwitchMoves, rows, identity, bounds, history
<1>7. ASSUME SwitchFails PROVE NothingVanishes'
  BY <1>7 DEF SwitchFails, Fail, rows, identity, bounds, history
<1>8. ASSUME SwitchDone PROVE NothingVanishes'
  BY <1>8 DEF SwitchDone, rows, identity, bounds, history
<1>9. ASSUME Bind PROVE NothingVanishes'
  BY <1>9 DEF Bind, rows, identity, bounds, history
<1>10. ASSUME StartScheduler PROVE NothingVanishes'
  BY <1>10 DEF StartScheduler, rows, identity, bounds, history
<1>11. ASSUME Kill PROVE NothingVanishes'
  BY <1>11 DEF Kill, NoPass, NoSwitch, rows, identity, bounds, history
<1>12. ASSUME Tick PROVE NothingVanishes'
  BY <1>12 DEF Tick, NoPass, rows, identity, bounds, history
<1>13. ASSUME Listed PROVE NothingVanishes'
  BY <1>13 DEF Listed, Due, NoPass, rows, identity, bounds, history
<1>14. ASSUME ListFails PROVE NothingVanishes'
  BY <1>14 DEF ListFails, Fail, NoPass, rows, identity, bounds, history
<1>15. ASSUME PassOver PROVE NothingVanishes'
  BY <1>15 DEF PassOver, NoPass, rows, identity, bounds, history
<1>16. ASSUME Turn PROVE NothingVanishes'
  BY <1>16 DEF Turn, First, Skip, Remove, rows, identity, bounds, history
<1>17. ASSUME Postponed PROVE NothingVanishes'
  BY <1>17 DEF Postponed, First, Skip, Fail, rows, identity, bounds, history
<1>18. ASSUME Marked PROVE NothingVanishes'
  BY <1>18 DEF Marked, rows, identity, bounds, history
<1>19. ASSUME NotMarked PROVE NothingVanishes'
  BY <1>19 DEF NotMarked, Skip, Fail, rows, identity, bounds, history
<1>20. ASSUME Sent PROVE NothingVanishes'
  <2>1. pass.this \in Message /\ sent[pass.this] \in Seq(Profile) /\ pass.through \in Profile
    BY <1>20, InHand DEF Sent
  <2>2. \A m \in Message : sent[m] # <<>> => sent'[m] # <<>>
    <3> SUFFICES ASSUME NEW m \in Message, sent[m] # <<>> PROVE sent'[m] # <<>>
      OBVIOUS
    <3>1. CASE m = pass.this
      <4>1. sent'[m] = Append(sent[m], pass.through)
        BY <1>20, <2>1, <3>1 DEF Sent, TypeOK
      <4>2. Len(sent'[m]) = Len(sent[m]) + 1 /\ Len(sent[m]) \in Nat
        BY <2>1, <3>1, <4>1, Appended
      <4> QED BY <4>2
    <3>2. CASE m # pass.this
      BY <1>20, <3>2 DEF Sent, TypeOK
    <3> QED BY <3>1, <3>2
  <2> QED BY <1>20, <2>2 DEF Sent, rows, identity, bounds, history
<1>21. ASSUME NobodyThere PROVE NothingVanishes'
  BY <1>21 DEF NobodyThere, rows, identity, bounds, history
<1>22. ASSUME Refused PROVE NothingVanishes'
  BY <1>22 DEF Refused, Remove, rows, identity, bounds, history
<1>23. ASSUME Unsent PROVE NothingVanishes'
  BY <1>23 DEF Unsent, Again, Exhausted, Skip, Remove, rows, identity, bounds, history
<1>24. ASSUME Copied PROVE NothingVanishes'
  BY <1>24 DEF Copied, Remove, rows, identity, bounds, history
<1>25. ASSUME NotCopied PROVE NothingVanishes'
  BY <1>25 DEF NotCopied, Again, Exhausted, Skip, Remove, Fail, rows, identity, bounds,
     history
<1>26. ASSUME Removed PROVE NothingVanishes'
  <2>1. pass.this \in Message /\ sent' = sent /\ switches' = switches
    BY <1>26, InHand DEF Removed, bounds
  <2>2. row' = [row EXCEPT ![pass.this] = "gone"]
    BY <1>26 DEF Removed
  <2>3. settled \subseteq settled' /\ (pass.why # "sent" => pass.this \in settled')
    BY <1>26 DEF Removed
  <2> SUFFICES ASSUME NEW m \in Message, row'[m] = "gone"
               PROVE sent[m] # <<>> \/ m \in settled' \/ (m \in Group /\ switches > 0)
    BY <2>1
  <2>4. CASE m = pass.this
    <3>1. CASE pass.why = "sent"
      BY <2>4, <3>1
    <3> QED BY <2>3, <2>4, <3>1
  <2>5. CASE m # pass.this
    <3>1. row[m] = "gone"
      BY <2>2, <2>5
    <3> QED BY <2>3, <3>1
  <2> QED BY <2>4, <2>5
<1>27. ASSUME NotRemoved PROVE NothingVanishes'
  BY <1>27 DEF NotRemoved, Exhausted, Skip, Remove, Fail, rows, identity, bounds,
     history
<1>28. CASE UNCHANGED vars
  BY <1>28 DEF vars, rows, identity, bounds, history
<1> QED BY <1>1, <1>2, <1>3, <1>4, <1>5, <1>6, <1>7, <1>8, <1>9, <1>10,
     <1>11, <1>12, <1>13, <1>14, <1>15, <1>16, <1>17, <1>18, <1>19, <1>20,
     <1>21, <1>22, <1>23, <1>24, <1>25, <1>26, <1>27, <1>28 DEF Next, Switch, Pass

\* Only Sent sends, with the service its pass was begun with.
LEMMA StepOwner ==
    ASSUME TypeOK, Tidy, Loyal, SentByOwner, [Next]_vars
    PROVE SentByOwner'
<1> USE ScheduleAssumption DEF ScheduleAssumption, TypeOK, Tidy, PassRecord,
        SwitchRecord, Message, PassPc, Reason, NoSwitch, Loyal, SentByOwner
<1>1. ASSUME NEW m \in Message, Schedule(m) PROVE SentByOwner'
  BY <1>1 DEF Schedule, rows, identity, bounds, history
<1>2. ASSUME NEW m \in Message, Cancel(m) PROVE SentByOwner'
  BY <1>2 DEF Cancel, rows, identity, bounds, history
<1>3. ASSUME NEW m \in Message, Block(m) PROVE SentByOwner'
  BY <1>3 DEF Block, rows, identity, bounds, history
<1>4. ASSUME TimePasses PROVE SentByOwner'
  BY <1>4 DEF TimePasses, rows, identity, bounds, history
<1>5. ASSUME NEW p \in Profile, SwitchBegins(p) PROVE SentByOwner'
  BY <1>5 DEF SwitchBegins, rows, identity, bounds, history
<1>6. ASSUME SwitchMoves PROVE SentByOwner'
  BY <1>6 DEF SwitchMoves, rows, identity, bounds, history
<1>7. ASSUME SwitchFails PROVE SentByOwner'
  BY <1>7 DEF SwitchFails, Fail, rows, identity, bounds, history
<1>8. ASSUME SwitchDone PROVE SentByOwner'
  BY <1>8 DEF SwitchDone, rows, identity, bounds, history
<1>9. ASSUME Bind PROVE SentByOwner'
  BY <1>9 DEF Bind, rows, identity, bounds, history
<1>10. ASSUME StartScheduler PROVE SentByOwner'
  BY <1>10 DEF StartScheduler, rows, identity, bounds, history
<1>11. ASSUME Kill PROVE SentByOwner'
  BY <1>11 DEF Kill, NoPass, NoSwitch, rows, identity, bounds, history
<1>12. ASSUME Tick PROVE SentByOwner'
  BY <1>12 DEF Tick, NoPass, rows, identity, bounds, history
<1>13. ASSUME Listed PROVE SentByOwner'
  BY <1>13 DEF Listed, Due, NoPass, rows, identity, bounds, history
<1>14. ASSUME ListFails PROVE SentByOwner'
  BY <1>14 DEF ListFails, Fail, NoPass, rows, identity, bounds, history
<1>15. ASSUME PassOver PROVE SentByOwner'
  BY <1>15 DEF PassOver, NoPass, rows, identity, bounds, history
<1>16. ASSUME Turn PROVE SentByOwner'
  BY <1>16 DEF Turn, First, Skip, Remove, rows, identity, bounds, history
<1>17. ASSUME Postponed PROVE SentByOwner'
  BY <1>17 DEF Postponed, First, Skip, Fail, rows, identity, bounds, history
<1>18. ASSUME Marked PROVE SentByOwner'
  BY <1>18 DEF Marked, rows, identity, bounds, history
<1>19. ASSUME NotMarked PROVE SentByOwner'
  BY <1>19 DEF NotMarked, Skip, Fail, rows, identity, bounds, history
<1>20. ASSUME Sent PROVE SentByOwner'
  <2>1. /\ pass.this \in Message /\ sent[pass.this] \in Seq(Profile)
        /\ pass.through \in Profile /\ hasty' = hasty
    BY <1>20, InHand DEF Sent
  <2>2. ~hasty /\ pass.this \notin Group => pass.through = Owner[pass.this]
    BY <1>20, InHand DEF Sent
  <2>3. sent' = [sent EXCEPT ![pass.this] = Append(sent[pass.this], pass.through)]
    BY <1>20 DEF Sent
  <2> SUFFICES ASSUME ~hasty, NEW m \in Message \ Group, NEW i \in DOMAIN sent'[m]
               PROVE sent'[m][i] = Owner[m]
    BY <2>1
  <2>4. CASE m = pass.this
    <3>1. sent'[m] = Append(sent[m], pass.through)
      BY <2>1, <2>3, <2>4 DEF TypeOK
    <3>2. sent'[m][i] = pass.through \/ (i \in DOMAIN sent[m] /\ sent'[m][i] = sent[m][i])
      BY <2>1, <2>4, <3>1, Appended
    <3> QED BY <2>1, <2>2, <2>4, <3>2 DEF SentByOwner
  <2>5. CASE m # pass.this
    <3>1. sent'[m] = sent[m]
      BY <2>3, <2>5 DEF TypeOK
    <3> QED BY <2>1, <3>1 DEF SentByOwner
  <2> QED BY <2>4, <2>5
<1>21. ASSUME NobodyThere PROVE SentByOwner'
  BY <1>21 DEF NobodyThere, rows, identity, bounds, history
<1>22. ASSUME Refused PROVE SentByOwner'
  BY <1>22 DEF Refused, Remove, rows, identity, bounds, history
<1>23. ASSUME Unsent PROVE SentByOwner'
  BY <1>23 DEF Unsent, Again, Exhausted, Skip, Remove, rows, identity, bounds, history
<1>24. ASSUME Copied PROVE SentByOwner'
  BY <1>24 DEF Copied, Remove, rows, identity, bounds, history
<1>25. ASSUME NotCopied PROVE SentByOwner'
  BY <1>25 DEF NotCopied, Again, Exhausted, Skip, Remove, Fail, rows, identity, bounds,
     history
<1>26. ASSUME Removed PROVE SentByOwner'
  BY <1>26 DEF Removed, Skip, rows, identity, bounds, history
<1>27. ASSUME NotRemoved PROVE SentByOwner'
  BY <1>27 DEF NotRemoved, Exhausted, Skip, Remove, Fail, rows, identity, bounds,
     history
<1>28. CASE UNCHANGED vars
  BY <1>28 DEF vars, rows, identity, bounds, history
<1> QED BY <1>1, <1>2, <1>3, <1>4, <1>5, <1>6, <1>7, <1>8, <1>9, <1>10,
     <1>11, <1>12, <1>13, <1>14, <1>15, <1>16, <1>17, <1>18, <1>19, <1>20,
     <1>21, <1>22, <1>23, <1>24, <1>25, <1>26, <1>27, <1>28 DEF Next, Switch, Pass

\* The device starts with no services and no pass.
LEMMA InitIInv == Init => IInv
<1> SUFFICES ASSUME Init PROVE IInv
  OBVIOUS
<1> USE ScheduleAssumption DEF ScheduleAssumption, Init, Message
<1>1. TypeOK
  <2>1. switch \in SwitchRecord
    BY DEF NoSwitch, SwitchRecord
  <2>2. pass \in PassRecord /\ pass.pc = "idle"
    BY NoPassShape DEF NoPass
  <2>3. sent \in [Message -> Seq(Profile)]
    OBVIOUS
  <2>4. row \in [Message -> {"new", "stored", "gone"}] /\ attempts \in [Message -> Nat]
        /\ excused \in [Message -> Nat]
    OBVIOUS
  <2>5. /\ now \in 0..Messages /\ switches \in 0..MaxSwitches
        /\ kills \in 0..MaxKills /\ failures \in 0..MaxFailures
    OBVIOUS
  <2> QED BY <2>1, <2>2, <2>3, <2>4, <2>5 DEF TypeOK
<1>2. Tidy /\ Steady /\ Loyal
  BY DEF Tidy, Steady, Loyal, NoPass, NoSwitch
<1>3. Counted /\ NothingVanishes /\ SentByOwner
  BY DEF Counted, NothingVanishes, SentByOwner
<1>4. Grounded
  BY DEF Grounded, Going, NoPass
<1> QED BY <1>1, <1>2, <1>3, <1>4 DEF IInv

\* Each part holds by those it rests on.
LEMMA StepIInv == IInv /\ [Next]_vars => IInv'
BY StepTypes, StepTidy, StepCounted, StepSteady, StepGrounded, StepLoyal, StepVanishes,
   StepOwner DEF IInv

\* The invariant all of the properties follow from.
THEOREM ScheduleInvariance == Spec => []IInv
BY InitIInv, StepIInv, PTL DEF Spec

\* The variables have their types.
THEOREM TypeCorrect == Spec => []TypeOK
<1>1. IInv => TypeOK
  BY DEF IInv
<1> QED BY <1>1, ScheduleInvariance, PTL

\* A message goes out twice only if a fault kept its row after it was sent: the
\* loop of flushDueOnce (scheduledMessages.ts) repeats nothing by itself.
THEOREM RepeatsHaveACause == Spec => []RepeatNeedsFault
<1>1. IInv => RepeatNeedsFault
  BY DEF IInv, Counted, RepeatNeedsFault
<1> QED BY <1>1, ScheduleInvariance, PTL

\* No row of scheduled_messages goes for nothing.
THEOREM RowsGoForAReason == Spec => []NothingVanishes
<1>1. IInv => NothingVanishes
  BY DEF IInv
<1> QED BY <1>1, ScheduleInvariance, PTL

\* Under the key of the profile that wrote it, whatever profiles are switched to.
THEOREM OwnersSend == Spec => []SentByOwner
<1>1. IInv => SentByOwner
  BY DEF IInv
<1> QED BY <1>1, ScheduleInvariance, PTL
============================================================================
