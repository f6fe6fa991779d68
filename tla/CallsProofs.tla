------------------------------ MODULE CallsProofs ------------------------------
(***************************************************************************)
(* Theorems about Calls, for any number of phones, calls, presses and      *)
(* faults: types, the log of the calls, the microphone, and the farewell.  *)
(***************************************************************************)
EXTENDS Calls, SequenceTheorems, TLAPS

\* The types, and what is on its way.
Types ==
    /\ phone \in [Phone -> PhoneState]
    /\ from \in [Call -> 0..Phones] /\ to \in [Call -> 0..Phones]
    /\ stage \in [End -> Stage]
    /\ applying \subseteq Call /\ yielded \subseteq Call
    /\ net \in [Phone \X Phone -> Seq(Message)]
    /\ live \subseteq End /\ had \subseteq Phone \X Call
    /\ lines \in [Phone \X Call -> Nat] /\ overtaken \in BOOLEAN
    /\ losses \in Nat /\ kills \in Nat /\ losses + kills <= MaxFaults

\* A call has two different phones from its dialling on, and nothing before.
Dialled(c) == from[c] \in Phone /\ to[c] \in Phone /\ from[c] # to[c]
CallsDialled ==
    \A c \in Call :
        \/ Dialled(c)
        \/ from[c] = 0 /\ to[c] = 0 /\ \A k \in Try : stage[<<c, k>>] = "unused"

\* The phone is one of the two ends of its call.
Calling(p, r) == from[r.id] = p /\ to[r.id] = r.peer /\ r.state # "incoming"
Called(p, r) == to[r.id] = p /\ from[r.id] = r.peer /\ r.state # "outgoing"

\* What a phone keeps is of the call it has, or it keeps nothing.
InUse(r) == r.state \in {"outgoing", "incoming", "connected"}
Keeps(p, r) ==
    /\ InUse(r) => /\ r.id \in Call /\ Dialled(r.id)
                   /\ Calling(p, r) \/ Called(p, r)
    /\ ~InUse(r) => r.id = 0 /\ r.mic = None /\ r.offered = 0
    /\ r.reset => r.state = "ended"
    /\ r.offered # 0 => r.offered = r.id /\ from[r.id] = p
    /\ r.mic # None => /\ r.mic[1] = r.id /\ EndOf(p, r.mic)
                       /\ stage[r.mic] \notin {"unused", "ready", "media"}
PhonesKeep == \A p \in Phone : Keeps(p, phone[p])

\* A message is of a call between its two phones.
Offering(m, p, q) == from[m.id] = p /\ to[m.id] = q /\ m.kind \in {"offer", "hangup"}
Replying(m, p, q) == to[m.id] = p /\ from[m.id] = q /\ m.kind # "offer"
Between(m, p, q) == Dialled(m.id) /\ (Offering(m, p, q) \/ Replying(m, p, q))
MessagesBetween ==
    \A p, q \in Phone : \A i \in 1..Len(net[<<p, q>>]) : Between(net[<<p, q>>][i], p, q)

\* The record of the calls: who had one, and who has yielded one.
HadByEnds ==
    /\ \A pc \in had : Dialled(pc[2]) /\ pc[1] \in {from[pc[2]], to[pc[2]]}
    /\ \A pc \in had : pc[1] = to[pc[2]] => pc[2] \in phone[pc[1]].seen
    /\ \A c \in Call : stage[<<c, 0>>] \in {"unused", "ready"} =>
          <<from[c], c>> \notin had /\ c \notin yielded
    /\ \A p \in Phone : Busy(p) =>
          /\ <<p, phone[p].id>> \in had
          /\ ~(phone[p].id \in yielded /\ from[phone[p].id] = p)
    /\ \A pc \in Phone \X Call : pc \notin had => lines[pc] = 0

\* The callee of c has heard of it, and has it no more.
Refused(c) == c \in phone[to[c]].seen /\ phone[to[c]].id # c
\* The caller of c is in it, or gave it up for another.
Abides(c) == c \in yielded \/ (Busy(from[c]) /\ phone[from[c]].id = c)
Farewell(c) == [kind |-> "hangup", id |-> c]

\* Who says that the call is over has left it for good.
Refusals ==
    \A p, q \in Phone : \A i \in 1..Len(net[<<q, p>>]) :
        Replying(net[<<q, p>>][i], q, p) /\ net[<<q, p>>][i].kind # "answer"
            => Refused(net[<<q, p>>][i].id)

\* An offer that may still ring has its caller behind it, or its farewell.
Fine == {c \in Call : Dialled(c) /\ (Abides(c) \/ c \in phone[to[c]].seen)}
Backed(s, cs) ==
    \A i \in 1..Len(s) : s[i].kind = "offer" =>
        s[i].id \in cs \/ \E k \in (i + 1)..Len(s) : s[k] = Farewell(s[i].id)
Offers == \A p, q \in Phone : Backed(net[<<p, q>>], Fine)

\* So has a call that rings.
Contains(s, m) == \E k \in 1..Len(s) : s[k] = m
Rings ==
    \A q \in Phone : phone[q].state = "incoming" =>
        \/ Abides(phone[q].id)
        \/ Contains(net[<<phone[q].peer, q>>], Farewell(phone[q].id))
Faithful == Refusals /\ Offers /\ Rings

IInv ==
    /\ Types /\ CallsDialled /\ PhonesKeep /\ MessagesBetween
    /\ HadByEnds /\ RecordedOnce
    /\ MicOff
    /\ losses = 0 /\ kills = 0 => Faithful

-----------------------------------------------------------------------------
(* Types.                                                                  *)

\* The end of a call, for the phone.
LEMMA CleanedTyped ==
    ASSUME Types, NEW p \in Phone
    PROVE LET r == phone[p]
              s == [Cleaned(r) EXCEPT !.state = "ended", !.reset = TRUE]
          IN  /\ Cleaned(r) \in PhoneState /\ s \in PhoneState
              /\ \A x \in {Cleaned(r), s} :
                    /\ x.id = 0 /\ x.mic = None /\ x.offered = 0 /\ x.seen = r.seen
              /\ Cleaned(r).state = r.state /\ Cleaned(r).reset = r.reset
              /\ s.state = "ended"
              /\ Cleaned(r).peer = r.peer /\ s.peer = r.peer
<1> DEFINE r == phone[p]
           d == Cleaned(r)
           s == [d EXCEPT !.state = "ended", !.reset = TRUE]
<1>1. r \in PhoneState
  BY DEF Types
<1> HIDE DEF r
<1>2. 0 \in 0..MaxCalls /\ None \in End \cup {None}
  BY CallsAssumption
<1>3. d \in PhoneState
  BY <1>1, <1>2 DEF PhoneState, Cleaned
<1>4. /\ d.id = 0 /\ d.mic = None /\ d.offered = 0 /\ d.seen = r.seen
      /\ d.state = r.state /\ d.reset = r.reset /\ d.peer = r.peer
  BY <1>1 DEF PhoneState, Cleaned
<1> HIDE DEF d
<1>5. s \in PhoneState
  BY <1>3 DEF PhoneState
<1>6. s.state = "ended" /\ s.id = d.id /\ s.mic = d.mic /\ s.offered = d.offered
      /\ s.seen = d.seen /\ s.peer = d.peer
  BY <1>3 DEF PhoneState
<1> HIDE DEF s
<1> SUFFICES /\ d \in PhoneState /\ s \in PhoneState
             /\ \A x \in {d, s} :
                   x.id = 0 /\ x.mic = None /\ x.offered = 0 /\ x.seen = r.seen
             /\ d.state = r.state /\ d.reset = r.reset
             /\ s.state = "ended"
             /\ d.peer = r.peer /\ s.peer = r.peer
  BY DEF d, s, r
<1> QED BY <1>3, <1>4, <1>5, <1>6

\* An end that is being set up is one of a dialled call.
LEMMA StageDialled ==
    ASSUME CallsDialled, NEW c \in Call, NEW k \in Try, stage[<<c, k>>] # "unused"
    PROVE Dialled(c)
BY DEF CallsDialled

\* What a message says of its call.
LEMMA ArrivalTyped ==
    ASSUME Types, MessagesBetween, NEW p \in Phone, NEW q \in Phone, net[<<q, p>>] # <<>>
    PROVE /\ Head(net[<<q, p>>]) \in Message /\ Id(p, q) \in Call
          /\ Between(Head(net[<<q, p>>]), q, p)
          /\ Head(net[<<q, p>>]) = net[<<q, p>>][1] /\ 1 \in 1..Len(net[<<q, p>>])
          /\ Tail(net[<<q, p>>]) \in Seq(Message)
<1>1. net[<<q, p>>] \in Seq(Message)
  BY DEF Types
<1>2. /\ Head(net[<<q, p>>]) \in Message /\ Tail(net[<<q, p>>]) \in Seq(Message)
      /\ Head(net[<<q, p>>]) = net[<<q, p>>][1] /\ 1 \in 1..Len(net[<<q, p>>])
  BY <1>1, HeadTailProperties, EmptySeq
<1> QED BY <1>2 DEF Message, Id, MessagesBetween

\* What is left of a queue, and what is put behind it.
LEMMA ReceivedTyped ==
    ASSUME Types, NEW p \in Phone, NEW q \in Phone, net[<<q, p>>] # <<>>
    PROVE Received(p, q) \in [Phone \X Phone -> Seq(Message)]
<1>1. Tail(net[<<q, p>>]) \in Seq(Message)
  BY HeadTailProperties DEF Types
<1> QED BY <1>1 DEF Types, Received

\* A message put behind a queue.
LEMMA PostedTyped ==
    ASSUME NEW n \in [Phone \X Phone -> Seq(Message)], NEW p \in Phone, NEW q \in Phone,
           NEW kind \in {"offer", "answer", "declined", "busy", "hangup"}, NEW c \in Call
    PROVE Posted(n, p, q, kind, c) \in [Phone \X Phone -> Seq(Message)]
<1> DEFINE m == [kind |-> kind, id |-> c]
<1>1. m \in Message
  BY DEF Message
<1> HIDE DEF m
<1>2. Append(n[<<p, q>>], m) \in Seq(Message)
  BY <1>1, AppendProperties
<1> QED BY <1>2 DEF Posted, m

\* What a phone in use keeps.
LEMMA UseKeeps ==
    ASSUME Types, PhonesKeep, NEW p \in Phone, Busy(p)
    PROVE /\ phone[p].id \in Call /\ phone[p].peer \in Phone \ {p}
          /\ Dialled(phone[p].id) /\ InUse(phone[p])
          /\ Calling(p, phone[p]) \/ Called(p, phone[p])
          /\ phone[p] \in PhoneState
<1>1. InUse(phone[p]) /\ phone[p] \in PhoneState
  BY DEF Busy, InUse, Types
<1> QED BY <1>1 DEF PhonesKeep, Keeps, Dialled, Calling, Called

\* What the other phone of a call is told is a message.
LEMMA TellTyped ==
    ASSUME Types, PhonesKeep, NEW p \in Phone, Tell(p)
    PROVE net' \in [Phone \X Phone -> Seq(Message)]
<1>1. CASE Busy(p)
  <2>1. phone[p].id \in Call /\ phone[p].peer \in Phone
    BY <1>1, UseKeeps
  <2>2. (IF phone[p].state = "incoming" THEN "declined" ELSE "hangup")
           \in {"offer", "answer", "declined", "busy", "hangup"}
    OBVIOUS
  <2>3. net \in [Phone \X Phone -> Seq(Message)]
    BY DEF Types
  <2> QED BY <1>1, <2>1, <2>2, <2>3, PostedTyped DEF Tell
<1>2. CASE ~Busy(p)
  BY <1>2 DEF Tell, Types
<1> QED BY <1>1, <1>2

\* Hanging up leaves a phone, the microphones and the log typed.
LEMMA HangUpTyped ==
    ASSUME Types, PhonesKeep, NEW p \in Phone, HangUp(p)
    PROVE /\ phone' \in [Phone -> PhoneState] /\ live' \subseteq End
          /\ lines' \in [Phone \X Call -> Nat]
<1>1. phone' \in [Phone -> PhoneState]
  BY CleanedTyped DEF Types, HangUp
<1>2. live' \subseteq End
  BY DEF Types, HangUp
<1>3. lines' \in [Phone \X Call -> Nat]
  <2>1. CASE Busy(p)
    <3> DEFINE pc == <<p, phone[p].id>>
    <3>1. pc \in Phone \X Call
      BY <2>1, UseKeeps
    <3>2. lines' = [lines EXCEPT ![pc] = @ + 1]
      BY <2>1 DEF HangUp
    <3> HIDE DEF pc
    <3> QED BY <3>1, <3>2 DEF Types
  <2>2. CASE ~Busy(p)
    BY <2>2 DEF Types, HangUp
  <2> QED BY <2>1, <2>2
<1> QED BY <1>1, <1>2, <1>3

\* Setting up an end goes from stage to stage.
LEMMA GotoTyped ==
    ASSUME Types, NEW e \in End, NEW at \in Stage, Goto(e, at)
    PROVE stage' \in [End -> Stage] /\ stage'[e] = at
          /\ \A x \in End : x # e => stage'[x] = stage[x]
BY DEF Types, Goto

\* One phone changes, to a state of a phone.
LEMMA OnePhone ==
    ASSUME Types, NEW p \in Phone, NEW s \in PhoneState, phone' = [phone EXCEPT ![p] = s]
    PROVE phone' \in [Phone -> PhoneState]
BY DEF Types

\* The states a phone is brought to by the awaits of a call.
LEMMA DialReadyTyped ==
    ASSUME Types, NEW p \in Phone, NEW q \in 0..Phones, NEW c \in Call
    PROVE [phone[p] EXCEPT !.state = "outgoing", !.peer = q, !.id = c, !.reset = FALSE]
             \in PhoneState
<1>1. phone[p] \in PhoneState /\ c \in 0..MaxCalls
  BY CallsAssumption DEF Types, Call
<1> QED BY <1>1 DEF PhoneState

\* One field of what a phone keeps.
LEMMA FieldTyped ==
    ASSUME NEW r \in PhoneState
    PROVE /\ \A x \in {"idle", "outgoing", "incoming", "connected", "ended"} :
                [r EXCEPT !.state = x] \in PhoneState
          /\ \A x \in End \cup {None} : [r EXCEPT !.mic = x] \in PhoneState
          /\ \A x \in End \cup {None} : [r EXCEPT !.pc = x] \in PhoneState
          /\ \A x \in BOOLEAN : [r EXCEPT !.out = x] \in PhoneState
          /\ \A x \in BOOLEAN : [r EXCEPT !.in = x] \in PhoneState
          /\ \A x \in BOOLEAN : [r EXCEPT !.reset = x] \in PhoneState
          /\ \A x \in BOOLEAN : [r EXCEPT !.retry = x] \in PhoneState
          /\ \A x \in SUBSET Call : [r EXCEPT !.seen = x] \in PhoneState
          /\ \A x \in 0..MaxCalls : [r EXCEPT !.offered = x] \in PhoneState
          /\ \A x \in 0..MaxCalls : [r EXCEPT !.id = x] \in PhoneState
          /\ \A x \in 0..Phones : [r EXCEPT !.peer = x] \in PhoneState
<1>1. \A x \in {"idle", "outgoing", "incoming", "connected", "ended"} :
         [r EXCEPT !.state = x] \in PhoneState
  BY DEF PhoneState
<1>2. \A x \in End \cup {None} : [r EXCEPT !.mic = x] \in PhoneState
  BY DEF PhoneState
<1>3. \A x \in End \cup {None} : [r EXCEPT !.pc = x] \in PhoneState
  BY DEF PhoneState
<1>4. \A x \in BOOLEAN : [r EXCEPT !.out = x] \in PhoneState
  BY DEF PhoneState
<1>5. \A x \in BOOLEAN : [r EXCEPT !.in = x] \in PhoneState
  BY DEF PhoneState
<1>6. \A x \in BOOLEAN : [r EXCEPT !.reset = x] \in PhoneState
  BY DEF PhoneState
<1>7. \A x \in BOOLEAN : [r EXCEPT !.retry = x] \in PhoneState
  BY DEF PhoneState
<1>8. \A x \in SUBSET Call : [r EXCEPT !.seen = x] \in PhoneState
  BY DEF PhoneState
<1>9. \A x \in 0..MaxCalls : [r EXCEPT !.offered = x] \in PhoneState
  BY DEF PhoneState
<1>10. \A x \in 0..MaxCalls : [r EXCEPT !.id = x] \in PhoneState
  BY DEF PhoneState
<1>11. \A x \in 0..Phones : [r EXCEPT !.peer = x] \in PhoneState
  BY DEF PhoneState
<1> QED BY <1>1, <1>2, <1>3, <1>4, <1>5, <1>6, <1>7, <1>8, <1>9, <1>10, <1>11

\* A phone that rings, with what the call it had has left.
LEMMA RingingTyped ==
    ASSUME NEW r \in PhoneState, NEW q \in Phone, NEW c \in Call
    PROVE LET s == Ringing(r, q, c)
          IN  /\ s \in PhoneState
              /\ s.state = "incoming" /\ s.peer = q /\ s.id = c /\ ~s.reset
              /\ s.mic = r.mic /\ s.offered = r.offered /\ s.seen = r.seen
<1>1. q \in 0..Phones /\ c \in 0..MaxCalls
  BY CallsAssumption DEF Phone, Call
<1> QED BY <1>1 DEF Ringing, PhoneState

-----------------------------------------------------------------------------
(* What every step leaves in order.                                        *)

\* Calls keep their ends, and the setting up of an end goes forward.
Forward ==
    /\ \A c \in Call : Dialled(c) => from'[c] = from[c] /\ to'[c] = to[c]
    /\ \A e \in End : stage[e] \notin {"unused", "ready", "media"} =>
          stage'[e] \notin {"unused", "ready", "media"}
    /\ \A c \in Call : stage[<<c, 0>>] \notin {"unused", "ready"} =>
          stage'[<<c, 0>>] \notin {"unused", "ready"}
Rest ==
    /\ from' \in [Call -> 0..Phones] /\ to' \in [Call -> 0..Phones]
    /\ stage' \in [End -> Stage] /\ applying' \subseteq Call
    /\ CallsDialled' /\ Forward

\* A step of which the calls and their setting up are no part.
LEMMA RestStays ==
    ASSUME Types, CallsDialled, UNCHANGED <<from, to, stage>>, applying' \subseteq Call
    PROVE Rest
<1>1. CallsDialled'
  BY DEF CallsDialled, Dialled
<1> QED BY <1>1 DEF Rest, Types, Forward

\* An end is brought a stage further.
LEMMA RestGoto ==
    ASSUME Types, CallsDialled, UNCHANGED <<from, to, applying>>,
           NEW c \in Call, NEW k \in Try, Dialled(c),
           NEW at \in {"media", "wiring", "answering", "over"},
           at = "media" => stage[<<c, k>>] \in {"unused", "ready"},
           Goto(<<c, k>>, at)
    PROVE Rest
<1> DEFINE e == <<c, k>>
<1>1. e \in End
  BY DEF End
<1>2. stage' \in [End -> Stage] /\ stage'[e] = at
      /\ \A x \in End : x # e => stage'[x] = stage[x]
  BY <1>1, GotoTyped DEF Stage
<1>3. CallsDialled'
  <2> SUFFICES ASSUME NEW d \in Call
               PROVE \/ Dialled(d)'
                     \/ from'[d] = 0 /\ to'[d] = 0 /\ \A j \in Try : stage'[<<d, j>>] = "unused"
    BY DEF CallsDialled
  <2>1. CASE Dialled(d)
    BY <2>1 DEF Dialled
  <2>2. CASE ~Dialled(d)
    <3>1. from[d] = 0 /\ to[d] = 0 /\ \A j \in Try : stage[<<d, j>>] = "unused"
      BY <2>2 DEF CallsDialled
    <3>2. \A j \in Try : <<d, j>> \in End /\ <<d, j>> # e
      BY <2>2 DEF End
    <3> HIDE DEF e
    <3> QED BY <3>1, <3>2, <1>2
  <2> QED BY <2>1, <2>2
<1>4. Forward
  <2>1. \A x \in End : stage[x] \notin {"unused", "ready", "media"} =>
          stage'[x] \notin {"unused", "ready", "media"}
    <3> HIDE DEF e
    <3> SUFFICES ASSUME NEW x \in End, stage[x] \notin {"unused", "ready", "media"}
                 PROVE stage'[x] \notin {"unused", "ready", "media"}
      OBVIOUS
    <3>1. CASE x = e
      BY <1>2, <3>1 DEF e
    <3>2. CASE x # e
      BY <1>2, <3>2
    <3> QED BY <3>1, <3>2
  <2>2. \A d \in Call : stage[<<d, 0>>] \notin {"unused", "ready"} =>
          stage'[<<d, 0>>] \notin {"unused", "ready"}
    <3> SUFFICES ASSUME NEW d \in Call, stage[<<d, 0>>] \notin {"unused", "ready"}
                 PROVE stage'[<<d, 0>>] \notin {"unused", "ready"}
      OBVIOUS
    <3> DEFINE x == <<d, 0>>
    <3>1. x \in End
      BY CallsAssumption DEF End, Try
    <3> HIDE DEF x
    <3>2. CASE x = e
      BY <1>2, <3>2 DEF x
    <3>3. CASE x # e
      BY <1>2, <3>1, <3>3 DEF x
    <3> QED BY <3>2, <3>3
  <2> QED BY <2>1, <2>2 DEF Forward
<1> QED BY <1>2, <1>3, <1>4 DEF Rest, Types

\* A call is dialled, for the first time.
LEMMA RestDial ==
    ASSUME Types, CallsDialled, NEW p \in Phone, NEW q \in Phone, NEW c \in Call, Dial(p, q, c)
    PROVE Rest
<1>1. /\ from' = [from EXCEPT ![c] = p] /\ to' = [to EXCEPT ![c] = q] /\ p # q
      /\ from[c] = 0 /\ Goto(<<c, 0>>, "ready") /\ UNCHANGED applying
  BY DEF Dial
<1> DEFINE e == <<c, 0>>
<1>2. e \in End
  BY CallsAssumption DEF End, Try
<1>3. stage' \in [End -> Stage] /\ stage'[e] = "ready"
      /\ \A x \in End : x # e => stage'[x] = stage[x]
  BY <1>1, <1>2, GotoTyped DEF Stage
<1>4. from' \in [Call -> 0..Phones] /\ to' \in [Call -> 0..Phones]
  BY <1>1, CallsAssumption DEF Types, Phone
<1>5. ~Dialled(c) /\ Dialled(c)'
  BY <1>1, CallsAssumption DEF Dialled, Types, Phone
<1>6. stage[e] = "unused"
  BY <1>2, <1>5, CallsAssumption DEF CallsDialled, Try
<1>7. \A d \in Call \ {c} : from'[d] = from[d] /\ to'[d] = to[d]
  BY <1>1 DEF Types
<1>8. CallsDialled'
  <2> SUFFICES ASSUME NEW d \in Call \ {c}
               PROVE \/ Dialled(d)'
                     \/ from'[d] = 0 /\ to'[d] = 0 /\ \A j \in Try : stage'[<<d, j>>] = "unused"
    BY <1>5 DEF CallsDialled
  <2>1. CASE Dialled(d)
    BY <1>7, <2>1 DEF Dialled
  <2>2. CASE ~Dialled(d)
    <3>1. from[d] = 0 /\ to[d] = 0 /\ \A j \in Try : stage[<<d, j>>] = "unused"
      BY <2>2 DEF CallsDialled
    <3>2. \A j \in Try : <<d, j>> \in End /\ <<d, j>> # e
      BY DEF End
    <3> HIDE DEF e
    <3> QED BY <1>3, <1>7, <3>1, <3>2
  <2> QED BY <2>1, <2>2
<1>9. Forward
  <2>1. \A d \in Call : Dialled(d) => from'[d] = from[d] /\ to'[d] = to[d]
    BY <1>5, <1>7
  <2>2. \A x \in End : stage[x] # "unused" => stage'[x] = stage[x]
    <3> HIDE DEF e
    <3> QED BY <1>3, <1>6
  <2>3. \A d \in Call : <<d, 0>> \in End
    BY CallsAssumption DEF End, Try
  <2> QED BY <2>1, <2>2, <2>3 DEF Forward
<1> QED BY <1>1, <1>3, <1>4, <1>8, <1>9 DEF Rest, Types

\* The ends of a phone that dies are over.
LEMMA RestKill ==
    ASSUME Types, CallsDialled, NEW p \in Phone, Kill(p)
    PROVE Rest
<1>1. /\ UNCHANGED <<from, to>> /\ applying' \subseteq applying
      /\ stage' = [e \in End |-> IF EndOf(p, e) /\ stage[e] # "unused" THEN "over" ELSE stage[e]]
  BY DEF Kill
<1>2. \A e \in End : stage'[e] = stage[e] \/ (stage[e] # "unused" /\ stage'[e] = "over")
  BY <1>1
<1>3. stage' \in [End -> Stage]
  BY <1>1 DEF Types, Stage
<1>4. \A c \in Call : \A k \in Try : <<c, k>> \in End
  BY DEF End
<1>5. CallsDialled'
  BY <1>1, <1>2, <1>4 DEF CallsDialled, Dialled
<1>6. Forward
  <2>1. \A c \in Call : <<c, 0>> \in End
    BY <1>4, CallsAssumption DEF Try
  <2> QED BY <1>1, <1>2, <2>1 DEF Forward
<1> QED BY <1>1, <1>3, <1>5, <1>6 DEF Rest, Types

\* Every step.
LEMMA StepRest ==
    ASSUME Types, CallsDialled, PhonesKeep, MessagesBetween, Next
    PROVE Rest
<1> USE CallsAssumption
<1>0. 0 \in Try
  BY DEF Try
<1>1. ASSUME NEW c \in Call, Dialling(c)
      PROVE Rest
  <2>1. Dialled(c)
    BY <1>0, <1>1, StageDialled DEF Dialling, DialReady, DialRefused, DialMedia, DialOffers, DialFails
  <2>2. /\ UNCHANGED <<from, to, applying>>
        /\ \E at \in {"media", "wiring", "over"} :
              /\ Goto(<<c, 0>>, at)
              /\ at = "media" => stage[<<c, 0>>] = "ready"
    BY <1>1 DEF Dialling, DialReady, DialRefused, DialMedia, DialOffers, DialFails
  <2> QED BY <1>0, <2>1, <2>2, RestGoto
<1>2. ASSUME NEW c \in Call, NEW k \in Try, Accepting(c, k)
      PROVE Rest
  <2>1. Dialled(c)
    BY <1>2, StageDialled DEF Accepting, AcceptRefused, AcceptMedia, AcceptWired, AcceptAnswers,
       AcceptFails
  <2>2. /\ UNCHANGED <<from, to, applying>>
        /\ \E at \in {"wiring", "answering", "over"} : Goto(<<c, k>>, at)
    BY <1>2 DEF Accepting, AcceptRefused, AcceptMedia, AcceptWired, AcceptAnswers, AcceptFails
  <2> QED BY <2>1, <2>2, RestGoto
<1>3. ASSUME NEW p \in Phone, NEW k \in Try, Accept(p, k)
      PROVE Rest
  <2>1. Busy(p)
    BY <1>3 DEF Accept, Busy
  <2>2. phone[p].id \in Call /\ Dialled(phone[p].id)
    BY <2>1, UseKeeps
  <2>3. /\ UNCHANGED <<from, to, applying>> /\ Goto(<<phone[p].id, k>>, "media")
        /\ stage[<<phone[p].id, k>>] = "unused"
    BY <1>3 DEF Accept
  <2> QED BY <2>2, <2>3, RestGoto
<1>4. ASSUME NEW p \in Phone, NEW q \in Phone, NEW c \in Call, Dial(p, q, c)
      PROVE Rest
  BY <1>4, RestDial
<1>5. ASSUME NEW p \in Phone, NEW q \in Phone, Deliver(p, q) \/ Lost(p, q)
      PROVE Rest
  <2>1. applying' \subseteq Call
    <3>1. net[<<q, p>>] # <<>> => Id(p, q) \in Call
      BY <1>5, ArrivalTyped
    <3> QED BY <1>5, <3>1 DEF Types, Deliver, OfferDropped, OfferRings, OfferBusy, AnswerTaken,
        EndTaken, Lost, Arrives
  <2>2. UNCHANGED <<from, to, stage>>
    BY <1>5 DEF Deliver, OfferDropped, OfferRings, OfferBusy, AnswerTaken, EndTaken, Lost
  <2> QED BY <2>1, <2>2, RestStays
<1>6. ASSUME NEW p \in Phone, HangUpPressed(p) \/ Timers(p) \/ IceFails(p)
      PROVE Rest
  <2>1. UNCHANGED <<from, to, stage, applying>>
    BY <1>6 DEF HangUpPressed, Timers, OutTimeout, InTimeout, ResetTimeout, Resend, IceFails
  <2> QED BY <2>1, RestStays DEF Types
<1>7. ASSUME NEW c \in Call, Applied(c) \/ ApplyFails(c)
      PROVE Rest
  <2>1. UNCHANGED <<from, to, stage>> /\ applying' \subseteq applying
    BY <1>7 DEF Applied, ApplyFails
  <2> QED BY <2>1, RestStays DEF Types
<1>8. ASSUME NEW p \in Phone, Kill(p)
      PROVE Rest
  BY <1>8, RestKill
<1> QED BY <1>1, <1>2, <1>3, <1>4, <1>5, <1>6, <1>7, <1>8 DEF Next

-----------------------------------------------------------------------------
(* The kinds of steps: what a step does to the phone it is of.             *)

Only(p) ==
    /\ phone' \in [Phone -> PhoneState]
    /\ \A x \in Phone \ {p} : phone'[x] = phone[x]
SameRecord == UNCHANGED <<had, lines, yielded>>

\* The phone has the call it had, and its microphone.
Minor(p) ==
    LET r == phone[p]
        s == phone'[p]
    IN  /\ Only(p) /\ SameRecord /\ UNCHANGED <<live, overtaken>>
        /\ s.id = r.id /\ s.mic = r.mic /\ r.seen \subseteq s.seen
        /\ \/ s.offered \in {0, r.offered}
           \/ s.offered = r.id /\ from[r.id] = p /\ InUse(r)
        /\ InUse(r) => InUse(s) /\ s.peer = r.peer /\ s.state \in {r.state, "connected"}
        /\ ~InUse(r) => ~InUse(s)
        /\ s.reset => r.reset /\ s.state = r.state

\* The phone has no call any more.
Leaves(p) ==
    LET r == phone[p]
        s == phone'[p]
    IN  /\ Only(p) /\ UNCHANGED <<had, yielded, overtaken>>
        /\ ~InUse(s) /\ s.id = 0 /\ s.mic = None /\ s.offered = 0 /\ s.seen = r.seen
        /\ s.reset => s.state = "ended"
        /\ live' = live \ {r.mic}
        /\ lines' = IF InUse(r) THEN [lines EXCEPT ![<<p, r.id>>] = @ + 1] ELSE lines

\* The phone has the call it has dialled.
Starts(p, c) ==
    LET r == phone[p]
        s == phone'[p]
    IN  /\ Only(p) /\ UNCHANGED <<live, lines, yielded, overtaken>>
        /\ ~InUse(r) /\ Dialled(c) /\ from[c] = p
        /\ s.state = "outgoing" /\ s.id = c /\ s.peer = to[c] /\ ~s.reset
        /\ s.mic = r.mic /\ s.offered = r.offered /\ s.seen = r.seen
        /\ had' = had \cup {<<p, c>>}
        /\ stage[<<c, 0>>] = "ready" /\ stage'[<<c, 0>>] = "media"

\* The phone gets a microphone for its call, or loses the one it held.
Tunes(p, e) ==
    LET r == phone[p]
        s == phone'[p]
    IN  /\ Only(p) /\ SameRecord
        /\ s.state = r.state /\ s.id = r.id /\ s.peer = r.peer /\ s.reset = r.reset
        /\ s.offered = r.offered /\ s.seen = r.seen /\ s.mic = e
        /\ r.mic = None \/ overtaken'
        /\ overtaken => overtaken'
        /\ overtaken' \in BOOLEAN
        /\ \/ e = None /\ live' = live
           \/ /\ e \in End /\ InUse(r) /\ r.id = e[1] /\ EndOf(p, e)
              /\ stage'[e] = "wiring" /\ live' = live \cup {e}

\* A call comes, to a phone that is free or yields to it.
Rung(p, q, c) ==
    LET r == phone[p]
        s == phone'[p]
    IN  /\ Only(p) /\ UNCHANGED <<lines, overtaken>>
        /\ q \in Phone /\ c \in Call /\ Dialled(c) /\ from[c] = q /\ to[c] = p
        /\ c \notin r.seen /\ s.seen = r.seen \cup {c}
        /\ s.state = "incoming" /\ s.id = c /\ s.peer = q /\ ~s.reset
        /\ had' = had \cup {<<p, c>>}
        /\ \/ ~InUse(r) /\ live' = live /\ yielded' = yielded
              /\ s.mic = r.mic /\ s.offered = r.offered
           \/ r.state = "outgoing" /\ live' = live \ {r.mic}
              /\ yielded' = yielded \cup {r.id}
              /\ s.mic = None /\ s.offered = 0

\* The phone loses everything.
Dies(p) ==
    /\ Only(p) /\ phone'[p] = Idle /\ kills' # 0
    /\ live' = {e \in live : ~EndOf(p, e)}
    /\ had' = {pc \in had : pc[1] # p}
    /\ lines' = [pc \in Phone \X Call |-> IF pc[1] = p THEN 0 ELSE lines[pc]]
    /\ UNCHANGED <<yielded, overtaken>>

Gentle(p) ==
    \/ Minor(p) \/ (\E c \in Call : Starts(p, c)) \/ (\E e \in End \cup {None} : Tunes(p, e))
Kind(p) ==
    \/ Minor(p) \/ Leaves(p) \/ (\E c \in Call : Starts(p, c))
    \/ (\E e \in End \cup {None} : Tunes(p, e))
    \/ (\E q \in Phone, c \in Call : Rung(p, q, c)) \/ Dies(p)

\* A step that leaves the phones and the record alone.
LEMMA KindQuiet ==
    ASSUME Types, NEW p \in Phone, UNCHANGED <<phone, live, had, lines, yielded, overtaken>>
    PROVE Minor(p)
<1>1. phone[p] \in PhoneState /\ phone' \in [Phone -> PhoneState]
  BY DEF Types
<1> QED BY <1>1 DEF Minor, Only, SameRecord

\* _hangup leaves the phone without a call.
LEMMA KindLeaves ==
    ASSUME Types, PhonesKeep, NEW p \in Phone, HangUp(p), UNCHANGED <<had, yielded, overtaken>>
    PROVE Leaves(p)
<1> DEFINE r == phone[p]
           d == Cleaned(r)
           e == [d EXCEPT !.state = "ended", !.reset = TRUE]
           s == phone'[p]
<1>1. Busy(p) <=> InUse(r)
  BY DEF Busy, InUse
<1>2. s = IF Busy(p) THEN e ELSE d
  BY DEF HangUp, Types
<1>3. \A x \in Phone \ {p} : phone'[x] = phone[x]
  BY DEF HangUp, Types
<1>4. /\ \A x \in {d, e} : x.id = 0 /\ x.mic = None /\ x.offered = 0 /\ x.seen = r.seen
      /\ d.state = r.state /\ d.reset = r.reset /\ e.state = "ended"
  BY CleanedTyped
<1>5. s.reset => s.state = "ended"
  BY <1>2, <1>4 DEF PhonesKeep, Keeps
<1>6. ~InUse(s)
  <2>1. CASE Busy(p)
    BY <1>2, <1>4, <2>1 DEF InUse
  <2>2. CASE ~Busy(p)
    BY <1>1, <1>2, <1>4, <2>2 DEF InUse
  <2> QED BY <2>1, <2>2
<1>7. s.id = 0 /\ s.mic = None /\ s.offered = 0 /\ s.seen = r.seen
  BY <1>2, <1>4
<1>8. live' = live \ {r.mic}
      /\ lines' = IF InUse(r) THEN [lines EXCEPT ![<<p, r.id>>] = @ + 1] ELSE lines
  BY <1>1 DEF HangUp
<1>9. Only(p)
  BY <1>3, HangUpTyped DEF Only
<1> HIDE DEF r, s
<1> QED BY <1>5, <1>6, <1>7, <1>8, <1>9 DEF Leaves, r, s

\* A phone of which other fields are changed than those a call goes by.
LEMMA KindMinor ==
    ASSUME Types, NEW p \in Phone, NEW s \in PhoneState, phone' = [phone EXCEPT ![p] = s],
           UNCHANGED <<live, had, lines, yielded, overtaken>>,
           s.id = phone[p].id, s.mic = phone[p].mic, phone[p].seen \subseteq s.seen,
           \/ s.offered \in {0, phone[p].offered}
           \/ s.offered = phone[p].id /\ from[phone[p].id] = p /\ InUse(phone[p]),
           InUse(phone[p]) => /\ s.peer = phone[p].peer
                              /\ s.state \in {phone[p].state, "connected"},
           ~InUse(phone[p]) => ~InUse(s),
           s.reset => phone[p].reset /\ s.state = phone[p].state
    PROVE Minor(p)
<1>1. phone'[p] = s /\ \A x \in Phone \ {p} : phone'[x] = phone[x]
  BY DEF Types
<1>2. phone' \in [Phone -> PhoneState]
  BY OnePhone
<1>3. InUse(phone[p]) => InUse(s)
  BY DEF InUse
<1> QED BY <1>1, <1>2, <1>3 DEF Minor, Only, SameRecord

\* The steps of a call that is dialled.
LEMMA DiallingKinds ==
    ASSUME Types, CallsDialled, PhonesKeep, NEW c \in Call, Dialling(c)
    PROVE from[c] \in Phone /\ (Gentle(from[c]) \/ (Leaves(from[c]) /\ Tell(from[c])))
<1> DEFINE p == from[c]
           r == phone[p]
           e == <<c, 0>>
<1>0. 0 \in Try /\ e \in End
  BY CallsAssumption DEF Try, End
<1>1. Dialled(c)
  BY <1>0, StageDialled DEF Dialling, DialReady, DialRefused, DialMedia, DialOffers, DialFails
<1>2. p \in Phone /\ r \in PhoneState /\ Keeps(p, r)
  BY <1>1 DEF Dialled, Types, PhonesKeep
<1>3. Busy(p) <=> InUse(r)
  BY DEF Busy, InUse
<1> SUFFICES Gentle(p) \/ (Leaves(p) /\ Tell(p))
  BY <1>2
<1>4. CASE DialReady(c) /\ ~Busy(p)
  <2> DEFINE s == [r EXCEPT !.state = "outgoing", !.peer = to[c], !.id = c, !.reset = FALSE]
  <2>1. s \in PhoneState
    BY <1>2, DialReadyTyped DEF Types
  <2>2. phone' = [phone EXCEPT ![p] = s]
    BY <1>4 DEF DialReady, Caller, Callee
  <2>3. phone'[p] = s /\ Only(p)
    BY <1>2, <2>1, <2>2, OnePhone DEF Types, Only
  <2>4. /\ s.state = "outgoing" /\ s.id = c /\ s.peer = to[c] /\ ~s.reset
        /\ s.mic = r.mic /\ s.offered = r.offered /\ s.seen = r.seen
    BY <1>2 DEF PhoneState
  <2>5. /\ had' = had \cup {<<p, c>>} /\ stage[e] = "ready" /\ Goto(e, "media")
        /\ UNCHANGED <<live, lines, yielded, overtaken>>
    BY <1>4 DEF DialReady, Caller
  <2>6. stage'[e] = "media"
    BY <1>0, <2>5, GotoTyped DEF Stage
  <2> HIDE DEF s
  <2>7. Starts(p, c)
    BY <1>1, <1>3, <1>4, <2>3, <2>4, <2>5, <2>6 DEF Starts
  <2> QED BY <2>7 DEF Gentle
<1>5. CASE (DialReady(c) /\ Busy(p)) \/ DialRefused(c)
  <2>1. UNCHANGED <<phone, live, had, lines, yielded, overtaken>>
    BY <1>5 DEF DialReady, DialRefused, Caller, history
  <2> QED BY <1>2, <2>1, KindQuiet DEF Gentle
<1>6. CASE DialMedia(c) /\ Has(p, "outgoing", c)
  <2> DEFINE s == [r EXCEPT !.mic = e]
  <2>1. s \in PhoneState
    BY <1>0, <1>2, FieldTyped
  <2>2. phone' = [phone EXCEPT ![p] = s]
    BY <1>2, <1>6 DEF DialMedia, Caller, Types
  <2>3. phone'[p] = s /\ Only(p)
    BY <1>2, <2>1, <2>2, OnePhone DEF Types, Only
  <2>4. /\ s.state = r.state /\ s.id = r.id /\ s.peer = r.peer /\ s.reset = r.reset
        /\ s.offered = r.offered /\ s.seen = r.seen /\ s.mic = e
    BY <1>2 DEF PhoneState
  <2>5. /\ live' = live \cup {e} /\ stage[e] = "media" /\ Goto(e, "wiring")
        /\ UNCHANGED <<had, lines, yielded, overtaken>>
    BY <1>6 DEF DialMedia, Caller, history
  <2>6. stage'[e] = "wiring"
    BY <1>0, <2>5, GotoTyped DEF Stage
  <2>7. r.id = c /\ InUse(r) /\ EndOf(p, e) /\ e[1] = c
    BY <1>6 DEF Has, InUse, EndOf
  <2>8. r.mic = None
    <3> SUFFICES ASSUME r.mic # None
                 PROVE FALSE
      OBVIOUS
    <3>1. r.mic \in End /\ r.mic[1] = c /\ EndOf(p, r.mic) /\ stage[r.mic] # "media"
      BY <1>2, <2>7 DEF Keeps, PhoneState
    <3>2. r.mic = <<c, r.mic[2]>>
      BY <3>1 DEF End
    <3>3. r.mic[2] = 0
      BY <1>1, <3>1 DEF EndOf, Dialled
    <3> QED BY <2>5, <3>1, <3>2, <3>3
  <2> HIDE DEF s, e
  <2>9. Tunes(p, e)
    BY <1>0, <2>3, <2>4, <2>5, <2>6, <2>7, <2>8 DEF Tunes, SameRecord, Types
  <2> QED BY <1>0, <2>9 DEF Gentle
<1>7. CASE DialMedia(c) /\ ~Has(p, "outgoing", c)
  <2>1. UNCHANGED <<phone, live, had, lines, yielded, overtaken>>
    BY <1>7 DEF DialMedia, Caller, history
  <2> QED BY <1>2, <2>1, KindQuiet DEF Gentle
<1>8. CASE DialOffers(c)
  <2>1. UNCHANGED <<live, had, lines, yielded, overtaken>>
    BY <1>8 DEF DialOffers, history
  <2>2. CASE Has(p, "outgoing", c)
    <3> DEFINE s1 == [r EXCEPT !.pc = e]
               s2 == [s1 EXCEPT !.offered = c]
               s == [s2 EXCEPT !.out = TRUE]
    <3>1. phone' = [phone EXCEPT ![p] = s]
      <4>1. phone' = [phone EXCEPT ![p] = [r EXCEPT !.pc = e, !.offered = c, !.out = TRUE]]
        BY <1>8, <2>2 DEF DialOffers, Caller
      <4>2. s = [r EXCEPT !.pc = e, !.offered = c, !.out = TRUE]
        OBVIOUS
      <4> QED BY <4>1, <4>2
    <3>2. s1 \in PhoneState
      BY <1>0, <1>2, FieldTyped
    <3>3. s2 \in PhoneState
      <4>1. c \in 0..MaxCalls
        BY CallsAssumption DEF Call
      <4> HIDE DEF s1
      <4> QED BY <3>2, <4>1, FieldTyped
    <3>4. s \in PhoneState
      <4> HIDE DEF s2
      <4> QED BY <3>3, FieldTyped
    <3>5. /\ s.id = r.id /\ s.mic = r.mic /\ s.seen = r.seen /\ s.offered = c
          /\ s.peer = r.peer /\ s.state = r.state /\ s.reset = r.reset
      BY <1>2 DEF PhoneState
    <3>6. r.id = c /\ InUse(r)
      BY <2>2 DEF Has, InUse
    <3> HIDE DEF s
    <3>7. Minor(p)
      BY <1>2, <2>1, <3>1, <3>4, <3>5, <3>6, KindMinor
    <3> QED BY <3>7 DEF Gentle
  <2>3. CASE ~Has(p, "outgoing", c)
    <3>1. UNCHANGED phone
      BY <1>8, <2>3 DEF DialOffers, Caller
    <3> QED BY <1>2, <2>1, <3>1, KindQuiet DEF Gentle
  <2> QED BY <2>2, <2>3
<1>9. CASE DialFails(c)
  <2>1. HangUp(p) /\ Tell(p) /\ UNCHANGED <<had, yielded, overtaken>>
    BY <1>9 DEF DialFails, Caller
  <2> QED BY <1>2, <2>1, KindLeaves
<1> QED BY <1>4, <1>5, <1>6, <1>7, <1>8, <1>9 DEF Dialling

\* The steps of a call that is accepted.
LEMMA AcceptingKinds ==
    ASSUME Types, CallsDialled, PhonesKeep, NEW c \in Call, NEW k \in Try, Accepting(c, k)
    PROVE to[c] \in Phone /\ (Gentle(to[c]) \/ (Leaves(to[c]) /\ Tell(to[c])))
<1> DEFINE p == to[c]
           r == phone[p]
           e == <<c, k>>
<1>0. e \in End
  BY DEF End
<1>1. Dialled(c)
  BY StageDialled DEF Accepting, AcceptRefused, AcceptMedia, AcceptWired, AcceptAnswers, AcceptFails
<1>2. p \in Phone /\ r \in PhoneState /\ Keeps(p, r)
  BY <1>1 DEF Dialled, Types, PhonesKeep
<1> SUFFICES Gentle(p) \/ (Leaves(p) /\ Tell(p))
  BY <1>2
<1>3. CASE AcceptMedia(c, k)
  <2> DEFINE x == IF Has(p, "incoming", c) THEN e ELSE None
             s == [r EXCEPT !.mic = x]
  <2>1. x \in End \cup {None} /\ s \in PhoneState
    BY <1>0, <1>2, FieldTyped
  <2>2. phone' = [phone EXCEPT ![p] = s]
    BY <1>2, <1>3 DEF AcceptMedia, Callee, Types
  <2>3. phone'[p] = s /\ Only(p)
    BY <1>2, <2>1, <2>2, OnePhone DEF Types, Only
  <2>4. /\ s.state = r.state /\ s.id = r.id /\ s.peer = r.peer /\ s.reset = r.reset
        /\ s.offered = r.offered /\ s.seen = r.seen /\ s.mic = x
    BY <1>2 DEF PhoneState
  <2>5. SameRecord /\ overtaken' = (overtaken \/ r.mic # None)
    BY <1>3 DEF AcceptMedia, SameRecord, Callee
  <2>6. overtaken' \in BOOLEAN /\ (r.mic = None \/ overtaken') /\ (overtaken => overtaken')
    BY <2>5 DEF Types
  <2>7. \/ x = None /\ live' = live
        \/ /\ x \in End /\ InUse(r) /\ r.id = x[1] /\ EndOf(p, x)
           /\ stage'[x] = "wiring" /\ live' = live \cup {x}
    <3>1. CASE Has(p, "incoming", c)
      <4>1. /\ x = e /\ InUse(r) /\ r.id = e[1] /\ EndOf(p, e) /\ live' = live \cup {e}
            /\ Goto(e, "wiring")
        BY <1>3, <3>1 DEF AcceptMedia, Callee, Has, InUse, EndOf
      <4>2. stage'[e] = "wiring"
        BY <1>0, <4>1, GotoTyped DEF Stage
      <4> QED BY <1>0, <4>1, <4>2
    <3>2. CASE ~Has(p, "incoming", c)
      BY <1>3, <3>2 DEF AcceptMedia, Callee
    <3> QED BY <3>1, <3>2
  <2> HIDE DEF s, x
  <2>8. Tunes(p, x)
    BY <2>3, <2>4, <2>5, <2>6, <2>7 DEF Tunes
  <2> QED BY <2>1, <2>8 DEF Gentle
<1>4. CASE AcceptWired(c, k)
  <2>1. UNCHANGED <<live, had, lines, yielded, overtaken>>
    BY <1>4 DEF AcceptWired, history
  <2>2. CASE Has(p, "incoming", c)
    <3> DEFINE s == [r EXCEPT !.pc = e]
    <3>1. phone' = [phone EXCEPT ![p] = s]
      BY <1>2, <1>4, <2>2 DEF AcceptWired, Callee, Types
    <3>2. s \in PhoneState
      BY <1>0, <1>2, FieldTyped
    <3>3. /\ s.id = r.id /\ s.mic = r.mic /\ s.seen = r.seen /\ s.offered = r.offered
          /\ s.peer = r.peer /\ s.state = r.state /\ s.reset = r.reset
      BY <1>2 DEF PhoneState
    <3>4. InUse(r)
      BY <2>2 DEF Has, InUse
    <3> HIDE DEF s
    <3>5. Minor(p)
      BY <1>2, <2>1, <3>1, <3>2, <3>3, <3>4, KindMinor
    <3> QED BY <3>5 DEF Gentle
  <2>3. CASE ~Has(p, "incoming", c)
    <3>1. UNCHANGED phone
      BY <1>4, <2>3 DEF AcceptWired, Callee
    <3> QED BY <1>2, <2>1, <3>1, KindQuiet DEF Gentle
  <2> QED BY <2>2, <2>3
<1>5. CASE AcceptAnswers(c, k)
  <2>1. UNCHANGED <<live, had, lines, yielded, overtaken>>
    BY <1>5 DEF AcceptAnswers
  <2>2. CASE Has(p, "incoming", c) /\ phone[p].pc = <<c, k>>
    <3> DEFINE s == [r EXCEPT !.state = "connected"]
    <3>1. phone' = [phone EXCEPT ![p] = s]
      BY <1>2, <1>5, <2>2 DEF AcceptAnswers, Callee, Types
    <3>2. s \in PhoneState
      BY <1>2, FieldTyped
    <3>3. /\ s.id = r.id /\ s.mic = r.mic /\ s.seen = r.seen /\ s.offered = r.offered
          /\ s.peer = r.peer /\ s.state = "connected" /\ s.reset = r.reset
      BY <1>2 DEF PhoneState
    <3>4. InUse(r) /\ r.state = "incoming"
      BY <2>2 DEF Has, InUse
    <3>5. ~r.reset
      BY <1>2, <3>4 DEF Keeps
    <3> HIDE DEF s
    <3>6. Minor(p)
      BY <1>2, <2>1, <3>1, <3>2, <3>3, <3>4, <3>5, KindMinor
    <3> QED BY <3>6 DEF Gentle
  <2>3. CASE ~(Has(p, "incoming", c) /\ phone[p].pc = <<c, k>>)
    <3>1. UNCHANGED phone
      BY <1>5, <2>3 DEF AcceptAnswers, Callee
    <3> QED BY <1>2, <2>1, <3>1, KindQuiet DEF Gentle
  <2> QED BY <2>2, <2>3
<1>6. CASE AcceptRefused(c, k) \/ (AcceptFails(c, k) /\ Has(p, "incoming", c))
  <2>1. HangUp(p) /\ Tell(p) /\ UNCHANGED <<had, yielded, overtaken>>
    BY <1>6 DEF AcceptRefused, AcceptFails, Callee
  <2> QED BY <1>2, <2>1, KindLeaves
<1>7. CASE AcceptFails(c, k) /\ ~Has(p, "incoming", c)
  <2>1. UNCHANGED <<phone, live, had, lines, yielded, overtaken>>
    BY <1>7 DEF AcceptFails, Callee
  <2> QED BY <1>2, <2>1, KindQuiet DEF Gentle
<1>8. \/ AcceptRefused(c, k) \/ AcceptMedia(c, k) \/ AcceptWired(c, k)
      \/ AcceptAnswers(c, k) \/ AcceptFails(c, k)
  BY DEF Accepting
<1> QED
  <2>1. CASE AcceptFails(c, k)
    BY <1>6, <1>7, <2>1
  <2> QED BY <1>3, <1>4, <1>5, <1>6, <1>8, <2>1

\* What cleaning up leaves of any phone.
LEMMA CleanedKeeps ==
    ASSUME NEW r \in PhoneState
    PROVE /\ Cleaned(r) \in PhoneState
          /\ Cleaned(r).mic = None /\ Cleaned(r).offered = 0 /\ Cleaned(r).seen = r.seen
<1>1. 0 \in 0..MaxCalls /\ None \in End \cup {None}
  BY CallsAssumption
<1>2. Cleaned(r) \in PhoneState
  BY <1>1 DEF PhoneState, Cleaned
<1>3. Cleaned(r).mic = None /\ Cleaned(r).offered = 0 /\ Cleaned(r).seen = r.seen
  BY DEF PhoneState, Cleaned
<1> QED BY <1>2, <1>3

\* A phone notes that it has heard of a call.
LEMMA KindHears ==
    ASSUME Types, NEW p \in Phone, NEW c \in Call,
           phone' = [phone EXCEPT ![p].seen = @ \cup {c}],
           UNCHANGED <<live, had, lines, yielded, overtaken>>
    PROVE Minor(p)
<1> DEFINE r == phone[p]
           s == [r EXCEPT !.seen = r.seen \cup {c}]
<1>1. r \in PhoneState
  BY DEF Types
<1>2. r.seen \cup {c} \in SUBSET Call
  BY <1>1 DEF PhoneState
<1>3. s \in PhoneState
  BY <1>1, <1>2, FieldTyped
<1>4. /\ s.id = r.id /\ s.mic = r.mic /\ r.seen \subseteq s.seen /\ s.offered = r.offered
      /\ s.peer = r.peer /\ s.state = r.state /\ s.reset = r.reset
  BY <1>1 DEF PhoneState
<1>5. phone' = [phone EXCEPT ![p] = s]
  BY DEF Types
<1>6. InUse(s) <=> InUse(r)
  BY <1>4 DEF InUse
<1> HIDE DEF s
<1> QED BY <1>3, <1>4, <1>5, <1>6, KindMinor

\* A call that comes.
LEMMA OfferRingsKind ==
    ASSUME Types, CallsDialled, PhonesKeep, MessagesBetween,
           NEW p \in Phone, NEW q \in Phone, OfferRings(p, q)
    PROVE Rung(p, q, Id(p, q))
<1> DEFINE c == Id(p, q)
           r == phone[p]
           t == [r EXCEPT !.seen = r.seen \cup {c}]
           u == IF Busy(p) THEN Cleaned(t) ELSE t
           s == Ringing(u, q, c)
<1>1. /\ Arrives(p, q, {"offer"}) /\ c \notin r.seen
      /\ Yields(p, q) \/ ~Busy(p)
      /\ phone' = [phone EXCEPT ![p] = s]
      /\ live' = IF Busy(p) THEN live \ {r.mic} ELSE live
      /\ yielded' = IF Busy(p) THEN yielded \cup {r.id} ELSE yielded
      /\ had' = had \cup {<<p, c>>}
      /\ UNCHANGED <<lines, overtaken>>
  BY DEF OfferRings
<1>2. c \in Call /\ Dialled(c) /\ from[c] = q /\ to[c] = p
  <2>1. net[<<q, p>>] # <<>> /\ Head(net[<<q, p>>]).kind = "offer"
    BY <1>1 DEF Arrives
  <2>2. c \in Call /\ Between(Head(net[<<q, p>>]), q, p)
    BY <2>1, ArrivalTyped
  <2> QED BY <2>1, <2>2 DEF Between, Offering, Replying, Id
<1>3. r \in PhoneState
  BY DEF Types
<1>4. r.seen \cup {c} \in SUBSET Call
  BY <1>2, <1>3 DEF PhoneState
<1>5. t \in PhoneState
  BY <1>3, <1>4, FieldTyped
<1>6. t.seen = r.seen \cup {c} /\ t.mic = r.mic /\ t.offered = r.offered
  BY <1>3 DEF PhoneState
<1> HIDE DEF t
<1>7. /\ Cleaned(t) \in PhoneState
      /\ Cleaned(t).mic = None /\ Cleaned(t).offered = 0 /\ Cleaned(t).seen = t.seen
  BY <1>5, CleanedKeeps
<1>8. /\ u \in PhoneState /\ u.seen = r.seen \cup {c}
      /\ Busy(p) => u.mic = None /\ u.offered = 0
      /\ ~Busy(p) => u.mic = r.mic /\ u.offered = r.offered
  BY <1>5, <1>6, <1>7
<1> HIDE DEF u
<1> HIDE DEF c
<1>9. /\ s \in PhoneState
      /\ s.state = "incoming" /\ s.peer = q /\ s.id = c /\ ~s.reset
      /\ s.mic = u.mic /\ s.offered = u.offered /\ s.seen = u.seen
  BY <1>2, <1>8, RingingTyped
<1> HIDE DEF s
<1>10. phone'[p] = s /\ Only(p)
  BY <1>1, <1>9, OnePhone DEF Only, Types
<1>11. Busy(p) <=> InUse(r)
  BY DEF Busy, InUse
<1>12. Busy(p) => r.state = "outgoing"
  BY <1>1 DEF Yields, Crossed
<1>13. Rung(p, q, c)
  BY <1>1, <1>2, <1>8, <1>9, <1>10, <1>11, <1>12 DEF Rung
<1> QED BY <1>13 DEF c

\* What arrives, and what is lost.
LEMMA ArrivingKinds ==
    ASSUME Types, CallsDialled, PhonesKeep, MessagesBetween, NEW p \in Phone, NEW q \in Phone
    PROVE /\ OfferDropped(p, q) \/ OfferBusy(p, q) \/ AnswerTaken(p, q) \/ Lost(p, q) => Minor(p)
          /\ OfferRings(p, q) => Rung(p, q, Id(p, q)) /\ Id(p, q) \in Call
          /\ EndTaken(p, q) => IF Ends(p, q) THEN Leaves(p) ELSE Minor(p)
<1>1. ASSUME OfferDropped(p, q) \/ OfferBusy(p, q)
      PROVE Minor(p)
  <2>1. Id(p, q) \in Call
    BY <1>1, ArrivalTyped DEF OfferDropped, OfferBusy, Arrives
  <2>2. /\ phone' = [phone EXCEPT ![p].seen = @ \cup {Id(p, q)}]
        /\ UNCHANGED <<live, had, lines, yielded, overtaken>>
    BY <1>1 DEF OfferDropped, OfferBusy, history
  <2> QED BY <2>1, <2>2, KindHears
<1>2. ASSUME OfferRings(p, q)
      PROVE Rung(p, q, Id(p, q)) /\ Id(p, q) \in Call
  <2>1. Id(p, q) \in Call
    BY <1>2, ArrivalTyped DEF OfferRings, Arrives
  <2> QED BY <1>2, <2>1, OfferRingsKind
<1>3. ASSUME AnswerTaken(p, q)
      PROVE Minor(p)
  <2>1. UNCHANGED <<phone, live, had, lines, yielded, overtaken>>
    BY <1>3 DEF AnswerTaken, history
  <2> QED BY <2>1, KindQuiet
<1>4. ASSUME EndTaken(p, q)
      PROVE IF Ends(p, q) THEN Leaves(p) ELSE Minor(p)
  <2>1. CASE Ends(p, q)
    <3>1. HangUp(p) /\ UNCHANGED <<had, yielded, overtaken>>
      BY <1>4, <2>1 DEF EndTaken
    <3> QED BY <2>1, <3>1, KindLeaves
  <2>2. CASE ~Ends(p, q)
    <3>1. UNCHANGED <<phone, live, had, lines, yielded, overtaken>>
      BY <1>4, <2>2 DEF EndTaken
    <3> QED BY <2>2, <3>1, KindQuiet
  <2> QED BY <2>1, <2>2
<1>5. ASSUME Lost(p, q)
      PROVE Minor(p)
  <2>1. UNCHANGED <<live, had, lines, yielded, overtaken>>
    BY <1>5 DEF Lost, history
  <2>2. CASE UNCHANGED phone
    BY <2>1, <2>2, KindQuiet
  <2>3. CASE phone' = [phone EXCEPT ![p].retry = TRUE]
    <3> DEFINE r == phone[p]
               s == [r EXCEPT !.retry = TRUE]
    <3>1. r \in PhoneState /\ phone' = [phone EXCEPT ![p] = s]
      BY <2>3 DEF Types
    <3>2. s \in PhoneState
      BY <3>1, FieldTyped
    <3>3. /\ s.id = r.id /\ s.mic = r.mic /\ s.seen = r.seen /\ s.offered = r.offered
          /\ s.peer = r.peer /\ s.state = r.state /\ s.reset = r.reset
      BY <3>1 DEF PhoneState
    <3>4. InUse(s) <=> InUse(r)
      BY <3>3 DEF InUse
    <3> HIDE DEF s
    <3>5. Minor(p)
      BY <2>1, <3>1, <3>2, <3>3, <3>4, KindMinor
    <3> QED BY <3>5
  <2> QED BY <1>5, <2>2, <2>3 DEF Lost
<1> QED BY <1>1, <1>2, <1>3, <1>4, <1>5

\* Buttons, timers and deaths.
LEMMA PhoneKinds ==
    ASSUME Types, PhonesKeep, NEW p \in Phone,
           \/ HangUpPressed(p) \/ Timers(p) \/ IceFails(p) \/ Kill(p)
           \/ \E k \in Try : Accept(p, k)
    PROVE \/ Gentle(p) \/ (Leaves(p) /\ Tell(p)) \/ (Dies(p) /\ Kill(p))
<1> DEFINE r == phone[p]
<1>0. r \in PhoneState /\ Keeps(p, r)
  BY DEF Types, PhonesKeep
<1>1. CASE HangUpPressed(p) \/ IceFails(p)
  <2>1. HangUp(p) /\ Tell(p) /\ UNCHANGED <<had, yielded, overtaken>>
    BY <1>1 DEF HangUpPressed, IceFails
  <2> QED BY <2>1, KindLeaves
<1>2. CASE OutTimeout(p)
  <2>1. CASE r.state = "outgoing"
    <3>1. HangUp(p) /\ Tell(p) /\ UNCHANGED <<had, yielded, overtaken>>
      BY <1>2, <2>1 DEF OutTimeout
    <3> QED BY <3>1, KindLeaves
  <2>2. CASE r.state # "outgoing"
    <3> DEFINE s == [r EXCEPT !.out = FALSE]
    <3>1. /\ phone' = [phone EXCEPT ![p] = s]
          /\ UNCHANGED <<live, had, lines, yielded, overtaken>>
      BY <1>2, <2>2 DEF Types, OutTimeout
    <3>2. s \in PhoneState
      BY <1>0, FieldTyped
    <3>3. /\ s.id = r.id /\ s.mic = r.mic /\ s.seen = r.seen /\ s.offered = r.offered
          /\ s.peer = r.peer /\ s.state = r.state /\ s.reset = r.reset
      BY <1>0 DEF PhoneState
    <3>4. InUse(s) <=> InUse(r)
      BY <3>3 DEF InUse
    <3> HIDE DEF s
    <3>5. Minor(p)
      BY <3>1, <3>2, <3>3, <3>4, KindMinor
    <3> QED BY <3>5 DEF Gentle
  <2> QED BY <2>1, <2>2
<1>3. CASE InTimeout(p)
  <2>1. CASE r.state = "incoming"
    <3>1. HangUp(p) /\ Tell(p) /\ UNCHANGED <<had, yielded, overtaken>>
      BY <1>3, <2>1 DEF InTimeout
    <3> QED BY <3>1, KindLeaves
  <2>2. CASE r.state # "incoming"
    <3> DEFINE s == [r EXCEPT !.in = FALSE]
    <3>1. /\ phone' = [phone EXCEPT ![p] = s]
          /\ UNCHANGED <<live, had, lines, yielded, overtaken>>
      BY <1>3, <2>2 DEF Types, InTimeout
    <3>2. s \in PhoneState
      BY <1>0, FieldTyped
    <3>3. /\ s.id = r.id /\ s.mic = r.mic /\ s.seen = r.seen /\ s.offered = r.offered
          /\ s.peer = r.peer /\ s.state = r.state /\ s.reset = r.reset
      BY <1>0 DEF PhoneState
    <3>4. InUse(s) <=> InUse(r)
      BY <3>3 DEF InUse
    <3> HIDE DEF s
    <3>5. Minor(p)
      BY <3>1, <3>2, <3>3, <3>4, KindMinor
    <3> QED BY <3>5 DEF Gentle
  <2> QED BY <2>1, <2>2
<1>4. CASE ResetTimeout(p)
  <2> DEFINE t == [r EXCEPT !.state = "idle"]
             u == [t EXCEPT !.peer = 0]
             s == [u EXCEPT !.reset = FALSE]
  <2>1. s = [r EXCEPT !.state = "idle", !.peer = 0, !.reset = FALSE]
    OBVIOUS
  <2>2. /\ phone' = [phone EXCEPT ![p] = s] /\ r.reset
        /\ UNCHANGED <<live, had, lines, yielded, overtaken>>
    BY <1>4, <2>1 DEF Types, ResetTimeout, history
  <2>3. /\ s.id = r.id /\ s.mic = r.mic /\ s.seen = r.seen /\ s.offered = r.offered
        /\ s.state = "idle" /\ ~s.reset
    BY <1>0 DEF PhoneState
  <2>4. t \in PhoneState
    BY <1>0, FieldTyped
  <2>5. u \in PhoneState
    <3>1. 0 \in 0..Phones
      BY CallsAssumption
    <3> HIDE DEF t
    <3> QED BY <2>4, <3>1, FieldTyped
  <2>6. s \in PhoneState
    <3> HIDE DEF u
    <3> QED BY <2>5, FieldTyped
  <2>7. ~InUse(s) /\ ~InUse(r)
    BY <1>0, <2>2, <2>3 DEF Keeps, InUse
  <2> HIDE DEF s
  <2>8. Minor(p)
    BY <2>2, <2>3, <2>6, <2>7, KindMinor
  <2> QED BY <2>8 DEF Gentle
<1>5. CASE Resend(p)
  <2>1. CASE UNCHANGED phone
    <3>1. UNCHANGED <<live, had, lines, yielded, overtaken>>
      BY <1>5 DEF Resend, history
    <3> QED BY <2>1, <3>1, KindQuiet DEF Gentle
  <2>2. CASE ~(UNCHANGED phone)
    <3> DEFINE t == [r EXCEPT !.retry = FALSE]
               s == [t EXCEPT !.offered = 0]
    <3>1. s = [r EXCEPT !.retry = FALSE, !.offered = 0]
      OBVIOUS
    <3>2. /\ phone' = [phone EXCEPT ![p] = s]
          /\ UNCHANGED <<live, had, lines, yielded, overtaken>>
      BY <1>5, <2>2, <3>1 DEF Resend, history
    <3>3. t \in PhoneState
      BY <1>0, FieldTyped
    <3>4. s \in PhoneState
      <4>1. 0 \in 0..MaxCalls
        BY CallsAssumption
      <4> HIDE DEF t
      <4> QED BY <3>3, <4>1, FieldTyped
    <3>5. /\ s.id = r.id /\ s.mic = r.mic /\ s.seen = r.seen /\ s.offered = 0
          /\ s.peer = r.peer /\ s.state = r.state /\ s.reset = r.reset
      BY <1>0 DEF PhoneState
    <3>6. InUse(s) <=> InUse(r)
      BY <3>5 DEF InUse
    <3> HIDE DEF s
    <3>7. Minor(p)
      BY <3>2, <3>4, <3>5, <3>6, KindMinor
    <3> QED BY <3>7 DEF Gentle
  <2> QED BY <2>1, <2>2
<1>6. CASE Kill(p)
  <2>1. Idle \in PhoneState
    <3>1. 0 \in 0..MaxCalls /\ 0 \in 0..Phones /\ None \in End \cup {None} /\ {} \in SUBSET Call
      BY CallsAssumption
    <3> QED BY <3>1 DEF Idle, PhoneState
  <2>2. phone' = [phone EXCEPT ![p] = Idle]
    BY <1>6 DEF Kill
  <2>3. phone'[p] = Idle /\ Only(p)
    BY <2>1, <2>2, OnePhone DEF Only, Types
  <2>4. kills' # 0
    BY <1>6 DEF Kill, Types
  <2>5. Dies(p)
    BY <1>6, <2>3, <2>4 DEF Kill, Dies
  <2> QED BY <1>6, <2>5
<1>7. CASE \E k \in Try : Accept(p, k)
  <2> DEFINE t == [r EXCEPT !.in = FALSE]
             s == [t EXCEPT !.reset = FALSE]
  <2>1. /\ phone' = [phone EXCEPT ![p].in = FALSE, ![p].reset = FALSE]
        /\ r.state = "incoming"
        /\ UNCHANGED <<live, had, lines, yielded, overtaken>>
    BY <1>7 DEF Accept, history
  <2>2. phone' = [phone EXCEPT ![p] = s]
    BY <2>1 DEF Types
  <2>3. t \in PhoneState
    BY <1>0, FieldTyped
  <2>4. s \in PhoneState
    <3> HIDE DEF t
    <3> QED BY <2>3, FieldTyped
  <2>5. /\ s.id = r.id /\ s.mic = r.mic /\ s.seen = r.seen /\ s.offered = r.offered
        /\ s.peer = r.peer /\ s.state = r.state /\ ~s.reset
    BY <1>0 DEF PhoneState
  <2>6. InUse(s) <=> InUse(r)
    BY <2>5 DEF InUse
  <2> HIDE DEF s
  <2>7. Minor(p)
    BY <2>1, <2>2, <2>4, <2>5, <2>6, KindMinor
  <2> QED BY <2>7 DEF Gentle
<1> QED BY <1>1, <1>2, <1>3, <1>4, <1>5, <1>6, <1>7 DEF Timers

\* The description of the other end.
LEMMA AppliedKinds ==
    ASSUME Types, CallsDialled, PhonesKeep, NEW c \in Call, Applied(c) \/ ApplyFails(c)
    PROVE \E p \in Phone : Gentle(p)
<1>1. UNCHANGED <<live, had, lines, yielded, overtaken>>
  BY DEF Applied, ApplyFails, history
<1>2. 1 \in Phone
  BY CallsAssumption DEF Phone
<1>3. CASE UNCHANGED phone
  BY <1>1, <1>2, <1>3, KindQuiet DEF Gentle
<1>4. CASE ~(UNCHANGED phone)
  <2> DEFINE p == from[c]
             r == phone[p]
             s == [r EXCEPT !.state = "connected"]
  <2>1. Has(p, "outgoing", c) /\ phone' = [phone EXCEPT ![p].state = "connected"]
    BY <1>4 DEF Applied, ApplyFails, Caller
  <2>2. p \in Phone
    <3>1. p \in DOMAIN phone
      BY <1>4, <2>1 DEF Types
    <3> QED BY <3>1 DEF Types
  <2>3. r \in PhoneState /\ Keeps(p, r)
    BY <2>2 DEF Types, PhonesKeep
  <2>4. phone' = [phone EXCEPT ![p] = s]
    BY <2>1, <2>2 DEF Types
  <2>5. s \in PhoneState
    BY <2>3, FieldTyped
  <2>6. /\ s.id = r.id /\ s.mic = r.mic /\ s.seen = r.seen /\ s.offered = r.offered
        /\ s.peer = r.peer /\ s.state = "connected" /\ s.reset = r.reset
    BY <2>3 DEF PhoneState
  <2>7. InUse(r) /\ ~r.reset
    BY <2>1, <2>3 DEF Has, InUse, Keeps
  <2> HIDE DEF s, p
  <2>8. Minor(p)
    BY <1>1, <2>2, <2>4, <2>5, <2>6, <2>7, KindMinor
  <2> QED BY <2>2, <2>8 DEF Gentle
<1> QED BY <1>3, <1>4

\* A phone posts an offer of the call it has, or an answer.
Posts(p) ==
    \E q \in Phone, m \in Message :
        /\ net' = [net EXCEPT ![<<p, q>>] = Append(@, m)]
        /\ Between(m, p, q)
        /\ \/ m.kind = "answer"
           \/ m.kind = "offer" /\ Busy(p) /\ phone[p].id = m.id /\ from[m.id] = p

\* Every step, and what it does to what is on its way.
Flow(p) ==
    \/ Gentle(p) /\ (net' = net \/ Posts(p))
    \/ Leaves(p) /\ Tell(p)
    \/ \E q \in Phone : Deliver(p, q) \/ Lost(p, q)
    \/ Dies(p) /\ Kill(p)

\* The awaits of initiateCall.
LEMMA DiallingFlow ==
    ASSUME Types, CallsDialled, PhonesKeep, NEW c \in Call, Dialling(c)
    PROVE from[c] \in Phone /\ Flow(from[c])
<1> DEFINE p == from[c]
<1>1. p \in Phone /\ (Gentle(p) \/ (Leaves(p) /\ Tell(p)))
  BY DiallingKinds
<1>2. Dialled(c)
  <2>1. 0 \in Try
    BY CallsAssumption DEF Try
  <2> QED BY <2>1, StageDialled
          DEF Dialling, DialReady, DialRefused, DialMedia, DialOffers, DialFails
<1>3. \/ net' = net
      \/ Tell(p) /\ DialFails(c)
      \/ net' = Posted(net, p, to[c], "offer", c) /\ Has(p, "outgoing", c)
  BY DEF Dialling, DialReady, DialRefused, DialMedia, DialOffers, DialFails, Caller, Callee
<1>4. CASE net' = Posted(net, p, to[c], "offer", c) /\ Has(p, "outgoing", c)
  <2> DEFINE m == [kind |-> "offer", id |-> c]
  <2>1. m \in Message /\ m.kind = "offer" /\ m.id = c
    BY DEF Message
  <2>2. net' = [net EXCEPT ![<<p, to[c]>>] = Append(@, m)]
    BY <1>4 DEF Posted
  <2> HIDE DEF m
  <2>3. Between(m, p, to[c])
    BY <1>2, <2>1 DEF Between, Offering, Dialled
  <2>4. Busy(p) /\ phone[p].id = c
    BY <1>4 DEF Busy, Has
  <2>5. to[c] \in Phone
    BY <1>2 DEF Dialled
  <2>6. Posts(p)
    BY <2>1, <2>2, <2>3, <2>4, <2>5 DEF Posts
  <2> QED BY <1>1, <2>6 DEF Flow
<1>5. CASE Tell(p) /\ DialFails(c)
  <2>1. HangUp(p) /\ UNCHANGED <<had, yielded, overtaken>>
    BY <1>5 DEF DialFails, Caller
  <2> QED BY <1>1, <1>5, <2>1, KindLeaves DEF Flow
<1> QED BY <1>1, <1>3, <1>4, <1>5 DEF Flow

\* The awaits of acceptCall.
LEMMA AcceptingFlow ==
    ASSUME Types, CallsDialled, PhonesKeep, NEW c \in Call, NEW k \in Try, Accepting(c, k)
    PROVE to[c] \in Phone /\ Flow(to[c])
<1> DEFINE p == to[c]
<1>1. p \in Phone /\ (Gentle(p) \/ (Leaves(p) /\ Tell(p)))
  BY AcceptingKinds
<1>2. Dialled(c)
  BY StageDialled DEF Accepting, AcceptRefused, AcceptMedia, AcceptWired, AcceptAnswers, AcceptFails
<1>3. \/ net' = net
      \/ Tell(p) /\ HangUp(p) /\ UNCHANGED <<had, yielded, overtaken>>
      \/ net' = Posted(net, p, from[c], "answer", c)
  BY DEF Accepting, AcceptRefused, AcceptMedia, AcceptWired, AcceptAnswers, AcceptFails, Caller,
         Callee
<1>4. CASE net' = Posted(net, p, from[c], "answer", c)
  <2> DEFINE m == [kind |-> "answer", id |-> c]
  <2>1. m \in Message /\ m.kind = "answer" /\ m.id = c
    BY DEF Message
  <2>2. net' = [net EXCEPT ![<<p, from[c]>>] = Append(@, m)]
    BY <1>4 DEF Posted
  <2> HIDE DEF m
  <2>3. Between(m, p, from[c])
    BY <1>2, <2>1 DEF Between, Replying, Dialled
  <2>4. from[c] \in Phone
    BY <1>2 DEF Dialled
  <2>5. Posts(p)
    BY <2>1, <2>2, <2>3, <2>4 DEF Posts
  <2> QED BY <1>1, <2>5 DEF Flow
<1>5. CASE Tell(p) /\ HangUp(p) /\ UNCHANGED <<had, yielded, overtaken>>
  BY <1>1, <1>5, KindLeaves DEF Flow
<1> QED BY <1>1, <1>3, <1>4, <1>5 DEF Flow

\* Buttons, timers, the network, and deaths.
LEMMA PhoneFlow ==
    ASSUME Types, CallsDialled, PhonesKeep, NEW p \in Phone,
           \/ HangUpPressed(p) \/ Timers(p) \/ IceFails(p) \/ Kill(p)
           \/ \E k \in Try : Accept(p, k)
    PROVE Flow(p)
<1>1. \/ Gentle(p) \/ (Leaves(p) /\ Tell(p)) \/ (Dies(p) /\ Kill(p))
  BY PhoneKinds
<1> DEFINE r == phone[p]
<1>2. \/ net' = net
      \/ Tell(p) /\ HangUp(p) /\ UNCHANGED <<had, yielded, overtaken>>
      \/ /\ net' = Posted(net, p, r.peer, "offer", r.offered)
         /\ r.state = "outgoing" /\ r.offered # 0 /\ UNCHANGED kills
  BY DEF HangUpPressed, Timers, IceFails, Kill, Accept, OutTimeout, InTimeout, ResetTimeout, Resend
<1>3. CASE /\ net' = Posted(net, p, r.peer, "offer", r.offered)
           /\ r.state = "outgoing" /\ r.offered # 0 /\ UNCHANGED kills
  <2> DEFINE c == r.id
             m == [kind |-> "offer", id |-> c]
  <2>1. Busy(p) /\ InUse(r)
    BY <1>3 DEF Busy, InUse
  <2>2. /\ r.offered = c /\ c \in Call /\ r.peer = to[c] /\ from[c] = p
        /\ Dialled(c) /\ to[c] \in Phone
    BY <1>3, <2>1 DEF PhonesKeep, Keeps, Calling, Called, Dialled
  <2> HIDE DEF c
  <2>3. m \in Message /\ m.kind = "offer" /\ m.id = c
    BY <2>2 DEF Message
  <2>4. net' = [net EXCEPT ![<<p, to[c]>>] = Append(@, m)]
    BY <1>3, <2>2 DEF Posted
  <2> HIDE DEF m
  <2>5. Between(m, p, to[c])
    BY <2>2, <2>3 DEF Between, Offering
  <2>6. phone[p].id = c
    BY DEF c
  <2>7. Posts(p)
    BY <2>1, <2>2, <2>3, <2>4, <2>5, <2>6 DEF Posts
  <2>8. ~Kill(p)
    BY <1>3 DEF Kill, Types
  <2> QED BY <1>1, <2>7, <2>8 DEF Flow
<1>4. CASE Tell(p) /\ HangUp(p) /\ UNCHANGED <<had, yielded, overtaken>>
  BY <1>4, KindLeaves DEF Flow
<1> QED BY <1>1, <1>2, <1>3, <1>4 DEF Flow

-----------------------------------------------------------------------------
(* What the kinds of steps leave in order.                                 *)

\* A call keeps its two phones.
LEMMA StaysDialled ==
    ASSUME Rest, NEW c \in Call, Dialled(c)
    PROVE Dialled(c)' /\ from'[c] = from[c] /\ to'[c] = to[c]
BY DEF Rest, Forward, Dialled

\* The record stays typed.
LEMMA KindTyped ==
    ASSUME Types, PhonesKeep, NEW p \in Phone, Kind(p)
    PROVE /\ phone' \in [Phone -> PhoneState] /\ live' \subseteq End
          /\ had' \subseteq Phone \X Call /\ lines' \in [Phone \X Call -> Nat]
          /\ yielded' \subseteq Call /\ overtaken' \in BOOLEAN
<1> DEFINE r == phone[p]
<1>1. Only(p) => phone' \in [Phone -> PhoneState]
  BY DEF Only
<1>2. InUse(r) => r.id \in Call
  BY DEF PhonesKeep, Keeps
<1>3. CASE Minor(p)
  BY <1>1, <1>3 DEF Minor, SameRecord, Types
<1>4. CASE Leaves(p)
  <2>1. lines' \in [Phone \X Call -> Nat]
    <3>1. CASE InUse(r)
      <4> DEFINE k == <<p, r.id>>
      <4>1. k \in Phone \X Call
        BY <1>2, <3>1
      <4>2. lines' = [lines EXCEPT ![k] = @ + 1]
        BY <1>4, <3>1 DEF Leaves
      <4> HIDE DEF k
      <4> QED BY <4>1, <4>2 DEF Types
    <3>2. CASE ~InUse(r)
      BY <1>4, <3>2 DEF Leaves, Types
    <3> QED BY <3>1, <3>2
  <2> QED BY <1>1, <1>4, <2>1 DEF Leaves, Types
<1>5. CASE \E c \in Call : Starts(p, c)
  BY <1>1, <1>5 DEF Starts, Types
<1>6. CASE \E e \in End \cup {None} : Tunes(p, e)
  BY <1>1, <1>6 DEF Tunes, SameRecord, Types
<1>7. CASE \E q \in Phone, c \in Call : Rung(p, q, c)
  <2>1. r.state = "outgoing" => r.id \in Call
    BY <1>2 DEF InUse
  <2> QED BY <1>1, <1>7, <2>1 DEF Rung, Types
<1>8. CASE Dies(p)
  <2>1. lines' \in [Phone \X Call -> Nat]
    BY <1>8 DEF Dies, Types
  <2> QED BY <1>1, <1>8, <2>1 DEF Dies, Types
<1> QED BY <1>3, <1>4, <1>5, <1>6, <1>7, <1>8 DEF Kind

\* A phone that keeps the call it has, and the microphone.
LEMMA KeepsOn ==
    ASSUME Types, Rest, NEW p \in Phone, Keeps(p, phone[p]),
           phone'[p].id = phone[p].id, phone'[p].mic = phone[p].mic,
           \/ phone'[p].offered \in {0, phone[p].offered}
           \/ /\ phone'[p].offered = phone[p].id
              /\ from[phone[p].id] = p /\ InUse(phone[p]),
           InUse(phone[p]) => /\ InUse(phone'[p]) /\ phone'[p].peer = phone[p].peer
                              /\ phone'[p].state \in {phone[p].state, "connected"},
           ~InUse(phone[p]) => ~InUse(phone'[p]),
           phone'[p].reset => phone[p].reset /\ phone'[p].state = phone[p].state
    PROVE Keeps(p, phone[p])'
<1> DEFINE r == phone[p]
           s == phone'[p]
<1>1. r \in PhoneState
  BY DEF Types
<1>2. CASE InUse(r)
  <2>1. /\ r.id \in Call /\ Dialled(r.id)
        /\ Calling(p, r) \/ Called(p, r)
        /\ r.reset => r.state = "ended"
        /\ r.offered # 0 => r.offered = r.id /\ from[r.id] = p
        /\ r.mic # None => /\ r.mic[1] = r.id /\ EndOf(p, r.mic)
                           /\ stage[r.mic] \notin {"unused", "ready", "media"}
    BY <1>2 DEF Keeps
  <2>2. from'[r.id] = from[r.id] /\ to'[r.id] = to[r.id]
    <3>1. \A c \in Call : Dialled(c) => from'[c] = from[c] /\ to'[c] = to[c]
      BY StaysDialled
    <3> QED BY <2>1, <3>1
  <2>3. InUse(s)
    BY <1>2
  <2>4. s.reset => s.state = "ended"
    BY <2>1
  <2>5. s.offered # 0 => s.offered = s.id /\ from'[s.id] = p
    BY <2>1, <2>2
  <2>6. s.mic # None => /\ s.mic[1] = s.id
                        /\ IF s.mic[2] = 0 THEN from'[s.mic[1]] = p ELSE to'[s.mic[1]] = p
                        /\ stage'[s.mic] \notin {"unused", "ready", "media"}
    <3>1. r.mic # None => r.mic \in End
      BY <1>1 DEF PhoneState
    <3>2. r.mic # None => stage'[r.mic] \notin {"unused", "ready", "media"}
      BY <2>1, <3>1 DEF Rest, Forward
    <3> QED BY <2>1, <2>2, <3>2 DEF EndOf
  <2>7. \/ from'[s.id] = p /\ to'[s.id] = s.peer /\ s.state # "incoming"
        \/ to'[s.id] = p /\ from'[s.id] = s.peer /\ s.state # "outgoing"
    BY <1>2, <2>1, <2>2 DEF Calling, Called
  <2>8. s.id \in Call /\ from'[s.id] \in Phone /\ to'[s.id] \in Phone /\ from'[s.id] # to'[s.id]
    BY <2>1, <2>2 DEF Dialled
  <2> QED BY <2>3, <2>4, <2>5, <2>6, <2>7, <2>8 DEF Keeps, Dialled, Calling, Called, EndOf, InUse
<1>3. CASE ~InUse(r)
  <2>1. r.id = 0 /\ r.mic = None /\ r.offered = 0 /\ (r.reset => r.state = "ended")
    BY <1>3 DEF Keeps
  <2>2. /\ ~InUse(s) /\ s.id = 0 /\ s.mic = None /\ s.offered = 0
        /\ s.reset => s.state = "ended"
    BY <1>3, <2>1
  <2> QED BY <2>2 DEF Keeps, InUse
<1> QED BY <1>2, <1>3

\* After every step a phone keeps only what is of the call it has.
LEMMA KindPhones ==
    ASSUME Types, PhonesKeep, Rest, NEW p \in Phone, Kind(p)
    PROVE PhonesKeep'
<1> DEFINE r == phone[p]
           s == phone'[p]
<1>1. Only(p)
  BY DEF Kind, Minor, Leaves, Starts, Tunes, Rung, Dies
<1>2. \A x \in Phone : phone[x] \in PhoneState /\ Keeps(x, phone[x])
  BY DEF Types, PhonesKeep
<1>3. ASSUME NEW x \in Phone, x # p
      PROVE Keeps(x, phone[x])'
  <2>1. phone'[x] = phone[x]
    BY <1>1, <1>3 DEF Only
  <2> QED BY <1>2, <2>1, KeepsOn
<1>4. Keeps(p, phone[p])'
  <2>1. CASE Minor(p)
    BY <1>2, <2>1, KeepsOn DEF Minor
  <2>2. CASE Leaves(p)
    BY <2>2 DEF Leaves, Keeps, InUse
  <2>3. ASSUME NEW c \in Call, Starts(p, c)
        PROVE Keeps(p, phone[p])'
    <3>1. Dialled(c) /\ from[c] = p /\ ~InUse(r)
      BY <2>3 DEF Starts
    <3>2. r.mic = None /\ r.offered = 0
      BY <1>2, <3>1 DEF Keeps
    <3>3. Dialled(c)' /\ from'[c] = from[c] /\ to'[c] = to[c]
      BY <3>1, StaysDialled
    <3>4. /\ s.state = "outgoing" /\ s.id = c /\ s.peer = to[c] /\ ~s.reset
          /\ s.mic = None /\ s.offered = 0
      BY <2>3, <3>2 DEF Starts
    <3> QED BY <3>1, <3>3, <3>4 DEF Keeps, Calling, InUse, Dialled
  <2>4. ASSUME NEW e \in End \cup {None}, Tunes(p, e)
        PROVE Keeps(p, phone[p])'
    <3>1. /\ s.state = r.state /\ s.id = r.id /\ s.peer = r.peer /\ s.reset = r.reset
          /\ s.offered = r.offered /\ s.mic = e
          /\ e = None \/ (e \in End /\ InUse(r) /\ r.id = e[1] /\ EndOf(p, e) /\ stage'[e] = "wiring")
      BY <2>4 DEF Tunes
    <3>2. InUse(s) <=> InUse(r)
      BY <3>1 DEF InUse
    <3>3. CASE InUse(r)
      <4>1. /\ r.id \in Call /\ Dialled(r.id)
            /\ Calling(p, r) \/ Called(p, r)
            /\ r.reset => r.state = "ended"
            /\ r.offered # 0 => r.offered = r.id /\ from[r.id] = p
        BY <1>2, <3>3 DEF Keeps
      <4>2. from'[r.id] = from[r.id] /\ to'[r.id] = to[r.id]
        <5>1. \A c \in Call : Dialled(c) => from'[c] = from[c] /\ to'[c] = to[c]
          BY StaysDialled
        <5> QED BY <4>1, <5>1
      <4>3. s.reset => s.state = "ended"
        BY <3>1, <4>1
      <4>4. s.offered # 0 => s.offered = s.id /\ from'[s.id] = p
        BY <3>1, <4>1, <4>2
      <4>5. s.mic # None => /\ s.mic[1] = s.id
                            /\ IF s.mic[2] = 0 THEN from'[s.mic[1]] = p ELSE to'[s.mic[1]] = p
                            /\ stage'[s.mic] \notin {"unused", "ready", "media"}
        BY <3>1, <4>2 DEF EndOf
      <4>6. \/ from'[s.id] = p /\ to'[s.id] = s.peer /\ s.state # "incoming"
            \/ to'[s.id] = p /\ from'[s.id] = s.peer /\ s.state # "outgoing"
        BY <3>1, <4>1, <4>2 DEF Calling, Called
      <4>7. /\ s.id \in Call /\ from'[s.id] \in Phone /\ to'[s.id] \in Phone
            /\ from'[s.id] # to'[s.id]
        BY <3>1, <4>1, <4>2 DEF Dialled
      <4>8. InUse(s)
        BY <3>2, <3>3
      <4> QED BY <4>3, <4>4, <4>5, <4>6, <4>7, <4>8
               DEF Keeps, Dialled, Calling, Called, EndOf, InUse
    <3>4. CASE ~InUse(r)
      <4>1. r.id = 0 /\ r.offered = 0 /\ (r.reset => r.state = "ended")
        BY <1>2, <3>4 DEF Keeps
      <4>2. /\ ~InUse(s) /\ s.id = 0 /\ s.mic = None /\ s.offered = 0
            /\ s.reset => s.state = "ended"
        BY <3>1, <3>2, <3>4, <4>1
      <4> QED BY <4>2 DEF Keeps, InUse
    <3> QED BY <3>3, <3>4
  <2>5. ASSUME NEW q \in Phone, NEW c \in Call, Rung(p, q, c)
        PROVE Keeps(p, phone[p])'
    <3>1. /\ Dialled(c) /\ from[c] = q /\ to[c] = p
          /\ s.state = "incoming" /\ s.id = c /\ s.peer = q /\ ~s.reset
      BY <2>5 DEF Rung
    <3>2. s.mic = None /\ s.offered = 0
      BY <1>2, <2>5 DEF Rung, Keeps
    <3>3. Dialled(c)' /\ from'[c] = from[c] /\ to'[c] = to[c]
      BY <3>1, StaysDialled
    <3> QED BY <3>1, <3>2, <3>3 DEF Keeps, Called, InUse, Dialled
  <2>6. CASE Dies(p)
    BY <2>6 DEF Dies, Idle, Keeps, InUse
  <2> QED BY <2>1, <2>2, <2>3, <2>4, <2>5, <2>6 DEF Kind
<1> QED BY <1>3, <1>4 DEF PhonesKeep

\* Calls that a phone has not had, and the one it has.
LEMMA HadFacts ==
    ASSUME Types, PhonesKeep, HadByEnds, NEW p \in Phone
    PROVE /\ \A c \in Call : Dialled(c) /\ from[c] = p /\ stage[<<c, 0>>] \in {"unused", "ready"} =>
                <<p, c>> \notin had /\ c \notin yielded
          /\ \A c \in Call : Dialled(c) /\ to[c] = p /\ c \notin phone[p].seen =>
                <<p, c>> \notin had
          /\ InUse(phone[p]) => /\ phone[p].id \in Call /\ Dialled(phone[p].id)
                                /\ <<p, phone[p].id>> \in had
                                /\ ~(phone[p].id \in yielded /\ from[phone[p].id] = p)
          /\ phone[p].state = "outgoing" =>
                /\ from[phone[p].id] = p
                /\ stage[<<phone[p].id, 0>>] \notin {"unused", "ready"}
<1>1. InUse(phone[p]) => /\ phone[p].id \in Call /\ Dialled(phone[p].id)
                         /\ <<p, phone[p].id>> \in had
                         /\ ~(phone[p].id \in yielded /\ from[phone[p].id] = p)
  BY DEF HadByEnds, PhonesKeep, Keeps, Busy, InUse
<1>2. \A c \in Call : Dialled(c) /\ from[c] = p /\ stage[<<c, 0>>] \in {"unused", "ready"} =>
                <<p, c>> \notin had /\ c \notin yielded
  BY DEF HadByEnds
<1>3. \A c \in Call : Dialled(c) /\ to[c] = p /\ c \notin phone[p].seen => <<p, c>> \notin had
  BY DEF HadByEnds
<1>4. phone[p].state = "outgoing" =>
                /\ from[phone[p].id] = p
                /\ stage[<<phone[p].id, 0>>] \notin {"unused", "ready"}
  <2>1. phone[p].state = "outgoing" => from[phone[p].id] = p /\ InUse(phone[p])
    BY DEF PhonesKeep, Keeps, Called, Calling, InUse
  <2> QED BY <1>1, <1>2, <2>1
<1> QED BY <1>1, <1>2, <1>3, <1>4

\* What is new in the record.
LEMMA KindHad ==
    ASSUME Types, PhonesKeep, HadByEnds, NEW p \in Phone, Kind(p)
    PROVE /\ \A x \in Phone, c \in Call : <<x, c>> \in had' =>
                \/ <<x, c>> \in had
                \/ /\ x = p /\ Dialled(c) /\ x \in {from[c], to[c]} /\ <<x, c>> \notin had
                   /\ x = from[c] => stage'[<<c, 0>>] = "media"
          /\ \A x \in Phone, c \in Call : <<x, c>> \in had' /\ x = to[c] => c \in phone'[x].seen
          /\ \A c \in yielded' : c \in yielded \/ (c = phone[p].id /\ phone[p].state = "outgoing")
          /\ \A pc \in Phone \X Call : pc \notin had' => lines'[pc] = 0
<1> USE HadFacts
<1>1. \A x \in Phone, c \in Call : <<x, c>> \in had /\ x = to[c] => c \in phone[x].seen
  BY DEF HadByEnds
<1>2. \A x \in Phone, c \in Call : <<x, c>> \in had => Dialled(c)
  BY DEF HadByEnds
<1>3. \A pc \in Phone \X Call : pc \notin had => lines[pc] = 0
  BY DEF HadByEnds
<1>4. CASE Minor(p)
  BY <1>1, <1>3, <1>4 DEF Minor, Only, SameRecord
<1>5. CASE Leaves(p)
  <2> DEFINE r == phone[p]
  <2>1. lines' = IF InUse(r) THEN [lines EXCEPT ![<<p, r.id>>] = @ + 1] ELSE lines
    BY <1>5 DEF Leaves
  <2>2. \A pc \in Phone \X Call : pc \notin had => lines'[pc] = 0
    <3>1. CASE InUse(r)
      <4> DEFINE k == <<p, r.id>>
      <4>1. k \in had
        BY <3>1
      <4>2. lines' = [lines EXCEPT ![k] = @ + 1]
        BY <2>1, <3>1
      <4> HIDE DEF k
      <4> QED BY <1>3, <4>1, <4>2 DEF Types
    <3> QED BY <1>3, <2>1, <3>1
  <2>3. had' = had /\ yielded' = yielded /\ phone'[p].seen = r.seen /\ Only(p)
    BY <1>5 DEF Leaves
  <2> QED BY <1>1, <2>2, <2>3 DEF Only
<1>6. ASSUME NEW d \in Call, Starts(p, d)
      PROVE /\ \A x \in Phone, c \in Call : <<x, c>> \in had' =>
                  \/ <<x, c>> \in had
                  \/ /\ x = p /\ Dialled(c) /\ x \in {from[c], to[c]} /\ <<x, c>> \notin had
                     /\ x = from[c] => stage'[<<c, 0>>] = "media"
            /\ \A x \in Phone, c \in Call : <<x, c>> \in had' /\ x = to[c] => c \in phone'[x].seen
            /\ \A c \in yielded' : c \in yielded \/ (c = phone[p].id /\ phone[p].state = "outgoing")
            /\ \A pc \in Phone \X Call : pc \notin had' => lines'[pc] = 0
  <2>1. /\ Dialled(d) /\ from[d] = p /\ had' = had \cup {<<p, d>>}
        /\ stage[<<d, 0>>] = "ready" /\ stage'[<<d, 0>>] = "media"
        /\ UNCHANGED <<lines, yielded>> /\ Only(p) /\ phone'[p].seen = phone[p].seen
    BY <1>6 DEF Starts
  <2>2. <<p, d>> \notin had /\ to[d] # p
    BY <2>1 DEF Dialled
  <2>3. \A x \in Phone, c \in Call : <<x, c>> \in had' => <<x, c>> \in had \/ (x = p /\ c = d)
    BY <2>1
  <2>4. \A x \in Phone, c \in Call : <<x, c>> \in had' /\ x = to[c] => c \in phone'[x].seen
    BY <1>1, <2>1, <2>2, <2>3 DEF Only
  <2> QED BY <1>3, <2>1, <2>2, <2>3, <2>4
<1>7. CASE \E e \in End \cup {None} : Tunes(p, e)
  BY <1>1, <1>3, <1>7 DEF Tunes, Only, SameRecord
<1>8. ASSUME NEW q \in Phone, NEW d \in Call, Rung(p, q, d)
      PROVE /\ \A x \in Phone, c \in Call : <<x, c>> \in had' =>
                  \/ <<x, c>> \in had
                  \/ /\ x = p /\ Dialled(c) /\ x \in {from[c], to[c]} /\ <<x, c>> \notin had
                     /\ x = from[c] => stage'[<<c, 0>>] = "media"
            /\ \A x \in Phone, c \in Call : <<x, c>> \in had' /\ x = to[c] => c \in phone'[x].seen
            /\ \A c \in yielded' : c \in yielded \/ (c = phone[p].id /\ phone[p].state = "outgoing")
            /\ \A pc \in Phone \X Call : pc \notin had' => lines'[pc] = 0
  <2>1. /\ Dialled(d) /\ to[d] = p /\ from[d] = q /\ had' = had \cup {<<p, d>>}
        /\ d \notin phone[p].seen /\ lines' = lines /\ Only(p)
        /\ phone'[p].seen = phone[p].seen \cup {d}
        /\ \/ yielded' = yielded
           \/ phone[p].state = "outgoing" /\ yielded' = yielded \cup {phone[p].id}
    BY <1>8 DEF Rung
  <2>2. <<p, d>> \notin had /\ from[d] # p
    BY <2>1 DEF Dialled
  <2>3. \A x \in Phone, c \in Call : <<x, c>> \in had' => <<x, c>> \in had \/ (x = p /\ c = d)
    BY <2>1
  <2>4. \A x \in Phone, c \in Call : <<x, c>> \in had' /\ x = to[c] => c \in phone'[x].seen
    BY <1>1, <2>1, <2>3 DEF Only
  <2>5. \A pc \in Phone \X Call : pc \notin had' => lines'[pc] = 0
    BY <1>3, <2>1
  <2>6. \A c \in yielded' : c \in yielded \/ (c = phone[p].id /\ phone[p].state = "outgoing")
    BY <2>1
  <2> QED BY <2>1, <2>2, <2>3, <2>4, <2>5, <2>6
<1>9. CASE Dies(p)
  <2>1. /\ Only(p) /\ UNCHANGED yielded
        /\ had' = {pc \in had : pc[1] # p}
        /\ lines' = [pc \in Phone \X Call |-> IF pc[1] = p THEN 0 ELSE lines[pc]]
    BY <1>9 DEF Dies
  <2>2. \A pc \in Phone \X Call : pc \notin had' => lines'[pc] = 0
    BY <1>3, <2>1
  <2>3. \A x \in Phone, c \in Call : <<x, c>> \in had' => <<x, c>> \in had /\ x # p
    BY <2>1
  <2>4. \A x \in Phone, c \in Call : <<x, c>> \in had' /\ x = to[c] => c \in phone'[x].seen
    BY <1>1, <2>1, <2>3 DEF Only
  <2> QED BY <2>1, <2>2, <2>3, <2>4
<1> QED BY <1>4, <1>5, <1>6, <1>7, <1>8, <1>9 DEF Kind

\* A phone that is in a call has it in its record, and has not given it up.
LEMMA KindBusy ==
    ASSUME Types, PhonesKeep, HadByEnds, Rest, NEW p \in Phone, Kind(p),
           NEW x \in Phone, InUse(phone'[x])
    PROVE /\ <<x, phone'[x].id>> \in had'
          /\ ~(phone'[x].id \in yielded' /\ from'[phone'[x].id] = x)
<1> DEFINE r == phone[p]
           s == phone'[p]
<1>1. Only(p)
  BY DEF Kind, Minor, Leaves, Starts, Tunes, Rung, Dies
<1>2. \A c \in yielded' : c \in yielded \/ (c = r.id /\ r.state = "outgoing")
  BY KindHad
<1>3. CASE InUse(phone[x]) /\ phone'[x].id = phone[x].id
          /\ (x # p \/ (had' = had /\ yielded' = yielded))
  <2> DEFINE c == phone[x].id
  <2>1. c \in Call /\ Dialled(c) /\ <<x, c>> \in had /\ ~(c \in yielded /\ from[c] = x)
    BY <1>3, HadFacts
  <2>2. from'[c] = from[c]
    BY <2>1, StaysDialled
  <2>3. <<x, c>> \in had'
    BY <1>3, <2>1 DEF Kind, Minor, SameRecord, Leaves, Starts, Tunes, Rung, Dies
  <2>4. ~(c \in yielded' /\ from[c] = x)
    <3>1. CASE x = p
      BY <1>3, <2>1, <3>1
    <3>2. CASE x # p
      <4>1. r.state = "outgoing" => from[r.id] = p
        BY HadFacts
      <4> QED BY <1>2, <2>1, <3>2, <4>1
    <3> QED BY <3>1, <3>2
  <2> QED BY <1>3, <2>2, <2>3, <2>4
<1>4. CASE x # p
  <2>1. phone'[x] = phone[x]
    BY <1>1, <1>4 DEF Only
  <2> QED BY <1>3, <1>4, <2>1
<1>5. CASE x = p
  <2>1. CASE Minor(p)
    BY <1>3, <1>5, <2>1 DEF Minor, SameRecord
  <2>2. CASE Leaves(p)
    BY <1>5, <2>2 DEF Leaves
  <2>3. ASSUME NEW d \in Call, Starts(p, d)
        PROVE <<p, s.id>> \in had' /\ ~(s.id \in yielded' /\ from'[s.id] = p)
    <3>1. /\ Dialled(d) /\ from[d] = p /\ had' = had \cup {<<p, d>>} /\ s.id = d
          /\ stage[<<d, 0>>] = "ready" /\ UNCHANGED yielded
      BY <2>3 DEF Starts
    <3>2. d \notin yielded
      BY <3>1, HadFacts
    <3> QED BY <3>1, <3>2
  <2>4. CASE \E e \in End \cup {None} : Tunes(p, e)
    <3>1. s.id = r.id /\ s.state = r.state /\ had' = had /\ yielded' = yielded
      BY <2>4 DEF Tunes, SameRecord
    <3> QED BY <1>3, <1>5, <3>1 DEF InUse
  <2>5. ASSUME NEW q \in Phone, NEW d \in Call, Rung(p, q, d)
        PROVE <<p, s.id>> \in had' /\ ~(s.id \in yielded' /\ from'[s.id] = p)
    <3>1. Dialled(d) /\ to[d] = p /\ from[d] = q /\ had' = had \cup {<<p, d>>} /\ s.id = d
      BY <2>5 DEF Rung
    <3>2. from'[d] = from[d] /\ from[d] # p
      BY <3>1, StaysDialled DEF Dialled
    <3> QED BY <3>1, <3>2
  <2>6. CASE Dies(p)
    BY <1>5, <2>6 DEF Dies, Idle, InUse
  <2> QED BY <1>5, <2>1, <2>2, <2>3, <2>4, <2>5, <2>6 DEF Kind
<1> QED BY <1>4, <1>5

\* The record stays in order: who had a call, who gave one up.
LEMMA KindRecord ==
    ASSUME Types, PhonesKeep, HadByEnds, Rest, NEW p \in Phone, Kind(p)
    PROVE HadByEnds'
<1>0. /\ had \subseteq Phone \X Call /\ had' \subseteq Phone \X Call
      /\ yielded \subseteq Call /\ yielded' \subseteq Call
  BY KindTyped DEF Types
<1>1. \A x \in Phone, c \in Call : <<x, c>> \in had' =>
          /\ Dialled(c) /\ x \in {from[c], to[c]}
          /\ Dialled(c)' /\ from'[c] = from[c] /\ to'[c] = to[c]
  <2>1. \A x \in Phone, c \in Call : <<x, c>> \in had => Dialled(c) /\ x \in {from[c], to[c]}
    BY DEF HadByEnds
  <2>2. \A x \in Phone, c \in Call : <<x, c>> \in had' => Dialled(c) /\ x \in {from[c], to[c]}
    BY <2>1, KindHad
  <2> QED BY <2>2, StaysDialled
<1>2. \A pc \in had' : pc[1] \in Phone /\ pc[2] \in Call /\ pc = <<pc[1], pc[2]>>
  BY <1>0
<1>3. \A pc \in had' : Dialled(pc[2])' /\ pc[1] \in {from'[pc[2]], to'[pc[2]]}
  BY <1>1, <1>2 DEF Dialled
<1>4. \A pc \in had' : pc[1] = to'[pc[2]] => pc[2] \in phone'[pc[1]].seen
  <2>1. \A x \in Phone, c \in Call : <<x, c>> \in had' /\ x = to'[c] => c \in phone'[x].seen
    <3>1. \A x \in Phone, c \in Call : <<x, c>> \in had' /\ x = to[c] => c \in phone'[x].seen
      BY KindHad
    <3> QED BY <1>1, <3>1
  <2> SUFFICES ASSUME NEW pc \in had', pc[1] = to'[pc[2]]
               PROVE pc[2] \in phone'[pc[1]].seen
    OBVIOUS
  <2> DEFINE x == pc[1]
             c == pc[2]
  <2>2. x \in Phone /\ c \in Call /\ <<x, c>> \in had'
    BY <1>2
  <2> HIDE DEF x, c
  <2>3. x = to'[c] => c \in phone'[x].seen
    BY <2>1, <2>2
  <2> QED BY <2>3 DEF x, c
<1>5. \A c \in Call : stage'[<<c, 0>>] \in {"unused", "ready"} =>
          <<from'[c], c>> \notin had' /\ c \notin yielded'
  <2> SUFFICES ASSUME NEW c \in Call, stage'[<<c, 0>>] \in {"unused", "ready"}
               PROVE <<from'[c], c>> \notin had' /\ c \notin yielded'
    OBVIOUS
  <2>1. stage[<<c, 0>>] \in {"unused", "ready"}
    BY DEF Rest, Forward
  <2>2. <<from[c], c>> \notin had /\ c \notin yielded
    BY <2>1 DEF HadByEnds
  <2>3. c \notin yielded'
    <3> SUFFICES ASSUME c \in yielded'
                 PROVE FALSE
      OBVIOUS
    <3>1. c = phone[p].id /\ phone[p].state = "outgoing"
      BY <2>2, KindHad
    <3>2. stage[<<phone[p].id, 0>>] \notin {"unused", "ready"}
      BY <3>1, HadFacts
    <3> QED BY <2>1, <3>1, <3>2
  <2>4. <<from'[c], c>> \notin had'
    <3> SUFFICES ASSUME <<from'[c], c>> \in had'
                 PROVE FALSE
      OBVIOUS
    <3>1. from'[c] \in Phone
      BY <1>2
    <3>2. from'[c] = from[c]
      BY <1>1, <3>1
    <3> QED BY <2>2, <3>1, <3>2, KindHad
  <2> QED BY <2>3, <2>4
<1>6. \A x \in Phone : Busy(x)' =>
          /\ <<x, phone'[x].id>> \in had'
          /\ ~(phone'[x].id \in yielded' /\ from'[phone'[x].id] = x)
  <2> SUFFICES ASSUME NEW x \in Phone, Busy(x)'
               PROVE /\ <<x, phone'[x].id>> \in had'
                     /\ ~(phone'[x].id \in yielded' /\ from'[phone'[x].id] = x)
    OBVIOUS
  <2>1. InUse(phone'[x])
    BY DEF Busy, InUse
  <2> QED BY <2>1, KindBusy
<1>7. \A pc \in Phone \X Call : pc \notin had' => lines'[pc] = 0
  BY KindHad
<1> QED BY <1>3, <1>4, <1>5, <1>6, <1>7 DEF HadByEnds

\* The log: a call of a phone is written down once.
LEMMA KindOnce ==
    ASSUME Types, PhonesKeep, HadByEnds, RecordedOnce, Rest, NEW p \in Phone, Kind(p)
    PROVE RecordedOnce'
<1> DEFINE r == phone[p]
           s == phone'[p]
           Within(x, c) == InUse(phone[x]) /\ phone[x].id = c
           Given(x, c) == c \in yielded /\ from[c] = x
           Within1(x, c) == InUse(phone'[x]) /\ phone'[x].id = c
           Given1(x, c) == c \in yielded' /\ from[c] = x
<1>0. had' \subseteq Phone \X Call
  BY KindTyped
<1>1. \A x \in Phone, c \in Call : <<x, c>> \in had =>
          lines[<<x, c>>] = IF Within(x, c) \/ Given(x, c) THEN 0 ELSE 1
  BY DEF RecordedOnce, Busy, InUse
<1>2. Only(p)
  BY DEF Kind, Minor, Leaves, Starts, Tunes, Rung, Dies
<1>3. \A x \in Phone : x # p => phone'[x] = phone[x]
  BY <1>2 DEF Only
<1>4. r.state = "outgoing" => from[r.id] = p
  BY HadFacts
<1>5. ASSUME NEW x \in Phone, NEW c \in Call, <<x, c>> \in had'
      PROVE lines'[<<x, c>>] = IF Within1(x, c) \/ Given1(x, c) THEN 0 ELSE 1
  <2>1. \A d \in yielded' : d \in yielded \/ (d = r.id /\ r.state = "outgoing")
    BY KindHad
  <2>2. CASE Minor(p)
    BY <1>1, <1>3, <1>5, <2>2 DEF Minor, SameRecord
  <2>3. CASE Leaves(p)
    <3>1. <<x, c>> \in had /\ yielded' = yielded /\ ~InUse(s)
          /\ lines' = IF InUse(r) THEN [lines EXCEPT ![<<p, r.id>>] = @ + 1] ELSE lines
      BY <1>5, <2>3 DEF Leaves
    <3>2. CASE x = p /\ Within(x, c)
      <4>1. lines[<<x, c>>] = 0
        BY <1>1, <3>1, <3>2
      <4>2. ~Given(x, c)
        BY <3>2, HadFacts
      <4>3. lines'[<<x, c>>] = 1
        BY <3>1, <3>2, <4>1 DEF Types
      <4> QED BY <3>1, <3>2, <4>2, <4>3
    <3>3. CASE ~(x = p /\ Within(x, c))
      <4>1. lines'[<<x, c>>] = lines[<<x, c>>]
        <5>1. CASE InUse(r)
          <6> DEFINE k == <<p, r.id>>
                     m == <<x, c>>
          <6>1. k # m /\ m \in Phone \X Call
            BY <3>3, <5>1
          <6>2. lines' = [lines EXCEPT ![k] = @ + 1]
            BY <3>1, <5>1
          <6> HIDE DEF k, m
          <6>3. lines'[m] = lines[m]
            BY <6>1, <6>2 DEF Types
          <6> QED BY <6>3 DEF m
        <5> QED BY <3>1, <5>1
      <4>2. x = p => ~Within(x, c) /\ ~Within1(x, c)
        BY <3>1, <3>3
      <4>3. x # p => (Within(x, c) <=> Within1(x, c))
        BY <1>3
      <4> QED BY <1>1, <3>1, <4>1, <4>2, <4>3
    <3> QED BY <3>2, <3>3
  <2>4. ASSUME NEW d \in Call, Starts(p, d)
        PROVE lines'[<<x, c>>] = IF Within1(x, c) \/ Given1(x, c) THEN 0 ELSE 1
    <3>1. /\ Dialled(d) /\ from[d] = p /\ had' = had \cup {<<p, d>>} /\ s.id = d /\ ~InUse(r)
          /\ stage[<<d, 0>>] = "ready" /\ UNCHANGED <<lines, yielded>> /\ s.state = "outgoing"
      BY <2>4 DEF Starts
    <3>2. CASE x = p /\ c = d
      <4>1. <<p, d>> \notin had
        BY <3>1, HadFacts
      <4>2. lines[<<p, d>>] = 0
        BY <4>1 DEF HadByEnds
      <4>3. Within1(p, d)
        BY <3>1 DEF InUse
      <4> QED BY <3>1, <3>2, <4>2, <4>3
    <3>3. CASE ~(x = p /\ c = d)
      <4>1. <<x, c>> \in had
        BY <1>5, <3>1, <3>3
      <4>2. Within(x, c) <=> Within1(x, c)
        BY <1>3, <3>1, <3>3
      <4> QED BY <1>1, <3>1, <4>1, <4>2
    <3> QED BY <3>2, <3>3
  <2>5. CASE \E e \in End \cup {None} : Tunes(p, e)
    <3>1. SameRecord /\ s.state = r.state /\ s.id = r.id
      BY <2>5 DEF Tunes
    <3>2. Within(x, c) <=> Within1(x, c)
      BY <1>3, <3>1 DEF InUse
    <3> QED BY <1>1, <1>5, <3>1, <3>2 DEF SameRecord
  <2>6. ASSUME NEW q \in Phone, NEW d \in Call, Rung(p, q, d)
        PROVE lines'[<<x, c>>] = IF Within1(x, c) \/ Given1(x, c) THEN 0 ELSE 1
    <3>1. /\ Dialled(d) /\ to[d] = p /\ from[d] = q /\ had' = had \cup {<<p, d>>} /\ s.id = d
          /\ d \notin r.seen /\ UNCHANGED lines /\ s.state = "incoming"
          /\ \/ ~InUse(r) /\ yielded' = yielded
             \/ r.state = "outgoing" /\ yielded' = yielded \cup {r.id}
      BY <2>6 DEF Rung
    <3>2. CASE x = p /\ c = d
      <4>1. <<p, d>> \notin had
        BY <3>1, HadFacts
      <4>2. lines[<<p, d>>] = 0
        BY <4>1 DEF HadByEnds
      <4>3. Within1(p, d)
        BY <3>1 DEF InUse
      <4> QED BY <3>1, <3>2, <4>2, <4>3
    <3>3. CASE ~(x = p /\ c = d)
      <4>1. <<x, c>> \in had
        BY <1>5, <3>1, <3>3
      <4>2. Within(x, c) \/ Given(x, c) <=> Within1(x, c) \/ Given1(x, c)
        <5>1. CASE x # p
          BY <1>3, <1>4, <3>1, <5>1
        <5>2. CASE x = p
          <6>1. ~Within1(x, c)
            BY <3>1, <3>3, <5>2
          <6>2. CASE ~InUse(r) /\ yielded' = yielded
            BY <5>2, <6>1, <6>2
          <6>3. CASE r.state = "outgoing" /\ yielded' = yielded \cup {r.id}
            <7>1. InUse(r) /\ from[r.id] = p
              BY <1>4, <6>3 DEF InUse
            <7> QED BY <5>2, <6>1, <6>3, <7>1
          <6> QED BY <3>1, <6>2, <6>3
        <5> QED BY <5>1, <5>2
      <4> QED BY <1>1, <3>1, <4>1, <4>2
    <3> QED BY <3>2, <3>3
  <2>7. CASE Dies(p)
    <3>1. /\ UNCHANGED yielded /\ had' = {pc \in had : pc[1] # p}
          /\ lines' = [pc \in Phone \X Call |-> IF pc[1] = p THEN 0 ELSE lines[pc]]
      BY <2>7 DEF Dies
    <3>2. x # p /\ <<x, c>> \in had
      BY <1>5, <3>1
    <3>3. lines'[<<x, c>>] = lines[<<x, c>>]
      BY <3>1, <3>2
    <3> QED BY <1>1, <1>3, <3>1, <3>2, <3>3
  <2> QED BY <2>2, <2>3, <2>4, <2>5, <2>6, <2>7 DEF Kind
<1>6. \A x \in Phone, c \in Call : <<x, c>> \in had' => from'[c] = from[c]
  <2>1. \A x \in Phone, c \in Call : <<x, c>> \in had' => Dialled(c)
    <3>1. \A x \in Phone, c \in Call : <<x, c>> \in had => Dialled(c)
      BY DEF HadByEnds
    <3> QED BY <3>1, KindHad
  <2> QED BY <2>1, StaysDialled
<1>7. \A x \in Phone, c \in Call : <<x, c>> \in had' =>
          lines'[<<x, c>>] = IF \/ Busy(x)' /\ phone'[x].id = c
                                \/ c \in yielded' /\ from'[c] = x
                             THEN 0 ELSE 1
  BY <1>5, <1>6 DEF Busy, InUse
<1> SUFFICES ASSUME NEW pc \in had'
             PROVE lines'[pc] = IF \/ Busy(pc[1])' /\ phone'[pc[1]].id = pc[2]
                                   \/ pc[2] \in yielded' /\ from'[pc[2]] = pc[1]
                                THEN 0 ELSE 1
  BY DEF RecordedOnce
<1> DEFINE x == pc[1]
           c == pc[2]
<1>8. x \in Phone /\ c \in Call /\ pc = <<x, c>>
  BY <1>0
<1> HIDE DEF x, c
<1>9. lines'[pc] = IF \/ Busy(x)' /\ phone'[x].id = c
                      \/ c \in yielded' /\ from'[c] = x
                   THEN 0 ELSE 1
  BY <1>7, <1>8
<1> QED BY <1>9 DEF x, c

\* The microphone: what is on is held.
LEMMA KindMic ==
    ASSUME Types, PhonesKeep, MicOff, Rest, NEW p \in Phone, Kind(p)
    PROVE MicOff'
<1> DEFINE r == phone[p]
           s == phone'[p]
<1>1. Only(p)
  BY DEF Kind, Minor, Leaves, Starts, Tunes, Rung, Dies
<1>2. overtaken => overtaken'
  BY DEF Kind, Minor, Leaves, Starts, Tunes, Rung, Dies
<1> SUFFICES ASSUME ~overtaken'
             PROVE MicHeld'
  BY DEF MicOff
<1>3. MicHeld
  BY <1>2 DEF MicOff
<1> SUFFICES ASSUME NEW e \in live'
             PROVE \E x \in Phone : /\ EndOf(x, e)' /\ phone'[x].mic = e
                                    /\ InUse(phone'[x]) /\ phone'[x].id = e[1]
  BY DEF MicHeld, Busy, InUse
<1>4. e \in End
  BY KindTyped
<1>5. \A x \in Phone : EndOf(x, e) /\ InUse(phone[x]) /\ phone[x].id = e[1] => EndOf(x, e)'
  <2>1. \A x \in Phone : InUse(phone[x]) => phone[x].id \in Call /\ Dialled(phone[x].id)
    BY DEF PhonesKeep, Keeps
  <2>2. \A c \in Call : Dialled(c) => from'[c] = from[c] /\ to'[c] = to[c]
    BY StaysDialled
  <2> QED BY <2>1, <2>2 DEF EndOf
<1>6. CASE e \in live
  <2>1. PICK x \in Phone : /\ EndOf(x, e) /\ phone[x].mic = e
                           /\ InUse(phone[x]) /\ phone[x].id = e[1]
    BY <1>3, <1>6 DEF MicHeld, Busy, InUse
  <2>2. EndOf(x, e)'
    BY <1>5, <2>1
  <2>3. CASE x # p
    BY <1>1, <2>1, <2>2, <2>3 DEF Only
  <2>4. CASE x = p
    <3>1. r.mic = e /\ InUse(r) /\ r.id = e[1] /\ EndOf(p, e) /\ e # None
      <4>1. e # None
        BY <1>4, CallsAssumption DEF End, None, Call
      <4> QED BY <2>1, <2>4, <4>1
    <3>2. Minor(p)
      <4>1. ~Leaves(p)
        BY <3>1 DEF Leaves
      <4>2. ~\E c \in Call : Starts(p, c)
        BY <3>1 DEF Starts
      <4>3. ~\E d \in End \cup {None} : Tunes(p, d)
        BY <3>1 DEF Tunes
      <4>4. ~\E q \in Phone, c \in Call : Rung(p, q, c)
        BY <3>1 DEF Rung
      <4>5. ~Dies(p)
        BY <3>1 DEF Dies
      <4> QED BY <4>1, <4>2, <4>3, <4>4, <4>5 DEF Kind
    <3>3. s.mic = e /\ InUse(s) /\ s.id = e[1]
      BY <3>1, <3>2 DEF Minor
    <3> QED BY <2>2, <2>4, <3>3
  <2> QED BY <2>3, <2>4
<1>7. CASE e \notin live
  <2>1. PICK d \in End \cup {None} : Tunes(p, d)
    <3>1. ~Minor(p) /\ ~Leaves(p) /\ ~Dies(p)
      BY <1>7 DEF Minor, Leaves, Dies
    <3>2. ~\E c \in Call : Starts(p, c)
      BY <1>7 DEF Starts
    <3>3. ~\E q \in Phone, c \in Call : Rung(p, q, c)
      BY <1>7 DEF Rung
    <3> QED BY <3>1, <3>2, <3>3 DEF Kind
  <2>2. d = e /\ InUse(r) /\ r.id = e[1] /\ EndOf(p, e)
    BY <1>7, <2>1 DEF Tunes
  <2>3. s.mic = e /\ InUse(s) /\ s.id = e[1]
    BY <2>1, <2>2 DEF Tunes, InUse
  <2> QED BY <1>5, <2>2, <2>3
<1> QED BY <1>6, <1>7

-----------------------------------------------------------------------------
(* What is on its way.                                                     *)

\* Every step is of one phone.
LEMMA StepFlow ==
    ASSUME Types, CallsDialled, PhonesKeep, Next
    PROVE \E p \in Phone : Flow(p)
<1>1. ASSUME NEW p \in Phone, NEW q \in Phone, NEW c \in Call, Dial(p, q, c)
      PROVE \E x \in Phone : Flow(x)
  <2>1. UNCHANGED <<phone, live, had, lines, yielded, overtaken>> /\ net' = net
    BY <1>1 DEF Dial, history
  <2> QED BY <2>1, KindQuiet DEF Flow, Gentle
<1>2. ASSUME NEW c \in Call, Applied(c) \/ ApplyFails(c)
      PROVE \E x \in Phone : Flow(x)
  <2>1. net' = net
    BY <1>2 DEF Applied, ApplyFails
  <2> QED BY <1>2, <2>1, AppliedKinds DEF Flow
<1>3. ASSUME NEW p \in Phone, NEW q \in Phone, Deliver(p, q) \/ Lost(p, q)
      PROVE \E x \in Phone : Flow(x)
  BY <1>3 DEF Flow
<1>4. ASSUME NEW p \in Phone,
             \/ HangUpPressed(p) \/ Timers(p) \/ IceFails(p) \/ Kill(p)
             \/ \E k \in Try : Accept(p, k)
      PROVE \E x \in Phone : Flow(x)
  BY <1>4, PhoneFlow
<1>5. ASSUME NEW c \in Call, Dialling(c)
      PROVE \E x \in Phone : Flow(x)
  BY <1>5, DiallingFlow
<1>6. ASSUME NEW c \in Call, NEW k \in Try, Accepting(c, k)
      PROVE \E x \in Phone : Flow(x)
  BY <1>6, AcceptingFlow
<1> QED BY <1>1, <1>2, <1>3, <1>4, <1>5, <1>6 DEF Next

\* So it is of one kind.
LEMMA FlowKind ==
    ASSUME Types, CallsDialled, PhonesKeep, MessagesBetween, NEW p \in Phone, Flow(p)
    PROVE Kind(p)
<1>1. \A q \in Phone : Deliver(p, q) \/ Lost(p, q) => Minor(p) \/ Leaves(p) \/ Rung(p, q, Id(p, q))
  BY ArrivingKinds DEF Deliver
<1>2. \A q \in Phone : Deliver(p, q) /\ Rung(p, q, Id(p, q)) => Id(p, q) \in Call
  BY DEF Rung
<1>3. \A q \in Phone : Deliver(p, q) \/ Lost(p, q) => Kind(p)
  BY <1>1 DEF Kind, Rung
<1> QED BY <1>3 DEF Flow, Gentle, Kind

\* A queue is as it was, or its first message is taken, or one is put behind it: an offer
\* of the call that the phone has, a refusal of one that it has no more, or the like.
Moved(p, x, y) ==
    \/ net'[<<x, y>>] = net[<<x, y>>]
    \/ /\ net[<<x, y>>] # <<>> /\ net'[<<x, y>>] = Tail(net[<<x, y>>])
       /\ y = p \/ losses' # 0
    \/ /\ x = p
       /\ \E m \in Message :
             /\ net'[<<x, y>>] = Append(net[<<x, y>>], m) /\ Between(m, x, y)
             /\ m.kind = "offer" => InUse(phone'[p]) /\ phone'[p].id = m.id /\ from[m.id] = p
             /\ Replying(m, x, y) /\ m.kind # "answer" =>
                   m.id \in phone'[p].seen /\ phone'[p].id # m.id

\* An offer or an answer is put behind its queue.
LEMMA PostsMoved ==
    ASSUME Types, CallsDialled, PhonesKeep, NEW p \in Phone, Gentle(p), Posts(p)
    PROVE /\ net' \in [Phone \X Phone -> Seq(Message)]
          /\ \A x, y \in Phone : Moved(p, x, y)
<1>1. PICK q \in Phone, m \in Message :
        /\ net' = [net EXCEPT ![<<p, q>>] = Append(@, m)]
        /\ Between(m, p, q)
        /\ \/ m.kind = "answer"
           \/ m.kind = "offer" /\ Busy(p) /\ phone[p].id = m.id /\ from[m.id] = p
  BY DEF Posts
<1>2. \A x, y \in Phone : <<x, y>> \in Phone \X Phone
  OBVIOUS
<1>3. net \in [Phone \X Phone -> Seq(Message)]
  BY DEF Types
<1>4. net' \in [Phone \X Phone -> Seq(Message)]
  <2>1. Append(net[<<p, q>>], m) \in Seq(Message)
    BY <1>3
  <2> QED BY <1>1, <1>3, <2>1
<1>5. Busy(p) => InUse(phone'[p]) /\ phone'[p].id = phone[p].id
  BY DEF Gentle, Minor, Starts, Tunes, Busy, InUse
<1>6. net'[<<p, q>>] = Append(net[<<p, q>>], m)
  BY <1>1, <1>3
<1>7. Replying(m, p, q) => m.kind # "offer"
  BY DEF Replying
<1>8. Moved(p, p, q)
  BY <1>1, <1>5, <1>6, <1>7 DEF Moved
<1>9. \A x, y \in Phone : ~(x = p /\ y = q) => net'[<<x, y>>] = net[<<x, y>>]
  BY <1>1, <1>3
<1> QED BY <1>4, <1>8, <1>9 DEF Moved

\* So is what sendHangupSignal says; of the own call it is the farewell.
LEMMA TellMoved ==
    ASSUME Types, CallsDialled, PhonesKeep, HadByEnds, NEW p \in Phone, Leaves(p), Tell(p)
    PROVE /\ net' \in [Phone \X Phone -> Seq(Message)]
          /\ \A x, y \in Phone : Moved(p, x, y)
          /\ InUse(phone[p]) /\ from[phone[p].id] = p =>
                LET c == phone[p].id
                IN  net'[<<p, to[c]>>] = Append(net[<<p, to[c]>>], Farewell(c))
<1> DEFINE r == phone[p]
           c == r.id
           q == r.peer
           k == IF r.state = "incoming" THEN "declined" ELSE "hangup"
           m == [kind |-> k, id |-> c]
<1>1. net' \in [Phone \X Phone -> Seq(Message)]
  BY TellTyped
<1>2. Busy(p) <=> InUse(r)
  BY DEF Busy, InUse
<1>3. CASE ~Busy(p)
  <2>1. net' = net
    BY <1>3 DEF Tell
  <2> QED BY <1>1, <1>2, <1>3, <2>1 DEF Moved
<1>4. CASE Busy(p)
  <2>1. c \in Call /\ q \in Phone \ {p} /\ Dialled(c) /\ (Calling(p, r) \/ Called(p, r))
    BY <1>4, UseKeeps
  <2>2. net' = [net EXCEPT ![<<p, q>>] = Append(@, m)]
    BY <1>4 DEF Tell, Posted
  <2>3. m \in Message /\ m.kind = k /\ m.id = c /\ k \in {"declined", "hangup"}
    BY <2>1 DEF Message
  <2>4. Between(m, p, q)
    BY <2>1, <2>3 DEF Between, Offering, Replying, Calling, Called
  <2>5. Replying(m, p, q) => c \in r.seen
    <3>1. to[c] = p => c \in r.seen
      <4>1. <<p, c>> \in had
        BY <1>4 DEF HadByEnds
      <4>2. \A x \in Phone, d \in Call : <<x, d>> \in had /\ x = to[d] => d \in phone[x].seen
        BY DEF HadByEnds
      <4> QED BY <2>1, <4>1, <4>2
    <3> QED BY <2>3, <3>1 DEF Replying
  <2>6. phone'[p].seen = r.seen /\ phone'[p].id # c
    <3>1. phone'[p].seen = r.seen /\ phone'[p].id = 0
      BY DEF Leaves
    <3> QED BY <2>1, <3>1, CallsAssumption DEF Call
  <2>7. from[c] = p => m = Farewell(c) /\ q = to[c]
    <3>1. from[c] = p => r.state # "incoming" /\ q = to[c]
      BY <2>1 DEF Dialled, Calling, Called
    <3> QED BY <3>1 DEF Farewell
  <2> HIDE DEF m, k, c, q
  <2>8. net'[<<p, q>>] = Append(net[<<p, q>>], m)
    BY <2>1, <2>2 DEF Types
  <2>9. Moved(p, p, q)
    BY <2>3, <2>4, <2>5, <2>6, <2>8 DEF Moved
  <2>10. \A x, y \in Phone : ~(x = p /\ y = q) => net'[<<x, y>>] = net[<<x, y>>]
    BY <2>2 DEF Types
  <2>11. \A x, y \in Phone : Moved(p, x, y)
    <3> SUFFICES ASSUME NEW x \in Phone, NEW y \in Phone
                 PROVE Moved(p, x, y)
      OBVIOUS
    <3>1. CASE x = p /\ y = q
      BY <2>9, <3>1
    <3>2. CASE ~(x = p /\ y = q)
      BY <2>10, <3>2 DEF Moved
    <3> QED BY <3>1, <3>2
  <2>12. from[c] = p => net'[<<p, to[c]>>] = Append(net[<<p, to[c]>>], Farewell(c))
    BY <2>7, <2>8
  <2> QED BY <1>1, <2>11, <2>12 DEF c
<1> QED BY <1>3, <1>4

\* The first message of a queue is taken.
LEMMA TakeMoved ==
    ASSUME Types, NEW p \in Phone, NEW q \in Phone, net[<<q, p>>] # <<>>, net' = Received(p, q)
    PROVE /\ net' \in [Phone \X Phone -> Seq(Message)]
          /\ net'[<<q, p>>] = Tail(net[<<q, p>>])
          /\ \A x, y \in Phone : ~(x = q /\ y = p) => net'[<<x, y>>] = net[<<x, y>>]
          /\ \A a \in Phone : a = p \/ losses' # 0 => \A x, y \in Phone : Moved(a, x, y)
<1>1. net' \in [Phone \X Phone -> Seq(Message)]
  BY ReceivedTyped
<1>2. net' = [net EXCEPT ![<<q, p>>] = Tail(@)]
  BY DEF Received
<1>3. /\ net'[<<q, p>>] = Tail(net[<<q, p>>])
      /\ \A x, y \in Phone : ~(x = q /\ y = p) => net'[<<x, y>>] = net[<<x, y>>]
  BY <1>2 DEF Types
<1>4. ASSUME NEW a \in Phone, a = p \/ losses' # 0, NEW x \in Phone, NEW y \in Phone
      PROVE Moved(a, x, y)
  <2>1. CASE x = q /\ y = p
    <3>1. Moved(a, q, p)
      BY <1>3, <1>4 DEF Moved
    <3> QED BY <2>1, <3>1
  <2>2. CASE ~(x = q /\ y = p)
    BY <1>3, <2>2 DEF Moved
  <2> QED BY <2>1, <2>2
<1> QED BY <1>1, <1>3, <1>4

\* An offer is taken, and "busy" put behind the queue the other way.
LEMMA BusyMoved ==
    ASSUME Types, CallsDialled, PhonesKeep, MessagesBetween, HadByEnds,
           NEW p \in Phone, NEW q \in Phone, OfferBusy(p, q)
    PROVE /\ net' \in [Phone \X Phone -> Seq(Message)]
          /\ \A x, y \in Phone : Moved(p, x, y)
<1> DEFINE c == Id(p, q)
           m == [kind |-> "busy", id |-> c]
           n == Received(p, q)
<1>1. /\ net[<<q, p>>] # <<>> /\ Head(net[<<q, p>>]).kind = "offer"
      /\ c \notin phone[p].seen /\ Busy(p)
      /\ net' = Posted(n, p, q, "busy", c)
      /\ phone' = [phone EXCEPT ![p].seen = @ \cup {c}]
  BY DEF OfferBusy, Arrives
<1>2. c \in Call /\ Dialled(c) /\ from[c] = q /\ to[c] = p /\ p # q
  BY <1>1, ArrivalTyped DEF Between, Offering, Replying, Id, Dialled
<1>3. n \in [Phone \X Phone -> Seq(Message)]
  BY <1>1, ReceivedTyped
<1>4. net' \in [Phone \X Phone -> Seq(Message)]
  BY <1>1, <1>2, <1>3, PostedTyped
<1>5. m \in Message /\ m.kind = "busy" /\ m.id = c
  BY <1>2 DEF Message
<1>6. net' = [n EXCEPT ![<<p, q>>] = Append(@, m)]
  BY <1>1 DEF Posted
<1>7. n = [net EXCEPT ![<<q, p>>] = Tail(@)]
  BY DEF Received
<1>8. c \in phone'[p].seen /\ phone'[p].id = phone[p].id
  <2>1. phone[p] \in PhoneState
    BY DEF Types
  <2> QED BY <1>1, <2>1 DEF Types, PhoneState
<1>9. phone[p].id # c
  <2>1. <<p, phone[p].id>> \in had
    BY <1>1 DEF HadByEnds
  <2>2. \A x \in Phone, d \in Call : <<x, d>> \in had /\ x = to[d] => d \in phone[x].seen
    BY DEF HadByEnds
  <2> QED BY <1>1, <1>2, <2>1, <2>2
<1>10. Between(m, p, q)
  BY <1>2, <1>5 DEF Between, Replying
<1> HIDE DEF m, n, c
<1>11. net'[<<p, q>>] = Append(net[<<p, q>>], m)
  BY <1>2, <1>3, <1>6, <1>7 DEF Types
<1>12. net'[<<q, p>>] = Tail(net[<<q, p>>])
  BY <1>2, <1>3, <1>6, <1>7 DEF Types
<1>13. \A x, y \in Phone : ~(x = q /\ y = p) /\ ~(x = p /\ y = q) => net'[<<x, y>>] = net[<<x, y>>]
  BY <1>3, <1>6, <1>7 DEF Types
<1>14. Moved(p, p, q)
  BY <1>5, <1>8, <1>9, <1>10, <1>11 DEF Moved
<1>15. Moved(p, q, p)
  BY <1>1, <1>12 DEF Moved
<1>16. ASSUME NEW x \in Phone, NEW y \in Phone PROVE Moved(p, x, y)
  <2>1. CASE x = p /\ y = q
    BY <1>14, <2>1
  <2>2. CASE x = q /\ y = p
    BY <1>15, <2>2
  <2>3. CASE ~(x = q /\ y = p) /\ ~(x = p /\ y = q)
    <3>1. net'[<<x, y>>] = net[<<x, y>>]
      BY <1>13, <2>3
    <3> QED BY <3>1 DEF Moved
  <2> QED BY <2>1, <2>2, <2>3
<1> QED BY <1>4, <1>16

\* What every step does to the queues.
LEMMA FlowMoved ==
    ASSUME Types, CallsDialled, PhonesKeep, MessagesBetween, HadByEnds, NEW p \in Phone, Flow(p)
    PROVE /\ net' \in [Phone \X Phone -> Seq(Message)]
          /\ \A x, y \in Phone : Moved(p, x, y)
<1>1. CASE net' = net
  BY <1>1 DEF Types, Moved
<1>2. CASE Gentle(p) /\ Posts(p)
  BY <1>2, PostsMoved
<1>3. CASE Leaves(p) /\ Tell(p)
  BY <1>3, TellMoved
<1>4. ASSUME NEW q \in Phone,
             OfferDropped(p, q) \/ OfferRings(p, q) \/ AnswerTaken(p, q) \/ EndTaken(p, q)
      PROVE /\ net' \in [Phone \X Phone -> Seq(Message)]
            /\ \A x, y \in Phone : Moved(p, x, y)
  <2>1. net[<<q, p>>] # <<>> /\ net' = Received(p, q)
    BY <1>4 DEF OfferDropped, OfferRings, AnswerTaken, EndTaken, Arrives
  <2> QED BY <2>1, TakeMoved
<1>5. ASSUME NEW q \in Phone, Lost(p, q)
      PROVE /\ net' \in [Phone \X Phone -> Seq(Message)]
            /\ \A x, y \in Phone : Moved(p, x, y)
  <2>1. net[<<p, q>>] # <<>> /\ net' = Received(q, p) /\ losses' # 0
    BY <1>5 DEF Lost, Types
  <2> QED BY <2>1, TakeMoved
<1>6. CASE Kill(p)
  BY <1>1, <1>6 DEF Kill
<1> QED BY <1>1, <1>2, <1>3, <1>4, <1>5, <1>6, BusyMoved DEF Flow, Deliver

\* A message stays between its two phones.
LEMMA BetweenStays ==
    ASSUME Rest, NEW m \in Message, NEW x \in Phone, NEW y \in Phone, Between(m, x, y)
    PROVE Between(m, x, y)' /\ from'[m.id] = from[m.id] /\ to'[m.id] = to[m.id]
<1>1. m.id \in Call /\ Dialled(m.id)
  BY DEF Message, Between
<1>2. Dialled(m.id)' /\ from'[m.id] = from[m.id] /\ to'[m.id] = to[m.id]
  BY <1>1, StaysDialled
<1> QED BY <1>2 DEF Between, Offering, Replying

\* Messages stay between the two phones of their call.
LEMMA FlowBetween ==
    ASSUME Types, CallsDialled, PhonesKeep, MessagesBetween, HadByEnds, Rest,
           NEW p \in Phone, Flow(p)
    PROVE MessagesBetween'
<1> DEFINE Ordered(m, x, y) ==
             /\ from'[m.id] \in Phone /\ to'[m.id] \in Phone /\ from'[m.id] # to'[m.id]
             /\ \/ from'[m.id] = x /\ to'[m.id] = y /\ m.kind \in {"offer", "hangup"}
                \/ to'[m.id] = x /\ from'[m.id] = y /\ m.kind # "offer"
<1> SUFFICES ASSUME NEW x \in Phone, NEW y \in Phone, NEW i \in 1..Len(net'[<<x, y>>])
             PROVE Ordered(net'[<<x, y>>][i], x, y)
  BY DEF MessagesBetween, Between, Offering, Replying, Dialled
<1> DEFINE s == net[<<x, y>>]
           t == net'[<<x, y>>]
<1>1. s \in Seq(Message) /\ t \in Seq(Message)
  BY FlowMoved DEF Types
<1>2. \A j \in 1..Len(s) : s[j] \in Message /\ Between(s[j], x, y)
  BY <1>1 DEF MessagesBetween
<1>3. t[i] \in Message /\ Between(t[i], x, y)
  <2>1. Moved(p, x, y)
    BY FlowMoved
  <2>2. CASE t = s
    BY <1>2, <2>2
  <2>3. CASE s # <<>> /\ t = Tail(s)
    <3>1. i + 1 \in 1..Len(s) /\ t[i] = s[i + 1]
      BY <1>1, <2>3
    <3> QED BY <1>2, <3>1
  <2>4. ASSUME NEW m \in Message, t = Append(s, m), Between(m, x, y)
        PROVE t[i] \in Message /\ Between(t[i], x, y)
    <3>1. (i \in 1..Len(s) /\ t[i] = s[i]) \/ t[i] = m
      BY <1>1, <2>4
    <3> QED BY <1>2, <2>4, <3>1
  <2> QED BY <2>1, <2>2, <2>3, <2>4 DEF Moved
<1> HIDE DEF s, t
<1>4. \A m \in Message : Between(m, x, y) => Ordered(m, x, y)
  <2> SUFFICES ASSUME NEW m \in Message, Between(m, x, y)
               PROVE Ordered(m, x, y)
    OBVIOUS
  <2>1. Between(m, x, y)'
    BY BetweenStays
  <2> QED BY <2>1 DEF Between, Offering, Replying, Dialled
<1> QED BY <1>3, <1>4 DEF t

\* The faults are counted.
LEMMA FaultsTyped ==
    ASSUME Types, Next
    PROVE /\ losses' \in Nat /\ kills' \in Nat /\ losses' + kills' <= MaxFaults
          /\ losses' = 0 /\ kills' = 0 => losses = 0 /\ kills = 0
<1> USE CallsAssumption
<1>1. \/ UNCHANGED <<losses, kills>>
      \/ losses + kills < MaxFaults /\ losses' = losses + 1 /\ kills' = kills
      \/ losses + kills < MaxFaults /\ kills' = kills + 1 /\ losses' = losses
  <2>1. \A p, q \in Phone : Deliver(p, q) => UNCHANGED <<losses, kills>>
    BY DEF Deliver, OfferDropped, OfferRings, OfferBusy, AnswerTaken, EndTaken
  <2>2. \A p, q \in Phone : \A c \in Call : Dial(p, q, c) => UNCHANGED <<losses, kills>>
    BY DEF Dial
  <2>3. \A p, q \in Phone :
          Lost(p, q) => losses + kills < MaxFaults /\ losses' = losses + 1 /\ kills' = kills
    BY DEF Lost
  <2>4. \A c \in Call :
          Dialling(c) \/ Applied(c) \/ ApplyFails(c) => UNCHANGED <<losses, kills>>
    BY DEF Dialling, DialReady, DialRefused, DialMedia, DialOffers, DialFails, Applied, ApplyFails
  <2>5. \A c \in Call, k \in Try : Accepting(c, k) => UNCHANGED <<losses, kills>>
    BY DEF Accepting, AcceptRefused, AcceptMedia, AcceptWired, AcceptAnswers, AcceptFails
  <2>6. \A p \in Phone : HangUpPressed(p) \/ Timers(p) \/ IceFails(p) => UNCHANGED <<losses, kills>>
    BY DEF HangUpPressed, Timers, OutTimeout, InTimeout, ResetTimeout, Resend, IceFails
  <2>7. \A p \in Phone, k \in Try : Accept(p, k) => UNCHANGED <<losses, kills>>
    BY DEF Accept
  <2>8. \A p \in Phone :
          Kill(p) => losses + kills < MaxFaults /\ kills' = kills + 1 /\ losses' = losses
    BY DEF Kill
  <2> QED BY <2>1, <2>2, <2>3, <2>4, <2>5, <2>6, <2>7, <2>8 DEF Next
<1> QED BY <1>1 DEF Types

-----------------------------------------------------------------------------
(* Farewells: queues of messages.                                          *)

\* An offer that stays keeps the farewell behind it.
LEMMA BackedTail ==
    ASSUME NEW s \in Seq(Message), s # <<>>, NEW cs, Backed(s, cs)
    PROVE Backed(Tail(s), cs)
<1> DEFINE t == Tail(s)
<1>1. t \in Seq(Message) /\ Len(t) = Len(s) - 1 /\ \A i \in 1..Len(t) : t[i] = s[i + 1]
  OBVIOUS
<1> HIDE DEF t
<1> SUFFICES ASSUME NEW i \in 1..Len(t), t[i].kind = "offer", t[i].id \notin cs
             PROVE \E k \in (i + 1)..Len(t) : t[k] = Farewell(t[i].id)
  BY DEF Backed, t
<1>2. i + 1 \in 1..Len(s) /\ t[i] = s[i + 1]
  BY <1>1
<1>3. PICK k \in (i + 2)..Len(s) : s[k] = Farewell(t[i].id)
  BY <1>2 DEF Backed
<1>4. k - 1 \in (i + 1)..Len(t) /\ t[k - 1] = s[k]
  BY <1>1, <1>3
<1> QED BY <1>3, <1>4

\* So does one that is taken, in what is left.
LEMMA BackedHead ==
    ASSUME NEW s \in Seq(Message), s # <<>>, NEW cs, Backed(s, cs), Head(s).kind = "offer"
    PROVE Head(s).id \in cs \/ Contains(Tail(s), Farewell(Head(s).id))
<1> DEFINE t == Tail(s)
<1>1. t \in Seq(Message) /\ Len(t) = Len(s) - 1 /\ \A i \in 1..Len(t) : t[i] = s[i + 1]
  OBVIOUS
<1> HIDE DEF t
<1>2. 1 \in 1..Len(s) /\ Head(s) = s[1]
  OBVIOUS
<1> SUFFICES ASSUME s[1].id \notin cs
             PROVE \E k \in 1..Len(t) : t[k] = Farewell(s[1].id)
  BY <1>2 DEF Contains, t
<1>3. PICK k \in 2..Len(s) : s[k] = Farewell(s[1].id)
  BY <1>2 DEF Backed
<1>4. k - 1 \in 1..Len(t) /\ t[k - 1] = s[k]
  BY <1>1, <1>3
<1> QED BY <1>3, <1>4

\* A backed offer may be put behind a queue, or any other message.
LEMMA BackedAppend ==
    ASSUME NEW s \in Seq(Message), NEW m \in Message, NEW cs, Backed(s, cs),
           m.kind = "offer" => m.id \in cs
    PROVE Backed(Append(s, m), cs)
<1> DEFINE t == Append(s, m)
<1>1. /\ Len(t) = Len(s) + 1 /\ t[Len(s) + 1] = m
      /\ \A i \in 1..Len(s) : i \in 1..Len(t) /\ t[i] = s[i]
  OBVIOUS
<1>2. Len(s) \in Nat
  OBVIOUS
<1> HIDE DEF t
<1> SUFFICES ASSUME NEW i \in 1..Len(t), t[i].kind = "offer", t[i].id \notin cs
             PROVE \E k \in (i + 1)..Len(t) : t[k] = Farewell(t[i].id)
  BY DEF Backed, t
<1>3. i \in 1..Len(s) /\ t[i] = s[i]
  BY <1>1, <1>2
<1>4. PICK k \in (i + 1)..Len(s) : s[k] = Farewell(t[i].id)
  BY <1>3 DEF Backed
<1>5. k \in (i + 1)..Len(t) /\ t[k] = s[k]
  BY <1>1, <1>2, <1>4
<1> QED BY <1>4, <1>5

\* With its farewell behind it, a call need not be abided by.
LEMMA BackedFarewell ==
    ASSUME NEW s \in Seq(Message), NEW c \in Call, NEW cs, Backed(s, cs \cup {c})
    PROVE Backed(Append(s, Farewell(c)), cs)
<1> DEFINE m == Farewell(c)
           t == Append(s, m)
<1>0. m.kind = "hangup"
  BY DEF Farewell
<1>1. /\ Len(t) = Len(s) + 1 /\ t[Len(s) + 1] = m
      /\ \A i \in 1..Len(s) : i \in 1..Len(t) /\ t[i] = s[i]
  OBVIOUS
<1>2. Len(s) \in Nat
  OBVIOUS
<1> HIDE DEF t
<1> SUFFICES ASSUME NEW i \in 1..Len(t), t[i].kind = "offer", t[i].id \notin cs
             PROVE \E k \in (i + 1)..Len(t) : t[k] = Farewell(t[i].id)
  BY DEF Backed, t
<1> HIDE DEF m
<1>3. i \in 1..Len(s) /\ t[i] = s[i]
  BY <1>0, <1>1, <1>2
<1>4. CASE t[i].id = c
  <2>1. Len(s) + 1 \in (i + 1)..Len(t)
    BY <1>1, <1>2, <1>3
  <2> QED BY <1>1, <1>4, <2>1 DEF m
<1>5. CASE t[i].id # c
  <2>1. PICK k \in (i + 1)..Len(s) : s[k] = Farewell(t[i].id)
    BY <1>3, <1>5 DEF Backed
  <2>2. k \in (i + 1)..Len(t) /\ t[k] = s[k]
    BY <1>1, <1>2, <2>1
  <2> QED BY <2>1, <2>2
<1> QED BY <1>4, <1>5

\* Other calls may be abided by.
LEMMA BackedMore ==
    ASSUME NEW s \in Seq(Message), NEW cs, NEW ds, Backed(s, cs),
           \A i \in 1..Len(s) : s[i].kind = "offer" /\ s[i].id \in cs => s[i].id \in ds
    PROVE Backed(s, ds)
BY DEF Backed

\* A message stays in a queue that grows, and the new one is there.
LEMMA ContainsAppend ==
    ASSUME NEW s \in Seq(Message), NEW m, NEW n \in Message
    PROVE Contains(s, m) \/ m = n => Contains(Append(s, n), m)
<1> DEFINE t == Append(s, n)
<1>1. /\ Len(t) = Len(s) + 1 /\ t[Len(s) + 1] = n
      /\ \A i \in 1..Len(s) : i \in 1..Len(t) /\ t[i] = s[i]
  OBVIOUS
<1>2. Len(s) + 1 \in 1..Len(t)
  BY <1>1
<1> HIDE DEF t
<1> QED BY <1>1, <1>2 DEF Contains, t

\* A message is not lost with another one.
LEMMA ContainsTail ==
    ASSUME NEW s \in Seq(Message), s # <<>>, NEW m, Contains(s, m), Head(s) # m
    PROVE Contains(Tail(s), m)
<1> DEFINE t == Tail(s)
<1>1. t \in Seq(Message) /\ Len(t) = Len(s) - 1 /\ \A i \in 1..Len(t) : t[i] = s[i + 1]
  OBVIOUS
<1> HIDE DEF t
<1>2. PICK k \in 1..Len(s) : s[k] = m
  BY DEF Contains
<1>3. k # 1
  BY <1>2
<1>4. k - 1 \in 1..Len(t) /\ t[k - 1] = m
  BY <1>1, <1>2, <1>3
<1> QED BY <1>4 DEF Contains, t

-----------------------------------------------------------------------------
(* Farewells: what becomes of a call that its caller is in.                *)

\* The caller of c leaves it.
Forsakes(p, c) ==
    /\ InUse(phone[p]) /\ ~InUse(phone'[p]) /\ phone[p].id = c /\ from[c] = p

\* The caller stays in its call until it forsakes it.
LEMMA AbidesStays ==
    ASSUME Types, PhonesKeep, HadByEnds, Rest, NEW p \in Phone, Kind(p), kills' = 0,
           NEW c \in Call, Dialled(c), Abides(c)
    PROVE Abides(c)' \/ (Forsakes(p, c) /\ Leaves(p))
<1> DEFINE x == from[c]
           r == phone[p]
<1>1. from'[c] = x /\ x \in Phone
  BY StaysDialled DEF Dialled
<1>2. ~Dies(p)
  BY DEF Dies
<1>3. CASE c \in yielded
  <2>1. c \in yielded'
    BY <1>2, <1>3 DEF Kind, Minor, Leaves, Starts, Tunes, Rung, SameRecord
  <2> QED BY <2>1 DEF Abides
<1>4. CASE InUse(phone[x]) /\ phone[x].id = c
  <2>1. CASE InUse(phone'[x]) /\ phone'[x].id = c
    BY <1>1, <2>1 DEF Abides, Busy, InUse
  <2>2. CASE ~(InUse(phone'[x]) /\ phone'[x].id = c)
    <3>1. x = p
      <4>1. Only(p)
        BY DEF Kind, Minor, Leaves, Starts, Tunes, Rung, Dies
      <4> QED BY <1>1, <1>4, <2>2, <4>1 DEF Only
    <3>2. ~Minor(p)
      BY <1>4, <2>2, <3>1 DEF Minor
    <3>3. ~\E d \in Call : Starts(p, d)
      BY <1>4, <3>1 DEF Starts
    <3>4. ~\E e \in End \cup {None} : Tunes(p, e)
      BY <1>4, <2>2, <3>1 DEF Tunes, InUse
    <3>5. CASE \E q \in Phone, d \in Call : Rung(p, q, d)
      <4>1. yielded' = yielded \cup {r.id}
        BY <1>4, <3>1, <3>5 DEF Rung
      <4> QED BY <1>4, <3>1, <4>1 DEF Abides
    <3>6. CASE Leaves(p)
      BY <1>4, <3>1, <3>6 DEF Leaves, Forsakes
    <3> QED BY <1>2, <3>2, <3>3, <3>4, <3>5, <3>6 DEF Kind
  <2> QED BY <2>1, <2>2
<1> QED BY <1>3, <1>4 DEF Abides, Busy, InUse

\* What a phone has heard of is not forgotten while nobody dies.
LEMMA SeenGrows ==
    ASSUME NEW p \in Phone, Kind(p), kills' = 0, NEW x \in Phone
    PROVE phone[x].seen \subseteq phone'[x].seen
<1>1. CASE x # p
  <2>1. Only(p)
    BY DEF Kind, Minor, Leaves, Starts, Tunes, Rung, Dies
  <2> QED BY <1>1, <2>1 DEF Only
<1>2. phone[p].seen \subseteq phone'[p].seen
  BY DEF Kind, Minor, Leaves, Starts, Tunes, Rung, Dies
<1> QED BY <1>1, <1>2

\* A call that its callee has left does not come back to it.
LEMMA RefusedStays ==
    ASSUME Types, Rest, NEW p \in Phone, Kind(p), kills' = 0,
           NEW c \in Call, Dialled(c), Refused(c)
    PROVE Refused(c)'
<1> DEFINE x == to[c]
<1>1. to'[c] = x /\ x \in Phone
  BY StaysDialled DEF Dialled
<1>2. c \in phone'[x].seen
  BY <1>1, SeenGrows DEF Refused
<1>3. phone'[x].id # c
  <2>0. c \in phone[x].seen /\ phone[x].id # c /\ c # 0
    BY CallsAssumption DEF Refused, Call
  <2>1. Only(p) /\ ~Dies(p)
    BY DEF Kind, Minor, Leaves, Starts, Tunes, Rung, Dies
  <2>2. CASE x # p
    BY <1>1, <2>0, <2>1, <2>2 DEF Only
  <2>3. CASE x = p
    <3>1. CASE Minor(p) \/ Leaves(p) \/ \E e \in End \cup {None} : Tunes(p, e)
      BY <2>0, <2>3, <3>1 DEF Minor, Leaves, Tunes
    <3>2. CASE \E d \in Call : Starts(p, d)
      BY <2>3, <3>2 DEF Starts, Dialled
    <3>3. CASE \E q \in Phone, d \in Call : Rung(p, q, d)
      BY <2>0, <2>3, <3>3 DEF Rung
    <3> QED BY <2>1, <3>1, <3>2, <3>3 DEF Kind
  <2> QED BY <2>2, <2>3
<1> QED BY <1>1, <1>2, <1>3 DEF Refused

\* A call stays one that may be offered, until its caller forsakes it.
LEMMA FineStays ==
    ASSUME Types, PhonesKeep, HadByEnds, Rest, NEW p \in Phone, Kind(p), kills' = 0, NEW c \in Fine
    PROVE c \in Fine' \/ (Forsakes(p, c) /\ Leaves(p) /\ c \notin phone[to[c]].seen)
<1>1. c \in Call /\ Dialled(c) /\ (Abides(c) \/ c \in phone[to[c]].seen)
  BY DEF Fine
<1>2. Dialled(c)' /\ to'[c] = to[c] /\ to[c] \in Phone
  BY <1>1, StaysDialled DEF Dialled
<1>3. CASE c \in phone[to[c]].seen
  <2>1. c \in phone'[to[c]].seen
    BY <1>2, <1>3, SeenGrows
  <2> QED BY <1>1, <1>2, <2>1 DEF Fine
<1>4. CASE Abides(c) /\ c \notin phone[to[c]].seen
  <2>1. Abides(c)' \/ (Forsakes(p, c) /\ Leaves(p))
    BY <1>1, <1>4, AbidesStays
  <2> QED BY <1>1, <1>2, <1>4, <2>1 DEF Fine
<1> QED BY <1>1, <1>3, <1>4

\* The caller that leaves says so, or has heard that the callee has left.
LEMMA ForsakesTells ==
    ASSUME Types, CallsDialled, PhonesKeep, MessagesBetween, HadByEnds, Refusals,
           NEW p \in Phone, Flow(p), losses' = 0, kills' = 0,
           NEW c \in Call, Forsakes(p, c)
    PROVE \/ net'[<<p, to[c]>>] = Append(net[<<p, to[c]>>], Farewell(c))
          \/ Refused(c)
<1>1. ~Gentle(p)
  BY DEF Forsakes, Gentle, Minor, Starts, Tunes, InUse
<1>2. CASE Leaves(p) /\ Tell(p)
  BY <1>2, TellMoved DEF Forsakes
<1>3. ASSUME NEW q \in Phone, Deliver(p, q)
      PROVE Refused(c)
  <2>1. ~Minor(p) /\ ~Rung(p, q, Id(p, q))
    BY DEF Forsakes, Minor, Rung, InUse
  <2>2. EndTaken(p, q) /\ Ends(p, q)
    BY <1>3, <2>1, ArrivingKinds DEF Deliver
  <2> DEFINE m == Head(net[<<q, p>>])
  <2>3. net[<<q, p>>] # <<>> /\ m.kind \in {"declined", "busy", "hangup"}
    BY <2>2 DEF EndTaken, Arrives
  <2>4. m.id = c
    BY <2>2 DEF Ends, Awaits, Id, Forsakes
  <2>5. Between(m, q, p) /\ m = net[<<q, p>>][1] /\ 1 \in 1..Len(net[<<q, p>>])
    BY <2>3, ArrivalTyped
  <2>6. Replying(m, q, p)
    BY <2>4, <2>5 DEF Between, Offering, Dialled, Forsakes
  <2> QED BY <2>3, <2>4, <2>5, <2>6 DEF Refusals
<1>4. ~Lost(p, p) /\ ~Kill(p) /\ \A q \in Phone : ~Lost(p, q)
  BY DEF Lost, Kill, Types
<1> QED BY <1>1, <1>2, <1>3, <1>4 DEF Flow

\* Who says that a call is over has left it for good.
LEMMA FlowRefusals ==
    ASSUME Types, CallsDialled, PhonesKeep, MessagesBetween, HadByEnds, Rest, Refusals,
           NEW p \in Phone, Flow(p), losses' = 0, kills' = 0
    PROVE Refusals'
<1>0. Kind(p)
  BY FlowKind
<1> DEFINE Refused1(c) == c \in phone'[to'[c]].seen /\ phone'[to'[c]].id # c
           Replying1(m, x, y) == to'[m.id] = x /\ from'[m.id] = y /\ m.kind # "offer"
<1> SUFFICES ASSUME NEW x \in Phone, NEW y \in Phone, NEW i \in 1..Len(net'[<<x, y>>]),
                    Replying1(net'[<<x, y>>][i], x, y), net'[<<x, y>>][i].kind # "answer"
             PROVE Refused1(net'[<<x, y>>][i].id)
  BY DEF Refusals, Refused, Replying
<1> DEFINE s == net[<<x, y>>]
           t == net'[<<x, y>>]
<1>1. s \in Seq(Message) /\ t \in Seq(Message)
  BY FlowMoved DEF Types
<1>2. \A j \in 1..Len(s) : /\ s[j] \in Message /\ Between(s[j], x, y)
                           /\ Replying(s[j], x, y) /\ s[j].kind # "answer" => Refused(s[j].id)
  BY <1>1 DEF MessagesBetween, Refusals
<1>3. ASSUME NEW m \in Message, Between(m, x, y), m = t[i]
      PROVE Replying(m, x, y) /\ m.kind # "answer" /\ m.id \in Call /\ Dialled(m.id)
            /\ to'[m.id] = to[m.id]
  <2>1. from'[m.id] = from[m.id] /\ to'[m.id] = to[m.id]
    BY <1>3, BetweenStays
  <2> QED BY <1>3, <2>1 DEF Replying, Between, Message
<1>a. \A d \in Call : Dialled(d) /\ Refused(d) => Refused1(d)
  <2> SUFFICES ASSUME NEW d \in Call, Dialled(d), Refused(d)
               PROVE Refused1(d)
    OBVIOUS
  <2>1. Refused(d)'
    BY <1>0, RefusedStays
  <2> QED BY <2>1 DEF Refused
<1>4. ASSUME NEW j \in 1..Len(s), t[i] = s[j]
      PROVE Refused1(t[i].id)
  <2> DEFINE m == s[j]
             c == m.id
  <2>1. m \in Message /\ Between(m, x, y)
    BY <1>2
  <2>2. Replying(m, x, y) /\ m.kind # "answer" /\ c \in Call /\ Dialled(c)
    BY <1>3, <1>4, <2>1
  <2>3. Refused(c)
    BY <1>2, <2>2
  <2> HIDE DEF c, Refused1
  <2>4. Refused1(c)
    BY <1>a, <2>2, <2>3
  <2> QED BY <1>4, <2>4 DEF c
<1>5. ASSUME NEW m \in Message, t[i] = m, x = p, Between(m, x, y),
             Replying(m, x, y) /\ m.kind # "answer" =>
                   m.id \in phone'[p].seen /\ phone'[p].id # m.id
      PROVE Refused1(t[i].id)
  <2>1. Replying(m, x, y) /\ m.kind # "answer" /\ to'[m.id] = to[m.id]
    BY <1>3, <1>5
  <2> QED BY <1>5, <2>1 DEF Replying
<1>6. Moved(p, x, y)
  BY FlowMoved
<1>7. CASE t = s
  BY <1>4, <1>7
<1>8. CASE s # <<>> /\ t = Tail(s)
  <2>1. i + 1 \in 1..Len(s) /\ t[i] = s[i + 1]
    BY <1>1, <1>8
  <2> QED BY <1>4, <2>1
<1>9. ASSUME NEW m \in Message, t = Append(s, m), x = p, Between(m, x, y),
             Replying(m, x, y) /\ m.kind # "answer" =>
                   m.id \in phone'[p].seen /\ phone'[p].id # m.id
      PROVE Refused1(t[i].id)
  <2>1. (i \in 1..Len(s) /\ t[i] = s[i]) \/ t[i] = m
    BY <1>1, <1>9
  <2> HIDE DEF Refused1, s, t
  <2> QED BY <1>4, <1>5, <1>9, <2>1
<1> HIDE DEF Refused1
<1> QED BY <1>6, <1>7, <1>8, <1>9 DEF Moved

\* A new offer has its caller behind it.
LEMMA MovedBacked ==
    ASSUME Types, Rest, NEW p \in Phone, NEW x \in Phone, NEW y \in Phone,
           Moved(p, x, y), Backed(net[<<x, y>>], Fine')
    PROVE Backed(net'[<<x, y>>], Fine')
<1> DEFINE s == net[<<x, y>>]
           t == net'[<<x, y>>]
           F == Fine'
<1>1. s \in Seq(Message)
  BY DEF Types
<1>2. ASSUME NEW m \in Message, Between(m, x, y), m.kind = "offer", x = p,
             InUse(phone'[p]), phone'[p].id = m.id, from[m.id] = p
      PROVE m.id \in F
  <2> DEFINE c == m.id
  <2>1. c \in Call /\ Dialled(c)
    BY <1>2 DEF Between, Message
  <2>2. Dialled(c)' /\ from'[c] = p
    BY <1>2, <2>1, StaysDialled
  <2> HIDE DEF c
  <2>3. phone'[p].id = c
    BY <1>2 DEF c
  <2>4. Abides(c)'
    BY <1>2, <2>2, <2>3 DEF Abides, Busy, InUse
  <2>5. c \in F
    BY <2>1, <2>2, <2>4 DEF Fine
  <2> QED BY <2>5 DEF c
<1> HIDE DEF F
<1>3. Backed(s, F)
  BY DEF F
<1>4. CASE t = s
  BY <1>3, <1>4 DEF F
<1>5. CASE s # <<>> /\ t = Tail(s)
  <2>1. Backed(Tail(s), F)
    BY <1>1, <1>3, <1>5, BackedTail
  <2> QED BY <1>5, <2>1 DEF F
<1>6. ASSUME NEW m \in Message, t = Append(s, m), x = p, Between(m, x, y),
             m.kind = "offer" => InUse(phone'[p]) /\ phone'[p].id = m.id /\ from[m.id] = p
      PROVE Backed(t, F)
  <2>1. m.kind = "offer" => m.id \in F
    BY <1>2, <1>6
  <2> HIDE DEF s
  <2>2. Backed(Append(s, m), F)
    BY <1>1, <1>3, <2>1, BackedAppend
  <2> QED BY <1>6, <2>2
<1> QED BY <1>4, <1>5, <1>6 DEF Moved, F

\* Offers stay backed.
LEMMA FlowOffers ==
    ASSUME Types, CallsDialled, PhonesKeep, MessagesBetween, HadByEnds, Rest, Refusals, Offers,
           NEW p \in Phone, Flow(p), losses' = 0, kills' = 0
    PROVE Offers'
<1>0. Kind(p)
  BY FlowKind
<1> DEFINE F == Fine'
<1> SUFFICES ASSUME NEW x \in Phone, NEW y \in Phone
             PROVE Backed(net'[<<x, y>>], F)
  BY DEF Offers, Backed, Farewell
<1> DEFINE s == net[<<x, y>>]
           t == net'[<<x, y>>]
<1>1. s \in Seq(Message) /\ Backed(s, Fine) /\ Moved(p, x, y)
  BY FlowMoved DEF Types, Offers
<1>2. CASE \A i \in 1..Len(s) : s[i].kind = "offer" /\ s[i].id \in Fine => s[i].id \in F
  <2> HIDE DEF F
  <2>1. Backed(s, F)
    BY <1>1, <1>2, BackedMore
  <2> QED BY <1>1, <2>1, MovedBacked DEF F
<1>3. ASSUME NEW j \in 1..Len(s), s[j].kind = "offer", s[j].id \in Fine, s[j].id \notin F
      PROVE Backed(t, F)
  <2> DEFINE c == s[j].id
  <2>1. c \in Fine /\ c \in Call
    BY <1>3 DEF Fine
  <2>2. x = from[c] /\ y = to[c]
    BY <1>3 DEF MessagesBetween, Between, Offering, Replying
  <2>3. c \notin F
    BY <1>3
  <2> HIDE DEF c
  <2>4. Forsakes(p, c) /\ Leaves(p) /\ c \notin phone[to[c]].seen
    BY <1>0, <2>1, <2>3, FineStays
  <2>5. net'[<<p, to[c]>>] = Append(net[<<p, to[c]>>], Farewell(c))
    BY <2>1, <2>4, ForsakesTells DEF Refused
  <2>6. t = Append(s, Farewell(c))
    BY <2>2, <2>4, <2>5 DEF Forsakes
  <2>7. \A d \in Fine : d \in F \cup {c}
    BY <1>0, <2>4, FineStays DEF Forsakes
  <2> HIDE DEF F, s
  <2>8. Backed(s, F \cup {c})
    BY <1>1, <2>7, BackedMore
  <2>9. Backed(Append(s, Farewell(c)), F)
    BY <1>1, <2>1, <2>8, BackedFarewell
  <2> QED BY <2>6, <2>9
<1> QED BY <1>2, <1>3

\* What the phone takes that goes on ringing is not the farewell of its call.
LEMMA RingsOn ==
    ASSUME Types, CallsDialled, PhonesKeep, MessagesBetween, HadByEnds,
           NEW p \in Phone, Flow(p), losses' = 0, kills' = 0,
           phone'[p].state = "incoming", ~\E q \in Phone : OfferRings(p, q)
    PROVE LET r == phone[p]
              m == Farewell(r.id)
              s == net[<<r.peer, p>>]
          IN  /\ r.state = "incoming" /\ phone'[p].id = r.id /\ phone'[p].peer = r.peer
              /\ r.peer \in Phone
              /\ \/ net'[<<r.peer, p>>] = s
                 \/ s # <<>> /\ net'[<<r.peer, p>>] = Tail(s) /\ Head(s) # m
<1> DEFINE r == phone[p]
           m == Farewell(r.id)
           x == r.peer
           s == net[<<x, p>>]
<1>1. ~Leaves(p)
  BY DEF Leaves, InUse
<1>2. Gentle(p)
  <2>1. \A q \in Phone : ~Lost(p, q)
    BY DEF Lost, Types
  <2>2. ~Kill(p)
    BY DEF Kill, Types
  <2>3. \A q \in Phone : Deliver(p, q) => Minor(p)
    BY <1>1, ArrivingKinds DEF Deliver
  <2> QED BY <1>1, <2>1, <2>2, <2>3 DEF Flow, Gentle
<1>3. r.state = "incoming" /\ phone'[p].id = r.id /\ phone'[p].peer = r.peer
  <2>1. CASE Minor(p)
    BY <2>1 DEF Minor, InUse
  <2>2. CASE \E c \in Call : Starts(p, c)
    BY <2>2 DEF Starts
  <2>3. CASE \E e \in End \cup {None} : Tunes(p, e)
    BY <2>3 DEF Tunes
  <2> QED BY <1>2, <2>1, <2>2, <2>3 DEF Gentle
<1>4. Busy(p) /\ x \in Phone /\ x # p
  <2>1. Busy(p)
    BY <1>3 DEF Busy
  <2> QED BY <2>1, UseKeeps
<1>5. CASE net' = net
  BY <1>3, <1>4, <1>5
<1>6. CASE Posts(p)
  <2>1. PICK q \in Phone, n \in Message : net' = [net EXCEPT ![<<p, q>>] = Append(@, n)]
    BY <1>6 DEF Posts
  <2>2. net'[<<x, p>>] = net[<<x, p>>]
    BY <1>4, <2>1 DEF Types
  <2> QED BY <1>3, <1>4, <2>2
<1>7. ASSUME NEW q \in Phone, Deliver(p, q)
      PROVE \/ net'[<<x, p>>] = s
            \/ s # <<>> /\ net'[<<x, p>>] = Tail(s) /\ Head(s) # m
  <2>1. net[<<q, p>>] # <<>>
    BY <1>7 DEF Deliver, OfferDropped, OfferRings, OfferBusy, AnswerTaken, EndTaken, Arrives
  <2>2. /\ net'[<<q, p>>] = Tail(net[<<q, p>>]) \/ net'[<<q, p>>] = net[<<q, p>>]
        /\ x # q => net'[<<x, p>>] = net[<<x, p>>]
    <3>1. CASE OfferBusy(p, q)
      <4>1. net' = Posted(Received(p, q), p, q, "busy", Id(p, q))
        BY <3>1 DEF OfferBusy
      <4>2. Moved(p, q, p) /\ q # p
        <5>1. q # p
          BY <2>1, ArrivalTyped DEF Between, Offering, Replying, Dialled
        <5> QED BY <3>1, <5>1, BusyMoved
      <4>3. net'[<<q, p>>] = Tail(net[<<q, p>>]) \/ net'[<<q, p>>] = net[<<q, p>>]
        BY <4>2 DEF Moved
      <4>4. x # q => net'[<<x, p>>] = net[<<x, p>>]
        <5>1. Received(p, q) \in [Phone \X Phone -> Seq(Message)]
          BY <2>1, ReceivedTyped
        <5> QED BY <1>4, <4>1, <5>1 DEF Types, Received, Posted
      <4> QED BY <4>3, <4>4
    <3>2. CASE ~OfferBusy(p, q)
      <4>1. net' = Received(p, q)
        BY <1>7, <3>2 DEF Deliver, OfferDropped, OfferRings, AnswerTaken, EndTaken
      <4> QED BY <1>4, <2>1, <4>1, TakeMoved
    <3> QED BY <3>1, <3>2
  <2>3. CASE x # q
    BY <2>2, <2>3
  <2>4. CASE x = q
    <3>1. Head(s) # m
      <4> SUFFICES ASSUME Head(s) = m
                   PROVE FALSE
        OBVIOUS
      <4>1. Head(s).kind = "hangup" /\ Head(s).id = r.id
        BY DEF Farewell
      <4>2. EndTaken(p, q)
        BY <1>7, <2>4, <4>1 DEF Deliver, OfferDropped, OfferRings, OfferBusy, AnswerTaken, Arrives
      <4>3. Ends(p, q)
        BY <1>4, <2>1, <2>4, <4>1 DEF Ends, Arrives, InCallWith, Id
      <4> QED BY <1>1, <4>2, <4>3, ArrivingKinds
    <3> QED BY <2>1, <2>2, <2>4, <3>1
  <2> QED BY <2>3, <2>4
<1>8. ~Kill(p) /\ \A q \in Phone : ~Lost(p, q)
  BY DEF Lost, Kill, Types
<1> QED BY <1>1, <1>3, <1>4, <1>5, <1>6, <1>7, <1>8 DEF Flow

\* Calls that ring stay backed.
LEMMA FlowRings ==
    ASSUME Types, CallsDialled, PhonesKeep, MessagesBetween, HadByEnds, Rest, Faithful,
           NEW p \in Phone, Flow(p), losses' = 0, kills' = 0
    PROVE Rings'
<1>0. Kind(p)
  BY FlowKind
<1> DEFINE Abides1(d) == d \in yielded' \/ (InUse(phone'[from'[d]]) /\ phone'[from'[d]].id = d)
<1> SUFFICES ASSUME NEW y \in Phone, phone'[y].state = "incoming"
             PROVE \/ Abides1(phone'[y].id)
                   \/ Contains(net'[<<phone'[y].peer, y>>], Farewell(phone'[y].id))
  BY DEF Rings, Contains, Farewell, Abides, Busy, InUse
<1>a. \A d \in Call : Dialled(d) /\ Abides(d) => Abides1(d) \/ Forsakes(p, d)
  <2> SUFFICES ASSUME NEW d \in Call, Dialled(d), Abides(d)
               PROVE Abides1(d) \/ Forsakes(p, d)
    OBVIOUS
  <2>1. Abides(d)' \/ Forsakes(p, d)
    BY <1>0, AbidesStays
  <2> QED BY <2>1 DEF Abides, Busy, InUse
<1> HIDE DEF Abides1
<1>1. CASE y = p /\ \E q \in Phone : OfferRings(p, q)
  <2>1. PICK q \in Phone : OfferRings(p, q)
    BY <1>1
  <2> DEFINE c == Id(p, q)
             s == net[<<q, p>>]
  <2>2. Rung(p, q, c) /\ c \in Call
    BY <2>1, ArrivingKinds
  <2>3. s # <<>> /\ Head(s).kind = "offer" /\ Head(s).id = c /\ net' = Received(p, q)
    BY <2>1 DEF OfferRings, Arrives, Id
  <2>4. s \in Seq(Message) /\ Backed(s, Fine)
    BY DEF Faithful, Offers, Types
  <2>5. net'[<<q, p>>] = Tail(s)
    BY <2>3, TakeMoved
  <2>6. c \in Fine \/ Contains(Tail(s), Farewell(c))
    BY <2>3, <2>4, BackedHead
  <2> HIDE DEF s, c
  <2>7. /\ Dialled(c) /\ from[c] = q /\ to[c] = p /\ q # p /\ c \notin phone[p].seen
        /\ phone'[p].id = c /\ phone'[p].peer = q
    BY <2>2 DEF Rung, Dialled
  <2>8. c \in Fine => Abides1(c)
    <3>1. c \in Fine => Abides(c)
      BY <2>7 DEF Fine
    <3>2. Abides(c) => Abides1(c) \/ Forsakes(p, c)
      BY <1>a, <2>2, <2>7
    <3> QED BY <2>7, <3>1, <3>2 DEF Forsakes
  <2> QED BY <1>1, <2>5, <2>6, <2>7, <2>8 DEF s
<1>2. CASE /\ phone[y].state = "incoming" /\ phone'[y].id = phone[y].id
           /\ phone'[y].peer = phone[y].peer
           /\ LET x == phone[y].peer
                  s == net[<<x, y>>]
                  t == net'[<<x, y>>]
                  m == Farewell(phone[y].id)
              IN  \/ t = s \/ (s # <<>> /\ t = Tail(s) /\ Head(s) # m)
                  \/ \E n \in Message : t = Append(s, n)
  <2> DEFINE c == phone[y].id
             x == phone[y].peer
             s == net[<<x, y>>]
             t == net'[<<x, y>>]
             m == Farewell(c)
  <2>1. c \in Call /\ Dialled(c) /\ x \in Phone /\ to[c] = y /\ from[c] = x
    <3>1. Busy(y) /\ phone[y].state = "incoming"
      BY <1>2 DEF Busy
    <3> QED BY <3>1, UseKeeps DEF Calling, Called
  <2>2. s \in Seq(Message)
    BY <2>1 DEF Types
  <2>3. Abides(c) \/ Contains(s, m)
    BY <1>2 DEF Faithful, Rings
  <2>4. Contains(s, m) => Contains(t, m)
    <3> HIDE DEF s, t, m
    <3>1. t = s \/ (s # <<>> /\ t = Tail(s) /\ Head(s) # m) \/ \E n \in Message : t = Append(s, n)
      BY <1>2 DEF s, t, m
    <3>2. CASE s # <<>> /\ t = Tail(s) /\ Head(s) # m
      BY <2>2, <3>2, ContainsTail
    <3>3. CASE \E n \in Message : t = Append(s, n)
      BY <2>2, <3>3, ContainsAppend
    <3> QED BY <3>1, <3>2, <3>3
  <2>5. Refused(c) => FALSE
    BY <2>1 DEF Refused
  <2>6. Abides(c) /\ Forsakes(p, c) => Contains(t, m)
    <3> SUFFICES ASSUME Forsakes(p, c)
                 PROVE Contains(t, m)
      OBVIOUS
    <3>1. net'[<<p, to[c]>>] = Append(net[<<p, to[c]>>], Farewell(c))
      BY <2>1, <2>5, ForsakesTells DEF Faithful
    <3>2. t = Append(s, m)
      BY <2>1, <3>1 DEF Forsakes
    <3>3. m \in Message
      BY <2>1 DEF Farewell, Message
    <3> HIDE DEF s, t, m
    <3> QED BY <2>2, <3>2, <3>3, ContainsAppend
  <2>7. phone'[y].id = c /\ phone'[y].peer = x
    BY <1>2
  <2> HIDE DEF c, x, t, m
  <2>8. Abides(c) => Abides1(c) \/ Forsakes(p, c)
    BY <1>a, <2>1
  <2>9. Abides1(c) \/ Contains(t, m)
    BY <2>3, <2>4, <2>6, <2>8
  <2>10. Contains(t, m) => Contains(net'[<<phone'[y].peer, y>>], Farewell(phone'[y].id))
    BY <2>7 DEF t, m
  <2> QED BY <2>7, <2>9, <2>10
<1>3. CASE y = p /\ ~\E q \in Phone : OfferRings(p, q)
  BY <1>2, <1>3, RingsOn
<1>4. CASE y # p
  <2>1. phone'[y] = phone[y]
    <3>1. Only(p)
      BY <1>0 DEF Kind, Minor, Leaves, Starts, Tunes, Rung, Dies
    <3> QED BY <1>4, <3>1 DEF Only
  <2>2. Busy(y)
    BY <2>1 DEF Busy
  <2> DEFINE x == phone[y].peer
  <2>3. x \in Phone
    BY <2>2, UseKeeps
  <2>4. Moved(p, x, y)
    BY <2>3, FlowMoved
  <2> HIDE DEF x
  <2>5. net'[<<x, y>>] = net[<<x, y>>] \/ \E n \in Message : net'[<<x, y>>] = Append(net[<<x, y>>], n)
    BY <1>4, <2>4 DEF Moved
  <2> QED BY <1>2, <2>1, <2>5 DEF x
<1> QED BY <1>1, <1>3, <1>4

-----------------------------------------------------------------------------
(* The invariant, and what it says.                                        *)

\* The invariant holds before anybody has dialled.
LEMMA InitInv == Init => IInv
<1> SUFFICES ASSUME Init
             PROVE IInv
  OBVIOUS
<1> USE CallsAssumption
<1>1. Idle \in PhoneState
  <2>1. 0 \in 0..MaxCalls /\ 0 \in 0..Phones /\ None \in End \cup {None} /\ {} \in SUBSET Call
    OBVIOUS
  <2> QED BY <2>1 DEF Idle, PhoneState
<1>2. Types
  <2>1. phone \in [Phone -> PhoneState]
    BY <1>1 DEF Init
  <2>2. /\ from \in [Call -> 0..Phones] /\ to \in [Call -> 0..Phones]
        /\ stage \in [End -> Stage] /\ lines \in [Phone \X Call -> Nat]
    BY DEF Init, Stage
  <2>3. net \in [Phone \X Phone -> Seq(Message)]
    <3> DEFINE none == <<>>
    <3>1. none \in Seq(Message) /\ net = [pq \in Phone \X Phone |-> none]
      BY DEF Init
    <3> DEFINE pairs == Phone \X Phone
               queues == Seq(Message)
    <3>2. none \in queues /\ net = [pq \in pairs |-> none]
      BY <3>1
    <3> HIDE DEF none, pairs, queues
    <3>3. net \in [pairs -> queues]
      BY <3>2
    <3> QED BY <3>3 DEF pairs, queues
  <2>4. /\ applying \subseteq Call /\ yielded \subseteq Call
        /\ live \subseteq End /\ had \subseteq Phone \X Call /\ overtaken \in BOOLEAN
    BY DEF Init
  <2>5. losses \in Nat /\ kills \in Nat /\ losses + kills <= MaxFaults
    BY DEF Init
  <2> QED BY <2>1, <2>2, <2>3, <2>4, <2>5 DEF Types
<1>3. CallsDialled
  BY DEF Init, CallsDialled, End
<1>4. \A p \in Phone : phone[p] = Idle
  BY DEF Init
<1>5. PhonesKeep
  BY <1>4 DEF PhonesKeep, Keeps, Idle, InUse
<1>6. \A p, q \in Phone : net[<<p, q>>] = <<>> /\ Len(net[<<p, q>>]) = 0
  BY DEF Init
<1>7. MessagesBetween
  BY <1>6 DEF MessagesBetween
<1>8. \A p \in Phone : ~Busy(p)
  BY <1>4 DEF Busy, Idle
<1>9. HadByEnds
  <2>1. \A pc \in Phone \X Call : lines[pc] = 0
    BY DEF Init
  <2> QED BY <1>8, <2>1 DEF Init, HadByEnds
<1>10. RecordedOnce /\ MicOff
  BY DEF Init, RecordedOnce, MicOff, MicHeld
<1>11. Faithful
  <2>1. Refusals /\ Offers
    BY <1>6 DEF Refusals, Offers, Backed
  <2>2. Rings
    BY <1>4 DEF Rings, Idle
  <2> QED BY <2>1, <2>2 DEF Faithful
<1> QED BY <1>2, <1>3, <1>5, <1>7, <1>9, <1>10, <1>11 DEF IInv

\* What a phone does keeps the invariant.
LEMMA FlowInv ==
    ASSUME IInv, Rest, NEW p \in Phone, Flow(p),
           losses' \in Nat, kills' \in Nat, losses' + kills' <= MaxFaults,
           losses' = 0 /\ kills' = 0 => losses = 0 /\ kills = 0
    PROVE IInv'
<1> USE DEF IInv
<1>1. Kind(p)
  BY FlowKind
<1>2. Types'
  <2>1. net' \in [Phone \X Phone -> Seq(Message)]
    BY FlowMoved
  <2> QED BY <1>1, <2>1, KindTyped DEF Types, Rest
<1>3. CallsDialled' /\ PhonesKeep'
  BY <1>1, KindPhones DEF Rest
<1>4. MessagesBetween'
  BY FlowBetween
<1>5. HadByEnds' /\ RecordedOnce' /\ MicOff'
  BY <1>1, KindRecord, KindOnce, KindMic
<1>6. losses' = 0 /\ kills' = 0 => Faithful'
  <2> SUFFICES ASSUME losses' = 0, kills' = 0
               PROVE Faithful'
    OBVIOUS
  <2>1. Faithful
    OBVIOUS
  <2>2. Refusals' /\ Offers' /\ Rings'
    BY <2>1, FlowRefusals, FlowOffers, FlowRings DEF Faithful
  <2> QED BY <2>2 DEF Faithful
<1> QED BY <1>2, <1>3, <1>4, <1>5, <1>6

\* So every step does.
LEMMA NextInv == IInv /\ Next => IInv'
<1> SUFFICES ASSUME IInv, Next
             PROVE IInv'
  OBVIOUS
<1>1. Rest /\ \E p \in Phone : Flow(p)
  BY StepRest, StepFlow DEF IInv
<1>2. /\ losses' \in Nat /\ kills' \in Nat /\ losses' + kills' <= MaxFaults
      /\ losses' = 0 /\ kills' = 0 => losses = 0 /\ kills = 0
  BY FaultsTyped DEF IInv
<1> QED BY <1>1, <1>2, FlowInv

\* A step of nobody is a quiet one of the first phone.
LEMMA StutterInv == IInv /\ UNCHANGED vars => IInv'
<1> SUFFICES ASSUME IInv, UNCHANGED vars
             PROVE IInv'
  OBVIOUS
<1> USE DEF vars, history
<1>1. Rest
  BY RestStays DEF IInv, Types
<1>2. 1 \in Phone
  BY CallsAssumption DEF Phone
<1>3. Flow(1)
  BY <1>2, KindQuiet DEF IInv, Flow, Gentle
<1>4. /\ losses' \in Nat /\ kills' \in Nat /\ losses' + kills' <= MaxFaults
      /\ losses' = 0 /\ kills' = 0 => losses = 0 /\ kills = 0
  BY DEF IInv, Types
<1> QED BY <1>1, <1>2, <1>3, <1>4, FlowInv

\* Every state the phones come to is one the invariant describes, for any number of phones
\* and of calls, whoever dials whom, whatever is lost and whoever dies.
THEOREM Invariance == Spec => []IInv
<1>1. IInv /\ [Next]_vars => IInv'
  BY NextInv, StutterInv
<1> QED BY InitInv, <1>1, PTL DEF Spec

\* The types; above all, a phone in a call has the number of the call and another phone at
\* the other end, however late an await of acceptCall or of initiateCall comes back.
THEOREM TypeCorrect == Spec => []TypeOK
<1>1. IInv => TypeOK
  <2> SUFFICES ASSUME IInv
               PROVE TypeOK
    OBVIOUS
  <2>1. \A p \in Phone :
          phone[p].state \in {"outgoing", "incoming", "connected"} =>
              phone[p].id # 0 /\ phone[p].peer \in Phone \ {p}
    BY UseKeeps, CallsAssumption DEF IInv, Busy, Call
  <2>2. \A pq \in Phone \X Phone : \A i \in DOMAIN net[pq] : net[pq][i] \in Message
    BY DEF IInv, Types
  <2> QED BY <2>1, <2>2 DEF IInv, Types, TypeOK
<1> QED BY <1>1, Invariance, PTL

\* Each call that a phone has had is in its log once, or still in progress, or was given up
\* for the call that crossed it.
THEOREM LoggedOnce == Spec => []RecordedOnce
<1>1. IInv => RecordedOnce
  BY DEF IInv
<1> QED BY <1>1, Invariance, PTL

\* A microphone that is on is held by the phone, for the call that is in progress, until an
\* accept gets its stream while another one is held.
THEOREM MicrophoneOff == Spec => []MicOff
<1>1. IInv => MicOff
  BY DEF IInv
<1> QED BY <1>1, Invariance, PTL

\* When nothing is lost and nobody dies, a phone that rings has its caller behind the call,
\* or the farewell of the caller on its way.
THEOREM NoGhostRings == Spec => []StopsRinging
<1>1. IInv => StopsRinging
  <2> SUFFICES ASSUME IInv, losses = 0, kills = 0, NEW q \in Phone, phone[q].state = "incoming"
               PROVE LET c == phone[q].id
                         p == Caller(c)
                     IN \/ c \in yielded
                        \/ Busy(p) /\ phone[p].id = c
                        \/ \E i \in DOMAIN net[<<p, q>>] :
                              net[<<p, q>>][i] = [kind |-> "hangup", id |-> c]
    BY DEF StopsRinging
  <2> DEFINE c == phone[q].id
             p == from[c]
  <2>1. Busy(q)
    BY DEF Busy
  <2>2. from[c] = phone[q].peer /\ p \in Phone
    BY <2>1, UseKeeps DEF IInv, Calling, Called
  <2>3. Abides(c) \/ Contains(net[<<p, q>>], Farewell(c))
    BY <2>2 DEF IInv, Faithful, Rings
  <2>4. DOMAIN net[<<p, q>>] = 1..Len(net[<<p, q>>])
    BY <2>2 DEF IInv, Types
  <2> QED BY <2>3, <2>4 DEF Abides, Contains, Farewell, Caller
<1> QED BY <1>1, Invariance, PTL

=============================================================================
