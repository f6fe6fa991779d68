-------------------------------- MODULE Calls --------------------------------
(***************************************************************************)
(* Calls between phones: social/callService.ts and callTeardown.ts, over   *)
(* the signaling server, which passes messages on or answers that a phone  *)
(* is away.                                                                *)
(*                                                                         *)
(* A phone has one call at a time.  Dialling and accepting are sequences   *)
(* of awaits (the network, a dialog of permissions, the microphone, the    *)
(* connection), that go on when the call they are for has been replaced.   *)
(* An envelope is sealed or opened between two events: nothing but promise *)
(* callbacks lies there.  The list of the blocked is loaded and empty.     *)
(*                                                                         *)
(* callGeneration moves when a call comes or goes, so "the same generation *)
(* and the same state" is "the same number of the call" here.  Not         *)
(* modelled: the log's storage, receipts for missed calls, registration    *)
(* at the server, the switch of the profile, video.                        *)
(***************************************************************************)
EXTENDS Integers, Sequences

CONSTANTS
    Phones,         \* number of phones; a larger number has the larger key
    MaxCalls,       \* bound: calls that are dialled
    MaxAccepts,     \* bound: presses of "accept" for one call
    MaxFaults,      \* bound: messages that are lost, and deaths of a process
    Dials           \* bound: who may dial whom, call by call

Phone == 1..Phones
Call == 1..MaxCalls

\* The attempts to set up an end of a call: 0 is the caller's.
Try == 0..MaxAccepts
End == Call \X Try
None == <<0, 0>>

ASSUME CallsAssumption ==
    /\ Phones \in Nat \ {0} /\ MaxCalls \in Nat /\ MaxAccepts \in Nat
    /\ MaxFaults \in Nat /\ Dials \in [Call -> SUBSET (Phone \X Phone)]

VARIABLES
    phone,          \* what callService of each phone keeps, see PhoneState
    from, to,       \* who dialled a call, and whom; 0 before
    stage,          \* how far the setting up of an end is
    applying,       \* calls whose answer is being applied
    net,            \* messages on their way, from one phone to another
    live,           \* ends whose microphone is on
    losses, kills   \* bounded by the constant

\* Only for the properties.
VARIABLES
    had,            \* the calls a phone has had, since it was started
    lines,          \* how often a call was written into a phone's log
    yielded,        \* calls that were given up for the one that crossed them
    overtaken       \* an accept got its microphone while another one was on

history == <<had, lines, yielded, overtaken>>
vars == <<phone, from, to, stage, applying, net, live, losses, kills, history>>

\* currentCall and activeCallId, localStream, pc, the three timers,
\* outgoingOffer and its interval, seenOfferCallIds.
PhoneState ==
    [state : {"idle", "outgoing", "incoming", "connected", "ended"},
     peer : 0..Phones, id : 0..MaxCalls, mic : End \cup {None}, pc : End \cup {None},
     out : BOOLEAN, in : BOOLEAN, reset : BOOLEAN,
     offered : 0..MaxCalls, retry : BOOLEAN, seen : SUBSET Call]
Idle ==
    [state |-> "idle", peer |-> 0, id |-> 0, mic |-> None, pc |-> None,
     out |-> FALSE, in |-> FALSE, reset |-> FALSE,
     offered |-> 0, retry |-> FALSE, seen |-> {}]

\* ready: until the microphone is asked for; media: until it is there; wiring:
\* until the connection is made; answering: until it is described.
Stage == {"unused", "ready", "media", "wiring", "answering", "over"}
Message == [kind : {"offer", "answer", "declined", "busy", "hangup"}, id : Call]

\* A call in progress has a number and somebody at the other end (a call that is brought
\* back by a late answer has neither: acceptCall, v4.32.623).
TypeOK ==
    /\ phone \in [Phone -> PhoneState]
    /\ \A p \in Phone :
          phone[p].state \in {"outgoing", "incoming", "connected"} =>
              phone[p].id # 0 /\ phone[p].peer \in Phone \ {p}
    /\ from \in [Call -> 0..Phones] /\ to \in [Call -> 0..Phones]
    /\ stage \in [End -> Stage]
    /\ applying \subseteq Call /\ yielded \subseteq Call
    /\ \A pq \in Phone \X Phone : \A i \in DOMAIN net[pq] : net[pq][i] \in Message
    /\ live \subseteq End /\ had \subseteq Phone \X Call
    /\ lines \in [Phone \X Call -> Nat] /\ overtaken \in BOOLEAN
    /\ losses \in Nat /\ kills \in Nat /\ losses + kills <= MaxFaults

Init ==
    /\ phone = [p \in Phone |-> Idle]
    /\ from = [c \in Call |-> 0] /\ to = [c \in Call |-> 0]
    /\ stage = [e \in End |-> "unused"]
    /\ applying = {} /\ live = {} /\ losses = 0 /\ kills = 0
    /\ net = [pq \in Phone \X Phone |-> <<>>]
    /\ had = {} /\ yielded = {} /\ overtaken = FALSE
    /\ lines = [pc \in Phone \X Call |-> 0]

-----------------------------------------------------------------------------
Busy(p) == phone[p].state \in {"outgoing", "incoming", "connected"}
Has(p, state, c) == phone[p].state = state /\ phone[p].id = c
Caller(c) == from[c]
Callee(c) == to[c]

Goto(e, at) == stage' = [stage EXCEPT ![e] = at]
Posted(n, p, q, kind, c) == [n EXCEPT ![<<p, q>>] = Append(@, [kind |-> kind, id |-> c])]

\* cleanupCallResources, and the timers that end with a call.
Cleaned(r) ==
    [r EXCEPT !.mic = None, !.pc = None, !.out = FALSE, !.in = FALSE,
              !.offered = 0, !.retry = FALSE, !.id = 0]

\* sendHangupSignal: the other phone of a call that ends here is told.
Tell(p) ==
    LET r == phone[p]
    IN net' = IF Busy(p)
                THEN Posted(net, p, r.peer,
                            IF r.state = "incoming" THEN "declined" ELSE "hangup", r.id)
                ELSE net

\* _hangup, of whatever call there is; only a call in progress is written down.
HangUp(p) ==
    LET r == phone[p] IN
    /\ phone' = [phone EXCEPT ![p] =
                   IF Busy(p) THEN [Cleaned(r) EXCEPT !.state = "ended", !.reset = TRUE]
                              ELSE Cleaned(r)]
    /\ live' = live \ {r.mic}
    /\ lines' = IF Busy(p) THEN [lines EXCEPT ![<<p, r.id>>] = @ + 1] ELSE lines

-----------------------------------------------------------------------------
(* Broken on purpose: what the properties are held against.                *)

\* The phone is not asked again whether it is free (before v4.32.740).
DialReadyUnasked(c) ==
    LET p == Caller(c) IN
    /\ stage[<<c, 0>>] = "ready"
    /\ phone' = [phone EXCEPT ![p] = [@ EXCEPT !.state = "outgoing",
                    !.peer = Callee(c), !.id = c, !.reset = FALSE]]
    /\ had' = had \cup {<<p, c>>}
    /\ Goto(<<c, 0>>, "media")
    /\ UNCHANGED <<from, to, applying, net, live, losses, kills, lines, yielded, overtaken>>

\* A stream that comes late is kept (before v4.32.177).
DialMediaKept(c) ==
    LET p == Caller(c) IN
    /\ stage[<<c, 0>>] = "media"
    /\ phone' = [phone EXCEPT ![p].mic = <<c, 0>>]
    /\ live' = live \cup {<<c, 0>>}
    /\ Goto(<<c, 0>>, "wiring")
    /\ UNCHANGED <<from, to, applying, net, losses, kills, history>>

\* A timer ends the call here only (before v4.32.549).
OutTimeoutSilent(p) ==
    /\ phone[p].out
    /\ IF phone[p].state = "outgoing"
         THEN HangUp(p)
         ELSE phone' = [phone EXCEPT ![p].out = FALSE] /\ UNCHANGED <<live, lines>>
    /\ UNCHANGED <<from, to, stage, applying, net, losses, kills, had, yielded, overtaken>>

\* The answer brings back a call that has ended meanwhile (before v4.32.623).
AcceptAnswersLate(c, k) ==
    LET p == Callee(c) IN
    /\ k # 0 /\ stage[<<c, k>>] = "answering"
    /\ Goto(<<c, k>>, "over")
    /\ net' = Posted(net, p, Caller(c), "answer", c)
    /\ phone' = [phone EXCEPT ![p].state = "connected"]
    /\ UNCHANGED <<from, to, applying, live, losses, kills, history>>

\* An incoming call has no limit (before v4.32.549).
RingingForGood(r, q, c) ==
    [r EXCEPT !.state = "incoming", !.peer = q, !.id = c, !.reset = FALSE]

-----------------------------------------------------------------------------
(* initiateCall                                                            *)

\* Calls are numbered as they are dialled.
Dial(p, q, c) ==
    /\ <<p, q>> \in Dials[c] /\ p # q /\ ~Busy(p)
    /\ from[c] = 0 /\ \A d \in 1..c - 1 : from[d] # 0
    /\ from' = [from EXCEPT ![c] = p] /\ to' = [to EXCEPT ![c] = q]
    /\ Goto(<<c, 0>>, "ready")
    /\ UNCHANGED <<phone, applying, net, live, losses, kills, history>>

\* The server is reached and the permissions are given: is the phone still free?
DialReady(c) ==
    LET p == Caller(c) IN
    /\ stage[<<c, 0>>] = "ready"
    /\ IF Busy(p)
         THEN Goto(<<c, 0>>, "over") /\ UNCHANGED <<phone, had>>
         ELSE /\ phone' = [phone EXCEPT ![p] = [@ EXCEPT !.state = "outgoing",
                             !.peer = Callee(c), !.id = c, !.reset = FALSE]]
              /\ had' = had \cup {<<p, c>>}
              /\ Goto(<<c, 0>>, "media")
    /\ UNCHANGED <<from, to, applying, net, live, losses, kills, lines, yielded,
                   overtaken>>

DialRefused(c) ==
    /\ stage[<<c, 0>>] = "ready"
    /\ Goto(<<c, 0>>, "over")
    /\ UNCHANGED <<phone, from, to, applying, net, live, losses, kills, history>>

\* A stream that comes for a call that has gone is stopped at once.
DialMedia(c) ==
    LET p == Caller(c) IN
    /\ stage[<<c, 0>>] = "media"
    /\ IF Has(p, "outgoing", c)
         THEN /\ phone' = [phone EXCEPT ![p].mic = <<c, 0>>]
              /\ live' = live \cup {<<c, 0>>}
              /\ Goto(<<c, 0>>, "wiring")
         ELSE Goto(<<c, 0>>, "over") /\ UNCHANGED <<phone, live>>
    /\ UNCHANGED <<from, to, applying, net, losses, kills, history>>

\* The connection is made, described and sealed; after each of these awaits the same is
\* asked, and nobody else looks at the connection before there is an offer.
DialOffers(c) ==
    LET p == Caller(c) IN
    /\ stage[<<c, 0>>] = "wiring"
    /\ Goto(<<c, 0>>, "over")
    /\ IF Has(p, "outgoing", c)
         THEN /\ net' = Posted(net, p, Callee(c), "offer", c)
              /\ phone' = [phone EXCEPT ![p] = [@ EXCEPT !.pc = <<c, 0>>,
                             !.offered = c, !.out = TRUE]]
         ELSE UNCHANGED <<phone, net>>
    /\ UNCHANGED <<from, to, applying, live, losses, kills, history>>

\* An exception ends the call that the phone has by then.
DialFails(c) ==
    /\ stage[<<c, 0>>] \in {"media", "wiring"}
    /\ Goto(<<c, 0>>, "over")
    /\ HangUp(Caller(c)) /\ Tell(Caller(c))
    /\ UNCHANGED <<from, to, applying, losses, kills, had, yielded, overtaken>>

-----------------------------------------------------------------------------
(* acceptCall: press k of the button, for the call that rings.             *)

\* The offer came through the signaling object that getSignaling returns, so that
\* its await gives way to no message, timer or press before the offer is read.
Accept(p, k) ==
    LET c == phone[p].id IN
    /\ phone[p].state = "incoming"
    /\ k \in Try \ {0} /\ stage[<<c, k>>] = "unused"
    /\ \A j \in 1..k - 1 : stage[<<c, j>>] # "unused"
    /\ phone' = [phone EXCEPT ![p].in = FALSE, ![p].reset = FALSE]
    /\ Goto(<<c, k>>, "media")
    /\ UNCHANGED <<from, to, applying, net, live, losses, kills, history>>

\* No permission, or no server: what the phone has by then is declined.
AcceptRefused(c, k) ==
    /\ k # 0 /\ stage[<<c, k>>] = "media"
    /\ Goto(<<c, k>>, "over")
    /\ HangUp(Callee(c)) /\ Tell(Callee(c))
    /\ UNCHANGED <<from, to, applying, losses, kills, had, yielded, overtaken>>

\* The stream takes the place of the one there is; then it is asked for whom.
AcceptMedia(c, k) ==
    LET p == Callee(c)
        e == <<c, k>>
    IN /\ k # 0 /\ stage[e] = "media"
       /\ overtaken' = (overtaken \/ phone[p].mic # None)
       /\ IF Has(p, "incoming", c)
            THEN /\ phone' = [phone EXCEPT ![p].mic = e]
                 /\ live' = live \cup {e}
                 /\ Goto(e, "wiring")
            ELSE /\ phone' = [phone EXCEPT ![p].mic = None]
                 /\ Goto(e, "over")
                 /\ UNCHANGED live
       /\ UNCHANGED <<from, to, applying, net, losses, kills, had, lines, yielded>>

AcceptWired(c, k) ==
    LET p == Callee(c) IN
    /\ k # 0 /\ stage[<<c, k>>] = "wiring"
    /\ IF Has(p, "incoming", c)
         THEN /\ phone' = [phone EXCEPT ![p].pc = <<c, k>>]
              /\ Goto(<<c, k>>, "answering")
         ELSE Goto(<<c, k>>, "over") /\ UNCHANGED phone
    /\ UNCHANGED <<from, to, applying, net, live, losses, kills, history>>

AcceptAnswers(c, k) ==
    LET p == Callee(c) IN
    /\ k # 0 /\ stage[<<c, k>>] = "answering"
    /\ Goto(<<c, k>>, "over")
    /\ IF Has(p, "incoming", c) /\ phone[p].pc = <<c, k>>
         THEN /\ net' = Posted(net, p, Caller(c), "answer", c)
              /\ phone' = [phone EXCEPT ![p].state = "connected"]
         ELSE UNCHANGED <<phone, net>>
    /\ UNCHANGED <<from, to, applying, live, losses, kills, had, lines, yielded, overtaken>>

AcceptFails(c, k) ==
    /\ k # 0 /\ stage[<<c, k>>] \in {"media", "wiring", "answering"}
    /\ Goto(<<c, k>>, "over")
    /\ IF Has(Callee(c), "incoming", c)
         THEN HangUp(Callee(c)) /\ Tell(Callee(c))
         ELSE UNCHANGED <<phone, net, live, lines>>
    /\ UNCHANGED <<from, to, applying, losses, kills, had, yielded, overtaken>>

-----------------------------------------------------------------------------
(* What arrives: p handles the first message of q.                         *)

Arrives(p, q, kinds) == net[<<q, p>>] # <<>> /\ Head(net[<<q, p>>]).kind \in kinds
Id(p, q) == Head(net[<<q, p>>]).id
Received(p, q) == [net EXCEPT ![<<q, p>>] = Tail(@)]

InCallWith(p, q) == Busy(p) /\ phone[p].peer = q

\* Two calls that cross: the larger key keeps its own, the smaller gives it up.
Crossed(p, q) == InCallWith(p, q) /\ phone[p].state = "outgoing"
Yields(p, q) == Crossed(p, q) /\ p < q

Ringing(r, q, c) ==
    [r EXCEPT !.state = "incoming", !.peer = q, !.id = c, !.in = TRUE, !.reset = FALSE]

\* A call that was offered before, or the call of somebody who is being talked to,
\* is dropped.
OfferDropped(p, q) ==
    /\ Arrives(p, q, {"offer"})
    /\ \/ Id(p, q) \in phone[p].seen
       \/ InCallWith(p, q) /\ ~Yields(p, q)
    /\ net' = Received(p, q)
    /\ phone' = [phone EXCEPT ![p].seen = @ \cup {Id(p, q)}]
    /\ UNCHANGED <<from, to, stage, applying, live, losses, kills, history>>

OfferRings(p, q) ==
    LET c == Id(p, q)
        r == [phone[p] EXCEPT !.seen = @ \cup {c}]
    IN /\ Arrives(p, q, {"offer"}) /\ c \notin phone[p].seen
       /\ Yields(p, q) \/ ~Busy(p)
       /\ net' = Received(p, q)
       /\ phone' = [phone EXCEPT ![p] = Ringing(IF Busy(p) THEN Cleaned(r) ELSE r, q, c)]
       /\ live' = IF Busy(p) THEN live \ {r.mic} ELSE live
       /\ yielded' = IF Busy(p) THEN yielded \cup {r.id} ELSE yielded
       /\ had' = had \cup {<<p, c>>}
       /\ UNCHANGED <<from, to, stage, applying, losses, kills, lines, overtaken>>

OfferBusy(p, q) ==
    LET c == Id(p, q) IN
    /\ Arrives(p, q, {"offer"}) /\ c \notin phone[p].seen
    /\ Busy(p) /\ phone[p].peer # q
    /\ net' = Posted(Received(p, q), p, q, "busy", c)
    /\ phone' = [phone EXCEPT ![p].seen = @ \cup {c}]
    /\ UNCHANGED <<from, to, stage, applying, live, losses, kills, history>>

\* An answer to another call than the one that is dialled is dropped.
Awaits(p, q) == phone[p].state = "outgoing" /\ phone[p].peer = q /\ phone[p].id = Id(p, q)

AnswerTaken(p, q) ==
    /\ Arrives(p, q, {"answer"})
    /\ applying' = IF Awaits(p, q) /\ phone[p].pc # None
                     THEN applying \cup {Id(p, q)} ELSE applying
    /\ net' = Received(p, q)
    /\ UNCHANGED <<phone, from, to, stage, live, losses, kills, history>>

\* The end of the call, said by the other phone.  To a call that has ended here
\* nothing is left to do.
Ends(p, q) ==
    IF Arrives(p, q, {"hangup"}) THEN InCallWith(p, q) /\ phone[p].id = Id(p, q)
                                 ELSE Awaits(p, q)

EndTaken(p, q) ==
    /\ Arrives(p, q, {"declined", "busy", "hangup"})
    /\ IF Ends(p, q) THEN HangUp(p) ELSE UNCHANGED <<phone, live, lines>>
    /\ net' = Received(p, q)
    /\ UNCHANGED <<from, to, stage, applying, losses, kills, had, yielded, overtaken>>

Deliver(p, q) ==
    OfferDropped(p, q) \/ OfferRings(p, q) \/ OfferBusy(p, q) \/ AnswerTaken(p, q) \/ EndTaken(p, q)

\* The description of the other end is set: is it still that call?
Applied(c) ==
    LET p == Caller(c) IN
    /\ c \in applying
    /\ applying' = applying \ {c}
    /\ phone' = IF Has(p, "outgoing", c) THEN [phone EXCEPT ![p].state = "connected"] ELSE phone
    /\ UNCHANGED <<from, to, stage, net, live, losses, kills, history>>

\* A description that is not accepted is only logged.
ApplyFails(c) ==
    /\ c \in applying
    /\ applying' = applying \ {c}
    /\ UNCHANGED <<phone, from, to, stage, net, live, losses, kills, history>>

-----------------------------------------------------------------------------
(* Buttons, timers, the network.                                           *)

HangUpPressed(p) ==
    /\ Busy(p)
    /\ HangUp(p) /\ Tell(p)
    /\ UNCHANGED <<from, to, stage, applying, losses, kills, had, yielded, overtaken>>

OutTimeout(p) ==
    /\ phone[p].out
    /\ IF phone[p].state = "outgoing"
         THEN HangUp(p) /\ Tell(p)
         ELSE phone' = [phone EXCEPT ![p].out = FALSE] /\ UNCHANGED <<net, live, lines>>
    /\ UNCHANGED <<from, to, stage, applying, losses, kills, had, yielded, overtaken>>

InTimeout(p) ==
    /\ phone[p].in
    /\ IF phone[p].state = "incoming"
         THEN HangUp(p) /\ Tell(p)
         ELSE phone' = [phone EXCEPT ![p].in = FALSE] /\ UNCHANGED <<net, live, lines>>
    /\ UNCHANGED <<from, to, stage, applying, losses, kills, had, yielded, overtaken>>

ResetTimeout(p) ==
    /\ phone[p].reset
    /\ phone' = [phone EXCEPT ![p] = [@ EXCEPT !.state = "idle", !.peer = 0, !.reset = FALSE]]
    /\ UNCHANGED <<from, to, stage, applying, net, live, losses, kills, history>>

\* A copy of the offer while the other phone is away; one copy is on its way at a time.
Resend(p) ==
    LET r == phone[p]
        offer == [kind |-> "offer", id |-> r.offered]
        going == r.state = "outgoing" /\ r.offered # 0
    IN /\ r.retry
       /\ IF going
            THEN /\ \A i \in DOMAIN net[<<p, r.peer>>] : net[<<p, r.peer>>][i] # offer
                 /\ net' = Posted(net, p, r.peer, "offer", r.offered)
                 /\ UNCHANGED phone
            ELSE /\ phone' = [phone EXCEPT ![p] = [@ EXCEPT !.retry = FALSE, !.offered = 0]]
                 /\ UNCHANGED net
       /\ UNCHANGED <<from, to, stage, applying, live, losses, kills, history>>

\* The server does not reach the phone, and may say so.
Lost(p, q) ==
    /\ net[<<p, q>>] # <<>> /\ losses + kills < MaxFaults
    /\ losses' = losses + 1
    /\ net' = Received(q, p)
    /\ \/ UNCHANGED phone
       \/ /\ Crossed(p, q) /\ phone[p].offered # 0
          /\ phone' = [phone EXCEPT ![p].retry = TRUE]
    /\ UNCHANGED <<from, to, stage, applying, live, kills, history>>

\* The connection has both descriptions.
Connects(p) ==
    /\ phone[p].pc # None
    /\ phone[p].state \in {"incoming", "connected"} \/ phone[p].id \in applying

\* The other end is not there any more.
Alone(p) ==
    LET q == phone[p].peer IN q # 0 /\ (phone[q].pc = None \/ phone[q].id # phone[p].id)

\* The watchdog of the connection: "failed", or "disconnected" for ten seconds.
IceFails(p) ==
    /\ Connects(p)
    /\ HangUp(p) /\ Tell(p)
    /\ UNCHANGED <<from, to, stage, applying, losses, kills, had, yielded, overtaken>>

EndOf(p, e) == IF e[2] = 0 THEN from[e[1]] = p ELSE to[e[1]] = p

\* The process dies: what it kept is gone.
Kill(p) ==
    /\ losses + kills < MaxFaults /\ kills' = kills + 1
    /\ phone' = [phone EXCEPT ![p] = Idle]
    /\ stage' = [e \in End |-> IF EndOf(p, e) /\ stage[e] # "unused" THEN "over" ELSE stage[e]]
    /\ applying' = {c \in applying : from[c] # p}
    /\ live' = {e \in live : ~EndOf(p, e)}
    /\ had' = {pc \in had : pc[1] # p}
    /\ lines' = [pc \in Phone \X Call |-> IF pc[1] = p THEN 0 ELSE lines[pc]]
    /\ UNCHANGED <<from, to, net, losses, yielded, overtaken>>

-----------------------------------------------------------------------------
Dialling(c) ==
    DialReady(c) \/ DialRefused(c) \/ DialMedia(c) \/ DialOffers(c) \/ DialFails(c)

Accepting(c, k) ==
    \/ AcceptRefused(c, k) \/ AcceptMedia(c, k) \/ AcceptWired(c, k)
    \/ AcceptAnswers(c, k) \/ AcceptFails(c, k)

Timers(p) == OutTimeout(p) \/ InTimeout(p) \/ ResetTimeout(p) \/ Resend(p)

Next ==
    \/ \E p, q \in Phone : \E c \in Call : Dial(p, q, c)
    \/ \E c \in Call : Dialling(c) \/ Applied(c) \/ ApplyFails(c)
    \/ \E p \in Phone, k \in Try : Accept(p, k)
    \/ \E c \in Call, k \in Try : Accepting(c, k)
    \/ \E p, q \in Phone : Deliver(p, q) \/ Lost(p, q)
    \/ \E p \in Phone : HangUpPressed(p) \/ Timers(p) \/ IceFails(p) \/ Kill(p)

Spec == Init /\ [][Next]_vars

\* What is awaited comes or fails, messages arrive, timers fire, and a connection whose
\* other end has gone is given up.  Nobody has to press a button.
SetsUp ==
    \/ \E c \in Call : Dialling(c) \/ Applied(c) \/ ApplyFails(c)
    \/ \E c \in Call, k \in Try : Accepting(c, k)

TimesOut == \E p \in Phone : OutTimeout(p) \/ InTimeout(p) \/ ResetTimeout(p)
Watchdog == \E p \in Phone : Alone(p) /\ IceFails(p)

FairSpec ==
    /\ Spec
    /\ WF_vars(SetsUp) /\ WF_vars(TimesOut) /\ WF_vars(Watchdog)
    /\ \A d \in Phone \X Phone : d[1] # d[2] => WF_vars(Deliver(d[1], d[2]))

-----------------------------------------------------------------------------
\* A phone logs each call it has had once: it is still in progress, or it was written
\* down, or it was given up for the call that crossed it and that is logged instead.  A
\* call that rings while another is being dialled does not vanish (callService.ts,
\* initiateCall, v4.32.740), and two ends of one call are not two lines.
RecordedOnce ==
    \A pc \in had :
        lines[pc] = IF \/ Busy(pc[1]) /\ phone[pc[1]].id = pc[2]
                       \/ pc[2] \in yielded /\ from[pc[2]] = pc[1]
                    THEN 0 ELSE 1

\* A microphone that is on is the one the phone holds, so that the end of the call turns
\* it off, and it is held for a call in progress (callService.ts, v4.32.177).
MicHeld ==
    \A e \in live :
        \E p \in Phone : EndOf(p, e) /\ phone[p].mic = e /\ Busy(p) /\ phone[p].id = e[1]

\* So it is until an accept gets its stream while another stream is held: see README.
MicOff == overtaken \/ MicHeld

\* When nothing is lost and nobody dies, a phone does not ring for a call that its caller
\* has left: the caller is still in it, or its farewell is on its way (callTeardown.ts,
\* v4.32.549).  A call that was given up for a crossing one has no farewell.
StopsRinging ==
    losses = 0 /\ kills = 0 =>
        \A q \in Phone : phone[q].state = "incoming" =>
            LET c == phone[q].id
                p == Caller(c)
            IN \/ c \in yielded
               \/ Busy(p) /\ phone[p].id = c
               \/ \E i \in DOMAIN net[<<p, q>>] : net[<<p, q>>][i] = [kind |-> "hangup", id |-> c]

\* Both phones of a call are connected in it.
Together(c) ==
    /\ from[c] # 0
    /\ Has(Caller(c), "connected", c) /\ Has(Callee(c), "connected", c)

\* No call hangs: once nobody dials any more, whatever was lost, refused, killed or crossed,
\* a phone comes to have no call, or to talk to the other phone of its call.
CallsEnd == <>[](\A p \in Phone : Busy(p) => Together(phone[p].id))

=============================================================================
