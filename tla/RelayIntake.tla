---------------------------- MODULE RelayIntake ----------------------------
(***************************************************************************)
(* How far a device has read its backlog at the relay:                     *)
(* transport/internet/internetCoordinator.ts over internetTransport.ts and *)
(* relayBacklog.ts.                                                        *)
(*                                                                         *)
(* The relay keeps frames in the order of their times.  A connection asks  *)
(* for all since the watermark, less an overlap, and hands every frame over*)
(* at once: frames are handled concurrently.  The watermark moves when a   *)
(* frame has been handled, never past one that is held or in flight.       *)
(*                                                                         *)
(* A session is one start of the transport, with the closure of its own    *)
(* that the handling of its frames goes on to use after a stop.            *)
(***************************************************************************)
EXTENDS Integers, Sequences, FiniteSets

CONSTANTS
    TimeOf,         \* the times the relay gave the frames, in their order
    Overlap,        \* BACKLOG_OVERLAP_MS
    FailedCap,      \* frames that failedOnce remembers before it is cleared
    MaxConnections, \* bound: connections
    MaxRestarts     \* bound: restarts of the transport

Frame == DOMAIN TimeOf
Connection == 1..MaxConnections
Session == 1..MaxRestarts + 1

ASSUME RelayAssumption ==
    /\ TimeOf \in Seq(Nat \ {0})
    /\ \A f, g \in Frame : f < g => TimeOf[f] <= TimeOf[g]
    /\ Overlap \in Nat /\ FailedCap \in Nat
    /\ MaxConnections \in Nat /\ MaxRestarts \in Nat

VARIABLES
    disk,           \* the watermark that is saved, 0 if there is none
    started,        \* the coordinator's flag
    session,        \* the newest session
    connection,     \* the newest connection
    sessionOf,      \* the session a connection is of
    next,           \* the frame the open connection hands over next, or 0
    closure,        \* watermark, doneUpTo, failedOnce, held, inFlight of a session
    pending         \* pendingWatermark, 0 if there is none

relayVars == <<disk, started, session, connection, sessionOf, next, closure, pending>>

Time == {TimeOf[f] : f \in Frame}
NoClosure(mark) ==
    [mark |-> mark, done |-> 0, failed |-> {}, held |-> {}, inFlight |-> [t \in Time |-> 0]]

RelayTypeOK ==
    /\ next \in 0..Len(TimeOf) + 1
    /\ disk \in Nat /\ pending \in Nat
    /\ started \in BOOLEAN
    /\ session \in Session /\ connection \in 0..MaxConnections
    /\ sessionOf \in [Connection -> Session]
    /\ closure \in [Session -> [mark : Nat, done : {0} \cup Time, failed : SUBSET Time,
                                held : SUBSET Time, inFlight : [Time -> Nat]]]

RelayInit ==
    /\ disk = 0 /\ started = TRUE
    /\ session = 1 /\ connection = 0 /\ next = 0 /\ pending = 0
    /\ sessionOf = [c \in Connection |-> 1]
    /\ closure = [s \in Session |-> NoClosure(0)]

\* sinceParam: what a connection asks for.
Since(mark) == IF mark > Overlap THEN mark - Overlap ELSE 0

-----------------------------------------------------------------------------
(* What a closure does when a frame is handed over and when it is handled. *)

Hold(s, t) == [closure[s] EXCEPT !.inFlight[t] = @ + 1]
Release(k, t) == [k EXCEPT !.inFlight[t] = IF @ > 0 THEN @ - 1 ELSE 0]

\* Broken on purpose: frames in flight do not hold the watermark.
BlockedByHeld(k) == k.held

\* Where advance() puts the watermark: below all that is held or in flight.
Blocked(k) == k.held \cup {t \in Time : k.inFlight[t] > 0}
Target(k, t) ==
    LET below == {b - 1 : b \in {b \in Blocked(k) : b <= t}}
    IN CHOOSE x \in below \cup {t} : \A y \in below \cup {t} : x <= y

\* Broken on purpose: what was done past a blocked frame is forgotten.
MarkDoneForgets(k, t) ==
    LET target == Target(k, t)
    IN [k EXCEPT !.done = IF t > @ THEN t ELSE @,
                 !.mark = IF target > @ THEN target ELSE @]

\* markDone, all but the writing of the watermark.
MarkDone(k, t) ==
    LET done == IF t > k.done THEN t ELSE k.done
        target == Target(k, done)
    IN [k EXCEPT !.done = done, !.mark = IF target > @ THEN target ELSE @]

Consumed(k, t) ==
    MarkDone([k EXCEPT !.held = @ \ {t}, !.failed = @ \ {t}], t)

\* A refusal: the first one holds the frame, the second lets it go.
Refused(k, t) ==
    IF t \in k.failed
      THEN MarkDone([k EXCEPT !.held = @ \ {t}], t)
      ELSE [k EXCEPT !.held = @ \cup {t},
                     !.failed = (IF Cardinality(@) > FailedCap THEN {} ELSE @) \cup {t}]

\* A moved watermark is saved, or waits for the next one ten seconds later.
Save(old, new) ==
    IF new.mark = old.mark
      THEN UNCHANGED <<disk, pending>>
      ELSE \/ disk' = new.mark /\ pending' = 0
           \/ pending' = new.mark /\ UNCHANGED disk

-----------------------------------------------------------------------------
(* Steps of the relay, the transport and the coordinator.                  *)

\* openWs, at the start and at each reconnection.
Connect ==
    /\ started /\ next = 0 /\ connection < MaxConnections
    /\ connection' = connection + 1
    /\ sessionOf' = [sessionOf EXCEPT ![connection + 1] = session]
    /\ next' = CHOOSE f \in 1..Len(TimeOf) + 1 :
                 \A g \in Frame : (g >= f) <=> TimeOf[g] >= Since(closure[session].mark)
    /\ UNCHANGED <<disk, started, session, closure, pending>>

\* The connection is lost; the transport opens another one.
Disconnect ==
    /\ next # 0
    /\ next' = 0
    /\ UNCHANGED <<disk, started, session, connection, sessionOf, closure, pending>>

\* onFrame: frame f, kept by the relay or just sent, is handed over, and in
\* flight from the first line on.
HandOver(f) ==
    /\ next = f
    /\ next' = f + 1
    /\ closure' = [closure EXCEPT ![session] = Hold(session, TimeOf[f])]
    /\ UNCHANGED <<disk, started, session, connection, sessionOf, pending>>

\* Frame f, handed over by connection c, is handled with this outcome.
Handled(f, c, consumed) ==
    LET s == sessionOf[c]
        free == Release(closure[s], TimeOf[f])
        after == IF consumed THEN Consumed(free, TimeOf[f]) ELSE Refused(free, TimeOf[f])
    IN /\ closure' = [closure EXCEPT ![s] = after]
       /\ Save(closure[s], after)
       /\ UNCHANGED <<started, session, connection, sessionOf, next>>

\* stopInternetTransportStack
Stop ==
    /\ started
    /\ started' = FALSE /\ next' = 0
    /\ disk' = IF pending = 0 THEN disk ELSE pending
    /\ pending' = 0
    /\ UNCHANGED <<session, connection, sessionOf, closure>>

\* startInternetTransportIfEnabled, of the same account.
Start ==
    /\ ~started /\ session < MaxRestarts + 1
    /\ started' = TRUE
    /\ session' = session + 1
    /\ closure' = [closure EXCEPT ![session + 1] = NoClosure(disk)]
    /\ UNCHANGED <<disk, connection, sessionOf, next, pending>>

\* The process is killed, and started again.
RelayReborn ==
    /\ started' = TRUE /\ next' = 0 /\ pending' = 0
    /\ closure' = [s \in Session |-> NoClosure(IF s = session THEN disk ELSE 0)]
    /\ UNCHANGED <<disk, session, connection, sessionOf>>

-----------------------------------------------------------------------------
\* The watermark is never left behind what is done: when nothing is held or in
\* flight it has caught up with the latest frame that was handled, whatever order
\* the frames of a burst were finished in.
NoStall ==
    \A s \in Session : Blocked(closure[s]) = {} => closure[s].mark >= closure[s].done
=============================================================================
