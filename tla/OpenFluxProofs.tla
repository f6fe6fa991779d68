--------------------------- MODULE OpenFluxProofs ---------------------------
(***************************************************************************)
(* Theorems about OpenFlux, for any set of callers and any bounds: the     *)
(* types; that the controller implements OpenFluxIntent; and, once         *)
(* everybody is done, that the tunnel that runs is the newest request's,   *)
(* that with AutoStart a tunnel a person switched off is down, and that    *)
(* one that runs is on the network the device is on.                       *)
(***************************************************************************)
EXTENDS OpenFlux, TLAPS

PcOf(kind) ==
    CASE kind = "stop" -> "stopping" [] kind = "lower" -> "lowering"
      [] OTHER -> "raising"

Numbered == {"lowering", "login", "raising", "pause"}

\* An operation, waiting or running, is the one its caller waits for.
Awaited(e) ==
    /\ e.gen \in 1..gen
    /\ task[e.by].pc = PcOf(e.kind)
    /\ e.kind # "stop" => task[e.by].gen = e.gen

\* Requests that have a number have one each, and the core knows no other numbers.
Numbers ==
    /\ kernel.by <= gen
    /\ \A c \in Caller : task[c].pc \in Numbered => task[c].gen \in 1..gen
    /\ \A c, d \in Caller :
          c # d /\ task[c].pc \in Numbered /\ task[d].pc \in Numbered
              => task[c].gen # task[d].gen

\* A caller that may try again has a try left.
TriesLeft ==
    \A c \in Caller : task[c].pc \in {"lowering", "login", "pause"} => task[c].tries > 0

\* A caller waits for one operation.
Queued ==
    /\ \A i \in 1..Len(queue) : Awaited(queue[i])
    /\ \A i, j \in 1..Len(queue) : i # j => queue[i].by # queue[j].by

Running ==
    op = NoOp \/
        /\ op.kind # "none" /\ op.at # "free" /\ op.by \in Caller
        /\ Awaited(op)
        /\ \A i \in 1..Len(queue) : queue[i].by # op.by
        /\ op.at \in {"clean", "support", "starting", "noting", "undo"} => op.kind = "start"
        /\ op.at = "stop" => op.kind # "start"
        /\ op.at \in {"support", "starting", "noting"} => ~cleanup
        /\ op.at = "undo" => op.gen # gen

\* The core was raised for no request whose start is still to come; the start that
\* has just raised it is the exception.
Raised(c) == op # NoOp /\ op.by = c /\ op.at \in {"noting", "undo"}
Fresh ==
    \A c \in Caller :
        /\ task[c].pc \in {"lowering", "raising"} => task[c].gen # kernel.by \/ Raised(c)
        /\ task[c].pc \in {"login", "pause"} /\ task[c].gen = gen => task[c].gen # kernel.by

IInv == TypeOK /\ Numbers /\ TriesLeft /\ Queued /\ Running /\ Fresh

Task == [pc : Pc, on : BOOLEAN, gen : Nat, tries : Nat]
Request == [kind : {"stop", "lower", "start"}, by : Caller, gen : Nat]

\* The types of what the steps of callers leave alone.
SurroundingsOK ==
    /\ saved \in BOOLEAN /\ cleanup \in BOOLEAN
    /\ savedBy \in Caller \cup {"boot"}
    /\ path \in Nat /\ timer \in BOOLEAN /\ watching \in BOOLEAN
    /\ presses \in Nat /\ switches \in Nat

\* All a caller ever does, between two awaits, with t its place afterwards: it rests,
\* waits for something outside the queue, makes a new request, or tries again for the
\* request it has.
Rests(t) ==
    /\ t.pc \in {"idle", "saving", "asking", "reopening"}
    /\ UNCHANGED <<gen, queue>>

Waits(c, t) ==
    /\ t.pc \in {"login", "pause"} /\ t.tries > 0
    /\ task[c].pc \in Numbered /\ t.gen = task[c].gen
    /\ t.gen = gen => gen # kernel'.by
    /\ UNCHANGED <<gen, queue>>

Asks(c, t) ==
    /\ gen' = gen + 1
    /\ \E e \in Request :
          /\ e.by = c /\ e.gen = gen + 1
          /\ queue' = Append(queue, e)
          /\ t.pc = PcOf(e.kind)
          /\ e.kind # "stop" => t.gen = gen + 1
          /\ e.kind = "lower" => t.tries > 0

TriesAgain(c, t) ==
    /\ task[c].pc \in Numbered /\ task[c].gen = gen /\ gen # kernel'.by
    /\ gen' = gen
    /\ queue' = Append(queue, [kind |-> "start", by |-> c, gen |-> gen])
    /\ t.pc = "raising" /\ t.gen = gen

Moves(c) ==
    /\ again' \in BOOLEAN
    /\ \E t \in Task :
          /\ task' = [task EXCEPT ![c] = t]
          /\ Rests(t) \/ Waits(c, t) \/ Asks(c, t) \/ TriesAgain(c, t)

\* A step in which c moves, having no operation in the queue; the one that runs ends
\* with this step, or is not its own.
CallerStep(c) ==
    /\ Moves(c)
    /\ \A i \in 1..Len(queue) : queue[i].by # c
    /\ \/ op' = NoOp /\ op.by = c
       \/ op' = op /\ (op = NoOp \/ op.by # c) /\ cleanup' = cleanup
    /\ kernel' = kernel \/ kernel' = Down

-----------------------------------------------------------------------------
\* A caller that is not waiting for an operation has none.
LEMMA NoOperation ==
    ASSUME Queued, Running, NEW c \in Caller,
           task[c].pc \notin {"stopping", "lowering", "raising"}
    PROVE  /\ \A i \in 1..Len(queue) : queue[i].by # c
           /\ op = NoOp \/ op.by # c
BY DEF Queued, Running, Awaited, PcOf

LEMMA DoneMoves ==
    ASSUME TypeOK, NEW c \in Caller, Done(c), again' \in BOOLEAN
    PROVE  Moves(c)
<1>1. Idle \in Task
  BY DEF Idle, Task, Pc
<1>2. Rests(Idle)
  BY DEF Done, Rests, Idle
<1> QED
  BY <1>1, <1>2 DEF Done, Moves

LEMMA RetryMoves ==
    ASSUME TypeOK, NEW c \in Caller, NEW on \in BOOLEAN, Retry(c, on), again' \in BOOLEAN
    PROVE  Moves(c)
<1>1. CASE ~on
  BY <1>1, DoneMoves DEF Retry
<1>2. CASE on
  <2> DEFINE t == [pc |-> "lowering", on |-> on, gen |-> gen + 1, tries |-> MaxTries]
             e == [kind |-> "lower", by |-> c, gen |-> gen + 1]
  <2>1. t \in Task /\ e \in Request
    BY OpenFluxAssumption DEF TypeOK, Task, Request, Pc
  <2>2. Asks(c, t)
    <3>1. gen' = gen + 1 /\ queue' = Append(queue, e)
      BY <1>2 DEF Retry, Ask
    <3>2. t.pc = PcOf(e.kind) /\ t.gen = gen + 1 /\ t.tries > 0
      BY OpenFluxAssumption DEF PcOf
    <3> QED
      BY <2>1, <3>1, <3>2 DEF Asks
  <2> QED
    BY <1>2, <2>1, <2>2 DEF Retry, Moves
<1> QED
  BY <1>1, <1>2

LEMMA StopMoves ==
    ASSUME TypeOK, NEW c \in Caller, Stop(c), again' \in BOOLEAN
    PROVE  Moves(c)
<1> DEFINE t == [task[c] EXCEPT !.pc = "stopping"]
           e == [kind |-> "stop", by |-> c, gen |-> gen + 1]
<1>1. t \in Task
  BY DEF TypeOK, Task, Pc
<1>2. e \in Request
  BY DEF TypeOK, Request
<1>3. Asks(c, t)
  <2>1. gen' = gen + 1 /\ queue' = Append(queue, e)
    BY DEF Stop, Ask
  <2>2. t.pc = PcOf(e.kind)
    BY DEF PcOf, TypeOK
  <2> QED
    BY <1>2, <2>1, <2>2 DEF Asks
<1>4. task' = [task EXCEPT ![c] = t]
  BY DEF Stop, TypeOK
<1> QED
  BY <1>1, <1>3, <1>4 DEF Moves

LEMMA AttemptMoves ==
    ASSUME TypeOK, NEW c \in Caller, Attempt(c), again' \in BOOLEAN,
           task[c].pc \in Numbered, task[c].tries > 0,
           task[c].gen = gen => gen # kernel'.by
    PROVE  Moves(c)
<1>1. CASE task[c].gen # gen
  BY <1>1, DoneMoves DEF Attempt
<1>2. CASE task[c].gen = gen
  <2> DEFINE t == [[task[c] EXCEPT !.pc = "raising"] EXCEPT !.tries = @ - 1]
  <2>1. t \in Task
    <3>1. task[c] \in Task /\ task[c].tries - 1 \in Nat
      BY DEF TypeOK, Task
    <3>2. t = [task[c] EXCEPT !.pc = "raising", !.tries = task[c].tries - 1]
      BY <3>1 DEF Task
    <3> QED
      BY <3>1, <3>2 DEF Task, Pc
  <2>2. TriesAgain(c, t)
    BY <1>2 DEF Attempt, Ask, TriesAgain, TypeOK
  <2>3. task' = [task EXCEPT ![c] = t]
    BY <1>2 DEF Attempt, TypeOK
  <2> QED
    BY <2>1, <2>2, <2>3 DEF Moves
<1> QED
  BY <1>1, <1>2

LEMMA RestMoves ==
    ASSUME TypeOK, NEW c \in Caller, NEW pc \in {"saving", "asking", "reopening"},
           Wait(c, pc), again' \in BOOLEAN
    PROVE  Moves(c)
<1> DEFINE t == [task[c] EXCEPT !.pc = pc]
<1>1. t \in Task /\ Rests(t)
  BY DEF TypeOK, Task, Pc, Wait, Rests
<1>2. task' = [task EXCEPT ![c] = t]
  BY DEF Wait, TypeOK
<1> QED
  BY <1>1, <1>2 DEF Moves

LEMMA WaitMoves ==
    ASSUME TypeOK, NEW c \in Caller, NEW pc \in {"login", "pause"},
           Wait(c, pc), again' \in BOOLEAN,
           task[c].pc \in Numbered, task[c].tries > 0,
           task[c].gen = gen => gen # kernel'.by
    PROVE  Moves(c)
<1> DEFINE t == [task[c] EXCEPT !.pc = pc]
<1>1. t \in Task /\ Waits(c, t)
  BY DEF TypeOK, Task, Pc, Wait, Waits
<1>2. task' = [task EXCEPT ![c] = t]
  BY DEF Wait, TypeOK
<1> QED
  BY <1>1, <1>2 DEF Moves

LEMMA ReviveMoves ==
    ASSUME TypeOK, "guard" \in Caller, Revive
    PROVE  Moves("guard")
<1>1. CASE saved /\ ~AutoStart
  <2> DEFINE t == [Idle EXCEPT !.pc = "asking", !.on = TRUE]
  <2>1. t \in Task
    BY DEF Task, Idle, Pc
  <2>2. Rests(t)
    BY <1>1 DEF Revive, Rests, Idle
  <2> QED
    BY <1>1, <2>1, <2>2 DEF Revive, Moves
<1>2. CASE ~(saved /\ ~AutoStart)
  BY <1>2, RetryMoves DEF Revive, TypeOK
<1> QED
  BY <1>1, <1>2

LEMMA LeaveMoves ==
    ASSUME TypeOK, NEW c \in Caller, Leave(c)
    PROVE  Moves(c)
<1>1. CASE c = "guard" /\ again
  BY <1>1, ReviveMoves DEF Leave, GuardPassEnds
<1>2. CASE ~(c = "guard" /\ again)
  BY <1>2, DoneMoves DEF Leave, GuardPassEnds, TypeOK
<1> QED
  BY <1>1, <1>2

LEMMA SettleMoves ==
    ASSUME TypeOK, NEW c \in Caller, Settle(c)
    PROVE  Moves(c)
<1>1. CASE c = "guard"
  BY <1>1, RestMoves DEF Settle, TypeOK
<1>2. CASE c # "guard"
  BY <1>2, LeaveMoves DEF Settle
<1> QED
  BY <1>1, <1>2

LEMMA ContinueMoves ==
    ASSUME TypeOK, TriesLeft, NEW c \in Caller, NEW result, Continue(c, result),
           task[c].pc = "lowering" => result # "on",
           result # "on" /\ task[c].pc \in Numbered /\ task[c].gen = gen
               => gen # kernel'.by
    PROVE  Moves(c)
<1> DEFINE t == task[c]
<1>1. CASE t.pc = "stopping"
  <2>1. CASE c = "agent"
    BY <1>1, <2>1, RestMoves DEF Continue, TypeOK
  <2>2. CASE c # "agent"
    BY <1>1, <2>2, LeaveMoves DEF Continue
  <2> QED
    BY <2>1, <2>2
<1>2. CASE t.pc = "lowering"
  <2>1. CASE t.gen # gen
    BY <1>2, <2>1, LeaveMoves DEF Continue
  <2>2. CASE t.gen = gen /\ result = "failed"
    BY <1>2, <2>2, SettleMoves DEF Continue
  <2>3. CASE t.gen = gen /\ result # "failed"
    <3>1. t.tries > 0 /\ t.pc \in Numbered
      BY <1>2 DEF TriesLeft, Numbered
    <3>2. CASE c \in {"toggle", "retry"}
      BY <1>2, <2>3, <3>1, <3>2, WaitMoves DEF Continue, TypeOK
    <3>3. CASE c \notin {"toggle", "retry"}
      BY <1>2, <2>3, <3>1, <3>3, AttemptMoves DEF Continue, TypeOK
    <3> QED
      BY <3>2, <3>3
  <2> QED
    BY <2>1, <2>2, <2>3
<1>3. CASE t.pc = "raising" /\ result = "failed"
  <2>1. CASE t.tries > 0
    BY <1>3, <2>1, WaitMoves DEF Continue, TypeOK, Numbered
  <2>2. CASE t.tries = 0
    BY <1>3, <2>2, SettleMoves DEF Continue
  <2> QED
    BY <1>3, <2>1, <2>2 DEF TypeOK
<1>4. CASE t.pc = "raising" /\ result # "failed"
  <2>1. CASE result = "on"
    BY <1>4, <2>1, SettleMoves DEF Continue
  <2>2. CASE result # "on"
    BY <1>4, <2>2, LeaveMoves DEF Continue
  <2> QED
    BY <2>1, <2>2
<1>5. CASE t.pc \notin {"stopping", "lowering", "raising"}
  BY <1>5, LeaveMoves DEF Continue
<1> QED
  BY <1>1, <1>2, <1>3, <1>4, <1>5

-----------------------------------------------------------------------------
(* A step of a caller keeps the invariant.                                 *)

LEMMA StepFacts ==
    ASSUME TypeOK, NEW c \in Caller, CallerStep(c)
    PROVE  \E t \in Task :
              /\ task' = [task EXCEPT ![c] = t]
              /\ Rests(t) \/ Waits(c, t) \/ Asks(c, t) \/ TriesAgain(c, t)
              /\ task'[c] = t /\ \A d \in Caller \ {c} : task'[d] = task[d]
              /\ gen' \in {gen, gen + 1} /\ gen' \in Nat
              /\ kernel'.by \in {kernel.by, 0} /\ kernel'.by \in Nat
              /\ kernel' \in [by : Nat, path : Int]
<1>1. PICK t \in Task :
        /\ task' = [task EXCEPT ![c] = t]
        /\ Rests(t) \/ Waits(c, t) \/ Asks(c, t) \/ TriesAgain(c, t)
  BY DEF CallerStep, Moves
<1>2. task'[c] = t /\ \A d \in Caller \ {c} : task'[d] = task[d]
  <2>1. task \in [Caller -> Task]
    BY DEF TypeOK, Task
  <2>2. task' = [task EXCEPT ![c] = t]
    BY <1>1
  <2> QED
    BY <2>1, <2>2
<1>3. gen' \in {gen, gen + 1} /\ gen' \in Nat
  BY <1>1 DEF TypeOK, Rests, Waits, Asks, TriesAgain
<1>4. /\ kernel'.by \in {kernel.by, 0} /\ kernel'.by \in Nat
      /\ kernel' \in [by : Nat, path : Int]
  BY DEF CallerStep, TypeOK, Down, Unknown
<1> QED
  BY <1>1, <1>2, <1>3, <1>4

LEMMA StepTypes ==
    ASSUME TypeOK, NEW c \in Caller, CallerStep(c), SurroundingsOK'
    PROVE  TypeOK'
<1>1. PICK t \in Task :
        /\ task' = [task EXCEPT ![c] = t]
        /\ Rests(t) \/ Waits(c, t) \/ Asks(c, t) \/ TriesAgain(c, t)
        /\ gen' \in Nat
        /\ kernel' \in [by : Nat, path : Int]
  BY StepFacts
<1>2. task' \in [Caller -> Task]
  BY <1>1 DEF TypeOK, Task
<1>3. queue' \in Seq(Request)
  <2>1. queue \in Seq(Request)
    BY DEF TypeOK, Request
  <2>2. ASSUME NEW e \in Request PROVE Append(queue, e) \in Seq(Request)
    BY <2>1
  <2>3. CASE Rests(t) \/ Waits(c, t)
    BY <2>1, <2>3 DEF Rests, Waits
  <2>4. CASE Asks(c, t)
    BY <2>2, <2>4 DEF Asks
  <2>5. CASE TriesAgain(c, t)
    <3>1. [kind |-> "start", by |-> c, gen |-> gen] \in Request
      BY DEF TypeOK, Request
    <3> QED
      BY <2>2, <2>5, <3>1 DEF TriesAgain
  <2> QED
    BY <1>1, <2>3, <2>4, <2>5
<1>4. op' \in [kind : {"none", "stop", "lower", "start"}, by : Caller \cup {"boot"},
               gen : Nat, at : At, path : Int, asked : BOOLEAN]
  <2> DEFINE Op == [kind : {"none", "stop", "lower", "start"}, by : Caller \cup {"boot"},
                    gen : Nat, at : At, path : Int, asked : BOOLEAN]
  <2>1. NoOp \in Op
    BY DEF NoOp, At, Unknown
  <2>2. op \in Op
    BY DEF TypeOK
  <2> QED
    BY <2>1, <2>2 DEF CallerStep
<1>5. again' \in BOOLEAN
  BY DEF CallerStep, Moves
<1> QED
  BY <1>1, <1>2, <1>3, <1>4, <1>5 DEF TypeOK, SurroundingsOK, Task, Request

LEMMA StepNumbers ==
    ASSUME IInv, NEW c \in Caller, CallerStep(c)
    PROVE  Numbers' /\ TriesLeft'
<1>1. PICK t \in Task :
        /\ Rests(t) \/ Waits(c, t) \/ Asks(c, t) \/ TriesAgain(c, t)
        /\ task'[c] = t /\ \A d \in Caller \ {c} : task'[d] = task[d]
        /\ gen' \in {gen, gen + 1} /\ gen' \in Nat
        /\ kernel'.by \in {kernel.by, 0}
  BY StepFacts DEF IInv
<1>2. /\ gen \in Nat /\ kernel.by \in Nat /\ \A d \in Caller : task[d].gen \in Nat
      /\ t.gen \in Nat /\ t.tries \in Nat
  BY DEF IInv, TypeOK, Task
<1>3. t.pc \in Numbered =>
        \/ t.gen = gen + 1 /\ gen' = gen + 1
        \/ task[c].pc \in Numbered /\ t.gen = task[c].gen /\ gen' = gen
  <2>1. CASE Rests(t)
    BY <2>1 DEF Rests, Numbered
  <2>2. CASE Waits(c, t) \/ TriesAgain(c, t)
    BY <2>2 DEF Waits, TriesAgain
  <2>3. CASE Asks(c, t)
    BY <2>3 DEF Asks, PcOf, Numbered, Request
  <2> QED
    BY <1>1, <2>1, <2>2, <2>3
<1>4. t.pc \in {"lowering", "login", "pause"} => t.tries > 0
  BY <1>1 DEF Rests, Waits, Asks, TriesAgain, PcOf, Request
<1>5. Numbers'
  BY <1>1, <1>2, <1>3 DEF IInv, Numbers
<1>6. TriesLeft'
  BY <1>1, <1>4 DEF IInv, TriesLeft
<1> QED
  BY <1>5, <1>6

\* What the queue becomes: itself, or one operation of c longer.
LEMMA StepQueue ==
    ASSUME IInv, NEW c \in Caller, CallerStep(c)
    PROVE  \/ queue' = queue
           \/ \E e \in Request :
                /\ queue' = Append(queue, e)
                /\ e.by = c /\ e.gen = gen' /\ e.gen >= 1
                /\ task'[c].pc = PcOf(e.kind)
                /\ e.kind # "stop" => task'[c].gen = e.gen
<1>1. PICK t \in Task :
        /\ Rests(t) \/ Waits(c, t) \/ Asks(c, t) \/ TriesAgain(c, t)
        /\ task'[c] = t
  BY StepFacts DEF IInv
<1>2. CASE Rests(t) \/ Waits(c, t)
  BY <1>2 DEF Rests, Waits
<1>3. CASE Asks(c, t)
  BY <1>1, <1>3 DEF Asks, IInv, TypeOK
<1>4. CASE TriesAgain(c, t)
  <2> DEFINE e == [kind |-> "start", by |-> c, gen |-> gen]
  <2>1. e \in Request
    BY DEF IInv, TypeOK, Request
  <2>2. gen \in 1..gen
    BY <1>4 DEF TriesAgain, IInv, Numbers
  <2>3. PcOf(e.kind) = "raising"
    BY DEF PcOf
  <2> QED
    BY <1>1, <1>4, <2>1, <2>2, <2>3 DEF TriesAgain
<1> QED
  BY <1>1, <1>2, <1>3, <1>4

LEMMA StepQueued ==
    ASSUME IInv, NEW c \in Caller, CallerStep(c)
    PROVE  Queued'
<1>1. /\ \A d \in Caller \ {c} : task'[d] = task[d]
      /\ gen' \in {gen, gen + 1} /\ gen' \in Nat /\ gen \in Nat
  BY StepFacts DEF IInv, TypeOK
<1>2. queue \in Seq(Request)
  BY DEF IInv, TypeOK, Request
<1>3. ASSUME NEW i \in 1..Len(queue)
      PROVE  queue[i] \in Request /\ queue[i].by \in Caller \ {c}
  <2>1. queue[i] \in Request
    BY <1>2
  <2>2. queue[i].by # c
    BY DEF CallerStep
  <2> QED
    BY <2>1, <2>2 DEF Request
<1>4. CASE queue' = queue
  BY <1>1, <1>3, <1>4 DEF IInv, Queued, Awaited
<1>5. CASE \E e \in Request :
             /\ queue' = Append(queue, e)
             /\ e.by = c /\ e.gen = gen' /\ e.gen >= 1
             /\ task'[c].pc = PcOf(e.kind)
             /\ e.kind # "stop" => task'[c].gen = e.gen
  <2>1. PICK e \in Request :
             /\ queue' = Append(queue, e)
             /\ e.by = c /\ e.gen = gen' /\ e.gen >= 1
             /\ task'[c].pc = PcOf(e.kind)
             /\ e.kind # "stop" => task'[c].gen = e.gen
    BY <1>5
  <2>2. /\ Len(queue') = Len(queue) + 1
        /\ \A i \in 1..Len(queue) : queue'[i] = queue[i]
        /\ queue'[Len(queue) + 1] = e
    BY <1>2, <2>1
  <2>3. ASSUME NEW i \in 1..Len(queue') PROVE Awaited(queue[i])'
    BY <1>1, <1>2, <1>3, <2>1, <2>2 DEF IInv, Queued, Awaited
  <2>4. ASSUME NEW i \in 1..Len(queue'), NEW j \in 1..Len(queue'), i # j
        PROVE  queue'[i].by # queue'[j].by
    <3>1. \A k \in 1..Len(queue') : k \in 1..Len(queue) \/ k = Len(queue) + 1
      BY <1>2, <2>2
    <3>2. CASE i \in 1..Len(queue) /\ j \in 1..Len(queue)
      BY <2>2, <2>4, <3>2 DEF IInv, Queued
    <3>3. CASE i = Len(queue) + 1 /\ j \in 1..Len(queue)
      BY <1>3, <2>1, <2>2, <3>3
    <3>4. CASE j = Len(queue) + 1 /\ i \in 1..Len(queue)
      BY <1>3, <2>1, <2>2, <3>4
    <3> QED
      BY <2>4, <3>1, <3>2, <3>3, <3>4
  <2> QED
    BY <2>3, <2>4 DEF Queued
<1> QED
  BY <1>4, <1>5, StepQueue

LEMMA StepRunning ==
    ASSUME IInv, NEW c \in Caller, CallerStep(c)
    PROVE  Running'
<1>1. CASE op' = NoOp
  BY <1>1 DEF Running
<1>2. CASE op' = op /\ op # NoOp /\ op.by # c /\ cleanup' = cleanup
  <2>1. /\ \A d \in Caller \ {c} : task'[d] = task[d]
        /\ gen' \in {gen, gen + 1} /\ gen \in Nat /\ op.gen \in 1..gen
        /\ queue \in Seq(Request) /\ op.by \in Caller
    BY <1>2, StepFacts DEF IInv, TypeOK, Running, Awaited, Request
  <2>2. Awaited(op)'
    BY <1>2, <2>1 DEF IInv, Running, Awaited
  <2>3. \A i \in 1..Len(queue') : queue'[i].by # op.by
    <3>1. CASE queue' = queue
      BY <1>2, <3>1 DEF IInv, Running
    <3>2. CASE \E e \in Request : queue' = Append(queue, e) /\ e.by = c
      <4>1. PICK e \in Request : queue' = Append(queue, e) /\ e.by = c
        BY <3>2
      <4>2. \A i \in 1..Len(queue') :
                (i \in 1..Len(queue) /\ queue'[i] = queue[i]) \/ queue'[i] = e
        BY <2>1, <4>1
      <4> QED
        BY <1>2, <4>1, <4>2 DEF IInv, Running
    <3> QED
      BY <3>1, <3>2, StepQueue
  <2>4. op.at = "undo" => op.gen # gen'
    BY <1>2, <2>1 DEF IInv, Running
  <2> QED
    BY <1>2, <2>1, <2>2, <2>3, <2>4 DEF IInv, Running
<1> QED
  BY <1>1, <1>2 DEF CallerStep, Running

LEMMA StepFresh ==
    ASSUME IInv, NEW c \in Caller, CallerStep(c)
    PROVE  Fresh'
<1>1. PICK t \in Task :
        /\ Rests(t) \/ Waits(c, t) \/ Asks(c, t) \/ TriesAgain(c, t)
        /\ task'[c] = t /\ \A d \in Caller \ {c} : task'[d] = task[d]
        /\ gen' \in {gen, gen + 1}
        /\ kernel'.by \in {kernel.by, 0}
  BY StepFacts DEF IInv
<1>2. /\ gen \in Nat /\ kernel.by \in Nat /\ kernel.by <= gen
      /\ \A d \in Caller : task[d].pc \in Numbered => task[d].gen \in 1..gen
  BY DEF IInv, TypeOK, Numbers
<1>3. t.pc \in {"lowering", "raising"} => t.gen # kernel'.by
  <2>1. CASE Rests(t) \/ Waits(c, t)
    BY <2>1 DEF Rests, Waits
  <2>2. CASE TriesAgain(c, t)
    BY <2>2 DEF TriesAgain
  <2>3. CASE Asks(c, t)
    BY <1>1, <1>2, <2>3 DEF Asks, PcOf, Request
  <2> QED
    BY <1>1, <2>1, <2>2, <2>3
<1>4. t.pc \in {"login", "pause"} /\ t.gen = gen' => t.gen # kernel'.by
  BY <1>1 DEF Rests, Waits, Asks, TriesAgain, PcOf, Request
<1>5. ASSUME NEW d \in Caller, d # c
      PROVE  /\ task'[d].pc \in {"lowering", "raising"} =>
                    task'[d].gen # kernel'.by \/ Raised(d)'
             /\ task'[d].pc \in {"login", "pause"} /\ task'[d].gen = gen' =>
                    task'[d].gen # kernel'.by
  <2>1. task'[d] = task[d]
    BY <1>1, <1>5
  <2>2. ASSUME task[d].pc \in {"lowering", "raising"}, task[d].gen = kernel'.by
        PROVE  Raised(d)'
    <3>1. task[d].gen = kernel.by /\ kernel' = kernel
      BY <1>1, <1>2, <2>2 DEF Numbered, CallerStep, Down
    <3>2. Raised(d)
      BY <2>2, <3>1 DEF IInv, Fresh
    <3> QED
      BY <1>5, <3>2 DEF Raised, CallerStep
  <2>3. task[d].pc \in {"login", "pause"} /\ task[d].gen = gen' => task[d].gen # kernel'.by
    BY <1>1, <1>2 DEF IInv, Fresh, Numbered
  <2> QED
    BY <2>1, <2>2, <2>3
<1> QED
  BY <1>1, <1>3, <1>4, <1>5 DEF Fresh

LEMMA StepKeeps ==
    ASSUME IInv, NEW c \in Caller, CallerStep(c), SurroundingsOK'
    PROVE  IInv'
BY StepTypes, StepNumbers, StepQueued, StepRunning, StepFresh DEF IInv

\* An operation ends, and its caller goes on: unless the core has just come up for
\* it, which the answer "on" tells, it may try again.
LEMMA AnswerKeeps ==
    ASSUME IInv, op # NoOp, NEW result, Answer(result), SurroundingsOK',
           kernel' = kernel \/ kernel' = Down,
           result = "on" => op.kind = "start",
           op.at = "noting" => result = "on"
    PROVE  IInv'
<1> DEFINE c == op.by
<1>1. c \in Caller /\ Awaited(op) /\ \A i \in 1..Len(queue) : queue[i].by # c
  BY DEF IInv, Running
<1>2. task[c].pc = "lowering" => result # "on"
  BY <1>1 DEF Awaited, PcOf
<1>3. ASSUME result # "on", task[c].pc \in Numbered, task[c].gen = gen
      PROVE  gen # kernel'.by
  <2>1. task[c].pc \in {"lowering", "raising"} /\ task[c].gen = op.gen
    BY <1>1, <1>3 DEF Awaited, PcOf, Numbered
  <2>2. ~Raised(c)
    BY <1>1, <1>3, <2>1 DEF IInv, Running, Raised
  <2>3. gen # kernel.by /\ gen # 0
    BY <1>1, <1>3, <2>1, <2>2 DEF IInv, Fresh, Awaited
  <2> QED
    BY <2>3 DEF Down
<1>4. Moves(c)
  BY <1>1, <1>2, <1>3, ContinueMoves DEF Answer, IInv
<1>5. CallerStep(c)
  BY <1>1, <1>4 DEF CallerStep, Answer
<1> QED
  BY <1>1, <1>5, StepKeeps

\* A step of a caller that is not waiting for an operation.
LEMMA CallerKeeps ==
    ASSUME IInv, NEW c \in Caller, Moves(c), SurroundingsOK',
           task[c].pc \notin {"stopping", "lowering", "raising"},
           UNCHANGED <<op, kernel, cleanup>>
    PROVE  IInv'
<1>1. CallerStep(c)
  BY NoOperation DEF IInv, CallerStep
<1> QED
  BY <1>1, StepKeeps

-----------------------------------------------------------------------------
(* The steps of the core.                                                  *)

LEMMA OpTakenKeeps ==
    ASSUME IInv, OpTaken
    PROVE  IInv'
<1>1. /\ op = NoOp /\ queue # <<>> /\ queue \in Seq(Request) /\ queue' = Tail(queue)
      /\ op' = [kind |-> queue[1].kind, by |-> queue[1].by, gen |-> queue[1].gen,
                at |-> "begun", path |-> Unknown, asked |-> FALSE]
      /\ UNCHANGED <<settings, gen, kernel, cleanup, task, again, network, presses>>
  <2>1. queue \in Seq(Request)
    BY DEF IInv, TypeOK, Request
  <2>2. queue # <<>> => Head(queue) = queue[1]
    BY <2>1
  <2> QED
    BY <2>1, <2>2 DEF OpTaken
<1>2. /\ 1 \in 1..Len(queue) /\ queue[1] \in Request
      /\ queue' \in Seq(Request) /\ Len(queue') = Len(queue) - 1
      /\ \A i \in 1..Len(queue') : i + 1 \in 1..Len(queue) /\ queue'[i] = queue[i + 1]
  BY <1>1
<1>3. TypeOK'
  <2>1. op' \in [kind : {"none", "stop", "lower", "start"}, by : Caller \cup {"boot"},
                 gen : Nat, at : At, path : Int, asked : BOOLEAN]
    BY <1>1, <1>2 DEF Request, At, Unknown
  <2> QED
    BY <1>1, <1>2, <2>1 DEF IInv, TypeOK, Request, settings, network
<1>4. Queued'
  BY <1>1, <1>2 DEF IInv, Queued, Awaited
<1>5. Running'
  <2>1. Awaited(queue[1])
    BY <1>2 DEF IInv, Queued
  <2>2. Awaited(op)'
    BY <1>1, <2>1 DEF Awaited
  <2>3. \A i \in 1..Len(queue') : queue'[i].by # op'.by
    BY <1>1, <1>2 DEF IInv, Queued
  <2> QED
    BY <1>1, <1>2, <2>2, <2>3 DEF Running, Request
<1>6. Numbers' /\ TriesLeft'
  BY <1>1 DEF IInv, Numbers, TriesLeft
<1>7. Fresh'
  BY <1>1 DEF IInv, Fresh, Raised
<1> QED
  BY <1>3, <1>4, <1>5, <1>6, <1>7 DEF IInv

\* The operation goes on to its next await, the callers stay.
LEMMA AdvanceKeeps ==
    ASSUME IInv, op # NoOp, SurroundingsOK',
           UNCHANGED <<gen, queue, task, again>>,
           op' \in [kind : {op.kind}, by : {op.by}, gen : {op.gen}, at : At \ {"free"},
                    path : Int, asked : BOOLEAN],
           \/ kernel' \in {kernel, Down}
           \/ /\ kernel' \in [by : {op.gen}, path : Int]
              /\ op.kind = "start" /\ op'.at = "noting",
           op'.at \in {"clean", "support", "starting", "noting", "undo"} => op.kind = "start",
           op'.at = "stop" => op.kind # "start",
           op'.at \in {"support", "starting", "noting"} => ~cleanup',
           op'.at = "undo" => op.gen # gen,
           op.at \in {"noting", "undo"} => op'.at = "undo" \/ kernel' = Down
    PROVE  IInv'
<1>1. /\ op'.kind = op.kind /\ op'.by = op.by /\ op'.gen = op.gen /\ op' # NoOp
      /\ op.by \in Caller /\ Awaited(op)
  BY DEF IInv, Running, NoOp
<1>2. kernel' \in [by : Nat, path : Int] /\ kernel'.by <= gen
  BY <1>1 DEF IInv, TypeOK, Numbers, Down, Unknown, Awaited
<1>3. TypeOK'
  BY <1>2 DEF IInv, TypeOK, SurroundingsOK
<1>4. Numbers' /\ TriesLeft' /\ Queued'
  BY <1>2 DEF IInv, Numbers, TriesLeft, Queued, Awaited
<1>5. Running'
  BY <1>1 DEF IInv, Running, Awaited
<1>6. Fresh'
  <2>1. ASSUME NEW c \in Caller, task[c].pc \in {"lowering", "raising"},
               task[c].gen = kernel'.by
        PROVE  Raised(c)'
    <3>1. task[c].gen \in 1..gen
      BY <2>1 DEF IInv, Numbers, Numbered
    <3>2. CASE kernel' = kernel
      BY <1>1, <2>1, <3>1, <3>2 DEF IInv, Fresh, Raised, Down
    <3>3. CASE kernel' = Down
      BY <2>1, <3>1, <3>3 DEF Down
    <3>4. CASE kernel'.by = op.gen /\ op.kind = "start" /\ op'.at = "noting"
      <4>1. task[op.by].pc = "raising" /\ task[op.by].gen = op.gen
        BY <1>1, <3>4 DEF Awaited, PcOf
      <4>2. c = op.by
        BY <1>1, <2>1, <3>4, <4>1 DEF IInv, Numbers, Numbered
      <4> QED
        BY <1>1, <3>4, <4>2 DEF Raised
    <3> QED
      BY <3>2, <3>3, <3>4
  <2>2. ASSUME NEW c \in Caller, task[c].pc \in {"login", "pause"}, task[c].gen = gen
        PROVE  task[c].gen # kernel'.by
    <3>1. task[c].gen \in 1..gen
      BY <2>2 DEF IInv, Numbers, Numbered
    <3>2. CASE kernel' \in {kernel, Down}
      BY <2>2, <3>1, <3>2 DEF IInv, Fresh, Down
    <3>3. CASE kernel'.by = op.gen /\ op.kind = "start"
      <4>1. task[op.by].pc = "raising" /\ task[op.by].gen = op.gen
        BY <1>1, <3>3 DEF Awaited, PcOf
      <4> QED
        BY <1>1, <2>2, <3>3, <4>1 DEF IInv, Numbers, Numbered
    <3> QED
      BY <3>2, <3>3
  <2> QED
    BY <2>1, <2>2 DEF Fresh
<1> QED
  BY <1>3, <1>4, <1>5, <1>6 DEF IInv

LEMMA CoreKeeps ==
    ASSUME IInv, Core
    PROVE  IInv'
<1> USE DEF settings, network
<1>1. SurroundingsOK
  BY DEF IInv, TypeOK, SurroundingsOK
<1>2. op # NoOp => op.at # "free" /\ op.by \in Caller /\ Awaited(op)
  BY DEF IInv, Running
<1>3. op \in [kind : {"none", "stop", "lower", "start"}, by : Caller \cup {"boot"},
              gen : Nat, at : At, path : Int, asked : BOOLEAN] /\ path \in Int
  BY DEF IInv, TypeOK
<1>4. NoOp.at = "free" /\ NoOp.kind = "none"
  BY DEF NoOp
<1>5. CASE OpTaken
  BY <1>5, OpTakenKeeps
<1>6. CASE OpBegins
  <2>1. op # NoOp /\ op.at = "begun" /\ op.kind # "none" /\ SurroundingsOK'
    BY <1>1, <1>4, <1>6 DEF OpBegins, SurroundingsOK, IInv, Running
  <2>2. CASE op.kind # "stop" /\ op.gen # gen
    BY <1>6, <2>1, <2>2, AnswerKeeps DEF OpBegins
  <2>3. CASE ~(op.kind # "stop" /\ op.gen # gen)
    <3> DEFINE at == CASE op.kind # "start" -> "stop"
                       [] op.kind = "start" /\ cleanup -> "clean"
                       [] OTHER -> "support"
    <3>1. Advance(at) /\ UNCHANGED <<kernel, cleanup>>
      BY <1>6, <2>3 DEF OpBegins
    <3>2. /\ at \in {"stop", "clean", "support"}
          /\ at = "stop" => op.kind # "start"
          /\ at \in {"clean", "support"} => op.kind = "start"
          /\ at = "support" => ~cleanup
      OBVIOUS
    <3> HIDE DEF at
    <3>3. op' \in [kind : {op.kind}, by : {op.by}, gen : {op.gen}, at : {at},
                   path : Int, asked : BOOLEAN]
      BY <1>3, <3>1 DEF Advance, At
    <3> QED
      BY <2>1, <3>1, <3>2, <3>3, AdvanceKeeps DEF Advance, At
  <2> QED
    BY <2>2, <2>3
<1>7. ASSUME Stopping, IsDown, kernel' = kernel \/ kernel' = Down,
             UNCHANGED <<settings, network, presses>>
      PROVE  IInv'
  <2>1. op # NoOp /\ op.at \in {"stop", "clean", "undo"} /\ SurroundingsOK'
    BY <1>1, <1>4, <1>7 DEF Stopping, IsDown, SurroundingsOK
  <2>2. CASE op.at = "stop"
    BY <1>7, <2>1, <2>2, AnswerKeeps DEF IsDown
  <2>3. CASE op.at = "undo"
    BY <1>7, <2>1, <2>3, AnswerKeeps DEF IsDown
  <2>4. CASE op.at = "clean"
    <3>1. Advance("support") /\ ~cleanup' /\ op.kind = "start"
      BY <1>7, <2>1, <2>4 DEF IsDown, IInv, Running
    <3>2. op' \in [kind : {op.kind}, by : {op.by}, gen : {op.gen}, at : {"support"},
                   path : Int, asked : BOOLEAN]
      BY <1>3, <3>1 DEF Advance, At
    <3> QED
      BY <1>7, <2>1, <2>4, <3>1, <3>2, AdvanceKeeps DEF Advance, At
  <2> QED
    BY <2>1, <2>2, <2>3, <2>4
<1>8. CASE StopReturns
  BY <1>7, <1>8 DEF StopReturns
<1>9. CASE CoreSaysDown
  BY <1>7, <1>9 DEF CoreSaysDown
<1>10. CASE StopThrows
  <2>1. op # NoOp /\ op.at \in {"stop", "clean", "undo"} /\ SurroundingsOK'
    BY <1>1, <1>4, <1>10 DEF StopThrows, Stopping, SurroundingsOK
  <2>2. /\ op' = [op EXCEPT !.asked = TRUE] /\ kernel' \in {kernel, Down}
        /\ UNCHANGED <<gen, queue, task, again, cleanup>>
    BY <1>10 DEF StopThrows
  <2>3. op' \in [kind : {op.kind}, by : {op.by}, gen : {op.gen}, at : {op.at},
                 path : Int, asked : BOOLEAN]
    BY <1>3, <2>2
  <2>4. /\ op.at \in {"clean", "undo"} => op.kind = "start"
        /\ op.at = "stop" => op.kind # "start"
        /\ op.at = "undo" => op.gen # gen
    BY <2>1 DEF IInv, Running
  <2> QED
    BY <2>1, <2>2, <2>3, <2>4, AdvanceKeeps DEF At
<1>11. CASE CoreSaysNothingGood
  <2>1. op # NoOp /\ op.at # "noting" /\ SurroundingsOK'
    BY <1>1, <1>4, <1>11 DEF CoreSaysNothingGood, Stopping, SurroundingsOK
  <2> QED
    BY <1>11, <2>1, AnswerKeeps DEF CoreSaysNothingGood
<1>12. CASE Supported
  <2>1. op # NoOp /\ op.at = "support" /\ SurroundingsOK'
    BY <1>1, <1>4, <1>12 DEF Supported, SurroundingsOK
  <2>2. op.kind = "start" /\ ~cleanup
    BY <2>1 DEF IInv, Running
  <2>3. CASE op.gen = gen
    <3>1. /\ op' \in [kind : {op.kind}, by : {op.by}, gen : {op.gen}, at : {"starting"},
                      path : Int, asked : BOOLEAN]
          /\ UNCHANGED <<gen, queue, task, again, kernel, cleanup>>
      BY <1>3, <1>12, <2>3 DEF Supported
    <3> QED
      BY <2>1, <2>2, <3>1, AdvanceKeeps DEF At
  <2>4. CASE op.gen # gen
    BY <1>12, <2>1, <2>4, AnswerKeeps DEF Supported
  <2> QED
    BY <2>3, <2>4
<1>13. CASE Unsupported
  <2>1. op # NoOp /\ op.at = "support" /\ SurroundingsOK'
    BY <1>1, <1>4, <1>13 DEF Unsupported, SurroundingsOK
  <2> QED
    BY <1>13, <2>1, AnswerKeeps DEF Unsupported
<1>14. CASE StartReturns
  <2>1. op # NoOp /\ op.at = "starting" /\ SurroundingsOK'
    BY <1>1, <1>4, <1>14 DEF StartReturns, SurroundingsOK
  <2>2. op.kind = "start" /\ ~cleanup
    BY <2>1 DEF IInv, Running
  <2>3. /\ op' \in [kind : {op.kind}, by : {op.by}, gen : {op.gen}, at : {"noting"},
                    path : Int, asked : BOOLEAN]
        /\ kernel' \in [by : {op.gen}, path : Int]
        /\ UNCHANGED <<gen, queue, task, again, cleanup>>
    BY <1>3, <1>14 DEF StartReturns, Advance
  <2> QED
    BY <2>1, <2>2, <2>3, AdvanceKeeps DEF At
<1>15. CASE StartThrows
  <2>1. op # NoOp /\ op.at = "starting" /\ SurroundingsOK'
    BY <1>1, <1>4, <1>15 DEF StartThrows, SurroundingsOK
  <2> DEFINE result == IF op.gen = gen THEN "failed" ELSE "off"
  <2>2. Answer(result) /\ result # "on" /\ kernel' = kernel
    BY <1>15 DEF StartThrows
  <2> HIDE DEF result
  <2> QED
    BY <2>1, <2>2, AnswerKeeps
<1>16. CASE StartNoted
  <2>1. op # NoOp /\ op.at = "noting" /\ SurroundingsOK'
    BY <1>1, <1>4, <1>16 DEF StartNoted, SurroundingsOK
  <2>2. op.kind = "start"
    BY <2>1 DEF IInv, Running
  <2>3. CASE op.gen = gen
    BY <1>16, <2>1, <2>2, <2>3, AnswerKeeps DEF StartNoted
  <2>4. CASE op.gen # gen
    <3>1. /\ op' \in [kind : {op.kind}, by : {op.by}, gen : {op.gen}, at : {"undo"},
                      path : Int, asked : BOOLEAN]
          /\ UNCHANGED <<gen, queue, task, again, kernel, cleanup>>
      BY <1>3, <1>16, <2>4 DEF StartNoted, Advance
    <3> QED
      BY <2>1, <2>2, <2>4, <3>1, AdvanceKeeps DEF At
  <2> QED
    BY <2>3, <2>4
<1> QED
  BY <1>5, <1>6, <1>8, <1>9, <1>10, <1>11, <1>12, <1>13, <1>14, <1>15, <1>16 DEF Core

-----------------------------------------------------------------------------
(* The steps of the callers and of the network.                            *)

LEMMA CallersKeep ==
    ASSUME IInv, Callers
    PROVE  IInv'
<1> USE DEF settings, network, native
<1>1. TypeOK /\ SurroundingsOK /\ again \in BOOLEAN
  BY DEF IInv, TypeOK, SurroundingsOK
<1> DEFINE Resting == {"stopping", "lowering", "raising"}
<1>2. ASSUME NEW c \in Caller, NEW on \in BOOLEAN, NEW pc \in {"saving", "asking"},
             task[c] = Idle, task' = [task EXCEPT ![c] = [Idle EXCEPT !.pc = pc, !.on = on]],
             UNCHANGED <<settings, native, again, network>>, presses' \in Nat
      PROVE  IInv'
  <2> DEFINE t == [Idle EXCEPT !.pc = pc, !.on = on]
  <2>1. t \in Task /\ t.pc = pc
    BY DEF Idle, Task, Pc
  <2>2. Moves(c)
    BY <1>1, <1>2, <2>1 DEF Moves, Rests
  <2>3. task[c].pc = "idle"
    BY <1>2 DEF Idle
  <2>4. SurroundingsOK'
    BY <1>1, <1>2 DEF SurroundingsOK
  <2> QED
    BY <1>2, <2>2, <2>3, <2>4, CallerKeeps
<1>3. ASSUME NEW on \in BOOLEAN, Toggle(on) PROVE IInv'
  <2>1. presses' \in Nat /\ "toggle" \in Caller
    BY <1>1, <1>3 DEF Toggle, Press, TypeOK
  <2> QED
    BY <1>2, <1>3, <2>1 DEF Toggle, Press
<1>4. CASE AgentEnables
  <2>1. presses' \in Nat /\ "agent" \in Caller
    BY <1>1, <1>4 DEF AgentEnables, Press, TypeOK
  <2>2. task' = [task EXCEPT !["agent"] = [Idle EXCEPT !.pc = "asking", !.on = TRUE]]
    BY <1>4 DEF AgentEnables
  <2> QED
    BY <1>2, <1>4, <2>1, <2>2 DEF AgentEnables, Press
<1>5. CASE RetryPressed
  <2>1. "retry" \in Caller /\ task["retry"].pc = "idle" /\ saved \in BOOLEAN
    BY <1>1, <1>5 DEF RetryPressed, Press, Idle, SurroundingsOK
  <2>2. Retry("retry", saved) /\ again' = again
    BY <1>5 DEF RetryPressed
  <2>3. Moves("retry")
    BY <1>1, <2>1, <2>2, RetryMoves
  <2> QED
    BY <1>1, <1>5, <2>1, <2>3, CallerKeeps DEF RetryPressed, Press, SurroundingsOK
<1>6. CASE AgentDisables
  <2>1. Moves("agent") /\ "agent" \in Caller /\ task["agent"].pc = "idle"
    BY <1>1, <1>6, StopMoves DEF AgentDisables, Press, Idle
  <2> QED
    BY <1>1, <1>6, <2>1, CallerKeeps DEF AgentDisables, Press, SurroundingsOK
<1>7. CASE Boot
  <2>1. /\ "boot" \in Caller /\ gen = 0 /\ gen' = 1 /\ op = NoOp
        /\ \A i \in 1..Len(queue) : FALSE
        /\ \A c \in Caller : task[c].pc \notin Numbered
    BY <1>7 DEF Boot, IInv, Numbers, Queued, Running, Awaited
  <2>2. CASE saved /\ AutoStart
    <3> DEFINE t == [pc |-> "raising", on |-> TRUE, gen |-> 1, tries |-> 0]
               e == [kind |-> "start", by |-> "boot", gen |-> 1]
    <3>1. t \in Task /\ e \in Request
      BY <2>1 DEF Task, Request, Pc
    <3>2. queue' = Append(queue, e) /\ task' = [task EXCEPT !["boot"] = t]
      BY <1>7, <2>2 DEF Boot, Ask
    <3>3. t.pc = PcOf(e.kind)
      BY DEF PcOf
    <3>4. Asks("boot", t)
      BY <2>1, <3>1, <3>2, <3>3 DEF Asks
    <3>5. Moves("boot")
      BY <1>1, <1>7, <3>1, <3>2, <3>4 DEF Moves, Boot
    <3>6. CallerStep("boot")
      BY <1>7, <2>1, <3>5 DEF CallerStep, Boot
    <3> QED
      BY <1>1, <1>7, <2>1, <3>6, StepKeeps DEF Boot, SurroundingsOK
  <2>3. CASE ~(saved /\ AutoStart)
    <3>1. UNCHANGED <<queue, task, settings, op, kernel, cleanup, again, network, presses>>
      BY <1>7, <2>3 DEF Boot
    <3>2. TypeOK'
      BY <1>1, <2>1, <3>1 DEF TypeOK
    <3>3. Numbers' /\ TriesLeft' /\ Queued' /\ Running' /\ Fresh'
      BY <1>1, <2>1, <3>1
         DEF IInv, TypeOK, Numbers, TriesLeft, Queued, Running, Fresh, Numbered
    <3> QED
      BY <3>2, <3>3 DEF IInv
  <2> QED
    BY <2>2, <2>3
<1>8. ASSUME NEW c \in Caller, Saved(c) PROVE IInv'
  <2>1. task[c].pc = "saving" /\ task[c].on \in BOOLEAN /\ SurroundingsOK'
    BY <1>1, <1>8 DEF Saved, TypeOK, SurroundingsOK
  <2>2. Moves(c)
    <3>1. CASE task[c].on
      BY <1>1, <1>8, <3>1, RetryMoves DEF Saved
    <3>2. CASE ~task[c].on /\ c = "toggle"
      BY <1>1, <1>8, <3>2, StopMoves DEF Saved
    <3>3. CASE ~task[c].on /\ c # "toggle"
      BY <1>1, <1>8, <3>3, DoneMoves DEF Saved
    <3> QED
      BY <3>1, <3>2, <3>3
  <2> QED
    BY <1>8, <2>1, <2>2, CallerKeeps DEF Saved
<1>9. ASSUME NEW c \in Caller, SaveThrows(c) PROVE IInv'
  <2>1. task[c].pc = "saving" /\ SurroundingsOK' /\ Moves(c)
    BY <1>1, <1>9, DoneMoves DEF SaveThrows, SurroundingsOK
  <2> QED
    BY <1>9, <2>1, CallerKeeps DEF SaveThrows
<1>10. ASSUME NEW c \in Caller, RunningKnown(c) PROVE IInv'
  <2>1. task[c].pc = "asking" /\ task[c].on \in BOOLEAN /\ SurroundingsOK'
    BY <1>1, <1>10 DEF RunningKnown, TypeOK, SurroundingsOK
  <2>2. PICK up \in {kernel # Down, FALSE} :
          CASE c = "agent" -> Wait(c, "saving") /\ UNCHANGED again
            [] c = "guard" /\ up -> Retry(c, task[c].on) /\ UNCHANGED again
            [] OTHER -> Leave(c)
    BY <1>10 DEF RunningKnown
  <2>3. Moves(c)
    <3>1. CASE c = "agent"
      BY <1>1, <2>2, <3>1, RestMoves
    <3>2. CASE c = "guard" /\ up
      BY <1>1, <2>1, <2>2, <3>2, RetryMoves
    <3>3. CASE c # "agent" /\ ~(c = "guard" /\ up)
      BY <1>1, <2>2, <3>3, LeaveMoves
    <3> QED
      BY <3>1, <3>2, <3>3
  <2> QED
    BY <1>10, <2>1, <2>3, CallerKeeps DEF RunningKnown
<1>11. ASSUME NEW c \in Caller, task[c].pc \in {"login", "pause"}, Attempt(c) \/ Leave(c) \/ Done(c),
              again' \in BOOLEAN, UNCHANGED <<settings, op, kernel, cleanup, network, presses>>
       PROVE  IInv'
  <2>1. task[c].tries > 0 /\ task[c].pc \in Numbered
    BY <1>11 DEF IInv, TriesLeft, Numbered
  <2>2. task[c].gen = gen => gen # kernel'.by
    BY <1>11 DEF IInv, Fresh
  <2>3. Moves(c)
    BY <1>1, <1>11, <2>1, <2>2, AttemptMoves, LeaveMoves, DoneMoves
  <2> QED
    BY <1>1, <1>11, <2>3, CallerKeeps DEF SurroundingsOK
<1>12. ASSUME NEW c \in Caller, NEW authorized \in BOOLEAN, LoginEnds(c, authorized)
       PROVE IInv'
  BY <1>1, <1>11, <1>12 DEF LoginEnds
<1>13. ASSUME NEW c \in Caller, PauseEnds(c) PROVE IInv'
  <2>1. again' \in BOOLEAN
    BY <1>1, <1>13, LeaveMoves DEF PauseEnds, Moves
  <2> QED
    BY <1>11, <1>13, <2>1 DEF PauseEnds
<1>14. CASE Reopened
  <2>1. "guard" \in Caller /\ task["guard"].pc = "reopening" /\ Leave("guard")
    BY <1>14 DEF Reopened, Leave
  <2>2. Moves("guard") /\ SurroundingsOK'
    BY <1>1, <1>14, <2>1, LeaveMoves DEF Reopened, SurroundingsOK
  <2> QED
    BY <1>14, <2>1, <2>2, CallerKeeps DEF Reopened
<1> QED
  BY <1>3, <1>4, <1>5, <1>6, <1>7, <1>8, <1>9, <1>10, <1>12, <1>13, <1>14 DEF Callers

LEMMA WorldKeeps ==
    ASSUME IInv, World
    PROVE  IInv'
<1> USE DEF settings, network, native
<1>1. TypeOK /\ SurroundingsOK /\ again \in BOOLEAN
  BY DEF IInv, TypeOK, SurroundingsOK
<1>2. ASSUME UNCHANGED <<native, task, again>>, SurroundingsOK'
      PROVE  IInv'
  <2>1. TypeOK'
    BY <1>1, <1>2 DEF TypeOK, SurroundingsOK
  <2>2. Numbers' /\ TriesLeft' /\ Queued' /\ Running' /\ Fresh'
    BY <1>2 DEF IInv, Numbers, TriesLeft, Queued, Running, Awaited, Fresh, Raised
  <2> QED
    BY <2>1, <2>2 DEF IInv
<1>3. ASSUME NEW p \in 0..MaxChanges, PathChanges(p) PROVE IInv'
  <2>1. path' = p /\ p \in Nat
    BY <1>3, OpenFluxAssumption DEF PathChanges
  <2>2. timer' \in BOOLEAN
    BY <1>1, <1>3 DEF PathChanges, SurroundingsOK, Online
  <2>3. UNCHANGED <<native, task, again, settings, watching, presses, switches>>
    BY <1>3 DEF PathChanges
  <2>4. SurroundingsOK'
    BY <1>1, <2>1, <2>2, <2>3 DEF SurroundingsOK
  <2>5. UNCHANGED <<native, task, again>>
    BY <2>3
  <2> QED
    BY <1>2, <2>4, <2>5
<1>4. CASE AccountLeaves
  <2>1. SurroundingsOK'
    <3>1. watching' = FALSE /\ timer' = FALSE /\ switches' = switches + 1
      BY <1>4 DEF AccountLeaves
    <3>2. UNCHANGED <<saved, savedBy, cleanup, path, presses>>
      BY <1>4 DEF AccountLeaves
    <3>3. switches' \in Nat
      BY <1>1, <3>1 DEF SurroundingsOK
    <3>4. watching' \in BOOLEAN /\ timer' \in BOOLEAN
      BY <3>1
    <3> QED
      BY <1>1, <3>2, <3>3, <3>4 DEF SurroundingsOK
  <2>2. UNCHANGED <<native, task, again>>
    BY <1>4 DEF AccountLeaves
  <2> QED
    BY <1>2, <2>1, <2>2
<1>5. CASE AccountEnters
  <2>1. SurroundingsOK'
    BY <1>1, <1>5 DEF AccountEnters, SurroundingsOK
  <2>2. UNCHANGED <<native, task, again>>
    BY <1>5 DEF AccountEnters
  <2> QED
    BY <1>2, <2>1, <2>2
<1>6. CASE PathAnnounced
  <2>1. SurroundingsOK' /\ UNCHANGED <<op, kernel, cleanup>>
    BY <1>1, <1>6 DEF PathAnnounced, SurroundingsOK
  <2>2. CASE "guard" \notin Caller
    BY <1>2, <1>6, <2>1, <2>2 DEF PathAnnounced
  <2>3. CASE "guard" \in Caller /\ task["guard"] # Idle
    <3>1. again' = TRUE /\ UNCHANGED <<gen, queue, task>>
      BY <1>6, <2>3 DEF PathAnnounced
    <3>2. TypeOK'
      BY <1>1, <2>1, <3>1 DEF TypeOK, SurroundingsOK
    <3>3. Numbers' /\ TriesLeft' /\ Queued' /\ Running' /\ Fresh'
      BY <2>1, <3>1 DEF IInv, Numbers, TriesLeft, Queued, Running, Awaited, Fresh, Raised
    <3> QED
      BY <3>2, <3>3 DEF IInv
  <2>4. CASE "guard" \in Caller /\ task["guard"] = Idle
    <3>1. Revive /\ task["guard"].pc = "idle"
      BY <1>6, <2>4 DEF PathAnnounced, Idle
    <3> QED
      BY <1>1, <2>1, <2>4, <3>1, ReviveMoves, CallerKeeps
  <2> QED
    BY <2>2, <2>3, <2>4
<1> QED
  BY <1>3, <1>4, <1>5, <1>6 DEF World

LEMMA InitIInv == Init => IInv
<1> SUFFICES ASSUME Init PROVE IInv
  OBVIOUS
<1>1. TypeOK
  <2>1. NoOp \in [kind : {"none", "stop", "lower", "start"}, by : Caller \cup {"boot"},
                  gen : Nat, at : At, path : Int, asked : BOOLEAN]
    BY DEF NoOp, At, Unknown
  <2>2. Down \in [by : Nat, path : Int] /\ Idle \in Task
    BY DEF Down, Unknown, Idle, Task, Pc
  <2>3. queue \in Seq(Request) /\ task \in [Caller -> Task]
    BY <2>2 DEF Init
  <2>4. op = NoOp /\ kernel = Down /\ gen = 0 /\ path = 0
    BY DEF Init
  <2>5. /\ saved \in BOOLEAN /\ cleanup \in BOOLEAN /\ again \in BOOLEAN
        /\ timer \in BOOLEAN /\ watching \in BOOLEAN
        /\ savedBy \in Caller \cup {"boot"}
        /\ presses \in Nat /\ switches \in Nat
    BY DEF Init
  <2> QED
    BY <2>1, <2>2, <2>3, <2>4, <2>5 DEF TypeOK, Task, Request
<1>2. Numbers /\ TriesLeft /\ Queued /\ Running /\ Fresh
  BY DEF Init, Numbers, TriesLeft, Queued, Running, Fresh, Idle, Down, Numbered
<1> QED
  BY <1>1, <1>2 DEF IInv

LEMMA StepIInv == IInv /\ [Next]_vars => IInv'
<1> SUFFICES ASSUME IInv, [Next]_vars PROVE IInv'
  OBVIOUS
<1>1. CASE Next
  BY <1>1, CoreKeeps, CallersKeep, WorldKeeps DEF Next
<1>2. CASE UNCHANGED vars
  <2>1. TypeOK'
    BY <1>2 DEF vars, settings, native, network, IInv, TypeOK
  <2>2. Numbers' /\ TriesLeft' /\ Queued' /\ Running' /\ Fresh'
    BY <1>2 DEF vars, settings, native, network, IInv, Numbers, TriesLeft, Queued,
                Running, Awaited, Fresh, Raised
  <2> QED
    BY <2>1, <2>2 DEF IInv
<1> QED
  BY <1>1, <1>2

\* The numbers of requests, the place of each caller and what the core was raised for
\* fit together, whoever asks and whatever the core answers (openFluxController.ts).
THEOREM ControllerInvariance == Spec => []IInv
  BY InitIInv, StepIInv, PTL DEF Spec

\* The types, for any set of callers and any bounds.
THEOREM TypeCorrect == Spec => []TypeOK
<1>1. IInv => TypeOK
  BY DEF IInv
<1> QED
  BY <1>1, ControllerInvariance, PTL

-----------------------------------------------------------------------------
(* The promise of OpenFluxIntent.                                          *)

\* Between two awaits a caller makes at most one request.
LEMMA OneRequest ==
    /\ \A c : Done(c) => gen' = gen
    /\ \A c, pc : Wait(c, pc) => gen' = gen
    /\ \A c : Stop(c) => gen' = gen + 1
    /\ \A c, on : Retry(c, on) => gen' \in {gen, gen + 1}
    /\ \A c : Attempt(c) => gen' = gen
    /\ Revive => gen' \in {gen, gen + 1}
    /\ \A c : Leave(c) => gen' \in {gen, gen + 1}
    /\ \A c : Settle(c) => gen' \in {gen, gen + 1}
<1>1. \A c : Done(c) => gen' = gen
  BY DEF Done
<1>2. \A c, pc : Wait(c, pc) => gen' = gen
  BY DEF Wait
<1>3. \A c : Stop(c) => gen' = gen + 1
  BY DEF Stop
<1>4. \A c, on : Retry(c, on) => gen' \in {gen, gen + 1}
  BY <1>1 DEF Retry
<1>5. \A c : Attempt(c) => gen' = gen
  BY <1>1 DEF Attempt
<1>6. Revive => gen' \in {gen, gen + 1}
  BY <1>4 DEF Revive
<1>7. \A c : Leave(c) => gen' \in {gen, gen + 1}
  BY <1>1, <1>6 DEF Leave, GuardPassEnds
<1>8. \A c : Settle(c) => gen' \in {gen, gen + 1}
  BY <1>2, <1>7 DEF Settle
<1> QED
  BY <1>1, <1>2, <1>3, <1>4, <1>5, <1>6, <1>7, <1>8

LEMMA AnswerAsks ==
    ASSUME NEW result, Answer(result)
    PROVE  op' = NoOp /\ gen' \in {gen, gen + 1}
<1>1. op' = NoOp /\ Continue(op.by, result)
  BY DEF Answer
<1> DEFINE c == op.by
<1>2. \/ Leave(c) \/ Settle(c) \/ Attempt(c)
      \/ Wait(c, "saving") \/ Wait(c, "login") \/ Wait(c, "pause")
  BY <1>1 DEF Continue
<1> QED
  BY <1>1, <1>2, OneRequest

\* Callers and the network only make requests; the core is none of their business.
LEMMA OthersAsk ==
    ASSUME Callers \/ World
    PROVE  gen' \in {gen, gen + 1} /\ UNCHANGED <<op, kernel, cleanup>>
<1> USE DEF native
<1>1. ASSUME NEW on \in BOOLEAN, Toggle(on)
      PROVE  gen' = gen /\ UNCHANGED <<op, kernel, cleanup>>
  BY <1>1 DEF Toggle
<1>2. CASE RetryPressed
  BY <1>2, OneRequest DEF RetryPressed
<1>3. CASE AgentEnables
  BY <1>3 DEF AgentEnables
<1>4. CASE AgentDisables
  BY <1>4, OneRequest DEF AgentDisables
<1>5. CASE Boot
  BY <1>5 DEF Boot
<1>6. ASSUME NEW c \in Caller, Saved(c)
      PROVE  gen' \in {gen, gen + 1} /\ UNCHANGED <<op, kernel, cleanup>>
  <2>1. Retry(c, TRUE) \/ Stop(c) \/ Done(c)
    BY <1>6 DEF Saved
  <2> QED
    BY <1>6, <2>1, OneRequest DEF Saved
<1>7. ASSUME NEW c \in Caller, SaveThrows(c)
      PROVE  gen' \in {gen, gen + 1} /\ UNCHANGED <<op, kernel, cleanup>>
  BY <1>7, OneRequest DEF SaveThrows
<1>8. ASSUME NEW c \in Caller, RunningKnown(c)
      PROVE  gen' \in {gen, gen + 1} /\ UNCHANGED <<op, kernel, cleanup>>
  <2>1. Wait(c, "saving") \/ Retry(c, task[c].on) \/ Leave(c)
    BY <1>8 DEF RunningKnown
  <2> QED
    BY <1>8, <2>1, OneRequest DEF RunningKnown
<1>9. ASSUME NEW c \in Caller, PauseEnds(c)
      PROVE  gen' \in {gen, gen + 1} /\ UNCHANGED <<op, kernel, cleanup>>
  BY <1>9, OneRequest DEF PauseEnds
<1>10. ASSUME NEW c \in Caller, NEW authorized \in BOOLEAN, LoginEnds(c, authorized)
       PROVE  gen' \in {gen, gen + 1} /\ UNCHANGED <<op, kernel, cleanup>>
  BY <1>10, OneRequest DEF LoginEnds
<1>11. CASE Reopened
  <2>1. Leave("guard")
    BY <1>11 DEF Reopened, Leave
  <2> QED
    BY <1>11, <2>1, OneRequest DEF Reopened
<1>12. ASSUME NEW p \in 0..MaxChanges, PathChanges(p)
       PROVE  gen' = gen /\ UNCHANGED <<op, kernel, cleanup>>
  BY <1>12 DEF PathChanges
<1>13. CASE PathAnnounced
  <2>1. gen' = gen \/ Revive
    BY <1>13 DEF PathAnnounced
  <2> QED
    BY <1>13, <2>1, OneRequest DEF PathAnnounced
<1>14. CASE AccountLeaves \/ AccountEnters
  BY <1>14 DEF AccountLeaves, AccountEnters
<1> QED
  BY <1>1, <1>2, <1>3, <1>4, <1>5, <1>6, <1>7, <1>8, <1>9, <1>10, <1>11, <1>12, <1>13,
     <1>14 DEF Callers, World

\* The core runs for no request whose operation has not raised it itself.
LEMMA NotRaised ==
    ASSUME IInv, op # NoOp, op.kind # "stop", op.at \notin {"noting", "undo"}
    PROVE  kernel.by # op.gen
<1>1. op.by \in Caller /\ Awaited(op) /\ op.kind # "none"
  BY DEF IInv, Running
<1>2. task[op.by].pc \in {"lowering", "raising"} /\ task[op.by].gen = op.gen
  BY <1>1 DEF Awaited, PcOf
<1> QED
  BY <1>1, <1>2 DEF IInv, Fresh, Raised

\* What a running operation is to the intent.
LEMMA Active ==
    ASSUME IInv
    PROVE  /\ gen \in Nat /\ kernel.by \in Nat /\ cleanup \in BOOLEAN
           /\ op # NoOp => op.gen \in 1..gen /\ op.at # "free"
           /\ op = NoOp => op.at = "free" /\ op.kind = "none"
BY DEF IInv, TypeOK, Running, Awaited, NoOp

\* An operation that answers releases the tunnel.
LEMMA AnswerReleases ==
    ASSUME IInv, op # NoOp, NEW result, Answer(result), cleanup' \in BOOLEAN,
           IF op.at = "starting" THEN UNCHANGED <<kernel, cleanup>>
              ELSE kernel'.by \in {kernel.by, 0} /\ (cleanup /\ ~cleanup' => kernel'.by = 0),
           kernel'.by = op.gen /\ op.gen # gen => cleanup'
    PROVE  Intent!Release
<1>1. op' = NoOp /\ gen' \in {gen, gen + 1} /\ op.gen \in 1..gen /\ gen \in Nat
  BY AnswerAsks, Active
<1>2. ~(op'.at = "starting")
  BY <1>1 DEF NoOp
<1> QED
  BY <1>1, <1>2 DEF Intent!Release

LEMMA CoreIntends ==
    ASSUME IInv, Core
    PROVE  [Intent!Next]_Intent!vars
<1>1. SUFFICES ASSUME ~UNCHANGED Intent!vars PROVE Intent!Next
  OBVIOUS
<1>2. /\ gen \in Nat /\ kernel.by \in Nat /\ cleanup \in BOOLEAN
      /\ op # NoOp => op.gen \in 1..gen /\ op.at # "free"
      /\ op = NoOp => op.at = "free" /\ op.kind = "none"
  BY Active
<1>3. op \in [kind : {"none", "stop", "lower", "start"}, by : Caller \cup {"boot"},
              gen : Nat, at : At, path : Int, asked : BOOLEAN]
  BY DEF IInv, TypeOK
<1>4. NoOp.at = "free"
  BY DEF NoOp
\* The operation goes on: what the intent sees of it, unless it now calls.
<1>5. ASSUME NEW at \in {"stop", "clean", "support", "noting", "undo"}, Advance(at),
             op # NoOp
      PROVE  op' # NoOp /\ op'.gen = op.gen /\ op'.at = at /\ gen' = gen
  BY <1>3, <1>4, <1>5 DEF Advance
<1>6. CASE OpTaken
  <2>1. queue \in Seq(Request) /\ queue # <<>> /\ op = NoOp
    BY <1>6 DEF OpTaken, IInv, TypeOK, Request
  <2>2. Head(queue) = queue[1] /\ 1 \in 1..Len(queue)
    BY <2>1
  <2>3. Head(queue).gen \in 1..gen
    BY <2>2 DEF IInv, Queued, Awaited
  <2>4. op' # NoOp /\ op'.gen = Head(queue).gen /\ op'.at = "begun"
    BY <1>4, <1>6 DEF OpTaken
  <2>5. Intent!Begin
    BY <1>2, <1>6, <2>1, <2>3, <2>4 DEF OpTaken, Intent!Begin
  <2> QED
    BY <2>5 DEF Intent!Next
<1>7. CASE OpBegins
  <2>1. op # NoOp /\ op.at = "begun" /\ UNCHANGED <<kernel, cleanup>>
    BY <1>4, <1>7 DEF OpBegins
  <2>2. CASE op.kind # "stop" /\ op.gen # gen
    <3>1. kernel.by # op.gen
      BY <2>1, <2>2, NotRaised
    <3>2. Intent!Release
      BY <1>2, <1>7, <2>1, <2>2, <3>1, AnswerReleases DEF OpBegins
    <3> QED
      BY <3>2 DEF Intent!Next
  <2>3. CASE ~(op.kind # "stop" /\ op.gen # gen)
    <3>1. \E at \in {"stop", "clean", "support"} : Advance(at)
      BY <1>7, <2>3 DEF OpBegins
    <3>2. UNCHANGED Intent!vars
      BY <1>2, <1>5, <2>1, <3>1 DEF Intent!vars
    <3> QED
      BY <1>1, <3>2
  <2> QED
    BY <2>2, <2>3
\* The core is known to be down.
<1>8. ASSUME Stopping, IsDown, kernel' = Down
      PROVE  Intent!Next
  <2>1. op # NoOp /\ op.at \in {"stop", "clean", "undo"}
    BY <1>4, <1>8 DEF Stopping
  <2>2. kernel'.by = 0 /\ cleanup' \in BOOLEAN /\ cleanup' \in {cleanup, FALSE}
    <3>1. cleanup' = FALSE
      BY <1>8 DEF IsDown
    <3> QED
      BY <1>8, <3>1 DEF Down
  <2>3. CASE op.at \in {"stop", "undo"}
    <3>1. PICK result \in {"stopped", "off"} : Answer(result)
      BY <1>8, <2>3 DEF IsDown
    <3>2. op.at # "starting" /\ kernel'.by # op.gen
      BY <1>2, <2>1, <2>2, <2>3
    <3>3. Intent!Release
      BY <2>1, <2>2, <3>1, <3>2, AnswerReleases
    <3> QED
      BY <3>3 DEF Intent!Next
  <2>4. CASE op.at = "clean"
    <3>1. op' # NoOp /\ op'.gen = op.gen /\ op'.at = "support" /\ gen' = gen
      BY <1>5, <1>8, <2>1, <2>4 DEF IsDown
    <3>2. Intent!Lower
      <4>1. /\ op # NoOp /\ op.gen # 0 /\ op' # NoOp /\ op'.gen = op.gen
            /\ op.at # "starting" /\ op'.at # "starting"
        BY <1>2, <2>1, <2>4, <3>1
      <4> QED
        BY <2>2, <3>1, <4>1 DEF Intent!Lower
    <3> QED
      BY <3>2 DEF Intent!Next
  <2> QED
    BY <2>1, <2>3, <2>4
<1>9. CASE StopReturns
  BY <1>8, <1>9 DEF StopReturns
<1>10. CASE CoreSaysDown
  BY <1>8, <1>10 DEF CoreSaysDown
<1>11. CASE StopThrows
  <2>1. op # NoOp /\ op.at \in {"stop", "clean", "undo"}
    BY <1>4, <1>11 DEF StopThrows, Stopping
  <2>2. op' # NoOp /\ op'.gen = op.gen /\ op'.at = op.at
    BY <1>3, <1>4, <1>11, <2>1 DEF StopThrows
  <2>3. gen' = gen /\ cleanup' = cleanup /\ kernel'.by \in {kernel.by, 0}
    BY <1>11 DEF StopThrows, Down
  <2>4. Intent!Lower
    BY <1>2, <2>1, <2>2, <2>3 DEF Intent!Lower
  <2> QED
    BY <2>4 DEF Intent!Next
<1>12. CASE CoreSaysNothingGood
  <2>1. op # NoOp /\ op.at # "starting"
    BY <1>4, <1>12 DEF CoreSaysNothingGood, Stopping
  <2>2. Intent!Release
    BY <1>2, <1>12, <2>1, AnswerReleases DEF CoreSaysNothingGood
  <2> QED
    BY <2>2 DEF Intent!Next
<1>13. CASE Supported
  <2>1. op # NoOp /\ op.at = "support" /\ UNCHANGED <<kernel, cleanup>>
    BY <1>4, <1>13 DEF Supported
  <2>2. op.kind = "start" /\ ~cleanup
    BY <2>1 DEF IInv, Running
  <2>3. CASE op.gen = gen
    <3>1. op' # NoOp /\ op'.gen = op.gen /\ op'.at = "starting" /\ gen' = gen
      BY <1>3, <1>4, <1>13, <2>3 DEF Supported
    <3>2. Intent!Call
      BY <1>2, <2>1, <2>2, <2>3, <3>1 DEF Intent!Call
    <3> QED
      BY <3>2 DEF Intent!Next
  <2>4. CASE op.gen # gen
    <3>1. kernel.by # op.gen /\ Answer("off")
      BY <1>13, <2>1, <2>2, <2>4, NotRaised DEF Supported
    <3>2. Intent!Release
      BY <1>2, <2>1, <3>1, AnswerReleases
    <3> QED
      BY <3>2 DEF Intent!Next
  <2> QED
    BY <2>3, <2>4
<1>14. CASE Unsupported
  <2>1. op # NoOp /\ op.at = "support" /\ UNCHANGED <<kernel, cleanup>> /\ Answer("off")
    BY <1>4, <1>14 DEF Unsupported
  <2>2. kernel.by # op.gen
    <3>1. op.kind = "start"
      BY <2>1 DEF IInv, Running
    <3> QED
      BY <2>1, <3>1, NotRaised
  <2>3. Intent!Release
    BY <1>2, <2>1, <2>2, AnswerReleases
  <2> QED
    BY <2>3 DEF Intent!Next
<1>15. CASE StartReturns
  <2>1. op # NoOp /\ op.at = "starting" /\ kernel'.by = op.gen /\ cleanup' = cleanup
    BY <1>4, <1>15 DEF StartReturns
  <2>2. op' # NoOp /\ op'.gen = op.gen /\ op'.at = "noting" /\ gen' = gen
    BY <1>5, <1>15, <2>1 DEF StartReturns
  <2>3. Intent!Answer
    BY <2>1, <2>2 DEF Intent!Answer
  <2> QED
    BY <2>3 DEF Intent!Next
<1>16. CASE StartThrows
  <2>1. op # NoOp /\ op.at = "starting" /\ UNCHANGED <<kernel, cleanup>>
    BY <1>4, <1>16 DEF StartThrows
  <2>2. kernel.by # op.gen
    <3>1. op.kind = "start"
      BY <2>1 DEF IInv, Running
    <3> QED
      BY <2>1, <3>1, NotRaised
  <2>3. PICK result \in {"failed", "off"} : Answer(result)
    BY <1>16 DEF StartThrows
  <2>4. Intent!Release
    BY <1>2, <2>1, <2>2, <2>3, AnswerReleases
  <2> QED
    BY <2>4 DEF Intent!Next
<1>17. CASE StartNoted
  <2>1. op # NoOp /\ op.at = "noting" /\ UNCHANGED <<kernel, cleanup>>
    BY <1>4, <1>17 DEF StartNoted
  <2>2. CASE op.gen = gen
    <3>1. Intent!Release
      BY <1>2, <1>17, <2>1, <2>2, AnswerReleases DEF StartNoted
    <3> QED
      BY <3>1 DEF Intent!Next
  <2>3. CASE op.gen # gen
    <3>1. op' # NoOp /\ op'.gen = op.gen /\ op'.at = "undo" /\ gen' = gen
      BY <1>5, <1>17, <2>1, <2>3 DEF StartNoted
    <3>2. UNCHANGED Intent!vars
      BY <2>1, <3>1 DEF Intent!vars
    <3> QED
      BY <1>1, <3>2
  <2> QED
    BY <2>2, <2>3
<1> QED
  BY <1>6, <1>7, <1>9, <1>10, <1>11, <1>12, <1>13, <1>14, <1>15, <1>16, <1>17 DEF Core

LEMMA StepIntends == IInv /\ [Next]_vars => [Intent!Next]_Intent!vars
<1> SUFFICES ASSUME IInv, [Next]_vars PROVE [Intent!Next]_Intent!vars
  OBVIOUS
<1>1. CASE Core
  BY <1>1, CoreIntends
<1>2. CASE Callers \/ World
  <2>1. gen' \in {gen, gen + 1} /\ UNCHANGED <<op, kernel, cleanup>>
    BY <1>2, OthersAsk
  <2>2. CASE gen' = gen
    BY <2>1, <2>2 DEF Intent!vars
  <2>3. CASE gen' = gen + 1
    BY <2>1, <2>3 DEF Intent!Next, Intent!Ask
  <2> QED
    BY <2>1, <2>2, <2>3
<1>3. CASE UNCHANGED vars
  BY <1>3 DEF vars, native, Intent!vars
<1> QED
  BY <1>1, <1>2, <1>3 DEF Next

\* The controller keeps the promise of OpenFluxIntent: no operation calls for the tunnel
\* for a request that is superseded, and none ends over a tunnel it raised for one,
\* unless the core refused to go down (openFluxController.ts).
THEOREM IntentKept == Spec => KeepsIntent
<1>1. Init => Intent!Init
  BY DEF Init, NoOp, Down, Intent!Init
<1> QED
  BY <1>1, StepIntends, ControllerInvariance, PTL DEF Spec, KeepsIntent, Intent!Spec

(***************************************************************************)
(* Once everybody is done.                                                 *)
(***************************************************************************)

\* The newest request is to lower the tunnel and waits for its turn.
Waiting == \E i \in 1..Len(queue) : queue[i].gen = gen /\ queue[i].kind # "start"

\* A core that was raised for an older request has its end before it.
Covered ==
    /\ kernel.by = 0 => kernel = Down
    /\ op.at = "noting" => kernel.by = op.gen
    /\ \/ kernel.by \in {0, gen} \/ cleanup \/ Waiting
       \/ op.at \in {"noting", "undo"}
       \/ op.kind # "start" /\ op.gen = gen /\ op.at \in {"begun", "stop"}

\* Who can be where.
Fits(c, t) ==
    /\ t.pc = "saving" => c \in {"toggle", "agent"}
    /\ t.pc = "asking" => c # "guard" \/ ~AutoStart
    /\ t.pc = "login" => c # "guard"
    /\ t.pc = "idle" => t = Idle

Places == \A c \in Caller : Fits(c, task[c])

\* While the tunnel is switched off, nobody has a start for the newest request.
Off ==
    AutoStart /\ ~saved /\ savedBy # "agent" =>
        /\ kernel.by = 0 \/ kernel.by # gen
        /\ \A c \in Caller : task[c].pc \in Numbered => task[c].gen # gen

\* A pass of the guard is to come.
Prompted == timer \/ (again /\ task["guard"] # Idle)

\* A core that is up, or coming up, for the newest request on another path than the
\* present one has a pass of the guard before it.
Caught ==
    /\ switches = 0 => watching
    /\ AutoStart /\ "guard" \in Caller /\ saved /\ switches = 0 /\ Online(path) =>
          /\ kernel.by = gen /\ kernel.by # 0 /\ kernel.path # path => Prompted
          /\ op.at = "starting" /\ op.gen = gen /\ op.path # path => Prompted

\* What a step does to the queue: a new request first lowers the tunnel.
Requests ==
    \/ gen' = gen /\ queue' = queue
    \/ gen' = gen /\ \E e \in Request : queue' = Append(queue, e)
    \/ gen' = gen + 1 /\ \E e \in Request :
          e.kind # "start" /\ e.gen = gen + 1 /\ queue' = Append(queue, e)

\* What a step of c does: a number for a start is taken only while the switch is on,
\* and while it is on, a guard that was prompted again makes a new request.
Heeds(c) ==
    /\ gen' \in {gen, gen + 1}
    /\ \E t \in Task :
          /\ task' = [task EXCEPT ![c] = t]
          /\ Fits(c, t)
          /\ t.pc \in Numbered =>
                \/ saved' \/ ~AutoStart
                \/ task[c].pc \in Numbered /\ t.gen = task[c].gen
          /\ AutoStart /\ saved' /\ gen' = gen =>
                again' = again /\ (c = "guard" /\ again => t # Idle)

Acts(c) == Requests /\ Heeds(c)

-----------------------------------------------------------------------------
LEMMA DoneActs ==
    ASSUME TypeOK, NEW c \in Caller, Done(c),
           AutoStart /\ saved' => again' = again /\ (c = "guard" => ~again)
    PROVE  Acts(c)
<1>1. Idle \in Task /\ Idle.pc = "idle"
  BY DEF Idle, Task, Pc
<1>2. gen \in Nat /\ gen' = gen /\ queue' = queue /\ task' = [task EXCEPT ![c] = Idle]
  BY DEF Done, TypeOK
<1>3. Heeds(c)
  BY <1>1, <1>2 DEF Heeds, Numbered, Fits
<1> QED
  BY <1>2, <1>3 DEF Acts, Requests

LEMMA WaitActs ==
    ASSUME TypeOK, NEW c \in Caller, NEW pc \in {"saving", "reopening", "login", "pause"},
           Wait(c, pc), again' = again, pc = "saving" => c = "agent", pc = "login" => c # "guard",
           pc \in {"login", "pause"} => task[c].pc \in Numbered
    PROVE  Acts(c)
<1> DEFINE t == [task[c] EXCEPT !.pc = pc]
<1>1. t \in Task /\ t.pc = pc /\ t.gen = task[c].gen /\ t # Idle
  BY DEF TypeOK, Task, Pc, Idle
<1>2. gen' = gen /\ queue' = queue /\ task' = [task EXCEPT ![c] = t]
  BY DEF Wait, TypeOK
<1>3. Heeds(c)
  BY <1>1, <1>2 DEF Heeds, Numbered, Fits
<1> QED
  BY <1>2, <1>3 DEF Acts, Requests

LEMMA StopActs ==
    ASSUME TypeOK, NEW c \in Caller, Stop(c)
    PROVE  Acts(c) /\ gen' = gen + 1
<1> DEFINE t == [task[c] EXCEPT !.pc = "stopping"]
           e == [kind |-> "stop", by |-> c, gen |-> gen + 1]
<1>1. t \in Task /\ t.pc = "stopping"
  BY DEF TypeOK, Task, Pc
<1>2. e \in Request /\ e.kind # "start" /\ e.gen = gen + 1
  BY DEF TypeOK, Request
<1>3. gen' = gen + 1 /\ queue' = Append(queue, e) /\ task' = [task EXCEPT ![c] = t]
  BY DEF Stop, Ask, TypeOK
<1>4. gen' # gen
  BY <1>3 DEF TypeOK
<1>5. Heeds(c)
  BY <1>1, <1>3, <1>4 DEF Heeds, Numbered, Fits
<1> QED
  BY <1>2, <1>3, <1>5 DEF Acts, Requests

LEMMA RetryActs ==
    ASSUME TypeOK, NEW c \in Caller, NEW on \in BOOLEAN, Retry(c, on),
           on => saved' \/ ~AutoStart,
           ~on => ~saved' \/ ~AutoStart
    PROVE  Acts(c)
<1>1. CASE ~on
  BY <1>1, DoneActs DEF Retry
<1>2. CASE on
  <2> DEFINE t == [pc |-> "lowering", on |-> on, gen |-> gen + 1, tries |-> MaxTries]
             e == [kind |-> "lower", by |-> c, gen |-> gen + 1]
  <2>1. t \in Task /\ t.pc = "lowering"
    BY OpenFluxAssumption DEF TypeOK, Task, Pc
  <2>2. e \in Request /\ e.kind # "start" /\ e.gen = gen + 1
    BY DEF TypeOK, Request
  <2>3. gen' = gen + 1 /\ queue' = Append(queue, e) /\ task' = [task EXCEPT ![c] = t]
    BY <1>2 DEF Retry, Ask
  <2>4. gen' # gen
    BY <2>3 DEF TypeOK
  <2>5. Heeds(c)
    BY <1>2, <2>1, <2>3, <2>4 DEF Heeds, Fits
  <2> QED
    BY <2>2, <2>3, <2>5 DEF Acts, Requests
<1> QED
  BY <1>1, <1>2

LEMMA AttemptActs ==
    ASSUME TypeOK, NEW c \in Caller, Attempt(c), again' = again,
           task[c].pc \in Numbered, task[c].tries > 0,
           c = "guard" => task[c].gen = gen
    PROVE  Acts(c)
<1>1. CASE task[c].gen # gen
  BY <1>1, DoneActs DEF Attempt
<1>2. CASE task[c].gen = gen
  <2> DEFINE t == [[task[c] EXCEPT !.pc = "raising"] EXCEPT !.tries = @ - 1]
             e == [kind |-> "start", by |-> c, gen |-> gen]
  <2>1. t \in Task /\ t.pc = "raising" /\ t.gen = task[c].gen /\ t # Idle
    <3>1. task[c] \in Task /\ task[c].tries - 1 \in Nat
      BY DEF TypeOK, Task
    <3>2. t = [task[c] EXCEPT !.pc = "raising", !.tries = task[c].tries - 1]
      BY <3>1 DEF Task
    <3> QED
      BY <3>1, <3>2 DEF Task, Pc, Idle
  <2>2. e \in Request
    BY DEF TypeOK, Request
  <2>3. gen' = gen /\ queue' = Append(queue, e) /\ task' = [task EXCEPT ![c] = t]
    BY <1>2 DEF Attempt, Ask, TypeOK
  <2>4. Heeds(c)
    BY <2>1, <2>3 DEF Heeds, Fits
  <2> QED
    BY <2>2, <2>3, <2>4 DEF Acts, Requests
<1> QED
  BY <1>1, <1>2

LEMMA ReviveActs ==
    ASSUME TypeOK, "guard" \in Caller, Revive, saved' = saved
    PROVE  Acts("guard")
<1>1. CASE saved /\ ~AutoStart
  <2> DEFINE t == [Idle EXCEPT !.pc = "asking", !.on = TRUE]
  <2>1. t \in Task /\ t.pc = "asking"
    BY DEF Task, Idle, Pc
  <2>2. gen' = gen /\ queue' = queue /\ task' = [task EXCEPT !["guard"] = t]
    BY <1>1 DEF Revive
  <2>3. Heeds("guard")
    BY <1>1, <2>1, <2>2 DEF Heeds, Numbered, Fits
  <2> QED
    BY <2>2, <2>3 DEF Acts, Requests
<1>2. CASE ~(saved /\ ~AutoStart)
  BY <1>2, RetryActs DEF Revive, TypeOK
<1> QED
  BY <1>1, <1>2

LEMMA LeaveActs ==
    ASSUME TypeOK, NEW c \in Caller, Leave(c), saved' = saved
    PROVE  Acts(c)
<1>1. CASE c = "guard" /\ again
  BY <1>1, ReviveActs DEF Leave, GuardPassEnds
<1>2. CASE ~(c = "guard" /\ again)
  BY <1>2, DoneActs DEF Leave, GuardPassEnds
<1> QED
  BY <1>1, <1>2

LEMMA SettleActs ==
    ASSUME TypeOK, NEW c \in Caller, Settle(c), saved' = saved
    PROVE  Acts(c)
<1>1. CASE c = "guard"
  BY <1>1, WaitActs DEF Settle
<1>2. CASE c # "guard"
  BY <1>2, LeaveActs DEF Settle
<1> QED
  BY <1>1, <1>2

LEMMA ContinueActs ==
    ASSUME TypeOK, TriesLeft, NEW c \in Caller, NEW result, Continue(c, result),
           saved' = saved
    PROVE  Acts(c)
<1> DEFINE t == task[c]
<1>1. CASE t.pc = "stopping"
  <2>1. CASE c = "agent"
    BY <1>1, <2>1, WaitActs DEF Continue
  <2>2. CASE c # "agent"
    BY <1>1, <2>2, LeaveActs DEF Continue
  <2> QED
    BY <2>1, <2>2
<1>2. CASE t.pc = "lowering"
  <2>1. CASE t.gen # gen
    BY <1>2, <2>1, LeaveActs DEF Continue
  <2>2. CASE t.gen = gen /\ result = "failed"
    BY <1>2, <2>2, SettleActs DEF Continue
  <2>3. CASE t.gen = gen /\ result # "failed"
    <3>1. t.tries > 0 /\ t.pc \in Numbered
      BY <1>2 DEF TriesLeft, Numbered
    <3>2. CASE c \in {"toggle", "retry"}
      BY <1>2, <2>3, <3>1, <3>2, WaitActs DEF Continue
    <3>3. CASE c \notin {"toggle", "retry"}
      BY <1>2, <2>3, <3>1, <3>3, AttemptActs DEF Continue
    <3> QED
      BY <3>2, <3>3
  <2> QED
    BY <2>1, <2>2, <2>3
<1>3. CASE t.pc = "raising" /\ result = "failed"
  <2>1. CASE t.tries > 0
    BY <1>3, <2>1, WaitActs DEF Continue, Numbered
  <2>2. CASE t.tries = 0
    BY <1>3, <2>2, SettleActs DEF Continue
  <2> QED
    BY <1>3, <2>1, <2>2 DEF TypeOK
<1>4. CASE t.pc = "raising" /\ result # "failed"
  <2>1. CASE result = "on"
    BY <1>4, <2>1, SettleActs DEF Continue
  <2>2. CASE result # "on"
    BY <1>4, <2>2, LeaveActs DEF Continue
  <2> QED
    BY <2>1, <2>2
<1>5. CASE t.pc \notin {"stopping", "lowering", "raising"}
  BY <1>5, LeaveActs DEF Continue
<1> QED
  BY <1>1, <1>2, <1>3, <1>4, <1>5

-----------------------------------------------------------------------------
(* What a step of a caller or of the network comes to.                     *)

Unswitched == UNCHANGED <<saved, savedBy>>

\* The first request of all is the start of the application, before which nothing can
\* have been raised; the switch is moved with a new request, but by the agent.
CallersAct ==
    \E c \in Caller :
        /\ Heeds(c) /\ (Requests \/ gen = 0)
        /\ Unswitched \/ gen' = gen + 1 \/ (~saved' /\ savedBy' = "agent")

LEMMA CallersShape ==
    ASSUME IInv, Places, Callers
    PROVE  CallersAct
<1> USE DEF settings, network, native
<1>1. TypeOK /\ TriesLeft /\ gen \in Nat /\ \A c \in Caller : task[c].on \in BOOLEAN
  BY DEF IInv, TypeOK
\* A button is pressed whose caller first waits outside the queue.
<1>2. ASSUME NEW c \in {"toggle", "agent"}, c \in Caller, NEW on \in BOOLEAN,
             NEW pc \in {"saving", "asking"},
             task' = [task EXCEPT ![c] = [Idle EXCEPT !.pc = pc, !.on = on]],
             Unswitched, UNCHANGED <<gen, queue, again>>
      PROVE  CallersAct
  <2> DEFINE t == [Idle EXCEPT !.pc = pc, !.on = on]
  <2>1. t \in Task /\ t.pc = pc
    BY DEF Idle, Task, Pc
  <2>2. Heeds(c)
    BY <1>2, <2>1 DEF Heeds, Numbered, Fits
  <2> QED
    BY <1>2, <2>2 DEF CallersAct, Requests
<1>3. ASSUME NEW c \in Caller, Acts(c), Unswitched PROVE CallersAct
  BY <1>3 DEF CallersAct, Acts
<1>4. ASSUME NEW on \in BOOLEAN, Toggle(on) PROVE CallersAct
  <2>1. "toggle" \in Caller /\ Unswitched /\ UNCHANGED <<gen, queue, again>>
    BY <1>4 DEF Toggle, Press, Unswitched
  <2>2. task' = [task EXCEPT !["toggle"] = [Idle EXCEPT !.pc = "saving", !.on = on]]
    BY <1>4 DEF Toggle
  <2> QED
    BY <1>2, <2>1, <2>2
<1>5. CASE RetryPressed
  <2>1. "retry" \in Caller /\ Unswitched /\ Retry("retry", saved)
         /\ saved /\ saved'
    BY <1>5 DEF RetryPressed, Press, Unswitched
  <2>2. saved \in BOOLEAN
    BY <1>1 DEF TypeOK
  <2> QED
    BY <1>1, <1>3, <2>1, <2>2, RetryActs
<1>6. CASE AgentEnables
  <2>1. "agent" \in Caller /\ Unswitched /\ UNCHANGED <<gen, queue, again>>
    BY <1>6 DEF AgentEnables, Press, Unswitched
  <2>2. task' = [task EXCEPT !["agent"] = [Idle EXCEPT !.pc = "asking", !.on = TRUE]]
    BY <1>6 DEF AgentEnables
  <2> QED
    BY <1>2, <2>1, <2>2
<1>7. CASE AgentDisables
  <2>1. "agent" \in Caller /\ Unswitched /\ Stop("agent")
    BY <1>7 DEF AgentDisables, Press, Unswitched
  <2> QED
    BY <1>1, <1>3, <2>1, StopActs
<1>8. CASE Boot
  <2>1. "boot" \in Caller /\ gen = 0 /\ gen' = gen + 1 /\ gen' # gen /\ Unswitched
    BY <1>8 DEF Boot, Unswitched
  <2>2. CASE saved /\ AutoStart
    <3> DEFINE t == [pc |-> "raising", on |-> TRUE, gen |-> 1, tries |-> 0]
    <3>1. t \in Task /\ task' = [task EXCEPT !["boot"] = t] /\ saved'
      BY <1>8, <2>1, <2>2 DEF Boot, Task, Pc, Unswitched
    <3>2. Heeds("boot")
      BY <2>1, <3>1 DEF Heeds, Fits
    <3> QED
      BY <2>1, <3>2 DEF CallersAct
  <2>3. CASE ~(saved /\ AutoStart)
    <3>1. task["boot"] \in Task /\ task' = [task EXCEPT !["boot"] = task["boot"]]
      BY <1>1, <1>8, <2>1, <2>3 DEF Boot, TypeOK, Task
    <3>2. Heeds("boot")
      BY <2>1, <3>1 DEF Heeds, Places
    <3> QED
      BY <2>1, <3>2 DEF CallersAct
  <2> QED
    BY <2>2, <2>3
<1>9. ASSUME NEW c \in Caller, Saved(c) PROVE CallersAct
  <2>1. task[c].pc = "saving" /\ saved' = task[c].on /\ savedBy' = c
    BY <1>9 DEF Saved
  <2>2. CASE task[c].on
    <3>1. Retry(c, TRUE)
      BY <1>9, <2>2 DEF Saved
    <3>2. Acts(c) /\ gen' = gen + 1
      BY <1>1, <2>1, <2>2, <3>1, RetryActs DEF Retry
    <3> QED
      BY <3>2 DEF CallersAct, Acts
  <2>3. CASE ~task[c].on /\ c = "toggle"
    <3>1. Acts(c) /\ gen' = gen + 1
      BY <1>1, <1>9, <2>3, StopActs DEF Saved
    <3> QED
      BY <3>1 DEF CallersAct, Acts
  <2>4. CASE ~task[c].on /\ c # "toggle"
    <3>1. ~saved' /\ savedBy' = "agent"
      BY <2>1, <2>4 DEF Places, Fits
    <3>2. Acts(c)
      BY <1>1, <1>9, <2>4, <3>1, DoneActs DEF Saved
    <3> QED
      BY <3>1, <3>2 DEF CallersAct, Acts
  <2> QED
    BY <2>2, <2>3, <2>4
<1>10. ASSUME NEW c \in Caller, SaveThrows(c) PROVE CallersAct
  <2>1. c # "guard" /\ Done(c) /\ Unswitched /\ again' = again
    BY <1>10 DEF SaveThrows, Places, Fits, Unswitched
  <2> QED
    BY <1>1, <1>3, <2>1, DoneActs
<1>11. ASSUME NEW c \in Caller, RunningKnown(c) PROVE CallersAct
  <2>1. task[c].pc = "asking" /\ Unswitched /\ task[c].on \in BOOLEAN /\ saved' = saved
    BY <1>1, <1>11 DEF RunningKnown, Unswitched
  <2>2. PICK up \in {kernel # Down, FALSE} :
          CASE c = "agent" -> Wait(c, "saving") /\ UNCHANGED again
            [] c = "guard" /\ up -> Retry(c, task[c].on) /\ UNCHANGED again
            [] OTHER -> Leave(c)
    BY <1>11 DEF RunningKnown
  <2>3. Acts(c)
    <3>1. CASE c = "agent"
      BY <1>1, <2>2, <3>1, WaitActs
    <3>2. CASE c = "guard" /\ up
      <4>1. ~AutoStart
        BY <2>1, <3>2 DEF Places, Fits
      <4> QED
        BY <1>1, <2>1, <2>2, <3>2, <4>1, RetryActs
    <3>3. CASE c # "agent" /\ ~(c = "guard" /\ up)
      BY <1>1, <2>1, <2>2, <3>3, LeaveActs
    <3> QED
      BY <3>1, <3>2, <3>3
  <2> QED
    BY <1>3, <2>1, <2>3
<1>12. ASSUME NEW c \in Caller, task[c].pc \in {"login", "pause"}, Attempt(c), again' = again,
              c = "guard" => task[c].gen = gen, Unswitched
       PROVE  CallersAct
  <2>1. task[c].tries > 0 /\ task[c].pc \in Numbered
    BY <1>1, <1>12 DEF TriesLeft, Numbered
  <2>2. Acts(c)
    BY <1>1, <1>12, <2>1, AttemptActs
  <2> QED
    BY <1>3, <1>12, <2>2
<1>13. ASSUME NEW c \in Caller, NEW authorized \in BOOLEAN, LoginEnds(c, authorized)
       PROVE  CallersAct
  <2>1. c # "guard" /\ task[c].pc = "login" /\ Unswitched /\ again' = again
    BY <1>13 DEF LoginEnds, Places, Fits, Unswitched
  <2>2. CASE authorized
    BY <1>12, <1>13, <2>1, <2>2 DEF LoginEnds
  <2>3. CASE ~authorized
    BY <1>1, <1>3, <1>13, <2>1, <2>3, DoneActs DEF LoginEnds
  <2> QED
    BY <2>2, <2>3
<1>14. ASSUME NEW c \in Caller, PauseEnds(c) PROVE CallersAct
  <2>1. task[c].pc = "pause" /\ Unswitched /\ saved' = saved
    BY <1>14 DEF PauseEnds, Unswitched
  <2>2. CASE task[c].gen = gen
    BY <1>12, <1>14, <2>1, <2>2 DEF PauseEnds
  <2>3. CASE task[c].gen # gen
    BY <1>1, <1>3, <1>14, <2>1, <2>3, LeaveActs DEF PauseEnds
  <2> QED
    BY <2>2, <2>3
<1>15. CASE Reopened
  <2>1. "guard" \in Caller /\ Leave("guard") /\ Unswitched /\ saved' = saved
    BY <1>15 DEF Reopened, Leave, Unswitched
  <2> QED
    BY <1>1, <1>3, <2>1, LeaveActs
<1> QED
  BY <1>4, <1>5, <1>6, <1>7, <1>8, <1>9, <1>10, <1>11, <1>13, <1>14, <1>15 DEF Callers

-----------------------------------------------------------------------------
(* What a step of the core comes to: the operation goes on, or it answers. *)

Answers == op # NoOp /\ op' = NoOp /\ Acts(op.by)

LEMMA AnswersActs ==
    ASSUME IInv, op # NoOp, NEW result, Answer(result), saved' = saved
    PROVE  Answers
<1>1. op.by \in Caller
  BY DEF IInv, Running
<1>2. op' = NoOp /\ Continue(op.by, result)
  BY DEF Answer
<1> QED
  BY <1>1, <1>2, ContinueActs DEF IInv, Answers

\* The callers stay; a start that begins is for the present path.
Staying ==
    /\ UNCHANGED <<gen, queue, task, again>>
    /\ op # NoOp
    /\ op'.at = "starting" => op'.path = path

LEMMA CoreShape ==
    ASSUME IInv, Core
    PROVE  Unswitched /\ UNCHANGED network /\ (OpTaken \/ Staying \/ Answers)
<1> USE DEF settings
<1>1. /\ NoOp.at = "free"
      /\ op \in [kind : {"none", "stop", "lower", "start"}, by : Caller \cup {"boot"},
                 gen : Nat, at : At, path : Int, asked : BOOLEAN]
  BY DEF NoOp, IInv, TypeOK
<1>2. Unswitched /\ UNCHANGED network /\ saved' = saved
  BY DEF Core, OpTaken, OpBegins, StopReturns, StopThrows, CoreSaysDown,
         CoreSaysNothingGood, Supported, Unsupported, StartReturns, StartThrows,
         StartNoted, Unswitched
<1>3. ASSUME NEW result, Answer(result), op.at # "free" PROVE Answers
  BY <1>1, <1>2, <1>3, AnswersActs
<1>4. ASSUME NEW at \in {"stop", "clean", "support", "noting", "undo"}, Advance(at),
             op.at # "free"
      PROVE  Staying
  BY <1>1, <1>4 DEF Advance, Staying
<1>5. CASE OpBegins
  <2>1. op.at # "free"
    BY <1>5 DEF OpBegins
  <2>2. CASE op.kind # "stop" /\ op.gen # gen
    BY <1>2, <1>3, <1>5, <2>1, <2>2 DEF OpBegins
  <2>3. CASE ~(op.kind # "stop" /\ op.gen # gen)
    <3>1. \E at \in {"stop", "clean", "support"} : Advance(at)
      BY <1>5, <2>3 DEF OpBegins
    <3> QED
      BY <1>2, <1>4, <2>1, <3>1
  <2> QED
    BY <2>2, <2>3
<1>6. ASSUME Stopping, IsDown PROVE Answers \/ Staying
  <2>1. CASE op.at = "stop"
    <3>1. Answer("stopped")
      BY <1>6, <2>1 DEF IsDown
    <3> QED
      BY <1>3, <2>1, <3>1
  <2>2. CASE op.at = "undo"
    <3>1. Answer("off")
      BY <1>6, <2>2 DEF IsDown
    <3> QED
      BY <1>3, <2>2, <3>1
  <2>3. CASE op.at = "clean"
    BY <1>4, <1>6, <2>3 DEF IsDown
  <2> QED
    BY <1>6, <2>1, <2>2, <2>3 DEF Stopping
<1>7. CASE StopReturns \/ CoreSaysDown
  BY <1>2, <1>6, <1>7 DEF StopReturns, CoreSaysDown
<1>8. CASE StopThrows
  <2>1. op.at \in {"stop", "clean", "undo"} /\ UNCHANGED <<gen, queue, task, again>>
    BY <1>8 DEF StopThrows, Stopping
  <2>2. op'.at = op.at
    BY <1>1, <1>8 DEF StopThrows
  <2> QED
    BY <1>1, <1>2, <2>1, <2>2 DEF Staying
<1>9. CASE CoreSaysNothingGood
  BY <1>2, <1>3, <1>9 DEF CoreSaysNothingGood, Stopping
<1>10. CASE Supported
  <2>1. CASE op.gen = gen
    <3>1. op' = [op EXCEPT !.at = "starting", !.path = path] /\ op.at = "support"
          /\ UNCHANGED <<gen, queue, task, again>>
      BY <1>10, <2>1 DEF Supported
    <3>2. op'.path = path
      BY <1>1, <3>1
    <3> QED
      BY <1>1, <1>2, <3>1, <3>2 DEF Staying
  <2>2. CASE op.gen # gen
    BY <1>2, <1>3, <1>10, <2>2 DEF Supported
  <2> QED
    BY <2>1, <2>2
<1>11. CASE Unsupported
  BY <1>2, <1>3, <1>11 DEF Unsupported
<1>12. CASE StartReturns
  BY <1>2, <1>4, <1>12 DEF StartReturns
<1>13. CASE StartThrows
  BY <1>2, <1>3, <1>13 DEF StartThrows
<1>14. CASE StartNoted
  <2>1. CASE op.gen = gen
    BY <1>2, <1>3, <1>14, <2>1 DEF StartNoted
  <2>2. CASE op.gen # gen
    BY <1>2, <1>4, <1>14, <2>2 DEF StartNoted
  <2> QED
    BY <2>1, <2>2
<1> QED
  BY <1>2, <1>5, <1>7, <1>8, <1>9, <1>10, <1>11, <1>12, <1>13, <1>14 DEF Core

-----------------------------------------------------------------------------
(* A core raised for an older request has its end before it.               *)

\* A request that is to lower the tunnel stays in the queue until its turn comes, and
\* the newest request is always one.
LEMMA WaitingStays ==
    ASSUME IInv, Requests
    PROVE  (gen' # gen => Waiting') /\ (Waiting => Waiting')
<1>1. queue \in Seq(Request) /\ gen \in Nat
  BY DEF IInv, TypeOK, Request
<1>2. CASE gen' = gen /\ queue' = queue
  BY <1>2 DEF Waiting
<1>3. ASSUME NEW e \in Request, gen' = gen, queue' = Append(queue, e)
      PROVE  Waiting => Waiting'
  <2>1. \A j \in 1..Len(queue) : j \in 1..Len(queue') /\ queue'[j] = queue[j]
    BY <1>1, <1>3
  <2> QED
    BY <1>3, <2>1 DEF Waiting
<1>4. ASSUME NEW e \in Request, gen' = gen + 1, queue' = Append(queue, e),
             e.kind # "start", e.gen = gen + 1
      PROVE  Waiting'
  <2>1. Len(queue) + 1 \in 1..Len(queue') /\ queue'[Len(queue) + 1] = e
    BY <1>1, <1>4
  <2> QED
    BY <1>4, <2>1 DEF Waiting
<1> QED
  BY <1>1, <1>2, <1>3, <1>4 DEF Requests

\* An operation that answers without a word from the core leaves what it found: it was
\* not the one that ends an older core.
LEMMA AnswersCovered ==
    ASSUME IInv, Covered, Answers, UNCHANGED <<kernel, cleanup>>,
           op.at \notin {"stop", "undo"},
           op.at = "noting" => op.gen = gen,
           op.at = "begun" /\ op.kind # "start" => op.gen # gen
    PROVE  Covered'
<1>1. Requests /\ op' = NoOp
  BY DEF Answers, Acts
<1>2. (gen' # gen => Waiting') /\ (Waiting => Waiting')
  BY <1>1, WaitingStays
<1>3. op'.at = "free"
  BY <1>1 DEF NoOp
<1>4. kernel.by \in {0, gen} \/ cleanup \/ Waiting
  BY DEF Covered
<1> QED
  BY <1>2, <1>3, <1>4 DEF Covered

LEMMA CoveredCore ==
    ASSUME IInv, Covered, Core
    PROVE  Covered'
<1> USE DEF settings, network
<1>1. NoOp.at = "free" /\ NoOp.kind = "none"
  BY DEF NoOp
<1>2. op \in [kind : {"none", "stop", "lower", "start"}, by : Caller \cup {"boot"},
              gen : Nat, at : At, path : Int, asked : BOOLEAN]
  BY DEF IInv, TypeOK
<1>3. Down.by = 0
  BY DEF Down
<1>4. CASE OpTaken
  <2>1. /\ queue \in Seq(Request) /\ queue # <<>> /\ queue' = Tail(queue) /\ op = NoOp
        /\ op'.kind = Head(queue).kind /\ op'.gen = Head(queue).gen /\ op'.at = "begun"
        /\ UNCHANGED <<gen, kernel, cleanup>>
    BY <1>4 DEF OpTaken, IInv, TypeOK, Request
  <2>2. Waiting => Waiting' \/ (op'.kind # "start" /\ op'.gen = gen)
    <3>1. ASSUME NEW i \in 1..Len(queue), queue[i].gen = gen, queue[i].kind # "start"
          PROVE  Waiting' \/ (op'.kind # "start" /\ op'.gen = gen)
      <4>1. CASE i = 1
        BY <2>1, <3>1, <4>1
      <4>2. CASE i # 1
        <5>1. i - 1 \in 1..Len(queue') /\ queue'[i - 1] = queue[i]
          BY <2>1, <4>2
        <5> QED
          BY <2>1, <3>1, <5>1 DEF Waiting
      <4> QED
        BY <4>1, <4>2
    <3> QED
      BY <3>1 DEF Waiting
  <2> QED
    BY <1>1, <2>1, <2>2 DEF Covered
<1>5. CASE OpBegins
  <2>1. op # NoOp /\ op.at = "begun" /\ UNCHANGED <<kernel, cleanup>>
    BY <1>1, <1>5 DEF OpBegins
  <2>2. CASE op.kind # "stop" /\ op.gen # gen
    <3>1. Answers
      BY <1>5, <2>1, <2>2, AnswersActs DEF OpBegins
    <3> QED
      BY <2>1, <2>2, <3>1, AnswersCovered
  <2>3. CASE op.kind = "start" /\ op.gen = gen
    <3>1. \E at \in {"clean", "support"} : Advance(at)
      BY <1>5, <2>3 DEF OpBegins
    <3>2. /\ op'.at \in {"clean", "support"} /\ UNCHANGED <<gen, queue>>
      BY <1>2, <3>1 DEF Advance
    <3> QED
      BY <2>1, <2>3, <3>2 DEF Covered, Waiting
  <2>4. CASE op.kind # "start" /\ (op.kind = "stop" \/ op.gen = gen)
    <3>1. Advance("stop")
      BY <1>5, <2>4 DEF OpBegins
    <3>2. op'.at = "stop" /\ op'.kind = op.kind /\ op'.gen = op.gen /\ UNCHANGED <<gen, queue>>
      BY <1>2, <3>1 DEF Advance
    <3> QED
      BY <2>1, <2>4, <3>2 DEF Covered, Waiting
  <2> QED
    BY <2>2, <2>3, <2>4
<1>6. ASSUME Stopping, IsDown, kernel' = Down PROVE Covered'
  <2>1. CASE op.at \in {"stop", "undo"}
    <3>1. op'.at = "free"
      BY <1>1, <1>6, <2>1 DEF IsDown, Answer
    <3> QED
      BY <1>3, <1>6, <3>1 DEF Covered
  <2>2. CASE op.at = "clean"
    <3>1. op'.at = "support"
      BY <1>2, <1>6, <2>2 DEF IsDown, Advance
    <3> QED
      BY <1>3, <1>6, <3>1 DEF Covered
  <2> QED
    BY <1>6, <2>1, <2>2 DEF Stopping
<1>7. CASE StopReturns \/ CoreSaysDown
  BY <1>6, <1>7 DEF StopReturns, CoreSaysDown
<1>8. CASE StopThrows
  <2>1. /\ op'.at = op.at /\ op'.kind = op.kind /\ op'.gen = op.gen
        /\ UNCHANGED <<gen, queue, cleanup>> /\ kernel' \in {kernel, Down} /\ op.at # "noting"
    BY <1>2, <1>8 DEF StopThrows, Stopping
  <2>2. CASE kernel' = kernel
    BY <2>1, <2>2 DEF Covered, Waiting
  <2>3. CASE kernel' = Down
    BY <1>3, <2>1, <2>3 DEF Covered
  <2> QED
    BY <2>1, <2>2, <2>3
<1>9. CASE CoreSaysNothingGood
  <2>1. op'.at = "free" /\ cleanup' /\ kernel' = kernel
    BY <1>1, <1>9 DEF CoreSaysNothingGood, Answer
  <2> QED
    BY <2>1 DEF Covered
\* Before the start has been made, the operation is not what ends the older core.
<1>10. ASSUME op.at \in {"support", "starting"}, NEW result, Answer(result),
              UNCHANGED <<settings, kernel, cleanup>>
       PROVE  Covered'
  <2>1. op # NoOp
    BY <1>1, <1>10
  <2>2. Answers
    BY <1>10, <2>1, AnswersActs
  <2> QED
    BY <1>10, <2>2, AnswersCovered
<1>11. CASE Supported
  <2>1. CASE op.gen = gen
    <3>1. /\ op.at = "support" /\ op'.at = "starting"
          /\ UNCHANGED <<gen, queue, kernel, cleanup>>
      BY <1>2, <1>11, <2>1 DEF Supported
    <3> QED
      BY <3>1 DEF Covered, Waiting
  <2>2. CASE op.gen # gen
    BY <1>10, <1>11, <2>2 DEF Supported
  <2> QED
    BY <2>1, <2>2
<1>12. CASE Unsupported
  BY <1>10, <1>12 DEF Unsupported
<1>13. CASE StartReturns
  <2>1. op # NoOp /\ kernel'.by = op.gen
    BY <1>1, <1>13 DEF StartReturns
  <2>2. op.gen # 0
    BY <2>1, Active
  <2>3. op'.at = "noting" /\ op'.gen = op.gen
    BY <1>2, <1>13 DEF StartReturns, Advance
  <2> QED
    BY <2>1, <2>2, <2>3 DEF Covered
<1>14. CASE StartThrows
  BY <1>10, <1>14 DEF StartThrows
<1>15. CASE StartNoted
  <2>1. op # NoOp /\ op.at = "noting" /\ UNCHANGED <<kernel, cleanup>>
    BY <1>1, <1>15 DEF StartNoted
  <2>2. CASE op.gen = gen
    <3>1. Answers
      BY <1>15, <2>1, <2>2, AnswersActs DEF StartNoted
    <3> QED
      BY <2>1, <2>2, <3>1, AnswersCovered
  <2>3. CASE op.gen # gen
    <3>1. op'.at = "undo"
      BY <1>2, <1>15, <2>3 DEF StartNoted, Advance
    <3> QED
      BY <2>1, <3>1 DEF Covered
  <2> QED
    BY <2>2, <2>3
<1> QED
  BY <1>4, <1>5, <1>7, <1>8, <1>9, <1>11, <1>12, <1>13, <1>14, <1>15 DEF Core

LEMMA CoveredCallers ==
    ASSUME IInv, Covered, UNCHANGED <<op, kernel, cleanup>>, Requests \/ gen = 0
    PROVE  Covered'
<1>1. CASE Requests
  <2>1. (gen' # gen => Waiting') /\ (Waiting => Waiting')
    BY <1>1, WaitingStays
  <2> QED
    BY <2>1 DEF Covered
\* Before the first request nothing has been raised, and no operation runs.
<1>2. CASE gen = 0
  <2>1. kernel.by = 0
    BY <1>2 DEF IInv, TypeOK, Numbers
  <2> QED
    BY <2>1 DEF Covered
<1> QED
  BY <1>1, <1>2

-----------------------------------------------------------------------------
(* What a caller's step does to the rest.                                  *)

LEMMA HeedsFacts ==
    ASSUME IInv, NEW c \in Caller, Heeds(c)
    PROVE  /\ gen \in Nat /\ gen' \in {gen, gen + 1} /\ kernel.by \in 0..gen
           /\ \E t \in Task :
                 /\ task'[c] = t /\ \A d \in Caller \ {c} : task'[d] = task[d]
                 /\ Fits(c, t)
                 /\ t.pc \in Numbered =>
                       \/ saved' \/ ~AutoStart
                       \/ task[c].pc \in Numbered /\ t.gen = task[c].gen
                 /\ AutoStart /\ saved' /\ gen' = gen =>
                       again' = again /\ (c = "guard" /\ again => t # Idle)
<1>1. PICK t \in Task :
          /\ task' = [task EXCEPT ![c] = t]
          /\ Fits(c, t)
          /\ t.pc \in Numbered =>
                \/ saved' \/ ~AutoStart
                \/ task[c].pc \in Numbered /\ t.gen = task[c].gen
          /\ AutoStart /\ saved' /\ gen' = gen =>
                again' = again /\ (c = "guard" /\ again => t # Idle)
  BY DEF Heeds
<1>2. task'[c] = t /\ \A d \in Caller \ {c} : task'[d] = task[d]
  <2>1. task \in [Caller -> Task]
    BY DEF IInv, TypeOK, Task
  <2> QED
    BY <1>1, <2>1
<1>3. gen \in Nat /\ gen' \in {gen, gen + 1} /\ kernel.by \in 0..gen
  BY DEF IInv, TypeOK, Numbers, Heeds
<1> QED
  BY <1>1, <1>2, <1>3

LEMMA HeedsKeepsPlaces ==
    ASSUME IInv, Places, NEW c \in Caller, Heeds(c)
    PROVE  Places'
<1>1. ASSUME NEW d \in Caller PROVE Fits(d, task'[d])
  BY <1>1, HeedsFacts DEF Places
<1> QED
  BY <1>1 DEF Places, Fits

\* The switch is moved with a new request, but by the agent.
LEMMA HeedsKeepsOff ==
    ASSUME IInv, Off, NEW c \in Caller, Heeds(c),
           Unswitched \/ gen' = gen + 1 \/ (~saved' /\ savedBy' = "agent"),
           kernel'.by \in {kernel.by, 0}
    PROVE  Off'
<1>1. PICK t \in Task :
          /\ task'[c] = t /\ \A d \in Caller \ {c} : task'[d] = task[d]
          /\ t.pc \in Numbered =>
                \/ saved' \/ ~AutoStart
                \/ task[c].pc \in Numbered /\ t.gen = task[c].gen
  BY HeedsFacts
<1>2. gen \in Nat /\ gen' \in {gen, gen + 1} /\ kernel.by \in 0..gen
  BY HeedsFacts
<1>3. ASSUME AutoStart, ~saved', savedBy' # "agent"
      PROVE  /\ kernel'.by = 0 \/ kernel'.by # gen'
             /\ \A d \in Caller : task'[d].pc \in Numbered => task'[d].gen # gen'
  <2>1. \A d \in Caller : task'[d].pc \in Numbered =>
            task[d].pc \in Numbered /\ task'[d].gen = task[d].gen
    BY <1>1, <1>3
  <2>2. CASE gen' = gen + 1
    BY <1>2, <2>1, <2>2 DEF IInv, Numbers
  <2>3. CASE gen' = gen
    <3>1. AutoStart /\ ~saved /\ savedBy # "agent"
      BY <1>2, <1>3, <2>3 DEF Unswitched
    <3> QED
      BY <1>2, <2>1, <2>3, <3>1 DEF Off
  <2> QED
    BY <1>2, <2>2, <2>3
<1> QED
  BY <1>3 DEF Off

\* A new request outdates every core and every start; without one, a prompted guard
\* stays prompted.
LEMMA HeedsKeepsCaught ==
    ASSUME IInv, Caught, NEW c \in Caller, Heeds(c),
           Unswitched \/ gen' = gen + 1 \/ (~saved' /\ savedBy' = "agent"),
           kernel' = kernel \/ kernel' = Down, op' = op \/ op' = NoOp,
           UNCHANGED network
    PROVE  Caught'
<1> USE DEF network
<1>1. PICK t \in Task :
          /\ task'[c] = t /\ \A d \in Caller \ {c} : task'[d] = task[d]
          /\ AutoStart /\ saved' /\ gen' = gen =>
                again' = again /\ (c = "guard" /\ again => t # Idle)
  BY HeedsFacts
<1>2. gen \in Nat /\ gen' \in {gen, gen + 1} /\ kernel.by \in 0..gen
  BY HeedsFacts
<1>3. /\ op' # NoOp => op' = op /\ op.gen \in 1..gen
      /\ op' = NoOp => op'.at # "starting"
      /\ kernel'.by # 0 => kernel' = kernel
  BY Active DEF NoOp, Down
<1>4. CASE gen' = gen + 1
  BY <1>2, <1>3, <1>4 DEF Caught
<1>5. CASE gen' = gen
  <2>1. ASSUME AutoStart, "guard" \in Caller, saved', Prompted
        PROVE  Prompted'
    BY <1>1, <1>5, <2>1 DEF Prompted
  <2>2. ASSUME saved' PROVE saved
    <3>1. gen' # gen + 1
      BY <1>2, <1>5
    <3>2. Unswitched
      BY <2>2, <3>1
    <3>3. saved' = saved
      BY <3>2 DEF Unswitched
    <3> QED
      BY <2>2, <3>3
  <2>3. ASSUME AutoStart, "guard" \in Caller, saved', switches' = 0, Online(path'),
               ~Prompted
        PROVE  /\ kernel'.by = gen' /\ kernel'.by # 0 => kernel'.path = path'
               /\ op'.at = "starting" /\ op'.gen = gen' => op'.path = path'
    <3>1. /\ kernel.by = gen /\ kernel.by # 0 => kernel.path = path
          /\ op.at = "starting" /\ op.gen = gen => op.path = path
      BY <2>2, <2>3 DEF Caught
    <3> QED
      BY <1>3, <1>5, <3>1
  <2>4. switches' = 0 => watching'
    BY DEF Caught
  <2> QED
    BY <2>1, <2>3, <2>4 DEF Caught, Online
<1> QED
  BY <1>2, <1>4, <1>5

-----------------------------------------------------------------------------
(* Every step keeps the three of them.                                     *)

Settled == Places /\ Off /\ Caught

LEMMA HeedsKeepsSettled ==
    ASSUME IInv, Settled, NEW c \in Caller, Heeds(c),
           Unswitched \/ gen' = gen + 1 \/ (~saved' /\ savedBy' = "agent"),
           kernel' = kernel \/ kernel' = Down, op' = op \/ op' = NoOp,
           UNCHANGED network
    PROVE  Settled'
<1>1. kernel'.by \in {kernel.by, 0}
  BY DEF Down
<1> QED
  BY <1>1, HeedsKeepsPlaces, HeedsKeepsOff, HeedsKeepsCaught DEF Settled

LEMMA SettledCore ==
    ASSUME IInv, Settled, Core
    PROVE  Settled'
<1> USE DEF network
<1>1. Unswitched /\ UNCHANGED network
  BY CoreShape
<1>2. kernel' = kernel \/ kernel' = Down \/ StartReturns
  BY DEF Core, OpTaken, OpBegins, StopReturns, StopThrows, CoreSaysDown,
         CoreSaysNothingGood, Supported, Unsupported, StartThrows, StartNoted
<1>3. CASE StartReturns
  <2>1. /\ op.at = "starting" /\ kernel'.by = op.gen /\ kernel'.path = op.path
        /\ UNCHANGED <<gen, task, again>>
    BY <1>3 DEF StartReturns, Advance
  <2>2. op'.at = "noting"
    BY <1>3 DEF StartReturns, Advance, IInv, TypeOK
  <2>3. op.by \in Caller /\ Awaited(op) /\ op.kind = "start"
    BY <2>1 DEF IInv, Running, NoOp
  <2>4. task[op.by].pc \in Numbered /\ task[op.by].gen = op.gen
    BY <2>3 DEF Awaited, PcOf, Numbered
  <2>5. Places'
    BY <2>1 DEF Settled, Places, Fits
  <2>6. Off'
    BY <1>1, <2>1, <2>3, <2>4 DEF Settled, Off, Unswitched
  <2>7. Caught'
    BY <1>1, <2>1, <2>2 DEF Settled, Caught, Prompted, Unswitched
  <2> QED
    BY <2>5, <2>6, <2>7 DEF Settled
<1>4. CASE kernel' = kernel \/ kernel' = Down
  <2>1. CASE OpTaken \/ Staying
    <3>1. UNCHANGED <<gen, task, again>> /\ (op'.at = "starting" => op'.path = path)
      BY <2>1 DEF OpTaken, Staying
    <3>2. Places'
      BY <3>1 DEF Settled, Places, Fits
    <3>3. Off'
      BY <1>1, <1>4, <3>1 DEF Settled, Off, Unswitched, Down
    <3>4. Caught'
      BY <1>1, <1>4, <3>1 DEF Settled, Caught, Prompted, Unswitched, Down
    <3> QED
      BY <3>2, <3>3, <3>4 DEF Settled
  <2>2. CASE Answers
    <3>1. op.by \in Caller /\ Heeds(op.by) /\ op' = NoOp
      BY <2>2 DEF Answers, Acts, IInv, Running
    <3> QED
      BY <1>1, <1>4, <3>1, HeedsKeepsSettled
  <2> QED
    BY <2>1, <2>2, CoreShape
<1> QED
  BY <1>2, <1>3, <1>4

LEMMA CallersKeepQuiet ==
    ASSUME IInv, Covered, Settled, Callers
    PROVE  Covered' /\ Settled'
<1>1. UNCHANGED <<op, kernel, cleanup>>
  BY OthersAsk
<1>2. UNCHANGED network
  BY DEF Callers, Toggle, RetryPressed, AgentEnables, AgentDisables, Boot, Saved, SaveThrows,
         RunningKnown, PauseEnds, LoginEnds, Reopened
<1>3. PICK c \in Caller :
          /\ Heeds(c) /\ (Requests \/ gen = 0)
          /\ Unswitched \/ gen' = gen + 1 \/ (~saved' /\ savedBy' = "agent")
  BY CallersShape DEF CallersAct, Settled
<1> QED
  BY <1>1, <1>2, <1>3, CoveredCallers, HeedsKeepsSettled

LEMMA WorldKeepsQuiet ==
    ASSUME IInv, Covered, Settled, World
    PROVE  Covered' /\ Settled'
<1> USE DEF settings, native
<1>1. UNCHANGED <<op, kernel, cleanup>> /\ Unswitched
  <2>1. Unswitched
    BY DEF World, PathChanges, PathAnnounced, AccountLeaves, AccountEnters, Unswitched
  <2> QED
    BY <2>1, OthersAsk
<1>2. ASSUME UNCHANGED <<gen, queue, task>> PROVE Covered' /\ Places' /\ Off'
  BY <1>1, <1>2 DEF Covered, Waiting, Settled, Places, Fits, Off, Unswitched
<1>3. ASSUME NEW p \in 0..MaxChanges, PathChanges(p) PROVE Covered' /\ Settled'
  <2>1. /\ path' = p /\ UNCHANGED <<gen, queue, task, again, watching, switches>>
        /\ timer \/ (watching /\ Online(p)) => timer'
    BY <1>3 DEF PathChanges
  <2>2. Caught'
    <3>1. CASE Online(p) /\ watching
      BY <2>1, <3>1 DEF Settled, Caught, Prompted
    <3>2. CASE ~Online(p)
      BY <2>1, <3>2 DEF Settled, Caught, Online
    <3>3. CASE ~watching
      BY <2>1, <3>3 DEF Settled, Caught
    <3> QED
      BY <3>1, <3>2, <3>3
  <2> QED
    BY <1>2, <2>1, <2>2 DEF Settled
<1>4. CASE PathAnnounced
  <2>1. UNCHANGED <<path, watching, switches>>
    BY <1>4 DEF PathAnnounced
  <2>2. CASE "guard" \notin Caller
    <3>1. UNCHANGED <<gen, queue, task>>
      BY <1>4, <2>2 DEF PathAnnounced
    <3>2. Caught'
      BY <2>1, <2>2 DEF Settled, Caught
    <3> QED
      BY <1>2, <3>1, <3>2 DEF Settled
  <2>3. CASE "guard" \in Caller /\ task["guard"] # Idle
    <3>1. again' = TRUE /\ UNCHANGED <<gen, queue, task>>
      BY <1>4, <2>3 DEF PathAnnounced
    <3>2. Prompted'
      BY <2>3, <3>1 DEF Prompted
    <3>3. Caught'
      BY <2>1, <3>2 DEF Settled, Caught
    <3> QED
      BY <1>2, <3>1, <3>3 DEF Settled
  <2>4. CASE "guard" \in Caller /\ task["guard"] = Idle
    <3>1. Revive /\ saved' = saved
      BY <1>1, <1>4, <2>4 DEF PathAnnounced, Unswitched
    <3>2. Acts("guard")
      BY <2>4, <3>1, ReviveActs DEF IInv
    <3>3. kernel'.by \in {kernel.by, 0}
      BY <1>1
    <3>4. Covered' /\ Places' /\ Off'
      BY <1>1, <2>4, <3>2, <3>3, CoveredCallers, HeedsKeepsPlaces, HeedsKeepsOff DEF Acts, Settled
    <3>5. saved /\ AutoStart => gen' = gen + 1
      BY <3>1 DEF Revive, Retry
    <3>6. gen \in Nat /\ kernel.by \in 0..gen /\ (op # NoOp => op.gen \in 1..gen)
          /\ (op = NoOp => op.at = "free")
      BY Active DEF IInv, TypeOK, Numbers
    <3>7. Caught'
      BY <1>1, <2>1, <3>1, <3>5, <3>6 DEF Settled, Caught
    <3> QED
      BY <3>4, <3>7 DEF Settled
  <2> QED
    BY <2>2, <2>3, <2>4
<1>5. CASE AccountLeaves
  <2>1. UNCHANGED <<gen, queue, task>> /\ switches' # 0
    BY <1>5 DEF AccountLeaves, IInv, TypeOK
  <2> QED
    BY <1>2, <2>1 DEF Settled, Caught
<1>6. CASE AccountEnters
  <2>1. UNCHANGED <<gen, queue, task, again, path, timer, switches>> /\ watching'
    BY <1>6 DEF AccountEnters
  <2>2. Caught'
    BY <1>1, <2>1 DEF Settled, Caught, Prompted, Unswitched
  <2> QED
    BY <1>2, <2>1, <2>2 DEF Settled
<1> QED
  BY <1>3, <1>4, <1>5, <1>6 DEF World

LEMMA InitQuiet == Init => Covered /\ Settled
<1> SUFFICES ASSUME Init PROVE Covered /\ Settled
  OBVIOUS
<1>1. Covered
  BY DEF Init, Covered, NoOp, Down
<1>2. \A c \in Caller : task[c] = Idle
  BY DEF Init
<1>3. Places /\ Off
  BY <1>2 DEF Init, Places, Fits, Off, Down, Numbered, Idle
<1>4. Caught
  BY DEF Init, Caught, Down, NoOp
<1> QED
  BY <1>1, <1>3, <1>4 DEF Settled

LEMMA StepQuiet == IInv /\ Covered /\ Settled /\ [Next]_vars => (Covered /\ Settled)'
<1> SUFFICES ASSUME IInv, Covered, Settled, [Next]_vars PROVE (Covered /\ Settled)'
  OBVIOUS
<1>1. CASE Core
  BY <1>1, CoveredCore, SettledCore
<1>2. CASE Callers
  BY <1>2, CallersKeepQuiet
<1>3. CASE World
  BY <1>3, WorldKeepsQuiet
<1>4. CASE UNCHANGED vars
  <2>1. Covered'
    BY <1>4 DEF vars, native, Covered, Waiting
  <2>2. Places' /\ Off' /\ Caught'
    BY <1>4 DEF vars, native, settings, network, Settled, Places, Fits, Off, Caught, Prompted
  <2> QED
    BY <2>1, <2>2 DEF Settled
<1> QED
  BY <1>1, <1>2, <1>3, <1>4 DEF Next

\* An older core has its end before it, no start is under way for the newest request
\* while the tunnel is switched off, and a core on a path that is left has a pass of the
\* guard before it (openFluxController.ts, openFluxNetworkGuard.ts).
THEOREM QuietInvariance == Spec => [](Covered /\ Settled)
  BY InitQuiet, StepQuiet, ControllerInvariance, PTL DEF Spec

\* Once nothing is under way, a tunnel that runs was raised for the newest request.
THEOREM NewestHasItsWay == Spec => []NewestRuns
<1>1. Covered => NewestRuns
  BY DEF Covered, NewestRuns, Quiet, Waiting, NoOp
<1> QED
  BY <1>1, QuietInvariance, PTL

\* With openflux.autoStart, a tunnel that a person has switched off is down once nothing
\* is under way, whoever raced with the switch: the agent, the guard of the network, the
\* start of the application, an earlier raise.
THEOREM OffIsOff == ASSUME AutoStart PROVE Spec => []OffStays
<1>1. Covered /\ Settled => OffStays
  BY DEF Covered, Settled, Off, OffStays, Quiet, Waiting, NoOp
<1> QED
  BY <1>1, QuietInvariance, PTL

\* A tunnel that runs once nothing is under way was raised on the network the device is
\* on, when the guard is there and nobody has left the account.
THEOREM PathIsFresh == ASSUME "guard" \in Caller PROVE Spec => []FreshPath
<1>1. ASSUME Covered, Settled PROVE FreshPath
  <2> SUFFICES ASSUME Quiet, saved, AutoStart, switches = 0, Online(path), ~cleanup,
                      kernel # Down
               PROVE  kernel.path = path
    BY DEF FreshPath
  <2>1. kernel.by = gen /\ kernel.by # 0
    BY <1>1 DEF Covered, Quiet, Waiting, NoOp
  <2>2. task["guard"] = Idle
    BY <1>1 DEF Settled, Places, Fits, Quiet
  <2>3. ~Prompted
    BY <2>2 DEF Prompted, Quiet
  <2> QED
    BY <1>1, <2>1, <2>3 DEF Settled, Caught
<1> QED
  BY <1>1, QuietInvariance, PTL
=============================================================================
