------------------------------- MODULE DbLease -------------------------------
(***************************************************************************)
(* One database connection for all tabs of a browser: storage/dbLease.ts,  *)
(* dbLeaseProtocol.ts and sqlGate.ts, under the transactions of local.ts.  *)
(*                                                                         *)
(* The tab that is granted a Web Lock opens the database and executes the  *)
(* statements of all tabs; the others post theirs on a BroadcastChannel.   *)
(* The gate of the holding tab keeps statements of other tabs out of an    *)
(* open transaction.  A tab does one job at a time: a single write, or a   *)
(* transaction of two writes (beginImmediate queues those of one tab).     *)
(*                                                                         *)
(* A post reaches the tab that owns the lock at once or nobody.  Statements*)
(* fail only for the state of the connection.  A holder that dies loses    *)
(* the statement it was executing.  A closed lease is not opened again.    *)
(***************************************************************************)
EXTENDS Integers, Sequences, FiniteSets

CONSTANTS
    Tab,            \* browser tabs with the application open
    NoTab,          \* no tab
    Faults,         \* which of FaultKind happen
    MaxJobs,        \* bound: jobs per tab
    MaxYields       \* bound: times the connection moves to a visible tab

\* A statement posted while the new holder still opens the database; a visible
\* tab asks the hidden holder for the connection; the last user of a lease
\* closes it, and does so in the middle of a job, or of the lease's opening or
\* stepping down; a tab goes away; timers fire though the one they wait for is at work.
FaultKind == {"early", "hide", "close", "hasty", "kill", "slow"}

ASSUME LeaseAssumption ==
    /\ NoTab \notin Tab
    /\ Faults \subseteq FaultKind
    /\ MaxJobs \in Nat /\ MaxYields \in Nat

VARIABLES
    role,           \* what the tab is to the connection
    lock,           \* the tab that owns the Web Lock
    file,           \* the tab whose connection is open (OPFS allows one)
    txn,            \* the tab whose BEGIN opened the connection's transaction
    pend,           \* writes inside that transaction
    disk,           \* writes that are committed
    gate,           \* SqlGate.holder, of each tab's gate
    queue,          \* statements given to a tab's gate, by the tab they are of
    job,            \* number of the tab's job
    step,           \* the statement the job is at
    call,           \* where perform() is with it
    attempt,        \* its first or second attempt
    made,           \* how often a write was executed
    yields,         \* moves to a visible tab so far
    ack             \* writes the application was told are done

connection == <<lock, file, txn, pend, disk>>
work == <<job, step, call, attempt, ack>>
vars == <<role, connection, gate, queue, work, made, yields>>

\* queued: in the queue for the lock; opening: openReal under way; abandoned:
\* closed meanwhile; leaving: stepDown under way; closing: the lease is being
\* closed; orphan: could not open, and queues no more.
Role == {"queued", "opening", "abandoned", "holder", "leaving", "closing",
         "closed", "orphan", "gone"}
Step == {"rest", "single", "begin", "first", "second", "commit", "rollback"}
Writes == {"single", "first", "second"}
Write == Tab \X (1..MaxJobs) \X Writes
Request == [job: 1..MaxJobs, step: Step, attempt: {1, 2}]

TypeOK ==
    /\ role \in [Tab -> Role]
    /\ lock \in Tab \cup {NoTab} /\ file \in Tab \cup {NoTab}
    /\ txn \in Tab \cup {NoTab}
    /\ pend \subseteq Write /\ disk \subseteq Write /\ ack \subseteq Write
    /\ gate \in [Tab -> Tab \cup {NoTab}]
    /\ queue \in [Tab -> [Tab -> Seq(Request)]]
    /\ job \in [Tab -> 0..MaxJobs]
    /\ step \in [Tab -> Step]
    /\ call \in [Tab -> {"none", "ask", "wait", "local", "bad"}]
    /\ attempt \in [Tab -> {1, 2}]
    /\ made \in [Write -> Nat]
    /\ yields \in 0..MaxYields

Init ==
    /\ role = [t \in Tab |-> "queued"]
    /\ lock = NoTab /\ file = NoTab /\ txn = NoTab
    /\ pend = {} /\ disk = {} /\ ack = {}
    /\ gate = [t \in Tab |-> NoTab]
    /\ queue = [u \in Tab |-> [t \in Tab |-> <<>>]]
    /\ job = [t \in Tab |-> 0]
    /\ step = [t \in Tab |-> "rest"]
    /\ call = [t \in Tab |-> "none"]
    /\ attempt = [t \in Tab |-> 1]
    /\ made = [w \in Write |-> 0]
    /\ yields = 0

-----------------------------------------------------------------------------
(* The connection goes from tab to tab.                                    *)

\* `owning`: answers requests, also while the database is being opened.
Owning(u) == role[u] \in {"opening", "holder"}

\* The connection is gone, and with it what was not committed.
Disconnected == file' = NoTab /\ txn' = NoTab /\ pend' = {}

\* The browser grants the lock to a tab in the queue.
GrantLock(u) ==
    /\ lock = NoTab
    /\ role[u] = "queued"
    /\ lock' = u
    /\ role' = [role EXCEPT ![u] = "opening"]
    /\ UNCHANGED <<file, txn, pend, disk, gate, queue, work, made, yields>>

\* Broken on purpose: a second refusal is tried again like the first.
AbortedAgain(ts) ==
    /\ call' = [t \in Tab |-> IF t \in ts /\ call[t] = "wait" THEN "ask" ELSE call[t]]
    /\ attempt' = [t \in Tab |-> IF t \in ts /\ call[t] = "wait" THEN attempt[t] + 1 ELSE attempt[t]]

\* abortAll: every call waiting for an answer is tried again, once.
Aborted(ts) ==
    /\ call' = [t \in Tab |->
          IF t \in ts /\ call[t] = "wait"
          THEN IF attempt[t] = 1 THEN "ask" ELSE "bad"
          ELSE call[t]]
    /\ attempt' = [t \in Tab |-> IF t \in ts /\ call[t] = "wait" THEN 2 ELSE attempt[t]]

\* becomeOwner: the database is open, and everybody hears of the new holder.
Opened(u) ==
    /\ role[u] = "opening"
    /\ file = NoTab
    /\ file' = u
    /\ role' = [role EXCEPT ![u] = "holder"]
    /\ Aborted(Tab)
    /\ UNCHANGED <<lock, txn, pend, disk, gate, queue, job, step, ack, made, yields>>

\* Somebody else still has the file: openReal throws. The tab gives the lock
\* back and is in no queue any more; who asked it meanwhile gets no answer.
OpenFails(u) ==
    /\ role[u] = "opening"
    /\ file # NoTab
    /\ lock' = NoTab
    /\ role' = [role EXCEPT ![u] = "orphan"]
    /\ queue' = [queue EXCEPT ![u] = [t \in Tab |-> <<>>]]
    /\ UNCHANGED <<file, txn, pend, disk, gate, work, made, yields>>

\* The lease was closed while it was opening: the lock goes back, and the
\* connection that has just been opened is closed by nobody.
AbandonedOpens(u) ==
    /\ role[u] = "abandoned"
    /\ file' = IF file = NoTab THEN u ELSE file
    /\ lock' = NoTab
    /\ role' = [role EXCEPT ![u] = "closed"]
    /\ UNCHANGED <<txn, pend, disk, gate, queue, work, made, yields>>

\* stepDown: another tab, a visible one, asks for the connection (`yield`).
StepDown(u) ==
    /\ "hide" \in Faults
    /\ role[u] = "holder"
    /\ \E t \in Tab \ {u} : role[t] \in {"queued", "orphan"}
    /\ role' = [role EXCEPT ![u] = "leaving"]
    /\ yields < MaxYields
    /\ yields' = yields + 1
    /\ UNCHANGED <<connection, gate, queue, work, made>>

\* The empty statement that stepDown puts behind everything has had its turn:
\* nothing waits, or only others wait, for a transaction of the tab itself.
Drained(u) ==
    \/ gate[u] = NoTab /\ \A t \in Tab : queue[u][t] = <<>>
    \/ gate[u] = u /\ queue[u][u] = <<>>

\* closeAsync. What still waits at the gate finds no connection: statements
\* of the tab itself fail, those of others are left to their own clocks.
CloseFile(u) ==
    /\ role[u] \in {"leaving", "closing"}
    /\ file = u
    /\ role[u] = "leaving" => Drained(u)
    /\ Disconnected
    /\ queue' = [queue EXCEPT ![u] = [t \in Tab |-> <<>>]]
    /\ call' = [call EXCEPT ![u] = IF @ = "local" THEN "bad" ELSE @]
    /\ UNCHANGED <<role, lock, disk, gate, job, step, attempt, ack, made, yields>>

\* Broken on purpose: the lock is released before the file is closed.
ReleaseEarly(u) ==
    /\ role[u] \in {"leaving", "closing"}
    /\ lock' = IF lock = u THEN NoTab ELSE lock
    /\ role' = [role EXCEPT ![u] = IF @ = "leaving" THEN "queued" ELSE "closed"]
    /\ UNCHANGED <<file, txn, pend, disk, gate, queue, work, made, yields>>

\* The lock follows the file; a tab that stepped down queues for it again.
Release(u) ==
    /\ role[u] \in {"leaving", "closing"}
    /\ file # u
    /\ lock' = IF lock = u THEN NoTab ELSE lock
    /\ role' = [role EXCEPT ![u] = IF @ = "leaving" THEN "queued" ELSE "closed"]
    /\ UNCHANGED <<file, txn, pend, disk, gate, queue, work, made, yields>>

\* The last user of the tab's lease closes it: calls under way are aborted and
\* have no caller to try again with. Closed in the middle of opening, there is
\* nothing yet to close; in the middle of stepping down, the lock is released
\* under the connection.
Close(u) ==
    /\ "close" \in Faults
    /\ step[u] = "rest" \/ "hasty" \in Faults
    /\ \/ role[u] \in {"queued", "orphan"} /\ role' = [role EXCEPT ![u] = "closed"]
                                           /\ UNCHANGED lock
       \/ role[u] = "holder" /\ role' = [role EXCEPT ![u] = "closing"] /\ UNCHANGED lock
       \/ /\ "hasty" \in Faults
          /\ role[u] = "opening" /\ role' = [role EXCEPT ![u] = "abandoned"]
          /\ UNCHANGED lock
       \/ /\ "hasty" \in Faults
          /\ role[u] = "leaving" /\ role' = [role EXCEPT ![u] = "closing"]
          /\ lock' = NoTab
    /\ call' = [call EXCEPT ![u] = IF @ = "wait" THEN "bad" ELSE @]
    /\ UNCHANGED <<file, txn, pend, disk, gate, queue, job, step, attempt, ack, made, yields>>

\* A tab goes away, with a farewell (`bye`) or without. The browser takes its
\* lock and its file; its statements at another gate are still executed.
Die(t, bye) ==
    /\ "kill" \in Faults
    /\ role[t] # "gone"
    /\ role' = [role EXCEPT ![t] = "gone"]
    /\ lock' = IF lock = t THEN NoTab ELSE lock
    /\ IF file = t THEN Disconnected ELSE UNCHANGED <<file, txn, pend>>
    /\ gate' = [u \in Tab |->
          IF bye /\ u # t /\ Owning(u) /\ gate[u] = t THEN NoTab ELSE gate[u]]
    /\ queue' = [queue EXCEPT ![t] = [s \in Tab |-> <<>>]]
    /\ step' = [step EXCEPT ![t] = "rest"]
    /\ call' = [call EXCEPT ![t] = "none"]
    /\ UNCHANGED <<disk, job, attempt, ack, made, yields>>

-----------------------------------------------------------------------------
(* Jobs and their statements.                                              *)

StartJob(t, first) ==
    /\ step[t] = "rest"
    /\ role[t] \in {"queued", "opening", "holder", "leaving", "orphan"}
    /\ job[t] < MaxJobs
    /\ job' = [job EXCEPT ![t] = @ + 1]
    /\ step' = [step EXCEPT ![t] = first]
    /\ call' = [call EXCEPT ![t] = "ask"]
    /\ attempt' = [attempt EXCEPT ![t] = 1]
    /\ UNCHANGED <<role, connection, gate, queue, ack, made, yields>>

\* What a job does after a statement. BEGIN stands before the try; the task
\* may throw; whatever fails later is rolled back, and that may fail too.
Following(s, ok) ==
    CASE s = "single" -> {"rest"}
      [] s = "begin" -> {IF ok THEN "first" ELSE "rest"}
      [] s = "first" -> (IF ok THEN {"second"} ELSE {}) \cup {"rollback"}
      [] s = "second" -> {IF ok THEN "commit" ELSE "rollback"}
      [] s = "commit" -> {IF ok THEN "rest" ELSE "rollback"}
      [] s = "rollback" -> {"rest"}

Told(t, ok) ==
    CASE ok /\ step[t] = "single" -> {<<t, job[t], "single">>}
      [] ok /\ step[t] = "commit" -> {<<t, job[t], "first">>, <<t, job[t], "second">>}
      [] OTHER -> {}

Advance(t, ok) ==
    /\ \E s \in Following(step[t], ok) :
          /\ step' = [step EXCEPT ![t] = s]
          /\ call' = [call EXCEPT ![t] = IF s = "rest" THEN "none" ELSE "ask"]
    /\ attempt' = [attempt EXCEPT ![t] = 1]
    /\ ack' = ack \cup Told(t, ok)
    /\ UNCHANGED job

This(t) == [job |-> job[t], step |-> step[t], attempt |-> attempt[t]]

\* A connection of the tab's own, be it one that a closed lease left behind.
HasLocal(t) == role[t] = "holder" \/ (role[t] = "closed" /\ file = t)

\* perform, to its own gate.
AskLocally(t) ==
    /\ call[t] = "ask"
    /\ HasLocal(t)
    /\ queue' = [queue EXCEPT ![t][t] = Append(@, This(t))]
    /\ call' = [call EXCEPT ![t] = "local"]
    /\ UNCHANGED <<role, connection, gate, job, step, attempt, ack, made, yields>>

\* perform, through LeaseCaller.call: into the queue of the owning tab, or
\* nowhere. A tab whose own role is settling waits.
AskRemotely(t) ==
    /\ call[t] = "ask"
    /\ role[t] \in {"queued", "leaving", "orphan"}
    /\ \/ \E u \in Tab \ {t} :
             /\ Owning(u)
             /\ role[u] = "opening" => "early" \in Faults
             /\ queue' = [queue EXCEPT ![u][t] = Append(@, This(t))]
       \/ (\A u \in Tab : ~Owning(u)) /\ UNCHANGED queue
    /\ call' = [call EXCEPT ![t] = "wait"]
    /\ UNCHANGED <<role, connection, gate, job, step, attempt, ack, made, yields>>

\* perform, with the lease closed: db_lease_no_owner.
AskNobody(t) ==
    /\ call[t] = "ask"
    /\ role[t] \in {"closing", "closed"} /\ ~HasLocal(t)
    /\ Advance(t, FALSE)
    /\ UNCHANGED <<role, connection, gate, queue, made, yields>>

\* The second attempt has failed as well, or there was none.
GiveUp(t) ==
    /\ call[t] = "bad"
    /\ Advance(t, FALSE)
    /\ UNCHANGED <<role, connection, gate, queue, made, yields>>

\* The connection is on its way to another tab, which will announce itself.
Settling ==
    \/ \E u \in Tab : role[u] \in {"opening", "abandoned", "leaving", "closing"}
    \/ lock = NoTab /\ \E u \in Tab : role[u] = "queued"

\* Broken on purpose: the deadline is shorter than the work.
Impatient(t) == TRUE

\* No answer is going to come: the request is with nobody who could give one.
Unanswerable(t) ==
    /\ ~Settling
    /\ \A u \in Tab : \/ role[u] = "closed"
                      \/ \A i \in 1..Len(queue[u][t]) : queue[u][t][i] # This(t)

\* LEASE_REQUEST_TIMEOUT_MS have passed.
Timeout(t) ==
    /\ call[t] = "wait"
    /\ "slow" \in Faults \/ Unanswerable(t)
    /\ Aborted({t})
    /\ UNCHANGED <<role, connection, gate, queue, job, step, ack, made, yields>>

\* SQLite's answer, for the connection as it is.
Works(u, s) ==
    /\ file = u
    /\ s = "begin" => txn = NoTab
    /\ s \in {"commit", "rollback"} => txn # NoTab

\* Broken on purpose: statements pass a transaction that is not theirs.
GateAdmitsAll(u, t) == TRUE

\* SqlGate.submit: the gate is open, or the transaction is one's own.
GateAdmits(u, t) == gate[u] \in {NoTab, t}

\* Broken on purpose: BEGIN does not take the gate.
NotTaken(u, t, s, ok) == IF s \in Writes \cup {"begin"} THEN gate[u] ELSE NoTab

\* The gate's holder once a statement of t has been executed.
Holder(u, t, s, ok) ==
    CASE s \in Writes -> gate[u]
      [] s = "begin" /\ ok -> t
      [] OTHER -> IF gate[u] = t THEN NoTab ELSE gate[u]

\* A statement of t has its turn at the gate of u; the answer is taken by the
\* call that is waiting for it, if there is one.
Execute(u, t) ==
    /\ queue[u][t] # <<>>
    /\ role[u] \notin {"opening", "abandoned", "gone"}
    /\ GateAdmits(u, t)
    /\ LET r == Head(queue[u][t])
           s == r.step
           w == <<t, r.job, s>>
           ok == Works(u, s)
       IN  /\ txn' = IF ~ok THEN txn
                     ELSE CASE s = "begin" -> t
                            [] s \in {"commit", "rollback"} -> NoTab
                            [] OTHER -> txn
           /\ pend' = IF ~ok THEN pend
                      ELSE CASE s \in {"commit", "rollback"} -> {}
                             [] s \in Writes /\ txn # NoTab -> pend \cup {w}
                             [] OTHER -> pend
           /\ disk' = IF ~ok THEN disk
                      ELSE CASE s = "commit" -> disk \cup pend
                             [] s \in Writes /\ txn = NoTab -> disk \cup {w}
                             [] OTHER -> disk
           /\ made' = IF ok /\ s \in Writes THEN [made EXCEPT ![w] = @ + 1] ELSE made
           /\ gate' = [gate EXCEPT ![u] = Holder(u, t, s, ok)]
           /\ queue' = [queue EXCEPT ![u][t] = Tail(@)]
           /\ IF /\ call[t] \in {"wait", "local"}
                 /\ r = This(t)
                 /\ t = u \/ role[u] # "closed"
              THEN Advance(t, ok)
              ELSE UNCHANGED work
    /\ UNCHANGED <<role, lock, file, yields>>

\* The one who holds the gate is not going to use it: its transaction is over
\* or lost, it is gone, or the holding tab does not take its statements.
Idle(u) ==
    LET t == gate[u]
    IN  /\ role[u] # "closing"
        /\ queue[u][t] = <<>>
        /\ \/ role[u] = "leaving" /\ t # u
           \/ file # u \/ txn # t \/ step[t] = "rest"

\* Broken on purpose: the gate is only taken from a tab that still lives.
AbandonLiving(u) ==
    /\ gate[u] # NoTab
    /\ role[u] # "gone" /\ role[gate[u]] # "gone"
    /\ "slow" \in Faults \/ Idle(u)
    /\ gate' = [gate EXCEPT ![u] = NoTab]
    /\ UNCHANGED <<role, connection, queue, work, made, yields>>

\* TXN_ABANDON_MS have passed since BEGIN: the gate opens. Nothing is said to
\* the connection.
AbandonTransaction(u) ==
    /\ gate[u] # NoTab
    /\ role[u] # "gone"
    /\ "slow" \in Faults \/ Idle(u)
    /\ gate' = [gate EXCEPT ![u] = NoTab]
    /\ UNCHANGED <<role, connection, queue, work, made, yields>>

-----------------------------------------------------------------------------
Handover(u) ==
    \/ GrantLock(u) \/ Opened(u) \/ OpenFails(u) \/ AbandonedOpens(u)
    \/ CloseFile(u) \/ Release(u)

Statement(t) ==
    \/ AskLocally(t) \/ AskRemotely(t) \/ AskNobody(t) \/ GiveUp(t) \/ Timeout(t)

Next ==
    \E u \in Tab :
        \/ Handover(u) \/ StepDown(u) \/ Close(u)
        \/ \E bye \in BOOLEAN : Die(u, bye)
        \/ \E first \in {"single", "begin"} : StartJob(u, first)
        \/ Statement(u)
        \/ \E t \in Tab : Execute(u, t)
        \/ AbandonTransaction(u)

Spec == Init /\ [][Next]_vars

\* The browser passes the lock on, timers fire, and a promise that settles is
\* taken up before the tab's role can change again and again.
FairSpec ==
    /\ Spec
    /\ WF_vars(\E u \in Tab : Handover(u))
    /\ WF_vars(\E u \in Tab : AbandonTransaction(u))
    /\ \A t \in Tab : SF_vars(Statement(t) \/ \E u \in Tab : Execute(u, t))

-----------------------------------------------------------------------------
(* Properties.                                                             *)

\* The tab that is granted the lock finds the file free, through every order
\* of stepping down, closing and dying - but for a lease closed while it was
\* opening or stepping down, which may leave its connection behind (the order
\* of closeAsync and releaseLock in stepDown and in share's close).
OnlyHastyCloseBlocksFile ==
    file # NoTab /\ lock # file => role[file] \in {"closed", "closing"}

\* No statement waits for ever: for an answer of a holder that has gone, for
\* the transaction of a tab that has gone, for a connection changing hands.
NobodyWaitsForever == \A t \in Tab : []<>(step[t] = "rest")

\* What the application was told is written or committed is never taken away
\* again, by a rollback of another tab or by the connection changing hands
\* (the purpose of SqlGate).
AcknowledgedWritesStay == ack \subseteq disk \cup pend

\* Only the tab that opened a transaction writes inside it, and its gate is
\* closed for the others as long as the transaction is open (SqlGate.submit).
TransactionsDoNotMix ==
    /\ \A w \in pend : w[1] = txn
    /\ txn # NoTab => gate[file] = txn

\* A statement is executed once, by one holder, also when the answer is lost
\* to a change of holders: requests pending then "went nowhere" (dbLease.ts).
ExecutedOnce == \A w \in Write : made[w] <= 1
=============================================================================
