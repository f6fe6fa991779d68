---------------------------- MODULE DbLeaseProofs ----------------------------
(***************************************************************************)
(* Theorems about DbLease, for any set of tabs and any number of jobs: who *)
(* may have the database file open, that no statement is executed twice,   *)
(* and that no transaction is disturbed, with the conditions under which   *)
(* the code guarantees it.                                                 *)
(***************************************************************************)
EXTENDS MCDbLease, SequenceTheorems, TLAPS

\* Roles that have the lock, and roles that may have the file.
LockRole == {"opening", "abandoned", "holder", "leaving"}
FileRole == {"holder", "leaving", "closing", "closed"}

\* Who has the lock and who has the file, by role. A tab that is closing may
\* have lost the lock already; a closed one has at most a file left behind.
Custody ==
    /\ role \in [Tab -> Role]
    /\ lock \in Tab \cup {NoTab}
    /\ file \in Tab \cup {NoTab}
    /\ \A u \in Tab : role[u] \in LockRole => lock = u
    /\ lock # NoTab => role[lock] \in LockRole \cup {"closing"}
    /\ \A u \in Tab : role[u] = "holder" => file = u
    /\ file # NoTab => role[file] \in FileRole

\* What neither the roles nor the two resources hear of keeps custody: jobs,
\* statements, the gate and its timer.
LEMMA CustodyUntouched == Custody /\ UNCHANGED <<role, lock, file>> => Custody'
BY DEF Custody

\* The steps by which the connection is passed on keep custody.
LEMMA HandoverCustody ==
    ASSUME Custody, NEW u \in Tab, Handover(u)
    PROVE  Custody'
<1> USE LeaseAssumption DEF Custody, Role, LockRole, FileRole
<1>1. CASE GrantLock(u)
  BY <1>1 DEF GrantLock
<1>2. CASE Opened(u)
  BY <1>2 DEF Opened
<1>3. CASE OpenFails(u)
  BY <1>3 DEF OpenFails
<1>4. CASE AbandonedOpens(u)
  BY <1>4 DEF AbandonedOpens
<1>5. CASE CloseFile(u)
  BY <1>5 DEF CloseFile, Disconnected
<1>6. CASE Release(u)
  BY <1>6 DEF Release
<1> QED BY <1>1, <1>2, <1>3, <1>4, <1>5, <1>6, Handover(u) DEF Handover

\* Stepping down, closing a lease and the death of a tab keep custody.
LEMMA DepartureCustody ==
    ASSUME Custody, NEW u \in Tab,
           StepDown(u) \/ Close(u) \/ \E bye \in BOOLEAN : Die(u, bye)
    PROVE  Custody'
<1> USE LeaseAssumption DEF Custody, Role, LockRole, FileRole
<1>1. CASE StepDown(u)
  BY <1>1 DEF StepDown, connection
<1>2. CASE Close(u)
  BY <1>2 DEF Close
<1>3. CASE \E bye \in BOOLEAN : Die(u, bye)
  BY <1>3 DEF Die, Disconnected
<1> QED BY <1>1, <1>2, <1>3

\* Every step keeps custody.
LEMMA CustodyStep == Custody /\ [Next]_vars => Custody'
<1> SUFFICES ASSUME Custody, [Next]_vars
             PROVE  Custody'
  OBVIOUS
<1>1. CASE UNCHANGED vars
  BY <1>1, CustodyUntouched DEF vars, connection
<1>2. CASE Next
  <2>1. PICK u \in Tab :
           \/ Handover(u) \/ StepDown(u) \/ Close(u)
           \/ \E bye \in BOOLEAN : Die(u, bye)
           \/ \E first \in {"single", "begin"} : StartJob(u, first)
           \/ Statement(u)
           \/ \E t \in Tab : Execute(u, t)
           \/ AbandonTransaction(u)
    BY <1>2 DEF Next
  <2>2. CASE Handover(u)
    BY <2>2, HandoverCustody
  <2>3. CASE StepDown(u) \/ Close(u) \/ \E bye \in BOOLEAN : Die(u, bye)
    BY <2>3, DepartureCustody
  <2>4. CASE \E first \in {"single", "begin"} : StartJob(u, first)
    BY <2>4, CustodyUntouched DEF StartJob, connection
  <2>5. CASE Statement(u)
    BY <2>5, CustodyUntouched DEF Statement, AskLocally, AskRemotely, AskNobody,
       GiveUp, Timeout, connection
  <2>6. CASE \E t \in Tab : Execute(u, t)
    BY <2>6, CustodyUntouched DEF Execute
  <2>7. CASE AbandonTransaction(u)
    BY <2>7, CustodyUntouched DEF AbandonTransaction, connection
  <2> QED BY <2>1, <2>2, <2>3, <2>4, <2>5, <2>6, <2>7
<1> QED BY <1>1, <1>2 DEF vars

\* Custody holds all the time: of the lock and of the file, whatever tabs do.
THEOREM CustodyHolds == Spec => []Custody
<1>1. Init => Custody
  BY LeaseAssumption DEF Init, Custody, Role, LockRole, FileRole
<1> QED BY <1>1, CustodyStep, PTL DEF Spec

\* A tab that is granted the lock finds the file free, unless a lease was
\* closed while it was opening or stepping down.
THEOREM FileIsFree == Spec => []OnlyHastyCloseBlocksFile
<1>1. Custody => OnlyHastyCloseBlocksFile
  BY LeaseAssumption DEF Custody, OnlyHastyCloseBlocksFile, Role, LockRole, FileRole
<1> QED BY <1>1, CustodyHolds, PTL

-----------------------------------------------------------------------------
(* Statements: none is executed twice.                                     *)

\* The order in which a job comes to its statements; rest is behind them all.
Rank == [s \in Step |-> CASE s \in {"single", "begin"} -> 1 [] s = "first" -> 2
                          [] s = "second" -> 3 [] s = "commit" -> 4
                          [] s = "rollback" -> 5 [] OTHER -> 6]

\* The tab is past step s of job j.
Past(t, j, s) == j < job[t] \/ (j = job[t] /\ Rank[s] < Rank[step[t]])

\* A call is under way exactly in a job.
CallsInJobs ==
    \A t \in Tab : /\ step[t] = "rest" <=> call[t] = "none"
                   /\ step[t] # "rest" => job[t] >= 1

\* Statements wait only where the file is; a tab's own statement with itself
\* is the one it is at; a connection that was left behind is its tab's alone.
AtFile ==
    \A u, t \in Tab : queue[u][t] # <<>> =>
        /\ file = u
        /\ role[u] = "closed" => t = u
        /\ t = u => call[t] = "local" /\ queue[t][t] = <<This(t)>>

\* What waits is what the tab is past, or what it is at and not about to ask.
Waiting ==
    \A u, t \in Tab : \A i \in 1..Len(queue[u][t]) :
        LET r == queue[u][t][i]
        IN  \/ Past(t, r.job, r.step)
            \/ /\ r.job = job[t] /\ r.step = step[t] /\ call[t] # "ask"
               /\ call[t] \in {"wait", "local"} => r = This(t)

\* Statements wait in the order of the job, each once.
InTurn ==
    \A u, t \in Tab : \A i, k \in 1..Len(queue[u][t]) :
        LET r == queue[u][t][i]
            q == queue[u][t][k]
        IN  i < k => r.job < q.job \/ (r.job = q.job /\ Rank[r.step] < Rank[q.step])

\* The tab will not ask for the statement again, and it waits nowhere.
Over(t, j, s) ==
    Past(t, j, s) \/ (j = job[t] /\ s = step[t] /\ call[t] = "bad")
Absent(t, j, s) ==
    \A u \in Tab : \A i \in 1..Len(queue[u][t]) :
        queue[u][t][i].job # j \/ queue[u][t][i].step # s

\* What was executed is over and done.
Executed ==
    \A t \in Tab, j \in 1..MaxJobs, s \in Writes :
        /\ made[<<t, j, s>>] <= 1
        /\ made[<<t, j, s>>] # 0 => Over(t, j, s) /\ Absent(t, j, s)

Orderly == AtFile /\ Waiting /\ InTurn /\ Executed

-----------------------------------------------------------------------------
(* Transactions: none is disturbed.                                        *)

\* Nothing went away from under a job.
NothingLeft ==
    /\ \A u \in Tab : role[u] \notin {"leaving", "gone", "abandoned"}
    /\ \A u \in Tab : role[u] \in {"closing", "closed"} => step[u] = "rest"
    /\ file # NoTab => role[file] # "closed"

\* Every statement that waits has a caller, and the calls at a holder wait there.
Answerable ==
    /\ \A u, t \in Tab : \A i \in 1..Len(queue[u][t]) :
          queue[u][t][i] = This(t) /\ call[t] \in {"wait", "local"}
    /\ \A t \in Tab : file # NoTab /\ call[t] = "wait" /\ role[file] = "holder" =>
          queue[file][t] # <<>>

\* The transaction is that of a job which is at one of its statements, and
\* holds what the job has written so far.
Transacting ==
    /\ txn # NoTab =>
          /\ file # NoTab /\ gate[file] = txn
          /\ step[txn] \in {"first", "second", "commit", "rollback"}
          /\ call[txn] # "bad"
          /\ step[txn] \in {"second", "commit"} => <<txn, job[txn], "first">> \in pend
          /\ step[txn] = "commit" => <<txn, job[txn], "second">> \in pend
    /\ \A w \in pend : w[1] = txn
    /\ ack \subseteq disk

Undisturbed == NothingLeft /\ Answerable /\ Transacting

\* Without a connection there is no transaction.
NothingOpen == file = NoTab => txn = NoTab /\ pend = {}

IInv ==
    /\ TypeOK /\ Custody /\ CallsInJobs
    /\ NothingOpen
    /\ ~hurried => Orderly
    /\ Calm => Undisturbed

-----------------------------------------------------------------------------
(* Types.                                                                  *)

\* What a statement of the tab looks like when it waits.
LEMMA ThisTyped ==
    ASSUME TypeOK, CallsInJobs, NEW t \in Tab, step[t] # "rest"
    PROVE This(t) \in Request
BY DEF TypeOK, CallsInJobs, This, Request

\* A job goes on to a later statement, or comes to rest.
LEMMA AdvanceMoves ==
    ASSUME TypeOK, CallsInJobs, NEW t \in Tab, NEW ok \in BOOLEAN,
           step[t] # "rest", Advance(t, ok)
    PROVE /\ \E s \in Step :
                /\ step' = [step EXCEPT ![t] = s]
                /\ call' = [call EXCEPT ![t] = IF s = "rest" THEN "none" ELSE "ask"]
                /\ Rank[s] > Rank[step[t]]
                /\ s \in Following(step[t], ok)
          /\ job' = job /\ attempt' = [attempt EXCEPT ![t] = 1]
          /\ ack' = ack \cup Told(t, ok) /\ Told(t, ok) \subseteq Write
<1>1. Told(t, ok) \subseteq Write
  <2>1. t \in Tab /\ job[t] \in 1..MaxJobs
    BY LeaseAssumption DEF TypeOK, CallsInJobs
  <2>2. \A s \in Writes : <<t, job[t], s>> \in Write
    BY <2>1 DEF Write
  <2> QED BY <2>2 DEF Told, Writes
<1>2. PICK s \in Following(step[t], ok) :
        /\ step' = [step EXCEPT ![t] = s]
        /\ call' = [call EXCEPT ![t] = IF s = "rest" THEN "none" ELSE "ask"]
  BY DEF Advance
<1>3. step[t] \in Step /\ step[t] # "rest"
  BY DEF TypeOK
<1>4. s \in Step /\ Rank[s] > Rank[step[t]]
  BY <1>3 DEF Following, Step, Rank
<1> QED BY <1>1, <1>2, <1>4 DEF Advance

\* A job that goes on keeps the types, and its call.
LEMMA AdvanceTypes ==
    ASSUME TypeOK, CallsInJobs, NEW t \in Tab, NEW ok \in BOOLEAN,
           step[t] # "rest", Advance(t, ok)
    PROVE /\ job' \in [Tab -> 0..MaxJobs] /\ step' \in [Tab -> Step]
          /\ call' \in [Tab -> {"none", "ask", "wait", "local", "bad"}]
          /\ attempt' \in [Tab -> {1, 2}] /\ ack' \subseteq Write
          /\ CallsInJobs'
<1>1. PICK s \in Step :
        /\ step' = [step EXCEPT ![t] = s]
        /\ call' = [call EXCEPT ![t] = IF s = "rest" THEN "none" ELSE "ask"]
  BY AdvanceMoves
<1>2. /\ job' = job /\ attempt' = [attempt EXCEPT ![t] = 1]
      /\ ack' \subseteq Write
  BY AdvanceMoves DEF TypeOK
<1>3. CallsInJobs'
  BY <1>1, <1>2 DEF CallsInJobs, TypeOK
<1> QED BY <1>1, <1>2, <1>3 DEF TypeOK

\* What Execute leaves in each variable it changes.
LEMMA ExecuteMoves ==
    ASSUME TypeOK, CallsInJobs, NEW u \in Tab, NEW t \in Tab, Execute(u, t)
    PROVE LET r == Head(queue[u][t])
              s == r.step
              w == <<t, r.job, s>>
              ok == Works(u, s)
          IN  /\ r \in Request /\ Len(queue[u][t]) > 0 /\ r = queue[u][t][1]
              /\ s \in Writes => w \in Write
              /\ role[u] \notin {"opening", "abandoned", "gone"} /\ GateAdmits(u, t)
              /\ made' = IF ok /\ s \in Writes THEN [made EXCEPT ![w] = @ + 1] ELSE made
              /\ queue' = [queue EXCEPT ![u][t] = Tail(@)]
              /\ UNCHANGED <<role, lock, file, yields>>
              /\ IF call[t] \in {"wait", "local"} /\ r = This(t) /\ (t = u \/ role[u] # "closed")
                 THEN step[t] # "rest" /\ Advance(t, ok)
                 ELSE UNCHANGED work
<1>1. queue[u][t] \in Seq(Request) /\ queue[u][t] # <<>>
  BY DEF TypeOK, Execute
<1>2. Head(queue[u][t]) \in Request /\ Len(queue[u][t]) > 0
      /\ Head(queue[u][t]) = queue[u][t][1]
  BY <1>1
<1>3. Head(queue[u][t]).step \in Writes =>
        <<t, Head(queue[u][t]).job, Head(queue[u][t]).step>> \in Write
  BY <1>2 DEF Request, Write
<1> QED BY <1>2, <1>3 DEF Execute, CallsInJobs

\* Every step of Next keeps the types.
LEMMA StepTypes ==
    ASSUME TypeOK, CallsInJobs, [Next]_vars
    PROVE TypeOK' /\ CallsInJobs'
<1> USE LeaseAssumption
<1>1. CASE UNCHANGED vars
  BY <1>1 DEF TypeOK, CallsInJobs, vars, connection, work
<1>2. ASSUME NEW u \in Tab, Handover(u)
      PROVE TypeOK' /\ CallsInJobs'
  <2>1. CASE GrantLock(u)
    BY <2>1 DEF GrantLock, TypeOK, CallsInJobs, Role, work
  <2>2. CASE Opened(u)
    BY <2>2 DEF Opened, Aborted, TypeOK, CallsInJobs, Role
  <2>3. CASE OpenFails(u)
    <3>1. queue' \in [Tab -> [Tab -> Seq(Request)]]
      <4>1. queue' = [queue EXCEPT ![u] = [t \in Tab |-> <<>>]] /\ <<>> \in Seq(Request)
        BY <2>3 DEF OpenFails
      <4> QED BY <4>1 DEF TypeOK
    <3>2. role' \in [Tab -> Role] /\ lock' = NoTab
      BY <2>3 DEF OpenFails, TypeOK, Role
    <3>3. /\ UNCHANGED <<file, txn, pend, disk, gate, job, step, call, attempt, ack, made, yields>>
      BY <2>3 DEF OpenFails, work
    <3> QED BY <3>1, <3>2, <3>3 DEF TypeOK, CallsInJobs
  <2>4. CASE AbandonedOpens(u)
    BY <2>4 DEF AbandonedOpens, TypeOK, CallsInJobs, Role, work
  <2>5. CASE CloseFile(u)
    BY <2>5 DEF CloseFile, Disconnected, TypeOK, CallsInJobs
  <2>6. CASE Release(u)
    BY <2>6 DEF Release, TypeOK, CallsInJobs, Role, work
  <2> QED BY <1>2, <2>1, <2>2, <2>3, <2>4, <2>5, <2>6 DEF Handover
<1>3. ASSUME NEW u \in Tab, StepDown(u)
      PROVE TypeOK' /\ CallsInJobs'
  <2>1. yields' \in 0..MaxYields /\ role' \in [Tab -> Role]
    BY <1>3 DEF StepDown, TypeOK, Role
  <2>2. UNCHANGED <<connection, gate, queue, work, made>>
    BY <1>3 DEF StepDown
  <2> QED BY <2>1, <2>2 DEF TypeOK, CallsInJobs, connection, work
<1>4. ASSUME NEW u \in Tab, Close(u)
      PROVE TypeOK' /\ CallsInJobs'
  BY <1>4 DEF Close, TypeOK, CallsInJobs, Role
<1>5. ASSUME NEW t \in Tab, NEW bye \in BOOLEAN, Die(t, bye)
      PROVE TypeOK' /\ CallsInJobs'
  BY <1>5 DEF Die, Disconnected, TypeOK, CallsInJobs, Role, Step
<1>6. ASSUME NEW t \in Tab, NEW first \in {"single", "begin"}, StartJob(t, first)
      PROVE TypeOK' /\ CallsInJobs'
  <2>1. /\ job' = [job EXCEPT ![t] = @ + 1] /\ job[t] < MaxJobs
        /\ step' = [step EXCEPT ![t] = first] /\ first \in Step \ {"rest"}
        /\ call' = [call EXCEPT ![t] = "ask"]
        /\ attempt' = [attempt EXCEPT ![t] = 1]
        /\ UNCHANGED <<role, connection, gate, queue, ack, made, yields>>
    BY <1>6 DEF StartJob, Step
  <2>2. job' \in [Tab -> 0..MaxJobs] /\ job'[t] >= 1
    <3>1. job \in [Tab -> 0..MaxJobs]
      BY DEF TypeOK
    <3>2. job[t] + 1 \in 0..MaxJobs /\ job[t] + 1 >= 1
      BY <2>1, <3>1
    <3> QED BY <2>1, <3>1, <3>2
  <2> QED BY <2>1, <2>2 DEF TypeOK, CallsInJobs, connection
<1>7. ASSUME NEW t \in Tab, Statement(t)
      PROVE TypeOK' /\ CallsInJobs'
  <2>1. CASE AskLocally(t)
    <3>1. This(t) \in Request
      BY <2>1, ThisTyped DEF AskLocally, CallsInJobs
    <3> QED BY <2>1, <3>1 DEF AskLocally, TypeOK, CallsInJobs, connection
  <2>2. CASE AskRemotely(t)
    <3>1. This(t) \in Request
      BY <2>2, ThisTyped DEF AskRemotely, CallsInJobs
    <3>2. queue' \in [Tab -> [Tab -> Seq(Request)]]
      <4>1. queue \in [Tab -> [Tab -> Seq(Request)]]
        BY DEF TypeOK
      <4>2. \/ queue' = queue
            \/ \E u \in Tab : queue' = [queue EXCEPT ![u][t] = Append(@, This(t))]
        BY <2>2 DEF AskRemotely
      <4>3. \A u \in Tab : Append(queue[u][t], This(t)) \in Seq(Request)
        BY <3>1, <4>1
      <4>4. ASSUME NEW u \in Tab, queue' = [queue EXCEPT ![u][t] = Append(@, This(t))]
            PROVE queue' \in [Tab -> [Tab -> Seq(Request)]]
        BY <4>1, <4>3, <4>4
      <4> QED BY <4>1, <4>2, <4>4
    <3>3. /\ call' = [call EXCEPT ![t] = "wait"] /\ call[t] = "ask"
          /\ UNCHANGED <<role, connection, gate, job, step, attempt, ack, made, yields>>
      BY <2>2 DEF AskRemotely
    <3> QED BY <3>2, <3>3 DEF TypeOK, CallsInJobs, connection
  <2>3. CASE AskNobody(t) \/ GiveUp(t)
    <3>1. /\ step[t] # "rest" /\ Advance(t, FALSE)
          /\ UNCHANGED <<role, connection, gate, queue, made, yields>>
      BY <2>3 DEF AskNobody, GiveUp, CallsInJobs
    <3> QED BY <3>1, AdvanceTypes DEF TypeOK, connection
  <2>4. CASE Timeout(t)
    BY <2>4 DEF Timeout, Aborted, TypeOK, CallsInJobs, connection
  <2> QED BY <1>7, <2>1, <2>2, <2>3, <2>4 DEF Statement
<1>8. ASSUME NEW u \in Tab, NEW t \in Tab, Execute(u, t)
      PROVE TypeOK' /\ CallsInJobs'
  <2> DEFINE r == Head(queue[u][t])
             w == <<t, r.job, r.step>>
             ok == Works(u, r.step)
  <2>1. /\ r \in Request /\ (r.step \in Writes => w \in Write)
        /\ made' = IF ok /\ r.step \in Writes THEN [made EXCEPT ![w] = @ + 1] ELSE made
        /\ queue' = [queue EXCEPT ![u][t] = Tail(@)]
        /\ Len(queue[u][t]) > 0
        /\ UNCHANGED <<role, lock, file, yields>>
        /\ \/ step[t] # "rest" /\ Advance(t, ok)
           \/ UNCHANGED work
    BY <1>8, ExecuteMoves
  <2>2. txn' \in Tab \cup {NoTab} /\ pend' \subseteq Write /\ disk' \subseteq Write
    <3>1. txn' \in {txn, t, NoTab}
      BY <1>8 DEF Execute
    <3>2. pend' \in {pend, {}} \/ (r.step \in Writes /\ pend' = pend \cup {w})
      BY <1>8 DEF Execute
    <3>3. disk' \in {disk, disk \cup pend} \/ (r.step \in Writes /\ disk' = disk \cup {w})
      BY <1>8 DEF Execute
    <3> QED BY <2>1, <3>1, <3>2, <3>3 DEF TypeOK
  <2>3. gate' \in [Tab -> Tab \cup {NoTab}]
    <3>1. Holder(u, t, r.step, ok) \in Tab \cup {NoTab}
      BY DEF TypeOK, Holder
    <3>2. gate' = [gate EXCEPT ![u] = Holder(u, t, r.step, ok)]
      BY <1>8 DEF Execute
    <3> QED BY <3>1, <3>2 DEF TypeOK
  <2>4. queue' \in [Tab -> [Tab -> Seq(Request)]]
    <3>1. queue \in [Tab -> [Tab -> Seq(Request)]]
      BY DEF TypeOK
    <3>2. Tail(queue[u][t]) \in Seq(Request)
      BY <2>1, <3>1
    <3> QED BY <2>1, <3>1, <3>2
  <2>5. made' \in [Write -> Nat]
    <3>1. made \in [Write -> Nat]
      BY DEF TypeOK
    <3>2. r.step \in Writes => made[w] + 1 \in Nat
      BY <2>1, <3>1
    <3> HIDE DEF w, r, ok
    <3> QED BY <2>1, <3>1, <3>2
  <2>6. /\ job' \in [Tab -> 0..MaxJobs] /\ step' \in [Tab -> Step]
        /\ call' \in [Tab -> {"none", "ask", "wait", "local", "bad"}]
        /\ attempt' \in [Tab -> {1, 2}] /\ ack' \subseteq Write
        /\ CallsInJobs'
    <3>1. CASE UNCHANGED work
      BY <3>1 DEF TypeOK, CallsInJobs, work
    <3>2. CASE step[t] # "rest" /\ Advance(t, ok)
      <4>1. ok \in BOOLEAN
        BY DEF Works
      <4> HIDE DEF ok
      <4> QED BY <3>2, <4>1, AdvanceTypes
    <3> QED BY <2>1, <3>1, <3>2
  <2> QED BY <2>1, <2>2, <2>3, <2>4, <2>5, <2>6 DEF TypeOK
<1>9. ASSUME NEW u \in Tab, AbandonTransaction(u)
      PROVE TypeOK' /\ CallsInJobs'
  BY <1>9 DEF AbandonTransaction, TypeOK, CallsInJobs, connection, work
<1> QED BY <1>1, <1>2, <1>3, <1>4, <1>5, <1>6, <1>7, <1>8, <1>9 DEF Next

\* Without a connection no transaction is begun.
LEMMA StepNothingOpen ==
    ASSUME Custody, NothingOpen, [Next]_vars
    PROVE NothingOpen'
<1> USE LeaseAssumption DEF NothingOpen
<1>1. CASE UNCHANGED <<file, txn, pend>>
  BY <1>1
<1>2. CASE file' # NoTab
  BY <1>2
<1>3. ASSUME NEW u \in Tab, Handover(u) PROVE NothingOpen'
  BY <1>3 DEF Handover, GrantLock, Opened, OpenFails, AbandonedOpens, CloseFile,
     Disconnected, Release
<1>4. ASSUME NEW t \in Tab, NEW bye \in BOOLEAN, Die(t, bye) PROVE NothingOpen'
  BY <1>4 DEF Die, Disconnected
<1>5. ASSUME NEW u \in Tab, NEW t \in Tab, Execute(u, t) PROVE NothingOpen'
  BY <1>5 DEF Execute, Works
<1>6. ASSUME NEW u \in Tab,
             \/ StepDown(u) \/ Close(u) \/ Statement(u) \/ AbandonTransaction(u)
             \/ \E first \in {"single", "begin"} : StartJob(u, first)
      PROVE NothingOpen'
  BY <1>6, <1>1 DEF StepDown, Close, Statement, AskLocally, AskRemotely, AskNobody, GiveUp,
     Timeout, AbandonTransaction, StartJob, connection
<1> QED BY <1>1, <1>3, <1>4, <1>5, <1>6 DEF Next, vars, connection

-----------------------------------------------------------------------------
(* Statements: the steps.                                                  *)

\* The ways of a tab in its job, by what becomes of the statement it is at.
Stays(t) ==
    /\ job'[t] = job[t] /\ step'[t] = step[t]
    /\ call'[t] = "ask" => call[t] = "ask"
    /\ call[t] = "bad" => call'[t] = "bad"
    /\ call'[t] \in {"wait", "local"} =>
          attempt'[t] = attempt[t] /\ call[t] \in {call'[t], "ask"}
Goes(t) ==
    \/ job'[t] > job[t]
    \/ job'[t] = job[t] /\ Rank[step'[t]] > Rank[step[t]]
Retries(t) ==
    /\ job'[t] = job[t] /\ step'[t] = step[t] /\ call[t] = "wait"
    /\ \A u \in Tab : \A i \in 1..Len(queue'[u][t]) : queue'[u][t][i] # This(t)

\* Past, after the step.
PastNext(t, j, s) == j < job'[t] \/ (j = job'[t] /\ Rank[s] < Rank[step'[t]])

\* Ranks are numbers.
LEMMA RankNat == Rank \in [Step -> Nat]
BY DEF Rank, Step

\* What a tab is past it stays past.
LEMMA PastStays ==
    ASSUME TypeOK, TypeOK', NEW t \in Tab, Stays(t) \/ Goes(t) \/ Retries(t),
           NEW j \in Nat, NEW s \in Step
    PROVE /\ Past(t, j, s) => PastNext(t, j, s)
          /\ Goes(t) /\ j = job[t] /\ s = step[t] => PastNext(t, j, s)
<1>1. /\ job[t] \in Nat /\ job'[t] \in Nat /\ step[t] \in Step /\ step'[t] \in Step
      /\ Rank[s] \in Nat /\ Rank[step[t]] \in Nat /\ Rank[step'[t]] \in Nat
  BY RankNat, LeaseAssumption DEF TypeOK
<1> QED BY <1>1 DEF Past, PastNext, Stays, Goes, Retries

\* Statements that wait are requests.
LEMMA QueueTyped ==
    ASSUME TypeOK, NEW u \in Tab, NEW t \in Tab
    PROVE /\ queue[u][t] \in Seq(Request) /\ Len(queue[u][t]) \in Nat
          /\ \A i \in 1..Len(queue[u][t]) :
                /\ queue[u][t][i] \in Request /\ queue[u][t][i].step \in Step
                /\ queue[u][t][i].job \in 1..MaxJobs /\ queue[u][t][i].job \in Nat
<1>1. queue[u][t] \in Seq(Request)
  BY DEF TypeOK
<1>2. \A r \in Request : r.step \in Step /\ r.job \in 1..MaxJobs /\ r.job \in Nat
  BY LeaseAssumption DEF Request
<1> QED BY <1>1, <1>2

\* What is left in a queue was there before, in the same order.
LEMMA RowShrinks ==
    ASSUME TypeOK, NEW u \in Tab, NEW t \in Tab,
           queue'[u][t] \in {queue[u][t], <<>>, Tail(queue[u][t])}
    PROVE \E d \in Nat : /\ Len(queue'[u][t]) \in Nat
                         /\ \A i \in 1..Len(queue'[u][t]) :
                               /\ i + d \in 1..Len(queue[u][t])
                               /\ queue'[u][t][i] = queue[u][t][i + d]
<1>1. queue[u][t] \in Seq(Request)
  BY QueueTyped
<1>2. CASE queue'[u][t] = queue[u][t]
  <2> WITNESS 0 \in Nat
  <2> QED BY <1>1, <1>2
<1>3. CASE queue'[u][t] = <<>>
  <2> WITNESS 0 \in Nat
  <2>1. Len(<<>>) = 0
    OBVIOUS
  <2> QED BY <2>1, <1>3
<1>4. CASE queue'[u][t] = Tail(queue[u][t]) /\ queue[u][t] # <<>>
  <2> WITNESS 1 \in Nat
  <2> QED BY <1>1, <1>4
<1>5. CASE queue'[u][t] = Tail(queue[u][t]) /\ queue[u][t] = <<>>
  <2> WITNESS 0 \in Nat
  <2>1. Tail(<<>>) = <<>> /\ Len(<<>>) = 0
    OBVIOUS
  <2> QED BY <2>1, <1>5
<1> QED BY <1>2, <1>3, <1>4, <1>5

\* Whatever a step does to jobs and calls, as long as nothing is added to a
\* queue and nothing asked for again that waits.
LEMMA QueuesKept ==
    ASSUME TypeOK, TypeOK', Waiting, InTurn,
           \A u, t \in Tab : queue'[u][t] \in {queue[u][t], <<>>, Tail(queue[u][t])},
           \A t \in Tab : Stays(t) \/ Goes(t) \/ Retries(t)
    PROVE Waiting' /\ InTurn'
<1>1. Waiting'
  <2> SUFFICES ASSUME NEW u \in Tab, NEW t \in Tab, NEW i \in 1..Len(queue'[u][t])
               PROVE LET r == queue'[u][t][i]
                     IN  \/ PastNext(t, r.job, r.step)
                         \/ /\ r.job = job'[t] /\ r.step = step'[t] /\ call'[t] # "ask"
                            /\ call'[t] \in {"wait", "local"} => r = This(t)'
    BY DEF Waiting, Past, PastNext
  <2>1. PICK k \in 1..Len(queue[u][t]) : queue'[u][t][i] = queue[u][t][k]
    BY RowShrinks
  <2> DEFINE r == queue[u][t][k]
  <2>2. r.job \in Nat /\ r.step \in Step
    BY <2>1, QueueTyped
  <2>3. \/ Past(t, r.job, r.step)
        \/ /\ r.job = job[t] /\ r.step = step[t] /\ call[t] # "ask"
           /\ call[t] \in {"wait", "local"} => r = This(t)
    BY <2>1 DEF Waiting
  <2>4. CASE Past(t, r.job, r.step)
    BY <2>1, <2>2, <2>4, PastStays
  <2>5. CASE /\ r.job = job[t] /\ r.step = step[t] /\ call[t] # "ask"
             /\ call[t] \in {"wait", "local"} => r = This(t)
    <3>1. CASE Goes(t)
      BY <2>1, <2>2, <2>5, <3>1, PastStays
    <3>2. CASE Stays(t)
      BY <2>1, <2>5, <3>2 DEF Stays, This
    <3>3. CASE Retries(t)
      BY <2>1, <2>5, <3>3 DEF Retries
    <3> QED BY <3>1, <3>2, <3>3
  <2> QED BY <2>3, <2>4, <2>5
<1>2. InTurn'
  <2> SUFFICES ASSUME NEW u \in Tab, NEW t \in Tab,
                      NEW i \in 1..Len(queue'[u][t]), NEW k \in 1..Len(queue'[u][t]), i < k
               PROVE LET r == queue'[u][t][i]
                         q == queue'[u][t][k]
                     IN  r.job < q.job \/ (r.job = q.job /\ Rank[r.step] < Rank[q.step])
    BY DEF InTurn
  <2>1. PICK d \in Nat : /\ Len(queue'[u][t]) \in Nat
                         /\ \A n \in 1..Len(queue'[u][t]) :
                               /\ n + d \in 1..Len(queue[u][t])
                               /\ queue'[u][t][n] = queue[u][t][n + d]
    BY RowShrinks
  <2>2. i + d < k + d
    BY <2>1
  <2>3. /\ i + d \in 1..Len(queue[u][t]) /\ queue'[u][t][i] = queue[u][t][i + d]
        /\ k + d \in 1..Len(queue[u][t]) /\ queue'[u][t][k] = queue[u][t][k + d]
    BY <2>1
  <2> DEFINE a == i + d
             b == k + d
  <2>4. a \in 1..Len(queue[u][t]) /\ b \in 1..Len(queue[u][t]) /\ a < b
    BY <2>2, <2>3
  <2>5. queue'[u][t][i] = queue[u][t][a] /\ queue'[u][t][k] = queue[u][t][b]
    BY <2>3
  <2> HIDE DEF a, b
  <2>6. LET r == queue[u][t][a]
            q == queue[u][t][b]
        IN  a < b => r.job < q.job \/ (r.job = q.job /\ Rank[r.step] < Rank[q.step])
    BY <2>4 DEF InTurn
  <2> QED BY <2>4, <2>5, <2>6
<1> QED BY <1>1, <1>2

\* What is over stays over, and what was absent stays absent.
LEMMA OverStays ==
    ASSUME TypeOK, TypeOK', NEW t \in Tab, Stays(t) \/ Goes(t) \/ Retries(t),
           NEW j \in Nat, NEW s \in Step,
           \A u \in Tab : queue'[u][t] \in {queue[u][t], <<>>, Tail(queue[u][t])}
    PROVE (Over(t, j, s) => Over(t, j, s)') /\ (Absent(t, j, s) => Absent(t, j, s)')
<1>1. Over(t, j, s) => Over(t, j, s)'
  BY PastStays DEF Over, Past, PastNext, Stays, Retries
<1>2. ASSUME Absent(t, j, s), NEW u \in Tab, NEW i \in 1..Len(queue'[u][t])
      PROVE queue'[u][t][i].job # j \/ queue'[u][t][i].step # s
  BY <1>2, RowShrinks DEF Absent
<1> QED BY <1>1, <1>2 DEF Absent

\* Statements stay in order while none is added and none executed.
LEMMA OrderlyKept ==
    ASSUME TypeOK, TypeOK', Orderly, AtFile', made' = made,
           \A u, t \in Tab : queue'[u][t] \in {queue[u][t], <<>>},
           \A t \in Tab : Stays(t) \/ Goes(t) \/ Retries(t)
    PROVE Orderly'
<1>1. Waiting' /\ InTurn'
  BY QueuesKept DEF Orderly
<1>2. Executed'
  <2> SUFFICES ASSUME NEW t \in Tab, NEW j \in 1..MaxJobs, NEW s \in Writes
               PROVE (made[<<t, j, s>>] <= 1)'
                     /\ ((made[<<t, j, s>>] # 0)' => Over(t, j, s)' /\ Absent(t, j, s)')
    BY DEF Executed
  <2>1. /\ made[<<t, j, s>>] <= 1
        /\ made[<<t, j, s>>] # 0 => Over(t, j, s) /\ Absent(t, j, s)
    BY DEF Executed, Orderly
  <2>2. j \in Nat /\ s \in Step
    BY LeaseAssumption DEF Writes, Step
  <2> QED BY <2>1, <2>2, OverStays
<1> QED BY <1>1, <1>2 DEF Orderly

\* No holder that is still opening is given a statement.
Unhurried ==
    \A u, t \in Tab : role[u] = "opening" => ~(Len(queue'[u][t]) > Len(queue[u][t]))

\* AtFile for one queue, after the step.
RowNext(u, t) ==
    /\ file' = u
    /\ role'[u] = "closed" => t = u
    /\ t = u => call'[t] = "local" /\ queue'[t][t] = <<This(t)>>'

\* AtFile, queue by queue.
LEMMA AtFileByRow ==
    ASSUME \A u, t \in Tab : queue'[u][t] # <<>> => RowNext(u, t)
    PROVE AtFile'
BY DEF AtFile, RowNext

\* A queue the step has nothing to do with.
LEMMA RowStays ==
    ASSUME AtFile, NEW u \in Tab, NEW t \in Tab,
           queue[u][t] # <<>>, queue'[u][t] = queue[u][t], file' = file,
           role'[u] = "closed" => role[u] = "closed" \/ t = u,
           t = u => /\ call[t] = "local" => call'[t] = "local"
                    /\ job'[t] = job[t] /\ step'[t] = step[t] /\ attempt'[t] = attempt[t]
    PROVE RowNext(u, t)
<1>1. t = u => This(t)' = This(t)
  BY DEF This
<1> QED BY <1>1 DEF AtFile, RowNext

\* Statements that wait stay where the file is.
LEMMA AtFileKept ==
    ASSUME TypeOK, Custody, CallsInJobs, AtFile, [Next]_vars, Unhurried
    PROVE AtFile'
<1> USE LeaseAssumption
<1>1. CASE UNCHANGED vars
  BY <1>1 DEF AtFile, This, vars, connection, work
<1>2. ASSUME NEW u \in Tab, Handover(u)
      PROVE AtFile'
  <2>1. CASE GrantLock(u)
    BY <2>1 DEF GrantLock, AtFile, This, work, TypeOK
  <2>2. CASE Opened(u)
    <3>1. \A v, t \in Tab : queue'[v][t] = <<>>
      BY <2>2 DEF Opened, AtFile
    <3> QED BY <3>1 DEF AtFile
  <2>3. CASE OpenFails(u)
    <3>1. /\ queue' = [queue EXCEPT ![u] = [t \in Tab |-> <<>>]]
          /\ role' = [role EXCEPT ![u] = "orphan"]
          /\ UNCHANGED <<file, job, step, call, attempt>>
      BY <2>3 DEF OpenFails, work
    <3> QED BY <3>1 DEF AtFile, This, TypeOK
  <2>4. CASE AbandonedOpens(u)
    <3>1. file # u
      BY <2>4 DEF AbandonedOpens, Custody, FileRole
    <3>2. \A t \in Tab : queue[u][t] = <<>>
      BY <3>1 DEF AtFile
    <3>3. \A v, t \in Tab : queue[v][t] # <<>> => file # NoTab /\ v # u
      BY <3>1 DEF AtFile
    <3>4. /\ file # NoTab => file' = file
          /\ role' = [role EXCEPT ![u] = "closed"]
          /\ UNCHANGED <<queue, job, step, call, attempt>>
      BY <2>4 DEF AbandonedOpens, work
    <3> QED BY <3>2, <3>3, <3>4 DEF AtFile, This, TypeOK
  <2>5. CASE CloseFile(u)
    <3>1. \A v, t \in Tab : queue'[v][t] = <<>>
      BY <2>5 DEF CloseFile, AtFile, TypeOK
    <3> QED BY <3>1 DEF AtFile
  <2>6. CASE Release(u)
    <3>1. \A t \in Tab : queue[u][t] = <<>>
      BY <2>6 DEF Release, AtFile
    <3>2. /\ role'[u] = "closed" \/ role'[u] = "queued"
          /\ \A v \in Tab \ {u} : role'[v] = role[v]
          /\ UNCHANGED <<file, queue, job, step, call, attempt>>
      BY <2>6 DEF Release, work, TypeOK
    <3>3. \A v, t \in Tab : queue[v][t] # <<>> => v # u
      BY <3>1
    <3> QED BY <3>2, <3>3 DEF AtFile, This
  <2> QED BY <1>2, <2>1, <2>2, <2>3, <2>4, <2>5, <2>6 DEF Handover
<1>3. ASSUME NEW u \in Tab, StepDown(u)
      PROVE AtFile'
  <2>1. /\ \A v \in Tab : role'[v] = "closed" => role[v] = "closed"
        /\ UNCHANGED <<file, queue, job, step, call, attempt>>
    BY <1>3 DEF StepDown, connection, work, TypeOK
  <2> QED BY <2>1, RowStays, AtFileByRow
<1>4. ASSUME NEW u \in Tab, Close(u)
      PROVE AtFile'
  <2>1. role'[u] = "closed" => \A t \in Tab : queue[u][t] = <<>>
    BY <1>4 DEF Close, AtFile, Custody, FileRole, TypeOK
  <2>2. /\ \A v \in Tab \ {u} : role'[v] = role[v] /\ call'[v] = call[v]
        /\ call[u] = "local" => call'[u] = "local"
        /\ UNCHANGED <<file, queue, job, step, attempt>>
    BY <1>4 DEF Close, TypeOK
  <2>3. ASSUME NEW v \in Tab, NEW s \in Tab, queue'[v][s] # <<>>
        PROVE RowNext(v, s)
    BY <2>1, <2>2, <2>3, RowStays
  <2> QED BY <2>3, AtFileByRow
<1>5. ASSUME NEW t \in Tab, NEW bye \in BOOLEAN, Die(t, bye)
      PROVE AtFile'
  <2>1. \A u, s \in Tab : queue'[u][s] # <<>> => u # t /\ queue'[u][s] = queue[u][s]
    BY <1>5 DEF Die, TypeOK
  <2>2. /\ file # t => file' = file
        /\ \A u \in Tab \ {t} : role'[u] = role[u] /\ call'[u] = call[u] /\ step'[u] = step[u]
        /\ UNCHANGED <<job, attempt>>
    BY <1>5 DEF Die, TypeOK
  <2>3. ASSUME NEW v \in Tab, NEW s \in Tab, queue'[v][s] # <<>>
        PROVE RowNext(v, s)
    <3>1. file # t
      BY <2>1, <2>3 DEF AtFile
    <3> QED BY <2>1, <2>2, <2>3, <3>1, RowStays
  <2> QED BY <2>3, AtFileByRow
<1>6. ASSUME NEW t \in Tab, NEW first \in {"single", "begin"}, StartJob(t, first)
      PROVE AtFile'
  <2>1. queue[t][t] = <<>>
    BY <1>6 DEF StartJob, AtFile, CallsInJobs
  <2>2. /\ \A u \in Tab \ {t} : /\ job'[u] = job[u] /\ step'[u] = step[u]
                                /\ call'[u] = call[u] /\ attempt'[u] = attempt[u]
        /\ UNCHANGED <<role, file, queue>>
    BY <1>6 DEF StartJob, connection, TypeOK
  <2> QED BY <2>1, <2>2 DEF AtFile, This
<1>7. ASSUME NEW t \in Tab, Statement(t)
      PROVE AtFile'
  <2>1. queue[t][t] = <<>>
    BY <1>7 DEF Statement, AskLocally, AskRemotely, AskNobody, GiveUp, Timeout, AtFile
  <2>2. CASE AskLocally(t)
    <3>1. file = t
      BY <2>2 DEF AskLocally, HasLocal, Custody
    <3>2. queue'[t][t] = <<This(t)>>
      BY <2>1, <2>2 DEF AskLocally, TypeOK
    <3>3. /\ call' = [call EXCEPT ![t] = "local"]
          /\ \A u, s \in Tab : u # t \/ s # t => queue'[u][s] = queue[u][s]
          /\ UNCHANGED <<role, file, job, step, attempt>>
      BY <2>2 DEF AskLocally, connection, TypeOK
    <3>4. \A s \in Tab : This(s)' = This(s)
      BY <3>3 DEF This
    <3>5. ASSUME NEW u \in Tab, NEW s \in Tab, queue'[u][s] # <<>>
          PROVE /\ file' = u
                /\ role'[u] = "closed" => s = u
                /\ s = u => call'[s] = "local" /\ queue'[s][s] = <<This(s)>>
      <4>1. CASE u = t /\ s = t
        BY <3>1, <3>2, <3>3, <4>1 DEF TypeOK
      <4>2. CASE u # t \/ s # t
        BY <3>3, <3>5, <4>2 DEF AtFile, TypeOK
      <4> QED BY <4>1, <4>2
    <3> QED BY <3>4, <3>5 DEF AtFile
  <2>3. CASE AskRemotely(t)
    <3>1. /\ call' = [call EXCEPT ![t] = "wait"]
          /\ UNCHANGED <<role, file, job, step, attempt>>
      BY <2>3 DEF AskRemotely, connection
    <3>2. \A s \in Tab : This(s)' = This(s)
      BY <3>1 DEF This
    <3>3. CASE queue' = queue
      BY <2>1, <3>1, <3>2, <3>3 DEF AtFile, TypeOK
    <3>4. ASSUME NEW u \in Tab \ {t}, Owning(u),
                 queue' = [queue EXCEPT ![u][t] = Append(@, This(t))]
          PROVE AtFile'
      <4>1. Len(queue'[u][t]) > Len(queue[u][t])
        BY <3>4, QueueTyped DEF TypeOK
      <4>2. role[u] = "holder" /\ file = u
        BY <3>4, <4>1 DEF Owning, Unhurried, Custody
      <4>3. \A v, s \in Tab : v # u \/ s # t => queue'[v][s] = queue[v][s]
        BY <3>4 DEF TypeOK
      <4>4. ASSUME NEW v \in Tab, NEW s \in Tab, queue'[v][s] # <<>>
            PROVE RowNext(v, s)
        <5>1. CASE v = u /\ s = t
          BY <3>1, <3>4, <4>2, <5>1 DEF RowNext
        <5>2. CASE v # u \/ s # t
          <6>1. queue'[v][s] = queue[v][s] /\ queue[v][s] # <<>>
            BY <4>3, <4>4, <5>2
          <6>2. s = v => v # t
            BY <2>1, <6>1
          <6>3. s = v => call'[s] = call[s]
            BY <3>1, <6>2 DEF TypeOK
          <6> QED BY <3>1, <6>1, <6>3, RowStays
        <5> QED BY <5>1, <5>2
      <4> QED BY <4>4, AtFileByRow
    <3> QED BY <2>3, <3>3, <3>4 DEF AskRemotely
  <2>4. CASE AskNobody(t) \/ GiveUp(t) \/ Timeout(t)
    <3>1. UNCHANGED <<role, file, queue>>
      BY <2>4 DEF AskNobody, GiveUp, Timeout, connection
    <3>2. \A s \in Tab \ {t} : /\ job'[s] = job[s] /\ step'[s] = step[s]
                               /\ call'[s] = call[s] /\ attempt'[s] = attempt[s]
      BY <2>4 DEF AskNobody, GiveUp, Timeout, Advance, Aborted, TypeOK
    <3> QED BY <2>1, <3>1, <3>2 DEF AtFile, This
  <2> QED BY <1>7, <2>2, <2>3, <2>4 DEF Statement
<1>8. ASSUME NEW u \in Tab, NEW t \in Tab, Execute(u, t)
      PROVE AtFile'
  <2>1. /\ queue' = [queue EXCEPT ![u][t] = Tail(@)]
        /\ Len(queue[u][t]) > 0
        /\ UNCHANGED <<role, file>>
        /\ \A s \in Tab \ {t} : /\ job'[s] = job[s] /\ step'[s] = step[s]
                                /\ call'[s] = call[s] /\ attempt'[s] = attempt[s]
        /\ (\E ok \in BOOLEAN : Advance(t, ok)) \/ UNCHANGED work
    <3>1. ASSUME NEW ok \in BOOLEAN, Advance(t, ok)
          PROVE \A s \in Tab \ {t} : /\ job'[s] = job[s] /\ step'[s] = step[s]
                                     /\ call'[s] = call[s] /\ attempt'[s] = attempt[s]
      BY <3>1 DEF Advance, TypeOK
    <3>2. Works(u, Head(queue[u][t]).step) \in BOOLEAN
      BY DEF Works
    <3>3. /\ queue' = [queue EXCEPT ![u][t] = Tail(@)]
          /\ Len(queue[u][t]) > 0
          /\ UNCHANGED <<role, file>>
          /\ (\E ok \in BOOLEAN : Advance(t, ok)) \/ UNCHANGED work
      BY <1>8, <3>2, ExecuteMoves
    <3> QED BY <3>1, <3>3 DEF work
  <2>2. file = u /\ (role[u] = "closed" => t = u)
    BY <2>1 DEF AtFile
  <2>3. queue'[t][t] = <<>>
    <3>1. CASE t = u
      <4>1. queue[t][t] = <<This(t)>>
        BY <2>1, <3>1 DEF AtFile
      <4> QED BY <2>1, <3>1, <4>1 DEF TypeOK
    <3>2. CASE t # u
      BY <2>1, <2>2, <3>2 DEF AtFile, TypeOK
    <3> QED BY <3>1, <3>2
  <2>4. \A v, s \in Tab : v # u \/ s # t => queue'[v][s] = queue[v][s]
    BY <2>1 DEF TypeOK
  <2>5. ASSUME NEW v \in Tab, NEW s \in Tab, queue'[v][s] # <<>>
        PROVE RowNext(v, s)
    <3>1. CASE v = u /\ s = t
      BY <2>1, <2>2, <2>3, <2>5, <3>1 DEF RowNext
    <3>2. CASE v # u \/ s # t
      BY <2>1, <2>3, <2>4, <2>5, <3>2, RowStays
    <3> QED BY <3>1, <3>2
  <2> QED BY <2>5, AtFileByRow
<1>9. ASSUME NEW u \in Tab, AbandonTransaction(u)
      PROVE AtFile'
  BY <1>9 DEF AbandonTransaction, AtFile, This, connection, work
<1> QED BY <1>1, <1>2, <1>3, <1>4, <1>5, <1>6, <1>7, <1>8, <1>9 DEF Next

\* A statement is put behind what its tab has asked for before.
LEMMA OrderlyAsk ==
    ASSUME TypeOK, TypeOK', Orderly, AtFile', NEW u \in Tab, NEW t \in Tab,
           NEW c \in {"wait", "local"}, call[t] = "ask",
           call' = [call EXCEPT ![t] = c], UNCHANGED <<job, step, attempt, made>>,
           queue' = [queue EXCEPT ![u][t] = Append(@, This(t))]
    PROVE Orderly'
<1> DEFINE n == Len(queue[u][t])
<1>1. /\ queue[u][t] \in Seq(Request) /\ n \in Nat
      /\ queue'[u][t] = Append(queue[u][t], This(t))
      /\ Len(queue'[u][t]) = n + 1
      /\ \A i \in 1..n : queue'[u][t][i] = queue[u][t][i]
      /\ queue'[u][t][n + 1] = This(t)
  <2>1. queue[u][t] \in Seq(Request) /\ n \in Nat
    BY QueueTyped
  <2>2. queue'[u][t] = Append(queue[u][t], This(t))
    BY DEF TypeOK
  <2> QED BY <2>1, <2>2
<1>2. \A v, s \in Tab : v # u \/ s # t => queue'[v][s] = queue[v][s]
  BY DEF TypeOK
<1>3. /\ \A s \in Tab : Stays(s)
      /\ This(t)' = This(t) /\ This(t).job = job[t] /\ This(t).step = step[t]
      /\ call'[t] = c
  BY DEF Stays, This, TypeOK
<1>4. \A v \in Tab : \A i \in 1..Len(queue[v][t]) :
         /\ queue[v][t][i].job \in Nat /\ queue[v][t][i].step \in Step
         /\ Past(t, queue[v][t][i].job, queue[v][t][i].step)
         /\ PastNext(t, queue[v][t][i].job, queue[v][t][i].step)
  <2> SUFFICES ASSUME NEW v \in Tab, NEW i \in 1..Len(queue[v][t])
               PROVE /\ queue[v][t][i].job \in Nat /\ queue[v][t][i].step \in Step
                     /\ Past(t, queue[v][t][i].job, queue[v][t][i].step)
                     /\ PastNext(t, queue[v][t][i].job, queue[v][t][i].step)
    OBVIOUS
  <2>1. queue[v][t][i].job \in Nat /\ queue[v][t][i].step \in Step
    BY QueueTyped
  <2>2. Past(t, queue[v][t][i].job, queue[v][t][i].step)
    BY DEF Orderly, Waiting
  <2> QED BY <2>1, <2>2, <1>3, PastStays
<1>5. Waiting'
  <2> SUFFICES ASSUME NEW v \in Tab, NEW s \in Tab, NEW i \in 1..Len(queue'[v][s])
               PROVE LET r == queue'[v][s][i]
                     IN  \/ PastNext(s, r.job, r.step)
                         \/ /\ r.job = job'[s] /\ r.step = step'[s] /\ call'[s] # "ask"
                            /\ call'[s] \in {"wait", "local"} => r = This(s)'
    BY DEF Waiting, Past, PastNext
  <2>1. CASE v = u /\ s = t
    <3>1. CASE i \in 1..n
      BY <1>1, <1>4, <2>1, <3>1
    <3>2. CASE i = n + 1
      BY <1>1, <1>3, <2>1, <3>2
    <3> QED BY <1>1, <2>1, <3>1, <3>2
  <2>2. CASE v # u /\ s = t
    BY <1>2, <1>4, <2>2
  <2>3. CASE s # t
    <3>1. queue'[v][s] = queue[v][s] /\ This(s)' = This(s) /\ call'[s] = call[s]
      BY <1>2, <2>3 DEF This, TypeOK
    <3>2. LET r == queue[v][s][i]
          IN  \/ Past(s, r.job, r.step)
              \/ /\ r.job = job[s] /\ r.step = step[s] /\ call[s] # "ask"
                 /\ call[s] \in {"wait", "local"} => r = This(s)
      <4>1. i \in 1..Len(queue[v][s])
        BY <3>1
      <4> QED BY <4>1 DEF Orderly, Waiting
    <3> QED BY <3>1, <3>2 DEF Past, PastNext
  <2> QED BY <2>1, <2>2, <2>3
<1>6. InTurn'
  <2> SUFFICES ASSUME NEW v \in Tab, NEW s \in Tab,
                      NEW i \in 1..Len(queue'[v][s]), NEW k \in 1..Len(queue'[v][s]), i < k
               PROVE LET r == queue'[v][s][i]
                         q == queue'[v][s][k]
                     IN  r.job < q.job \/ (r.job = q.job /\ Rank[r.step] < Rank[q.step])
    BY DEF InTurn
  <2>1. CASE v = u /\ s = t
    <3>1. i \in 1..n
      BY <1>1, <2>1
    <3>2. CASE k \in 1..n
      BY <1>1, <2>1, <3>1, <3>2 DEF Orderly, InTurn
    <3>3. CASE k = n + 1
      BY <1>1, <1>3, <1>4, <2>1, <3>1, <3>3 DEF Past
    <3> QED BY <1>1, <2>1, <3>2, <3>3
  <2>2. CASE v # u \/ s # t
    <3>1. queue'[v][s] = queue[v][s]
      BY <1>2, <2>2
    <3>2. i \in 1..Len(queue[v][s]) /\ k \in 1..Len(queue[v][s])
      BY <3>1
    <3>3. LET p == queue[v][s][i]
              q == queue[v][s][k]
          IN  p.job < q.job \/ (p.job = q.job /\ Rank[p.step] < Rank[q.step])
      BY <3>2 DEF Orderly, InTurn
    <3> QED BY <3>1, <3>3
  <2> QED BY <2>1, <2>2
<1>7. Executed'
  <2> SUFFICES ASSUME NEW s \in Tab, NEW j \in 1..MaxJobs, NEW w \in Writes
               PROVE (made[<<s, j, w>>] <= 1)'
                     /\ ((made[<<s, j, w>>] # 0)' => Over(s, j, w)' /\ Absent(s, j, w)')
    BY DEF Executed
  <2>1. /\ made[<<s, j, w>>] <= 1
        /\ made[<<s, j, w>>] # 0 => Over(s, j, w) /\ Absent(s, j, w)
    BY DEF Executed, Orderly
  <2>2. j \in Nat /\ w \in Step
    BY LeaseAssumption DEF Writes, Step
  <2>3. CASE s # t
    BY <1>2, <1>3, <2>1, <2>2, <2>3, OverStays
  <2>4. CASE s = t
    <3>1. ASSUME made[<<t, j, w>>] # 0
          PROVE Over(t, j, w)' /\ Absent(t, j, w)'
      <4>1. Past(t, j, w) /\ Absent(t, j, w)
        BY <2>1, <2>4, <3>1 DEF Over
      <4>2. Over(t, j, w)'
        BY <2>2, <4>1, <1>3, PastStays DEF Over, Past, PastNext
      <4>3. ASSUME NEW v \in Tab, NEW i \in 1..Len(queue'[v][t])
            PROVE queue'[v][t][i].job # j \/ queue'[v][t][i].step # w
        <5>1. CASE v = u /\ i = n + 1
          <6>1. j # job[t] \/ w # step[t]
            <7>1. job[t] \in Nat /\ step[t] \in Step /\ Rank[step[t]] \in Nat
              BY RankNat, LeaseAssumption DEF TypeOK
            <7> QED BY <4>1, <7>1 DEF Past
          <6> QED BY <1>1, <1>3, <5>1, <6>1
        <5>2. CASE v = u /\ i \in 1..n
          BY <1>1, <4>1, <5>2 DEF Absent
        <5>3. CASE v # u
          BY <1>2, <4>1, <5>3 DEF Absent
        <5> QED BY <1>1, <5>1, <5>2, <5>3
      <4> QED BY <4>2, <4>3 DEF Absent
    <3> QED BY <2>1, <2>4, <3>1
  <2> QED BY <2>3, <2>4
<1> QED BY <1>5, <1>6, <1>7 DEF Orderly

\* What is second in a queue is first when the first is gone.
LEMMA TailAt ==
    ASSUME NEW S, NEW q \in Seq(S), Len(q) > 0, NEW i \in 1..(Len(q) - 1)
    PROVE Tail(q)[i] = q[i + 1]
OBVIOUS

\* A statement is executed, answered or not.
LEMMA OrderlyExecute ==
    ASSUME TypeOK, TypeOK', CallsInJobs, Orderly, AtFile',
           NEW u \in Tab, NEW t \in Tab, Execute(u, t)
    PROVE Orderly'
<1> DEFINE r == queue[u][t][1]
           w == <<t, r.job, r.step>>
           ok == Works(u, r.step)
           answered == call[t] \in {"wait", "local"} /\ r = This(t) /\ (t = u \/ role[u] # "closed")
<1>1. /\ r = Head(queue[u][t]) /\ Len(queue[u][t]) > 0 /\ r \in Request
      /\ r.job \in 1..MaxJobs /\ r.job \in Nat /\ r.step \in Step
      /\ r.step \in Writes => w \in Write
      /\ made' = IF ok /\ r.step \in Writes THEN [made EXCEPT ![w] = @ + 1] ELSE made
      /\ queue' = [queue EXCEPT ![u][t] = Tail(@)]
      /\ IF answered THEN step[t] # "rest" /\ Advance(t, ok) ELSE UNCHANGED work
  BY ExecuteMoves, LeaseAssumption DEF Request
<1>2. /\ file = u /\ (role[u] = "closed" => t = u)
      /\ \A v \in Tab \ {u} : queue[v][t] = <<>>
  BY <1>1 DEF Orderly, AtFile
<1>3. \A v, s \in Tab : /\ queue'[v][s] \in {queue[v][s], <<>>, Tail(queue[v][s])}
                        /\ v # u \/ s # t => queue'[v][s] = queue[v][s]
  <2>1. queue' = [queue EXCEPT ![u] = [queue[u] EXCEPT ![t] = Tail(queue[u][t])]]
    BY <1>1
  <2>2. queue \in [Tab -> [Tab -> Seq(Request)]]
    BY DEF TypeOK
  <2>3. queue'[u][t] = Tail(queue[u][t]) /\ \A s \in Tab \ {t} : queue'[u][s] = queue[u][s]
    BY <2>1, <2>2
  <2>4. \A v \in Tab \ {u} : queue'[v] = queue[v]
    BY <2>1, <2>2
  <2> QED BY <2>3, <2>4
<1>4. /\ \A s \in Tab : Stays(s) \/ Goes(s)
      /\ answered => Goes(t)
      /\ ~answered => UNCHANGED work
  <2>1. CASE ~answered
    BY <1>1, <2>1 DEF work, Stays
  <2>2. CASE answered
    <3>1. ok \in BOOLEAN
      BY DEF Works
    <3> HIDE DEF ok
    <3>2. step[t] # "rest" /\ Advance(t, ok)
      BY <1>1, <2>2
    <3>3. PICK a \in Step : /\ step' = [step EXCEPT ![t] = a]
                            /\ call' = [call EXCEPT ![t] = IF a = "rest" THEN "none" ELSE "ask"]
                            /\ Rank[a] > Rank[step[t]]
      BY <3>1, <3>2, AdvanceMoves
    <3>4. job' = job /\ attempt' = [attempt EXCEPT ![t] = 1]
      BY <3>1, <3>2, AdvanceMoves
    <3>5. Goes(t)
      BY <3>3, <3>4 DEF Goes, TypeOK
    <3>6. \A s \in Tab \ {t} : Stays(s)
      BY <3>3, <3>4 DEF Stays, TypeOK
    <3> QED BY <2>2, <3>5, <3>6
  <2> QED BY <2>1, <2>2
<1>5. Waiting' /\ InTurn'
  BY <1>3, <1>4, QueuesKept DEF Orderly
<1>6. ASSUME NEW j \in 1..MaxJobs, NEW s \in Writes, j = r.job, s = r.step
      PROVE made[<<t, j, s>>] = 0 /\ Over(t, j, s)' /\ Absent(t, j, s)'
  <2>1. j \in Nat /\ s \in Step /\ s # "rest"
    BY LeaseAssumption DEF Writes, Step
  <2>2. 1 \in 1..Len(queue[u][t])
    BY <1>1, QueueTyped
  <2>3. made[<<t, j, s>>] = 0
    <3>1. ~Absent(t, j, s)
      BY <1>6, <2>2 DEF Absent
    <3> QED BY <3>1 DEF Orderly, Executed
  <2>4. \/ Past(t, j, s)
        \/ /\ j = job[t] /\ s = step[t] /\ call[t] # "ask"
           /\ call[t] \in {"wait", "local"} => r = This(t)
    BY <1>6, <2>2 DEF Orderly, Waiting
  <2>5. Over(t, j, s)'
    <3>1. CASE Past(t, j, s)
      BY <1>4, <2>1, <3>1, PastStays DEF Over, Past, PastNext
    <3>2. CASE /\ j = job[t] /\ s = step[t] /\ call[t] # "ask"
               /\ call[t] \in {"wait", "local"} => r = This(t)
      <4>1. CASE answered
        BY <1>4, <2>1, <3>2, <4>1, PastStays DEF Over, Past, PastNext
      <4>2. CASE ~answered
        <5>1. call[t] = "bad"
          BY <1>2, <2>1, <3>2, <4>2 DEF CallsInJobs, TypeOK
        <5> HIDE DEF r, answered
        <5> QED BY <1>4, <3>2, <4>2, <5>1 DEF Over, work
      <4> QED BY <4>1, <4>2
    <3> QED BY <2>4, <3>1, <3>2
  <2>6. Absent(t, j, s)'
    <3> SUFFICES ASSUME NEW v \in Tab, NEW i \in 1..Len(queue'[v][t])
                 PROVE queue'[v][t][i].job # j \/ queue'[v][t][i].step # s
      BY DEF Absent
    <3>1. v = u
      <4>1. Len(<<>>) = 0
        OBVIOUS
      <4> QED BY <1>2, <1>3, <4>1
    <3>2. queue'[u][t] = Tail(queue[u][t]) /\ queue[u][t] \in Seq(Request)
      BY <1>1, QueueTyped DEF TypeOK
    <3>3. Len(queue[u][t]) \in Nat /\ Len(Tail(queue[u][t])) = Len(queue[u][t]) - 1
      BY <1>1, <3>2
    <3>4. i \in 1..(Len(queue[u][t]) - 1)
      BY <3>1, <3>2, <3>3
    <3>5. i + 1 \in 1..Len(queue[u][t]) /\ 1 < i + 1
      BY <3>3, <3>4
    <3>6. queue'[u][t][i] = queue[u][t][i + 1]
      BY <1>1, <3>2, <3>4, TailAt
    <3> DEFINE n == i + 1
               q == queue[u][t][n]
    <3>7. n \in 1..Len(queue[u][t]) /\ 1 < n /\ queue'[u][t][i] = q
      BY <3>5, <3>6
    <3> HIDE DEF n
    <3>8. r.job < q.job \/ (r.job = q.job /\ Rank[r.step] < Rank[q.step])
      BY <2>2, <3>7 DEF Orderly, InTurn
    <3>9. Rank[r.step] \in Nat
      BY <1>1, RankNat
    <3>10. q.job # j \/ q.step # s
      <4>1. r.job \in Nat /\ j = r.job /\ s = r.step
        BY <1>1, <1>6
      <4> HIDE DEF r, q
      <4> QED BY <3>8, <3>9, <4>1
    <3> QED BY <3>1, <3>7, <3>10
  <2> QED BY <2>3, <2>5, <2>6
<1>7. Executed'
  <2> SUFFICES ASSUME NEW s \in Tab, NEW j \in 1..MaxJobs, NEW x \in Writes
               PROVE (made[<<s, j, x>>] <= 1)'
                     /\ ((made[<<s, j, x>>] # 0)' => Over(s, j, x)' /\ Absent(s, j, x)')
    BY DEF Executed
  <2>1. /\ made[<<s, j, x>>] <= 1
        /\ made[<<s, j, x>>] # 0 => Over(s, j, x) /\ Absent(s, j, x)
    BY DEF Executed, Orderly
  <2>2. j \in Nat /\ x \in Step
    BY LeaseAssumption DEF Writes, Step
  <2>3. CASE s = t /\ j = r.job /\ x = r.step
    <3>1. made[<<s, j, x>>] = 0 /\ Over(s, j, x)' /\ Absent(s, j, x)'
      BY <1>6, <2>3
    <3>2. made' \in {made, [made EXCEPT ![<<s, j, x>>] = @ + 1]}
      BY <1>1, <2>3
    <3>3. <<s, j, x>> \in Write /\ made \in [Write -> Nat]
      BY DEF Write, TypeOK
    <3> DEFINE y == <<s, j, x>>
    <3>4. y \in Write /\ made[y] = 0 /\ made' \in {made, [made EXCEPT ![y] = @ + 1]}
      BY <3>1, <3>2, <3>3
    <3> HIDE DEF y
    <3>5. made'[y] <= 1
      BY <3>3, <3>4
    <3> QED BY <3>1, <3>5 DEF y
  <2>4. CASE ~(s = t /\ j = r.job /\ x = r.step)
    <3>1. made'[<<s, j, x>>] = made[<<s, j, x>>]
      <4>1. <<s, j, x>> # w /\ <<s, j, x>> \in Write
        BY <2>4 DEF Write
      <4> HIDE DEF w, ok
      <4> QED BY <1>1, <4>1 DEF TypeOK
    <3> QED BY <1>3, <1>4, <2>1, <2>2, <3>1, OverStays
  <2> QED BY <2>3, <2>4
<1> QED BY <1>5, <1>7 DEF Orderly

\* A step that leaves the jobs alone and at most empties queues.
LEMMA OrderlyAside ==
    ASSUME TypeOK, TypeOK', Orderly, AtFile', made' = made, UNCHANGED work,
           \A u, t \in Tab : queue'[u][t] \in {queue[u][t], <<>>}
    PROVE Orderly'
<1>1. \A t \in Tab : Stays(t)
  BY DEF Stays, work
<1> QED BY <1>1, OrderlyKept

\* A call that fails while it waits is not repeated.
LEMMA OrderlyFailed ==
    ASSUME TypeOK, TypeOK', Orderly, AtFile', NEW u \in Tab, NEW c \in {"wait", "local"},
           made' = made, UNCHANGED <<job, step, attempt>>,
           call' = [call EXCEPT ![u] = IF @ = c THEN "bad" ELSE @],
           \A v, t \in Tab : queue'[v][t] \in {queue[v][t], <<>>}
    PROVE Orderly'
<1>1. ASSUME NEW t \in Tab
      PROVE Stays(t)
  <2>1. call'[t] = call[t] \/ (call[t] = c /\ call'[t] = "bad")
    BY DEF TypeOK
  <2> QED BY <2>1 DEF Stays
<1> QED BY <1>1, OrderlyKept

\* Calls given up by their clocks, or for a new holder, may be made again: the
\* statement waits nowhere.
LEMMA OrderlyAborted ==
    ASSUME TypeOK, TypeOK', Orderly, AtFile', NEW ts \in SUBSET Tab, Aborted(ts),
           UNCHANGED <<queue, job, step, made>>,
           \A t \in ts : call[t] = "wait" =>
               \A u \in Tab : \A i \in 1..Len(queue[u][t]) : queue[u][t][i] # This(t)
    PROVE Orderly'
<1>1. ASSUME NEW t \in Tab
      PROVE Stays(t) \/ Retries(t)
  <2>1. CASE t \in ts /\ call[t] = "wait" /\ attempt[t] = 1
    BY <2>1 DEF Retries
  <2>2. CASE t \in ts /\ call[t] = "wait" /\ attempt[t] # 1
    <3>1. call'[t] = "bad"
      BY <2>2 DEF Aborted
    <3> QED BY <2>2, <3>1 DEF Stays
  <2>3. CASE ~(t \in ts /\ call[t] = "wait")
    <3>1. call'[t] = call[t] /\ attempt'[t] = attempt[t]
      BY <2>3 DEF Aborted
    <3> QED BY <3>1 DEF Stays
  <2> QED BY <2>1, <2>2, <2>3
<1> QED BY <1>1, OrderlyKept

\* Whatever happens in a step that hurries no holder, statements stay in order.
LEMMA StepOrderly ==
    ASSUME TypeOK, TypeOK', Custody, CallsInJobs, Orderly, [Next]_vars, Unhurried,
           "slow" \notin Faults
    PROVE Orderly'
<1> USE LeaseAssumption
<1>0. AtFile'
  BY AtFileKept DEF Orderly
<1>1. CASE UNCHANGED vars
  BY <1>0, <1>1, OrderlyAside DEF vars, work
<1>2. ASSUME NEW u \in Tab, Handover(u)
      PROVE Orderly'
  <2>1. CASE GrantLock(u) \/ AbandonedOpens(u) \/ Release(u)
    <3>1. UNCHANGED <<queue, work, made>>
      BY <2>1 DEF GrantLock, AbandonedOpens, Release
    <3> QED BY <1>0, <3>1, OrderlyAside
  <2>2. CASE Opened(u)
    <3>1. \A v, t \in Tab : queue[v][t] = <<>> /\ Len(queue[v][t]) = 0
      BY <2>2 DEF Opened, Orderly, AtFile
    <3>2. Aborted(Tab) /\ UNCHANGED <<queue, job, step, made>>
      BY <2>2 DEF Opened
    <3> QED BY <1>0, <3>1, <3>2, OrderlyAborted
  <2>3. CASE OpenFails(u)
    <3>1. UNCHANGED <<work, made>> /\ \A v, t \in Tab : queue'[v][t] \in {queue[v][t], <<>>}
      BY <2>3 DEF OpenFails, TypeOK
    <3> QED BY <1>0, <3>1, OrderlyAside
  <2>4. CASE CloseFile(u)
    <3>1. /\ call' = [call EXCEPT ![u] = IF @ = "local" THEN "bad" ELSE @]
          /\ UNCHANGED <<job, step, attempt, made>>
          /\ \A v, t \in Tab : queue'[v][t] \in {queue[v][t], <<>>}
      BY <2>4 DEF CloseFile, TypeOK
    <3> QED BY <1>0, <3>1, OrderlyFailed
  <2> QED BY <1>2, <2>1, <2>2, <2>3, <2>4 DEF Handover
<1>3. ASSUME NEW u \in Tab, StepDown(u) \/ AbandonTransaction(u)
      PROVE Orderly'
  <2>1. UNCHANGED <<queue, work, made>>
    BY <1>3 DEF StepDown, AbandonTransaction
  <2> QED BY <1>0, <2>1, OrderlyAside
<1>4. ASSUME NEW u \in Tab, Close(u)
      PROVE Orderly'
  <2>1. /\ call' = [call EXCEPT ![u] = IF @ = "wait" THEN "bad" ELSE @]
        /\ UNCHANGED <<queue, job, step, attempt, made>>
    BY <1>4 DEF Close
  <2> QED BY <1>0, <2>1, OrderlyFailed
<1>5. ASSUME NEW t \in Tab, NEW bye \in BOOLEAN, Die(t, bye)
      PROVE Orderly'
  <2>1. /\ \A u, s \in Tab : queue'[u][s] \in {queue[u][s], <<>>}
        /\ step' = [step EXCEPT ![t] = "rest"] /\ call' = [call EXCEPT ![t] = "none"]
        /\ UNCHANGED <<job, attempt, made>>
    BY <1>5 DEF Die, TypeOK
  <2>2. Stays(t) \/ Goes(t)
    <3>1. \A s \in Step \ {"rest"} : Rank["rest"] > Rank[s]
      BY DEF Rank, Step
    <3>2. step'[t] = "rest" /\ call'[t] = "none" /\ job'[t] = job[t] /\ step[t] \in Step
      BY <2>1 DEF TypeOK
    <3>3. CASE step[t] = "rest"
      BY <3>2, <3>3 DEF Stays, CallsInJobs
    <3>4. CASE step[t] # "rest"
      BY <3>1, <3>2, <3>4 DEF Goes
    <3> QED BY <3>3, <3>4
  <2>3. \A s \in Tab \ {t} : Stays(s)
    BY <2>1 DEF Stays, TypeOK
  <2> QED BY <1>0, <2>1, <2>2, <2>3, OrderlyKept
<1>6. ASSUME NEW t \in Tab, NEW first \in {"single", "begin"}, StartJob(t, first)
      PROVE Orderly'
  <2>1. /\ UNCHANGED <<queue, made>>
        /\ \A s \in Tab \ {t} : /\ job'[s] = job[s] /\ step'[s] = step[s]
                                /\ call'[s] = call[s] /\ attempt'[s] = attempt[s]
    BY <1>6 DEF StartJob, TypeOK
  <2>2. Goes(t)
    <3>1. job[t] \in Nat /\ job'[t] = job[t] + 1
      BY <1>6 DEF StartJob, TypeOK
    <3> QED BY <3>1 DEF Goes
  <2>3. \A s \in Tab \ {t} : Stays(s)
    BY <2>1 DEF Stays
  <2> QED BY <1>0, <2>1, <2>2, <2>3, OrderlyKept
<1>7. ASSUME NEW t \in Tab, Statement(t)
      PROVE Orderly'
  <2>1. CASE AskLocally(t)
    <3>1. /\ call[t] = "ask" /\ call' = [call EXCEPT ![t] = "local"]
          /\ queue' = [queue EXCEPT ![t][t] = Append(@, This(t))]
          /\ UNCHANGED <<job, step, attempt, made>>
      BY <2>1 DEF AskLocally
    <3> QED BY <1>0, <3>1, OrderlyAsk
  <2>2. CASE AskRemotely(t)
    <3>1. /\ call[t] = "ask" /\ call' = [call EXCEPT ![t] = "wait"]
          /\ UNCHANGED <<job, step, attempt, made>>
          /\ \/ \E u \in Tab : queue' = [queue EXCEPT ![u][t] = Append(@, This(t))]
             \/ queue' = queue
      BY <2>2 DEF AskRemotely
    <3>2. CASE queue' = queue
      <4>1. \A s \in Tab : Stays(s)
        BY <3>1 DEF Stays, TypeOK
      <4> QED BY <1>0, <3>1, <3>2, <4>1, OrderlyKept
    <3>3. CASE \E u \in Tab : queue' = [queue EXCEPT ![u][t] = Append(@, This(t))]
      BY <1>0, <3>1, <3>3, OrderlyAsk
    <3> QED BY <3>1, <3>2, <3>3
  <2>3. CASE AskNobody(t) \/ GiveUp(t)
    <3>1. /\ step[t] # "rest" /\ Advance(t, FALSE) /\ UNCHANGED <<queue, made>>
      BY <2>3 DEF AskNobody, GiveUp, CallsInJobs
    <3>2. PICK a \in Step : /\ step' = [step EXCEPT ![t] = a]
                            /\ call' = [call EXCEPT ![t] = IF a = "rest" THEN "none" ELSE "ask"]
                            /\ Rank[a] > Rank[step[t]]
      BY <3>1, AdvanceMoves
    <3>3. job' = job /\ attempt' = [attempt EXCEPT ![t] = 1]
      BY <3>1, AdvanceMoves
    <3>4. Goes(t) /\ \A s \in Tab \ {t} : Stays(s)
      BY <3>2, <3>3 DEF Goes, Stays, TypeOK
    <3> QED BY <1>0, <3>1, <3>4, OrderlyKept
  <2>4. CASE Timeout(t)
    <3>1. /\ Unanswerable(t) /\ call[t] = "wait" /\ Aborted({t})
          /\ UNCHANGED <<queue, job, step, made>>
      BY <2>4 DEF Timeout
    <3>2. ASSUME NEW u \in Tab, NEW i \in 1..Len(queue[u][t])
          PROVE queue[u][t][i] # This(t)
      <4>1. queue[u][t] # <<>>
        BY <3>2
      <4>2. role[u] # "closed"
        BY <3>1, <4>1 DEF Orderly, AtFile
      <4> QED BY <3>1, <4>2 DEF Unanswerable
    <3> QED BY <1>0, <3>1, <3>2, OrderlyAborted
  <2> QED BY <1>7, <2>1, <2>2, <2>3, <2>4 DEF Statement
<1>8. ASSUME NEW u \in Tab, NEW t \in Tab, Execute(u, t)
      PROVE Orderly'
  BY <1>0, <1>8, OrderlyExecute
<1> QED BY <1>1, <1>2, <1>3, <1>4, <1>5, <1>6, <1>7, <1>8 DEF Next

-----------------------------------------------------------------------------
(* Transactions: the steps.                                                *)

\* No connection goes away from under a job.
Gentle == \A u \in Tab : ~Upsets(u)

\* A tab at rest stays at rest, unless its lease is open.
LEMMA RestStays ==
    ASSUME TypeOK, CallsInJobs, [Next]_vars, NEW t \in Tab, step[t] = "rest",
           step'[t] # "rest"
    PROVE role' = role /\ role[t] \notin {"closing", "closed"}
<1>1. ~UNCHANGED step
  OBVIOUS
<1>2. ASSUME NEW s \in Tab, NEW ok \in BOOLEAN, Advance(s, ok), step[s] # "rest"
      PROVE FALSE
  BY <1>2 DEF Advance, TypeOK
<1>3. ASSUME NEW u \in Tab, Handover(u) \/ StepDown(u) \/ Close(u) \/ AbandonTransaction(u)
      PROVE FALSE
  BY <1>1, <1>3 DEF Handover, GrantLock, Opened, OpenFails, AbandonedOpens, CloseFile,
     Release, StepDown, Close, AbandonTransaction, work
<1>4. ASSUME NEW u \in Tab, NEW bye \in BOOLEAN, Die(u, bye)
      PROVE FALSE
  BY <1>4 DEF Die, TypeOK
<1>5. ASSUME NEW u \in Tab, Statement(u)
      PROVE FALSE
  BY <1>1, <1>2, <1>5 DEF Statement, AskLocally, AskRemotely, AskNobody, GiveUp, Timeout,
     CallsInJobs
<1>6. ASSUME NEW u \in Tab, NEW s \in Tab, Execute(u, s)
      PROVE FALSE
  <2>1. Works(u, Head(queue[u][s]).step) \in BOOLEAN
    BY DEF Works
  <2> QED BY <1>1, <1>2, <1>6, <2>1, ExecuteMoves DEF work
<1>7. ASSUME NEW u \in Tab, NEW first \in {"single", "begin"}, StartJob(u, first)
      PROVE role' = role /\ role[t] \notin {"closing", "closed"}
  BY <1>7 DEF StartJob, TypeOK
<1> QED BY <1>1, <1>3, <1>4, <1>5, <1>6, <1>7 DEF Next, vars, work

\* A gentle step leaves no job without its connection.
LEMMA NothingLeftKept ==
    ASSUME TypeOK, TypeOK', Custody, Custody', CallsInJobs, NothingLeft, [Next]_vars, Gentle
    PROVE NothingLeft'
<1> USE LeaseAssumption
<1>1. \A u \in Tab : role'[u] \notin {"leaving", "gone", "abandoned"}
  BY DEF NothingLeft, Gentle, Upsets
<1>2. ASSUME NEW u \in Tab, role'[u] \in {"closing", "closed"}
      PROVE step'[u] = "rest"
  <2>1. step[u] = "rest"
    BY <1>2 DEF NothingLeft, Gentle, Upsets
  <2> QED BY <1>2, <2>1, RestStays
<1>3. ASSUME file' # NoTab
      PROVE role'[file'] # "closed"
  <2>1. CASE file' = file
    <3>1. role[file] \in {"holder", "closing"} /\ file \in Tab
      BY <1>3, <2>1 DEF Custody, FileRole, NothingLeft
    <3>2. ASSUME role'[file] = "closed"
          PROVE FALSE
      <4>1. role'[file] # role[file]
        BY <3>1, <3>2
      <4>2. ASSUME NEW u \in Tab, Handover(u) PROVE FALSE
        BY <2>1, <3>1, <3>2, <4>2 DEF Handover, GrantLock, Opened, OpenFails,
           AbandonedOpens, CloseFile, Disconnected, Release, TypeOK
      <4>3. ASSUME NEW u \in Tab, Close(u) \/ StepDown(u) PROVE FALSE
        BY <3>1, <3>2, <4>3 DEF Close, StepDown, TypeOK
      <4>4. ASSUME NEW u \in Tab, NEW bye \in BOOLEAN, Die(u, bye) PROVE FALSE
        BY <3>1, <3>2, <4>4 DEF Die, TypeOK
      <4>5. ASSUME NEW u \in Tab,
                   \/ \E first \in {"single", "begin"} : StartJob(u, first)
                   \/ Statement(u) \/ (\E t \in Tab : Execute(u, t)) \/ AbandonTransaction(u)
            PROVE role' = role
        BY <4>5 DEF StartJob, Statement, AskLocally, AskRemotely, AskNobody, GiveUp,
           Timeout, Execute, AbandonTransaction
      <4> QED BY <4>1, <4>2, <4>3, <4>4, <4>5 DEF Next, vars
    <3> QED BY <2>1, <3>2
  <2>2. CASE file' # file
    <3>1. \A u \in Tab : ~AbandonedOpens(u)
      BY DEF AbandonedOpens, NothingLeft
    <3>2. ASSUME NEW u \in Tab, Handover(u) PROVE role'[file'] # "closed"
      BY <1>3, <2>2, <3>1, <3>2 DEF Handover, GrantLock, Opened, OpenFails, CloseFile,
         Disconnected, Release, TypeOK
    <3>3. ASSUME NEW u \in Tab, NEW bye \in BOOLEAN, Die(u, bye) PROVE FALSE
      BY <1>3, <2>2, <3>3 DEF Die, Disconnected
    <3>4. ASSUME NEW u \in Tab,
                 \/ StepDown(u) \/ Close(u)
                 \/ \E first \in {"single", "begin"} : StartJob(u, first)
                 \/ Statement(u) \/ (\E t \in Tab : Execute(u, t)) \/ AbandonTransaction(u)
          PROVE file' = file
      BY <3>4 DEF StartJob, Statement, AskLocally, AskRemotely, AskNobody, GiveUp,
         Timeout, Execute, AbandonTransaction, StepDown, Close, connection
    <3> QED BY <2>2, <3>2, <3>3, <3>4 DEF Next, vars, connection
  <2> QED BY <2>1, <2>2
<1> QED BY <1>1, <1>2, <1>3 DEF NothingLeft

\* A queue without a second statement.
LEMMA SingleRequest ==
    ASSUME NEW S, NEW q \in Seq(S), q # <<>>, ~(2 \in 1..Len(q))
    PROVE q = <<q[1]>> /\ Tail(q) = <<>>
<1> DEFINE n == Len(q)
<1>1. n \in Nat /\ n # 0 /\ ~(2 \in 1..n)
  BY EmptySeq
<1>2. n = 1
  <2> HIDE DEF n
  <2> QED BY <1>1
<1>3. <<q[1]>> \in Seq(S) /\ Len(<<q[1]>>) = 1 /\ <<q[1]>>[1] = q[1]
  BY <1>2
<1>4. q = <<q[1]>>
  BY <1>2, <1>3
<1>5. Tail(q) \in Seq(S) /\ Len(Tail(q)) = 0
  BY <1>2, HeadTailProperties
<1> QED BY <1>4, <1>5, EmptySeq

\* A tab has at most the one statement waiting that it is at, and none while
\* it is about to ask.
LEMMA SoleCall ==
    ASSUME TypeOK, Orderly, Answerable, NEW u \in Tab, NEW t \in Tab
    PROVE /\ queue[u][t] # <<>> =>
                /\ queue[u][t] = <<queue[u][t][1]>> /\ queue[u][t][1] = This(t)
                /\ Tail(queue[u][t]) = <<>>
                /\ call[t] \in {"wait", "local"}
          /\ call[t] \notin {"wait", "local"} => queue[u][t] = <<>>
<1> SUFFICES ASSUME queue[u][t] # <<>>
             PROVE /\ queue[u][t] = <<queue[u][t][1]>> /\ queue[u][t][1] = This(t)
                   /\ Tail(queue[u][t]) = <<>>
                   /\ call[t] \in {"wait", "local"}
  OBVIOUS
<1>1. queue[u][t] \in Seq(Request) /\ Len(queue[u][t]) \in Nat
  BY QueueTyped
<1>2. 1 \in 1..Len(queue[u][t])
  BY <1>1
<1>3. queue[u][t][1] = This(t) /\ call[t] \in {"wait", "local"}
  BY <1>2 DEF Answerable
<1>4. ~(2 \in 1..Len(queue[u][t]))
  <2> SUFFICES ASSUME 2 \in 1..Len(queue[u][t])
               PROVE FALSE
    OBVIOUS
  <2>1. queue[u][t][2] = queue[u][t][1]
    BY <1>3 DEF Answerable
  <2>2. LET r == queue[u][t][1] q == queue[u][t][2]
        IN  r.job < q.job \/ (r.job = q.job /\ Rank[r.step] < Rank[q.step])
    BY <1>2 DEF Orderly, InTurn
  <2>3. queue[u][t][1].job \in Nat /\ Rank[queue[u][t][1].step] \in Nat
    BY <1>2, QueueTyped, RankNat
  <2> QED BY <2>1, <2>2, <2>3
<1>5. queue[u][t] = <<queue[u][t][1]>> /\ Tail(queue[u][t]) = <<>>
  BY <1>1, <1>4, SingleRequest
<1> QED BY <1>3, <1>5

\* Queues and calls a step has nothing to do with stay answerable.
LEMMA AnswerableKept ==
    ASSUME Answerable,
           \A u, t \in Tab : queue'[u][t] # <<>> =>
               /\ queue'[u][t] = queue[u][t] /\ call'[t] = call[t]
               /\ job'[t] = job[t] /\ step'[t] = step[t] /\ attempt'[t] = attempt[t],
           \A t \in Tab : file' # NoTab /\ call'[t] = "wait" /\ role'[file'] = "holder" =>
               /\ file = file' /\ call[t] = "wait" /\ role[file] = "holder"
               /\ queue'[file][t] = queue[file][t]
    PROVE Answerable'
<1>1. ASSUME NEW u \in Tab, NEW t \in Tab, NEW i \in 1..Len(queue'[u][t])
      PROVE queue'[u][t][i] = This(t)' /\ call'[t] \in {"wait", "local"}
  <2>1. queue'[u][t] # <<>>
    <3>1. Len(<<>>) = 0
      OBVIOUS
    <3> QED BY <1>1, <3>1
  <2>2. queue[u][t][i] = This(t) /\ call[t] \in {"wait", "local"}
    BY <1>1, <2>1 DEF Answerable
  <2> QED BY <2>1, <2>2 DEF This
<1>2. ASSUME NEW t \in Tab, file' # NoTab, call'[t] = "wait", role'[file'] = "holder"
      PROVE queue'[file'][t] # <<>>
  BY <1>2 DEF Answerable
<1> QED BY <1>1, <1>2 DEF Answerable

\* A transaction a step has nothing to do with stays as it is.
LEMMA TransactingKept ==
    ASSUME Transacting, UNCHANGED <<txn, pend, disk, ack>>,
           txn # NoTab => /\ file' = file /\ gate'[file] = gate[file]
                          /\ job'[txn] = job[txn] /\ step'[txn] = step[txn]
                          /\ call'[txn] # "bad"
    PROVE Transacting'
BY DEF Transacting

\* A step that leaves jobs and statements alone, and turns nobody into a holder.
LEMMA UndisturbedAside ==
    ASSUME Undisturbed, NothingLeft', UNCHANGED <<file, txn, pend, disk, queue, work>>,
           file # NoTab /\ role'[file] = "holder" => role[file] = "holder",
           txn # NoTab => gate'[file] = gate[file]
    PROVE Undisturbed'
<1>1. Answerable'
  BY AnswerableKept DEF Undisturbed, work
<1>2. Transacting'
  BY TransactingKept DEF Undisturbed, Transacting, work
<1> QED BY <1>1, <1>2 DEF Undisturbed

\* The connection is passed on by those who are in no transaction.
LEMMA HandoverUndisturbed ==
    ASSUME TypeOK, Custody, NothingOpen, Orderly, Undisturbed, NothingLeft',
           NEW u \in Tab, Handover(u)
    PROVE Undisturbed'
<1> USE LeaseAssumption
<1>1. CASE GrantLock(u)
  BY <1>1, UndisturbedAside DEF GrantLock, TypeOK
<1>2. CASE Opened(u)
  <2>1. /\ file = NoTab /\ UNCHANGED <<txn, pend, disk, gate, queue, job, step, ack>>
        /\ \A t \in Tab : call'[t] # "wait"
    BY <1>2 DEF Opened, Aborted
  <2>2. \A v, t \in Tab : queue'[v][t] = <<>>
    BY <2>1 DEF Orderly, AtFile
  <2>3. Answerable'
    BY <2>1, <2>2, AnswerableKept DEF Undisturbed
  <2>4. Transacting'
    BY <2>1, TransactingKept DEF Undisturbed, NothingOpen
  <2> QED BY <2>3, <2>4 DEF Undisturbed
<1>3. CASE OpenFails(u)
  <2>1. /\ file # u /\ UNCHANGED <<file, txn, pend, disk, gate, work>>
        /\ role' = [role EXCEPT ![u] = "orphan"]
        /\ queue' = [queue EXCEPT ![u] = [t \in Tab |-> <<>>]]
    BY <1>3 DEF OpenFails, Custody, FileRole
  <2>2. \A t \in Tab : queue[u][t] = <<>>
    BY <2>1 DEF Orderly, AtFile
  <2>3. queue' = queue
    BY <2>1, <2>2 DEF TypeOK
  <2> QED BY <2>1, <2>3, UndisturbedAside DEF TypeOK
<1>4. CASE AbandonedOpens(u)
  BY <1>4 DEF AbandonedOpens, Undisturbed, NothingLeft
<1>5. CASE CloseFile(u)
  <2>1. /\ file = u /\ file' = NoTab /\ txn' = NoTab /\ pend' = {}
        /\ UNCHANGED <<disk, ack>>
        /\ \A t \in Tab : queue'[u][t] = <<>>
        /\ \A v \in Tab \ {u} : queue'[v] = queue[v]
    BY <1>5 DEF CloseFile, Disconnected, TypeOK
  <2>2. \A v, t \in Tab : queue'[v][t] = <<>>
    BY <2>1 DEF Orderly, AtFile
  <2>3. Answerable'
    BY <2>1, <2>2, AnswerableKept DEF Undisturbed
  <2>4. Transacting'
    BY <2>1 DEF Undisturbed, Transacting
  <2> QED BY <2>3, <2>4 DEF Undisturbed
<1>6. CASE Release(u)
  <2>1. role' = [role EXCEPT ![u] = IF @ = "leaving" THEN "queued" ELSE "closed"]
        /\ UNCHANGED <<file, txn, pend, disk, gate, queue, work>>
    BY <1>6 DEF Release
  <2> QED BY <2>1, UndisturbedAside DEF TypeOK
<1> QED BY <1>1, <1>2, <1>3, <1>4, <1>5, <1>6 DEF Handover

\* What a tab asks, gives up or waits in vain for disturbs no transaction.
LEMMA StatementUndisturbed ==
    ASSUME TypeOK, Custody, CallsInJobs, Orderly, Undisturbed, NothingLeft',
           Unhurried, "slow" \notin Faults, NEW t \in Tab, Statement(t)
    PROVE Undisturbed'
<1> USE LeaseAssumption
<1>1. ASSUME NEW c \in {"wait", "local"}, call[t] = "ask",
             call' = [call EXCEPT ![t] = c],
             UNCHANGED <<role, connection, gate, job, step, attempt, ack>>,
             NEW u \in Tab, file = u, role[u] # "holder" => c # "wait",
             queue' = [queue EXCEPT ![u][t] = Append(@, This(t))]
      PROVE Undisturbed'
  <2>1. \A v \in Tab : queue[v][t] = <<>>
    BY <1>1, SoleCall DEF Undisturbed
  <2>2. queue'[u][t] = <<This(t)>>
    <3>1. queue'[u][t] = Append(queue[u][t], This(t))
      BY <1>1 DEF TypeOK
    <3>2. queue'[u][t] = Append(<<>>, This(t))
      BY <2>1, <3>1
    <3> QED BY <3>2
  <2>3. \A v, s \in Tab : v # u \/ s # t => queue'[v][s] = queue[v][s]
    BY <1>1 DEF TypeOK
  <2>4. \A s \in Tab : This(s)' = This(s)
    BY <1>1 DEF This
  <2>5. ASSUME NEW v \in Tab, NEW s \in Tab, NEW i \in 1..Len(queue'[v][s])
        PROVE queue'[v][s][i] = This(s)' /\ call'[s] \in {"wait", "local"}
    <3>1. Len(<<>>) = 0 /\ Len(<<This(t)>>) = 1 /\ <<This(t)>>[1] = This(t)
      OBVIOUS
    <3>2. CASE v = u /\ s = t
      <4>1. i = 1
        <5>1. Len(queue'[v][s]) = 1
          BY <2>2, <3>1, <3>2
        <5> QED BY <2>5, <5>1
      <4>2. queue'[v][s][i] = This(t)
        BY <2>2, <3>1, <3>2, <4>1
      <4> QED BY <1>1, <2>4, <3>2, <4>2 DEF TypeOK
    <3>3. CASE s = t /\ v # u
      BY <2>1, <2>3, <2>5, <3>1, <3>3
    <3>4. CASE s # t
      <4>1. queue'[v][s] = queue[v][s] /\ call'[s] = call[s]
        BY <1>1, <2>3, <3>4 DEF TypeOK
      <4> QED BY <2>4, <2>5, <4>1 DEF Undisturbed, Answerable
    <3> QED BY <3>2, <3>3, <3>4
  <2>6. ASSUME NEW s \in Tab, call'[s] = "wait", role'[file'] = "holder"
        PROVE queue'[file'][s] # <<>>
    <3>1. CASE s = t
      BY <1>1, <2>2, <3>1 DEF connection
    <3>2. CASE s # t
      BY <1>1, <2>3, <2>6, <3>2 DEF connection, Undisturbed, Answerable, TypeOK
    <3> QED BY <3>1, <3>2
  <2>7. Answerable'
    BY <2>5, <2>6 DEF Answerable
  <2>8. Transacting'
    BY <1>1, TransactingKept DEF Undisturbed, Transacting, connection, TypeOK
  <2> QED BY <2>7, <2>8 DEF Undisturbed
<1>2. CASE AskLocally(t)
  <2>1. file = t
    BY <1>2 DEF AskLocally, HasLocal, Custody
  <2> QED BY <1>1, <1>2, <2>1 DEF AskLocally
<1>3. CASE AskRemotely(t)
  <2>1. /\ call[t] = "ask" /\ call' = [call EXCEPT ![t] = "wait"]
        /\ UNCHANGED <<role, connection, gate, job, step, attempt, ack>>
    BY <1>3 DEF AskRemotely
  <2>2. ASSUME NEW u \in Tab, Owning(u), queue' = [queue EXCEPT ![u][t] = Append(@, This(t))]
        PROVE Undisturbed'
    <3>1. Len(queue'[u][t]) > Len(queue[u][t])
      BY <2>2, QueueTyped DEF TypeOK
    <3>2. role[u] = "holder" /\ file = u
      BY <2>2, <3>1 DEF Owning, Unhurried, Custody
    <3> QED BY <1>1, <2>1, <2>2, <3>2
  <2>3. ASSUME \A u \in Tab : ~Owning(u), queue' = queue
        PROVE Undisturbed'
    <3>1. \A u \in Tab : queue[u][t] = <<>>
      BY <2>1, SoleCall DEF Undisturbed
    <3>2. file # NoTab => role[file] # "holder"
      BY <2>3 DEF Owning, Custody
    <3>3. Answerable'
      BY <2>1, <2>3, <3>1, <3>2, AnswerableKept DEF Undisturbed, connection, TypeOK
    <3>4. Transacting'
      BY <2>1, TransactingKept DEF Undisturbed, Transacting, connection, TypeOK
    <3> QED BY <3>3, <3>4 DEF Undisturbed
  <2> QED BY <1>3, <2>2, <2>3 DEF AskRemotely
<1>4. CASE AskNobody(t)
  BY <1>4 DEF AskNobody, Undisturbed, NothingLeft, CallsInJobs
<1>5. CASE GiveUp(t)
  <2>1. step[t] # "rest" /\ Advance(t, FALSE) /\ call[t] = "bad"
        /\ UNCHANGED <<role, connection, gate, queue>>
    BY <1>5 DEF GiveUp, CallsInJobs
  <2>2. /\ ack' = ack
        /\ call'[t] \in {"none", "ask"}
        /\ \A s \in Tab \ {t} : /\ job'[s] = job[s] /\ step'[s] = step[s]
                                /\ call'[s] = call[s] /\ attempt'[s] = attempt[s]
    BY <2>1 DEF Advance, Told, TypeOK
  <2>3. \A u \in Tab : queue[u][t] = <<>>
    BY <2>1, SoleCall DEF Undisturbed
  <2>4. Answerable'
    BY <2>1, <2>2, <2>3, AnswerableKept DEF Undisturbed, connection
  <2>5. Transacting'
    <3>1. txn # NoTab => txn \in Tab \ {t}
      BY <2>1 DEF Undisturbed, Transacting, TypeOK
    <3> QED BY <2>1, <2>2, <3>1, TransactingKept DEF Undisturbed, Transacting, connection
  <2> QED BY <2>4, <2>5 DEF Undisturbed
<1>6. CASE Timeout(t)
  <2>1. /\ call[t] = "wait" /\ Unanswerable(t) /\ Aborted({t})
        /\ UNCHANGED <<role, connection, gate, queue, job, step, ack>>
    BY <1>6 DEF Timeout
  <2>2. /\ call'[t] \in {"ask", "bad"}
        /\ \A s \in Tab \ {t} : call'[s] = call[s] /\ attempt'[s] = attempt[s]
    BY <2>1 DEF Aborted, TypeOK
  <2>3. ASSUME NEW u \in Tab
        PROVE queue[u][t] = <<>>
    <3> SUFFICES ASSUME queue[u][t] # <<>>
                 PROVE FALSE
      OBVIOUS
    <3>1. queue[u][t][1] = This(t) /\ 1 \in 1..Len(queue[u][t])
      BY SoleCall, QueueTyped DEF Undisturbed
    <3>2. role[u] # "closed"
      BY <2>1 DEF Orderly, AtFile
    <3> QED BY <2>1, <3>1, <3>2 DEF Unanswerable
  <2>4. Answerable'
    BY <2>1, <2>2, <2>3, AnswerableKept DEF Undisturbed, connection
  <2>5. txn # t
    <3> SUFFICES ASSUME txn = t
                 PROVE FALSE
      OBVIOUS
    <3>1. file \in Tab /\ role[file] \in {"holder", "closing"}
      BY DEF Undisturbed, Transacting, NothingLeft, Custody, FileRole
    <3>2. role[file] # "closing"
      BY <2>1, <3>1 DEF Unanswerable, Settling
    <3>3. role[file] # "holder"
      BY <2>1, <2>3, <3>1 DEF Undisturbed, Answerable
    <3> QED BY <3>1, <3>2, <3>3
  <2>6. Transacting'
    <3>1. txn # NoTab => txn \in Tab \ {t}
      BY <2>5 DEF TypeOK
    <3> QED BY <2>1, <2>2, <3>1, TransactingKept DEF Undisturbed, Transacting, connection
  <2> QED BY <2>4, <2>6 DEF Undisturbed
<1> QED BY <1>2, <1>3, <1>4, <1>5, <1>6 DEF Statement

\* What a statement may come to, by what its job is at and by whether there is
\* a transaction: the connection and the application after it.
Written(t) == <<t, job[t], step[t]>>

SingleLands(t) ==
    /\ step[t] = "single" /\ txn = NoTab
    /\ disk' = disk \cup {Written(t)} /\ ack' = ack \cup {Written(t)}
    /\ UNCHANGED <<txn, pend>>
    /\ step'[t] = "rest"

Begins(t) ==
    /\ step[t] = "begin" /\ txn = NoTab
    /\ txn' = t /\ pend' = {} /\ gate'[file] = t
    /\ UNCHANGED <<disk, ack>>
    /\ step'[t] = "first"

GoesOn(t) ==
    /\ step[t] \in {"first", "second"}
    /\ step'[t] \in {IF step[t] = "first" THEN "second" ELSE "commit", "rollback"}

WritesWithin(t) ==
    /\ GoesOn(t)
    /\ txn = t /\ txn' = t /\ gate'[file] = t
    /\ pend' = pend \cup {Written(t)}
    /\ UNCHANGED <<disk, ack>>

WritesAstray(t) ==
    /\ GoesOn(t)
    /\ txn = NoTab
    /\ disk' = disk \cup {Written(t)}
    /\ UNCHANGED <<txn, pend, ack>>

EndsNothing(t) ==
    /\ step[t] \in {"commit", "rollback"} /\ txn = NoTab
    /\ UNCHANGED <<txn, pend, disk, ack>>
    /\ step'[t] = IF step[t] = "commit" THEN "rollback" ELSE "rest"

Commits(t) ==
    /\ step[t] = "commit" /\ txn = t
    /\ {<<t, job[t], "first">>, <<t, job[t], "second">>} \subseteq pend
    /\ txn' = NoTab /\ pend' = {} /\ disk' = disk \cup pend
    /\ ack' = ack \cup {<<t, job[t], "first">>, <<t, job[t], "second">>}
    /\ step'[t] = "rest"

RollsBack(t) ==
    /\ step[t] = "rollback" /\ txn = t
    /\ txn' = NoTab /\ pend' = {}
    /\ UNCHANGED <<disk, ack>>
    /\ step'[t] = "rest"

Outcome(t) ==
    \/ SingleLands(t) \/ Begins(t) \/ WritesWithin(t) \/ WritesAstray(t)
    \/ EndsNothing(t) \/ Commits(t) \/ RollsBack(t)

\* What is executed is what the tab is at, and nobody has executed it yet; its
\* caller hears of the outcome.
LEMMA ExecuteOutcome ==
    ASSUME TypeOK, Custody, CallsInJobs, Orderly, Undisturbed,
           NEW u \in Tab, NEW t \in Tab, Execute(u, t)
    PROVE /\ file = u /\ UNCHANGED <<role, file, job>>
          /\ queue[u][t] # <<>> /\ Tail(queue[u][t]) = <<>>
          /\ queue' = [queue EXCEPT ![u][t] = Tail(@)]
          /\ call'[t] \in {"none", "ask"}
          /\ \A v \in Tab \ {t} : /\ step'[v] = step[v]
                                  /\ call'[v] = call[v] /\ attempt'[v] = attempt[v]
          /\ \A w \in Write : made[w] # 0 => made'[w] # 0
          /\ step[t] \in Writes => /\ Written(t) \in Write
                                  /\ made[Written(t)] = 0 /\ made'[Written(t)] # 0
          /\ Outcome(t)
<1> USE LeaseAssumption
<1> DEFINE s == step[t]
           w == Written(t)
           ok == Works(u, s)
<1>1. /\ queue[u][t] # <<>> /\ Head(queue[u][t]) = This(t) /\ Tail(queue[u][t]) = <<>>
      /\ call[t] \in {"wait", "local"}
      /\ file = u /\ (t = u \/ role[u] # "closed")
  <2>1. queue[u][t] # <<>>
    BY DEF Execute
  <2>2. Head(queue[u][t]) = queue[u][t][1]
    BY ExecuteMoves
  <2> QED BY <2>1, <2>2, SoleCall DEF Undisturbed, Orderly, AtFile
<1>2. This(t).step = s /\ This(t).job = job[t]
  BY DEF This
<1>3. /\ s \in Step \ {"rest"} /\ Advance(t, ok) /\ GateAdmits(u, t)
      /\ queue' = [queue EXCEPT ![u][t] = Tail(@)] /\ UNCHANGED <<role, file>>
      /\ txn' = IF ~ok THEN txn
                ELSE CASE s = "begin" -> t
                       [] s \in {"commit", "rollback"} -> NoTab
                       [] OTHER -> txn
      /\ pend' = IF ~ok THEN pend
                 ELSE CASE s \in {"commit", "rollback"} -> {}
                        [] s \in Writes /\ txn # NoTab -> pend \cup {w}
                        [] OTHER -> pend
      /\ disk' = IF ~ok THEN disk
                 ELSE CASE s = "commit" -> disk \cup pend
                        [] s \in Writes /\ txn = NoTab -> disk \cup {w}
                        [] OTHER -> disk
      /\ gate' = [gate EXCEPT ![u] = Holder(u, t, s, ok)]
      /\ made' = IF ok /\ s \in Writes THEN [made EXCEPT ![w] = @ + 1] ELSE made
  <2>1. s \in Step \ {"rest"}
    BY <1>1 DEF TypeOK, CallsInJobs
  <2>2. Head(queue[u][t]).step = s /\ Head(queue[u][t]).job = job[t]
    BY <1>1, <1>2
  <2>3. Advance(t, ok) /\ GateAdmits(u, t)
    BY <1>1, <2>2 DEF Execute
  <2>4. queue' = [queue EXCEPT ![u][t] = Tail(@)] /\ UNCHANGED <<role, file>>
    BY DEF Execute
  <2>5. txn' = IF ~ok THEN txn
               ELSE CASE s = "begin" -> t
                      [] s \in {"commit", "rollback"} -> NoTab
                      [] OTHER -> txn
    BY <2>2 DEF Execute
  <2> DEFINE h == Head(queue[u][t])
             x == <<t, h.job, h.step>>
             can == Works(u, h.step)
  <2>9. h.step = s /\ x = w /\ can = ok
    BY <2>2 DEF Written
  <2>6. pend' = IF ~ok THEN pend
                ELSE CASE s \in {"commit", "rollback"} -> {}
                       [] s \in Writes /\ txn # NoTab -> pend \cup {w}
                       [] OTHER -> pend
    <3>1. pend' = IF ~can THEN pend
                  ELSE CASE h.step \in {"commit", "rollback"} -> {}
                         [] h.step \in Writes /\ txn # NoTab -> pend \cup {x}
                         [] OTHER -> pend
      BY DEF Execute
    <3> HIDE DEF h, x, can, s, w, ok
    <3> QED BY <2>9, <3>1
  <2>7. disk' = IF ~ok THEN disk
                ELSE CASE s = "commit" -> disk \cup pend
                       [] s \in Writes /\ txn = NoTab -> disk \cup {w}
                       [] OTHER -> disk
    <3>1. disk' = IF ~can THEN disk
                  ELSE CASE h.step = "commit" -> disk \cup pend
                         [] h.step \in Writes /\ txn = NoTab -> disk \cup {x}
                         [] OTHER -> disk
      BY DEF Execute
    <3> HIDE DEF h, x, can, s, w, ok
    <3> QED BY <2>9, <3>1
  <2>8. gate' = [gate EXCEPT ![u] = Holder(u, t, s, ok)]
    BY <2>2 DEF Execute
  <2>10. made' = IF ok /\ s \in Writes THEN [made EXCEPT ![w] = @ + 1] ELSE made
    <3>1. made' = IF can /\ h.step \in Writes THEN [made EXCEPT ![x] = @ + 1] ELSE made
      BY ExecuteMoves
    <3> HIDE DEF h, x, can, s, w, ok
    <3> QED BY <2>9, <3>1
  <2> QED BY <2>1, <2>3, <2>4, <2>5, <2>6, <2>7, <2>8, <2>10
<1>4. ok \in BOOLEAN /\ (ok <=> /\ s = "begin" => txn = NoTab
                                /\ s \in {"commit", "rollback"} => txn # NoTab)
  BY <1>1 DEF Works
<1>5. /\ txn \in {NoTab, t}
      /\ txn # NoTab => /\ gate[u] = t /\ s \in {"first", "second", "commit", "rollback"}
                        /\ s \in {"second", "commit"} => <<t, job[t], "first">> \in pend
                        /\ s = "commit" => <<t, job[t], "second">> \in pend
  BY <1>1, <1>3 DEF GateAdmits, Undisturbed, Transacting, TypeOK
<1>6. txn = NoTab => pend = {}
  BY DEF Undisturbed, Transacting, TypeOK, Write
<1>7. PICK a \in Following(s, ok) :
         /\ step' = [step EXCEPT ![t] = a]
         /\ call' = [call EXCEPT ![t] = IF a = "rest" THEN "none" ELSE "ask"]
  BY <1>3 DEF Advance
<1>8. /\ job' = job /\ ack' = ack \cup Told(t, ok)
      /\ step'[t] = a /\ call'[t] \in {"none", "ask"}
      /\ \A v \in Tab \ {t} : /\ step'[v] = step[v]
                              /\ call'[v] = call[v] /\ attempt'[v] = attempt[v]
  BY <1>3, <1>7 DEF Advance, TypeOK
<1>9. \A x \in Write : made[x] # 0 => made'[x] # 0
  BY <1>3 DEF TypeOK
<1>10. s \in Writes => w \in Write /\ made[w] = 0 /\ made'[w] # 0
  <2> SUFFICES ASSUME s \in Writes
               PROVE w \in Write /\ made[w] = 0 /\ made'[w] # 0
    OBVIOUS
  <2>1. job[t] \in 1..MaxJobs /\ w \in Write
    BY <1>1, <1>3 DEF TypeOK, CallsInJobs, Write, Written
  <2>2. made[w] = 0
    <3>1. 1 \in 1..Len(queue[u][t]) /\ queue[u][t][1] = This(t)
      BY <1>1, QueueTyped
    <3>2. ~Absent(t, job[t], s)
      BY <1>2, <3>1 DEF Absent
    <3> QED BY <2>1, <3>2 DEF Orderly, Executed, Written
  <2>3. ok
    BY <1>4 DEF Writes
  <2> QED BY <1>3, <2>1, <2>2, <2>3 DEF TypeOK
<1>11. gate'[file] = Holder(u, t, s, ok)
  BY <1>1, <1>3 DEF TypeOK
<1> HIDE DEF ok
<1>12. ASSUME s = "single"
       PROVE Outcome(t)
  <2>1. txn = NoTab /\ ok
    BY <1>4, <1>5, <1>12
  <2>2. a = "rest" /\ Told(t, ok) = {w}
    BY <1>7, <1>12, <2>1 DEF Following, Told, Written
  <2>3. SingleLands(t)
    BY <1>3, <1>8, <1>12, <2>1, <2>2 DEF SingleLands, Writes
  <2> QED BY <2>3 DEF Outcome
<1>13. ASSUME s = "begin"
       PROVE Outcome(t)
  <2>1. txn = NoTab /\ ok
    BY <1>4, <1>5, <1>13
  <2>2. a = "first" /\ Told(t, ok) = {}
    BY <1>7, <1>13, <2>1 DEF Following, Told
  <2>3. Begins(t)
    BY <1>3, <1>6, <1>8, <1>11, <1>13, <2>1, <2>2 DEF Begins, Writes, Holder
  <2> QED BY <2>3 DEF Outcome
<1>14. ASSUME s \in {"first", "second"}
       PROVE Outcome(t)
  <2>1. ok /\ Told(t, ok) = {} /\ GoesOn(t)
    BY <1>4, <1>7, <1>8, <1>14 DEF Following, Told, GoesOn
  <2>2. txn = NoTab => WritesAstray(t)
    BY <1>3, <1>8, <1>14, <2>1 DEF WritesAstray, Writes
  <2>3. txn = t => WritesWithin(t)
    BY <1>3, <1>5, <1>8, <1>11, <1>14, <2>1 DEF WritesWithin, Writes, Holder
  <2> QED BY <1>5, <2>2, <2>3 DEF Outcome
<1>15. ASSUME s \in {"commit", "rollback"} /\ txn = NoTab
       PROVE Outcome(t)
  <2>1. ~ok
    BY <1>4, <1>15
  <2>2. Told(t, ok) = {} /\ a = IF s = "commit" THEN "rollback" ELSE "rest"
    BY <1>7, <1>15, <2>1 DEF Following, Told
  <2>3. EndsNothing(t)
    BY <1>3, <1>8, <1>15, <2>1, <2>2 DEF EndsNothing
  <2> QED BY <2>3 DEF Outcome
<1>16. ASSUME s = "commit" /\ txn # NoTab
       PROVE Outcome(t)
  <2>1. ok /\ txn = t
    BY <1>4, <1>5, <1>16
  <2>2. a = "rest" /\ Told(t, ok) = {<<t, job[t], "first">>, <<t, job[t], "second">>}
    BY <1>7, <1>16, <2>1 DEF Following, Told
  <2>3. Commits(t)
    BY <1>3, <1>5, <1>8, <1>16, <2>1, <2>2 DEF Commits, Writes
  <2> QED BY <2>3 DEF Outcome
<1>17. ASSUME s = "rollback" /\ txn # NoTab
       PROVE Outcome(t)
  <2>1. ok /\ txn = t
    BY <1>4, <1>5, <1>17
  <2>2. a = "rest" /\ Told(t, ok) = {}
    BY <1>7, <1>17, <2>1 DEF Following, Told
  <2>3. RollsBack(t)
    BY <1>3, <1>8, <1>17, <2>1, <2>2 DEF RollsBack, Writes
  <2> QED BY <2>3 DEF Outcome
<1>18. Outcome(t)
  <2>1. s \in {"single", "begin", "first", "second", "commit", "rollback"}
    BY <1>3 DEF Step
  <2> QED BY <1>12, <1>13, <1>14, <1>15, <1>16, <1>17, <2>1
<1> QED BY <1>1, <1>3, <1>8, <1>9, <1>10, <1>18

\* A statement that has its turn disturbs no transaction, its own or another's.
LEMMA ExecuteUndisturbed ==
    ASSUME TypeOK, Custody, CallsInJobs, Orderly, Undisturbed, NothingLeft',
           NEW u \in Tab, NEW t \in Tab, Execute(u, t)
    PROVE Undisturbed'
<1> USE LeaseAssumption
<1>1. /\ file = u /\ UNCHANGED <<role, file, job>>
      /\ queue[u][t] # <<>> /\ Tail(queue[u][t]) = <<>>
      /\ queue' = [queue EXCEPT ![u][t] = Tail(@)]
      /\ call'[t] \in {"none", "ask"} /\ Outcome(t)
      /\ \A v \in Tab \ {t} : step'[v] = step[v] /\ call'[v] = call[v] /\ attempt'[v] = attempt[v]
  BY ExecuteOutcome
<1>2. Answerable'
  <2>1. \A v, x \in Tab : queue'[v][x] # <<>> => x # t /\ queue'[v][x] = queue[v][x]
    <3>1. \A v \in Tab \ {u} : queue[v][t] = <<>>
      BY <1>1 DEF Orderly, AtFile
    <3>2. queue'[u][t] = <<>> /\ \A v, x \in Tab : v # u \/ x # t => queue'[v][x] = queue[v][x]
      BY <1>1 DEF TypeOK
    <3> QED BY <3>1, <3>2
  <2>2. \A x \in Tab : call'[x] = "wait" =>
           x # t /\ call[x] = "wait" /\ queue'[file][x] = queue[file][x]
    BY <1>1 DEF TypeOK
  <2> QED BY <1>1, <2>1, <2>2, AnswerableKept DEF Undisturbed
<1>3. (\A x \in pend : x[1] = txn) /\ ack \subseteq disk
      /\ (txn = t /\ step[t] = "second" => <<t, job[t], "first">> \in pend)
  BY DEF Undisturbed, Transacting, TypeOK
<1>4. txn = NoTab => pend = {}
  BY DEF Undisturbed, Transacting, TypeOK, Write
<1>5. CASE SingleLands(t)
  BY <1>2, <1>3, <1>4, <1>5 DEF SingleLands, Undisturbed, Transacting
<1>6. CASE Begins(t)
  BY <1>1, <1>2, <1>3, <1>6 DEF Begins, Undisturbed, Transacting
<1>7. CASE WritesWithin(t)
  <2>1. /\ txn' = t /\ gate'[file] = t /\ pend' = pend \cup {Written(t)}
        /\ disk' = disk /\ ack' = ack
        /\ step'[t] \in {"second", "commit", "rollback"}
    BY <1>7 DEF WritesWithin, GoesOn
  <2>2. /\ step'[t] \in {"second", "commit"} => <<t, job[t], "first">> \in pend'
        /\ step'[t] = "commit" => <<t, job[t], "second">> \in pend'
    BY <1>3, <1>7, <2>1 DEF WritesWithin, GoesOn, Written
  <2>3. \A x \in pend' : x[1] = t
    BY <1>3, <1>7, <2>1 DEF WritesWithin, Written
  <2> QED BY <1>1, <1>2, <1>3, <2>1, <2>2, <2>3 DEF Undisturbed, Transacting
<1>8. CASE WritesAstray(t) \/ EndsNothing(t)
  BY <1>2, <1>3, <1>4, <1>8 DEF WritesAstray, EndsNothing, Undisturbed, Transacting
<1>9. CASE Commits(t) \/ RollsBack(t)
  BY <1>2, <1>3, <1>9 DEF Commits, RollsBack, Undisturbed, Transacting
<1> QED BY <1>1, <1>5, <1>6, <1>7, <1>8, <1>9 DEF Outcome

\* No step that is gentle and hurries no holder disturbs a transaction.
LEMMA StepUndisturbed ==
    ASSUME TypeOK, TypeOK', Custody, Custody', CallsInJobs, NothingOpen, Orderly,
           Undisturbed, [Next]_vars, Unhurried, Gentle, "slow" \notin Faults
    PROVE Undisturbed'
<1> USE LeaseAssumption
<1>0. NothingLeft'
  BY NothingLeftKept DEF Undisturbed
<1>1. CASE UNCHANGED vars
  BY <1>0, <1>1, UndisturbedAside DEF vars, connection
<1>2. ASSUME NEW u \in Tab, Handover(u)
      PROVE Undisturbed'
  BY <1>0, <1>2, HandoverUndisturbed
<1>3. ASSUME NEW u \in Tab, StepDown(u)
      PROVE FALSE
  BY <1>0, <1>3 DEF StepDown, NothingLeft, TypeOK
<1>4. ASSUME NEW u \in Tab, Close(u)
      PROVE Undisturbed'
  <2>1. /\ call' = [call EXCEPT ![u] = IF @ = "wait" THEN "bad" ELSE @]
        /\ UNCHANGED <<file, txn, pend, disk, gate, queue, job, step, attempt, ack>>
        /\ \E c \in {"closed", "closing", "abandoned"} :
              role' = [role EXCEPT ![u] = c] /\ role[u] # c
    BY <1>4 DEF Close
  <2>2. step[u] = "rest"
    <3>1. role'[u] \in {"closed", "closing"} /\ role[u] # role'[u]
      BY <1>0, <2>1 DEF NothingLeft, TypeOK
    <3> QED BY <3>1 DEF Gentle, Upsets
  <2>3. call' = call
    BY <2>1, <2>2 DEF CallsInJobs, TypeOK
  <2> QED BY <1>0, <2>1, <2>3, UndisturbedAside DEF work, TypeOK
<1>5. ASSUME NEW t \in Tab, NEW bye \in BOOLEAN, Die(t, bye)
      PROVE FALSE
  BY <1>0, <1>5 DEF Die, NothingLeft, TypeOK
<1>6. ASSUME NEW t \in Tab, NEW first \in {"single", "begin"}, StartJob(t, first)
      PROVE Undisturbed'
  <2>1. /\ step[t] = "rest" /\ call'[t] = "ask"
        /\ UNCHANGED <<role, connection, gate, queue, ack>>
        /\ \A s \in Tab \ {t} : /\ job'[s] = job[s] /\ step'[s] = step[s]
                                /\ call'[s] = call[s] /\ attempt'[s] = attempt[s]
    BY <1>6 DEF StartJob, TypeOK
  <2>2. \A u \in Tab : queue[u][t] = <<>>
    BY <2>1, SoleCall DEF Undisturbed, CallsInJobs
  <2>3. Answerable'
    BY <2>1, <2>2, AnswerableKept DEF Undisturbed, connection
  <2>4. Transacting'
    <3>1. txn # NoTab => txn \in Tab \ {t}
      BY <2>1 DEF Undisturbed, Transacting, TypeOK
    <3> QED BY <2>1, <3>1, TransactingKept DEF Undisturbed, Transacting, connection
  <2> QED BY <1>0, <2>3, <2>4 DEF Undisturbed
<1>7. ASSUME NEW t \in Tab, Statement(t)
      PROVE Undisturbed'
  BY <1>0, <1>7, StatementUndisturbed
<1>8. ASSUME NEW u \in Tab, NEW t \in Tab, Execute(u, t)
      PROVE Undisturbed'
  BY <1>0, <1>8, ExecuteUndisturbed
<1>9. ASSUME NEW u \in Tab, AbandonTransaction(u)
      PROVE Undisturbed'
  <2>1. /\ gate[u] # NoTab /\ Idle(u) /\ gate' = [gate EXCEPT ![u] = NoTab]
        /\ UNCHANGED <<role, connection, queue, work>>
    BY <1>9 DEF AbandonTransaction
  <2>2. role[u] # "leaving"
    BY DEF Undisturbed, NothingLeft
  <2>3. txn # NoTab => file # u
    BY <2>1, <2>2 DEF Idle, Undisturbed, Transacting
  <2>4. txn # NoTab => gate'[file] = gate[file]
    BY <2>1, <2>3 DEF TypeOK
  <2> QED BY <1>0, <2>1, <2>4, UndisturbedAside DEF connection
<1> QED BY <1>1, <1>2, <1>3, <1>4, <1>5, <1>6, <1>7, <1>8, <1>9 DEF Next

-----------------------------------------------------------------------------
(* Jobs: what JobDatabase says of them.                                    *)

\* What is on the disk, or on its way there, was executed; a job that is not
\* over has nothing on the disk, unless its transaction was lost; and a
\* transaction holds the two writes of one job at most.
Landed ==
    /\ \A w \in disk \cup pend : made[w] # 0
    /\ \A w \in disk : step[w[1]] # "rest" /\ w[1] \notin Lost => w[2] < job[w[1]]
    /\ \A w \in pend : w \in {<<txn, job[txn], "first">>, <<txn, job[txn], "second">>}

\* What a step is to JobDatabase while it is sound.
Serving ==
    \/ UNCHANGED <<disk, ack, Lost>>
    \/ \E t \in Tab : \/ Jobs!Lose(t) \/ Jobs!Fail(t)
                      \/ \E j \in 1..MaxJobs : Jobs!Land(t, j) \/ Jobs!Stray(t, j)

\* A write is made of its tab, its job and its name.
LEMMA WriteParts ==
    ASSUME NEW w \in Write
    PROVE w[1] \in Tab /\ w[2] \in 1..MaxJobs /\ w[3] \in Writes /\ w = <<w[1], w[2], w[3]>>
BY DEF Write

\* No job is ahead of its tab.
LEMMA LandedUpTo ==
    ASSUME TypeOK, Orderly, Landed, NEW w \in disk
    PROVE w[2] <= job[w[1]]
<1>1. w \in Write /\ made[w] # 0
  BY DEF TypeOK, Landed
<1>2. PICK t \in Tab, j \in 1..MaxJobs, s \in Writes : w = <<t, j, s>>
  BY <1>1 DEF Write
<1>3. Over(t, j, s)
  BY <1>1, <1>2 DEF Orderly, Executed
<1>4. job[t] \in Nat /\ j \in Nat
  BY <1>2, LeaseAssumption DEF TypeOK
<1> QED BY <1>2, <1>3, <1>4 DEF Over, Past

\* A step that leaves jobs, transaction and writes alone is nothing to them.
LEMMA ServedAside ==
    ASSUME Landed, UNCHANGED <<txn, pend, disk, ack, job, step, made>>
    PROVE Landed' /\ Serving
<1>1. Lost' = Lost
  BY DEF Lost, InTransaction
<1> QED BY <1>1 DEF Landed, Serving

\* A job that starts, or goes on without a word from the connection, or fails.
LEMMA ServedMove ==
    ASSUME TypeOK, Landed, NEW t \in Tab, txn # t,
           UNCHANGED <<txn, pend, disk, ack, made>>,
           \A v \in Tab \ {t} : job'[v] = job[v] /\ step'[v] = step[v],
           InTransaction(t)' => InTransaction(t),
           \/ step[t] = "rest" /\ \A w \in disk : w[1] = t => w[2] < job'[t]
           \/ job'[t] = job[t] /\ (InTransaction(t)' \/ step'[t] = "rest")
    PROVE Landed' /\ Serving
<1>1. /\ InTransaction(t)' => Lost' = Lost
      /\ ~InTransaction(t)' => Lost' = Lost \ {t}
  BY DEF Lost, InTransaction
<1>2. t \in Lost <=> InTransaction(t)
  BY DEF Lost
<1>3. Serving
  BY <1>1, <1>2 DEF Serving, Jobs!Fail
<1>4. ASSUME NEW w \in disk, step'[w[1]] # "rest", w[1] \notin Lost'
      PROVE w[2] < job'[w[1]]
  <2>1. w[1] \in Tab
    BY WriteParts DEF TypeOK
  <2>2. CASE w[1] = t
    BY <1>1, <1>2, <1>4, <2>2
  <2>3. CASE w[1] # t
    BY <1>1, <1>4, <2>1, <2>3 DEF Landed
  <2> QED BY <2>2, <2>3
<1>5. ASSUME NEW w \in pend
      PROVE job'[txn] = job[txn]
  <2>1. w[1] = txn
    BY <1>5 DEF Landed
  <2>2. w \in Write
    BY <1>5 DEF TypeOK
  <2>3. txn \in Tab \ {t}
    BY <2>1, <2>2, WriteParts
  <2> QED BY <2>3
<1> QED BY <1>3, <1>4, <1>5 DEF Landed

\* The file is closed, and whoever was in a transaction has lost it.
LEMMA ServedClose ==
    ASSUME TypeOK, Undisturbed, Landed, txn' = NoTab, pend' = {},
           UNCHANGED <<disk, ack, job, step, made>>
    PROVE Landed' /\ Serving
<1> USE LeaseAssumption
<1>1. Lost' = {t \in Tab : InTransaction(t)}
  BY DEF Lost, InTransaction
<1>2. txn # NoTab => txn \in Tab /\ InTransaction(txn)
  BY DEF TypeOK, Undisturbed, Transacting, InTransaction
<1>3. Lost' = IF txn = NoTab THEN Lost ELSE Lost \cup {txn}
  BY <1>1, <1>2 DEF Lost
<1>4. Serving
  BY <1>2, <1>3 DEF Serving, Jobs!Lose
<1>5. Landed'
  BY <1>3 DEF Landed
<1> QED BY <1>4, <1>5

\* A statement that has its turn lands a job, or a write astray, or nothing.
LEMMA ServedExecute ==
    ASSUME TypeOK, TypeOK', Custody, CallsInJobs, Orderly, Undisturbed, Landed,
           NEW u \in Tab, NEW t \in Tab, Execute(u, t)
    PROVE Landed' /\ Serving
<1> USE LeaseAssumption
<1> DEFINE w == Written(t)
           j == job[t]
<1>1. /\ job' = job /\ Outcome(t)
      /\ \A v \in Tab \ {t} : step'[v] = step[v]
      /\ \A x \in Write : made[x] # 0 => made'[x] # 0
      /\ step[t] \in Writes => w \in Write /\ made[w] = 0 /\ made'[w] # 0
  BY ExecuteOutcome
<1>2. /\ \A x \in disk : x[1] \in Tab /\ x[2] \in Nat /\ x[2] <= job[x[1]]
      /\ disk \subseteq Write /\ pend \subseteq Write /\ NoTab # t
  <2>1. disk \subseteq Write /\ pend \subseteq Write
    BY DEF TypeOK
  <2>2. ASSUME NEW x \in disk
        PROVE x[1] \in Tab /\ x[2] \in Nat /\ x[2] <= job[x[1]]
    <3>1. x \in Write
      BY <2>1
    <3>2. x[1] \in Tab /\ x[2] \in 1..MaxJobs
      BY <3>1, WriteParts
    <3> QED BY <3>2, LandedUpTo
  <2> QED BY <2>1, <2>2
<1>3. step[t] # "rest" /\ j \in 1..MaxJobs
  <2>1. step[t] # "rest"
    BY <1>1 DEF Outcome, SingleLands, Begins, WritesWithin, WritesAstray, GoesOn, EndsNothing,
       Commits, RollsBack
  <2>2. j >= 1 /\ j \in 0..MaxJobs
    BY <2>1 DEF CallsInJobs, TypeOK
  <2> QED BY <2>1, <2>2
<1>4. t \notin Lost => \A x \in disk : x[1] = t => x[2] < j
  BY <1>3 DEF Landed
<1>5. txn = NoTab => pend = {}
  <2>1. \A x \in pend : x[1] = txn /\ x[1] \in Tab
    BY <1>2, WriteParts DEF Undisturbed, Transacting
  <2> QED BY <2>1
<1>6. /\ \A v \in Tab \ {t} : v \in Lost' <=> v \in Lost
      /\ t \in Lost' <=> InTransaction(t)' /\ txn' # t
      /\ t \in Lost <=> InTransaction(t) /\ txn # t
  <2>1. {txn, txn'} \subseteq {NoTab, t}
    BY <1>1 DEF Outcome, SingleLands, Begins, WritesWithin, WritesAstray, EndsNothing,
       Commits, RollsBack
  <2> QED BY <1>1, <2>1 DEF Lost, InTransaction
<1>7. ASSUME \A x \in disk' \ disk : x[1] = t,
             t \in Lost' \/ step'[t] = "rest" \/ (disk' = disk /\ t \notin Lost)
      PROVE \A x \in disk' : step'[x[1]] # "rest" /\ x[1] \notin Lost' => x[2] < job'[x[1]]
  <2> SUFFICES ASSUME NEW x \in disk', step'[x[1]] # "rest", x[1] \notin Lost'
               PROVE x[2] < job'[x[1]]
    OBVIOUS
  <2>1. CASE x[1] = t
    BY <1>1, <1>4, <1>7, <2>1
  <2>2. CASE x[1] # t
    <3>1. x \in disk /\ x[1] \in Tab \ {t}
      BY <1>2, <1>7, <2>2
    <3> QED BY <1>1, <1>6, <3>1 DEF Landed
  <2> QED BY <2>1, <2>2
<1>8. CASE SingleLands(t)
  <2>1. /\ step[t] \in Writes /\ w = <<t, j, "single">> /\ disk' = disk \cup {w}
        /\ ack' = ack \cup {w} /\ pend' = {} /\ step'[t] = "rest"
        /\ t \notin Lost /\ t \notin Lost'
    BY <1>5, <1>6, <1>8 DEF SingleLands, Written, Writes, InTransaction
  <2>2. Lost' = Lost
    BY <1>6, <2>1 DEF Lost
  <2>3. Jobs!Land(t, j)
    BY <1>4, <2>1, <2>2 DEF Jobs!Land, Jobs!Single
  <2>4. \A x \in disk' \cup pend' : made'[x] # 0
    BY <1>1, <1>2, <2>1 DEF Landed
  <2>5. \A x \in disk' : step'[x[1]] # "rest" /\ x[1] \notin Lost' => x[2] < job'[x[1]]
    BY <1>7, <2>1
  <2> QED BY <1>3, <2>1, <2>3, <2>4, <2>5 DEF Landed, Serving
<1>9. CASE Begins(t)
  <2>1. /\ txn' = t /\ pend' = {} /\ disk' = disk /\ ack' = ack
        /\ t \notin Lost /\ t \notin Lost'
    BY <1>6, <1>9 DEF Begins, InTransaction
  <2>2. Lost' = Lost
    BY <1>6, <2>1 DEF Lost
  <2>3. \A x \in disk' \cup pend' : made'[x] # 0
    BY <1>1, <1>2, <2>1 DEF Landed
  <2>4. \A x \in disk' : step'[x[1]] # "rest" /\ x[1] \notin Lost' => x[2] < job'[x[1]]
    BY <1>7, <2>1
  <2> QED BY <2>1, <2>2, <2>3, <2>4 DEF Landed, Serving
<1>10. CASE WritesWithin(t)
  <2>1. /\ txn = t /\ txn' = t /\ pend' = pend \cup {w} /\ disk' = disk /\ ack' = ack
        /\ step[t] \in Writes /\ w \in {<<t, j, "first">>, <<t, j, "second">>}
    BY <1>10 DEF WritesWithin, GoesOn, Written, Writes
  <2>2. t \notin Lost /\ Lost' = Lost
    BY <1>6, <2>1 DEF Lost
  <2>3. \A x \in disk' \cup pend' : made'[x] # 0
    BY <1>1, <1>2, <2>1 DEF Landed
  <2>4. \A x \in disk' : step'[x[1]] # "rest" /\ x[1] \notin Lost' => x[2] < job'[x[1]]
    BY <1>7, <2>1, <2>2
  <2>5. \A x \in pend' : x \in {<<t, j, "first">>, <<t, j, "second">>}
    BY <2>1 DEF Landed
  <2> QED BY <1>1, <2>1, <2>2, <2>3, <2>4, <2>5 DEF Landed, Serving
<1>11. CASE WritesAstray(t)
  <2>1. /\ disk' = disk \cup {w} /\ ack' = ack /\ pend' = {}
        /\ step[t] \in Writes /\ w \in {<<t, j, "first">>, <<t, j, "second">>} /\ w[1] = t
    BY <1>5, <1>11 DEF WritesAstray, GoesOn, Written, Writes
  <2>2. t \in Lost /\ t \in Lost'
    BY <1>2, <1>6, <1>11 DEF WritesAstray, GoesOn, InTransaction
  <2>3. Lost' = Lost
    BY <1>6, <2>2 DEF Lost
  <2>4. w \notin disk
    BY <1>1, <2>1 DEF Landed
  <2>5. Jobs!Stray(t, j)
    BY <1>2, <2>1, <2>2, <2>3, <2>4 DEF Jobs!Stray, Jobs!Both
  <2>6. \A x \in disk' \cup pend' : made'[x] # 0
    BY <1>1, <1>2, <2>1 DEF Landed
  <2>7. \A x \in disk' : step'[x[1]] # "rest" /\ x[1] \notin Lost' => x[2] < job'[x[1]]
    BY <1>7, <2>1, <2>2
  <2> QED BY <1>3, <2>1, <2>5, <2>6, <2>7 DEF Landed, Serving
<1>12. CASE EndsNothing(t)
  <2>1. /\ UNCHANGED <<txn, pend, disk, ack>> /\ txn = NoTab /\ pend' = {}
        /\ InTransaction(t) /\ (InTransaction(t)' \/ step'[t] = "rest")
    BY <1>5, <1>12 DEF EndsNothing, InTransaction
  <2>2. t \in Lost /\ (t \in Lost' \/ (step'[t] = "rest" /\ t \notin Lost'))
    BY <1>2, <1>6, <2>1 DEF InTransaction
  <2>3. Lost' = Lost \/ Lost' = Lost \ {t}
    BY <1>6, <2>2 DEF Lost
  <2>4. Serving
    BY <2>1, <2>2, <2>3 DEF Serving, Jobs!Fail
  <2>5. \A x \in disk' \cup pend' : made'[x] # 0
    BY <1>1, <1>2, <2>1 DEF Landed
  <2>6. \A x \in disk' : step'[x[1]] # "rest" /\ x[1] \notin Lost' => x[2] < job'[x[1]]
    BY <1>7, <2>1, <2>2
  <2> QED BY <2>1, <2>4, <2>5, <2>6 DEF Landed
<1>13. CASE Commits(t)
  <2> DEFINE writes == {<<t, j, "first">>, <<t, j, "second">>}
  <2>1. /\ txn = t /\ pend' = {} /\ disk' = disk \cup pend /\ ack' = ack \cup writes
        /\ writes \subseteq pend /\ step'[t] = "rest"
    BY <1>13 DEF Commits
  <2>2. pend = writes
    BY <2>1 DEF Landed
  <2>3. t \notin Lost /\ t \notin Lost'
    BY <1>6, <2>1 DEF InTransaction
  <2>4. Lost' = Lost
    BY <1>6, <2>3 DEF Lost
  <2>5. Jobs!Land(t, j)
    BY <1>4, <2>1, <2>2, <2>3, <2>4 DEF Jobs!Land, Jobs!Both
  <2>6. \A x \in disk' \cup pend' : made'[x] # 0
    BY <1>1, <1>2, <2>1 DEF Landed
  <2>7. \A x \in disk' : step'[x[1]] # "rest" /\ x[1] \notin Lost' => x[2] < job'[x[1]]
    <3>1. \A x \in pend : x[1] = t
      BY <2>2
    <3> QED BY <1>7, <2>1, <3>1
  <2> QED BY <1>3, <2>1, <2>5, <2>6, <2>7 DEF Landed, Serving
<1>14. CASE RollsBack(t)
  <2>1. txn = t /\ pend' = {} /\ disk' = disk /\ ack' = ack /\ step'[t] = "rest"
    BY <1>14 DEF RollsBack
  <2>2. t \notin Lost /\ t \notin Lost'
    BY <1>6, <2>1 DEF InTransaction
  <2>3. Lost' = Lost
    BY <1>6, <2>2 DEF Lost
  <2>4. \A x \in disk' \cup pend' : made'[x] # 0
    BY <1>1, <1>2, <2>1 DEF Landed
  <2>5. \A x \in disk' : step'[x[1]] # "rest" /\ x[1] \notin Lost' => x[2] < job'[x[1]]
    BY <1>7, <2>1
  <2> QED BY <2>1, <2>3, <2>4, <2>5 DEF Landed, Serving
<1> QED BY <1>1, <1>8, <1>9, <1>10, <1>11, <1>12, <1>13, <1>14 DEF Outcome

\* No step that is gentle and hurries no holder serves a tab otherwise than
\* JobDatabase says.
LEMMA StepServes ==
    ASSUME TypeOK, TypeOK', Custody, Custody', CallsInJobs, Orderly, Undisturbed, Landed,
           [Next]_vars, Gentle
    PROVE Landed' /\ Serving
<1> USE LeaseAssumption
<1>0. NothingLeft'
  BY NothingLeftKept DEF Undisturbed
<1>1. CASE UNCHANGED vars
  BY <1>1, ServedAside DEF vars, connection, work
<1>2. ASSUME NEW u \in Tab, Handover(u)
      PROVE Landed' /\ Serving
  <2>1. CASE CloseFile(u)
    BY <2>1, ServedClose DEF CloseFile, Disconnected
  <2>2. CASE ~CloseFile(u)
    BY <1>2, <2>2, ServedAside DEF Handover, GrantLock, Opened, OpenFails, AbandonedOpens,
       Release, work
  <2> QED BY <2>1, <2>2
<1>3. ASSUME NEW u \in Tab, StepDown(u) \/ Close(u) \/ AbandonTransaction(u)
      PROVE Landed' /\ Serving
  BY <1>3, ServedAside DEF StepDown, Close, AbandonTransaction, connection, work
<1>4. ASSUME NEW t \in Tab, NEW bye \in BOOLEAN, Die(t, bye)
      PROVE FALSE
  BY <1>0, <1>4 DEF Die, NothingLeft, TypeOK
<1>5. ASSUME NEW t \in Tab, NEW first \in {"single", "begin"}, StartJob(t, first)
      PROVE Landed' /\ Serving
  <2>1. /\ step[t] = "rest" /\ step'[t] = first /\ job'[t] = job[t] + 1
        /\ UNCHANGED <<txn, pend, disk, ack, made>>
        /\ \A v \in Tab \ {t} : job'[v] = job[v] /\ step'[v] = step[v]
    BY <1>5 DEF StartJob, TypeOK, connection
  <2>2. txn # t
    BY <2>1 DEF Undisturbed, Transacting
  <2>3. \A w \in disk : w[1] = t => w[2] < job'[t]
    <3>1. ASSUME NEW w \in disk
          PROVE w[2] \in Nat /\ w[2] <= job[w[1]]
      <4>1. w \in Write
        BY DEF TypeOK
      <4>2. w[2] \in 1..MaxJobs
        BY <4>1, WriteParts
      <4> QED BY <4>2, LandedUpTo
    <3>2. job[t] \in Nat
      BY DEF TypeOK
    <3> QED BY <2>1, <3>1, <3>2
  <2>4. ~InTransaction(t)'
    BY <2>1 DEF InTransaction
  <2> QED BY <2>1, <2>2, <2>3, <2>4, ServedMove
<1>6. ASSUME NEW t \in Tab, Statement(t)
      PROVE Landed' /\ Serving
  <2>1. CASE AskLocally(t) \/ AskRemotely(t) \/ Timeout(t)
    BY <2>1, ServedAside DEF AskLocally, AskRemotely, Timeout, connection
  <2>2. CASE AskNobody(t)
    BY <2>2 DEF AskNobody, Undisturbed, NothingLeft, CallsInJobs
  <2>3. CASE GiveUp(t)
    <3>1. step[t] # "rest" /\ call[t] = "bad" /\ Advance(t, FALSE)
          /\ UNCHANGED <<txn, pend, disk, made>>
      BY <2>3 DEF GiveUp, CallsInJobs, connection
    <3>2. PICK a \in Following(step[t], FALSE) : step' = [step EXCEPT ![t] = a]
      BY <3>1 DEF Advance
    <3>3. /\ ack' = ack /\ job' = job /\ step'[t] = a
          /\ \A v \in Tab \ {t} : step'[v] = step[v]
      BY <3>1, <3>2 DEF Advance, Told, TypeOK
    <3>4. step[t] \in Step \ {"rest"}
      BY <3>1 DEF TypeOK
    <3>5. a = "rest" \/ (a = "rollback" /\ InTransaction(t))
      BY <3>2, <3>4 DEF Following, Step, InTransaction
    <3>6. txn # t
      BY <3>1 DEF Undisturbed, Transacting
    <3>7. (InTransaction(t)' => InTransaction(t)) /\ (InTransaction(t)' \/ step'[t] = "rest")
      BY <3>3, <3>5 DEF InTransaction
    <3> QED BY <3>1, <3>3, <3>6, <3>7, ServedMove
  <2> QED BY <1>6, <2>1, <2>2, <2>3 DEF Statement
<1>7. ASSUME NEW u \in Tab, NEW t \in Tab, Execute(u, t)
      PROVE Landed' /\ Serving
  BY <1>7, ServedExecute
<1> QED BY <1>1, <1>2, <1>3, <1>4, <1>5, <1>6, <1>7 DEF Next

-----------------------------------------------------------------------------
(* The theorems.                                                           *)

\* The types, custody and the jobs at the start.
LEMMA InitTyped == Init => TypeOK /\ Custody /\ CallsInJobs /\ NothingOpen
BY LeaseAssumption DEF Init, TypeOK, Custody, CallsInJobs, NothingOpen, Role, Step,
   LockRole, FileRole

\* At the start nothing waits and nothing is executed.
LEMMA InitOrderly == Init => Orderly /\ Undisturbed
<1> SUFFICES ASSUME Init
             PROVE Orderly /\ Undisturbed
  OBVIOUS
<1>1. \A u, t \in Tab : queue[u][t] = <<>> /\ Len(queue[u][t]) = 0
  BY DEF Init
<1>2. \A t \in Tab, j \in 1..MaxJobs, s \in Writes : made[<<t, j, s>>] = 0
  BY DEF Init, Write
<1>3. Orderly
  BY <1>1, <1>2 DEF Orderly, AtFile, Waiting, InTurn, Executed
<1>4. Undisturbed
  BY <1>1 DEF Init, Undisturbed, NothingLeft, Answerable, Transacting
<1> QED BY <1>3, <1>4

\* Every variable has its type, and a call is under way exactly in a job.
THEOREM TypesHold == Spec => [](TypeOK /\ CallsInJobs)
<1>1. Init => TypeOK /\ CallsInJobs
  BY InitTyped
<1>2. TypeOK /\ CallsInJobs /\ [Next]_vars => (TypeOK /\ CallsInJobs)'
  BY StepTypes
<1> QED BY <1>1, <1>2, PTL DEF Spec

\* Every step keeps the invariant: what the record of MCDbLease says of a step
\* is what Unhurried and Gentle say of it.
LEMMA StepIInv ==
    ASSUME "slow" \notin Faults, IInv, [MCNext]_<<vars, hurried, upset>>
    PROVE IInv'
<1>1. CASE UNCHANGED <<vars, hurried, upset>>
  <2>1. [Next]_vars /\ UNCHANGED <<hurried, upset, queue, role>>
    BY <1>1 DEF vars
  <2>2. Unhurried /\ Gentle
    BY <2>1, QueueTyped DEF IInv, Unhurried, Gentle, Upsets
  <2>3. TypeOK' /\ CallsInJobs' /\ Custody' /\ NothingOpen'
    BY <2>1, StepTypes, CustodyStep, StepNothingOpen DEF IInv
  <2>4. ~hurried => Orderly'
    BY <2>1, <2>2, <2>3, StepOrderly DEF IInv
  <2>5. Calm => Undisturbed'
    BY <2>1, <2>2, <2>3, StepUndisturbed DEF IInv, Calm
  <2> QED BY <2>1, <2>3, <2>4, <2>5 DEF IInv, Calm
<1>2. CASE MCNext
  <2>1. [Next]_vars
    BY <1>2 DEF MCNext
  <2>2. TypeOK' /\ CallsInJobs' /\ Custody' /\ NothingOpen'
    BY <2>1, StepTypes, CustodyStep, StepNothingOpen DEF IInv
  <2>3. ~hurried' => ~hurried /\ Unhurried
    BY <1>2 DEF MCNext, Unhurried
  <2>4. ~upset' => ~upset /\ Gentle
    BY <1>2 DEF MCNext, Gentle
  <2>5. ~hurried' => Orderly'
    BY <2>1, <2>2, <2>3, StepOrderly DEF IInv
  <2>6. Calm' => Undisturbed'
    BY <2>1, <2>2, <2>3, <2>4, StepUndisturbed DEF IInv, Calm
  <2> QED BY <2>2, <2>5, <2>6 DEF IInv
<1> QED BY <1>1, <1>2

\* The inductive invariant of the lease, for clocks that are not too short.
THEOREM Invariance ==
    ASSUME "slow" \notin Faults
    PROVE MCSpec => []IInv
<1>1. MCInit => IInv
  BY InitTyped, InitOrderly DEF MCInit, IInv, Calm
<1>2. IInv /\ [MCNext]_<<vars, hurried, upset>> => IInv'
  BY StepIInv
<1> QED BY <1>1, <1>2, PTL DEF MCSpec

\* What was executed was executed once: each write of each job.
LEMMA OnceOrderly == TypeOK /\ Orderly => ExecutedOnce
<1> SUFFICES ASSUME TypeOK, Orderly, NEW w \in Write
             PROVE made[w] <= 1
  BY DEF ExecutedOnce
<1>1. PICK t \in Tab, j \in 1..MaxJobs, s \in Writes : w = <<t, j, s>>
  BY DEF Write
<1> QED BY <1>1 DEF Orderly, Executed

\* The two promises of the gate, of undisturbed transactions.
LEMMA UndisturbedKeeps == Undisturbed => AcknowledgedWritesStay /\ TransactionsDoNotMix
BY DEF Undisturbed, Transacting, AcknowledgedWritesStay, TransactionsDoNotMix

\* A statement is executed once, through hand-overs, closes and deaths in any
\* order, unless it was sent to a holder that was still opening.
THEOREM StatementsOnce ==
    ASSUME "slow" \notin Faults
    PROVE MCSpec => []OnceUnlessHurried
<1>1. IInv => OnceUnlessHurried
  BY OnceOrderly DEF IInv, OnceUnlessHurried
<1> QED BY <1>1, Invariance, PTL

\* Nobody writes inside another tab's transaction, under the same condition.
THEOREM GateHolds ==
    ASSUME "slow" \notin Faults
    PROVE MCSpec => []GateHoldsWhenCalm
<1>1. IInv => GateHoldsWhenCalm
  BY UndisturbedKeeps DEF IInv, GateHoldsWhenCalm
<1> QED BY <1>1, Invariance, PTL

\* Nothing has been written at the start.
LEMMA InitLanded == Init => Landed /\ disk = {} /\ ack = {} /\ Lost = {}
BY DEF Init, Landed, Lost, InTransaction

\* The shared connection is the database that JobDatabase describes, for as long
\* as no connection goes away from under a job of its own tab and no holder is
\* hurried: jobs land whole, once and in order, and are reported as done exactly
\* when they have landed; a transaction that was lost is written in pieces and
\* never reported.
THEOREM JobsServed ==
    ASSUME "slow" \notin Faults
    PROVE MCSpec => ServesJobs
<1> DEFINE Inv == IInv /\ (Calm => Landed)
<1>1. MCInit => Inv /\ Jobs!Init
  BY InitTyped, InitOrderly, InitLanded DEF MCInit, IInv, Calm, Jobs!Init
<1>2. ASSUME Inv, [MCNext]_<<vars, hurried, upset>>
      PROVE Inv' /\ [Jobs!Next]_Jobs!vars
  <2>1. IInv'
    BY <1>2, StepIInv
  <2>2. [Next]_vars
    BY <1>2 DEF MCNext
  <2>3. CASE Calm'
    <3>1. Calm /\ Gentle
      <4>1. CASE MCNext
        BY <2>3, <4>1 DEF MCNext, Calm, Gentle
      <4>2. CASE UNCHANGED <<vars, hurried, upset>>
        BY <2>3, <4>2 DEF vars, Calm, Gentle, Upsets
      <4> QED BY <1>2, <4>1, <4>2
    <3>2. /\ TypeOK /\ Custody /\ CallsInJobs /\ Orderly /\ Undisturbed /\ Landed
          /\ TypeOK' /\ Custody'
      BY <1>2, <2>1, <3>1 DEF IInv, Calm
    <3>3. Landed' /\ Serving
      BY <2>2, <3>1, <3>2, StepServes
    <3>4. UNCHANGED Calm
      BY <2>3, <3>1
    <3>5. [Jobs!Next]_Jobs!vars
      BY <3>1, <3>3, <3>4 DEF Serving, Jobs!Next, Jobs!Serve, Jobs!vars
    <3> QED BY <2>1, <3>3, <3>5
  <2>4. CASE ~Calm'
    <3>1. Calm' = FALSE
      BY <2>4 DEF Calm
    <3>2. [Jobs!Next]_Jobs!vars
      BY <3>1 DEF Jobs!Next, Jobs!GoWrong
    <3> QED BY <2>1, <2>4, <3>2
  <2> QED BY <2>3, <2>4
<1> QED BY <1>1, <1>2, PTL DEF MCSpec, ServesJobs, Jobs!Spec

\* So what the tabs are told is true, under the same conditions: of the writes
\* that were reported, and of the single writes that were not.
THEOREM ReportsAreTrue ==
    ASSUME "slow" \notin Faults
    PROVE MCSpec => []Jobs!Honest
<1>1. Jobs!Init => Jobs!Honest
  BY DEF Jobs!Init, Jobs!Honest
<1>2. Jobs!Honest /\ [Jobs!Next]_Jobs!vars => Jobs!Honest'
  <2> SUFFICES ASSUME Jobs!Honest, [Jobs!Next]_Jobs!vars, Calm'
               PROVE Jobs!Honest'
    BY DEF Jobs!Honest
  <2>1. CASE UNCHANGED Jobs!vars
    BY <2>1 DEF Jobs!vars, Jobs!Honest
  <2>2. CASE Calm /\ Jobs!Serve
    <3>1. ASSUME NEW t \in Tab, Jobs!Lose(t) \/ Jobs!Fail(t)
          PROVE Jobs!Honest'
      BY <2>2, <3>1 DEF Jobs!Lose, Jobs!Fail, Jobs!Honest
    <3>2. ASSUME NEW t \in Tab, NEW j \in 1..MaxJobs, Jobs!Land(t, j)
          PROVE Jobs!Honest'
      BY <2>2, <3>2 DEF Jobs!Land, Jobs!Single, Jobs!Both, Jobs!Honest
    <3>3. ASSUME NEW t \in Tab, NEW j \in 1..MaxJobs, Jobs!Stray(t, j)
          PROVE Jobs!Honest'
      BY <2>2, <3>3 DEF Jobs!Stray, Jobs!Both, Jobs!Honest
    <3> QED BY <2>2, <3>1, <3>2, <3>3 DEF Jobs!Serve
  <2>3. CASE Jobs!GoWrong
    BY <2>3 DEF Jobs!GoWrong
  <2> QED BY <2>1, <2>2, <2>3 DEF Jobs!Next
<1> QED BY <1>1, <1>2, JobsServed, PTL DEF ServesJobs, Jobs!Spec

\* No step hurries a holder where no statement is sent too early.
LEMMA NobodyHurries ==
    ASSUME "early" \notin Faults, TypeOK, CallsInJobs, [Next]_vars
    PROVE Unhurried
<1> SUFFICES ASSUME NEW u \in Tab, NEW t \in Tab, role[u] = "opening",
                    Len(queue'[u][t]) > Len(queue[u][t])
             PROVE FALSE
  BY DEF Unhurried
<1>1. queue[u][t] \in Seq(Request) /\ Len(queue[u][t]) \in Nat
  BY QueueTyped
<1>2. queue'[u][t] \notin {queue[u][t], <<>>}
  <2>1. Len(<<>>) = 0
    OBVIOUS
  <2> QED BY <1>1, <2>1
<1>3. ASSUME NEW v \in Tab, Handover(v) \/ StepDown(v) \/ Close(v) \/ AbandonTransaction(v)
      PROVE FALSE
  <2>1. queue' = queue \/ queue' = [queue EXCEPT ![v] = [x \in Tab |-> <<>>]]
    BY <1>3 DEF Handover, GrantLock, Opened, OpenFails, AbandonedOpens, CloseFile,
       Release, StepDown, Close, AbandonTransaction
  <2>2. queue'[u] \in {queue[u], [x \in Tab |-> <<>>]}
    BY <2>1 DEF TypeOK
  <2> QED BY <1>2, <2>2
<1>4. ASSUME NEW v \in Tab, NEW bye \in BOOLEAN, Die(v, bye)
      PROVE FALSE
  BY <1>2, <1>4 DEF Die, TypeOK
<1>5. ASSUME NEW v \in Tab, NEW first \in {"single", "begin"}, StartJob(v, first)
      PROVE FALSE
  BY <1>2, <1>5 DEF StartJob
<1>6. ASSUME NEW v \in Tab, Statement(v)
      PROVE FALSE
  <2>1. ASSUME AskLocally(v)
        PROVE FALSE
    <3>1. v # u
      BY <2>1 DEF AskLocally, HasLocal
    <3> QED BY <1>2, <2>1, <3>1 DEF AskLocally, TypeOK
  <2>2. ASSUME AskRemotely(v)
        PROVE FALSE
    <3>1. PICK x \in Tab :
             role[x] # "opening" /\ queue' = [queue EXCEPT ![x][v] = Append(@, This(v))]
      BY <1>2, <2>2 DEF AskRemotely
    <3> QED BY <1>2, <3>1 DEF TypeOK
  <2> QED BY <1>2, <1>6, <2>1, <2>2 DEF Statement, AskNobody, GiveUp, Timeout
<1>7. ASSUME NEW v \in Tab, NEW x \in Tab, Execute(v, x)
      PROVE FALSE
  <2>1. v # u /\ queue' = [queue EXCEPT ![v][x] = Tail(@)]
    BY <1>7 DEF Execute
  <2> QED BY <1>2, <2>1 DEF TypeOK
<1> QED BY <1>2, <1>3, <1>4, <1>5, <1>6, <1>7 DEF Next, vars

\* A statement is executed once, where none is sent to a holder that is opening
\* and no clock is shorter than the work: whoever closes, steps down or dies.
THEOREM OnceAtAll ==
    ASSUME Faults \cap {"slow", "early"} = {}
    PROVE Spec => []ExecutedOnce
<1> DEFINE Inv == TypeOK /\ Custody /\ CallsInJobs /\ Orderly
<1>1. Init => Inv
  BY InitTyped, InitOrderly
<1>2. Inv /\ [Next]_vars => Inv'
  BY StepTypes, CustodyStep, NobodyHurries, StepOrderly
<1>3. Inv => ExecutedOnce
  BY OnceOrderly
<1> QED BY <1>1, <1>2, <1>3, PTL DEF Spec

\* Every step is gentle where tabs at most close their leases after their jobs.
LEMMA EverybodyGentle ==
    ASSUME Faults \subseteq {"close"}, TypeOK, CallsInJobs, NothingLeft, [Next]_vars
    PROVE Gentle
<1> SUFFICES ASSUME NEW v \in Tab, Upsets(v)
             PROVE FALSE
  BY DEF Gentle
<1>1. role[v] # role'[v] /\ role[v] \notin {"leaving", "gone", "abandoned"}
      /\ \/ role'[v] \in {"leaving", "gone", "abandoned"}
         \/ role'[v] \in {"closing", "closed"} /\ step[v] # "rest"
  BY DEF Upsets, NothingLeft
<1>2. ASSUME NEW u \in Tab, Handover(u) PROVE FALSE
  <2>1. role[u] \in {"closing"} => step[u] = "rest"
    BY DEF NothingLeft
  <2>2. role[u] # "abandoned" /\ role[u] # "leaving"
    BY DEF NothingLeft
  <2> QED BY <1>1, <1>2, <2>1, <2>2 DEF Handover, GrantLock, Opened, OpenFails,
      AbandonedOpens, CloseFile, Release, TypeOK
<1>3. ASSUME NEW u \in Tab, Close(u) PROVE FALSE
  <2>1. step[u] = "rest" /\ \E c \in {"closed", "closing"} : role' = [role EXCEPT ![u] = c]
    BY <1>3 DEF Close
  <2> QED BY <1>1, <2>1 DEF TypeOK
<1>4. ASSUME NEW u \in Tab, StepDown(u) \/ \E bye \in BOOLEAN : Die(u, bye) PROVE FALSE
  BY <1>4 DEF StepDown, Die
<1>5. ASSUME NEW u \in Tab,
             \/ \E first \in {"single", "begin"} : StartJob(u, first)
             \/ Statement(u) \/ (\E t \in Tab : Execute(u, t)) \/ AbandonTransaction(u)
      PROVE role' = role
  BY <1>5 DEF StartJob, Statement, AskLocally, AskRemotely, AskNobody, GiveUp,
     Timeout, Execute, AbandonTransaction
<1> QED BY <1>1, <1>2, <1>3, <1>4, <1>5 DEF Next, vars

\* The purpose of the gate: where tabs at most close their leases after their
\* jobs, nothing acknowledged is taken away and no transactions mix.
THEOREM GateServes ==
    ASSUME Faults \subseteq {"close"}
    PROVE Spec => [](AcknowledgedWritesStay /\ TransactionsDoNotMix)
<1> DEFINE Inv == TypeOK /\ Custody /\ CallsInJobs /\ NothingOpen /\ Orderly /\ Undisturbed
<1>1. Init => Inv
  BY InitTyped, InitOrderly
<1>2. Inv /\ [Next]_vars => Inv'
  <2> SUFFICES ASSUME Inv, [Next]_vars
               PROVE Inv'
    OBVIOUS
  <2>1. TypeOK' /\ Custody' /\ CallsInJobs' /\ NothingOpen'
    BY StepTypes, CustodyStep, StepNothingOpen
  <2>2. Unhurried /\ Gentle
    BY NobodyHurries, EverybodyGentle DEF Undisturbed
  <2> QED BY <2>1, <2>2, StepOrderly, StepUndisturbed
<1>3. Inv => AcknowledgedWritesStay /\ TransactionsDoNotMix
  BY UndisturbedKeeps
<1> QED BY <1>1, <1>2, <1>3, PTL DEF Spec

=============================================================================
