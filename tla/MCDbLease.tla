------------------------------ MODULE MCDbLease ------------------------------
(***************************************************************************)
(* DbLease for TLC: two or three tabs, a few jobs each, and a record of    *)
(* the two circumstances under which the code gives no guarantee.          *)
(***************************************************************************)
EXTENDS DbLease, TLC

Symmetry == Permutations(Tab)

VARIABLES
    hurried,        \* a holder that was still opening was given a statement
    upset           \* a connection went away from under a job

\* The connection moves, its tab dies, or its lease is closed in mid-job.
Upsets(u) ==
    /\ role[u] # role'[u]
    /\ \/ role'[u] \in {"leaving", "gone", "abandoned"}
       \/ role'[u] \in {"closing", "closed"} /\ step[u] # "rest"

MCInit == Init /\ hurried = FALSE /\ upset = FALSE

MCNext ==
    /\ Next
    /\ hurried' = (hurried \/ \E u, t \in Tab :
          role[u] = "opening" /\ Len(queue'[u][t]) > Len(queue[u][t]))
    /\ upset' = (upset \/ \E u \in Tab : Upsets(u))

MCSpec == MCInit /\ [][MCNext]_<<vars, hurried, upset>>

\* FairSpec, with the record.
MCFairSpec ==
    /\ MCSpec
    /\ WF_vars(\E u \in Tab : Handover(u))
    /\ WF_vars(\E u \in Tab : AbandonTransaction(u))
    /\ \A t \in Tab : SF_vars(Statement(t) \/ \E u \in Tab : Execute(u, t))

-----------------------------------------------------------------------------
Calm == ~hurried /\ ~upset

\* Nobody writes inside another tab's transaction, whoever waits and whatever is
\* closed, as long as no connection goes away from under a job (SqlGate.submit).
GateHoldsWhenCalm == Calm => TransactionsDoNotMix

\* A statement is executed once through hand-overs, closes and deaths in any
\* order, unless it was sent to a holder that was still opening (dbLease.ts).
OnceUnlessHurried == hurried \/ ExecutedOnce

\* Inside a transaction, as far as the tab's job knows.
InTransaction(t) == step[t] \in {"first", "second", "commit", "rollback"}

\* The tabs whose transaction went with the connection.
Lost == {t \in Tab : InTransaction(t) /\ txn # t}

Jobs == INSTANCE JobDatabase WITH
    lost <- Lost,
    sound <- Calm

\* Under the same condition the tabs are served as JobDatabase says: jobs land
\* whole, once and in order, and are reported as done exactly when they have
\* landed; what follows in a transaction that went with a connection closed by
\* another tab is written by itself, and never reported (beginImmediate of
\* local.ts, sqlGate.ts, dbLease.ts).
ServesJobs == Jobs!Spec
=============================================================================
