----------------------------- MODULE AccountSync -----------------------------
(***************************************************************************)
(* The devices of one account synchronizing one profile through the cloud  *)
(* vault: runLiveSync and its helpers (src/core/sync/liveAccountSync.ts),  *)
(* runSync (accountSync.ts) and the sync tables of the local database      *)
(* (storage/local.ts), composed with SyncServer.                           *)
(*                                                                         *)
(* A device's run is a sequence of passes; a pass collects what changed,   *)
(* pushes it, pulls one page and projects its rows.  Every await at which  *)
(* something else can happen - a request on its way, a row imported whose  *)
(* head is not yet saved - is a value of pc.  Local edits, a cancelled     *)
(* run, a lost answer and a crash come between any two steps.              *)
(*                                                                         *)
(* Not here: the kinds with a life of their own (story albums, held feed   *)
(* rows, comment tombstones), oversize rows, tombstones older than v2.     *)
(***************************************************************************)
EXTENDS SyncServer

CONSTANTS
    OwnProfile,     \* the profile every device here has open
    Value,          \* contents of a local row, up to its fingerprint
    Bad,            \* those of Value that the importing side always refuses
    Gone,           \* no such row
    Writer,         \* the devices on which the user touches an entity
    Faults,         \* which of FaultKind happen
    MaxPush,        \* MAX_PUSH_MUTATIONS
    PoisonMax,      \* POISON_MAX_ATTEMPTS
    MaxEdits        \* bound: edits and deletions made by the user

\* No network; an answer lost; the app closed, or killed inside a run; the
\* profile switched; the account lost by the server; the local database busy,
\* or busy for a moment only.
FaultKind == {"offline", "lost", "restart", "crash", "cancel", "account", "busy", "flicker"}

ASSUME ClientAssumption ==
    /\ OwnProfile \in Profile
    /\ \A e \in Entity : ProfileOf[e] = OwnProfile
    /\ Gone \notin Value
    /\ Bad \subseteq Value
    /\ Writer \in [Entity -> SUBSET Device]
    /\ Faults \subseteq FaultKind
    /\ MaxPush \in Nat \ {0} /\ PoisonMax \in Nat \ {0} /\ MaxEdits \in Nat

VARIABLES
    val,            \* the entity's row in the device's database
    localHead,      \* sync_entity_heads of the device
    cursor,         \* sync_state.cursor, null as 0
    knownEpoch,     \* sync_state.server_epoch, null as 0
    enrolled,       \* in memory: this process has enrolled the device
    attempts,       \* in memory: poisonAttempts
    cut,            \* the run's generation is no longer the current one
    pc,             \* where the device's run is
    pass,           \* what the pass holds in memory
    edits           \* edits made so far

deviceVars == <<val, localHead, cursor, knownEpoch, enrolled, attempts, cut, pc, pass, edits>>
vars == <<live, epoch, dev, recent, log, heads, lastSeq, ack,
          val, localHead, cursor, knownEpoch, enrolled, attempts, cut, pc, pass, edits>>

\* The sealed row: its content, who sealed it, and the nonce. A device seals
\* at random, so two sealings never agree; of one device's sealings of one id
\* only the stored and the next one matter, and two nonces tell them apart.
SealedBody == [content: Value \cup {Gone}, by: Device, nonce: {0, 1}]

ASSUME BodyAssumption == Body = SealedBody

Content == Value \cup {Gone}
Phase == {"idle", "collect", "send", "refused", "pushed", "save", "pull",
          "pulled", "rowhead", "reset"}

\* The fingerprint of a head is the content it was taken of, or none.
Head == [rev: 0..MaxRevision, del: BOOLEAN, print: Content]
NoLocalHead == [rev |-> 0, del |-> FALSE, print |-> Gone]

Pass == [batch: SUBSET Mutation,            \* collected.mutations
         seen: [Entity -> 0..MaxRevision],  \* localHeads, read when the pass began
         base: Nat,                         \* state.serverEpoch, read with the cursor
         accepted: SUBSET Mutation,         \* what the push response accepted
         epoch: Nat,                        \* serverEpoch of the last response
         page: SUBSET Row,                  \* pulled rows not yet projected
         next: Nat,                         \* nextCursor of the pull response
         again: BOOLEAN]                    \* the pass asks for another one

Empty == [batch |-> {}, seen |-> [e \in Entity |-> 0], base |-> 0,
          accepted |-> {}, epoch |-> 0, page |-> {}, next |-> 0, again |-> FALSE]

ClientTypeOK ==
    /\ val \in [Device -> [Entity -> Content]]
    /\ localHead \in [Device -> [Entity -> Head]]
    /\ cursor \in [Device -> Nat]
    /\ knownEpoch \in [Device -> Nat]
    /\ enrolled \in [Device -> BOOLEAN]
    /\ attempts \in [Device -> [Entity \X Revision -> 0..(PoisonMax - 1)]]
    /\ cut \in [Device -> BOOLEAN]
    /\ pc \in [Device -> Phase]
    /\ pass \in [Device -> Pass]
    /\ edits \in 0..MaxEdits

NoAttempts == [id \in Entity \X Revision |-> 0]

Init ==
    /\ ServerInit
    /\ val = [d \in Device |-> [e \in Entity |-> Gone]]
    /\ localHead = [d \in Device |-> [e \in Entity |-> NoLocalHead]]
    /\ cursor = [d \in Device |-> 0]
    /\ knownEpoch = [d \in Device |-> 0]
    /\ enrolled = [d \in Device |-> FALSE]
    /\ attempts = [d \in Device |-> NoAttempts]
    /\ cut = [d \in Device |-> FALSE]
    /\ pc = [d \in Device |-> "idle"]
    /\ pass = [d \in Device |-> Empty]
    /\ edits = 0

-----------------------------------------------------------------------------
(* The user, and the life of a run.                                        *)

\* The user writes or deletes a row: the database first, sync knows nothing.
Edit(d, e, v) ==
    /\ d \in Writer[e]
    /\ edits < MaxEdits
    /\ v # val[d][e]
    /\ val' = [val EXCEPT ![d][e] = v]
    /\ edits' = edits + 1
    /\ UNCHANGED <<serverVars, localHead, cursor, knownEpoch, enrolled,
                   attempts, cut, pc, pass>>

\* The run ends: returned, or thrown and logged as live_sync_failed.
EndRun(d) ==
    /\ pc' = [pc EXCEPT ![d] = "idle"]
    /\ pass' = [pass EXCEPT ![d] = Empty]
    /\ cut' = [cut EXCEPT ![d] = FALSE]

\* syncActiveAccount: a start of the app or a reconnect. One run at a time.
StartRun(d) ==
    /\ pc[d] = "idle"
    /\ pc' = [pc EXCEPT ![d] = "collect"]
    /\ UNCHANGED <<serverVars, val, localHead, cursor, knownEpoch, enrolled,
                   attempts, cut, pass, edits>>

\* cancelLiveAccountSync: the profile is being switched.
CancelRun(d) ==
    /\ "cancel" \in Faults
    /\ pc[d] # "idle"
    /\ ~cut[d]
    /\ cut' = [cut EXCEPT ![d] = TRUE]
    /\ UNCHANGED <<serverVars, val, localHead, cursor, knownEpoch, enrolled,
                   attempts, pc, pass, edits>>

\* The process ends: the database survives, nothing in memory does.
EndProcess(d) ==
    /\ EndRun(d)
    /\ enrolled' = [enrolled EXCEPT ![d] = FALSE]
    /\ attempts' = [attempts EXCEPT ![d] = NoAttempts]
    /\ UNCHANGED <<serverVars, val, localHead, cursor, knownEpoch, edits>>

\* The app is closed between runs, or killed inside one.
Restart(d) == "restart" \in Faults /\ pc[d] = "idle" /\ EndProcess(d)
Crash(d) == "crash" \in Faults /\ pc[d] # "idle" /\ EndProcess(d)

\* The run notices that it was cancelled, at one of its shouldContinue checks.
StopRun(d) ==
    /\ cut[d]
    /\ pc[d] \in {"collect", "send", "pushed", "pulled"}
    /\ EndRun(d)
    /\ UNCHANGED <<serverVars, val, localHead, cursor, knownEpoch, enrolled,
                   attempts, edits>>

-----------------------------------------------------------------------------
(* Collecting and pushing.                                                 *)

\* Broken on purpose: a row that has been uploaded once counts as unchanged.
OnceUploaded(h, v) == h.rev > 0 /\ ~h.del

\* The row the head stands for is the row that is there.
Unchanged(h, v) == h.rev > 0 /\ ~h.del /\ h.print = v

\* Rows to upload, and heads whose row has disappeared.
ChangedRows(d) ==
    {e \in Entity : val[d][e] # Gone /\ ~Unchanged(localHead[d][e], val[d][e])}
LostRows(d) ==
    {e \in Entity : val[d][e] = Gone /\ localHead[d][e].rev > 0 /\ ~localHead[d][e].del}

\* One push takes MaxPush mutations, changed rows before tombstones.
Collectable(d) ==
    {es \in SUBSET (ChangedRows(d) \cup LostRows(d)) :
        /\ Cardinality(es) <= MaxPush
        /\ Cardinality(es) < MaxPush => es = ChangedRows(d) \cup LostRows(d)
        /\ es \cap LostRows(d) # {} => ChangedRows(d) \subseteq es}

\* The next revision, sealed anew at every collection.
Sealed(d, e) ==
    LET r == localHead[d][e].rev + 1
        used(n) == \E q \in log : /\ q.ent = e /\ q.rev = r
                                  /\ q.body.by = d /\ q.body.nonce = n
    IN  [ent |-> e, rev |-> r,
         body |-> [content |-> val[d][e], by |-> d, nonce |-> IF used(0) THEN 1 ELSE 0]]

Collect(d) ==
    /\ pc[d] = "collect"
    /\ ~cut[d]
    /\ \E es \in Collectable(d) :
          /\ \A e \in es : localHead[d][e].rev < MaxRevision
          /\ pass' = [pass EXCEPT ![d] =
                [Empty EXCEPT !.batch = {Sealed(d, e) : e \in es},
                              !.seen = [e \in Entity |-> localHead[d][e].rev],
                              !.base = knownEpoch[d]]]
          /\ pc' = [pc EXCEPT ![d] = "send"]
    /\ UNCHANGED <<serverVars, val, localHead, cursor, knownEpoch, enrolled,
                   attempts, cut, edits>>

\* Nothing to push: the pass goes straight to its pull.
SkipPush(d) ==
    /\ pc[d] = "send"
    /\ ~cut[d]
    /\ pass[d].batch = {}
    /\ pc' = [pc EXCEPT ![d] = "pull"]
    /\ UNCHANGED <<serverVars, val, localHead, cursor, knownEpoch, enrolled,
                   attempts, cut, pass, edits>>

\* A request is about to leave.
Requesting(d) ==
    \/ pc[d] = "pull"
    \/ pc[d] = "send" /\ ~cut[d] /\ pass[d].batch # {}

\* ensureDeviceEnrolled, once per process.
EnrollDevice(d) ==
    /\ Requesting(d)
    /\ ~enrolled[d]
    /\ Enroll(d)
    /\ enrolled' = [enrolled EXCEPT ![d] = TRUE]
    /\ UNCHANGED <<val, localHead, cursor, knownEpoch, attempts, cut, pc, pass, edits>>

\* The request never arrives, or checkOnlineWrite finds no network.
Unreachable(d) ==
    /\ "offline" \in Faults
    /\ pc[d] \in {"send", "pull"}
    /\ EndRun(d)
    /\ UNCHANGED <<serverVars, val, localHead, cursor, knownEpoch, enrolled,
                   attempts, edits>>

\* HTTP 403: the enrollment is refused, or the process still believes in one
\* that the account of today has never seen.
Denied(d) ==
    /\ Requesting(d)
    /\ IF enrolled[d] THEN ~Authentic(d) ELSE ~Admits(d, TRUE)
    /\ EndRun(d)
    /\ UNCHANGED <<serverVars, val, localHead, cursor, knownEpoch, enrolled,
                   attempts, edits>>

SendPush(d) ==
    LET batch == pass[d].batch
        rows == Compact(log, Seen(d), ack)
        accepted == Accepted(batch, rows)
    IN  /\ pc[d] = "send"
        /\ Requesting(d)
        /\ enrolled[d]
        /\ PushTaken(d, batch)
        /\ pc' = [pc EXCEPT ![d] = "pushed"]
        /\ pass' = [pass EXCEPT ![d].batch = {},
                                ![d].accepted = accepted,
                                ![d].epoch = epoch,
                                ![d].again = \/ accepted # batch
                                             \/ Cardinality(batch) >= MaxPush]
        /\ UNCHANGED <<val, localHead, cursor, knownEpoch, enrolled, attempts,
                       cut, edits>>

SendRefusedPush(d) ==
    /\ pc[d] = "send"
    /\ Requesting(d)
    /\ enrolled[d]
    /\ PushRefused(d, pass[d].batch)
    /\ pc' = [pc EXCEPT ![d] = "refused"]
    /\ UNCHANGED <<val, localHead, cursor, knownEpoch, enrolled, attempts, cut,
                   pass, edits>>

\* The local database refuses a read or a write of the sync tables: the run
\* is thrown out of wherever it is.
DatabaseRefuses(d) ==
    /\ "busy" \in Faults
    /\ pc[d] \in {"collect", "pushed", "save", "pulled", "reset"}
    /\ pc[d] = "pulled" => pass[d].page = {}
    /\ EndRun(d)
    /\ UNCHANGED <<serverVars, val, localHead, cursor, knownEpoch, enrolled,
                   attempts, edits>>

\* HTTP 409 or 413 is thrown out of runSync: the run ends without a pull.
PushThrows(d) ==
    /\ pc[d] = "refused"
    /\ EndRun(d)
    /\ UNCHANGED <<serverVars, val, localHead, cursor, knownEpoch, enrolled,
                   attempts, edits>>

\* The answer of a push or a pull is lost; the server has acted all the same.
LoseAnswer(d) ==
    /\ "lost" \in Faults
    /\ \/ pc[d] = "pushed" /\ UNCHANGED serverVars
       \/ pc[d] = "pull" /\ enrolled[d] /\ Pull(d, OwnProfile, cursor[d])
    /\ EndRun(d)
    /\ UNCHANGED <<val, localHead, cursor, knownEpoch, enrolled, attempts, 
                   edits>>

\* detectServerReset: an epoch was known and the answer names another one.
ServerReset(d) == pass[d].base # 0 /\ pass[d].base # pass[d].epoch

\* Broken on purpose: the heads stay as they are, or go altogether.
KeptAsIs(hs) == hs
Deleted(hs) == [e \in Entity |-> NoLocalHead]

\* forgetSyncEntityFingerprints: the prints go, the revisions stay.
Forgotten(hs) == [e \in Entity |-> [hs[e] EXCEPT !.print = Gone]]

\* A push was answered by a new account. What it accepted is not recorded.
PushFindsReset(d) ==
    /\ pc[d] = "pushed"
    /\ ~cut[d]
    /\ ServerReset(d)
    /\ localHead' = [localHead EXCEPT ![d] = Forgotten(@)]
    /\ pc' = [pc EXCEPT ![d] = "reset"]
    /\ UNCHANGED <<serverVars, val, cursor, knownEpoch, enrolled, attempts, cut,
                   pass, edits>>

\* Broken on purpose: the cursor of the lost account is kept.
SaveResetKeepsCursor(d) ==
    /\ pc[d] = "reset"
    /\ knownEpoch' = [knownEpoch EXCEPT ![d] = pass[d].epoch]
    /\ pc' = [pc EXCEPT ![d] = IF cut[d] THEN "idle" ELSE "collect"]
    /\ pass' = [pass EXCEPT ![d] = Empty]
    /\ cut' = [cut EXCEPT ![d] = FALSE]
    /\ UNCHANGED <<serverVars, val, localHead, cursor, enrolled, attempts, edits>>

\* The rest of detectServerReset; the next pass starts from nothing.
SaveReset(d) ==
    /\ pc[d] = "reset"
    /\ cursor' = [cursor EXCEPT ![d] = 0]
    /\ knownEpoch' = [knownEpoch EXCEPT ![d] = pass[d].epoch]
    /\ pc' = [pc EXCEPT ![d] = IF cut[d] THEN "idle" ELSE "collect"]
    /\ pass' = [pass EXCEPT ![d] = Empty]
    /\ cut' = [cut EXCEPT ![d] = FALSE]
    /\ UNCHANGED <<serverVars, val, localHead, enrolled, attempts, edits>>

\* saveSyncState with the epoch of the push response.
TakePushAnswer(d) ==
    /\ pc[d] = "pushed"
    /\ ~cut[d]
    /\ ~ServerReset(d)
    /\ knownEpoch' = [knownEpoch EXCEPT ![d] = pass[d].epoch]
    /\ pc' = [pc EXCEPT ![d] = "save"]
    /\ UNCHANGED <<serverVars, val, localHead, cursor, enrolled, attempts, cut,
                   pass, edits>>

HeadOf(m) == [rev |-> m.rev, del |-> m.body.content = Gone, print |-> m.body.content]

\* saveSyncEntityHeads: a head of a lower revision than the stored one is not
\* written.
Saved(old, new) == IF new.rev >= old.rev THEN new ELSE old

\* onPushAccepted.
SaveAccepted(d) ==
    /\ pc[d] = "save"
    /\ localHead' = [localHead EXCEPT ![d] = [e \in Entity |->
          IF \E m \in pass[d].accepted : m.ent = e
          THEN Saved(@[e], HeadOf(CHOOSE m \in pass[d].accepted : m.ent = e))
          ELSE @[e]]]
    /\ pass' = [pass EXCEPT ![d].accepted = {}]
    /\ pc' = [pc EXCEPT ![d] = "pull"]
    /\ UNCHANGED <<serverVars, val, cursor, knownEpoch, enrolled, attempts, cut, edits>>

-----------------------------------------------------------------------------
(* Pulling and projecting.                                                 *)

SendPull(d) ==
    /\ pc[d] = "pull"
    /\ enrolled[d]
    /\ Pull(d, OwnProfile, cursor[d])
    /\ pc' = [pc EXCEPT ![d] = "pulled"]
    /\ pass' = [pass EXCEPT ![d].page = Page(OwnProfile, cursor[d]),
                            ![d].next = NextCursor(OwnProfile, cursor[d]),
                            ![d].epoch = epoch,
                            ![d].again = @ \/ HasMore(OwnProfile, cursor[d])]
    /\ UNCHANGED <<val, localHead, cursor, knownEpoch, enrolled, attempts, cut, edits>>

\* The row to project next.
FirstRow(d) == CHOOSE r \in pass[d].page : \A q \in pass[d].page : r.seq <= q.seq

Projecting(d) == pc[d] = "pulled" /\ ~cut[d] /\ pass[d].page # {}

\* Broken on purpose: every row of the page is news.
NeverStale(d, r) == FALSE

\* The pass's own list of heads says the row is not news.
Stale(d, r) == pass[d].seen[r.ent] >= r.rev

Id(r) == <<r.ent, r.rev>>

SkipRow(d) ==
    LET r == FirstRow(d)
    IN  /\ Projecting(d)
        /\ Stale(d, r)
        /\ pass' = [pass EXCEPT ![d].page = @ \ {r}]
        /\ attempts' = [attempts EXCEPT ![d][Id(r)] = 0]
        /\ UNCHANGED <<serverVars, val, localHead, cursor, knownEpoch, enrolled,
                       cut, pc, edits>>

\* applyPulledMutation, first half: the import overwrites or deletes the row.
ImportRow(d) ==
    LET r == FirstRow(d)
    IN  /\ Projecting(d)
        /\ ~Stale(d, r)
        /\ r.body.content \notin Bad
        /\ val' = [val EXCEPT ![d][r.ent] = r.body.content]
        /\ pc' = [pc EXCEPT ![d] = "rowhead"]
        /\ UNCHANGED <<serverVars, localHead, cursor, knownEpoch, enrolled,
                       attempts, cut, pass, edits>>

\* Broken on purpose: the print is taken of the row as it is by now.
SaveRowHeadLate(d) ==
    LET r == FirstRow(d)
        head == [HeadOf(r) EXCEPT !.print = val[d][r.ent]]
    IN  /\ pc[d] = "rowhead"
        /\ localHead' = [localHead EXCEPT ![d][r.ent] = Saved(@, head)]
        /\ pass' = [pass EXCEPT ![d].page = @ \ {r}, ![d].seen[r.ent] = r.rev]
        /\ attempts' = [attempts EXCEPT ![d][Id(r)] = 0]
        /\ pc' = [pc EXCEPT ![d] = "pulled"]
        /\ UNCHANGED <<serverVars, val, cursor, knownEpoch, enrolled, cut, edits>>

\* Second half: the head is saved, in a transaction of its own.
SaveRowHead(d) ==
    LET r == FirstRow(d)
    IN  /\ pc[d] = "rowhead"
        /\ localHead' = [localHead EXCEPT ![d][r.ent] = Saved(@, HeadOf(r))]
        /\ pass' = [pass EXCEPT ![d].page = @ \ {r}, ![d].seen[r.ent] = r.rev]
        /\ attempts' = [attempts EXCEPT ![d][Id(r)] = 0]
        /\ pc' = [pc EXCEPT ![d] = "pulled"]
        /\ UNCHANGED <<serverVars, val, cursor, knownEpoch, enrolled, cut, edits>>

\* A row whose projection throws: for its content, or because the database is
\* busy at that moment ("flicker": busy, and free again when probed).
Throws(d, r, answers) ==
    \/ pc[d] = "pulled" /\ r.body.content \in Bad /\ answers
    \/ "busy" \in Faults /\ ~answers
    \/ "flicker" \in Faults /\ answers

\* A row is being applied: its import, or the write of its head.
Applying(d) == pc[d] = "rowhead" \/ (Projecting(d) /\ ~Stale(d, FirstRow(d)))

\* Broken on purpose: one attempt too many is counted.
LastAttemptLate(d, r) == attempts[d][Id(r)] >= PoisonMax

LastAttempt(d, r) == attempts[d][Id(r)] + 1 >= PoisonMax

\* The run fails and the cursor stays; the row is tried again by the next run.
ProjectionThrows(d, answers) ==
    LET r == FirstRow(d)
    IN  /\ Applying(d)
        /\ Throws(d, r, answers)
        /\ ~LastAttempt(d, r) \/ ~answers
        /\ attempts' = [attempts EXCEPT ![d][Id(r)] = IF LastAttempt(d, r) THEN @ ELSE @ + 1]
        /\ EndRun(d)
        /\ UNCHANGED <<serverVars, val, localHead, cursor, knownEpoch, enrolled,
                       edits>>

\* Broken on purpose: the database is not asked before the row is given up.
PoisonRowUnprobed(d) ==
    LET r == FirstRow(d)
    IN  /\ Applying(d)
        /\ \E answers \in BOOLEAN : Throws(d, r, answers)
        /\ LastAttempt(d, r)
        /\ attempts' = [attempts EXCEPT ![d][Id(r)] = 0]
        /\ pass' = [pass EXCEPT ![d].page = @ \ {r}]
        /\ pc' = [pc EXCEPT ![d] = "pulled"]
        /\ UNCHANGED <<serverVars, val, localHead, cursor, knownEpoch, enrolled,
                       cut, edits>>

\* The last attempt has failed and the database answers: the row is given up.
PoisonRow(d) ==
    LET r == FirstRow(d)
    IN  /\ Applying(d)
        /\ Throws(d, r, TRUE)
        /\ LastAttempt(d, r)
        /\ attempts' = [attempts EXCEPT ![d][Id(r)] = 0]
        /\ pass' = [pass EXCEPT ![d].page = @ \ {r}]
        /\ pc' = [pc EXCEPT ![d] = "pulled"]
        /\ UNCHANGED <<serverVars, val, localHead, cursor, knownEpoch, enrolled,
                       cut, edits>>

Projected(d) == pc[d] = "pulled" /\ ~cut[d] /\ pass[d].page = {}

\* The whole page is behind: only now the cursor moves. Another pass follows
\* if there is more to send or to fetch, unless the pass limit is reached or
\* the same rejections came twice.
FinishPass(d) ==
    /\ Projected(d)
    /\ ~ServerReset(d)
    /\ cursor' = [cursor EXCEPT ![d] = pass[d].next]
    /\ knownEpoch' = [knownEpoch EXCEPT ![d] = pass[d].epoch]
    /\ \E to \in {"idle"} \cup (IF pass[d].again THEN {"collect"} ELSE {}) :
          pc' = [pc EXCEPT ![d] = to]
    /\ pass' = [pass EXCEPT ![d] = Empty]
    /\ UNCHANGED <<serverVars, val, localHead, enrolled, attempts, cut, edits>>

PullFindsReset(d) ==
    /\ Projected(d)
    /\ ServerReset(d)
    /\ localHead' = [localHead EXCEPT ![d] = Forgotten(@)]
    /\ pc' = [pc EXCEPT ![d] = "reset"]
    /\ UNCHANGED <<serverVars, val, cursor, knownEpoch, enrolled, attempts, cut,
                   pass, edits>>

\* The account is lost on the server; no device is told.
AccountLost ==
    /\ "account" \in Faults
    /\ LoseAccount
    /\ UNCHANGED deviceVars

-----------------------------------------------------------------------------
UserStep(d) ==
    \/ \E e \in Entity, v \in Content : Edit(d, e, v)
    \/ StartRun(d) \/ CancelRun(d) \/ Restart(d) \/ Crash(d)

PushStep(d) ==
    \/ StopRun(d) \/ Collect(d) \/ SkipPush(d) \/ EnrollDevice(d)
    \/ Unreachable(d) \/ Denied(d) \/ SendPush(d) \/ SendRefusedPush(d)
    \/ PushThrows(d) \/ LoseAnswer(d) \/ DatabaseRefuses(d)
    \/ PushFindsReset(d) \/ SaveReset(d) \/ TakePushAnswer(d) \/ SaveAccepted(d)

PullStep(d) ==
    \/ SendPull(d) \/ SkipRow(d) \/ ImportRow(d) \/ SaveRowHead(d)
    \/ \E answers \in BOOLEAN : ProjectionThrows(d, answers)
    \/ PoisonRow(d) \/ FinishPass(d) \/ PullFindsReset(d)

Next == AccountLost \/ \E d \in Device : UserStep(d) \/ PushStep(d) \/ PullStep(d)

Spec == Init /\ [][Next]_vars

\* What the run of a device does next when nothing goes wrong.
Proceed(d) ==
    \/ StartRun(d) \/ StopRun(d) \/ Collect(d) \/ SkipPush(d) \/ EnrollDevice(d)
    \/ Denied(d) \/ SendPush(d) \/ SendRefusedPush(d) \/ PushThrows(d)
    \/ PushFindsReset(d) \/ SaveReset(d) \/ TakePushAnswer(d) \/ SaveAccepted(d)
    \/ SendPull(d) \/ SkipRow(d) \/ ImportRow(d) \/ SaveRowHead(d) \/ PoisonRow(d)
    \/ ProjectionThrows(d, TRUE) \/ FinishPass(d) \/ PullFindsReset(d)

\* A run is driven to its end by its promises, runs start again and again
\* (every start of the app, every reconnect), the network is there again and
\* again when a request leaves, and the app is restarted again and again.
FairSpec ==
    /\ Spec
    /\ \A d \in Device :
        /\ WF_vars(Proceed(d))
        /\ SF_vars(EnrollDevice(d))
        /\ SF_vars(SkipPush(d) \/ SendPush(d) \/ SendRefusedPush(d))
        /\ SF_vars(SendPull(d))
        /\ SF_vars(Restart(d))

-----------------------------------------------------------------------------
(* Properties.                                                             *)

\* What device d knows is about the account that is there now.
Current(d) == live /\ knownEpoch[d] = epoch

\* The cursor never passes a row the device has not projected, however its
\* runs were cut, cancelled, repeated or restarted and whatever was given up
\* on: only a row whose content no import can take is ever left behind
\* (runSync saves the cursor last, POISON_MAX_ATTEMPTS spares healthy rows).
NoRowSkipped ==
    \A d \in Device : Current(d) =>
        \A r \in log : r.seq <= cursor[d] /\ r.body.content \notin Bad
                          => localHead[d][r.ent].rev >= r.rev

\* A head that carries a print keeps its row from being uploaded again, so it
\* must be true: the server of today stores that very content under that very
\* revision - in particular after a reset found by a push or by a pull, at any
\* point of the run (forgetSyncEntityFingerprints, saveSyncEntityHeads).
HeadsAreTrue ==
    \A d \in Device, e \in Entity :
        Current(d) /\ localHead[d][e].print # Gone =>
            \E r \in log : /\ r.ent = e /\ r.rev = localHead[d][e].rev
                           /\ r.body.content = localHead[d][e].print

\* No step takes a device back: revisions of local heads only grow, also when
\* the server lost the account and started over, and a row is only ever
\* overwritten by one of at least the revision the device had reached
\* (applyMutation's check uses heads read before the push of the same pass).
NoRollback ==
    [][\A d \in Device, e \in Entity :
          /\ localHead'[d][e].rev >= localHead[d][e].rev
          /\ val'[d][e] # val[d][e] /\ edits' = edits =>
                \E r \in pass[d].page : /\ r.ent = e /\ r.body.content = val'[d][e]
                                        /\ r.rev >= localHead[d][e].rev]_vars

\* Every device shows what the server holds last of every entity.
Converged ==
    \A d \in Device, e \in Entity :
        \/ heads[e].rev = 0 /\ val[d][e] = Gone
        \/ \E r \in log : r.ent = e /\ r.rev = heads[e].rev /\ r.body.content = val[d][e]

\* All devices end up with the same rows once the user stops editing, though
\* requests may fail to leave: every edit gets out and every row gets in, one
\* small page at a time. So it is with each entity edited on one device only.
Convergence == <>[]Converged

\* A push whose answer never came back is sent again by the next run: what the
\* server already stores of a device is never the reason to refuse the same
\* content from it (cloud-vault README: delivery is idempotent by mutationId).
RetryIsIdempotent ==
    \A d \in Device : pc[d] = "refused" =>
        \A m \in pass[d].batch : \A r \in Stored(m, log) :
            r.body.by = d => r.body.content # m.body.content

\* What a pull brings overwrites a row only with a revision above the one the
\* device had reached: the echo of its own push leaves a newer local edit
\* alone (the comment on applyMutation in runLiveSync).
EchoKeepsLocalEdit ==
    [][\A d \in Device, e \in Entity :
          val'[d][e] # val[d][e] /\ edits' = edits =>
              \E r \in pass[d].page : r.ent = e /\ r.rev > localHead[d][e].rev]_vars

\* Nothing is left to fetch or to send of e.
Settled(d, e) ==
    /\ Current(d)
    /\ cursor[d] = lastSeq
    /\ e \notin ChangedRows(d) \cup LostRows(d)

\* A device with nothing left to fetch or to send of an entity shows what the
\* server holds last of it, or could not import that: whoever wrote it, and
\* whatever was cut, lost, repeated or given up on the way. Two such devices
\* never show different rows that no later run would look at again
\* (collectPending and applyMutation, which both go by the heads alone).
SettledShowsNewest ==
    \A d \in Device, e \in Entity : Settled(d, e) =>
        \/ heads[e].rev = 0 /\ val[d][e] = Gone
        \/ \E r \in log : /\ r.ent = e /\ r.rev = heads[e].rev
                          /\ r.body.content \in {val[d][e]} \cup Bad
=============================================================================
