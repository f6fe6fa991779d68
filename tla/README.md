# AirChat: specifications, model checking and proofs

TLA+ specifications of the parts of AirChat whose correctness depends on the
order of events: the account sync of a user's devices and the cloud vault they
sync through, the one database connection that all tabs of a browser share, the
way of a message from the relay into a chat, the marks against old decisions,
scheduled messages and the switch of the profile, the OpenFlux tunnel, calls, and
the key a device keeps its data under.
Each component is a module; an `MC*` module and a `.cfg` give TLC a small
instance of it; a `*Proofs` module states theorems about it that TLAPS checks
for every value of the constants. `PROJECT.json` holds the same information for
tools: components, runs, the mutants every property has been tried against, the
source lines behind every definition, findings, hazards and theorems.

Contents: [1 the system](#1-the-system), [2 the modules](#2-the-modules),
[3 the runs](#3-the-runs), [4 findings](#4-findings-and-configurations-kept-beside-the-runs),
[5 what is proved](#5-what-is-proved), [6 what is not modelled](#6-what-is-not-modelled),
[7 the plan](#7-the-plan). To repeat a check: `tlc -config X.cfg MC....tla`;
to repeat a proof: `tlapm X.tla`.

## 1 The system

AirChat is a messenger (React Native and web) without accounts on a server in
the usual sense: identity is a seed phrase, messages travel between devices
through relays, a LAN, WebRTC or IPFS, and everything a device knows lies in a
local SQLite database. Around that core there are a few servers that see only
ciphertext. The parts, their state, and what makes each of them correct:

| Part | State | Operations | Correct when |
|---|---|---|---|
| **Vault, sync log** `server/cloud-vault/sync-db.js`, `index.js` | rows `sync_mutations`, `sync_entity_heads`, last sequence, byte quota | push, pull, compaction inside both, loss of the account's row | an entity's rows appear in revision order; a cursor never runs ahead; compaction takes nothing an active device still needs |
| **Vault, device registry** same files | `sync_devices`, `sync_device_cursors`, enrollment window | enroll, let in, fall idle, revoke | never more active devices than allowed; revocation is for good |
| **Sync pass** `core/sync/accountSync.ts` | `sync_state` (cursor, epoch), attempts per broken row in memory | push, pull, project a page, give a row up, recognise a reset | no row skipped, no row given up that could be imported, nothing forgotten after a reset |
| **Live sync** `core/sync/liveAccountSync.ts` | `sync_entity_heads` (revision, fingerprint), the generation of the run | collect what changed, seal it, import a row, save its head, cancel | a fingerprint is true; an older row never overwrites a newer one; devices converge |
| **Sync API client** `core/sync/syncApi.ts` | enrollment remembered in memory, device key | enroll once per process, signed requests, timeouts | a lost answer costs nothing but a repetition |
| **Database lease** `core/storage/dbLease.ts`, `dbLeaseProtocol.ts`, `sqlGate.ts` | role of every tab, the Web Lock, the OPFS file, the gate's holder and waiters | take over, step down, close, serve a statement, time out | one file owner; transactions do not mix; statements run once; nobody waits for ever |
| **Relay intake** `core/transport/internet/internetCoordinator.ts`, `internetTransport.ts`, `relayBacklog.ts` | saved watermark, the closure of each session: frames held, in flight, refused once | connect, hand over, handled, refused, restart | the watermark passes no frame that was neither handled nor given up, and is not left behind |
| **Direct inbox** `core/social/messaging.ts` over `core/storage/local.ts` | `seenMessageIds`, rows, marks of deletions, each handling | open, look, store, edit, delete, mark | a frame has one handler and takes effect once |
| **Control marks** `core/social/controlWatermark.ts`, `disappearSync.ts` | a mark on disk and in memory per slot | judge, apply, explain, mark | an old decision never undoes a newer one; none is refused for nothing |
| **Scheduled messages** `core/social/scheduledMessages.ts` | rows with attempts, the pass | list, count, send, copy, remove | repeated only after a fault, never lost, sent by their owner, and some day |
| **Profiles** `core/identity/profileManager.ts`, `App.tsx` | active profile, stored profile, bound services | switch, roll back, bind | nothing of one profile is sent as another |
| **OpenFlux tunnel** `core/vpn/openFluxController.ts`, `openFluxNetworkGuard.ts`, `core/transport/networkReconnectWatcher.ts` | generation of intent, native queue, core, `cleanupRequired`, guard | start, stop, retry, revive | a late start never revives a tunnel switched off; a tunnel stands on the present network |
| **Calls** `core/social/callService.ts`, `callTeardown.ts` | one call per phone, three timers, microphone, connection, offers seen | dial, ring, cross, accept, hang up, time out | no call hangs, no microphone stays on, every call is logged once |
| **Key of the data** `core/storage/localEncryption.ts`, `dekPolicy.ts`, `local.ts`, `secureStoreQueued.ts`, `core/backup/seedPhrase.ts`, `core/crypto/keyManager.ts`, `core/wallet/wipeLocalWallet.ts` | records of the Keychain (key, canary, words, secret key), `dekMemory`, `dekInflight`, `dekGeneration`, marks in `kv` | resolve, migrate, roll back, onboard, repair, forget, wipe | nothing is left under a key that is gone; a start stays possible; a finished wipe leaves no key |
| Vault, snapshots | encrypted backup versions, seed binding, nonces | PUT/GET, single-use nonces | no lost update, no replay |
| Vault, usernames, media, posts | claims, references, blobs | claim, release, reference, collect | one owner per name; no blob collected that is referenced |
| VPN (`core/vpn`, but OpenFlux) | native module | configure, start, stop | - |
| Group messaging, feed, stories, albums | group and post tables | send, receive, edit, receipts, roles | per-peer order, roles respected |
| Signaling server | connected sockets, missed calls | relay a signal, say who is away | signals reach the other phone in order |
| Push notifications | token registry | register, expire, send | a token has one owner |
| Other transports, mesh | routes, store-and-forward queues | choose a route, retry | delivery through whatever works |
| Vault of accounts, locks | accounts put aside, biometric and PIN gates | set aside, unlock | nothing of one account is read under another |
| UI, bridges, backups, security gates | - | - | see section 6 |

How the modelled parts interact:

```
   user --edits--> local database <--imports-- live sync --sealed rows--> sync pass
                        |                         |  heads                    |
                 (web: database lease)            +--- sync_state, heads -----+
                        |                                                     | signed HTTP
        tabs --posts, Web Lock, OPFS file                          vault: device registry, sync log

   relay --frames since the watermark--> relay intake --envelope--> direct inbox --rows--> local database
     |          ^                            ^    <--consumed / deferred--  |
     |          +-- watermark saved ---------+                  control marks --> timers, roles, ...
     |
   network watcher --> guard --> OpenFlux controller --queue--> native core      calls <--signals--> calls
                                        ^
       settings, agent, app start ------+      profile switch --> services --> scheduler --> sends

   onboarding, wipe, disposed services --> key of the data <--line of requests--> Keychain
                                                |
                            opening of the local database, its encrypted rows
```

What is hard here. *Interleaving*: the user edits rows, the profile is switched
and the app is closed at every `await` of a run; tabs issue statements into each
other's transactions. *Failure*: answers get lost after the server has acted,
the database is busy, the process is killed between the transaction that imports
a row and the one that records it, the server loses an account and starts it
over; a locked Keychain refuses any of the writes by which a key is exchanged.
*Ordering and staleness*: heads are read before the push of a pass and used
after it; a new holder of the database announces itself while it keeps older
requests; frames of one backlog are handled at once, and the watermark has to
follow the slowest; decisions of a contact arrive again and out of order.
*Time*: timers of fifteen and twenty seconds race with late answers, a dialog of
permissions stays open while calls come and go. *What cannot be cancelled*: a
native start, a request for the microphone, a send that is under way.
`hazards` in `PROJECT.json` lists them one by one with their lines.

## 2 The modules

### SyncServer

One account of the vault. `node:sqlite` is synchronous, so a request is
authenticated and its transaction is run with no other request between: one
handler is one action.

| Module | Code |
|---|---|
| `live`, `epoch`, `lastSeq` | the account's row; the `accountEpoch` a client compares; `last_mutation_sequence` |
| `dev` | `sync_devices`: none, active, idle (`last_seen_at` before the cutoff), revoked |
| `recent` | enrollments still inside the rate window |
| `log`, `heads`, `ack` | `sync_mutations`, `sync_entity_heads`, `sync_device_cursors` |
| `Admits`, `Seen`, `Authentic` | `ensureDevice` and what it writes |
| `Enroll`, `Revoke` | the enrollment and revocation handlers |
| `PushTaken`, `PushRefused` | `push`: compaction, idempotent replays, stale revisions rejected softly, numbering, heads; refusals (conflict 409, quota) that roll the transaction back and leave the device seen |
| `Pull` | `pull`: clamped cursor, page, acknowledgement, compaction, in this order |
| `GoIdle`, `WindowPasses`, `LoseAccount` | time, and the loss of the account's row |

Abstractions: a mutation's id is the pair (entity, revision), because every
client derives it from exactly these two; what else a row carries is its `Body`,
which the server only compares. Bytes are rows of equal size. Sequences are
consecutive within the account. Validation and signatures of requests are not
part of it.

### AccountSync

The devices of an account with one profile open, composed with `SyncServer` (the
module extends it; a device's request *is* the server's action). `pc` names the
await at which a device's run stands:

```
idle -> collect -> send -> pushed -> [save] -> pull -> pulled <-> rowhead -> idle / collect
                     \-> refused          \------> reset
```

| Module | Code |
|---|---|
| `val`, `localHead` | a row of the device's database and its line in `sync_entity_heads` |
| `cursor`, `knownEpoch` | `sync_state` |
| `enrolled`, `attempts` | in memory: the remembered enrollment, `poisonAttempts` |
| `cut` | `syncGeneration` has moved on: the run stops at its next check |
| `pass` | what `runLiveSync` holds in memory: collected mutations, heads read at the beginning, the page |
| `Collect`, `SkipPush`, `SendPush`, `TakePushAnswer`, `SaveAccepted` | `collectPending`, the push half of `runSync`, `onPushAccepted` |
| `SendPull`, `SkipRow`, `ImportRow`, `SaveRowHead`, `FinishPass` | the pull half, `applyMutation` and `applyPulledMutation` |
| `ProjectionThrows`, `PoisonRow` | a row that throws: attempts, the probe of the database, giving up |
| `PushFindsReset`, `PullFindsReset`, `SaveReset` | `detectServerReset` with the prints forgotten first and the cursor saved after |
| `CancelRun`, `Crash`, `Restart`, `LoseAnswer`, `Unreachable`, `DatabaseRefuses`, `AccountLost` | what may happen in between, each under a fault of the constant `Faults` |

A row is a content or `Gone`; a sealed row adds who sealed it and a nonce, since
sealing is randomised and the server compares ciphertexts: two sealings of the
same row by different devices are never equal, two of the same device differ in
their nonce. Responses are those of an honest server. A request delayed beyond
the client's timeout and arriving later is not modelled (its answer may be lost,
which includes the case that it arrived in time).

Among the faults, `flicker` is a database that is busy while a row is written and
free when it is probed right after. The code cannot tell such a row from a broken
one and gives it up after three runs, so `NoRowSkipped` fails when `flicker` is
added to the `Faults` of `AccountSyncSafety.cfg`; the passing runs keep to what
the comment at `accountSync.ts:89-93` supposes.

### DbLease and JobDatabase

The tabs of one browser and one database. Each tab runs a job at a time: a
single write, or a transaction of two writes (`beginImmediate` queues the
transactions of one tab).

| Module | Code |
|---|---|
| `role` | `queued`, `opening`, `holder`, `leaving` (stepDown), `closing`, ... : `owning`, `closed`, `state.local`, `state.settling` and the position in `hold` |
| `lock`, `file` | the Web Lock; the one open `FileSystemSyncAccessHandle` |
| `txn`, `pend`, `disk` | SQLite's transaction, its writes, what is committed |
| `gate`, `queue` | `SqlGate.holder` and its waiters, of each tab |
| `step`, `call`, `attempt` | the statement a job is at; where `perform` is with it; first or second try |
| `GrantLock`, `Opened`, `OpenFails`, `AbandonedOpens` | `hold` and `becomeOwner` |
| `StepDown`, `Drained`, `CloseFile`, `Release`, `Close`, `Die` | `stepDown`, the last `closeAsync`, `pagehide` and killed tabs |
| `AskLocally`, `AskRemotely`, `AskNobody`, `GiveUp`, `Timeout` | `perform`, `LeaseCaller` |
| `Execute`, `AbandonTransaction` | `SqlGate.submit`, its timer, `serve` |
| `Works`, `Disconnected` | SQLite itself (external): one transaction per connection; a closed connection forgets what is not committed |

Abstractions: a post reaches the tab that owns the lock at once or nobody; a
statement fails only for the state of the connection; a holder that dies loses
the statement it was executing; timers fire when what they wait for cannot come
any more (`Unanswerable`, `Idle`), unless the fault `slow` lets them fire at any
time; a tab does not open a lease again that it closed.

`JobDatabase` says what the tabs may expect of the database they share, in four
variables: what stays on the disk, what was reported, which tabs are in a
transaction that is gone, and whether the database is `sound`. A job lands whole, once,
behind the earlier jobs of its tab, and is reported in the same step; after a
transaction was lost with its connection, what its tab goes on to write lands by
itself and is never reported; once the database is not sound, nothing is promised.
`ServesJobs == Jobs!Spec` maps `sound` to `Calm` (section 3) and `lost` to the tabs
whose job is inside a transaction that is not the connection's; it is a property of
the run `db_lease_faults` and a theorem of `DbLeaseProofs`.

### OpenFlux and OpenFluxIntent

The controller of the tunnel with everybody who switches it. Callers wait for
each other only in the queue of native operations; each keeps the number its
request was given.

| Module | Code |
|---|---|
| `saved`, `gen`, `queue`, `op`, `cleanup` | the cached setting, `lifecycleGeneration`, `nativeQueue` and the operation that runs, `cleanupRequired` |
| `kernel` | the native core (external): for which request and on which network it was raised |
| `task` | where each caller is: the switch and the button of the settings, the guard, the agent's commands, the start of the app |
| `Stop`, `Retry`, `Attempt`, `Boot` | `stopOpenFlux`, `retryOpenFlux`, `startForGeneration` |
| `OpTaken`, `OpBegins`, `Stop...`, `CoreSays...`, `Supported`, `Start...` | `withNativeLifecycle`, `stopNativeOpenFlux`, the looks at the generation at each await of a start |
| `PathChanges`, `PathAnnounced`, `Revive`, `GuardPassEnds` | `networkReconnectWatcher`, `reviveOpenFluxAfterNetworkChange` with `changedAgain` |
| `AccountLeaves`, `AccountEnters` | the watcher is taken down and put up with the services of the account |

`OpenFluxIntent` says what the controller promises, in six variables fewer:
operations run one at a time, each for a request; only the newest request calls
for the tunnel, not while something is left to clean up, and an operation does
not end over a tunnel it raised for a superseded request unless the core refused
to go down. `KeepsIntent == Intent!Spec`, the mapping an `INSTANCE ... WITH`, is
a property of the run `openflux` and a theorem of `OpenFluxProofs`.

A native operation ends, its caller's continuation runs and the caller's next
request is numbered in one step: between them are promise callbacks only.

### RelayIntake, DirectInbox, Delivery

How far a device has read its backlog, what becomes of a frame, and the two
together: `Delivery` extends `RelayIntake`, instantiates `DirectInbox` with
connections for copies, and moves the watermark by the inbox's answer.

| Module | Code |
|---|---|
| `disk`, `pending`, `closure` | the saved watermark, the one that waits for its ten seconds, and the closure of a session: `watermark`, `doneUpTo`, `failedOnce`, `held`, `inFlight` |
| `Connect`, `Since`, `HandOver`, `Handled`, `Target`, `Refused` | `openWs`, `sinceParam`, `onFrame`, `markDone`, `advance`, the two refusals |
| `Stop`, `Start`, `RelayReborn` | the transport restarted, the process killed |
| `seen`, `row`, `marks`, `handling` | `seenMessageIds`, the row of a text, the mark a deletion leaves, each copy's place in `receiveDirectLanEnvelope` |
| `Receive`, `Repeated`, `Look`, `SaveText`, `TargetFound`, `DeleteRow`, `MarkDeleted`, `EditRow` | opening, the two checks of repetition, `persistIncomingFromEnvelope`, deletion and edit |
| `OpenFails`, `LookFails`, `DbFails`, `MarkFails` | failures of the database, which defer a frame, count as "not stored", or are passed over |

The relay keeps the order of its times. A text, an edit and a deletion stand for
the kinds of envelope. A handling that a stop has outlived goes on with the
closure it was given.

### ControlWatermark

The mark of one slot, with the timer of a conversation as the change it guards.
A frame is named by its author's time.

| Module | Code |
|---|---|
| `disk`, `mirror`, `remembered` | the stored mark, the mark in memory, and what a handling took from memory before it read the database |
| `Arrive`, `MarkRead`, `MarkUnreadable` | `freshTs` |
| `Apply`, `Explain`, `Defer` | `handleIncomingDisappear`: the timer, the row of explanation, or a deferral |
| `Explain`, `MarkSaved`, `MarkNotSaved` | `commitTs`: memory first, then the database |
| `Evicted`, `Killed`, `OwnDecision` | 4096 other slots, a death, and the person's own decision |

`ended`, `recent`, `durable`, `owed`, `known` are history only: which decisions
were carried out and which of them a handling had to know of.

### ScheduledMessages

The scheduler with what decides in whose name it sends.

| Module | Code |
|---|---|
| `row`, `attempts`, `now`, `blocked` | `scheduled_messages` and its attempts, time, blocked contacts |
| `pass`: `listing`, `turn`, `marking`, `sending`, `copying`, `removing` | the awaits of `flushDue`; `pass # NoPass` is `flushing` |
| `Listed`, `Turn`, `Postponed`, `Marked`, `Sent`, `Refused`, `Unsent`, `Copied`, `Removed` and their failures | the loop over due rows, `sendScheduled`, `fanoutGroupMessage`, the trap of the loop |
| `active`, `stored`, `switch`, `SwitchBegins`, `SwitchMoves`, `SwitchFails`, `SwitchDone` | `switchProfile`: services disposed of, number changed, state saved or number put back, on the disk too if that is not refused |
| `service`, `pair`, `binding`, `timer`, `Bind`, `StartScheduler` | the identity effect of `App.tsx` |

### Calls

Phones and a network that keeps the order between two of them, loses messages and
may say so. `callGeneration` moves when a call comes or goes, so "the same
generation and the same state" is the same number of the call.

| Module | Code |
|---|---|
| `phone` | `currentCall`, `activeCallId`, `localStream`, `pc`, the three timers, `outgoingOffer` with its interval, `seenOfferCallIds` |
| `stage` | at which await `initiateCall` or a press of `acceptCall` stands |
| `Dial`, `DialReady`, `DialMedia`, `DialOffers`, `DialFails` | `initiateCall` and its catch |
| `Accept`, `AcceptRefused`, `AcceptMedia`, `AcceptWired`, `AcceptAnswers`, `AcceptFails` | `acceptCall`; its first await, of a signaling object that is there since the offer came, is no step of its own |
| `OfferRings`, `OfferBusy`, `OfferDropped`, `AnswerTaken`, `Applied`, `EndTaken` | `onOffer` with crossing calls, `onAnswer`, `onHangup`, declined and busy |
| `HangUp`, `Tell`, `OutTimeout`, `InTimeout`, `ResetTimeout`, `Resend`, `IceFails` | `_hangup`, `sendHangupSignal`, the timers, the watchdog of the connection |
| `Lost`, `Kill` | a message that does not arrive, with or without "unavailable"; a death |

### DataKey

The key under which a device keeps its data. A new device makes up a key; when
there are secret words, the next opening of the database moves everything under the
key they derive. The native Keychain answers one operation at a time, in the order in
which they were made, and may refuse any.

| Module | Code |
|---|---|
| `keychain`, `line` | the four records, and `chain` of `secureStoreQueued.ts` |
| `disk`, `feed` | keys of the rows of `airchat.db` and of the databases of the feed; the marks `dekMigrated`, `seedMnemonicStored`, `kvSecretsEncrypted` |
| `memory`, `inflight`, `recall` | `dekMemory`, `dekInflight`, `cachedMnemonic` |
| `proc`: `stale`, `cut`, `wrote`, `with` | each call of `getOrCreateDataEncryptionKey`: an old generation, its database closed, what it wrote itself, whose promise it shares |
| `ReadKey`, `ReadCanary`, `ReadWords`, `Chosen`, `WriteKey`, `Seal`, `Look`, `Drop`, `Restarts` | `resolveDekOnce`, `decideDek`, `persistNewDek`, `dropOwnWrite` |
| `OpenWords` ... `KeepKey`, `Mark` | `migrateDekRandomToDeterministic`: words, key, canary, secret key, rows, canary, key, mark |
| `Unmove`, `WrapBack`, `OpenFails` | `rollbackDekMigration`, a rejected opening |
| `Onboard`, `SaveWords`, `SaveSecret`, `Recover`, `CloseForRestore`, `SeenLands` | `persistEncryptedMnemonic`, `persistKeyPair`, the repair at the start, the closing before a restore |
| `Wipe`, `WipeMemory`, `WipeWords`, `WipeUnseen`, `WipeRecord`, `WipeFiles`, `WipeAgain` | `performLocalWalletWipe` in its order; what is remembered of the words is forgotten before they are deleted (`WipeMemory`) and again when the mark has been written (`WipeUnseen`) |
| `Forget`, `Kill` | a disposed service clears the key; a death leaves Keychain and disk |

Abstractions: a key is what only it opens, so that the canary and the secret key are
the key they are sealed with, and the words the key they derive. Neighbouring
records of one step (the phrase and the key that wraps it, the three records of the
secret key) share a turn of the line; of the thirty-odd deletions of a wipe those of
the four records are there. A call that outlives the database it was made for
writes no row. The web, where each tab has a line of its own, damaged records and
restored copies of a database are left out.

`odd` records four circumstances under which the code gives less than the
properties say; each is described in section 4.

## 3 The runs

Every property of a passing run has been checked against a mutant of the code (`mutants`;
definitions marked "Broken on purpose" in the modules), and every action fires
in some passing run.

| Run | Question | Instance |
|---|---|---|
| `sync_server` | Does the vault stay consistent whatever devices send? | 2 devices, 2 entities in 2 profiles, at most 1 active device, pages and compaction of one row, quota of 2 rows, account created twice |
| `account_sync_safety` | Do kills, cancelled runs, lost answers, a busy database and an unimportable row cost a row, or leave a device with something old and nothing to do? | 2 devices on one entity, 3 edits, 2 revisions, 3 sequences, rows given up at the 2nd attempt |
| `account_sync_reset` | Are heads right after the vault lost the account and apps were restarted? | 2 devices, 2 entities, 2 edits, 2 epochs |
| `account_sync_convergence` | Do devices end up with the same rows? | 2 devices, each writing one entity, 2 edits, page and push of one row, requests that may fail to leave |
| `db_lease_faults` | Who has the file, does anybody wait for ever, is a transaction entered, a statement repeated, do jobs land whole, once and as reported, when tabs hand over, close in the middle of anything and die? | 2 tabs, one job each, one hand-over |
| `openflux` | Does the newest request have its way, whoever asks meanwhile, and does the controller implement `OpenFluxIntent`? | all 5 callers, 2 presses or commands, 4 changes of the network, 2 tries, one switch of the account |
| `delivery` | Is a frame lost behind the watermark, or handled twice? | a text, its edit and its deletion, 2 connections, one restart or death, 2 failures |
| `control_watermark` | Is a decision undone by an older one, or refused for nothing? | 3 decisions, 5 deliveries, 2 failures, one loss of memory, one own decision |
| `scheduled_messages` | Is a message repeated, lost, stuck, or sent by another profile? | 2 profiles, a message to a contact and one to a group, one switch, one death, 2 failures, given up at the 2nd attempt |
| `calls` | Does a call hang, is one unrecorded, does a microphone stay on? | 3 phones, 2 calls that may cross or meet a busy phone, one press of "accept" per call, one message lost or one death |
| `own_echo` | a violation, see section 4 | as small as shows the case |
| `data_key` | Is anything left under a key that is gone, is a start barred for ever, does a wipe leave a key? | one caller besides the opening and the onboarding, 2 accounts one after the other, 2 random keys, 2 refusals, one death, one disposed service |

The properties, in short.

* `SyncServer`: `LogFollowsHeads` (the log replays an entity in revision order
  and never outruns the head by which staleness is decided), `NoAcknowledgementAhead`,
  `ActiveDevicesLimited`, `CompactionWaitsForActive` and
  `RevocationAndHeadsAreFinal` (action properties).
* `AccountSync`: `NoRowSkipped` (the cursor never passes a row the device has
  not projected, except unimportable ones), `HeadsAreTrue` (a print is of what
  the server holds under that revision), `NoRollback` (heads only grow and a row
  is only overwritten by one at least as new), `SettledShowsNewest` (who has
  nothing left to fetch or to send shows the newest row: the safety half of
  convergence, for any writers and faults), `Convergence`.
* `DbLease`: `ServesJobs` (refinement of `JobDatabase`: jobs land whole, once, in
  order, and are reported exactly when they have), `GateHoldsWhenCalm` (nobody
  writes inside another tab's transaction), `OnceUnlessHurried`, `OnlyHastyCloseBlocksFile`, `NobodyWaitsForever`.
  `MCDbLease` records two circumstances: `hurried`, a statement was sent to a holder
  still opening, and `upset`, a connection moved, died or was closed under a job.
  `Calm` is neither; what goes wrong otherwise is in section 4.
* `OpenFlux`: `OffStays` (switched off, the tunnel is down once everybody is
  done), `FreshPath` (a tunnel that runs was raised on the present network),
  `NewestRuns`, `OffGetsThrough` (liveness), `KeepsIntent` (refinement). The
  agent's command stops before it saves and is exempt from `OffStays`; a change of
  the account takes the watcher down and exempts from `FreshPath`.
* `Delivery`: `NoFrameSkippedInSession`, `NoStall` (nothing held or in flight
  means the watermark has caught up), `OnceInProcess` (a deleted text does not
  come back and none counts twice as unread, until the process dies),
  `OneHandlerEach`.
* `ControlWatermark`: `NewestStands`, `NoRollback`, `RefusalHasReason`.
* `ScheduledMessages`: `RepeatNeedsFault`, `NothingVanishes`, `SentByOwner`,
  `DueLeaves`.
* `Calls`: `RecordedOnce`, `MicOff`, `StopsRinging`, `CallsEnd`.
* `DataKey`: `Recoverable` (rows and secret key open with the stored key or the
  words, and with the words alone once the migration is marked as done),
  `StartPossible` (a canary has a key that opens it), `WipedStaysWiped`; each but for
  the circumstances in `odd`.

The type invariants of `SyncServer` and `ControlWatermark` are proved (section 5) and
no longer run.

**Why the bounds are enough.** The vault's refusals all happen within the
bounds: a page and a compaction of one row make every multi-row case a
multi-step case, two rows reach the quota, one active device makes the second
one meet the limit, two epochs make a cursor of a dead database possible. In
`AccountSync` one entity and two revisions suffice for the same id from two
writers, an overwrite by an older row and a false print; a second entity is
there where a page has to leave something behind. Two attempts stand for
`POISON_MAX_ATTEMPTS`: what matters is that there are fewer and as many. Two
tabs are a holder and an asker, who change places; three, for a change of holders
between two that are not the asker, are checked by `DbLeaseQuiet.cfg` beside the
runs.

Two presses are a switch on and a switch off, or either against the agent; four
changes are two networks lost and found, so that one comes during the pass of the
guard for the other; two tries are a first and a last one. Three frames are a
text and both that refer to it, two connections fetch each of them twice, two
failures refuse a frame twice, a third connection adds nothing to a frame that was
refused twice. Three decisions are an old, a middle and a new one, five deliveries
repeat two of them. Two calls are what two attempts can confuse, the third phone
makes one of them busy; one press is bounded since the second press is the
violation of section 4. `MaxFaults` counts losses and deaths together. A random key
and a derived one for each account are what a row can be left under; a first refusal
starts a rollback and a second one interrupts it, or refuses a deletion twice.
`DataKeyRefusals.cfg` has two callers, three refusals and two deaths.

Bounds of counters that are unbounded in the code: `MaxRevision`, `MaxSequence`,
`MaxEpoch`, `MaxEdits`, `MaxJobs`, `MaxYields`, `MaxPresses`, `MaxChanges`,
`MaxSwitches`, `MaxConnections`, `MaxRestarts`, `MaxUpsets`, `MaxFailures`,
`MaxTime`, `MaxDeliveries`, `MaxLosses`, `MaxOwn`, `MaxKills`, `MaxCalls`,
`MaxAccepts`, `MaxFaults`, `MaxAccounts`, `MaxChance`, `MaxRefusals`, `MaxForgets`. In the
liveness runs they bound what users, networks
and faults do, never a step the liveness needs; in those of `AccountSync`
`MaxRevision` and `MaxSequence` are above what the edits can use. Symmetry is used
over devices, bodies and tabs, and only in runs without liveness.

`account_sync_reset` does not include kills: a kill inside a first pass is the
case of `AccountSyncFirstPass.cfg` (section 4), which would hide everything else.
Its pages have one row, for a page of two on which a good row is followed by one
that cannot be imported is the other way to the same end (`AccountSyncHalfPage.cfg`).
What `HeadsStand` assumes (section 5) is exactly that neither occurs.
For the same reason `db_lease_faults` and `data_key` record what has happened and
except it by name; `delivery` keeps frames apart in time and speaks of one session; and
`flicker` is in no passing run.

`CHECK_DEADLOCK FALSE`: edits, jobs, presses, deliveries, calls and accounts are
bounded and leases may all be closed, so every model may stop.

**Fairness.** `AccountSync!FairSpec`: what a run does next is driven by
its own promises (`WF Proceed`); runs start at every start of the app and at
every reconnect (`App.tsx:903-925`), so a request that is again and again about
to leave leaves some day (`SF` of `EnrollDevice`, the push, `SendPull`), and
the app is restarted again and again (`SF Restart`). Nothing is assumed of the
user, who may stop editing any time. `DbLease!FairSpec`: the browser passes
the lock on and an opening ends (`WF Handover`), timers fire
(`WF AbandonTransaction`, `Timeout` among a tab's statements), and a promise that
has settled is taken up before the roles change again and again (`SF` of a tab's
statements). Fairness of the application itself, starting jobs or closing
leases, is not assumed.

`OpenFlux!LiveSpec`: the core answers every call, well or badly (`WF Core`), and
saving a setting ends (`WF` of each caller's save). Nobody has to log in, and no
retry has to come. `ScheduledMessages!FairSpec`: every await of a pass and of a
switch ends, the effect of the identity goes on and the poller's timer fires; the
person does nothing in particular. `Calls!FairSpec`: what is awaited is granted,
refused or fails (`WF SetsUp`; a dialog of permissions that nobody ever answers
would hold a call for ever), the timers that end a call fire (`WF TimesOut`), each
pair's messages are delivered (`WF Deliver`) unless the fault loses one, and the
watchdog notices a connection whose other end has gone (`WF Watchdog`: ICE answers
"disconnected" or "failed"). Buttons, repeated offers and losses are not assumed.

## 4 Findings, and configurations kept beside the runs

`own_echo` (`EchoKeepsLocalEdit`) is the run that expects a violation. The pull of
a pass brings back what its push stored. The heads it is compared with were read
before the push, so the echo counts as news and overwrites an edit made meanwhile.

The following configurations also end in a counterexample and are kept to be
run by hand (`tlc -config X.cfg M.tla`). That a run of section 3 passes says nothing
against them: its instance excludes the case, or its property excepts it by name.
Where such a case is all there is to a hazard, the hazard has a note that names the
configuration, and no property.

* `AccountSyncLostAnswer` (`RetryIsIdempotent`). The vault's README says delivery
  is idempotent by `mutationId`. It is for identical bytes; a client that lost the
  answer seals the row anew under the same id and is refused with 409, at this
  run and every later one.
* `AccountSyncTwoWriters` (`Convergence`). Two devices that reached the same
  revision of an entity while apart send the same id with different bodies; the
  second is answered 409 before its pull, and never syncs this profile again.
* `AccountSyncFirstPass` (`HeadsAreTrue`). A reset is only recognised against a
  saved epoch; a device killed in its first pass has prints and no epoch.
* `DbLeaseRepeated` (`ExecutedOnce`). A statement sent while the new holder
  opens the database is kept and executed by it, and also sent again by its
  asker, which takes the announcement of the holder for the loss of the request
  (`dbLease.ts:313`, `327`).
* `DbLeaseAbandoned` (`AcknowledgedWritesStay`). Stepping down cuts a tab off
  in the middle of its transaction; the gate's timer lets the holder's own
  write into that transaction, and closing the connection rolls both back, against
  `sqlGate.ts:20-22`.
* `DataKeyFeed` (`FeedFollowsKey`). `feedAtRest.ts:18-22` says that rows of the feed
  sealed with the key cannot be there when the key changes, hence nothing moves
  them. The first session of a new account writes such rows under the random key as
  soon as there is a secret key, and the next opening moves the main database only.
  Nothing has to fail; the rows stay unreadable.
* `AccountSyncHalfPage` (`HeadsAreTrue`). `AccountSyncFirstPass` without a kill: the first pass
  saves the head of one row and ends at the next row of the page, which it cannot
  import (`accountSync.ts:240` throws until the row is given up at its last attempt).
* `AccountSyncTombstone` (`SettledShowsNewest`). A row is deleted on one device and
  the account is lost before the other device has pulled the deletion. The other one
  uploads its copy anew, under the revision of the deletion; the deleting device
  takes it for old, and has nothing to upload, since a reset keeps tombstones
  ("nothing to delete on the new server copy", `local.ts:2193-2195`). The row stays
  on one device and deleted on the other, until somebody edits it.
* `DeliverySameSecond` (`NoFrameSkipped`). Failures are remembered by the time of
  a frame, not by the frame. Two frames of one time that are refused once each look
  like one frame refused twice: the mark lets both go, where
  `internetCoordinator.ts:59-70` gives each a second try.
* `DeliveryDeleted` (`DeletedStaysDeleted`). `relayBacklog.ts:44-48` calls a
  repeated frame harmless. A text that its author deleted has no row, so that a
  restarted process that is sent it again stores it anew. In the trace the
  process dies between the deletion of the row and its mark, and the deletion will
  come again too; with an `Overlap` of 3 and no failures it is handled to its end,
  its own mark is found, and the text stays.
* `OpenFluxByHand` (`OffStays` with `AutoStart = FALSE`). The guard reads the
  setting, asks whether the core runs, and retries with the setting it read: a
  tunnel that is switched off in between, and still up when the core is asked, is
  raised again after its stop
  (`openFluxNetworkGuard.ts:114-116`). With `AutoStart`, the default, it does not
  ask.
* `CallsOvertaken` (`MicHeld`). An accept whose dialog was open while its call
  ended and another was taken gets its stream last and puts it in the place of the
  newer call's; the stream that was there is held by nobody and stays on
  (`acceptCall` assigns `localStream` before it checks). `MicOff`, which the run
  `calls` checks, is the same statement up to that moment.

Two configurations pass and are kept for their size: `DbLeaseQuiet` (three tabs
close their leases between jobs; every safety property without exception) and
`DataKeyRefusals` (1.8 million states, with the type invariant).

Seen while modelling, without a configuration of their own.

* `DbLease`: a lease closed while it is opening leaves its connection open and
  closed by nobody, and one closed while it steps down releases the lock before
  the file is closed (`OnlyHastyCloseBlocksFile` states exactly this exception; the
  comment at `dbLease.ts:435-436` gives the intended order); a tab that holds the
  connection and closes its lease while another tab is between BEGIN and COMMIT
  takes the transaction with it, the rest of the job is written by the next holder
  outside any transaction, each write on its own, and the COMMIT then fails: the
  job is reported as failed and half of it stays (`Lose`, `Stray` and `Fail` of
  `JobDatabase`; without `Stray` the run fails); the gate's timer counts from BEGIN, not from the owner's silence.
* `Delivery`: a restart of the transport while the old session still handles a
  frame: the new session's copy is answered as seen and the mark passes, though the
  old handling may yet be deferred. The same answer meets a copy that comes by the
  relay while the one from the LAN is in flight. An edit or a deletion that is
  handled while its text is still being opened finds no row and is consumed.
  Start and stop of the coordinator do not exclude each other.
* `ControlWatermark`: handlings that overlap may lower the mark on disk, which is
  why `NewestStands` and what `known` takes from `durable` speak of handlings
  that do not; the person's own decision moves no mark, and an older frame that
  comes late overrides it.
* `ScheduledMessages`: a message cancelled while the pass holds it in its list is
  still sent; a message to a group asks for the service anew and may go out through
  the service of the profile switched to, which does not know the group
  (`NobodyThere`: counted as sent); a switch begun before the services were bound
  leaves the effect binding the old pair (`hasty`); a switch that fails leaves no
  messaging service (`Stranded`); a message whose removal failed may be reported as
  not sent though it was.
* `OpenFlux`: the agent's `disable` stops the tunnel before it saves, so that a
  guard's pass in between raises it again (`agentBridgeCommands.ts:255-270`).
* `Calls`: nothing keeps the button from being pressed twice
  (`CallOverlay.tsx:394-403`), and the second stream leaks the first; the catch of
  `initiateCall` and the refusals of `acceptCall` end whatever call there is by
  then; of two calls that cross, the one kept may fail later, and the one given
  up was never shown nor logged at the other side, and giving up for a call that was
  already cancelled ends in silence; a hangup that arrives while `onOffer`
  awaits `rateLimiter.whenReady` is dropped; a new offer of a peer whose last
  farewell was lost is ignored, and remembered as seen; two phones may for a while be
  connected in different calls of each other.

* `DataKey`, what `odd` stands for. *Late*: a resolver that the wipe made
  outdated starts over with the new generation, reads the key before it is deleted,
  and leaves it in memory, where the next account finds it; the process goes on
  after a wipe. *Leftover*: when the deletion of the words is refused, the write of
  their mark opens the database again in the middle of the wipe
  (`seedPhrase.ts:366`), and the migration brings the old key back; when that of the
  canary is refused, the key is deleted all the same, and if the second try is
  refused too, every start is. *Halfway*: a process that dies between the deletion of
  the words and that of the key goes on writing under the stored key in a database
  marked as migrated to the words. *Unsealed*: when the canary cannot be written or
  read (`local.ts:1833`, `1850`, `1882`), the stored key is used and rows are
  written under it, although the rows are already under the derived key, if it was
  between canary and key that an earlier opening failed; what was written in between
  is lost when the derived key is adopted. A refused read of the key that wraps the
  phrase looks like "no phrase", and is remembered as that.

## 5 What is proved

`AccountSyncProofs`, in its first part about the vault alone, for any finite sets of devices and entities, any profiles,
bodies and limits (`ServerAssumption`: finiteness, `ProfileOf` a function, limits
positive):

* The inductive invariant is
  `IInv == TypeOK /\ LogFollowsHeads /\ NoAcknowledgementAhead` (`Invariance`).
  The parts need each other: `LogFollowsHeads` says sequences in the log are at
  most `lastSeq`, without which an appended row need not come after the rest;
  `NoAcknowledgementAhead` rests on the cursor handed back being that of a row of
  the page (`NextCursorBounded`), hence on sequences being bounded by `lastSeq`;
  and every use of a largest element needs types. From it: `TypeCorrect`,
  `LogOrdered`, `NoneAhead`. One lemma per handler, the longest for appending a push.
* `LimitHolds`: the limit is inductive given types; only letting a device in can
  raise the count, and that takes room (`SeenWithinLimit`).
* `CompactionSafe` and `Finality`: action properties, step by step from `TypeOK`.

`DbLeaseProofs`, for any set of tabs and any bounds (`LeaseAssumption`), proves every
safety property of the run `db_lease_faults`; `"slow" \notin Faults` is assumed
unless said otherwise. With that fault timers fire though the other side is still at
work, `AbandonTransaction` and `Timeout` come too early, and TLC shows each of the three
promises about statements violated.

* `CustodyHolds`, for all faults, by the inductive invariant `Custody`: tabs opening,
  holding or leaving have the lock, the holder has the file, and a file is with a
  holder or with a tab on its way out. `OnlyHastyCloseBlocksFile` alone is not
  inductive: it does not say that a tab opening the database has the lock, nor that
  the holder's file is its own. `FileIsFree` follows.
* `Invariance`: `IInv == TypeOK /\ Custody /\ CallsInJobs /\ NothingOpen`, with
  `Orderly` while nothing was sent to a holder that is opening, and `Undisturbed`
  while in addition no connection went away from under a job. TLC confirmed it on the
  instance of `db_lease_faults` before it was proved.
* `StatementsOnce`, by `Orderly`: statements wait only where the file is (`AtFile`),
  those that wait are what the job is past or what it has asked (`Waiting`), they
  wait in the order of the job and each once (`InTurn`), and a write that was
  executed is one the job will not ask again and that waits nowhere (`Executed`).
  `InTurn` is needed because a second attempt may be queued behind what is left of
  an earlier one. Without `early` `hurried` is never set: `OnceAtAll`.
* `GateHolds`, by `Undisturbed`: every statement that waits has its
  caller behind it (`Answerable`), so a transaction is never left half asked, and the
  transaction is that of the gate's holder and has all its job has written
  (`Transacting`). If leases are at most closed, after their jobs, no condition is
  left: `GateServes`.
* `JobsServed`: the lease implements `JobDatabase`. `ExecuteOutcome` says what a
  statement comes to, in seven cases by the statement and by whether there is a
  transaction; each is a step of `JobDatabase` or a stutter. That a job lands once and
  in order takes one more invariant, `Landed`: what is on the disk was executed,
  a job that is not over has nothing there unless it lost its transaction, and a
  transaction holds the two writes of one job at most. `ReportsAreTrue` draws the
  conclusion: what was reported is on the disk, both writes of a transaction or
  none, and no single write is there that was not reported.

`AccountSyncProofs`, in its second part, for any number of devices and entities, any contents
and bounds, and every fault unless said otherwise (`ClientAssumption`,
`BodyAssumption`):

* `SyncInvariance`: `Inv == ServerOK /\ LocalOK /\ RunOK /\ PassOK` is inductive:
  the vault's `IInv`, the types of what a device keeps and of what a pass holds,
  and the shape of a pass, namely one mutation per entity in a batch (else a push is
  not one the vault's specification knows), `next` within what the vault can
  number (else a pull is not), and a page that is not empty while a head is to be
  saved (else there is no row whose head it is). `ClientTypeCorrect` follows.
* `DevicesRespectVault`: `Spec => ServerSpec`. The refinement mapping is the
  identity: the vault's variables are shared, `StepServer` maps a device's request
  to the vault's action and every other step to a stutter. `VaultInComposition`
  carries the theorems about the vault over to the composition.
* `NothingRollsBack`. `SeenOK` is what it takes: the heads a pass read at its
  beginning are at most one revision behind the stored ones, since all that can
  move them meanwhile is the acceptance of the pass's own push. A row that is
  news to the pass (`r.rev > seen`) is then at least as new as the head. One
  revision is exactly the gap of the finding `own_echo`.
* `NothingIsSkipped`, for `"flicker" \notin Faults`. `NoRowSkipped` speaks of
  the cursor; what moves the cursor is the end of a page, so `SkipInv` follows it
  back. `CursorAt`: all rows below the cursor are covered, that is projected or
  unimportable. `PageAt`: while a page is being projected, all rows below its end
  are covered or still on it; it starts true because a page has every row between
  the cursor and its end (`PageComplete`) and what is below the cursor is covered,
  and it ends as `CursorAt` when the page is empty. `KnowAt`: the pass works on
  the epoch its device knows, or has none and a cursor of nothing, and no head it
  read is ahead of the stored one, which is why a row it skips as old is covered.
  `EpochOK`: a living account has an epoch of its own, so that a cursor of a lost
  account is never taken for one of the new. With `flicker` the theorem is false:
  `PoisonRow` then takes a healthy row off the page.

* `HeadsStand`: heads are true, if the account is not lost, or if nothing can end a
  first pass half-way (`FirstPassWhole`: no kill, cancellation, busy database or
  flicker, and no unimportable row or pages of one row). Without that the property is
  false (section 4). `HeadInv`, which TLC confirmed on the instances of both runs, on
  the first with more faults and on the second with pages of two rows, says of every
  print, accepted mutation and row of a page which row of the log it stands for
  (`PrintsStand`, `HeadAt`). That row stays: the log only grows while the
  account lives, since compaction asks for account-wide cursors and these devices
  never move theirs (`NothingCompacted`, `VaultGrows`). That leaves the loss of the
  account. A process hears of one account only, because it enrolls once (`HeardAt`);
  nothing else keeps the push and the pull of a first pass within one epoch. Prints
  are forgotten before a new epoch is remembered, so that prints are true of the
  epoch a device remembers (`Trusted`), and a device that remembers none has no
  prints, between passes, by `FirstPassWhole` (`Untold`).

* `SettledIsNewest`, if the account is not lost (`AccountSyncTombstone` shows why) and
  for `"flicker" \notin Faults`: what `Convergence` says of safety, with any number of
  writers of a row, where liveness is checked with one. A device whose cursor is
  at the end of the log has a head at the newest row, by `NothingIsSkipped`; if it
  has nothing to upload, its database has what that head was taken of, by `HeadsStand`,
  or nothing, if the head is a tombstone. `NewestInv` adds that tombstones stand in the
  log as prints do (`TombsStand`) and that the log has the row of every head of the
  vault (`HeadsStored`); ids being unique (`IdsUnique`), the rows are the same.
  `SettledAgree` is the consequence for two devices.

`ControlWatermarkProofs`, for any number of frames, deliveries, failures and losses
(`ControlAssumption`: they are numbers): `WatermarkInvariance`, by an invariant of
eight parts, since `NoRollback` and `NewestStands` are about the moment a decision
is applied and the reason lies in what its handling read earlier.

* `Guarded(g)` says that nothing as old as `g` can pass any more: the marks on disk
  and in memory, those a handling has taken along and the handlings that have
  passed are all beyond `g`. It is stable unless handlings overlap, as only then
  a slower one may lower the mark on disk.
* `SavedGuards`: every saved mark is guarded while handlings do not overlap. So a
  handling that begins later is judged by it after a restart too.
* `KnownReaches`: what a handling had to know of when it arrived is in the mark it
  took from memory (`MirrorReaches`) or guarded; once it is past its judgement, all
  of it is older. `NothingUndone` is its second half.
* `EndsReach` and `TimerFollows` say the same of all decisions carried out, as
  long as nothing went out of sight, and that the conversation follows the latest
  of them or the handling that has just applied its own. `NewestFollowed` follows.
* `MarksAreEnds`: every mark, wherever it is, is that of a decision carried out,
  from which `RefusalsHaveReason`; `TypeCorrect` is the first part.

`OpenFluxProofs`, for any set of callers and any bounds (`OpenFluxAssumption`),
proves every safety property of the run `openflux`. The steps
of the module compose operators of callers (`Retry`, `Leave`, `Continue`, ...), so
each proof first says what all a caller ever does between two awaits (`Moves`,
`Acts`), with one lemma per operator, and then that such a step keeps the invariant.

* `ControllerInvariance`: `IInv == TypeOK /\ Numbers /\ TriesLeft /\ Queued /\ Running
  /\ Fresh`. A request has one number and its caller one operation in the queue or
  running; a start that has come to `isSupported` has found nothing to clean up; and
  the core was raised for no request whose start is still to come (`Fresh`), unless
  the start that runs has just raised it.
* `IntentKept`: `Spec => KeepsIntent`. Every operation that ends releases the tunnel,
  and by `Fresh` it can end without undoing anything only if it raised nothing. The
  step from `starting` to `noting` is `Answer`, an advance past `clean` is `Lower`,
  callers and network ask or stutter (`OthersAsk`).
* `NewestHasItsWay`, by `Covered`: a core raised for an older request is about to be
  undone, or refused to go down, or the newest request, which lowers the tunnel
  first, waits in the queue or is being carried out.
* `OffIsOff`, given `AutoStart` (without it, see `OpenFluxByHand`), by `Off`: while the
  switch is off, nobody has a number for a start that is the newest. `Places`, who
  can be where, is needed since the guard acts on what it read before it asked.
* `PathIsFresh`, given the guard, by `Caught`: a core that is up, or coming up, for
  the newest request on a path that was left has an announcement or another turn of
  the guard's loop before it.

`ScheduledMessagesProofs`, for any profiles, owners, groups, attempts and bounds
(`ScheduleAssumption`), proves every safety property of the run `scheduled`, by the
invariant `IInv == TypeOK /\ Tidy /\ Counted /\ Steady /\ Grounded /\ Loyal
/\ NothingVanishes /\ SentByOwner` (`ScheduleInvariance`).

* `RepeatsHaveACause`, by `Counted`: every sending of a message beyond its first is
  paid for by a failure of the database or a death of its own, and a message the
  pass is at work on (`Handled`) has one more sending to its account only while
  its row is not yet gone.
* `RowsGoForAReason`, by `Grounded` and `Steady`: what a pass holds it read with the
  profile it works for, and before the first switch everything bound is of one
  profile; a row that goes was sent, reported, cancelled or given up.
* `OwnersSend`, by `Loyal`: services are disposed of before the number of the profile
  changes and are bound after it, so that a service that answers is the owner's.

`DeliveryProofs`, for any frames, connections, restarts, failures and deaths
(`DeliveryAssumption`), proves the safety properties of the run `delivery`.

* `DeliveryInvariance`: `IInv == TypeOK /\ Linked /\ Ordered /\ OneHandlerEach
  /\ NoStall /\ Once`. `Once` says that while the process lives no copy of a
  frame that left a trace, a row, a count or a mark of deletion, can take effect
  any more (`Landed`), nor of a text that is about to be deleted or edited.
  `OneHandler`, `MarkCatchesUp` and `EffectOnce` are read off it.
* `NoneSkipped`, by `SkipInv`, which speaks of the first session, as the property
  does: `Counted` (`inFlight` counts the copies in hand, what failed is refused, the
  mark on disk is not beyond the one in memory), `SeenThrough` (a frame remembered
  as seen is finished or in hand), `Ahead` (the mark lies before every frame that is
  not finished) and `InOrder` (no frame that was not yet handed over has a later one
  in hand). It is proved under `Apart`, that times tell frames apart, which the
  bounds of the run satisfy and which cannot be dropped: `DeliverySameSecond` has
  two frames of one second of which one is lost.

`CallsProofs`, for any number of phones, calls, presses, losses and deaths
(`CallsAssumption`), proves every safety property of the run `calls`, by the invariant
`IInv == Types /\ CallsDialled /\ PhonesKeep /\ MessagesBetween /\ HadByEnds
/\ RecordedOnce /\ MicOff`, and `Faithful` as long as nothing was lost and nobody died
(`Invariance`). TLC confirmed it on the instance of `calls` and searched a larger one
in part.

* Handlers are many and alike, so the proof first says what a step is. To the phones
  it is one of six kinds (`Minor`, `Starts`, `Rung`, `Tunes`, `Leaves`, `Dies`); to
  the messages it is a `Flow`: one phone acts and puts something behind its queue to
  its peer, takes a message off one, or loses one. Each part of the invariant is then
  kept by kinds and flows, not by the twenty actions.
* `TypeCorrect`: an await of `initiateCall` or `acceptCall` may come back into another
  call; `Keeps` says that whatever a phone has is of the call it is in, and
  `MessagesBetween` that messages are of a call of the two phones.
* `LoggedOnce`, by `HadByEnds`: an end that has not come past its checks has had no
  call, a callee that had one remembers its offer (so that a repeated offer starts no
  second record), and who is in a call has not yielded it.
* `MicrophoneOff`, by `Keeps`: the stream a phone holds is of its own end of the
  present call. The exception `overtaken` is the second press of section 4.
* `NoGhostRings`, by `Faithful`: an offer on its way has the caller behind it, or was
  refused already, or its farewell comes after it in the same queue (`Offers`, which
  rests on the order of messages between two phones); the same of a call that rings
  (`Rings`); and who declines or hangs up has left for good (`Refusals`), so that a
  caller never leaves a call which its callee could still start.

`DataKeyProofs`, for any callers, accounts, random keys, refusals, deaths and disposed
services (`DataKeyAssumption`: bounds are numbers, names differ), proves every property
of the run `data_key`, by the invariant `IInv == Typed /\ Shape /\ Lined /\ Sound`
(`Invariance`), which TLC confirmed on that run's instance before it was proved. The
exceptions of the theorems are those of the properties (`odd`, section 4).

* A key gets into a record by way of somebody who read another one earlier, so what is
  said of the records has to be said of everybody who resolves a key, of the opening
  and of the onboarding. `Sound` says it by phases: `Bare` (nothing is encrypted),
  `AtRandom` (a random key is stored, rows are under it or already under the words'
  key), `Kept` (the canary is sealed with the words' key), `Wiped` (a wipe is under
  way). Each phase has an invariant of a call (`BareProc`, `RandomProc`, `KeptProc`),
  and `Common` says who may be at work when. The proof is one lemma per phase and
  group of actions, with one step where a phase ends in the next.
* `KeysRecoverable`: in `AtRandom` a row is under the stored key or the words' key, in
  `Kept` under the words'. `Carried` is what makes it inductive: after a death or a
  refusal in the middle of the migration memory may hold the random key, but only
  while the migration will be tried again, with the words remembered.
* `StartsPossible`: no phase has a canary without its key. The random key is stored
  before the canary is sealed with it, and of what a call of an old generation takes
  back (`dropOwnWrite`) the phases name all it may have written.
* `WipeIsFinal`: `Living` says that keys that are gone are nowhere (`Lacks`), neither in
  the Keychain nor in memory nor with anybody who resolves, and were all made (`Made`),
  so that no new account makes one again. It rests on `InTime`: a resolution of
  an old generation is finished before the wipe is, since its remaining answers
  (`Turns`) are at most as many as the wipe waits for (`Rounds`), and fewer where
  the wipe is ahead in the line (`Before`). The order of the queue alone guarantees
  that, no step of the code waits for those calls.

Only model-checked: liveness (`Convergence`, `NobodyWaitsForever`, `OffGetsThrough`,
`DueLeaves`, `CallsEnd`), since liveness under fairness and ENABLED are beyond the
prover. Every other property of a passing run is the subject of a theorem.
Statements by induction over data do not occur: no module has a recursive definition.

## 6 What is not modelled

Within modelled parts: kinds of rows with a life of their own (story albums, held
feed rows, comment tombstones), oversize rows and older tombstone formats;
reports to the user about stuck rows; device keys, labels and the device list;
responses of a faulty or dishonest server; several wrappers of one lease; the
native platforms, where the lease is always the tab's own; the interception of
HTTP by the tunnel and a core that dies by itself; the other kinds of envelope
(groups, reactions, receipts), the sending of messages, the choice of a route and
its rate limits; control frames from the future and the other users of the marks;
attachments of scheduled messages; the registration of a phone at the signaling
server, receipts and the storage of the call log, video and mute, and the disposal
of a call with its profile; the Keychain of the web, damaged records, restored copies
of a database and files that cannot be deleted.

Whole parts, with the reason, are in `components` of `PROJECT.json`. In short:
planned are vault snapshots and nonces, usernames, media references, push tokens
and group messaging. Not planned: screens, formats and conversions (backups,
configuration and envelope encoding), thin wrappers over native modules, password
and biometric prompts, development bridges, and the mesh, which the app reaches
only from its own configuration. Most of the repository is of that kind, screens,
storage of feed, stories and groups, servers for names and media, so the modules
cover a small share of its lines.

## 7 The plan

1. Done: `SyncServer`, `AccountSync`, `DbLease` with `JobDatabase`, `OpenFlux` with `OpenFluxIntent`,
   `RelayIntake`, `DirectInbox` and their composition `Delivery`,
   `ControlWatermark`, `ScheduledMessages` with the switch of the profile, `Calls`,
   `DataKey`;
   proofs about the vault, the devices, the lease, the marks, the tunnel, scheduled
   messages, delivery, calls and the key of the data.
2. `NoneSkipped` of `Delivery` for later sessions, of frames whose handling ended in
   the session that fetched them.
3. Modules, in order of what they protect: `VaultRequests` (nonces, clocks,
   snapshots), composed with `SyncServer`; group membership and roles over
   `ControlWatermark`; `PushTokens`; `UsernameRegistry`; `MediaRefs`. A run of
   weaker use makes room for each.
