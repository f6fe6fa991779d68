-------------------------- MODULE ScheduledMessages --------------------------
(***************************************************************************)
(* Messages that are sent at a time the person chose:                      *)
(* social/scheduledMessages.ts over the table scheduled_messages, with     *)
(* what decides in whose name it sends: the switch of the profile in       *)
(* identity/profileManager.ts, and the effect of App.tsx that binds the    *)
(* services to a profile's key.                                            *)
(*                                                                         *)
(* A poller makes passes over the rows that are due.  A pass, a switch and *)
(* a binding are sequences of awaits that interleave, with the person who  *)
(* schedules, cancels and blocks meanwhile.  Not modelled: attachments,    *)
(* the wallet's logout, and the deletion of a profile.                     *)
(***************************************************************************)
EXTENDS Naturals, Sequences

CONSTANTS
    Profile,        \* profiles of the device
    NoOne,          \* no messaging service
    Messages,       \* number of messages, in the order of their times
    Owner,          \* the profile that schedules a message
    Group,          \* messages to groups; the others go to a contact
    Unreadable,     \* messages the key of the device does not open
    Abandon,        \* ABANDON_AFTER_ATTEMPTS
    MaxSwitches,    \* bound: switches of the profile
    MaxKills,       \* bound: deaths of the process
    MaxFailures     \* bound: refusals of the database, the limit of an hour

Message == 1..Messages

ASSUME ScheduleAssumption ==
    /\ NoOne \notin Profile /\ Profile # {}
    /\ Messages \in Nat /\ Owner \in [Message -> Profile]
    /\ Group \subseteq Message /\ Unreadable \subseteq Message
    /\ Abandon \in Nat \ {0}
    /\ MaxSwitches \in Nat /\ MaxKills \in Nat /\ MaxFailures \in Nat

VARIABLES
    row,            \* a row of scheduled_messages
    attempts,       \* its column
    now,            \* messages up to this one are due
    blocked,        \* messages to contacts that are blocked
    active,         \* activeProfileId
    stored,         \* the same, in the secure store
    service,        \* whose key the messaging service has
    binding,        \* how far the identity effect is with its pair
    pair,           \* whose key that is
    timer,          \* pollTimer
    switch,         \* a switch under way, and the profile it leaves
    pass,           \* the pass of flushDue; flushing while it is not idle
    switches, kills, failures   \* bounded by the constants

\* Only for the properties.
VARIABLES
    sent,           \* in whose name a message was sent to someone, each time
    excused,        \* how often its row had to stay though it was sent
    settled,        \* messages cancelled, dropped for a blocked contact, reported
    hasty           \* a switch was begun before the services were bound

rows == <<row, attempts, now, blocked>>
identity == <<active, stored, service, binding, pair, timer, switch>>
bounds == <<switches, kills, failures>>
history == <<sent, excused, settled, hasty>>
vars == <<rows, identity, pass, bounds, history>>

\* removing: deleteScheduledMessage, for this reason; copying: the own row of a
\* message to a group.
PassPc == {"idle", "listing", "turn", "marking", "sending", "copying", "removing"}
Reason == {"none", "sent", "blocked", "lost", "abandoned"}
\* service: of the pass; through: what the message in hand is sent with.
NoPass == [pc |-> "idle", pid |-> NoOne, service |-> NoOne, through |-> NoOne,
           todo |-> {}, this |-> 0, attempt |-> 0, why |-> "none"]
NoSwitch == [pc |-> "idle", from |-> NoOne, to |-> NoOne]

PassRecord ==
    [pc : PassPc, pid : Profile \cup {NoOne}, service : Profile \cup {NoOne},
     through : Profile \cup {NoOne}, todo : SUBSET Message, this : 0..Messages,
     attempt : Nat, why : Reason]
SwitchRecord ==
    [pc : {"idle", "disposing", "persisting"},
     from : Profile \cup {NoOne}, to : Profile \cup {NoOne}]

TypeOK ==
    /\ row \in [Message -> {"new", "stored", "gone"}]
    /\ attempts \in [Message -> Nat]
    /\ now \in 0..Messages /\ blocked \subseteq Message
    /\ active \in Profile /\ stored \in Profile /\ pair \in Profile
    /\ service \in Profile \cup {NoOne}
    /\ binding \in {"waiting", "bound", "running"} /\ timer \in BOOLEAN
    /\ switch \in SwitchRecord /\ pass \in PassRecord
    /\ pass.pc \in {"marking", "sending", "copying", "removing"} => pass.this \in pass.todo
    /\ switches \in 0..MaxSwitches /\ kills \in 0..MaxKills /\ failures \in 0..MaxFailures
    /\ sent \in [Message -> Seq(Profile)] /\ excused \in [Message -> Nat]
    /\ settled \subseteq Message /\ hasty \in BOOLEAN

Init ==
    /\ row \in [Message -> {"new", "stored"}]
    /\ attempts = [m \in Message |-> 0] /\ now = 0 /\ blocked = {}
    /\ active \in Profile /\ stored = active /\ pair = active
    /\ service = NoOne /\ binding = "waiting" /\ timer = FALSE /\ switch = NoSwitch
    /\ pass = NoPass
    /\ switches = 0 /\ kills = 0 /\ failures = 0
    /\ sent = [m \in Message |-> <<>>]
    /\ excused = [m \in Message |-> 0]
    /\ settled = {} /\ hasty = FALSE

Fail ==
    /\ failures < MaxFailures
    /\ failures' = failures + 1
    /\ UNCHANGED <<switches, kills>>

-----------------------------------------------------------------------------
(* The person, and time.                                                   *)

\* scheduleMessage, scheduleGroupMessage
Schedule(m) ==
    /\ row[m] = "new" /\ active = Owner[m]
    /\ row' = [row EXCEPT ![m] = "stored"]
    /\ UNCHANGED <<attempts, now, blocked, identity, pass, bounds, history>>

\* The list of the screen names its profile itself.
Cancel(m) ==
    /\ row[m] = "stored"
    /\ row' = [row EXCEPT ![m] = "gone"]
    /\ settled' = settled \cup {m}
    /\ UNCHANGED <<attempts, now, blocked, identity, pass, bounds, sent, excused, hasty>>

Block(m) ==
    /\ m \notin Group \cup blocked
    /\ blocked' = blocked \cup {m}
    /\ UNCHANGED <<row, attempts, now, identity, pass, bounds, history>>

TimePasses ==
    /\ now < Messages
    /\ now' = now + 1
    /\ UNCHANGED <<row, attempts, blocked, identity, pass, bounds, history>>

-----------------------------------------------------------------------------
(* Whose services run.                                                     *)

\* Broken on purpose: the number changes under running services.
SwitchKeepsService(p) ==
    /\ switch = NoSwitch /\ p # active /\ switches < MaxSwitches
    /\ switch' = [pc |-> "disposing", from |-> active, to |-> p]
    /\ switches' = switches + 1
    /\ hasty' = (hasty \/ binding = "waiting")
    /\ UNCHANGED <<rows, active, stored, service, binding, pair, timer, pass, kills,
                   failures, sent, excused, settled>>

\* switchProfile: the services are disposed of before the number changes.
SwitchBegins(p) ==
    /\ switch = NoSwitch /\ p # active /\ switches < MaxSwitches
    /\ switch' = [pc |-> "disposing", from |-> active, to |-> p]
    /\ service' = NoOne
    /\ switches' = switches + 1
    /\ hasty' = (hasty \/ binding = "waiting")
    /\ UNCHANGED <<rows, active, stored, binding, pair, timer, pass, kills, failures,
                   sent, excused, settled>>

SwitchMoves ==
    /\ switch.pc = "disposing"
    /\ active' = switch.to
    /\ switch' = [switch EXCEPT !.pc = "persisting"]
    /\ UNCHANGED <<rows, stored, service, binding, pair, timer, pass, bounds, history>>

\* The state or the key is not saved, and the number goes back.  When the state was saved
\* and the way back is not, the disk keeps the new number until the next start.
SwitchFails ==
    /\ switch.pc = "persisting"
    /\ Fail
    /\ active' = switch.from
    /\ stored' \in {stored, switch.to}
    /\ switch' = NoSwitch
    /\ UNCHANGED <<rows, service, binding, pair, timer, pass, history>>

\* All is saved: the identity effect is cleaned up, and begins with the new pair.
SwitchDone ==
    /\ switch.pc = "persisting"
    /\ stored' = active /\ pair' = active
    /\ binding' = "waiting" /\ timer' = FALSE
    /\ switch' = NoSwitch
    /\ UNCHANGED <<rows, active, service, pass, bounds, history>>

\* initMessagingService, after the awaits of the effect that bind the storage.
Bind ==
    /\ binding = "waiting"
    /\ service' = pair /\ binding' = "bound"
    /\ UNCHANGED <<rows, active, stored, pair, timer, switch, pass, bounds, history>>

\* startScheduler, after the transports.
StartScheduler ==
    /\ binding = "bound"
    /\ timer' = TRUE /\ binding' = "running"
    /\ UNCHANGED <<rows, active, stored, service, pair, switch, pass, bounds, history>>

\* A death in the middle of a pass may leave the row of a message that was sent.
Kill ==
    /\ kills < MaxKills
    /\ kills' = kills + 1
    /\ active' = stored /\ pair' = stored
    /\ service' = NoOne /\ binding' = "waiting" /\ timer' = FALSE
    /\ switch' = NoSwitch /\ pass' = NoPass
    /\ excused' = IF pass.pc = "copying" \/ pass.why = "sent"
                    THEN [excused EXCEPT ![pass.this] = @ + 1] ELSE excused
    /\ UNCHANGED <<rows, stored, switches, failures, sent, settled, hasty>>

-----------------------------------------------------------------------------
(* flushDue: one pass at a time.                                           *)

Due(p) == {m \in 1..now : row[m] = "stored" /\ Owner[m] = p}

Tick ==
    /\ timer /\ pass = NoPass /\ service # NoOne
    /\ pass' = [NoPass EXCEPT !.pc = "listing", !.pid = active, !.service = service]
    /\ UNCHANGED <<rows, identity, bounds, history>>

Listed ==
    /\ pass.pc = "listing"
    /\ pass' = IF Due(pass.pid) = {} THEN NoPass
               ELSE [pass EXCEPT !.pc = "turn", !.todo = Due(pass.pid)]
    /\ UNCHANGED <<rows, identity, bounds, history>>

ListFails ==
    /\ pass.pc = "listing"
    /\ Fail
    /\ pass' = NoPass
    /\ UNCHANGED <<rows, identity, history>>

\* The loop goes on with the next message.
Skip(m) == [pass EXCEPT !.pc = "turn", !.todo = @ \ {m}, !.this = 0, !.attempt = 0,
                        !.through = NoOne, !.why = "none"]

Remove(m, why) == [pass EXCEPT !.pc = "removing", !.this = m, !.why = why]

\* The messages whose turn it is: the one whose time is earliest.
First == {m \in pass.todo : \A n \in pass.todo : m <= n}

PassOver ==
    /\ pass.pc = "turn"
    /\ pass.todo = {} \/ active # pass.pid
    /\ pass' = NoPass
    /\ UNCHANGED <<rows, identity, bounds, history>>

\* A message that cannot be opened is held, one to a blocked contact is dropped.
Turn ==
    /\ pass.pc = "turn" /\ active = pass.pid
    /\ \E m \in First :
          LET attempt == attempts[m] + 1 IN
          pass' = CASE m \in Unreadable -> Skip(m)
                    [] m \in blocked \ Unreadable ->
                         [Remove(m, "blocked") EXCEPT !.attempt = attempt]
                    [] OTHER -> [pass EXCEPT !.pc = "marking", !.this = m,
                                             !.attempt = attempt]
    /\ UNCHANGED <<rows, identity, bounds, history>>

\* The limit of an hour is reached.
Postponed ==
    /\ pass.pc = "turn" /\ active = pass.pid
    /\ \E m \in First \ (Group \cup Unreadable \cup blocked) : pass' = Skip(m)
    /\ Fail
    /\ UNCHANGED <<rows, identity, history>>

\* Broken on purpose: attempts are not counted in the row.
MarkedNowhere ==
    /\ pass.pc = "marking"
    /\ pass' = [pass EXCEPT !.pc = "sending",
                            !.through = IF pass.this \in Group THEN service ELSE pass.service]
    /\ UNCHANGED <<rows, identity, bounds, history>>

\* bumpScheduledAttemptChecked.  fanoutGroupMessage asks for the service anew.
Marked ==
    /\ pass.pc = "marking"
    /\ attempts' = [attempts EXCEPT ![pass.this] = pass.attempt]
    /\ pass' = [pass EXCEPT !.pc = "sending",
                            !.through = IF pass.this \in Group THEN service ELSE pass.service]
    /\ UNCHANGED <<row, now, blocked, identity, bounds, history>>

NotMarked ==
    /\ pass.pc = "marking"
    /\ Fail
    /\ pass' = Skip(pass.this)
    /\ UNCHANGED <<rows, identity, history>>

Exhausted == pass.attempt >= Abandon
Again(m) == IF Exhausted THEN Remove(m, "lost") ELSE Skip(m)

\* It was taken: by the contact, or by some members of the group.
Sent ==
    /\ pass.pc = "sending" /\ pass.through # NoOne
    /\ sent' = [sent EXCEPT ![pass.this] = Append(@, pass.through)]
    /\ pass' = IF pass.this \in Group THEN [pass EXCEPT !.pc = "copying"]
               ELSE Remove(pass.this, "sent")
    /\ UNCHANGED <<rows, identity, bounds, excused, settled, hasty>>

\* The service of another profile may not know the group: it has no members.
NobodyThere ==
    /\ pass.pc = "sending" /\ pass.this \in Group
    /\ pass.through \notin {NoOne, pass.pid}
    /\ pass' = [pass EXCEPT !.pc = "copying"]
    /\ UNCHANGED <<rows, identity, bounds, history>>

\* sendMessage answers null, or writing in the group is not allowed any more.
Refused ==
    /\ pass.pc = "sending" /\ pass.through # NoOne
    /\ pass' = Remove(pass.this, "lost")
    /\ UNCHANGED <<rows, identity, bounds, history>>

\* Broken on purpose: what was not taken is removed like what was.
UnsentTaken ==
    /\ pass.pc = "sending"
    /\ pass' = Remove(pass.this, "sent")
    /\ UNCHANGED <<rows, identity, bounds, history>>

\* No network, no member reached, or no service: kept for the next pass, as long
\* as there are attempts left.
Unsent ==
    /\ pass.pc = "sending"
    /\ pass' = Again(pass.this)
    /\ UNCHANGED <<rows, identity, bounds, history>>

\* insertGroupMessageWithTouch
Copied ==
    /\ pass.pc = "copying"
    /\ pass' = Remove(pass.this, "sent")
    /\ UNCHANGED <<rows, identity, bounds, history>>

NotCopied ==
    /\ pass.pc = "copying"
    /\ Fail
    /\ pass' = Again(pass.this)
    /\ excused' = [excused EXCEPT ![pass.this] = @ + 1]
    /\ UNCHANGED <<rows, identity, sent, settled, hasty>>

\* Broken on purpose: the row is looked for under the profile that is active.
RemovedForActive ==
    /\ pass.pc = "removing"
    /\ row' = IF active = Owner[pass.this] THEN [row EXCEPT ![pass.this] = "gone"] ELSE row
    /\ settled' = IF pass.why = "sent" THEN settled ELSE settled \cup {pass.this}
    /\ pass' = Skip(pass.this)
    /\ UNCHANGED <<attempts, now, blocked, identity, bounds, sent, excused, hasty>>

\* deleteScheduledMessage, and the report of what was lost.
Removed ==
    /\ pass.pc = "removing"
    /\ row' = [row EXCEPT ![pass.this] = "gone"]
    /\ settled' = IF pass.why = "sent" THEN settled ELSE settled \cup {pass.this}
    /\ pass' = Skip(pass.this)
    /\ UNCHANGED <<attempts, now, blocked, identity, bounds, sent, excused, hasty>>

\* It throws, and the trap of the loop may try again.
NotRemoved ==
    /\ pass.pc = "removing"
    /\ Fail
    /\ pass' = IF Exhausted /\ pass.why # "abandoned" THEN Remove(pass.this, "abandoned")
               ELSE Skip(pass.this)
    /\ excused' = IF pass.why = "sent"
                    THEN [excused EXCEPT ![pass.this] = @ + 1] ELSE excused
    /\ UNCHANGED <<rows, identity, sent, settled, hasty>>

-----------------------------------------------------------------------------
Pass ==
    \/ Listed \/ ListFails \/ PassOver \/ Turn \/ Postponed \/ Marked \/ NotMarked
    \/ Sent \/ NobodyThere \/ Refused \/ Unsent \/ Copied \/ NotCopied
    \/ Removed \/ NotRemoved

Switch == SwitchMoves \/ SwitchFails \/ SwitchDone

Next ==
    \/ \E m \in Message : Schedule(m) \/ Cancel(m) \/ Block(m)
    \/ TimePasses
    \/ \E p \in Profile : SwitchBegins(p)
    \/ Switch \/ Bind \/ StartScheduler \/ Kill \/ Tick \/ Pass

Spec == Init /\ [][Next]_vars

\* Every await ends, the binding of the services goes on, and the timer ticks.
FairSpec == Spec /\ WF_vars(Pass) /\ WF_vars(Switch) /\ WF_vars(Bind)
                 /\ WF_vars(StartScheduler) /\ WF_vars(Tick)

-----------------------------------------------------------------------------
\* A message is sent again only when the row had to stay behind: its removal or
\* the own copy failed, or the process died.  Passes, ticks, restarts of the
\* scheduler, switches of the profile and cancellations repeat nothing.
\* scheduledMessages.ts:501-507.
RepeatNeedsFault == \A m \in Message : Len(sent[m]) <= excused[m] + 1

\* A row does not go before its message was sent, cancelled, dropped or reported.
\* A message to a group whose pass was overtaken by a switch is left out.
NothingVanishes ==
    \A m \in Message :
        row[m] = "gone" => \/ sent[m] # <<>> \/ m \in settled
                           \/ m \in Group /\ switches > 0

\* A message to a contact goes out under the key of the profile that wrote it,
\* unless a switch was begun while the services of the last one were being bound.
\* scheduledMessages.ts:218-222.
SentByOwner ==
    ~hasty => \A m \in Message \ Group : \A i \in DOMAIN sent[m] : sent[m][i] = Owner[m]

\* A message that is due does not wait for ever: it is sent, or reported after so
\* many attempts, unless the person leaves the profile or a switch failed, which
\* leaves the device without a messaging service.
Stranded == binding = "running" /\ service = NoOne /\ switch = NoSwitch
DueLeaves ==
    \A m \in Message \ Unreadable :
        m <= now /\ row[m] = "stored"
            ~> row[m] = "gone" \/ active # Owner[m] \/ Stranded
=============================================================================
