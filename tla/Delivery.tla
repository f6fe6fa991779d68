------------------------------ MODULE Delivery ------------------------------
(***************************************************************************)
(* The way of direct messages from the relay into the conversations:       *)
(* RelayIntake hands frames to DirectInbox and moves its watermark by what *)
(* the inbox answers.                                                      *)
(***************************************************************************)
EXTENDS RelayIntake

CONSTANTS
    Kind, Refers,   \* what the frames carry, see DirectInbox
    MaxUpsets,      \* bound: restarts of the transport and deaths of the process
    MaxFailures     \* bound: failures of the database

VARIABLES
    seen, row, marks, handling, unread, erased, settled,
    refused,        \* the frames a session has refused
    letGo,          \* frames that a session has refused twice
    kills,          \* deaths of the process, bounded by MaxUpsets
    failures        \* bounded by MaxFailures

Inbox == INSTANCE DirectInbox WITH Message <- Frame, Copy <- Connection

ASSUME DeliveryAssumption ==
    /\ Inbox!InboxAssumption
    /\ MaxUpsets \in Nat /\ MaxFailures \in Nat

inbox == <<seen, row, marks, handling, unread, erased, settled>>
vars == <<relayVars, inbox, refused, letGo, kills, failures>>

TypeOK ==
    /\ RelayTypeOK /\ Inbox!InboxTypeOK
    /\ refused \in [Session -> SUBSET Frame] /\ letGo \subseteq Frame
    /\ kills \in 0..MaxUpsets /\ failures \in 0..MaxFailures

Init ==
    /\ RelayInit /\ Inbox!InboxInit
    /\ refused = [s \in Session |-> {}] /\ letGo = {}
    /\ kills = 0 /\ failures = 0

MoreUpsets == kills + session <= MaxUpsets

Relay ==
    /\ Connect \/ Disconnect \/ (MoreUpsets /\ Stop) \/ Start
    /\ UNCHANGED <<inbox, refused, letGo, kills, failures>>

\* A frame is handed over by the newest connection, to the inbox.
Deliver(f) ==
    /\ HandOver(f)
    /\ Inbox!Receive(f, connection)
    /\ UNCHANGED <<refused, letGo, kills, failures>>

Handle(f, c) ==
    /\ Inbox!Proceed(f, c)
    /\ UNCHANGED <<relayVars, refused, letGo, kills, failures>>

Accept(f, c) ==
    /\ Inbox!Done(f, c)
    /\ Handled(f, c, TRUE)
    /\ UNCHANGED <<refused, letGo, kills, failures>>

\* Failures of the database that the inbox passes over.
Overlook(f, c) ==
    /\ failures < MaxFailures
    /\ failures' = failures + 1
    /\ \/ Inbox!LookFails(f, c) /\ UNCHANGED relayVars
       \/ Inbox!MarkFails(f, c) /\ Handled(f, c, TRUE)
    /\ UNCHANGED <<refused, letGo, kills>>

\* A frame that a session refuses a second time is let go.
Refuse(f, c) ==
    /\ failures < MaxFailures
    /\ failures' = failures + 1
    /\ Inbox!Deferred(f, c)
    /\ Handled(f, c, FALSE)
    /\ refused' = [refused EXCEPT ![sessionOf[c]] = @ \cup {f}]
    /\ letGo' = IF f \in refused[sessionOf[c]] THEN letGo \cup {f} ELSE letGo
    /\ UNCHANGED kills

Kill ==
    /\ MoreUpsets
    /\ kills' = kills + 1
    /\ RelayReborn /\ Inbox!InboxReborn
    /\ refused' = [s \in Session |-> {}]
    /\ UNCHANGED <<letGo, failures>>

Next ==
    \/ Relay \/ Kill
    \/ \E f \in Frame : Deliver(f)
    \/ \E f \in Frame, c \in Connection :
        Handle(f, c) \/ Accept(f, c) \/ Refuse(f, c) \/ Overlook(f, c)

Spec == Init /\ [][Next]_vars

-----------------------------------------------------------------------------
\* Frames that no later connection will ask for: they lie before the overlap
\* of the watermark that is saved, or of the one the session reads on with.
Passed(f) ==
    \/ TimeOf[f] < Since(disk)
    \/ started /\ TimeOf[f] < Since(closure[session].mark)

\* The watermark passes a frame only when the frame itself was handled to the end
\* or refused twice: internetCoordinator.ts:64-78.
NoFrameSkipped == \A f \in Frame : Passed(f) => f \in settled \cup letGo

\* The same through losses of the connection and deaths of the process, as long
\* as the transport is not restarted: what the old session still handles answers
\* the new one's copy of the frame with "seen", and may be deferred itself.
NoFrameSkippedInSession == session = 1 => NoFrameSkipped

\* A text its author has deleted does not come back: relayBacklog.ts:44-48 calls
\* a repeated frame harmless.
DeletedStaysDeleted == \A m \in erased : row[m] = "none"

\* Neither it does, nor is a text counted twice as unread, while the process
\* lives: its memory of what it has seen stands for the row.
OnceInProcess ==
    kills = 0 => /\ DeletedStaysDeleted
                 /\ \A m \in Frame : unread[m] <= 1

OneHandlerEach == Inbox!OneHandlerEach
=============================================================================
