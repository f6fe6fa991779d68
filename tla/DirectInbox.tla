---------------------------- MODULE DirectInbox ----------------------------
(***************************************************************************)
(* What the messaging service does with a frame from a contact:            *)
(* receiveDirectLanEnvelope and persistIncomingFromEnvelope of             *)
(* social/messaging.ts over the chat_messages of storage/local.ts.         *)
(*                                                                         *)
(* A frame carries a text, or the order of its author to delete or to edit *)
(* an earlier text.  Copies of a frame, and frames that refer to one       *)
(* another, are handled concurrently; between two steps of a handling lies *)
(* an await of the database, which may fail.  Checks of form, of the       *)
(* sender and of his being blocked are passed; the other kinds of envelope *)
(* (groups, reactions, receipts...) are not modelled.                      *)
(***************************************************************************)
EXTENDS Naturals

CONSTANTS
    Message,        \* the frames
    Copy,           \* distinguishes the deliveries of one frame
    Kind,           \* what a frame carries: KindOf values
    Refers          \* the frame a deletion or an edit refers to

KindOf == {"text", "delete", "edit"}

\* What the module that uses this one assumes of the constants.
InboxAssumption ==
    /\ Kind \in [Message -> KindOf]
    /\ Refers \in [Message -> Message]
    /\ \A m \in Message : Kind[m] # "text" => Kind[Refers[m]] = "text"

VARIABLES
    seen,           \* seenMessageIds of the running service
    row,            \* the row of a text: none, as it was sent, or edited
    marks,          \* deletions that left the row "message deleted"
    handling,       \* how far the handling of a copy is
    unread,         \* how often a text raised the counter of unread messages
    erased,         \* texts that a deletion has removed
    settled         \* frames whose handling came to its end

inboxVars == <<seen, row, marks, handling, unread, erased, settled>>

\* opening: contact, key, decryption; applying: the write, or the reading of the
\* author; deleting, editing, marking: the writes that follow.
Pc == {"idle", "opening", "applying", "deleting", "editing", "marking"}

Text == {m \in Message : Kind[m] = "text"}

InboxTypeOK ==
    /\ seen \subseteq Message /\ marks \subseteq Message /\ settled \subseteq Message
    /\ row \in [Message -> {"none", "sent", "edited"}]
    /\ handling \in [Message \X Copy -> Pc]
    /\ unread \in [Message -> Nat]
    /\ erased \subseteq Text

InboxInit ==
    /\ seen = {} /\ marks = {} /\ erased = {} /\ settled = {}
    /\ row = [m \in Message |-> "none"]
    /\ handling = [mc \in Message \X Copy |-> "idle"]
    /\ unread = [m \in Message |-> 0]

\* chatMessageExists; an edit leaves no row of its own.
Exists(m) == row[m] # "none" \/ m \in marks

At(m, c, pc) == handling[<<m, c>>] = pc
Goto(m, c, pc) == handling' = [handling EXCEPT ![<<m, c>>] = pc]

-----------------------------------------------------------------------------
\* The envelope is handed to the service.
Receive(m, c) ==
    /\ At(m, c, "idle")
    /\ Goto(m, c, "opening")
    /\ UNCHANGED <<seen, row, marks, unread, erased, settled>>

\* Broken on purpose: a copy that fails unmarks the frame for all of them.
OpenFailsForgets(m, c) ==
    /\ At(m, c, "opening")
    /\ Goto(m, c, "idle")
    /\ seen' = seen \ {m}
    /\ UNCHANGED <<row, marks, unread, erased, settled>>

\* The contact, his key or the list of the blocked cannot be read.
OpenFails(m, c) ==
    /\ At(m, c, "opening")
    /\ Goto(m, c, "idle")
    /\ UNCHANGED <<seen, row, marks, unread, erased, settled>>

\* It is open: a copy of a frame that was handled, or is being handled, ends here.
Repeated(m, c) ==
    /\ At(m, c, "opening") /\ m \in seen
    /\ Goto(m, c, "idle")
    /\ UNCHANGED <<seen, row, marks, unread, erased, settled>>

\* Broken on purpose: only the rows are looked at.
LookUnmarked(m, c, found) ==
    /\ At(m, c, "opening") /\ m \notin seen
    /\ Goto(m, c, IF found THEN "idle" ELSE "applying")
    /\ settled' = IF found THEN settled \cup {m} ELSE settled
    /\ UNCHANGED <<seen, row, marks, unread, erased>>

\* Any other is marked as seen, and looked for among the rows: no other handling
\* can store it meanwhile.  A look that fails counts as no.
Look(m, c, found) ==
    /\ At(m, c, "opening") /\ m \notin seen
    /\ seen' = seen \cup {m}
    /\ Goto(m, c, IF found THEN "idle" ELSE "applying")
    /\ settled' = IF found THEN settled \cup {m} ELSE settled
    /\ UNCHANGED <<row, marks, unread, erased>>

Stored(m, c) == Exists(m) /\ Look(m, c, TRUE)
NotStored(m, c) == ~Exists(m) /\ Look(m, c, FALSE)
LookFails(m, c) == Exists(m) /\ Look(m, c, FALSE)

\* A read or a write failed: the frame is deferred, and not seen any more.
DbFails(m, c) ==
    /\ handling[<<m, c>>] \in {"applying", "deleting", "editing"}
    /\ seen' = seen \ {m}
    /\ Goto(m, c, "idle")
    /\ UNCHANGED <<row, marks, unread, erased, settled>>

\* saveChatMessageWithTouch: the row and the counter in one transaction, and
\* neither when the row is there.
SaveText(m, c) ==
    /\ At(m, c, "applying") /\ Kind[m] = "text"
    /\ IF row[m] = "none"
         THEN /\ row' = [row EXCEPT ![m] = "sent"]
              /\ unread' = [unread EXCEPT ![m] = @ + 1]
         ELSE UNCHANGED <<row, unread>>
    /\ Goto(m, c, "idle")
    /\ settled' = settled \cup {m}
    /\ UNCHANGED <<seen, marks, erased>>

\* getChatMessageAuthorRead finds no row to delete or to edit: nothing to do.
NoTarget(m, c) ==
    /\ At(m, c, "applying") /\ Kind[m] # "text" /\ row[Refers[m]] = "none"
    /\ Goto(m, c, "idle")
    /\ settled' = settled \cup {m}
    /\ UNCHANGED <<seen, row, marks, unread, erased>>

TargetFound(m, c) ==
    /\ At(m, c, "applying") /\ Kind[m] # "text" /\ row[Refers[m]] # "none"
    /\ Goto(m, c, IF Kind[m] = "delete" THEN "deleting" ELSE "editing")
    /\ UNCHANGED <<seen, row, marks, unread, erased, settled>>

\* deleteChatMessageChecked; a row that has gone meanwhile is no obstacle.
DeleteRow(m, c) ==
    /\ At(m, c, "deleting")
    /\ row' = [row EXCEPT ![Refers[m]] = "none"]
    /\ erased' = erased \cup {Refers[m]}
    /\ Goto(m, c, "marking")
    /\ UNCHANGED <<seen, marks, unread, settled>>

\* markMessageDeleted
MarkDeleted(m, c) ==
    /\ At(m, c, "marking")
    /\ marks' = marks \cup {m}
    /\ Goto(m, c, "idle")
    /\ settled' = settled \cup {m}
    /\ UNCHANGED <<seen, row, unread, erased>>

\* It gives up after its retries, and the frame is consumed all the same.
MarkFails(m, c) ==
    /\ At(m, c, "marking")
    /\ Goto(m, c, "idle")
    /\ settled' = settled \cup {m}
    /\ UNCHANGED <<seen, row, marks, unread, erased>>

\* updateChatMessageTextChecked
EditRow(m, c) ==
    /\ At(m, c, "editing")
    /\ row' = [row EXCEPT ![Refers[m]] = IF @ = "none" THEN "none" ELSE "edited"]
    /\ Goto(m, c, "idle")
    /\ settled' = settled \cup {m}
    /\ UNCHANGED <<seen, marks, unread, erased>>

\* Steps that end a handling with "deferred" (or an exception), with "consumed",
\* and those that do not end it.
Deferred(m, c) == OpenFails(m, c) \/ DbFails(m, c)
Done(m, c) ==
    \/ Repeated(m, c) \/ Stored(m, c) \/ SaveText(m, c) \/ NoTarget(m, c)
    \/ MarkDeleted(m, c) \/ EditRow(m, c)
Proceed(m, c) ==
    \/ NotStored(m, c) \/ TargetFound(m, c) \/ DeleteRow(m, c)

\* The process is killed: the memory of the service is lost, the rows are not.
InboxReborn ==
    /\ seen' = {}
    /\ handling' = [mc \in Message \X Copy |-> "idle"]
    /\ UNCHANGED <<row, marks, unread, erased, settled>>

-----------------------------------------------------------------------------
\* A frame is in seenMessageIds while it is handled past its opening, and each
\* frame is handled past its opening by one copy.
OneHandlerEach ==
    \A m \in Message :
        LET busy == {c \in Copy : handling[<<m, c>>] \notin {"idle", "opening"}}
        IN /\ busy # {} => m \in seen
           /\ \A c, d \in busy : c = d
=============================================================================
