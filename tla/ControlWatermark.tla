-------------------------- MODULE ControlWatermark --------------------------
(***************************************************************************)
(* The mark that keeps an old decision of a contact from undoing a newer   *)
(* one: social/controlWatermark.ts, as handleIncomingDisappear of          *)
(* social/disappearSync.ts uses it for the timer of a conversation.        *)
(*                                                                         *)
(* A frame is named by the time its author gave it.  The relay delivers    *)
(* frames in any order and again; different frames are handled             *)
(* concurrently, one frame by one handler at a time.  Judged, applied,     *)
(* explained by a row, remembered and saved are steps with awaits between  *)
(* them, and each access to the database may fail.  Malformed frames and   *)
(* frames from the future are not modelled.                                *)
(***************************************************************************)
EXTENDS Naturals

CONSTANTS
    MaxTime,        \* bound: the frames of the contact
    MaxDeliveries,  \* bound: how often frames are delivered
    MaxFailures,    \* bound: failures of the database
    MaxLosses,      \* bound: the mirror forgets the slot, or the process dies
    MaxOwn          \* bound: decisions of the person at this device

Frame == 1..MaxTime
Pc == {"idle", "reading", "applying", "noting", "writing"}

ASSUME ControlAssumption ==
    /\ MaxTime \in Nat /\ MaxDeliveries \in Nat /\ MaxFailures \in Nat
    /\ MaxLosses \in Nat /\ MaxOwn \in Nat

VARIABLES
    disk,           \* the mark that is saved, 0 if there is none
    mirror,         \* the mark in memory
    timer,          \* the frame whose decision the conversation follows, or 0
    rows,           \* frames with a row of explanation in the conversation
    pc,             \* how far the handling of a frame is
    remembered,     \* what a handling took from the mirror before it read
    deliveries, failures, losses, own       \* bounded by the constants

\* Only for the properties.
VARIABLES
    ended,          \* frames whose decision was applied and explained
    recent,         \* those of them since the memory was last lost
    durable,        \* those of them whose mark was saved
    owed,           \* frames deferred or cut short after the last such end
    known,          \* for a handling: the ends whose marks must reach it
    overlapped,     \* two handlings have overlapped
    blind,          \* a frame was let through without any mark to judge by
    lossy           \* memory was lost of a mark that was not saved

code == <<disk, mirror, timer, rows, pc, remembered>>
bounds == <<deliveries, failures, losses, own>>
history == <<ended, recent, durable, owed, known, overlapped, blind, lossy>>
vars == <<code, bounds, history>>

Larger(a, b) == IF a > b THEN a ELSE b
Busy == {f \in Frame : pc[f] # "idle"}

TypeOK ==
    /\ disk \in 0..MaxTime /\ mirror \in 0..MaxTime /\ timer \in 0..MaxTime
    /\ rows \subseteq Frame
    /\ pc \in [Frame -> Pc] /\ remembered \in [Frame -> 0..MaxTime]
    /\ deliveries \in 0..MaxDeliveries /\ failures \in 0..MaxFailures
    /\ losses \in 0..MaxLosses /\ own \in 0..MaxOwn
    /\ ended \subseteq Frame /\ recent \subseteq ended /\ durable \subseteq ended
    /\ owed \subseteq Frame /\ known \in [Frame -> SUBSET ended]
    /\ overlapped \in BOOLEAN /\ blind \in BOOLEAN /\ lossy \in BOOLEAN

Init ==
    /\ disk = 0 /\ mirror = 0 /\ timer = 0 /\ rows = {}
    /\ pc = [f \in Frame |-> "idle"] /\ remembered = [f \in Frame |-> 0]
    /\ deliveries = 0 /\ failures = 0 /\ losses = 0 /\ own = 0
    /\ ended = {} /\ recent = {} /\ durable = {} /\ owed = {}
    /\ known = [f \in Frame |-> {}]
    /\ overlapped = FALSE /\ blind = FALSE /\ lossy = FALSE

Goto(f, at) == pc' = [pc EXCEPT ![f] = at]
Fail ==
    /\ failures < MaxFailures
    /\ failures' = failures + 1
    /\ UNCHANGED <<deliveries, losses, own>>

-----------------------------------------------------------------------------
\* A frame is handed to its handler; the mirror is read before the database.
Arrive(f) ==
    /\ pc[f] = "idle" /\ deliveries < MaxDeliveries
    /\ deliveries' = deliveries + 1
    /\ Goto(f, "reading")
    /\ remembered' = [remembered EXCEPT ![f] = mirror]
    /\ overlapped' = (overlapped \/ Busy # {})
    /\ known' = [known EXCEPT ![f] = recent \cup (IF overlapped' THEN {} ELSE durable)]
    /\ UNCHANGED <<disk, mirror, timer, rows, failures, losses, own,
                   ended, recent, durable, owed, blind, lossy>>

\* freshTs: newer than both marks, or handled to its end as out of date.
Judged(f, mark) == Goto(f, IF f > mark THEN "applying" ELSE "idle")

\* Broken on purpose: the mark of an earlier run is not looked at.
MarkInMemory(f) ==
    /\ pc[f] = "reading"
    /\ Judged(f, remembered[f])
    /\ UNCHANGED <<disk, mirror, timer, rows, remembered, bounds, history>>

MarkRead(f) ==
    /\ pc[f] = "reading"
    /\ Judged(f, Larger(remembered[f], disk))
    /\ UNCHANGED <<disk, mirror, timer, rows, remembered, bounds, history>>

\* The mark cannot be read, after all retries: the mirror decides, and where
\* there is none the frame passes.
MarkUnreadable(f) ==
    /\ pc[f] = "reading"
    /\ Fail
    /\ Judged(f, remembered[f])
    /\ blind' = (blind \/ remembered[f] = 0)
    /\ UNCHANGED <<disk, mirror, timer, rows, remembered,
                   ended, recent, durable, owed, known, overlapped, lossy>>

\* Broken on purpose: a frame is marked when it is let through.
ApplyMarks(f) ==
    /\ pc[f] = "applying"
    /\ timer' = f
    /\ mirror' = Larger(mirror, f)
    /\ Goto(f, "noting")
    /\ UNCHANGED <<disk, rows, remembered, bounds, history>>

\* setConversationDisappearTimer
Apply(f) ==
    /\ pc[f] = "applying"
    /\ timer' = f
    /\ Goto(f, "noting")
    /\ UNCHANGED <<disk, mirror, rows, remembered, bounds, history>>

\* Broken on purpose: the mark is in the database only.
ExplainUnmarked(f) ==
    /\ pc[f] = "noting"
    /\ rows' = rows \cup {f}
    /\ Goto(f, "writing")
    /\ ended' = ended \cup {f} /\ recent' = recent \cup {f} /\ owed' = owed \ {f}
    /\ UNCHANGED <<disk, mirror, timer, remembered, bounds, durable, known, overlapped,
                   blind, lossy>>

\* insertSysRow, and the beginning of commitTs up to its await.
Explain(f) ==
    /\ pc[f] = "noting"
    /\ rows' = rows \cup {f}
    /\ mirror' = Larger(mirror, f)
    /\ Goto(f, "writing")
    /\ ended' = ended \cup {f} /\ recent' = recent \cup {f} /\ owed' = owed \ {f}
    /\ UNCHANGED <<disk, timer, remembered, bounds, durable, known, overlapped,
                   blind, lossy>>

\* Either write fails: the frame is deferred, and its mark stays where it was.
Defer(f) ==
    /\ pc[f] \in {"applying", "noting"}
    /\ Fail
    /\ Goto(f, "idle")
    /\ owed' = owed \cup {f}
    /\ UNCHANGED <<disk, mirror, timer, rows, remembered,
                   ended, recent, durable, known, overlapped, blind, lossy>>

\* Broken on purpose: the mark is rounded up.
MarkRoundedUp(f) ==
    /\ pc[f] = "writing"
    /\ disk' = f + 1
    /\ Goto(f, "idle")
    /\ durable' = durable \cup {f}
    /\ UNCHANGED <<mirror, timer, rows, remembered, bounds,
                   ended, recent, owed, known, overlapped, blind, lossy>>

\* The rest of commitTs.
MarkSaved(f) ==
    /\ pc[f] = "writing"
    /\ disk' = f
    /\ Goto(f, "idle")
    /\ durable' = durable \cup {f}
    /\ UNCHANGED <<mirror, timer, rows, remembered, bounds,
                   ended, recent, owed, known, overlapped, blind, lossy>>

MarkNotSaved(f) ==
    /\ pc[f] = "writing"
    /\ Fail
    /\ Goto(f, "idle")
    /\ UNCHANGED <<disk, mirror, timer, rows, remembered, history>>

\* setDisappearAndSync: the person decides, and no mark is moved.
OwnDecision ==
    /\ own < MaxOwn
    /\ own' = own + 1
    /\ timer' = 0
    /\ UNCHANGED <<disk, mirror, rows, pc, remembered, deliveries, failures, losses,
                   history>>

\* What is remembered in memory only is lost.
Forget ==
    /\ losses < MaxLosses
    /\ losses' = losses + 1
    /\ mirror' = 0
    /\ recent' = {}
    /\ lossy' = (lossy \/ ~(ended \subseteq durable))

\* Marks of 4096 other slots were moved since.
Evicted ==
    /\ Forget
    /\ UNCHANGED <<disk, timer, rows, pc, remembered, deliveries, failures, own,
                   ended, durable, owed, known, overlapped, blind>>

\* The process is killed.
Killed ==
    /\ Forget
    /\ pc' = [f \in Frame |-> "idle"]
    /\ owed' = owed \cup {f \in Frame : pc[f] \in {"applying", "noting"}}
    /\ UNCHANGED <<disk, timer, rows, remembered, deliveries, failures, own,
                   ended, durable, known, overlapped, blind>>

Next ==
    \/ \E f \in Frame :
         \/ Arrive(f) \/ MarkRead(f) \/ MarkUnreadable(f) \/ Apply(f) \/ Explain(f)
         \/ Defer(f) \/ MarkSaved(f) \/ MarkNotSaved(f)
    \/ OwnDecision \/ Evicted \/ Killed

Spec == Init /\ [][Next]_vars

-----------------------------------------------------------------------------
\* A decision is not undone by an older one that came after it was carried out,
\* though its mark could not be saved, and though other decisions were carried
\* out at the same time; after a restart, if it was saved and they were not.
\* controlWatermark.ts:3-17, 404-424.
NoRollback ==
    [][\A f \in Frame : pc[f] = "applying" /\ pc'[f] = "noting" /\ ~blind
                           => \A g \in known[f] : g < f]_vars

\* Only a decision that was carried out, the frame's own or a newer one, makes a
\* frame out of date: one that was deferred is not refused when it comes again.
\* disappearSync.ts:206-211.
RefusalHasReason ==
    [][\A f \in Frame :
          pc[f] = "reading" /\ pc'[f] = "idle" /\ losses' = losses
              => \E g \in ended : g >= f]_vars

\* The conversation follows the newest decision of the contact that was carried
\* out to its end, when no handlings overlapped and no mark was out of reach.
NewestStands ==
    Busy = {} /\ owed = {} /\ own = 0 /\ ~overlapped /\ ~blind /\ ~lossy
        => timer \in ended \cup {0} /\ \A f \in ended : f <= timer
=============================================================================
