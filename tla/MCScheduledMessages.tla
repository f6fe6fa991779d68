------------------------ MODULE MCScheduledMessages ------------------------
(***************************************************************************)
(* Small instances of ScheduledMessages for TLC.                           *)
(***************************************************************************)
EXTENDS ScheduledMessages

CONSTANTS p1, p2

\* The first message is of one profile, the second of the other one.
OwnerOf == [m \in Message |-> IF m = 1 THEN p2 ELSE p1]
=============================================================================
