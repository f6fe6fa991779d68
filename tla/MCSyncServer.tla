---------------------------- MODULE MCSyncServer ----------------------------
(***************************************************************************)
(* SyncServer on its own, against devices that may send any request at any *)
(* time: every batch, every cursor (stale or past the end of the log) and  *)
(* both kinds of pull, scoped to a profile or not.                         *)
(***************************************************************************)
EXTENDS SyncServer, TLC

CONSTANTS p1, p2, e1, e2

MCProfileOf == [e \in Entity |-> IF e = e1 THEN p1 ELSE p2]
Symmetry == Permutations(Device) \cup Permutations(Body)
=============================================================================
