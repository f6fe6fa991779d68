--------------------------- MODULE MCAccountSync ---------------------------
(***************************************************************************)
(* AccountSync for TLC: two devices, one open profile, a handful of edits. *)
(***************************************************************************)
EXTENDS AccountSync, TLC

CONSTANTS d1, d2, e1, e2, good, bad

MCProfileOf == [e \in Entity |-> OwnProfile]

\* Who edits what: everyone everything, or every entity on one device only.
AnyWriter == [e \in Entity |-> Device]
OneWriter == [e \in Entity |-> IF e = e1 THEN {d1} ELSE {d2}]

Symmetry == Permutations(Device)
=============================================================================
