----------------------------- MODULE MCDelivery -----------------------------
(***************************************************************************)
(* Small instances of Delivery for TLC.  A unit of time is more than a     *)
(* second: the times differ by more than the overlap where they should.    *)
(***************************************************************************)
EXTENDS Delivery

\* A text, the edit and the deletion of it, or another text.
AllApart == <<2, 4, 6>>
SameSecond == <<2, 2, 4>>
Corrected == <<"text", "edit", "delete">>
Deleted == <<"text", "delete", "text">>
ToFirst == <<1, 1, 1>>
=============================================================================
