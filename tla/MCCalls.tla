------------------------------- MODULE MCCalls -------------------------------
(***************************************************************************)
(* Three phones: 1 calls 2, which may cross a call of 2, or one of 3 to    *)
(* either of them, who may be busy, or 1 calls 2 once more.                *)
(***************************************************************************)
EXTENDS Calls

MCDials == <<{<<1, 2>>}, {<<1, 2>>, <<2, 1>>, <<3, 1>>, <<3, 2>>}>>

=============================================================================
