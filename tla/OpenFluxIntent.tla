--------------------------- MODULE OpenFluxIntent ---------------------------
(***************************************************************************)
(* What the tunnel controller promises to whoever switches the tunnel.     *)
(*                                                                         *)
(* Requests are numbered in the order they are made.  Native operations    *)
(* run one at a time, each for one request.  An operation calls for the    *)
(* tunnel only while its request is the newest one and nothing is left to  *)
(* clean up, and does not end over a tunnel it raised for a request that   *)
(* was superseded meanwhile - unless the core refused to go down.          *)
(***************************************************************************)
EXTENDS Naturals

VARIABLES
    request,        \* number of the newest request
    active,         \* the request whose operation runs, or 0
    calling,        \* that operation is waiting for the core to come up
    raised,         \* the request the tunnel was raised for, or 0
    stuck           \* the core refused to go down, or did not say

vars == <<request, active, calling, raised, stuck>>

Init ==
    /\ request = 0 /\ active = 0 /\ raised = 0
    /\ calling = FALSE /\ stuck = FALSE

Ask ==
    /\ request' = request + 1
    /\ UNCHANGED <<active, calling, raised, stuck>>

Begin ==
    /\ active = 0
    /\ active' \in 1..request
    /\ UNCHANGED <<request, calling, raised, stuck>>

Call ==
    /\ active # 0 /\ active = request /\ ~calling /\ ~stuck
    /\ calling' = TRUE
    /\ UNCHANGED <<request, active, raised, stuck>>

\* The core answers the call; it may have been superseded while it worked.
Answer ==
    /\ calling
    /\ calling' = FALSE
    /\ raised' \in {raised, active}
    /\ UNCHANGED <<request, active, stuck>>

Lower ==
    /\ active # 0 /\ ~calling
    /\ raised' \in {raised, 0}
    /\ stuck' \in {stuck, FALSE}
    /\ stuck' # stuck => raised' = 0
    /\ UNCHANGED <<request, active, calling>>

Refuse ==
    /\ active # 0 /\ ~calling
    /\ stuck' = TRUE
    /\ UNCHANGED <<request, active, calling, raised>>

\* Two steps may coincide: an operation ends with its last native answer, and
\* the caller it returns to may ask again at once.
Release ==
    /\ active # 0 /\ ~calling'
    /\ active' = 0
    /\ IF calling
          THEN raised' = raised /\ stuck' = stuck
          ELSE /\ raised' \in {raised, 0}
               /\ stuck' \in BOOLEAN
               /\ stuck /\ ~stuck' => raised' = 0
    /\ raised' = active /\ active # request => stuck'
    /\ request' \in {request, request + 1}

Next ==
    \/ Ask \/ Begin \/ Call \/ Answer \/ Lower \/ Refuse
    \/ Release

Spec == Init /\ [][Next]_vars
=============================================================================
