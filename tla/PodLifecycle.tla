----------------------------- MODULE PodLifecycle -----------------------------
(***************************************************************************)
(* What a pod promises the gateway, without a word on how: it hosts one    *)
(* session at a time, a session is hosted once, and when the pod is free   *)
(* again nothing of the session it hosted is left running or connected.    *)
(***************************************************************************)
CONSTANTS
    Sessions,
    Nobody     \* no session

VARIABLES
    host,      \* the session the pod is bound to, or Nobody
    served,    \* the sessions it has accepted so far
    holding    \* the sessions that own a task, a GPU slot or a connection

vars == <<host, served, holding>>

Init == host = Nobody /\ served = {} /\ holding = {}

Claim(s) ==
    /\ host = Nobody
    /\ s \notin served
    /\ host' = s
    /\ served' = served \cup {s}
    /\ holding' = {s}

Release ==
    /\ host # Nobody
    /\ host' = Nobody
    /\ holding' = {}
    /\ UNCHANGED served

Next == Release \/ \E s \in Sessions : Claim(s)

Spec == Init /\ [][Next]_vars
==============================================================================
