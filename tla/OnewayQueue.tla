----------------------------- MODULE OnewayQueue -----------------------------
(***************************************************************************)
(* What binder promises a service about one-way calls: the calls to one    *)
(* node are handed over one at a time, in the order they were accepted,    *)
(* each at most once, and the next one only after the buffer of the one    *)
(* before has been given back.  A call may be lost on its way to the       *)
(* service (its thread leaves, or the copy to user space faults); then the *)
(* node is stuck.  The death of the process drops everything.              *)
(***************************************************************************)
EXTENDS Sequences

CONSTANTS Nodes, Txns, None

VARIABLES
    dest,      \* t |-> the node the call is sent to
    accepted,  \* the calls accepted so far
    pending,   \* n |-> the calls accepted and not yet handed over
    current,   \* n |-> the call the service is working on, or None
    stuck,     \* n |-> the current call was lost and is never given back
    dead       \* the process has died

vars == <<dest, accepted, pending, current, stuck, dead>>

Init ==
    /\ dest \in [Txns -> Nodes]
    /\ accepted = {}
    /\ pending = [n \in Nodes |-> <<>>]
    /\ current = [n \in Nodes |-> None]
    /\ stuck = [n \in Nodes |-> FALSE]
    /\ dead = FALSE

Accept(t) ==
    /\ ~dead /\ t \notin accepted
    /\ accepted' = accepted \union {t}
    /\ pending' = [pending EXCEPT ![dest[t]] = Append(@, t)]
    /\ UNCHANGED <<dest, current, stuck, dead>>

\* The oldest call becomes the current one; a lost one the service never
\* sees, and never gives back.
Start(n, lost) ==
    /\ current[n] = None /\ pending[n] # <<>>
    /\ current' = [current EXCEPT ![n] = Head(pending[n])]
    /\ pending' = [pending EXCEPT ![n] = Tail(@)]
    /\ stuck' = [stuck EXCEPT ![n] = lost]
    /\ UNCHANGED <<dest, accepted, dead>>

GiveBack(n) ==
    /\ current[n] # None /\ ~stuck[n]
    /\ current' = [current EXCEPT ![n] = None]
    /\ UNCHANGED <<dest, accepted, pending, stuck, dead>>

Die ==
    /\ ~dead
    /\ dead' = TRUE
    /\ pending' = [n \in Nodes |-> <<>>]
    /\ current' = [n \in Nodes |-> None]
    /\ stuck' = [n \in Nodes |-> FALSE]
    /\ UNCHANGED <<dest, accepted>>

Next ==
    \/ \E t \in Txns : Accept(t)
    \/ \E n \in Nodes : Start(n, FALSE) \/ Start(n, TRUE) \/ GiveBack(n)
    \/ Die

Spec == Init /\ [][Next]_vars
=============================================================================
