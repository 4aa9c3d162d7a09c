-------------------------- MODULE MCBinderNodeRef --------------------------
(* Small instances of BinderNodeRef for TLC. *)
EXTENDS BinderNodeRef, TLC

CONSTANTS c1, c2, th1, th2, x1, k1

OneClient == {c1}
TwoClients == {c1, c2}
OneThread == {th1}
TwoThreads == {th1, th2}
OneParcel == {x1}
OneCall == {k1}

\* Clients, threads and parcels are interchangeable.  Used for safety only.
Symm == Permutations(Clients) \union Permutations(Threads) \union Permutations(Parcels)
=============================================================================
