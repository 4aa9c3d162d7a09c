---------------------------- MODULE MCBinderCall ----------------------------
(* Small instances of BinderCall for TLC. *)
EXTENDS BinderCall, TLC

CONSTANTS p1, p2, p3, t1, t2, t3, t4

\* Three processes of one thread each: calls, nested calls and calls back.
ThreeProcs == {p1, p2, p3}
ThreeThreads == {t1, t2, t3}
ThreeOwners == (t1 :> p1) @@ (t2 :> p2) @@ (t3 :> p3)

OneClient == {t1}

\* The second process with two threads, which are interchangeable.
FourThreads == {t1, t2, t3, t4}
PoolOwners == (t1 :> p1) @@ (t2 :> p2) @@ (t4 :> p2) @@ (t3 :> p3)
Symm == Permutations({t2, t4})

\* Bound: one thread of the pool has nothing to do when a fourth call is made
\* or thread goes.
Events ==
    Cardinality({c \in Calls : txn[c].state # "new"})
      + Cardinality({th \in Threads : at[th].pc \in {"refs", "target"}})
      + Cardinality({th \in Threads : thr[th].dead \/ prc[Owner[th]].dead})

PoolBound ==
    \/ Events <= 3
    \/ \E th \in {t2, t4} :
         at[th].pc = "user" /\ thr[th].stack = None /\ thr[th].todo = <<>>

\* Two processes of one thread each.
TwoProcs == {p1, p2}
PairThreads == {t1, t2}
PairOwners == (t1 :> p1) @@ (t2 :> p2)
=============================================================================
