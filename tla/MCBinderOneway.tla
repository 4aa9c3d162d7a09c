--------------------------- MODULE MCBinderOneway ---------------------------
(* A small instance of BinderOneway for TLC. *)
EXTENDS BinderOneway

CONSTANTS n1, n2, th1, th2, t1, t2, t3

OneNode == {n1}
TwoNodes == {n1, n2}
OneThread == {th1}
TwoThreads == {th1, th2}
TwoTxns == {t1, t2}
ThreeTxns == {t1, t2, t3}

\* Transactions are interchangeable, and so are threads and nodes.  Used for
\* safety only.
Symm ==
    Permutations(Txns) \union Permutations(Threads) \union Permutations(Nodes)

\* Bound: of the transactions to two nodes, two senders at a time are inside
\* the driver, and one once every transaction has been begun.
Inside == {t \in Txns : sender[t] \notin {"idle", "sent", "failed"}}

SendersBound ==
    \/ Cardinality(Inside) <= IF \E t \in Txns : sender[t] = "idle" THEN 2 ELSE 1
    \/ \A t, u \in Txns : target[t] = target[u]
=============================================================================
