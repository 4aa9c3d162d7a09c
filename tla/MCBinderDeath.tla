---------------------------- MODULE MCBinderDeath ----------------------------
(* A small instance of BinderDeath for TLC. *)
EXTENDS BinderDeath, TLC

CONSTANTS th1, th2, n1, d1, d2, c1

TwoThreads == {th1, th2}
First == {th1}
Second == {th2}
OneNode == {n1}
TwoDeaths == {d1, d2}
OneCookie == {c1}
OneLimit == {1}

Symm == Permutations(TwoDeaths)
=============================================================================
