----------------------- MODULE BinderCallStacksProofs -----------------------
(***************************************************************************)
(* BinderCall implements CallStacks, for any finite sets of processes and  *)
(* threads and any bounds, when threads use the driver as a blocking call. *)
(*                                                                         *)
(* On top of what BinderCallProofs shows of the links.  The first part     *)
(* says what the abstract state is in terms of the calls on a stack and    *)
(* those under way; each action of the driver is then one of a few things  *)
(* that may happen to these.                                               *)
(***************************************************************************)
EXTENDS BinderCallProofs

-----------------------------------------------------------------------------
(* Who a call was made on behalf of. *)

\* The chain of callers of CallStacks is the one the driver follows.
LEMMA BehalfIs ==
    ASSUME txn \in Transactions, Falling(txn), NEW d \in Calls, NEW b \in Calls
    PROVE  Stacks!OnBehalf(d, b) <=> b \in Anc(txn, d) /\ b # d
<1> DEFINE V == Calls \union {None}
           pa == [c \in Calls |-> txn[c].fromParent]
           Is(f) == f = [n \in Nat |->
                           IF n = 0 THEN d
                           ELSE IF f[n - 1] = None THEN None ELSE pa[f[n - 1]]]
           U == CHOOSE f : Is(f)
           F == CallersFrom(d)
           h == [n \in Nat |-> IF n \in 0 .. MaxCalls THEN F[n] ELSE None]
<1>0. MaxCalls \in Nat /\ None \notin Calls BY NoneIsNoCall
<1>1. /\ F \in [0 .. MaxCalls -> V] /\ Iterates(F, pa, d)
      /\ Range(F) \ {None} = Anc(txn, d)
  BY CallersAre
<1>2. pa \in [Calls -> V] BY FieldTypes
<1>3. Stacks!OnBehalf(d, b) <=> \E n \in 1 .. Cardinality(Calls) : U[n] = b
  BY Zenon DEF Stacks!OnBehalf, Stacks!Cardinality, Cardinality
<1>4. Cardinality(Calls) = MaxCalls
  <2>1. Cardinality(1 .. MaxCalls) = MaxCalls BY <1>0, FS_Interval
  <2> QED BY <2>1 DEF Calls
<1> HIDE DEF F
<1>5. DOMAIN F = 0 .. MaxCalls /\ F[0] = d
      /\ \A k \in 1 .. MaxCalls : F[k] = IF F[k - 1] = None THEN None ELSE pa[F[k - 1]]
  <2>1. F = [k \in 0 .. MaxCalls |->
               IF k = 0 THEN d ELSE IF F[k - 1] = None THEN None ELSE pa[F[k - 1]]]
    BY <1>1, Zenon DEF Iterates
  <2> HIDE DEF pa
  <2>2. \A k \in 0 .. MaxCalls :
          F[k] = IF k = 0 THEN d ELSE IF F[k - 1] = None THEN None ELSE pa[F[k - 1]]
    BY <2>1, Zenon
  <2> QED BY <1>0, <1>1, <2>2
<1>6. \A e \in Calls : pa[e] # None => pa[e] < e BY DEF Falling
<1> HIDE DEF pa
<1>7. F[MaxCalls] = None
  <2> SUFFICES ASSUME F[MaxCalls] # None PROVE FALSE OBVIOUS
  <2>1. MaxCalls \in 0 .. MaxCalls BY <1>0
  <2>2. F[MaxCalls] + MaxCalls <= MaxCalls BY <1>1, <1>2, <1>6, <2>1, IterationFalls
  <2>3. F[MaxCalls] \in 1 .. MaxCalls BY <1>1, <2>1, NoneIsNoCall
  <2> QED BY <1>0, <2>2, <2>3
<1>8. \A n \in Nat : h[n] = IF n = 0 THEN d
                            ELSE IF h[n - 1] = None THEN None ELSE pa[h[n - 1]]
  <2> SUFFICES ASSUME NEW n \in Nat
               PROVE  h[n] = IF n = 0 THEN d
                             ELSE IF h[n - 1] = None THEN None ELSE pa[h[n - 1]]
    OBVIOUS
  <2>1. CASE n = 0 BY <1>0, <1>5, <2>1
  <2>2. CASE n \in 1 .. MaxCalls
    <3>1. n \in 0 .. MaxCalls /\ n - 1 \in 0 .. MaxCalls /\ n - 1 \in Nat /\ n # 0
      BY <1>0, <2>2
    <3> QED BY <1>5, <2>2, <3>1
  <2>3. CASE n > MaxCalls
    <3>1. n \notin 0 .. MaxCalls /\ n - 1 \in Nat /\ n # 0 BY <1>0, <2>3
    <3>2. n - 1 = MaxCalls \/ n - 1 \notin 0 .. MaxCalls BY <1>0, <2>3
    <3>3. h[n] = None /\ h[n - 1] = None BY <1>7, <3>1, <3>2
    <3> QED BY <3>1, <3>3
  <2> QED BY <1>0, <2>1, <2>2, <2>3
<1>9. Is(h)
  <2>1. h = [n \in Nat |-> h[n]] OBVIOUS
  <2> HIDE DEF h
  <2> QED BY Zenon, <1>8, <2>1
<1>10. Is(U) BY <1>9, Zenon
<1> HIDE DEF U
<1>11. \A n \in Nat : U[n] = IF n = 0 THEN d
                             ELSE IF U[n - 1] = None THEN None ELSE pa[U[n - 1]]
  BY <1>10, Zenon
<1> HIDE DEF Is
<1>12. \A n \in Nat : U[n] = h[n]
  <2> HIDE DEF h
  <2> DEFINE Bad == {n \in Nat : U[n] # h[n]}
  <2> SUFFICES ASSUME Bad # {} PROVE FALSE OBVIOUS
  <2>1. Bad \in SUBSET Nat OBVIOUS
  <2> HIDE DEF Bad
  <2>2. PICK n \in Bad : \A m \in Bad : n <= m BY <2>1, Smallest
  <2>3. n \in Nat /\ U[n] # h[n] BY <2>2 DEF Bad
  <2>4. n # 0 BY <1>8, <1>11, <2>3
  <2>5. n - 1 \in Nat /\ ~(n <= n - 1) BY <2>3, <2>4
  <2>6. U[n - 1] = h[n - 1] BY <2>2, <2>5 DEF Bad
  <2> QED BY <1>8, <1>11, <2>3, <2>4, <2>6
<1>13. \A n \in 1 .. MaxCalls : U[n] = F[n] BY <1>0, <1>12
<1> HIDE DEF h
<1>14. Range(F) = {F[k] : k \in 0 .. MaxCalls} BY <1>5 DEF Range
<1>15. ASSUME b \in Anc(txn, d), b # d PROVE \E n \in 1 .. MaxCalls : U[n] = b
  <2>1. PICK k \in 0 .. MaxCalls : F[k] = b BY <1>1, <1>14, <1>15
  <2>2. k \in 1 .. MaxCalls BY <1>0, <1>5, <1>15, <2>1
  <2> QED BY <1>13, <2>1, <2>2
<1>16. ASSUME NEW n \in 1 .. MaxCalls, U[n] = b PROVE b \in Anc(txn, d) /\ b # d
  <2>1. F[n] = b /\ b # None /\ n \in 0 .. MaxCalls BY <1>0, <1>13, <1>16
  <2>2. b \in Anc(txn, d) BY <1>1, <1>14, <2>1
  <2>3. 1 \in 0 .. MaxCalls /\ 1 \in 1 .. MaxCalls /\ 1 <= n BY <1>0
  <2>4. F[1] # None /\ b <= F[1]
    BY <1>1, <1>2, <1>6, <2>1, <2>3, IterationOrder
  <2>5. F[1] = pa[d]
    <3>1. d # None /\ 1 - 1 = 0 BY <1>0
    <3> QED BY <1>5, <2>3, <3>1
  <2>6. F[1] < d /\ F[1] \in Calls BY <1>1, <1>6, <2>3, <2>4, <2>5
  <2>7. F[1] \in Nat /\ b \in Nat /\ d \in Nat BY <2>6, NoneIsNoCall
  <2> QED BY <2>2, <2>4, <2>6, <2>7
<1> QED BY <1>3, <1>4, <1>15, <1>16

-----------------------------------------------------------------------------
(* A set of calls as the stack of their frames. *)

StackFrame == [call : Calls, side : {"made", "served"}]
FrameTable == [Calls -> StackFrame]

\* s is the frames F of the calls O, the latest call first.
Pile(O, F, s) ==
    /\ s \in Seq(StackFrame)
    /\ \A i \in DOMAIN s : s[i].call \in O /\ s[i] = F[s[i].call]
    /\ \A c \in O : \E i \in DOMAIN s : s[i].call = c
    /\ \A i, j \in DOMAIN s : i < j => s[j].call < s[i].call

LEMMA PileTyped ==
    ASSUME NEW O \in SUBSET Calls, NEW F, NEW s, Pile(O, F, s)
    PROVE  /\ s \in Seq(StackFrame) /\ DOMAIN s = 1 .. Len(s) /\ Len(s) \in Nat
           /\ \A i \in DOMAIN s : s[i].call \in O /\ s[i].call \in Nat
<1>1. \A c \in O : c \in Nat BY NoneIsNoCall
<1> QED BY <1>1 DEF Pile

LEMMA PilePrefix ==
    ASSUME NEW O \in SUBSET Calls, NEW F, NEW G, \A c \in O : G[c] = F[c],
           NEW s, Pile(O, F, s), NEW t, Pile(O, G, t)
    PROVE  \A i \in DOMAIN s : i \in DOMAIN t /\ t[i] = s[i]
<1> DEFINE Bad == {i \in DOMAIN s : ~(i \in DOMAIN t /\ t[i] = s[i])}
<1> SUFFICES ASSUME Bad # {} PROVE FALSE OBVIOUS
<1>0. /\ DOMAIN s = 1 .. Len(s) /\ Len(s) \in Nat
      /\ DOMAIN t = 1 .. Len(t) /\ Len(t) \in Nat
      /\ \A i \in DOMAIN s : s[i].call \in O /\ s[i].call \in Nat
      /\ \A i \in DOMAIN t : t[i].call \in O /\ t[i].call \in Nat
  BY PileTyped
<1>1. /\ \A i \in DOMAIN s : s[i] = F[s[i].call]
      /\ \A i \in DOMAIN t : t[i] = G[t[i].call]
      /\ \A c \in O : \E i \in DOMAIN s : s[i].call = c
      /\ \A c \in O : \E i \in DOMAIN t : t[i].call = c
      /\ \A i, j \in DOMAIN s : i < j => s[j].call < s[i].call
      /\ \A i, j \in DOMAIN t : i < j => t[j].call < t[i].call
  BY DEF Pile
<1>2. Bad \in SUBSET Nat BY <1>0
<1> HIDE DEF Bad
<1>3. PICK i \in Bad : \A j \in Bad : i <= j BY <1>2, Smallest
<1>4. i \in DOMAIN s /\ ~(i \in DOMAIN t /\ t[i] = s[i]) BY <1>3 DEF Bad
<1>5. ASSUME NEW j \in Nat, 1 <= j, j < i
      PROVE  j \in DOMAIN s /\ j \in DOMAIN t /\ t[j] = s[j]
  <2>1. j \in DOMAIN s /\ ~(i <= j) BY <1>0, <1>4, <1>5
  <2> QED BY <1>3, <2>1 DEF Bad
<1>6. PICK j \in DOMAIN t : t[j].call = s[i].call BY <1>0, <1>1, <1>4
<1>7. i <= j
  <2> SUFFICES ASSUME j < i PROVE FALSE BY <1>0, <1>4
  <2>1. j \in DOMAIN s /\ t[j] = s[j] BY <1>0, <1>5
  <2>2. s[i].call < s[j].call BY <1>1, <1>4, <2>1
  <2> QED BY <1>0, <1>4, <1>6, <2>1, <2>2
<1>8. i \in DOMAIN t BY <1>0, <1>4, <1>7
<1>9. PICK k \in DOMAIN s : s[k].call = t[i].call BY <1>0, <1>1, <1>8
<1>10. i <= k
  <2> SUFFICES ASSUME k < i PROVE FALSE BY <1>0, <1>4
  <2>1. k \in DOMAIN t /\ t[k] = s[k] BY <1>0, <1>5
  <2>2. t[i].call < t[k].call BY <1>1, <1>8, <2>1
  <2> QED BY <1>0, <1>8, <1>9, <2>1, <2>2
<1>11. t[j].call <= t[i].call
  <2>1. i \in Nat /\ j \in Nat /\ (i = j \/ i < j) BY <1>0, <1>4, <1>7
  <2> QED BY <1>0, <1>1, <1>8, <2>1
<1>12. s[k].call <= s[i].call
  <2>1. i \in Nat /\ k \in Nat /\ (i = k \/ i < k) BY <1>0, <1>4, <1>10
  <2> QED BY <1>0, <1>1, <1>4, <2>1
<1>13. t[i].call = s[i].call BY <1>0, <1>4, <1>6, <1>8, <1>9, <1>11, <1>12
<1>14. t[i] = s[i]
  <2>1. G[t[i].call] = F[t[i].call] BY <1>0, <1>8
  <2> QED BY <1>1, <1>4, <1>8, <1>13, <2>1
<1> QED BY <1>4, <1>8, <1>14

\* There is only one such stack.
LEMMA PileUnique ==
    ASSUME NEW O \in SUBSET Calls, NEW F, NEW G, \A c \in O : G[c] = F[c],
           NEW s, Pile(O, F, s), NEW t, Pile(O, G, t)
    PROVE  t = s
<1>1. \A i \in DOMAIN s : i \in DOMAIN t /\ t[i] = s[i] BY PilePrefix
<1>2. \A i \in DOMAIN t : i \in DOMAIN s /\ s[i] = t[i]
  <2>1. \A c \in O : F[c] = G[c] OBVIOUS
  <2> QED BY <2>1, PilePrefix
<1>3. s \in Seq(StackFrame) /\ t \in Seq(StackFrame) BY DEF Pile
<1>4. DOMAIN s = DOMAIN t BY <1>1, <1>2
<1> QED BY <1>1, <1>3, <1>4

LEMMA PileNone ==
    ASSUME NEW F, NEW s PROVE Pile({}, F, s) <=> s = <<>>
<1>1. ASSUME Pile({}, F, s) PROVE s = <<>>
  <2>1. s \in Seq(StackFrame) /\ \A i \in DOMAIN s : FALSE BY <1>1 DEF Pile
  <2>2. DOMAIN s = {} BY <2>1
  <2> QED BY <2>1, <2>2
<1>2. ASSUME s = <<>> PROVE Pile({}, F, s) BY <1>2 DEF Pile
<1> QED BY <1>1, <1>2

\* The latest call is on top.
LEMMA PileTop ==
    ASSUME NEW O \in SUBSET Calls, NEW F, NEW s, Pile(O, F, s),
           NEW b \in O, \A c \in O : c <= b
    PROVE  s # <<>> /\ s[1] = F[b] /\ s[1].call = b
<1>0. /\ DOMAIN s = 1 .. Len(s) /\ Len(s) \in Nat
      /\ \A i \in DOMAIN s : s[i].call \in O /\ s[i].call \in Nat
  BY PileTyped
<1>1. /\ \A i \in DOMAIN s : s[i] = F[s[i].call]
      /\ \A c \in O : \E i \in DOMAIN s : s[i].call = c
      /\ \A i, j \in DOMAIN s : i < j => s[j].call < s[i].call
  BY DEF Pile
<1>2. PICK i \in DOMAIN s : s[i].call = b BY <1>1
<1>3. 1 \in DOMAIN s /\ 1 <= i /\ i \in Nat BY <1>0
<1>4. i = 1
  <2> SUFFICES ASSUME 1 < i PROVE FALSE BY <1>3
  <2>1. s[i].call < s[1].call /\ s[1].call \in O BY <1>0, <1>1, <1>3
  <2> QED BY <1>0, <1>2, <1>3, <2>1
<1> QED BY <1>1, <1>2, <1>3, <1>4

\* A later call on top of the others.
LEMMA PilePush ==
    ASSUME NEW O \in SUBSET Calls, NEW F \in FrameTable, NEW G \in FrameTable,
           NEW s, Pile(O, F, s), \A c \in O : G[c] = F[c],
           NEW b \in Calls, G[b].call = b, \A c \in O : c < b
    PROVE  Pile(O \union {b}, G, <<G[b]>> \o s)
<1> DEFINE g == G[b]
           t == <<g>> \o s
<1>0. /\ s \in Seq(StackFrame) /\ DOMAIN s = 1 .. Len(s) /\ Len(s) \in Nat
      /\ \A i \in DOMAIN s : s[i].call \in O /\ s[i].call \in Nat
  BY PileTyped
<1>1. /\ \A i \in DOMAIN s : s[i] = F[s[i].call]
      /\ \A c \in O : \E i \in DOMAIN s : s[i].call = c
      /\ \A i, j \in DOMAIN s : i < j => s[j].call < s[i].call
  BY DEF Pile
<1>2. g \in StackFrame BY DEF FrameTable
<1>3. b \in Nat BY NoneIsNoCall
<1> HIDE DEF g
<1>4. /\ t \in Seq(StackFrame) /\ DOMAIN t = 1 .. Len(s) + 1 /\ t[1] = g
      /\ \A i \in 2 .. Len(s) + 1 : t[i] = s[i - 1]
  BY <1>0, <1>2
<1> HIDE DEF t
<1>5. g.call = b /\ g = G[b] BY DEF g
<1>6. \A i \in DOMAIN t : t[i].call \in O \union {b} /\ t[i] = G[t[i].call]
  <2> SUFFICES ASSUME NEW i \in DOMAIN t
               PROVE  t[i].call \in O \union {b} /\ t[i] = G[t[i].call]
    OBVIOUS
  <2>1. CASE i = 1 BY <1>4, <1>5, <2>1
  <2>2. CASE i # 1
    <3>1. i \in 2 .. Len(s) + 1 /\ i - 1 \in DOMAIN s BY <1>0, <1>4, <2>2
    <3> QED BY <1>0, <1>1, <1>4, <3>1
  <2> QED BY <2>1, <2>2
<1>7. ASSUME NEW c \in O \union {b} PROVE \E i \in DOMAIN t : t[i].call = c
  <2>1. CASE c = b
    <3>1. 1 \in DOMAIN t BY <1>0, <1>4
    <3> QED BY <1>4, <1>5, <2>1, <3>1
  <2>2. CASE c \in O
    <3>1. PICK i \in DOMAIN s : s[i].call = c BY <1>1, <2>2
    <3>2. i + 1 \in DOMAIN t /\ i + 1 \in 2 .. Len(s) + 1 /\ (i + 1) - 1 = i
      BY <1>0, <1>4
    <3> QED BY <1>4, <3>1, <3>2
  <2> QED BY <2>1, <2>2
<1>8. ASSUME NEW i \in DOMAIN t, NEW j \in DOMAIN t, i < j PROVE t[j].call < t[i].call
  <2>1. j \in 2 .. Len(s) + 1 /\ j - 1 \in DOMAIN s BY <1>0, <1>4, <1>8
  <2>2. t[j].call = s[j - 1].call BY <1>4, <2>1
  <2>3. CASE i = 1 BY <1>0, <1>4, <1>5, <2>1, <2>2, <2>3
  <2>4. CASE i # 1
    <3>1. i \in 2 .. Len(s) + 1 /\ i - 1 \in DOMAIN s /\ i - 1 < j - 1
      BY <1>0, <1>4, <1>8, <2>4
    <3> QED BY <1>1, <1>4, <2>1, <2>2, <3>1
  <2> QED BY <2>3, <2>4
<1> QED BY <1>4, <1>6, <1>7, <1>8 DEF Pile, t, g

\* The one on top gone.
LEMMA PilePop ==
    ASSUME NEW O \in SUBSET Calls, NEW F, NEW G, NEW s, Pile(O, F, s),
           NEW b \in O, \A c \in O : c <= b, \A c \in O \ {b} : G[c] = F[c]
    PROVE  Pile(O \ {b}, G, Tail(s))
<1> DEFINE t == Tail(s)
<1>0. /\ s \in Seq(StackFrame) /\ DOMAIN s = 1 .. Len(s) /\ Len(s) \in Nat
      /\ \A i \in DOMAIN s : s[i].call \in O /\ s[i].call \in Nat
  BY PileTyped
<1>1. /\ \A i \in DOMAIN s : s[i] = F[s[i].call]
      /\ \A c \in O : \E i \in DOMAIN s : s[i].call = c
      /\ \A i, j \in DOMAIN s : i < j => s[j].call < s[i].call
  BY DEF Pile
<1>2. s # <<>> /\ s[1].call = b BY PileTop
<1>3. /\ t \in Seq(StackFrame) /\ DOMAIN t = 1 .. Len(s) - 1
      /\ 1 \in DOMAIN s /\ \A i \in DOMAIN t : t[i] = s[i + 1] /\ i + 1 \in DOMAIN s
  BY <1>0, <1>2
<1> HIDE DEF t
<1>4. \A i \in DOMAIN t : t[i].call \in O \ {b} /\ t[i] = G[t[i].call]
  <2> SUFFICES ASSUME NEW i \in DOMAIN t
               PROVE  t[i].call \in O \ {b} /\ t[i] = G[t[i].call]
    OBVIOUS
  <2>1. i + 1 \in DOMAIN s /\ 1 < i + 1 /\ t[i] = s[i + 1] BY <1>0, <1>3
  <2>2. s[i + 1].call < b BY <1>1, <1>2, <1>3, <2>1
  <2> QED BY <1>0, <1>1, <2>1, <2>2
<1>5. ASSUME NEW c \in O \ {b} PROVE \E i \in DOMAIN t : t[i].call = c
  <2>1. PICK i \in DOMAIN s : s[i].call = c BY <1>1
  <2>2. i # 1 BY <1>2, <2>1
  <2>3. i - 1 \in DOMAIN t /\ (i - 1) + 1 = i BY <1>0, <1>3, <2>2
  <2> QED BY <1>3, <2>1, <2>3
<1>6. ASSUME NEW i \in DOMAIN t, NEW j \in DOMAIN t, i < j PROVE t[j].call < t[i].call
  <2>1. i + 1 \in DOMAIN s /\ j + 1 \in DOMAIN s /\ i + 1 < j + 1 BY <1>0, <1>3, <1>6
  <2> QED BY <1>1, <1>3, <2>1
<1> QED BY <1>3, <1>4, <1>5, <1>6 DEF Pile, t

-----------------------------------------------------------------------------
(* The stack of every thread. *)

Table(X, th) ==
    [c \in Calls |-> [call |-> c, side |-> IF X[c].toThread = th THEN "served" ELSE "made"]]

LEMMA TableTyped ==
    ASSUME NEW X, NEW th
    PROVE  /\ Table(X, th) \in FrameTable
           /\ \A c \in Calls : /\ Table(X, th)[c].call = c
                               /\ Table(X, th)[c].side =
                                    IF X[c].toThread = th THEN "served" ELSE "made"
BY DEF Table, FrameTable, StackFrame

\* The frames F of what f meets until it ends.
Depth(f) == Cardinality({k \in DOMAIN f : f[k] # None})
Met(f, F) == [k \in 1 .. Depth(f) |-> F[f[k - 1]]]

\* The calls met on the way down are a stack.
LEMMA IterationPiles ==
    ASSUME NEW g \in [Calls -> Calls \union {None}], NEW x \in Calls \union {None},
           \A d \in Calls : g[d] # None => g[d] < d,
           NEW f \in [0 .. MaxCalls -> Calls \union {None}], Iterates(f, g, x),
           f[MaxCalls] = None, NEW O, O = Range(f) \ {None},
           NEW F \in FrameTable, \A c \in Calls : F[c].call = c
    PROVE  /\ Depth(f) \in Nat /\ Pile(O, F, Met(f, F))
           /\ \A i \in 1 .. Depth(f) : f[i - 1] \in Calls
<1> DEFINE Ends == {k \in 0 .. MaxCalls : f[k] = None}
           n == Depth(f)
           s == Met(f, F)
<1>0. MaxCalls \in Nat /\ None \notin Calls /\ \A c \in Calls : c \in Nat
  BY NoneIsNoCall
<1>1. MaxCalls \in Ends /\ Ends \in SUBSET Nat BY <1>0
<1>2. PICK m \in Ends : \A l \in Ends : m <= l BY <1>1, Smallest
<1>3. m \in 0 .. MaxCalls /\ f[m] = None /\ \A l \in 0 .. MaxCalls : f[l] = None => m <= l
  BY <1>2
<1>4. ASSUME NEW l \in 0 .. MaxCalls PROVE f[l] # None <=> l < m
  <2>1. CASE l < m BY <1>0, <1>3, <2>1
  <2>2. CASE ~(l < m)
    <3>1. m <= l BY <1>0, <1>3, <2>2
    <3> QED BY <1>3, <2>2, <3>1, IterationOrder
  <2> QED BY <2>1, <2>2
<1>5. DOMAIN f = 0 .. MaxCalls OBVIOUS
<1>6. {k \in DOMAIN f : f[k] # None} = 0 .. m - 1 BY <1>0, <1>3, <1>4, <1>5
<1>7. m \in Nat /\ n = m
  <2>1. m \in Nat /\ m - 1 \in Int BY <1>0, <1>3
  <2>2. Cardinality(0 .. m - 1) = IF 0 > m - 1 THEN 0 ELSE (m - 1) - 0 + 1
    BY <2>1, FS_Interval
  <2>3. n = Cardinality(0 .. m - 1) BY <1>6 DEF Depth
  <2> QED BY <2>1, <2>2, <2>3
<1>8. \A i \in 1 .. n : i - 1 \in 0 .. MaxCalls /\ f[i - 1] \in Calls
  <2> SUFFICES ASSUME NEW i \in 1 .. n
               PROVE  i - 1 \in 0 .. MaxCalls /\ f[i - 1] \in Calls
    OBVIOUS
  <2>1. i - 1 \in 0 .. MaxCalls /\ i - 1 < m BY <1>0, <1>3, <1>7
  <2> QED BY <1>4, <2>1
<1>9. O = {f[k] : k \in 0 .. MaxCalls} \ {None} BY <1>5 DEF Range
<1> HIDE DEF n
<1>10. DOMAIN s = 1 .. n /\ \A i \in 1 .. n : s[i] = F[f[i - 1]] BY DEF Met, n
<1>11. s \in Seq(StackFrame)
  <2>1. \A i \in 1 .. n : F[f[i - 1]] \in StackFrame BY <1>8 DEF FrameTable
  <2>2. s \in [1 .. n -> StackFrame] BY <2>1 DEF Met, n
  <2>3. n \in Nat BY <1>7
  <2> HIDE DEF s
  <2> QED BY <2>2, <2>3
<1> HIDE DEF s
<1>12. \A i \in DOMAIN s : s[i].call = f[i - 1] BY <1>8, <1>10
<1>13. \A i \in DOMAIN s : s[i].call \in O /\ s[i] = F[s[i].call]
  BY <1>0, <1>8, <1>9, <1>10, <1>12
<1>14. ASSUME NEW c \in O PROVE \E i \in DOMAIN s : s[i].call = c
  <2>1. PICK k \in 0 .. MaxCalls : f[k] = c /\ c # None BY <1>9
  <2>2. k < m BY <1>4, <2>1
  <2>3. k + 1 \in 1 .. n /\ (k + 1) - 1 = k BY <1>0, <1>7, <2>2
  <2>4. k + 1 \in DOMAIN s BY <1>10, <2>3
  <2>5. s[k + 1].call = f[(k + 1) - 1] BY <1>12, <2>4
  <2> QED BY <2>1, <2>3, <2>4, <2>5
<1>15. ASSUME NEW i \in DOMAIN s, NEW j \in DOMAIN s, i < j
       PROVE  s[j].call < s[i].call
  <2>0. i \in 1 .. n /\ j \in 1 .. n BY <1>10
  <2>1. /\ i \in 0 .. MaxCalls /\ i - 1 \in 0 .. MaxCalls /\ j - 1 \in 0 .. MaxCalls
        /\ i <= j - 1 /\ i # 0
        /\ f[i - 1] \in Calls /\ f[j - 1] \in Calls
    <3>1. i \in Int /\ j \in Int /\ 1 <= i /\ i < j /\ j <= m /\ m <= MaxCalls
      BY <1>0, <1>3, <1>7, <1>15, <2>0
    <3>2. i \in 0 .. MaxCalls /\ i <= j - 1 /\ i # 0 BY <1>0, <3>1
    <3> QED BY <1>8, <2>0, <3>2
  <2>2. f[i] # None /\ f[j - 1] <= f[i] BY <1>0, <2>1, IterationOrder
  <2>3. f[i] = g[f[i - 1]]
    <3>1. f[i] = IF i = 0 THEN x ELSE IF f[i - 1] = None THEN None ELSE g[f[i - 1]]
      BY <2>1, Zenon DEF Iterates
    <3> QED BY <1>0, <2>1, <3>1
  <2>4. f[i] < f[i - 1] /\ f[i] \in Calls BY <2>1, <2>2, <2>3
  <2>5. f[j - 1] < f[i - 1] BY <1>0, <2>1, <2>2, <2>4
  <2> QED BY <1>12, <2>5
<1>16. \A i \in 1 .. Depth(f) : f[i - 1] \in Calls BY <1>8 DEF n
<1>17. Pile(O, F, s) BY <1>11, <1>13, <1>14, <1>15 DEF Pile
<1> QED BY <1>7, <1>16, <1>17 DEF s, n

\* The linked list of a thread, followed from its top, is the stack of the
\* calls it is engaged in; that of a released thread is empty.
LEMMA PilesAre ==
    Sound => \A th \in Threads : Pile(On(txn, Pendings, th), Table(txn, th), StackOf(th))
<1> SUFFICES ASSUME Sound, NEW th \in Threads
             PROVE  Pile(On(txn, Pendings, th), Table(txn, th), StackOf(th))
  OBVIOUS
<1>1. Types /\ Core(txn, Tops, Gone, Pendings, Answered) BY DEF Sound
<1>2. CASE thr[th].dead
  <2>1. StackOf(th) = <<>> BY <1>2 DEF StackOf
  <2>2. On(txn, Pendings, th) = {} BY <1>1, <1>2 DEF Core, Absent, Gone
  <2> QED BY <2>1, <2>2, PileNone
<1>3. CASE ~thr[th].dead
  <2> DEFINE F == FrameFrom(th)
             g == [d \in Calls |-> Below(th, d)]
             T == Table(txn, th)
             n == Depth(F)
             s == [k \in 1 .. n |-> FrameOf(th, F[k - 1])]
  <2>1. /\ thr[th].stack \in Calls \union {None} /\ txn \in Transactions /\ Falling(txn)
        /\ Stacked(txn, Tops, Pendings, th) /\ Tops[th] = thr[th].stack
    <3>1. th \notin Gone BY <1>3 DEF Gone
    <3>2. Tops[th] = thr[th].stack /\ Tops[th] \in Calls \union {None}
      BY <1>1, <3>1, TopThere, StateTypes
    <3> QED BY <1>1, <3>2 DEF Types, Core
  <2>2. /\ F[MaxCalls] = None /\ Range(F) \ {None} = On(txn, Pendings, th)
        /\ F \in [0 .. MaxCalls -> Calls \union {None}]
        /\ Iterates(F, g, thr[th].stack)
    BY <2>1, FramesAre DEF Frames
  <2>3. g \in [Calls -> Calls \union {None}] BY <2>1, FieldTypes DEF Below
  <2>4. \A d \in Calls : g[d] # None => g[d] < d BY <2>1 DEF Falling, Below
  <2>5. T \in FrameTable /\ \A c \in Calls : T[c].call = c BY TableTyped
  <2>6. StackOf(th) = s BY <1>3 DEF StackOf, Depth
  <2> HIDE DEF F, g
  <2> HIDE DEF T
  <2>7. /\ n \in Nat /\ Pile(On(txn, Pendings, th), T, Met(F, T))
        /\ \A k \in 1 .. n : F[k - 1] \in Calls
    <3> DEFINE O == On(txn, Pendings, th)
               x == thr[th].stack
    <3>1. O = Range(F) \ {None} BY <2>2
    <3>2. x \in Calls \union {None} /\ Iterates(F, g, x) BY <2>1, <2>2
    <3>3. F[MaxCalls] = None /\ F \in [0 .. MaxCalls -> Calls \union {None}] BY <2>2
    <3>4. T \in FrameTable /\ \A c \in Calls : T[c].call = c BY <2>5
    <3> HIDE DEF O, x
    <3>5. /\ n \in Nat /\ Pile(O, T, Met(F, T))
          /\ \A k \in 1 .. n : F[k - 1] \in Calls
      BY <2>3, <2>4, <3>1, <3>2, <3>3, <3>4, IterationPiles
    <3> QED BY <3>5 DEF O
  <2>8. s = Met(F, T)
    <3>1. ASSUME NEW k \in 1 .. n PROVE FrameOf(th, F[k - 1]) = T[F[k - 1]]
      <4>1. F[k - 1] \in Calls BY <2>7, <3>1
      <4> QED BY <4>1 DEF T, Table, FrameOf
    <3> QED BY <3>1 DEF Met
  <2> QED BY <2>6, <2>7, <2>8 DEF T
<1> QED BY <1>2, <1>3

-----------------------------------------------------------------------------
(* The abstract state in terms of the links and of who has which call. *)

\* What is on a list, and what somebody is about to put there or to deliver.
SendAt(pl) == IF pl.pc \in {"queue", "deliver"} THEN pl.cur ELSE None
SendHands == [a \in Agents |-> SendAt(at[a])]
Sendings == HeldIn(SendHands, Lists)

LEMMA SentIs ==
    ASSUME Types, NEW c \in Calls PROVE Sent(c) <=> c \in Sendings
<1>0. /\ c # None /\ DOMAIN at = Agents /\ Procs \subseteq Agents /\ Threads \subseteq Agents
      /\ Procs \cap Threads = {}
  BY NoneIsNoCall, NoneIsNobody DEF Types, Places, Agents
<1>1. \A p \in Procs : c \in Lists[p] <=> c \in Range(prc[p].todo)
  BY <1>0 DEF Lists
<1>2. \A th \in Threads : c \in Lists[th] <=> Item("call", c) \in Range(thr[th].todo)
  <2> SUFFICES ASSUME NEW th \in Threads
               PROVE  c \in Names(thr[th].todo) <=> Item("call", c) \in Range(thr[th].todo)
    BY <1>0 DEF Lists
  <2> QED BY DEF Names, Range
<1>3. (\E a \in Agents : c \in Lists[a]) <=> Queued(c)
  BY <1>0, <1>1, <1>2 DEF Queued, Agents
<1>4. \A a \in Agents : SendHands[a] = c
                          <=> at[a].cur = c /\ at[a].pc \in {"queue", "deliver"}
  BY <1>0 DEF SendHands, SendAt
<1> QED BY <1>0, <1>3, <1>4 DEF Sent, Sendings, HeldIn

LEMMA SendingsPend == Sendings \subseteq Pendings
<1>1. \A a \in Agents, c \in Calls : SendHands[a] = c => Hands[a] = c
  BY NoneIsNoCall DEF SendHands, SendAt, Hands, HandAt
<1> QED BY <1>1 DEF Sendings, Pendings, HeldIn

LEMMA PhaseIs ==
    Types => \A c \in Calls :
      PhaseOf(c) = IF txn[c].state = "new" THEN "new"
                   ELSE IF txn[c].state = "freed" THEN "over"
                   ELSE IF c \in Sendings THEN "sent" ELSE "taken"
<1> SUFFICES ASSUME Types, NEW c \in Calls
             PROVE  PhaseOf(c) = IF txn[c].state = "new" THEN "new"
                                 ELSE IF txn[c].state = "freed" THEN "over"
                                 ELSE IF c \in Sendings THEN "sent" ELSE "taken"
  OBVIOUS
<1>1. Sent(c) <=> c \in Sendings BY SentIs
<1>2. txn[c].state \in {"new", "live", "freed"} BY FieldTypes DEF Types
<1> QED BY <1>1, <1>2 DEF PhaseOf, Live

LEMMA PhaseNext ==
    Types' => (\A c \in Calls :
      PhaseOf(c) = IF txn[c].state = "new" THEN "new"
                   ELSE IF txn[c].state = "freed" THEN "over"
                   ELSE IF c \in Sendings THEN "sent" ELSE "taken")'
BY PhaseIs, PTL

LEMMA PilesNext ==
    Sound' => (\A th \in Threads : Pile(On(txn, Pendings, th), Table(txn, th), StackOf(th)))'
BY PilesAre, PTL

\* The top of a stack.
LEMMA StackTop ==
    ASSUME Sound, NEW th \in Threads
    PROVE  /\ StackOf(th) = <<>> <=> Tops[th] = None
           /\ Tops[th] # None => StackOf(th)[1] = Table(txn, th)[Tops[th]]
           /\ Stacks!Waits(th) <=> Tops[th] # None /\ txn[Tops[th]].toThread # th
           /\ Stacks!Serves(th) <=> Tops[th] # None /\ txn[Tops[th]].toThread = th
<1> DEFINE O == On(txn, Pendings, th)
           t == Tops[th]
           F == Table(txn, th)
           s == StackOf(th)
<1>1. Core(txn, Tops, Gone, Pendings, Answered) BY DEF Sound
<1>2. /\ t = None => O = {}
      /\ t # None => t \in O /\ \A d \in O : d <= t
  BY <1>1 DEF Core, Stacked
<1>3. Pile(O, F, s) BY PilesAre
<1>4. O \in SUBSET Calls BY OnCalls
<1>5. \A c \in Calls : F[c].side = IF txn[c].toThread = th THEN "served" ELSE "made"
  BY TableTyped
<1> HIDE DEF O, F, s, t
<1>6. t = None => s = <<>> BY <1>2, <1>3, PileNone
<1>7. ASSUME t # None PROVE s # <<>> /\ s[1] = F[t] /\ t \in Calls
  BY <1>2, <1>3, <1>4, <1>7, PileTop
<1>8. Stacks!Waits(th) <=> s # <<>> /\ s[1].side = "made" BY DEF Stacks!Waits, s
<1>9. Stacks!Serves(th) <=> s # <<>> /\ s[1].side = "served" BY DEF Stacks!Serves, s
<1>10. s = <<>> <=> t = None BY <1>6, <1>7
<1>11. Stacks!Waits(th) <=> t # None /\ txn[t].toThread # th
  BY <1>5, <1>7, <1>8, <1>10
<1>12. Stacks!Serves(th) <=> t # None /\ txn[t].toThread = th
  BY <1>5, <1>7, <1>9, <1>10
<1> QED BY <1>7, <1>10, <1>11, <1>12 DEF s, t, F

\* Who serves a call, and who has made it.
LEMMA OnStackIs ==
    ASSUME Sound, NEW c \in Calls
    PROVE  /\ Stacks!OnStack(Stacks!Served(c)) <=>
                c \in LiveIn(txn) /\ c \notin Pendings /\ txn[c].toThread # None
           /\ Stacks!OnStack(Stacks!Made(c)) <=> txn[c].from # None
<1> DEFINE At(th, f) == \E i \in DOMAIN StackOf(th) : StackOf(th)[i] = f
<1>1. Core(txn, Tops, Gone, Pendings, Answered) /\ txn \in Transactions
  BY DEF Sound, Types
<1>2. \A f : Stacks!OnStack(f) <=> \E th \in Threads : At(th, f) BY DEF Stacks!OnStack
<1>3. ASSUME NEW th \in Threads, NEW f
      PROVE  At(th, f) <=> \E d \in On(txn, Pendings, th) : f = Table(txn, th)[d]
  <2>1. Pile(On(txn, Pendings, th), Table(txn, th), StackOf(th)) BY PilesAre
  <2> QED BY <2>1 DEF Pile
<1>4. /\ Stacks!Served(c).call = c /\ Stacks!Served(c).side = "served"
      /\ Stacks!Made(c).call = c /\ Stacks!Made(c).side = "made"
  BY DEF Stacks!Served, Stacks!Made
<1>5. ASSUME NEW th \in Threads
      PROVE  /\ At(th, Stacks!Served(c)) <=> c \in Srv(txn, Pendings, th)
             /\ At(th, Stacks!Made(c)) <=> c \in Made(txn, th)
  <2>1. On(txn, Pendings, th) \in SUBSET Calls BY OnCalls
  <2>2. \A d \in Calls : Table(txn, th)[d] =
          [call |-> d, side |-> IF txn[d].toThread = th THEN "served" ELSE "made"]
    BY DEF Table
  <2>3. /\ At(th, Stacks!Served(c)) <=>
             c \in On(txn, Pendings, th) /\ txn[c].toThread = th
        /\ At(th, Stacks!Made(c)) <=>
             c \in On(txn, Pendings, th) /\ txn[c].toThread # th
    <3>1. ASSUME NEW d \in Calls
          PROVE  /\ Stacks!Served(c) = Table(txn, th)[d] <=> d = c /\ txn[d].toThread = th
                 /\ Stacks!Made(c) = Table(txn, th)[d] <=> d = c /\ txn[d].toThread # th
      <4>1. CASE txn[d].toThread = th
        <5>1. Table(txn, th)[d] = [call |-> d, side |-> "served"] BY <2>2, <4>1
        <5> QED BY <4>1, <5>1 DEF Stacks!Served, Stacks!Made
      <4>2. CASE txn[d].toThread # th
        <5>1. Table(txn, th)[d] = [call |-> d, side |-> "made"] BY <2>2, <4>2
        <5> QED BY <4>2, <5>1 DEF Stacks!Served, Stacks!Made
      <4> QED BY <4>1, <4>2
    <3> HIDE DEF At
    <3> QED BY <1>3, <2>1, <3>1
  <2>4. c \in Made(txn, th) => txn[c].toThread # th
    BY <1>1, NoneIsNobody DEF Core, Foreign, Made
  <2> QED BY <2>3, <2>4 DEF On, Srv
<1>6. txn[c].toThread \in Threads \union {None} /\ txn[c].from \in Threads \union {None}
  BY <1>1, FieldTypes
<1> HIDE DEF At
<1>7. Stacks!OnStack(Stacks!Served(c)) <=> \E th \in Threads : c \in Srv(txn, Pendings, th)
  BY <1>2, <1>5
<1>8. Stacks!OnStack(Stacks!Made(c)) <=> \E th \in Threads : c \in Made(txn, th)
  BY <1>2, <1>5
<1> QED BY <1>6, <1>7, <1>8, NoneIsNobody DEF Srv, Made

-----------------------------------------------------------------------------
(* What a step does to a stack. *)

\* The calls of O are on the stack of th for the same reason as before.
SideKept(th, O) == \A c \in O : txn'[c].toThread = th <=> txn[c].toThread = th

LEMMA TableKept ==
    ASSUME NEW th, NEW O \in SUBSET Calls, SideKept(th, O)
    PROVE  \A c \in O : Table(txn', th)[c] = Table(txn, th)[c]
BY DEF SideKept, Table

LEMMA StackKept ==
    ASSUME Sound, Sound', NEW th \in Threads,
           On(txn', Pendings', th) = On(txn, Pendings, th),
           SideKept(th, On(txn, Pendings, th))
    PROVE  StackOf(th)' = StackOf(th)
<1> DEFINE O == On(txn, Pendings, th)
           F == Table(txn, th)
           G == Table(txn', th)
           s == StackOf(th)
           t == StackOf(th)'
<1>1. Pile(O, F, s) BY PilesAre
<1>2. Pile(O, G, t) BY PilesNext
<1>3. O \in SUBSET Calls BY OnCalls
<1>4. \A c \in O : G[c] = F[c] BY <1>3, TableKept
<1> HIDE DEF O, F, G, s, t
<1>5. t = s BY <1>1, <1>2, <1>3, <1>4, PileUnique
<1> QED BY <1>5 DEF s, t

LEMMA StackPushed ==
    ASSUME Sound, Sound', NEW th \in Threads, NEW b \in Calls,
           On(txn', Pendings', th) = On(txn, Pendings, th) \union {b},
           SideKept(th, On(txn, Pendings, th)), Tops[th] # None => Tops[th] < b
    PROVE  StackOf(th)' = <<Table(txn', th)[b]>> \o StackOf(th)
<1> DEFINE O == On(txn, Pendings, th)
           F == Table(txn, th)
           G == Table(txn', th)
           s == StackOf(th)
           t == StackOf(th)'
<1>1. Pile(O, F, s) BY PilesAre
<1>2. Pile(O \union {b}, G, t) BY PilesNext
<1>3. O \in SUBSET Calls BY OnCalls
<1>4. \A c \in O : G[c] = F[c] BY <1>3, TableKept
<1>5. \A c \in O : c < b
  <2>1. Core(txn, Tops, Gone, Pendings, Answered) BY DEF Sound
  <2>2. /\ Tops[th] = None => O = {}
        /\ Tops[th] # None => Tops[th] \in O /\ \A d \in O : d <= Tops[th]
    BY <2>1 DEF Core, Stacked
  <2>3. b \in Nat /\ \A c \in O : c \in Nat BY <1>3, NoneIsNoCall
  <2> HIDE DEF O
  <2> QED BY <2>2, <2>3
<1>6. F \in FrameTable /\ G \in FrameTable /\ G[b].call = b BY TableTyped
<1>7. O \union {b} \in SUBSET Calls BY <1>3
<1> HIDE DEF O, F, G, s, t
<1>8. Pile(O \union {b}, G, <<G[b]>> \o s)
  BY <1>1, <1>3, <1>4, <1>5, <1>6, PilePush
<1>9. t = <<G[b]>> \o s
  <2>1. \A c \in O \union {b} : G[c] = G[c] OBVIOUS
  <2> QED BY <1>2, <1>7, <1>8, <2>1, PileUnique
<1> QED BY <1>9 DEF s, t, G

LEMMA StackPopped ==
    ASSUME Sound, Sound', NEW th \in Threads, Tops[th] # None,
           On(txn', Pendings', th) = On(txn, Pendings, th) \ {Tops[th]},
           SideKept(th, On(txn', Pendings', th))
    PROVE  StackOf(th)' = Tail(StackOf(th))
<1> DEFINE O == On(txn, Pendings, th)
           F == Table(txn, th)
           G == Table(txn', th)
           b == Tops[th]
           N == O \ {b}
           s == StackOf(th)
           t == StackOf(th)'
<1>1. Pile(O, F, s) BY PilesAre
<1>2. Pile(N, G, t) BY PilesNext
<1>3. O \in SUBSET Calls /\ N \in SUBSET Calls BY OnCalls
<1>4. \A c \in N : G[c] = F[c] BY <1>3, TableKept
<1>5. b \in O /\ \A c \in O : c <= b BY DEF Sound, Core, Stacked
<1> HIDE DEF O, F, G, b, s, t
<1>6. Pile(N, G, Tail(s)) BY <1>1, <1>3, <1>4, <1>5, PilePop
<1> HIDE DEF N
<1>7. t = Tail(s)
  <2>1. \A c \in N : G[c] = G[c] OBVIOUS
  <2> QED BY <1>2, <1>3, <1>6, <2>1, PileUnique
<1> QED BY <1>7 DEF s, t

LEMMA StackEmptied ==
    ASSUME Sound', NEW th \in Threads, On(txn', Pendings', th) = {}
    PROVE  StackOf(th)' = <<>>
<1>1. Pile({}, Table(txn', th), StackOf(th)') BY PilesNext
<1> QED BY <1>1, PileNone

-----------------------------------------------------------------------------
(* The steps of CallStacks, by what happens to links, hands and lists. *)

StackNow == [th \in Threads |-> StackOf(th)]
PhaseNow == [c \in Calls |-> PhaseOf(c)]
ParentNow == [c \in Calls |-> txn[c].fromParent]

LEMMA PhaseKept ==
    ASSUME Sound, Sound', NEW c \in Calls, txn'[c].state = txn[c].state,
           c \in LiveIn(txn) => (c \in Sendings' <=> c \in Sendings)
    PROVE  PhaseOf(c)' = PhaseOf(c)
<1>1. Types /\ Types' BY DEF Sound
<1>2. txn[c].state \in {"new", "live", "freed"} BY <1>1, FieldTypes DEF Types
<1> QED BY <1>1, <1>2, PhaseIs, PhaseNext DEF LiveIn

\* Nothing but call c comes further, namely to p.
LEMMA PhaseSet ==
    ASSUME NEW c \in Calls, NEW p, PhaseOf(c)' = p,
           \A d \in Calls : d # c => PhaseOf(d)' = PhaseOf(d)
    PROVE  PhaseNow' = [PhaseNow EXCEPT ![c] = p]
BY DEF PhaseNow

LEMMA StackSet ==
    ASSUME NEW th \in Threads, NEW s, StackOf(th)' = s,
           \A o \in Threads : o # th => StackOf(o)' = StackOf(o)
    PROVE  StackNow' = [StackNow EXCEPT ![th] = s]
BY DEF StackNow

LEMMA ParentSet ==
    ASSUME NEW c \in Calls, NEW b, txn'[c].fromParent = b,
           \A d \in Calls : d # c => txn'[d].fromParent = txn[d].fromParent
    PROVE  ParentNow' = [ParentNow EXCEPT ![c] = b]
BY DEF ParentNow

LEMMA AllKept ==
    ASSUME \A th \in Threads : StackOf(th)' = StackOf(th)
    PROVE  StackNow' = StackNow
BY DEF StackNow

LEMMA PendingLive ==
    ASSUME Sound
    PROVE  /\ Sendings \subseteq Pendings /\ Pendings \subseteq LiveIn(txn)
           /\ \A c \in LiveIn(txn) : c \in Calls /\ txn[c].state = "live"
BY SendingsPend DEF Sound, Core, Marked, LiveIn

\* Somebody is on the way, in the driver.
LEMMA QuietStacks ==
    ASSUME Sound, Sound', txn' = txn, Pendings' = Pendings, Sendings' = Sendings
    PROVE  UNCHANGED Stacks!vars
<1>1. StackNow' = StackNow
  <2>1. \A th \in Threads : /\ On(txn', Pendings', th) = On(txn, Pendings, th)
                            /\ SideKept(th, On(txn, Pendings, th))
    BY DEF SideKept
  <2>2. \A th \in Threads : StackOf(th)' = StackOf(th) BY <2>1, StackKept
  <2> QED BY <2>2, AllKept
<1>2. PhaseNow' = PhaseNow
  <2>1. \A c \in Calls : PhaseOf(c)' = PhaseOf(c) BY PhaseKept
  <2> QED BY <2>1 DEF PhaseNow
<1>3. ParentNow' = ParentNow BY DEF ParentNow
<1> QED BY <1>1, <1>2, <1>3 DEF Stacks!vars, StackNow, PhaseNow, ParentNow

LEMMA LoseStep ==
    ASSUME Sound, Sound', NEW c \in Sendings, txn' = txn, Pendings' = Pendings,
           Sendings' = Sendings \ {c}
    PROVE  Stacks!Next
<1>1. StackNow' = StackNow
  <2>1. \A th \in Threads : /\ On(txn', Pendings', th) = On(txn, Pendings, th)
                            /\ SideKept(th, On(txn, Pendings, th))
    BY DEF SideKept
  <2>2. \A th \in Threads : StackOf(th)' = StackOf(th) BY <2>1, StackKept
  <2> QED BY <2>2, AllKept
<1>2. c \in Calls /\ txn[c].state = "live" BY PendingLive
<1>3. Types /\ Types' BY DEF Sound
<1>4. PhaseOf(c) = "sent" BY <1>2, <1>3, PhaseIs
<1>5. PhaseOf(c)' = "taken" BY <1>2, <1>3, PhaseNext
<1>6. \A d \in Calls : d # c => PhaseOf(d)' = PhaseOf(d) BY PhaseKept
<1>7. PhaseNow' = [PhaseNow EXCEPT ![c] = "taken"] BY <1>2, <1>5, <1>6, PhaseSet
<1>8. ParentNow' = ParentNow BY DEF ParentNow
<1>9. Stacks!Lose(c)
  BY <1>1, <1>2, <1>4, <1>7, <1>8 DEF Stacks!Lose, StackNow, PhaseNow, ParentNow
<1> QED BY <1>2, <1>9 DEF Stacks!Next

\* A thread that serves a call, or none, makes one.
LEMMA CallStep ==
    ASSUME Sound, Sound', NEW th \in Threads, NEW c \in Calls, txn[c].state = "new",
           Tops[th] = None \/ txn[Tops[th]].toThread = th, NEW t,
           Rewritten(txn, c, [state |-> "live", from |-> th, toThread |-> t,
                              fromParent |-> Tops[th], toParent |-> None], txn'),
           Pendings' = Pendings \union {c}, Sendings' = Sendings \union {c}
    PROVE  Stacks!Next
<1>1. Types /\ Types' /\ Core(txn, Tops, Gone, Pendings, Answered)
      /\ Falling(txn') /\ Foreign(txn')
  BY DEF Sound, Core
<1>2. /\ txn'[c].state = "live" /\ txn'[c].from = th /\ txn'[c].toThread = t
      /\ txn'[c].fromParent = Tops[th] /\ \A d \in Calls : d # c => txn'[d] = txn[d]
  BY DEF Rewritten
<1>3. c \notin LiveIn(txn) /\ txn[c].from = None BY <1>1 DEF LiveIn, Core, Blank
<1>4. t # th BY <1>1, <1>2, NoneIsNobody DEF Foreign
<1>5. Tops[th] # None => Tops[th] < c BY <1>1, <1>2 DEF Falling
<1>6. /\ LiveIn(txn') = LiveIn(txn) \union {c}
      /\ \A o \in Threads : Made(txn', o) = Made(txn, o) \union (IF o = th THEN {c} ELSE {})
  BY <1>2, <1>3, NoneIsNobody DEF LiveIn, Made
<1>7. \A o \in Threads : Srv(txn', Pendings', o) = Srv(txn, Pendings, o)
  BY <1>2, <1>3, <1>6 DEF Srv, LiveIn
<1>8. \A o \in Threads : c \notin On(txn, Pendings, o) /\ SideKept(o, On(txn, Pendings, o))
  <2> SUFFICES ASSUME NEW o \in Threads
               PROVE  c \notin On(txn, Pendings, o) /\ SideKept(o, On(txn, Pendings, o))
    OBVIOUS
  <2>1. c \notin On(txn, Pendings, o) BY <1>3, NoneIsNobody DEF On, Made, Srv
  <2> QED BY <1>2, <2>1, OnCalls DEF SideKept
<1>9. StackOf(th)' = <<Table(txn', th)[c]>> \o StackOf(th)
  <2>1. On(txn', Pendings', th) = On(txn, Pendings, th) \union {c}
    BY <1>6, <1>7 DEF On
  <2> QED BY <1>5, <1>8, <2>1, StackPushed
<1>10. \A o \in Threads : o # th => StackOf(o)' = StackOf(o)
  <2>1. \A o \in Threads : o # th => On(txn', Pendings', o) = On(txn, Pendings, o)
    BY <1>6, <1>7 DEF On
  <2> QED BY <1>8, <2>1, StackKept
<1>11. Table(txn', th)[c] = Stacks!Made(c) BY <1>2, <1>4 DEF Table, Stacks!Made
<1>12. StackNow' = [StackNow EXCEPT ![th] = <<Stacks!Made(c)>> \o @]
  <2>1. StackNow[th] = StackOf(th) BY DEF StackNow
  <2> QED BY <1>9, <1>10, <1>11, <2>1, StackSet
<1>13. PhaseNow' = [PhaseNow EXCEPT ![c] = "sent"]
  <2>1. PhaseOf(c)' = "sent" BY <1>1, <1>2, PhaseNext
  <2>2. \A d \in Calls : d # c => PhaseOf(d)' = PhaseOf(d) BY <1>2, PhaseKept
  <2> QED BY <2>1, <2>2, PhaseSet
<1>14. ParentNow' = [ParentNow EXCEPT ![c] = Tops[th]] BY <1>2, ParentSet
<1>15. PhaseNow[c] = "new" BY <1>1, PhaseIs DEF PhaseNow
<1>16. ~Stacks!Waits(th) /\ Tops[th] = IF Stacks!Serves(th) THEN StackOf(th)[1].call ELSE None
  <2>1. Tops[th] \in Calls \union {None} BY <1>1, StateTypes
  <2> QED BY <2>1, StackTop, TableTyped
<1>17. Stacks!Call(th, c)
  BY <1>12, <1>13, <1>14, <1>15, <1>16 DEF Stacks!Call, StackNow, PhaseNow, ParentNow
<1> QED BY <1>17 DEF Stacks!Next

\* A thread that does nothing, or waits for a call on whose behalf this one
\* was made, gets it.
LEMMA ServeStep ==
    ASSUME Sound, Sound', NEW th \in Threads, NEW c \in Sendings,
           Tops[th] = None \/ WaitsFor(txn, Tops, th, c),
           Rewritten(txn, c, [txn[c] EXCEPT !.toParent = Tops[th], !.toThread = th], txn'),
           Pendings' = Pendings \ {c}, Sendings' = Sendings \ {c}
    PROVE  Stacks!Next
<1>1. /\ Types /\ Types' /\ Core(txn, Tops, Gone, Pendings, Answered)
      /\ Foreign(txn') /\ Foreign(txn) /\ Falling(txn) /\ txn \in Transactions
  BY DEF Sound, Core, Types
<1>2. c \in Calls /\ c \in Pendings /\ c \in LiveIn(txn) /\ txn[c].state = "live"
  BY PendingLive
<1>3. /\ txn'[c].state = "live" /\ txn'[c].from = txn[c].from /\ txn'[c].toThread = th
      /\ txn'[c].fromParent = txn[c].fromParent
      /\ \A d \in Calls : d # c => txn'[d] = txn[d]
  <2>1. txn[c] \in Transaction BY <1>1, <1>2, FieldTypes
  <2> QED BY <1>2, <2>1 DEF Rewritten, Transaction
<1>4. txn[c].from # th BY <1>2, <1>1, <1>3, NoneIsNobody DEF Foreign
<1>5. Tops[th] # None => Tops[th] < c /\ Tops[th] \in Anc(txn, c) /\ Tops[th] # c
  <2> SUFFICES ASSUME Tops[th] # None
               PROVE  Tops[th] < c /\ Tops[th] \in Anc(txn, c) /\ Tops[th] # c
    OBVIOUS
  <2>1. txn[Tops[th]].from = th /\ Tops[th] \in Anc(txn, c) BY DEF WaitsFor
  <2>2. Tops[th] # c BY <1>4, <2>1
  <2>3. Tops[th] <= c /\ Tops[th] \in Calls BY <1>1, <1>2, <2>1, AncSmaller, AncIs
  <2> QED BY <1>2, <2>1, <2>2, <2>3, NoneIsNoCall
<1>6. LiveIn(txn') = LiveIn(txn) /\ \A o \in Threads : Made(txn', o) = Made(txn, o)
  BY <1>2, <1>3 DEF LiveIn, Made
<1>7. \A o \in Threads : Srv(txn', Pendings', o) =
        Srv(txn, Pendings, o) \union (IF o = th THEN {c} ELSE {})
  <2> SUFFICES ASSUME NEW o \in Threads, NEW d \in Calls
               PROVE  d \in Srv(txn', Pendings', o) <=>
                        d \in Srv(txn, Pendings, o) \/ (o = th /\ d = c)
    BY <1>2 DEF Srv, LiveIn
  <2>1. CASE d = c BY <1>2, <1>3, <1>6, <2>1 DEF Srv
  <2>2. CASE d # c BY <1>2, <1>3, <1>6, <2>2 DEF Srv
  <2> QED BY <2>1, <2>2
<1>8. \A o \in Threads : SideKept(o, On(txn, Pendings, o))
  <2> SUFFICES ASSUME NEW o \in Threads, c \in On(txn, Pendings, o)
               PROVE  txn'[c].toThread = o <=> txn[c].toThread = o
    BY <1>3, OnCalls DEF SideKept
  <2>1. txn[c].from = o BY <1>2 DEF On, Made, Srv
  <2>2. txn[c].toThread # o BY <1>1, <1>2, <2>1, NoneIsNobody DEF Foreign
  <2>3. o # th BY <1>4, <2>1
  <2> QED BY <1>3, <2>2, <2>3
<1>9. StackOf(th)' = <<Table(txn', th)[c]>> \o StackOf(th)
  <2>1. On(txn', Pendings', th) = On(txn, Pendings, th) \union {c}
    BY <1>6, <1>7 DEF On
  <2> QED BY <1>2, <1>5, <1>8, <2>1, StackPushed
<1>10. \A o \in Threads : o # th => StackOf(o)' = StackOf(o)
  <2>1. \A o \in Threads : o # th => On(txn', Pendings', o) = On(txn, Pendings, o)
    BY <1>6, <1>7 DEF On
  <2> QED BY <1>8, <2>1, StackKept
<1>11. Table(txn', th)[c] = Stacks!Served(c)
  BY <1>2, <1>3 DEF Table, Stacks!Served
<1>12. StackNow' = [StackNow EXCEPT ![th] = <<Stacks!Served(c)>> \o @]
  <2>1. StackNow[th] = StackOf(th) BY DEF StackNow
  <2> QED BY <1>9, <1>10, <1>11, <2>1, StackSet
<1>13. PhaseNow' = [PhaseNow EXCEPT ![c] = "taken"]
  <2>1. PhaseOf(c)' = "taken" BY <1>1, <1>2, <1>3, PhaseNext
  <2>2. \A d \in Calls : d # c => PhaseOf(d)' = PhaseOf(d) BY <1>3, PhaseKept
  <2> QED BY <1>2, <2>1, <2>2, PhaseSet
<1>14. ParentNow' = ParentNow BY <1>2, <1>3 DEF ParentNow
<1>15. PhaseNow[c] = "sent" BY <1>1, <1>2, PhaseIs DEF PhaseNow
<1>16. StackOf(th) = <<>> \/ (Stacks!Waits(th) /\ Stacks!OnBehalf(c, StackOf(th)[1].call))
  <2>1. CASE Tops[th] = None BY <2>1, StackTop
  <2>2. CASE Tops[th] # None
    <3>1. txn[Tops[th]].from = th /\ Tops[th] \in Calls
      BY <1>1, <2>2, StateTypes DEF WaitsFor
    <3>2. txn[Tops[th]].toThread # th BY <1>1, <3>1, NoneIsNobody DEF Foreign
    <3>3. StackOf(th)[1].call = Tops[th] BY <2>2, <3>1, StackTop, TableTyped
    <3>4. Stacks!OnBehalf(c, Tops[th]) BY <1>1, <1>2, <1>5, <2>2, <3>1, BehalfIs
    <3> QED BY <2>2, <3>2, <3>3, <3>4, StackTop
  <2> QED BY <2>1, <2>2
<1>17. Stacks!Serve(th, c)
  BY <1>12, <1>13, <1>14, <1>15, <1>16
  DEF Stacks!Serve, StackNow, PhaseNow, ParentNow
<1> QED BY <1>2, <1>17 DEF Stacks!Next

\* The call on top is taken off the stack of its server.
LEMMA ReplyStep ==
    ASSUME Sound, Sound', NEW th \in Threads, Tops[th] # None,
           txn[Tops[th]].toThread = th, txn' = txn,
           Pendings' = Pendings \union {Tops[th]}, Sendings' = Sendings
    PROVE  Stacks!Next
<1> DEFINE c == Tops[th]
<1>1. Core(txn, Tops, Gone, Pendings, Answered) BY DEF Sound
<1>2. c \in Srv(txn, Pendings, th) /\ c \notin Made(txn, th) BY <1>1, ServedTop
<1>3. \A o \in Threads : SideKept(o, On(txn, Pendings, o))
                         /\ SideKept(o, On(txn', Pendings', o))
  BY DEF SideKept
<1>4. /\ On(txn', Pendings', th) = On(txn, Pendings, th) \ {c}
      /\ \A o \in Threads : o # th => On(txn', Pendings', o) = On(txn, Pendings, o)
  <2>1. \A o \in Threads : Srv(txn', Pendings', o) = Srv(txn, Pendings, o) \ {c}
    BY DEF Srv
  <2>2. \A o \in Threads : o # th => c \notin Srv(txn, Pendings, o) BY DEF Srv
  <2> HIDE DEF c
  <2> QED BY <1>2, <2>1, <2>2 DEF On
<1>5. StackOf(th)' = Tail(StackOf(th)) BY <1>3, <1>4, StackPopped
<1>6. \A o \in Threads : o # th => StackOf(o)' = StackOf(o) BY <1>3, <1>4, StackKept
<1>7. StackNow' = [StackNow EXCEPT ![th] = Tail(@)]
  <2>1. StackNow[th] = StackOf(th) BY DEF StackNow
  <2> QED BY <1>5, <1>6, <2>1, StackSet
<1>8. PhaseNow' = PhaseNow
  <2>1. \A d \in Calls : PhaseOf(d)' = PhaseOf(d) BY PhaseKept
  <2> QED BY <2>1 DEF PhaseNow
<1>9. ParentNow' = ParentNow BY DEF ParentNow
<1>10. Stacks!Serves(th) BY StackTop
<1>11. Stacks!Reply(th)
  BY <1>7, <1>8, <1>9, <1>10 DEF Stacks!Reply, StackNow, PhaseNow, ParentNow
<1> QED BY <1>11 DEF Stacks!Next

\* A call in the hands of somebody who does not deliver it can be closed.
LEMMA HeldClosable ==
    ASSUME Sound, NEW c \in Pendings, c \notin Sendings
    PROVE  Stacks!Closable(c)
<1>1. /\ Types /\ Core(txn, Tops, Gone, Pendings, Answered) /\ Apart(Hands, Lists)
      /\ Falling(txn) /\ txn \in Transactions /\ Marked(txn, Pendings, Answered)
  BY DEF Sound, Core, Types
<1>2. c \in Calls /\ c \in LiveIn(txn) /\ txn[c].state = "live" BY PendingLive
<1>3. PhaseNow[c] = "taken" BY <1>1, <1>2, PhaseIs DEF PhaseNow
<1>4. ~Stacks!OnStack(Stacks!Served(c)) BY <1>2, OnStackIs
<1>5. ASSUME NEW d \in Calls, Stacks!OnBehalf(d, c)
      PROVE  PhaseNow[d] # "sent" /\ ~Stacks!OnStack(Stacks!Served(d))
  <2>1. c \in Anc(txn, d) /\ c # d BY <1>1, <1>2, <1>5, BehalfIs
  <2>2. CASE d \notin LiveIn(txn)
    <3>1. d \notin Sendings BY <2>2, PendingLive
    <3>2. PhaseOf(d) # "sent" BY <1>1, <3>1, PhaseIs
    <3> QED BY <2>2, <3>2, OnStackIs DEF PhaseNow
  <2>3. CASE d \in LiveIn(txn) /\ d \notin Answered
    <3>1. c \notin Pendings BY <1>1, <2>1, <2>3, AncLive
    <3> QED BY <3>1
  <2>4. CASE d \in Answered
    <3>1. d \in Pendings BY <1>1, <2>4 DEF Marked
    <3>2. d \notin Sendings
      <4>1. /\ \A a \in Agents : d \notin Lists[a]
            /\ \A a \in Agents : Hands[a] = d => at[a].pc = "replied"
        BY <1>1, <2>4, AnsweredHand
      <4>2. \A a \in Agents : SendHands[a] = d =>
              at[a].pc \in {"queue", "deliver"} /\ Hands[a] = d
        BY NoneIsNoCall DEF SendHands, SendAt, Hands, HandAt
      <4> QED BY <4>1, <4>2 DEF Sendings, HeldIn
    <3>3. PhaseOf(d) # "sent" BY <1>1, <3>2, PhaseIs
    <3> QED BY <3>1, <3>3, OnStackIs DEF PhaseNow
  <2> QED BY <2>2, <2>3, <2>4
<1> QED BY <1>3, <1>4, <1>5 DEF Stacks!Closable, PhaseNow

\* The call is popped off the stack of its caller, which has its answer.
LEMMA AnswerStep ==
    ASSUME Sound, Sound', NEW c \in Pendings, c \notin Sendings,
           NEW th, th = txn[c].from, th # None,
           \/ /\ Rewritten(txn, c, [txn[c] EXCEPT !.from = None], txn')
              /\ Pendings' = Pendings
           \/ /\ Rewritten(txn, c, Freed, txn')
              /\ Pendings' = Pendings \ {c},
           Sendings' = Sendings
    PROVE  Stacks!Next
<1>1. /\ Types /\ Types' /\ Core(txn, Tops, Gone, Pendings, Answered)
      /\ Foreign(txn) /\ txn \in Transactions
  BY DEF Sound, Core, Types
<1>2. c \in Calls /\ c \in LiveIn(txn) /\ txn[c].state = "live" BY PendingLive
<1>3. th \in Threads /\ Tops[th] = c /\ c # None BY <1>1, <1>2, TopOf, NoneIsNoCall
<1>4. txn[c].toThread # th BY <1>1, <1>2, <1>3, NoneIsNobody DEF Foreign
<1>5. txn'[c].from = None /\ \A d \in Calls : d # c => txn'[d] = txn[d]
  <2>1. txn[c] \in Transaction BY <1>1, <1>2, FieldTypes
  <2> QED BY <2>1 DEF Rewritten, Transaction, Freed
<1>6. c \in Pendings' \/ c \notin LiveIn(txn')
  BY <1>2 DEF Rewritten, Freed, LiveIn
<1>7. \A d \in Pendings' : d \in Pendings OBVIOUS
<1>8. /\ \A o \in Threads : Srv(txn', Pendings', o) = Srv(txn, Pendings, o)
      /\ \A o \in Threads : Made(txn', o) = Made(txn, o) \ {c}
      /\ \A o \in Threads : o # th => c \notin Made(txn, o)
      /\ \A o \in Threads : c \notin Srv(txn, Pendings, o)
  <2>1. ASSUME NEW o \in Threads, NEW d \in Calls
        PROVE  /\ d \in Srv(txn', Pendings', o) <=> d \in Srv(txn, Pendings, o)
               /\ d \in Made(txn', o) <=> d \in Made(txn, o) /\ d # c
    <3>1. CASE d = c BY <1>5, <1>6, <3>1, NoneIsNobody DEF Srv, Made
    <3>2. CASE d # c
      <4>1. d \in Pendings' <=> d \in Pendings BY <3>2
      <4> QED BY <1>5, <3>2, <4>1 DEF Srv, Made, LiveIn
    <3> QED BY <3>1, <3>2
  <2>2. \A o \in Threads : /\ Srv(txn', Pendings', o) \subseteq Calls
                           /\ Srv(txn, Pendings, o) \subseteq Calls
                           /\ Made(txn', o) \subseteq Calls
                           /\ Made(txn, o) \subseteq Calls
    BY DEF Srv, Made, LiveIn
  <2>3. \A o \in Threads : (o # th => c \notin Made(txn, o)) /\ c \notin Srv(txn, Pendings, o)
    BY DEF Made, Srv
  <2> QED BY <2>1, <2>2, <2>3
<1>9. /\ On(txn', Pendings', th) = On(txn, Pendings, th) \ {c}
      /\ \A o \in Threads : o # th => On(txn', Pendings', o) = On(txn, Pendings, o)
      /\ \A o \in Threads : o # th => c \notin On(txn, Pendings, o)
  <2> QED BY <1>3, <1>8 DEF On
<1>10. /\ \A o \in Threads : o # th => SideKept(o, On(txn, Pendings, o))
       /\ SideKept(th, On(txn', Pendings', th))
  BY <1>5, <1>9, OnCalls DEF SideKept
<1>11. StackOf(th)' = Tail(StackOf(th)) BY <1>3, <1>9, <1>10, StackPopped
<1>12. \A o \in Threads : o # th => StackOf(o)' = StackOf(o) BY <1>9, <1>10, StackKept
<1>13. StackNow' = [StackNow EXCEPT ![th] = Tail(@)]
  <2>1. StackNow[th] = StackOf(th) BY <1>3 DEF StackNow
  <2> QED BY <1>3, <1>11, <1>12, <2>1, StackSet
<1>14. Stacks!Waits(th) /\ StackOf(th)[1].call = c
  BY <1>2, <1>3, <1>4, StackTop, TableTyped
<1>15. Stacks!Closable(c) BY HeldClosable
<1>16. \A d \in Calls : d # c => PhaseOf(d)' = PhaseOf(d) BY <1>5, PhaseKept
<1>17. \/ /\ PhaseNow' = [PhaseNow EXCEPT ![c] = "over"]
          /\ ParentNow' = [ParentNow EXCEPT ![c] = None]
       \/ PhaseNow' = PhaseNow /\ ParentNow' = ParentNow
  <2>1. CASE Rewritten(txn, c, Freed, txn')
    <3>1. txn'[c].state = "freed" /\ txn'[c].fromParent = None
      BY <2>1 DEF Rewritten, Freed
    <3>2. PhaseNow' = [PhaseNow EXCEPT ![c] = "over"]
      <4>1. PhaseOf(c)' = "over" BY <1>1, <1>2, <3>1, PhaseNext
      <4> QED BY <1>2, <1>16, <4>1, PhaseSet
    <3>3. ParentNow' = [ParentNow EXCEPT ![c] = None] BY <1>2, <1>5, <3>1, ParentSet
    <3> QED BY <3>2, <3>3
  <2>2. CASE Rewritten(txn, c, [txn[c] EXCEPT !.from = None], txn')
    <3>1. txn'[c].state = "live" /\ txn'[c].fromParent = txn[c].fromParent
      <4>1. txn[c] \in Transaction BY <1>1, <1>2, FieldTypes
      <4> QED BY <1>2, <2>2, <4>1 DEF Rewritten, Transaction
    <3>2. PhaseOf(c)' = PhaseOf(c) BY <1>2, <3>1, PhaseKept
    <3>3. PhaseNow' = PhaseNow BY <1>16, <3>2 DEF PhaseNow
    <3>4. ParentNow' = ParentNow BY <1>5, <3>1 DEF ParentNow
    <3> QED BY <3>3, <3>4
  <2> QED BY <2>1, <2>2
<1>18. Stacks!Answer(th)
  <2>1. StackNow[th] = StackOf(th) BY <1>3 DEF StackNow
  <2> DEFINE d == StackNow[th][1].call
  <2>2. Stacks!Closable(d) BY <1>14, <1>15, <2>1
  <2>3. d = c BY <1>14, <2>1
  <2> HIDE DEF d
  <2>4. Stacks!Close(d) \/ (PhaseNow' = PhaseNow /\ ParentNow' = ParentNow)
    BY <1>17, <2>3 DEF Stacks!Close, PhaseNow, ParentNow
  <2>5. Stacks!Waits(th) BY <1>14
  <2> QED BY <1>13, <2>2, <2>4, <2>5 DEF Stacks!Answer, StackNow, PhaseNow, ParentNow, d
<1> QED BY <1>3, <1>18 DEF Stacks!Next

\* A call whose caller has gone on is freed, and may leave its failure to the
\* one it was made on behalf of.
LEMMA OverStep ==
    ASSUME Sound, Sound', NEW c \in Pendings, c \notin Sendings, txn[c].from = None,
           Rewritten(txn, c, Freed, txn'),
           NEW N \in SUBSET Calls, \A n \in N : txn[n].toThread = None,
           Pendings' = (Pendings \ {c}) \union N, Sendings' = Sendings
    PROVE  Stacks!Next
<1>1. Types /\ Types' /\ Core(txn, Tops, Gone, Pendings, Answered) BY DEF Sound
<1>2. c \in Calls /\ c \in LiveIn(txn) /\ txn[c].state = "live" BY PendingLive
<1>3. /\ txn'[c].state = "freed" /\ txn'[c].from = None /\ txn'[c].fromParent = None
      /\ \A d \in Calls : d # c => txn'[d] = txn[d]
  BY DEF Rewritten, Freed
<1>4. \A o \in Threads : /\ On(txn', Pendings', o) = On(txn, Pendings, o)
                         /\ c \notin On(txn, Pendings, o)
  <2> SUFFICES ASSUME NEW o \in Threads, NEW d \in Calls
               PROVE  /\ d \in On(txn', Pendings', o) <=> d \in On(txn, Pendings, o)
                      /\ c \notin On(txn, Pendings, o)
    BY OnCalls
  <2>1. c \notin On(txn, Pendings, o) BY NoneIsNobody DEF On, Made, Srv
  <2>2. c \notin On(txn', Pendings', o) BY <1>3, NoneIsNobody DEF On, Made, Srv, LiveIn
  <2>3. ASSUME d # c PROVE d \in On(txn', Pendings', o) <=> d \in On(txn, Pendings, o)
    <3>1. txn'[d] = txn[d] BY <1>3, <2>3
    <3>2. d \in N => txn[d].toThread # o BY NoneIsNobody
    <3>3. d \in Pendings' <=> d \in Pendings \/ d \in N BY <2>3
    <3> QED BY <3>1, <3>2, <3>3 DEF On, Made, Srv, LiveIn
  <2> QED BY <2>1, <2>2, <2>3
<1>5. StackNow' = StackNow
  <2>1. \A o \in Threads : SideKept(o, On(txn, Pendings, o))
    BY <1>3, <1>4, OnCalls DEF SideKept
  <2>2. \A o \in Threads : StackOf(o)' = StackOf(o) BY <1>4, <2>1, StackKept
  <2> QED BY <2>2, AllKept
<1>6. PhaseNow' = [PhaseNow EXCEPT ![c] = "over"]
  <2>1. PhaseOf(c)' = "over" BY <1>1, <1>2, <1>3, PhaseNext
  <2>2. \A d \in Calls : d # c => PhaseOf(d)' = PhaseOf(d) BY <1>3, PhaseKept
  <2> QED BY <1>2, <2>1, <2>2, PhaseSet
<1>7. ParentNow' = [ParentNow EXCEPT ![c] = None] BY <1>2, <1>3, ParentSet
<1>8. Stacks!Closable(c) BY HeldClosable
<1>9. ~Stacks!OnStack(Stacks!Made(c)) BY <1>2, OnStackIs
<1>10. PhaseNow[c] = "taken" BY <1>1, <1>2, PhaseIs DEF PhaseNow
<1>11. Stacks!Over(c)
  BY <1>5, <1>6, <1>7, <1>8, <1>9, <1>10
  DEF Stacks!Over, Stacks!Close, StackNow, PhaseNow, ParentNow
<1> QED BY <1>2, <1>11 DEF Stacks!Next

\* The stack of a thread is cut loose.
LEMMA ExitStep ==
    ASSUME Sound, Sound', NEW th \in Threads, Gone' = Gone \union {th},
           CutFrom(txn, Pendings, th, txn'),
           Pendings' = Pendings \union ServedTopOf(txn, Tops, th), Sendings' = Sendings
    PROVE  Stacks!Next \/ UNCHANGED Stacks!vars
<1>1. /\ Types /\ Types' /\ Core(txn, Tops, Gone, Pendings, Answered)
      /\ Core(txn', Tops', Gone', Pendings', Answered')
      /\ Foreign(txn) /\ txn \in Transactions
  BY DEF Sound, Core, Types
<1>2. \A c \in Calls :
        /\ txn'[c].state = txn[c].state /\ txn'[c].fromParent = txn[c].fromParent
        /\ c \notin On(txn, Pendings, th) => txn'[c] = txn[c]
        /\ c \in On(txn, Pendings, th) =>
             /\ txn[c].toThread = th => txn'[c].from = txn[c].from
                                        /\ txn'[c].toThread = None
             /\ txn[c].toThread # th => txn'[c].toThread = txn[c].toThread
                                        /\ txn'[c].from = None
  <2> SUFFICES ASSUME NEW c \in Calls
      PROVE
        /\ txn'[c].state = txn[c].state /\ txn'[c].fromParent = txn[c].fromParent
        /\ c \notin On(txn, Pendings, th) => txn'[c] = txn[c]
        /\ c \in On(txn, Pendings, th) =>
             /\ txn[c].toThread = th => txn'[c].from = txn[c].from
                                        /\ txn'[c].toThread = None
             /\ txn[c].toThread # th => txn'[c].toThread = txn[c].toThread
                                        /\ txn'[c].from = None
    OBVIOUS
  <2>1. txn[c] \in Transaction BY <1>1, FieldTypes
  <2> QED BY <2>1 DEF CutFrom, Transaction
<1>3. StackOf(th)' = <<>>
  <2>1. On(txn', Pendings', th) = {} BY <1>1 DEF Core, Absent
  <2> QED BY <2>1, StackEmptied
<1>4. ASSUME NEW o \in Threads, o # th PROVE StackOf(o)' = StackOf(o)
  <2>1. \A d \in ServedTopOf(txn, Tops, th) : txn[d].toThread = th BY DEF ServedTopOf
  <2>2. LiveIn(txn') = LiveIn(txn) BY <1>2 DEF LiveIn
  <2>3. ASSUME NEW d \in Calls
        PROVE  /\ d \in On(txn', Pendings', o) <=> d \in On(txn, Pendings, o)
               /\ txn'[d].toThread = o <=> txn[d].toThread = o
    <3>1. d \in Pendings' <=> d \in Pendings \/ d \in ServedTopOf(txn, Tops, th) OBVIOUS
    <3>2. txn'[d].toThread = o <=> txn[d].toThread = o BY <1>2, <1>4, NoneIsNobody
    <3>3. txn'[d].from = o <=> txn[d].from = o
      <4>1. CASE d \notin On(txn, Pendings, th) BY <1>2, <4>1
      <4>2. CASE d \in On(txn, Pendings, th) /\ txn[d].toThread = th BY <1>2, <4>2
      <4>3. CASE d \in On(txn, Pendings, th) /\ txn[d].toThread # th
        <5>1. txn[d].from = th BY <4>3 DEF On, Made, Srv
        <5> QED BY <1>2, <1>4, <4>3, <5>1, NoneIsNobody
      <4> QED BY <4>1, <4>2, <4>3
    <3>4. d \in Srv(txn', Pendings', o) <=> d \in Srv(txn, Pendings, o)
      BY <1>4, <2>1, <2>2, <3>1, <3>2 DEF Srv
    <3> QED BY <3>2, <3>3, <3>4 DEF On, Made
  <2>4. On(txn', Pendings', o) = On(txn, Pendings, o) BY <2>3, OnCalls
  <2>5. SideKept(o, On(txn, Pendings, o)) BY <2>3, OnCalls DEF SideKept
  <2> QED BY <2>4, <2>5, StackKept
<1>5. PhaseNow' = PhaseNow
  <2>1. \A d \in Calls : PhaseOf(d)' = PhaseOf(d) BY <1>2, PhaseKept
  <2> QED BY <2>1 DEF PhaseNow
<1>6. ParentNow' = ParentNow BY <1>2 DEF ParentNow
<1>7. CASE StackOf(th) = <<>>
  <2>1. StackNow' = StackNow
    <3>1. \A o \in Threads : StackOf(o)' = StackOf(o) BY <1>3, <1>4, <1>7
    <3> QED BY <3>1, AllKept
  <2> QED BY <1>5, <1>6, <2>1 DEF Stacks!vars, StackNow, PhaseNow, ParentNow
<1>8. CASE StackOf(th) # <<>>
  <2>1. StackNow' = [StackNow EXCEPT ![th] = <<>>] BY <1>3, <1>4, StackSet
  <2>2. Stacks!Exit(th)
    BY <1>5, <1>6, <1>8, <2>1 DEF Stacks!Exit, StackNow, PhaseNow, ParentNow
  <2> QED BY <2>2 DEF Stacks!Next
<1> QED BY <1>7, <1>8

-----------------------------------------------------------------------------
(* Calls that change hands. *)

LEMMA SendHolds ==
    Sound => HoldTypes(SendHands, Lists) /\ Apart(SendHands, Lists)
<1> SUFFICES ASSUME Sound PROVE HoldTypes(SendHands, Lists) /\ Apart(SendHands, Lists)
  OBVIOUS
<1>1. /\ HoldTypes(Hands, Lists) /\ Apart(Hands, Lists)
      /\ \A a \in Agents : at[a] \in Place
  BY StateTypes DEF Sound
<1>2. \A a \in Agents : SendHands[a] = None \/ SendHands[a] = Hands[a]
  BY DEF SendHands, SendAt, Hands, HandAt
<1>3. SendHands \in [Agents -> Calls \union {None}]
  <2>1. \A a \in Agents : SendAt(at[a]) \in Calls \union {None}
    BY <1>1 DEF SendAt, Place
  <2> QED BY <2>1 DEF SendHands
<1> QED BY <1>1, <1>2, <1>3 DEF HoldTypes, Apart

LEMMA SendHoldsNext == Sound' => HoldTypes(SendHands, Lists)'
BY SendHolds, PTL

LEMMA HoldsNext == Sound' => HoldTypes(Hands, Lists)'
<1>1. Sound => HoldTypes(Hands, Lists) BY StateTypes DEF Sound
<1> QED BY <1>1, PTL

LEMMA SendHandsMove ==
    ASSUME NEW a \in Agents, Moves(a)
    PROVE  /\ SendHands'[a] = SendAt(at'[a])
           /\ \A b \in Agents : b # a => SendHands'[b] = SendHands[b]
BY DEF Moves, SendHands

\* a goes on with what it has, or with what nobody has.
LEMMA HandMoves ==
    ASSUME Sound, Sound', NEW a \in Agents, Moves(a), Lists' = Lists,
           NEW v, v = HandAt(at'[a]), v = Hands[a] \/ v \notin Pendings
    PROVE  /\ Pendings' = (Pendings \ {Hands[a]}) \union ({v} \cap Calls)
           /\ Sendings' = (Sendings \ {SendAt(at[a])}) \union ({SendAt(at'[a])} \cap Calls)
<1> DEFINE x == SendAt(at[a])
           y == SendAt(at'[a])
<1>1. /\ HoldTypes(Hands, Lists) /\ Apart(Hands, Lists)
      /\ HoldTypes(Hands', Lists') /\ HoldTypes(SendHands', Lists')
      /\ HoldTypes(SendHands, Lists) /\ Apart(SendHands, Lists)
  BY SendHolds, SendHoldsNext, HoldsNext, StateTypes DEF Sound
<1>2. /\ Hands'[a] = v /\ \A b \in Agents : b # a => Hands'[b] = Hands[b]
      /\ SendHands'[a] = y /\ \A b \in Agents : b # a => SendHands'[b] = SendHands[b]
  BY HandsMove, SendHandsMove
<1>3. v \in Calls \union {None} /\ y \in Calls \union {None} BY <1>1, <1>2 DEF HoldTypes
<1>4. Pendings' = (Pendings \ {Hands[a]}) \union ({v} \cap Calls)
  BY <1>1, <1>2, <1>3, HandTurns DEF Pendings
<1>5. SendHands[a] = x BY DEF SendHands
<1>6. y = x \/ y \notin Sendings
  <2> SUFFICES ASSUME y # None, y # x, y \in Sendings PROVE FALSE
    BY NoneIsNoCall DEF Sendings, HeldIn
  <2>1. y = v BY DEF SendAt, HandAt
  <2>2. y = Hands[a] BY <2>1, SendingsPend
  <2>3. PICK b \in Agents : SendHands[b] = y \/ y \in Lists[b] BY DEF Sendings, HeldIn
  <2>4. SendHands[b] = y => Hands[b] = y BY DEF SendHands, SendAt, Hands, HandAt
  <2>5. b = a /\ SendHands[a] = y BY <1>1, <2>2, <2>3, <2>4 DEF Apart
  <2> QED BY <1>5, <2>5
<1> HIDE DEF x, y
<1>7. Sendings' = (Sendings \ {x}) \union ({y} \cap Calls)
  BY <1>1, <1>2, <1>3, <1>5, <1>6, HandTurns DEF Sendings
<1> QED BY <1>4, <1>7 DEF x, y

\* a takes a call off the list of r, to deliver it or not.
LEMMA ListToHand ==
    ASSUME Sound, Sound', NEW a \in Agents, Moves(a), NEW r \in Agents,
           NEW c \in Lists[r], Hands[a] = None, HandAt(at'[a]) = c,
           Lists'[r] = Lists[r] \ {c}, \A b \in Agents : b # r => Lists'[b] = Lists[b]
    PROVE  /\ c \in Sendings /\ Pendings' = Pendings
           /\ SendAt(at'[a]) = c => Sendings' = Sendings
           /\ SendAt(at'[a]) = None => Sendings' = Sendings \ {c}
<1>1. /\ HoldTypes(Hands, Lists) /\ Apart(Hands, Lists)
      /\ HoldTypes(Hands', Lists') /\ HoldTypes(SendHands', Lists')
      /\ HoldTypes(SendHands, Lists) /\ Apart(SendHands, Lists)
  BY SendHolds, SendHoldsNext, HoldsNext, StateTypes DEF Sound
<1>2. /\ Hands'[a] = c /\ \A b \in Agents : b # a => Hands'[b] = Hands[b]
      /\ SendHands'[a] = SendAt(at'[a])
      /\ \A b \in Agents : b # a => SendHands'[b] = SendHands[b]
  BY HandsMove, SendHandsMove
<1>3. SendHands[a] = None BY DEF SendHands, SendAt, Hands, HandAt
<1>4. c \in Calls /\ c # None BY <1>1, NoneIsNoCall DEF HoldTypes
<1>5. c \in Sendings BY <1>4 DEF Sendings, HeldIn
<1>6. Pendings' = Pendings BY <1>1, <1>2, HandTakes DEF Pendings
<1>7. ASSUME SendAt(at'[a]) = c PROVE Sendings' = Sendings
  <2>1. SendHands'[a] = c BY <1>2, <1>7
  <2> QED BY <1>1, <1>2, <1>3, <2>1, HandTakes DEF Sendings
<1>8. ASSUME SendAt(at'[a]) = None PROVE Sendings' = Sendings \ {c}
  <2>1. \A b \in Agents : SendHands'[b] = SendHands[b] BY <1>2, <1>3, <1>8
  <2>2. \A b \in Agents : SendHands[b] # c BY <1>1, <1>4 DEF Apart
  <2>3. \A b \in Agents : b # r => c \notin Lists[b] BY <1>1 DEF Apart
  <2>4. \A d \in Calls : (\E b \in Agents : SendHands'[b] = d \/ d \in Lists'[b])
                <=> (\E b \in Agents : SendHands[b] = d \/ d \in Lists[b]) /\ d # c
    BY <2>1, <2>2, <2>3
  <2> QED BY <2>4 DEF Sendings, HeldIn
<1> QED BY <1>5, <1>6, <1>7, <1>8

\* a puts the call it sends on the list of r.
LEMMA HandToList ==
    ASSUME Sound, Sound', NEW a \in Agents, Moves(a), NEW r \in Agents,
           NEW c \in Calls, Hands[a] = c, SendAt(at[a]) = c, HandAt(at'[a]) = None,
           Lists'[r] = Lists[r] \union {c},
           \A b \in Agents : b # r => Lists'[b] = Lists[b]
    PROVE  Pendings' = Pendings /\ Sendings' = Sendings
<1>1. /\ HoldTypes(Hands, Lists) /\ Apart(Hands, Lists)
      /\ HoldTypes(Hands', Lists') /\ HoldTypes(SendHands', Lists')
      /\ HoldTypes(SendHands, Lists) /\ Apart(SendHands, Lists)
  BY SendHolds, SendHoldsNext, HoldsNext, StateTypes DEF Sound
<1>2. /\ Hands'[a] = None /\ \A b \in Agents : b # a => Hands'[b] = Hands[b]
      /\ SendHands'[a] = SendAt(at'[a]) /\ SendHands[a] = c
      /\ \A b \in Agents : b # a => SendHands'[b] = SendHands[b]
  BY HandsMove, SendHandsMove DEF SendHands
<1>3. SendHands'[a] = None BY <1>2 DEF SendAt, HandAt
<1>4. Pendings' = Pendings BY <1>1, <1>2, HandPuts DEF Pendings
<1>5. Sendings' = Sendings BY <1>1, <1>2, <1>3, HandPuts DEF Sendings
<1> QED BY <1>4, <1>5

\* Somebody goes on with the call in hand, if any.
LEMMA QuietMove ==
    ASSUME Sound, Sound', NEW a \in Agents, txn' = txn, Alike(thr, thr'),
           AlikeProcs(prc, prc'), Moves(a), HandAt(at'[a]) = HandAt(at[a]),
           SendAt(at'[a]) = SendAt(at[a])
    PROVE  UNCHANGED Stacks!vars
<1>1. Lists' = Lists BY AlikeLists DEF Sound
<1>2. \A b \in Agents : HandAt(at'[b]) = HandAt(at[b]) /\ SendAt(at'[b]) = SendAt(at[b])
  BY DEF Moves
<1>3. Hands' = Hands /\ SendHands' = SendHands BY <1>2 DEF Hands, SendHands
<1>4. Pendings' = Pendings /\ Sendings' = Sendings
  BY <1>1, <1>3 DEF Pendings, Sendings
<1> QED BY <1>4, QuietStacks

-----------------------------------------------------------------------------
(* The steps of the driver nobody can see. *)

LEMMA AtHere ==
    ASSUME Sound, NEW a \in Agents
    PROVE  /\ Types /\ Tidied /\ at[a] \in Place /\ Shaped(Gone, a, at[a])
           /\ Alike(thr, thr) /\ AlikeProcs(prc, prc)
BY Known, AlikeHere

\* a goes on, at another place, with the same call or with none.
LEMMA GoesOn ==
    ASSUME Sound, Sound', NEW a \in Agents, NEW pl \in Place, txn' = txn,
           at' = [at EXCEPT ![a] = pl], HandAt(pl) = HandAt(at[a]),
           SendAt(pl) = SendAt(at[a]), Alike(thr, thr'), AlikeProcs(prc, prc')
    PROVE  UNCHANGED Stacks!vars
<1>1. Types BY DEF Sound
<1>2. Moves(a) /\ at'[a] = pl BY <1>1, MovesTo
<1> QED BY <1>2, QuietMove

LEMMA BeginCallQuiet ==
    ASSUME Blocking, Sound, Sound', NEW th \in Threads, NEW p \in Procs, BeginCall(th, p)
    PROVE  UNCHANGED Stacks!vars
<1>1. /\ Types /\ th \in Agents /\ Alike(thr, thr) /\ AlikeProcs(prc, prc)
  BY AtHere, OneOfAgents
<1>2. at[th].pc = "user" /\ at[th].cur = None BY WriterKnows DEF BeginCall
<1>3. CASE prc[p].node
  <2> DEFINE pl == [Idle("refs") EXCEPT !.proc = p]
  <2>1. pl \in Place /\ pl.pc = "refs" /\ pl.cur = None BY DEF Idle, Place
  <2>2. /\ prc' = [prc EXCEPT ![p].ref = @ + 1] /\ at' = [at EXCEPT ![th] = pl]
        /\ thr' = thr /\ txn' = txn
    BY <1>3 DEF BeginCall
  <2> HIDE DEF pl
  <2>3. AlikeProcs(prc, prc') BY <1>1, <2>2, AlikeProcRef
  <2>4. HandAt(pl) = HandAt(at[th]) /\ SendAt(pl) = SendAt(at[th])
    BY <1>2, <2>1 DEF HandAt, SendAt
  <2> QED BY <1>1, <2>1, <2>2, <2>3, <2>4, GoesOn
<1>4. CASE ~prc[p].node
  <2>1. thr' = Report(thr, th) /\ prc' = prc /\ at' = at /\ txn' = txn
    BY <1>4 DEF BeginCall
  <2>2. Alike(thr, thr') BY <1>1, <2>1, AlikeReport
  <2>3. Moves(th) BY <1>1, <2>1, StaysPut
  <2> QED BY <1>1, <2>1, <2>2, <2>3, QuietMove
<1> QED BY <1>3, <1>4

LEMMA FindTargetQuiet ==
    ASSUME Sound, Sound', NEW th \in Threads, FindTarget(th)
    PROVE  UNCHANGED Stacks!vars
<1> DEFINE caller == WaitingCaller(th, at[th].proc)
<1>1. /\ Types /\ th \in Agents /\ Alike(thr, thr) /\ AlikeProcs(prc, prc)
      /\ at[th] \in Place /\ Shaped(Gone, th, at[th]) /\ Writes(txn, Tops, Gone, th, at[th])
  BY AtHere, Known, OneOfAgents
<1>2. at[th].pc = "refs" /\ prc' = prc /\ txn' = txn BY DEF FindTarget
<1>3. /\ th \notin Gone
      /\ Tops[th] = None \/ txn[Tops[th]].toThread = th
      /\ at[th].proc \in Procs /\ at[th].proc # Owner[th]
  BY <1>1, <1>2 DEF Shaped, WithCall, Calling, Sending, Writes, Place
<1>4. Tops[th] = thr[th].stack BY <1>1, <1>3, TopThere
<1>5. thr[th].stack = None \/ Serving(th) BY <1>3, <1>4 DEF Serving
<1>6. ASSUME NEW pl \in Place, pl.pc = "target", pl.cur = at[th].cur,
             at' = [at EXCEPT ![th] = pl], Alike(thr, thr')
      PROVE  UNCHANGED Stacks!vars
  <2>1. HandAt(pl) = HandAt(at[th]) /\ SendAt(pl) = SendAt(at[th])
    BY <1>2, <1>6 DEF HandAt, SendAt
  <2> QED BY <1>1, <1>2, <1>6, <2>1, GoesOn
<1>7. CASE caller = None
  <2> DEFINE pl == [at[th] EXCEPT !.pc = "target"]
  <2>1. pl \in Place /\ pl.pc = "target" /\ pl.cur = at[th].cur BY <1>1 DEF Place
  <2>2. at' = [at EXCEPT ![th] = pl] /\ thr' = thr BY <1>5, <1>7 DEF FindTarget
  <2> HIDE DEF pl
  <2> QED BY <1>1, <1>6, <2>1, <2>2
<1>8. CASE caller # None
  <2>1. caller \in Threads
    <3>1. Core(txn, Tops, Gone, Pendings, Answered) BY DEF Sound
    <3> QED BY <1>3, <1>4, <1>8, <3>1, CallerWaits
  <2> DEFINE pl == [at[th] EXCEPT !.pc = "target", !.tgt = caller]
  <2> HIDE DEF caller
  <2>2. pl \in Place /\ pl.pc = "target" /\ pl.cur = at[th].cur BY <1>1, <2>1 DEF Place
  <2>3. at' = [at EXCEPT ![th] = pl] /\ thr' = [thr EXCEPT ![caller].ref = @ + 1]
    BY <1>5, <1>8 DEF FindTarget, caller
  <2> HIDE DEF pl
  <2>4. Alike(thr, thr') BY <1>1, <2>1, <2>3, AlikeRef
  <2> QED BY <1>6, <2>2, <2>3, <2>4
<1> QED BY <1>7, <1>8

LEMMA CallFailsQuiet ==
    ASSUME Sound, Sound', NEW th \in Threads, CallFails(th) PROVE UNCHANGED Stacks!vars
<1> DEFINE pl == [at[th] EXCEPT !.pc = "err"]
<1>1. /\ th \in Agents /\ at[th] \in Place /\ Alike(thr, thr) /\ AlikeProcs(prc, prc)
  BY AtHere, OneOfAgents
<1>2. /\ at[th].pc = "target" /\ prc' = prc /\ txn' = txn /\ thr' = thr
      /\ at' = [at EXCEPT ![th] = pl]
  BY DEF CallFails
<1>3. pl \in Place /\ pl.pc = "err" /\ pl.cur = at[th].cur BY <1>1 DEF Place
<1> HIDE DEF pl
<1>4. HandAt(pl) = HandAt(at[th]) /\ SendAt(pl) = SendAt(at[th])
  BY <1>2, <1>3 DEF HandAt, SendAt
<1> QED BY <1>1, <1>2, <1>3, <1>4, GoesOn

LEMMA EndCallQuiet ==
    ASSUME Sound, Sound', NEW th \in Threads, EndCall(th) PROVE UNCHANGED Stacks!vars
<1> DEFINE to == at[th].tgt
           T == IF to = None THEN thr ELSE Unref(thr, to)
           P == IF to = None THEN prc ELSE AfterUnref(prc, to)
           pl == Idle("user")
<1>1. /\ th \in Agents /\ at[th] \in Place /\ Shaped(Gone, th, at[th])
      /\ Alike(thr, thr) /\ AlikeProcs(prc, prc)
  BY AtHere, OneOfAgents
<1>2. at[th].pc \in {"done", "err"} /\ txn' = txn /\ at' = [at EXCEPT ![th] = pl]
  BY DEF EndCall
<1>3. to \in Threads \union {None} BY <1>1 DEF Place
<1>4. Alike(thr, T) /\ AlikeProcs(prc, P)
  BY <1>1, <1>3, AlikeUnref, AlikeAfterUnref
<1>5. thr' = (IF at[th].pc = "err" THEN Report(T, th) ELSE T)
      /\ prc' = UnrefProc(P, at[th].proc)
  BY DEF EndCall
<1> HIDE DEF T, P, to
<1>6. Alike(thr, thr') /\ AlikeProcs(prc, prc')
  BY <1>4, <1>5, AlikeReport, AlikeUnrefProc
<1>7. pl \in Place /\ pl.pc = "user" /\ pl.cur = None BY DEF Idle, Place
<1> HIDE DEF pl
<1>8. HandAt(pl) = HandAt(at[th]) /\ SendAt(pl) = SendAt(at[th])
  BY <1>1, <1>2, <1>7 DEF HandAt, SendAt, Shaped, WithCall
<1> QED BY <1>1, <1>2, <1>6, <1>7, <1>8, GoesOn

LEMMA ReplyFromQuiet ==
    ASSUME Sound, Sound', NEW th \in Threads, ReplyFrom(th) PROVE UNCHANGED Stacks!vars
<1> DEFINE caller == txn[at[th].cur].from
<1>1. /\ Types /\ th \in Agents /\ at[th] \in Place /\ Alike(thr, thr)
      /\ AlikeProcs(prc, prc)
  BY AtHere, OneOfAgents
<1>2. at[th].pc = "popped" /\ prc' = prc /\ txn' = txn BY DEF ReplyFrom
<1>3. caller \in Threads \union {None}
  BY <1>1, <1>2, InHand, FieldTypes DEF Types, WithCall
<1>4. ASSUME NEW pl \in Place, pl.pc \in {"unsent", "from"}, pl.cur = at[th].cur,
             at' = [at EXCEPT ![th] = pl], Alike(thr, thr')
      PROVE  UNCHANGED Stacks!vars
  <2>1. HandAt(pl) = HandAt(at[th]) /\ SendAt(pl) = SendAt(at[th])
    BY <1>2, <1>4 DEF HandAt, SendAt
  <2> QED BY <1>1, <1>2, <1>4, <2>1, GoesOn
<1> HIDE DEF caller
<1>5. CASE caller = None
  <2> DEFINE pl == [at[th] EXCEPT !.pc = "unsent"]
  <2>1. pl \in Place /\ pl.pc = "unsent" /\ pl.cur = at[th].cur BY <1>1 DEF Place
  <2>2. at' = [at EXCEPT ![th] = pl] /\ thr' = thr BY <1>5 DEF ReplyFrom, caller
  <2> HIDE DEF pl
  <2> QED BY <1>1, <1>4, <2>1, <2>2
<1>6. CASE caller # None
  <2> DEFINE pl == [at[th] EXCEPT !.pc = "from", !.tgt = caller]
  <2>1. pl \in Place /\ pl.pc = "from" /\ pl.cur = at[th].cur BY <1>1, <1>3 DEF Place
  <2>2. at' = [at EXCEPT ![th] = pl] /\ thr' = [thr EXCEPT ![caller].ref = @ + 1]
    BY <1>6 DEF ReplyFrom, caller
  <2> HIDE DEF pl
  <2>3. Alike(thr, thr') BY <1>1, <1>3, <1>6, <2>2, AlikeRef
  <2> QED BY <1>4, <2>1, <2>2, <2>3
<1> QED BY <1>5, <1>6

LEMMA ReplyAcquireQuiet ==
    ASSUME Sound, Sound', NEW th \in Threads, ReplyAcquire(th)
    PROVE  UNCHANGED Stacks!vars
<1> DEFINE c == at[th].cur
           caller == at[th].tgt
<1>1. /\ th \in Agents /\ at[th] \in Place /\ Shaped(Gone, th, at[th])
      /\ Alike(thr, thr) /\ AlikeProcs(prc, prc)
  BY AtHere, OneOfAgents
<1>2. at[th].pc = "from" /\ txn' = txn BY DEF ReplyAcquire
<1>3. caller \in Threads /\ Owner[caller] \in Procs
  BY <1>1, <1>2, OwnerAssumption DEF Shaped, Sending, Place
<1>4. ASSUME NEW pl \in Place, pl.pc \in {"unsent", "acquired"}, pl.cur = at[th].cur,
             at' = [at EXCEPT ![th] = pl], Alike(thr, thr'), AlikeProcs(prc, prc')
      PROVE  UNCHANGED Stacks!vars
  <2>1. HandAt(pl) = HandAt(at[th]) /\ SendAt(pl) = SendAt(at[th])
    BY <1>2, <1>4 DEF HandAt, SendAt
  <2> QED BY <1>1, <1>2, <1>4, <2>1, GoesOn
<1> HIDE DEF c, caller
<1>5. CASE txn[c].from = None
  <2> DEFINE pl == [at[th] EXCEPT !.pc = "unsent", !.tgt = None]
  <2>1. pl \in Place /\ pl.pc = "unsent" /\ pl.cur = at[th].cur BY <1>1 DEF Place
  <2>2. /\ at' = [at EXCEPT ![th] = pl] /\ thr' = Unref(thr, caller)
        /\ prc' = AfterUnref(prc, caller)
    BY <1>5 DEF ReplyAcquire, c, caller
  <2> HIDE DEF pl
  <2>3. Alike(thr, thr') /\ AlikeProcs(prc, prc')
    BY <1>1, <1>3, <2>2, AlikeUnref, AlikeAfterUnref
  <2> QED BY <1>4, <2>1, <2>2, <2>3
<1>6. CASE txn[c].from # None
  <2>1. thr[caller].stack = c
    BY <1>1, <1>2, <1>6, CallerOnTop DEF c, caller
  <2> DEFINE pl == [at[th] EXCEPT !.pc = "acquired", !.proc = Owner[caller]]
  <2>2. pl \in Place /\ pl.pc = "acquired" /\ pl.cur = at[th].cur
    BY <1>1, <1>3 DEF Place
  <2>3. /\ at' = [at EXCEPT ![th] = pl] /\ thr' = thr
        /\ prc' = [prc EXCEPT ![Owner[caller]].ref = @ + 1]
    BY <1>6, <2>1 DEF ReplyAcquire, c, caller
  <2> HIDE DEF pl
  <2>4. Alike(thr, thr') /\ AlikeProcs(prc, prc') BY <1>1, <2>3, AlikeProcRef
  <2> QED BY <1>4, <2>2, <2>3, <2>4
<1> QED BY <1>5, <1>6

LEMMA BuildReplyQuiet ==
    ASSUME Sound, Sound', NEW th \in Threads, NEW pc \in {"built", "refused"},
           BuildReply(th, pc)
    PROVE  UNCHANGED Stacks!vars
<1> DEFINE pl == [at[th] EXCEPT !.pc = pc]
<1>1. /\ th \in Agents /\ at[th] \in Place /\ Alike(thr, thr) /\ AlikeProcs(prc, prc)
  BY AtHere, OneOfAgents
<1>2. /\ at[th].pc = "acquired" /\ txn' = txn /\ thr' = thr /\ prc' = prc
      /\ at' = [at EXCEPT ![th] = pl]
  BY DEF BuildReply
<1>3. pl \in Place /\ pl.pc = pc /\ pl.cur = at[th].cur BY <1>1 DEF Place
<1> HIDE DEF pl
<1>4. HandAt(pl) = HandAt(at[th]) /\ SendAt(pl) = SendAt(at[th])
  BY <1>2, <1>3 DEF HandAt, SendAt
<1> QED BY <1>1, <1>2, <1>3, <1>4, GoesOn

LEMMA ReplyFailsQuiet ==
    ASSUME Sound, Sound', NEW th \in Threads, ReplyFails(th) PROVE UNCHANGED Stacks!vars
<1> DEFINE pl == [at[th] EXCEPT !.pc = "fail"]
<1>1. /\ th \in Agents /\ at[th] \in Place /\ Alike(thr, thr) /\ AlikeProcs(prc, prc)
  BY AtHere, OneOfAgents
<1>2. /\ at[th].pc = "unsent" /\ txn' = txn /\ thr' = Report(thr, th) /\ prc' = prc
      /\ at' = [at EXCEPT ![th] = pl]
  BY DEF ReplyFails
<1>3. pl \in Place /\ pl.pc = "fail" /\ pl.cur = at[th].cur BY <1>1 DEF Place
<1> HIDE DEF pl
<1>4. HandAt(pl) = HandAt(at[th]) /\ SendAt(pl) = SendAt(at[th])
  BY <1>2, <1>3 DEF HandAt, SendAt
<1>5. Alike(thr, thr') BY <1>1, <1>2, AlikeReport
<1> QED BY <1>1, <1>2, <1>3, <1>4, <1>5, GoesOn

LEMMA ReadBeginQuiet ==
    ASSUME Sound, Sound', NEW th \in Threads, ReadBegin(th) \/ Interrupted(th)
    PROVE  UNCHANGED Stacks!vars
<1>1. /\ th \in Agents /\ at[th] \in Place /\ Shaped(Gone, th, at[th])
      /\ Alike(thr, thr) /\ AlikeProcs(prc, prc)
  BY AtHere, OneOfAgents
<1>2. PICK pc \in {"user", "wait"} : at' = [at EXCEPT ![th] = Idle(pc)]
  BY DEF ReadBegin, Interrupted
<1>3. /\ at[th].pc \in {"user", "wait"} /\ txn' = txn /\ thr' = thr /\ prc' = prc
  BY DEF ReadBegin, Interrupted
<1> DEFINE pl == Idle(pc)
<1>4. pl \in Place /\ pl.pc \in {"user", "wait"} /\ pl.cur = None BY DEF Idle, Place
<1> HIDE DEF pl
<1>5. at' = [at EXCEPT ![th] = pl] BY <1>2 DEF pl
<1>6. HandAt(pl) = HandAt(at[th]) /\ SendAt(pl) = SendAt(at[th])
  BY <1>1, <1>3, <1>4 DEF HandAt, SendAt, Shaped, WithCall
<1> QED BY <1>1, <1>3, <1>4, <1>5, <1>6, GoesOn

LEMMA ThreadReleasedQuiet ==
    ASSUME Sound, Sound', NEW th \in Threads, ThreadReleased(th)
    PROVE  UNCHANGED Stacks!vars
<1> DEFINE pl == Idle("gone")
<1>1. /\ th \in Agents /\ at[th] \in Place /\ Shaped(Gone, th, at[th])
      /\ Alike(thr, thr) /\ AlikeProcs(prc, prc)
  BY AtHere, OneOfAgents
<1>2. /\ at[th].pc = "work" /\ txn' = txn /\ thr' = Unref(thr, th)
      /\ prc' = AfterUnref(prc, th) /\ at' = [at EXCEPT ![th] = pl]
  BY DEF ThreadReleased
<1>3. pl \in Place /\ pl.pc = "gone" /\ pl.cur = None BY DEF Idle, Place
<1> HIDE DEF pl
<1>4. HandAt(pl) = HandAt(at[th]) /\ SendAt(pl) = SendAt(at[th])
  BY <1>1, <1>2, <1>3 DEF HandAt, SendAt, Shaped, WithCall
<1>5. Alike(thr, thr') /\ AlikeProcs(prc, prc')
  BY <1>1, <1>2, AlikeUnref, AlikeAfterUnref
<1> QED BY <1>1, <1>2, <1>3, <1>4, <1>5, GoesOn

\* The process stops being able to begin anything.
LEMMA ReleaseProcQuiet ==
    ASSUME Sound, Sound', NEW p \in Procs, ReleaseProc(p) PROVE UNCHANGED Stacks!vars
<1>1. Types /\ at \in Places /\ prc \in LooseProcesses BY DEF Sound, Types
<1>2. /\ at[p].pc = "off" /\ thr' = thr /\ txn' = txn
      /\ prc' = [prc EXCEPT ![p].dead = TRUE, ![p].ref = @ + 1]
      /\ at' = [a \in DOMAIN at |->
           CASE a = p -> Idle("threads")
             [] a \in Threads /\ Owner[a] = p /\ at[a].pc = "wait" -> Idle("user")
             [] OTHER -> at[a]]
  BY DEF ReleaseProc
<1>3. \A b \in Agents : \/ b = p /\ at'[b] = Idle("threads")
                        \/ b \in Threads /\ at[b].pc = "wait" /\ at'[b] = Idle("user")
                        \/ b # p /\ at'[b] = at[b]
  BY <1>1, <1>2 DEF Places
<1>4. Lists' = Lists
  <2>1. \A q \in Procs : prc'[q].todo = prc[q].todo
    BY <1>1, <1>2 DEF LooseProcesses, LooseProcess
  <2>2. \A b \in Agents : b \notin Threads => prc'[b].todo = prc[b].todo
    BY <2>1 DEF Agents
  <2>3. \A b \in Agents :
          (IF b \in Threads THEN Names(thr'[b].todo) ELSE Range(prc'[b].todo))
            = (IF b \in Threads THEN Names(thr[b].todo) ELSE Range(prc[b].todo))
    <3>1. thr' = thr BY <1>2
    <3> QED BY <2>2, <3>1
  <2> QED BY <2>3 DEF Lists
<1>5. \A b \in Agents : HandAt(at'[b]) = HandAt(at[b]) /\ SendAt(at'[b]) = SendAt(at[b])
  <2>1. at[p].cur = None BY <1>2, ProcessKnows
  <2>2. \A b \in Threads : at[b].pc = "wait" => at[b].cur = None
    <3> SUFFICES ASSUME NEW b \in Threads, at[b].pc = "wait" PROVE at[b].cur = None
      OBVIOUS
    <3>1. Shaped(Gone, b, at[b]) BY Known, OneOfAgents
    <3> QED BY <3>1 DEF Shaped, WithCall
  <2>3. \A b \in Agents : \/ at'[b] = at[b]
                          \/ /\ at'[b].cur = None /\ at[b].cur = None
                             /\ at[b].pc # "queue" /\ at[b].pc # "deliver"
    BY <1>2, <1>3, <2>1, <2>2, IdleIs
  <2> QED BY <2>3 DEF HandAt, SendAt
<1>6. Hands' = Hands /\ SendHands' = SendHands BY <1>5 DEF Hands, SendHands
<1>7. Pendings' = Pendings /\ Sendings' = Sendings
  BY <1>4, <1>6 DEF Pendings, Sendings
<1> QED BY <1>2, <1>7, QuietStacks

LEMMA ReleaseNodeQuiet ==
    ASSUME Sound, Sound', NEW p \in Procs, ReleaseNode(p) PROVE UNCHANGED Stacks!vars
<1> DEFINE pl == Idle("todo")
<1>1. /\ Types' /\ p \in Agents /\ at[p] \in Place /\ prc \in LooseProcesses
      /\ Alike(thr, thr) /\ AlikeProcs(prc, prc)
  BY AtHere, OneOfAgents DEF Sound, Types
<1>2. /\ at[p].pc = "threads" /\ txn' = txn /\ thr' = thr
      /\ prc' = [prc EXCEPT ![p].node = FALSE] /\ at' = [at EXCEPT ![p] = pl]
  BY DEF ReleaseNode
<1>3. pl \in Place /\ pl.pc = "todo" /\ pl.cur = None BY DEF Idle, Place
<1> HIDE DEF pl
<1>4. HandAt(pl) = HandAt(at[p]) /\ SendAt(pl) = SendAt(at[p])
  BY <1>2, <1>3, ProcessKnows DEF HandAt, SendAt
<1>5. AlikeProcs(prc, prc')
  <2>1. \A q \in Procs : prc'[q].todo = prc[q].todo
    BY <1>1, <1>2 DEF LooseProcesses, LooseProcess
  <2> QED BY <1>1, <2>1 DEF AlikeProcs, Types
<1>6. Alike(thr, thr') BY <1>1, <1>2
<1> QED BY <1>1, <1>2, <1>3, <1>4, <1>5, <1>6, GoesOn

LEMMA ProcReleasedQuiet ==
    ASSUME Sound, Sound', NEW p \in Procs, ProcReleased(p) PROVE UNCHANGED Stacks!vars
<1> DEFINE pl == Idle("gone")
<1>1. /\ p \in Agents /\ at[p] \in Place /\ Alike(thr, thr) /\ AlikeProcs(prc, prc)
  BY AtHere, OneOfAgents
<1>2. /\ at[p].pc = "todo" /\ txn' = txn /\ thr' = thr
      /\ prc' = UnrefProc(prc, p) /\ at' = [at EXCEPT ![p] = pl]
  BY DEF ProcReleased
<1>3. pl \in Place /\ pl.pc = "gone" /\ pl.cur = None BY DEF Idle, Place
<1> HIDE DEF pl
<1>4. HandAt(pl) = HandAt(at[p]) /\ SendAt(pl) = SendAt(at[p])
  BY <1>2, <1>3, ProcessKnows DEF HandAt, SendAt
<1>5. Alike(thr, thr') /\ AlikeProcs(prc, prc') BY <1>1, <1>2, AlikeUnrefProc
<1> QED BY <1>1, <1>2, <1>3, <1>4, <1>5, GoesOn

-----------------------------------------------------------------------------
(* The steps of the driver that are steps of the stacks. *)

LEMMA NoneNowhere == None \notin Calls /\ None \notin Pendings /\ None \notin Sendings
BY NoneIsNoCall DEF Pendings, Sendings, HeldIn

\* Nobody sends or delivers a call that somebody else works on.
LEMMA HeldNotSent ==
    ASSUME Sound, NEW a \in Agents, at[a].pc \in WithCall \ {"done", "queue", "deliver"}
    PROVE  at[a].cur \in Pendings /\ at[a].cur \notin Sendings
<1>1. /\ at[a].cur \in Calls /\ Hands[a] = at[a].cur /\ at[a].cur \in Pendings
      /\ \A b \in Agents : at[a].cur \notin Lists[b]
  BY InHand
<1>2. Apart(Hands, Lists) BY DEF Sound
<1>3. \A b \in Agents : SendHands[b] = at[a].cur => Hands[b] = at[a].cur /\ b # a
  BY <1>1, NoneNowhere DEF SendHands, SendAt, Hands, HandAt
<1>4. \A b \in Agents : SendHands[b] # at[a].cur BY <1>1, <1>2, <1>3, NoneNowhere DEF Apart
<1> QED BY <1>1, <1>4 DEF Sendings, HeldIn

LEMMA PushCallStep ==
    ASSUME Sound, Sound', NEW th \in Threads, PushCall(th) PROVE Stacks!Next
<1>1. /\ Types /\ Tidied /\ at[th] \in Place /\ Shaped(Gone, th, at[th])
      /\ Writes(txn, Tops, Gone, th, at[th]) /\ th \in Agents
      /\ Core(txn, Tops, Gone, Pendings, Answered)
      /\ Alike(thr, thr) /\ AlikeProcs(prc, prc)
  BY AtHere, Known, OneOfAgents DEF Sound
<1>2. at[th].pc = "target" /\ prc' = prc BY DEF PushCall
<1>3. PICK c \in NextCall :
         /\ txn' = [txn EXCEPT ![c] = [state |-> "live", from |-> th,
              toThread |-> at[th].tgt, fromParent |-> thr[th].stack,
              toParent |-> None]]
         /\ thr' = [thr EXCEPT ![th].stack = c,
                               ![th].todo = Append(@, Item("complete", c))]
         /\ at' = [at EXCEPT ![th].pc = "queue", ![th].cur = c]
  BY DEF PushCall
<1> DEFINE t == at[th].tgt
           rec == [state |-> "live", from |-> th, toThread |-> t,
                   fromParent |-> Tops[th], toParent |-> None]
           pl == [at[th] EXCEPT !.pc = "queue", !.cur = c]
           w == Item("complete", c)
<1>4. /\ th \notin Gone /\ at[th].cur = None
      /\ Tops[th] = None \/ txn[Tops[th]].toThread = th
  BY <1>1, <1>2 DEF Shaped, WithCall, Calling, Sending, Writes
<1>5. Tops[th] = thr[th].stack BY <1>1, <1>4, TopThere
<1>6. c \in Calls /\ txn[c].state = "new"
  <2>1. c \in Calls /\ \A b \in Calls : txn[b].state = "new" <=> b >= c
    BY DEF NextCall
  <2>2. c \in Nat BY <2>1, NoneIsNoCall
  <2> QED BY <2>1, <2>2
<1>7. Rewritten(txn, c, rec, txn')
  <2>1. txn' = [txn EXCEPT ![c] = rec] /\ txn \in Transactions
    BY <1>1, <1>3, <1>5 DEF Types
  <2>2. Tops[th] \in Calls \union {None} BY <1>1, StateTypes
  <2>3. rec \in Transaction BY <1>1, <2>2 DEF Transaction, Place
  <2> HIDE DEF rec
  <2> QED BY <1>6, <2>1, <2>3 DEF Transactions, Rewritten
<1>8. pl \in Place /\ pl.pc = "queue" /\ pl.cur = c BY <1>1, <1>6 DEF Place
<1>9. at' = [at EXCEPT ![th] = pl] BY <1>3
<1> HIDE DEF pl
<1>10. Moves(th) /\ at'[th] = pl BY <1>1, <1>8, <1>9, MovesTo
<1>11. Lists' = Lists
  <2>1. w \in Work /\ w.kind # "call" BY <1>6, Items
  <2> HIDE DEF w
  <2>2. thr \in LooseThreads /\ thr[th].todo \in Seq(Work) /\ Tidy(thr[th].todo)
    BY <1>1 DEF Types, LooseThreads, LooseThread, Tidied
  <2>3. Names(Append(thr[th].todo, w)) = Names(thr[th].todo) BY <2>1, <2>2, NamesAppend
  <2>4. \A o \in Threads :
          thr'[o].todo = IF o = th THEN Append(thr[o].todo, w) ELSE thr[o].todo
    BY <1>3, <2>2 DEF LooseThreads, LooseThread, w
  <2>5. \A o \in Threads : Names(thr'[o].todo) = Names(thr[o].todo) BY <2>3, <2>4
  <2> QED BY <1>2, <2>5 DEF Lists
<1>12. c \notin LiveIn(txn) /\ c \notin Pendings
  BY <1>1, <1>6 DEF LiveIn, Core, Marked
<1>13. /\ Hands[th] = None /\ HandAt(pl) = c /\ SendAt(pl) = c /\ SendAt(at[th]) = None
  BY <1>1, <1>2, <1>4, <1>8 DEF Hands, HandAt, SendAt
<1>14. Pendings' = Pendings \union {c} /\ Sendings' = Sendings \union {c}
  <2>1. /\ Pendings' = (Pendings \ {Hands[th]}) \union ({c} \cap Calls)
        /\ Sendings' = (Sendings \ {SendAt(at[th])}) \union ({SendAt(at'[th])} \cap Calls)
    BY <1>1, <1>10, <1>11, <1>12, <1>13, HandMoves
  <2> QED BY <1>6, <1>10, <1>13, <2>1, NoneNowhere
<1> HIDE DEF t
<1> QED BY <1>4, <1>6, <1>7, <1>14, CallStep

\* th puts the call it sends on the list of r.
LEMMA SentTo ==
    ASSUME Sound, Sound', NEW th \in Threads, NEW pl \in Place, NEW r \in Agents,
           at[th].pc = "queue", pl.pc = "done", at' = [at EXCEPT ![th] = pl], txn' = txn,
           Lists'[r] = Lists[r] \union {at[th].cur},
           \A b \in Agents : b # r => Lists'[b] = Lists[b]
    PROVE  UNCHANGED Stacks!vars
<1>1. Types /\ th \in Agents BY OneOfAgents DEF Sound
<1>2. Moves(th) /\ at'[th] = pl BY <1>1, MovesTo
<1>3. at[th].cur \in Calls /\ Hands[th] = at[th].cur /\ SendAt(at[th]) = at[th].cur
  BY <1>1, InHand DEF WithCall, SendAt
<1>4. HandAt(at'[th]) = None BY <1>2 DEF HandAt
<1>5. Pendings' = Pendings /\ Sendings' = Sendings
  BY <1>1, <1>2, <1>3, <1>4, HandToList
<1> QED BY <1>5, QuietStacks

\* The call is queued, or there is nobody to queue it to any more.
LEMMA QueueCallStep ==
    ASSUME Sound, Sound', NEW th \in Threads, QueueCall(th)
    PROVE  Stacks!Next \/ UNCHANGED Stacks!vars
<1> DEFINE c == at[th].cur
           p == at[th].proc
           to == at[th].tgt
<1>1. /\ Types /\ Tidied /\ at[th] \in Place /\ Shaped(Gone, th, at[th]) /\ th \in Agents
      /\ Alike(thr, thr) /\ AlikeProcs(prc, prc)
  BY AtHere, OneOfAgents
<1>2. at[th].pc = "queue" /\ txn' = txn BY DEF QueueCall
<1>3. c \in Calls /\ p \in Procs /\ to \in Threads \union {None}
  BY <1>1, <1>2 DEF Shaped, WithCall, Calling, Place
<1>4. \A b \in Agents : c \notin Lists[b] BY <1>1, <1>2, InHand DEF WithCall
<1>5. Hands[th] = c /\ c \in Pendings /\ SendAt(at[th]) = c
  BY <1>1, <1>2, InHand DEF WithCall, SendAt
<1>6. CASE prc[p].dead \/ (to # None /\ thr[to].dead)
  <2> DEFINE pl == [at[th] EXCEPT !.pc = "undo"]
  <2>1. at' = [at EXCEPT ![th] = pl] /\ prc' = prc /\ thr' = thr
    BY <1>6 DEF QueueCall
  <2>2. pl \in Place /\ pl.pc = "undo" /\ pl.cur = c BY <1>1 DEF Place
  <2> HIDE DEF pl, c
  <2>3. Moves(th) /\ at'[th] = pl BY <1>1, <2>1, <2>2, MovesTo
  <2>4. HandAt(pl) = c /\ SendAt(pl) = None BY <2>2 DEF HandAt, SendAt
  <2>5. Lists' = Lists BY <2>1 DEF Lists
  <2>6. /\ Pendings' = (Pendings \ {Hands[th]}) \union ({c} \cap Calls)
        /\ Sendings' = (Sendings \ {SendAt(at[th])}) \union ({SendAt(at'[th])} \cap Calls)
    BY <1>1, <1>5, <2>3, <2>4, <2>5, HandMoves
  <2>7. Pendings' = Pendings /\ Sendings' = Sendings \ {c}
    BY <1>3, <1>5, <2>3, <2>4, <2>6, NoneNowhere
  <2>8. c \in Sendings
    <3>1. SendHands[th] = c BY <1>1, <1>5 DEF SendHands
    <3> QED BY <1>1, <1>3, <3>1 DEF Sendings, HeldIn
  <2> QED BY <1>2, <2>7, <2>8, LoseStep
<1>7. CASE ~(prc[p].dead \/ (to # None /\ thr[to].dead))
  <2> DEFINE pl == [at[th] EXCEPT !.pc = "done"]
  <2>1. at' = [at EXCEPT ![th] = pl] BY <1>7 DEF QueueCall, p, to
  <2>2. pl \in Place /\ pl.pc = "done" BY <1>1 DEF Place
  <2> HIDE DEF pl
  <2>3. ASSUME NEW r \in Threads, thr' = Enqueue(thr, r, Item("call", c)), prc' = prc
        PROVE  UNCHANGED Stacks!vars
    <3>1. r \in Agents /\ c \notin Lists[r] BY <1>4, OneOfAgents
    <3>2. Lists'[r] = Lists[r] \union {c} /\ \A b \in Agents : b # r => Lists'[b] = Lists[b]
      BY <1>1, <1>3, <2>3, <3>1, EnqueueCall
    <3> QED BY <1>2, <2>1, <2>2, <3>1, <3>2, SentTo
  <2>4. CASE to # None /\ thr' = Enqueue(thr, to, Item("call", c)) /\ prc' = prc
    <3>1. to \in Threads BY <1>3, <2>4
    <3> HIDE DEF to
    <3> QED BY <2>3, <2>4, <3>1
  <2>5. ASSUME NEW w \in Listed(p), thr' = Enqueue(thr, w, Item("call", c)), prc' = prc
        PROVE  UNCHANGED Stacks!vars
    <3>1. w \in Threads BY DEF Listed
    <3> QED BY <2>3, <2>5, <3>1
  <2>6. CASE thr' = thr /\ prc' = [prc EXCEPT ![p].todo = Append(@, c)]
    <3>1. p \in Agents /\ p \notin Threads BY <1>3, OneOfAgents, NoneIsNobody
    <3>2. /\ prc \in LooseProcesses /\ prc[p].todo \in Seq(Calls)
          /\ Distinct(prc[p].todo) /\ Lists[p] = Range(prc[p].todo)
      BY <1>1, <1>3, <3>1 DEF Types, LooseProcesses, LooseProcess, Tidied, Lists
    <3>3. Range(Append(prc[p].todo, c)) = Lists[p] \union {c}
      BY <1>3, <1>4, <3>1, <3>2, RangeAppend
    <3>4. \A q \in Procs : prc'[q].todo = IF q = p THEN Append(prc[p].todo, c) ELSE prc[q].todo
      BY <2>6, <3>2 DEF LooseProcesses, LooseProcess
    <3>5. Lists'[p] = Lists[p] \union {c} BY <1>3, <3>1, <3>3, <3>4 DEF Lists
    <3>6. \A b \in Agents : b # p => Lists'[b] = Lists[b]
      BY <2>6, <3>4 DEF Lists, Agents
    <3> QED BY <1>2, <2>1, <2>2, <3>1, <3>5, <3>6, SentTo
  <2> QED BY <1>7, <2>4, <2>5, <2>6 DEF QueueCall, c, p, to
<1> QED BY <1>6, <1>7

\* The target has died: the call ends for the caller that made it.
LEMMA UndoCallStep ==
    ASSUME Sound, Sound', NEW th \in Threads, UndoCall(th) PROVE Stacks!Next
<1> DEFINE c == at[th].cur
           pl == [at[th] EXCEPT !.pc = "err", !.cur = None]
<1>1. /\ Types /\ Tidied /\ at[th] \in Place /\ th \in Agents /\ Writes(txn, Tops, Gone, th, at[th])
  BY AtHere, Known, OneOfAgents
<1>2. at[th].pc = "undo" /\ prc' = prc BY DEF UndoCall
<1>3. c \in Calls /\ Hands[th] = c /\ c \in Pendings /\ c \notin Sendings
  BY <1>1, <1>2, InHand, HeldNotSent DEF WithCall
<1>4. txn[c].from = th BY <1>1, <1>2 DEF Writes
<1>5. Rewritten(txn, c, Freed, txn')
  <2>1. txn' = [txn EXCEPT ![c] = Freed] BY DEF UndoCall
  <2> QED BY <1>1, <1>3, <2>1, FreedOne
<1>6. pl \in Place /\ pl.pc = "err" /\ pl.cur = None BY <1>1 DEF Place
<1>7. at' = [at EXCEPT ![th] = pl] BY DEF UndoCall
<1>8. PICK i \in DOMAIN thr[th].todo :
         /\ thr[th].todo[i] = Item("complete", c)
         /\ thr' = [thr EXCEPT ![th].stack = txn[c].fromParent, ![th].todo = RemoveAt(@, i)]
  BY DEF UndoCall
<1> HIDE DEF c, pl
<1>9. Moves(th) /\ at'[th] = pl BY <1>1, <1>6, <1>7, MovesTo
<1>10. Lists' = Lists
  <2>1. thr \in LooseThreads /\ thr[th].todo \in Seq(Work) /\ Tidy(thr[th].todo)
    BY <1>1 DEF Types, LooseThreads, LooseThread, Tidied
  <2>2. thr[th].todo[i].kind # "call" BY <1>8, Items, <1>3
  <2> DEFINE r == RemoveAt(thr[th].todo, i)
  <2>3. Names(r) = Names(thr[th].todo) BY <2>1, <2>2, NamesRemove
  <2> HIDE DEF r
  <2>4. \A o \in Threads : thr'[o].todo = IF o = th THEN r ELSE thr[o].todo
    BY <1>8, <2>1 DEF LooseThreads, LooseThread, r
  <2>5. \A o \in Threads : Names(thr'[o].todo) = Names(thr[o].todo) BY <2>3, <2>4
  <2> QED BY <1>2, <2>5 DEF Lists
<1>11. /\ HandAt(pl) = None /\ SendAt(pl) = None /\ SendAt(at[th]) = None
  BY <1>2, <1>6 DEF HandAt, SendAt
<1>12. Pendings' = Pendings \ {c} /\ Sendings' = Sendings
  <2>1. /\ Pendings' = (Pendings \ {Hands[th]}) \union ({None} \cap Calls)
        /\ Sendings' = (Sendings \ {SendAt(at[th])}) \union ({SendAt(at'[th])} \cap Calls)
    BY <1>1, <1>9, <1>10, <1>11, NoneNowhere, HandMoves
  <2> QED BY <1>3, <1>9, <1>11, <2>1, NoneNowhere
<1> QED BY <1>3, <1>4, <1>5, <1>12, NoneIsNobody, AnswerStep

\* A server takes the call on top off its stack, or is told it serves none.
LEMMA BeginReplyStep ==
    ASSUME Blocking, Sound, Sound', NEW th \in Threads, BeginReply(th)
    PROVE  Stacks!Next \/ UNCHANGED Stacks!vars
<1>1. /\ Types /\ Tidied /\ th \in Agents /\ at[th] \in Place
      /\ Core(txn, Tops, Gone, Pendings, Answered)
      /\ Alike(thr, thr) /\ AlikeProcs(prc, prc)
  BY AtHere, OneOfAgents DEF Sound
<1>2. /\ at[th].pc = "user" /\ at[th].cur = None /\ th \notin Gone
      /\ thr[th].stack = Tops[th]
      /\ Tops[th] = None \/ txn[Tops[th]].toThread = th
      /\ Serving(th) <=> Tops[th] # None
  BY WriterKnows DEF BeginReply
<1>3. prc' = prc /\ txn' = txn BY DEF BeginReply
<1>4. CASE ~Serving(th)
  <2>1. thr' = Report(thr, th) /\ at' = at BY <1>4 DEF BeginReply
  <2>2. Alike(thr, thr') BY <1>1, <2>1, AlikeReport
  <2>3. Moves(th) BY <1>1, <2>1, StaysPut
  <2>4. UNCHANGED Stacks!vars BY <1>1, <1>3, <2>1, <2>2, <2>3, QuietMove
  <2> QED BY <2>4
<1>5. CASE Serving(th)
  <2> DEFINE c == Tops[th]
             up == txn[c].toParent
             pl == [Idle("popped") EXCEPT !.cur = c]
  <2>1. c # None /\ txn[c].toThread = th BY <1>2, <1>5
  <2>2. c \in Calls /\ c \notin Pendings BY <1>1, <2>1, ServedTop
  <2>3. pl \in Place /\ pl.pc = "popped" /\ pl.cur = c BY <2>2 DEF Idle, Place
  <2>4. /\ at' = [at EXCEPT ![th] = pl]
        /\ thr' = [thr EXCEPT ![th].stack = up]
    BY <1>1, <1>2, <1>5 DEF BeginReply, Types, LooseThreads
  <2>5. up \in Calls \union {None} BY <1>1, <2>2, FieldTypes DEF Types
  <2> HIDE DEF pl, up, c
  <2>6. Moves(th) /\ at'[th] = pl BY <1>1, <2>3, <2>4, MovesTo
  <2>7. Lists' = Lists BY <1>1, <1>2, <1>3, <2>4, <2>5, NewTop
  <2>8. /\ Hands[th] = None /\ HandAt(at'[th]) = c
        /\ SendAt(at[th]) = None /\ SendAt(at'[th]) = None
    BY <1>1, <1>2, <2>3, <2>6 DEF Hands, HandAt, SendAt
  <2>9. /\ Pendings' = (Pendings \ {Hands[th]}) \union ({c} \cap Calls)
        /\ Sendings' = (Sendings \ {SendAt(at[th])}) \union ({SendAt(at'[th])} \cap Calls)
    BY <1>1, <2>2, <2>6, <2>7, <2>8, HandMoves
  <2>10. Pendings' = Pendings \union {c} /\ Sendings' = Sendings
    BY <2>2, <2>8, <2>9, NoneNowhere
  <2>11. Stacks!Next BY <1>3, <2>1, <2>10, ReplyStep DEF c
  <2> QED BY <2>11
<1> QED BY <1>4, <1>5

\* The caller has its reply; its call ends when the server is done.
LEMMA QueueReplyStep ==
    ASSUME Sound, Sound', NEW th \in Threads, QueueReply(th)
    PROVE  Stacks!Next \/ UNCHANGED Stacks!vars
<1> DEFINE c == at[th].cur
           caller == at[th].tgt
           up == txn[c].fromParent
<1>1. /\ Types /\ Tidied /\ at[th] \in Place /\ Shaped(Gone, th, at[th]) /\ th \in Agents
      /\ Alike(thr, thr) /\ AlikeProcs(prc, prc)
  BY AtHere, OneOfAgents
<1>2. at[th].pc = "built" /\ prc' = prc BY DEF QueueReply
<1>3. /\ c \in Calls /\ c # None /\ Hands[th] = c /\ c \in Pendings /\ c \notin Sendings
  BY <1>1, <1>2, InHand, HeldNotSent DEF WithCall
<1>4. caller \in Threads BY <1>1, <1>2 DEF Shaped, Sending, Place
<1>5. CASE thr[caller].dead
  <2> DEFINE pl == [at[th] EXCEPT !.pc = "refused"]
  <2>1. /\ pl \in Place /\ pl.pc = "refused" /\ pl.cur = at[th].cur
    BY <1>1 DEF Place
  <2>2. at' = [at EXCEPT ![th] = pl] /\ thr' = thr /\ txn' = txn
    BY <1>5 DEF QueueReply
  <2> HIDE DEF pl
  <2>3. HandAt(pl) = HandAt(at[th]) /\ SendAt(pl) = SendAt(at[th])
    BY <1>2, <2>1 DEF HandAt, SendAt
  <2>4. UNCHANGED Stacks!vars BY <1>1, <1>2, <2>1, <2>2, <2>3, GoesOn
  <2> QED BY <2>4
<1>6. CASE ~thr[caller].dead
  <2>1. txn[c].from = caller /\ caller \notin Gone BY <1>1, <1>2, <1>6, CallerOnTop
  <2>2. up \in Calls \union {None} /\ txn \in Transactions /\ txn[c] \in Transaction
    BY <1>1, <1>3, FieldTypes DEF Types
  <2> DEFINE U == Enqueue(Enqueue(thr, th, Item("complete", c)), caller, Item("reply", c))
             pl == [at[th] EXCEPT !.pc = "replied"]
             rec == [txn[c] EXCEPT !.from = None]
  <2>3. /\ thr' = [U EXCEPT ![caller].stack = up]
        /\ txn' = [txn EXCEPT ![c].from = None]
        /\ at' = [at EXCEPT ![th] = pl]
    BY <1>6 DEF QueueReply
  <2>4. Alike(thr, U)
    <3>1. /\ Item("complete", c) \in Work /\ Item("complete", c).kind # "call"
          /\ Item("reply", c) \in Work /\ Item("reply", c).kind # "call"
      BY <1>3, Items
    <3>2. Alike(thr, Enqueue(thr, th, Item("complete", c)))
      BY <1>1, <3>1, AlikeEnqueue
    <3> QED BY <1>4, <3>1, <3>2, AlikeEnqueue
  <2>5. pl \in Place /\ pl.pc = "replied" /\ pl.cur = c BY <1>1 DEF Place
  <2>6. Rewritten(txn, c, rec, txn')
    <3>1. rec \in Transaction BY <2>2 DEF Transaction
    <3>2. txn' = [txn EXCEPT ![c] = rec] BY <2>3
    <3> HIDE DEF rec
    <3> QED BY <1>3, <2>2, <3>1, <3>2 DEF Transactions, Rewritten
  <2> HIDE DEF U, pl, up, caller, c
  <2>7. Moves(th) /\ at'[th] = pl BY <1>1, <2>3, <2>5, MovesTo
  <2>8. Lists' = Lists BY <1>1, <1>2, <1>4, <2>1, <2>2, <2>3, <2>4, NewTop
  <2>9. HandAt(at'[th]) = c /\ SendAt(at[th]) = None /\ SendAt(at'[th]) = None
    BY <1>2, <2>5, <2>7 DEF HandAt, SendAt
  <2>10. /\ Pendings' = (Pendings \ {Hands[th]}) \union ({c} \cap Calls)
         /\ Sendings' = (Sendings \ {SendAt(at[th])}) \union ({SendAt(at'[th])} \cap Calls)
    BY <1>1, <1>3, <2>7, <2>8, <2>9, HandMoves
  <2>11. Pendings' = Pendings /\ Sendings' = Sendings
    BY <1>3, <2>9, <2>10, NoneNowhere
  <2>12. caller # None BY <1>4, NoneIsNobody
  <2>13. Stacks!Next BY <1>3, <2>1, <2>6, <2>11, <2>12, AnswerStep
  <2> QED BY <2>13
<1> QED BY <1>5, <1>6

LEMMA EndReplyStep ==
    ASSUME Sound, Sound', NEW th \in Threads, EndReply(th)
    PROVE  Stacks!Next \/ UNCHANGED Stacks!vars
<1> DEFINE c == at[th].cur
           caller == at[th].tgt
<1>1. /\ Types /\ Tidied /\ at[th] \in Place /\ Shaped(Gone, th, at[th]) /\ th \in Agents
      /\ Core(txn, Tops, Gone, Pendings, Answered)
      /\ Alike(thr, thr) /\ AlikeProcs(prc, prc)
  BY AtHere, OneOfAgents DEF Sound
<1>2. /\ at[th].pc \in {"replied", "refused"} /\ thr' = Unref(thr, caller)
      /\ prc' = UnrefProc(AfterUnref(prc, caller), at[th].proc)
  BY DEF EndReply
<1>3. /\ c \in Calls /\ Hands[th] = c /\ c \in Pendings /\ c \notin Sendings
      /\ at[th].pc = "replied" => c \in Answered
  BY <1>1, <1>2, InHand, HeldNotSent DEF WithCall
<1>4. caller \in Threads BY <1>1, <1>2 DEF Shaped, Sending, Place
<1>5. Alike(thr, thr') /\ AlikeProcs(prc, prc')
  BY <1>1, <1>2, <1>4, AlikeUnref, AlikeAfterUnref, AlikeUnrefProc
<1> HIDE DEF c, caller
<1>6. CASE at[th].pc = "replied"
  <2> DEFINE pl == Idle("user")
  <2>1. txn' = [txn EXCEPT ![c] = Freed] /\ at' = [at EXCEPT ![th] = pl]
    BY <1>6 DEF EndReply, c
  <2>2. pl \in Place /\ pl.pc = "user" /\ pl.cur = None BY DEF Idle, Place
  <2> HIDE DEF pl
  <2>3. Moves(th) /\ at'[th] = pl BY <1>1, <2>1, <2>2, MovesTo
  <2>4. Rewritten(txn, c, Freed, txn') BY <1>1, <1>3, <2>1, FreedOne
  <2>5. Lists' = Lists BY <1>1, <1>5, AlikeLists
  <2>6. txn[c].from = None BY <1>1, <1>3, <1>6 DEF Core, Marked
  <2>7. HandAt(at'[th]) = None /\ SendAt(at[th]) = None /\ SendAt(at'[th]) = None
    BY <1>6, <2>2, <2>3 DEF HandAt, SendAt
  <2>8. /\ Pendings' = (Pendings \ {Hands[th]}) \union ({None} \cap Calls)
        /\ Sendings' = (Sendings \ {SendAt(at[th])}) \union ({SendAt(at'[th])} \cap Calls)
    BY <1>1, <2>3, <2>5, <2>7, NoneNowhere, HandMoves
  <2> DEFINE N == {}
  <2>9. /\ Pendings' = (Pendings \ {c}) \union N /\ Sendings' = Sendings
    BY <1>3, <2>7, <2>8, NoneNowhere
  <2>10. N \in SUBSET Calls /\ \A n \in N : txn[n].toThread = None OBVIOUS
  <2> HIDE DEF N
  <2>11. Stacks!Next BY <1>3, <2>4, <2>6, <2>9, <2>10, OverStep
  <2> QED BY <2>11
<1>7. CASE at[th].pc = "refused"
  <2> DEFINE pl == [Idle("unsent") EXCEPT !.cur = c]
  <2>1. txn' = txn /\ at' = [at EXCEPT ![th] = pl] BY <1>7 DEF EndReply, c
  <2>2. pl \in Place /\ pl.pc = "unsent" /\ pl.cur = c BY <1>3 DEF Idle, Place
  <2> HIDE DEF pl
  <2>3. HandAt(pl) = HandAt(at[th]) /\ SendAt(pl) = SendAt(at[th])
    BY <1>7, <2>2 DEF HandAt, SendAt, c
  <2>4. UNCHANGED Stacks!vars BY <1>1, <1>5, <2>1, <2>2, <2>3, GoesOn
  <2> QED BY <2>4
<1> QED BY <1>2, <1>6, <1>7

\* A call whose caller is gone is freed, and its failure passed on.
LEMMA FailNextStep ==
    ASSUME Sound, Sound', NEW a \in Agents, at[a].pc \in {"fail", "failfrom"},
           FailNext(a), txn[at[a].cur].from = None, Alike(thr, thr'),
           AlikeProcs(prc, prc')
    PROVE  Stacks!Next
<1> DEFINE c == at[a].cur
           next == txn[c].fromParent
           pl == IF next = None THEN Resumed(a) ELSE [Idle("fail") EXCEPT !.cur = next]
           N == {next} \cap Calls
<1>1. /\ Types /\ Tidied /\ at[a] \in Place
      /\ Core(txn, Tops, Gone, Pendings, Answered)
  BY AtHere DEF Sound
<1>2. txn' = [txn EXCEPT ![c] = Freed] /\ at' = [at EXCEPT ![a] = pl]
  BY DEF FailNext
<1>3. /\ c \in Calls /\ Hands[a] = c /\ c \in Pendings /\ c \notin Answered
      /\ c \notin Sendings
  BY <1>1, InHand, HeldNotSent DEF WithCall
<1>4. next \in Calls \union {None} BY <1>1, <1>3, FieldTypes DEF Types
<1>5. txn[c].from = None OBVIOUS
<1>6. pl \in Place /\ HandAt(pl) = next /\ SendAt(pl) = None
  <2>1. CASE next = None
    <3>1. pl = Resumed(a) BY <2>1
    <3> HIDE DEF pl
    <3> QED BY <1>1, <2>1, <3>1, ResumedFits DEF HandAt, SendAt
  <2>2. CASE next # None
    <3>1. pl = [Idle("fail") EXCEPT !.cur = next] BY <2>2
    <3> HIDE DEF pl
    <3>2. pl \in Place /\ pl.pc = "fail" /\ pl.cur = next
      BY <1>4, <3>1 DEF Idle, Place
    <3> QED BY <3>2 DEF HandAt, SendAt
  <2> QED BY <2>1, <2>2
<1>7. next # None => next \notin Pendings /\ txn[next].toThread = None
  <2> SUFFICES ASSUME next # None
               PROVE  next \notin Pendings /\ txn[next].toThread = None
    OBVIOUS
  <2>1. Kid(txn, Answered, c, next) BY <1>3, PendingLive DEF Kid
  <2>2. next \in Calls BY <1>4
  <2> HIDE DEF next, c
  <2>3. Kids(txn, Pendings, Answered) BY <1>1 DEF Core
  <2> QED BY <1>3, <1>5, <2>1, <2>2, <2>3 DEF Kids
<1>8. N \in SUBSET Calls /\ \A n \in N : txn[n].toThread = None
  BY <1>7, NoneNowhere
<1> HIDE DEF c, pl
<1>9. Moves(a) /\ at'[a] = pl BY <1>1, <1>2, <1>6, MovesTo
<1>10. Rewritten(txn, c, Freed, txn') BY <1>1, <1>2, <1>3, FreedOne
<1>11. Lists' = Lists BY <1>1, AlikeLists
<1> HIDE DEF next
<1>12. HandAt(at'[a]) = next /\ SendAt(at[a]) = None /\ SendAt(at'[a]) = None
  BY <1>6, <1>9 DEF SendAt
<1>13. next = Hands[a] \/ next \notin Pendings BY <1>7, NoneNowhere
<1>14. /\ Pendings' = (Pendings \ {Hands[a]}) \union ({next} \cap Calls)
       /\ Sendings' = (Sendings \ {SendAt(at[a])}) \union ({SendAt(at'[a])} \cap Calls)
  BY <1>9, <1>11, <1>12, <1>13, HandMoves
<1>15. Pendings' = (Pendings \ {c}) \union N /\ Sendings' = Sendings
  BY <1>3, <1>12, <1>14, NoneNowhere
<1> HIDE DEF N
<1> QED BY <1>3, <1>5, <1>8, <1>10, <1>15, OverStep

LEMMA FailFromStep ==
    ASSUME Sound, Sound', NEW a \in Agents, FailFrom(a)
    PROVE  Stacks!Next \/ UNCHANGED Stacks!vars
<1> DEFINE c == at[a].cur
           caller == txn[c].from
<1>1. /\ Types /\ at[a] \in Place /\ Alike(thr, thr) /\ AlikeProcs(prc, prc)
  BY AtHere
<1>2. at[a].pc = "fail" /\ prc' = prc BY DEF FailFrom
<1>3. c \in Calls BY <1>1, <1>2, InHand DEF WithCall
<1>4. caller \in Threads \union {None} BY <1>1, <1>3, FieldTypes DEF Types
<1>5. CASE caller = None
  <2>1. FailNext(a) /\ thr' = thr BY <1>5 DEF FailFrom
  <2>2. Stacks!Next BY <1>1, <1>2, <1>5, <2>1, FailNextStep
  <2> QED BY <2>2
<1> HIDE DEF c, caller
<1>6. CASE caller # None
  <2> DEFINE pl == [at[a] EXCEPT !.pc = "failfrom", !.tgt = caller]
  <2>1. pl \in Place /\ pl.pc = "failfrom" /\ pl.cur = c
    BY <1>1, <1>4 DEF Place, c
  <2>2. /\ at' = [at EXCEPT ![a] = pl] /\ thr' = [thr EXCEPT ![caller].ref = @ + 1]
        /\ txn' = txn
    BY <1>6 DEF FailFrom, c, caller
  <2> HIDE DEF pl
  <2>3. HandAt(pl) = HandAt(at[a]) /\ SendAt(pl) = SendAt(at[a])
    BY <1>2, <2>1 DEF HandAt, SendAt, c
  <2>4. Alike(thr, thr') BY <1>1, <1>4, <1>6, <2>2, AlikeRef
  <2>5. UNCHANGED Stacks!vars BY <1>1, <1>2, <2>1, <2>2, <2>3, <2>4, GoesOn
  <2> QED BY <2>5
<1> QED BY <1>5, <1>6 DEF c, caller

\* The caller has its error, or has gone in the meantime.
LEMMA FailAcquireStep ==
    ASSUME Sound, Sound', NEW a \in Agents, FailAcquire(a) PROVE Stacks!Next
<1> DEFINE c == at[a].cur
           caller == at[a].tgt
           up == txn[c].fromParent
           T == IF Has(caller, "error") THEN thr ELSE Enqueue(thr, caller, Item("error", c))
<1>1. /\ Types /\ Tidied /\ at[a] \in Place /\ Shaped(Gone, a, at[a])
      /\ Alike(thr, thr) /\ AlikeProcs(prc, prc)
  BY AtHere
<1>2. at[a].pc = "failfrom" /\ prc' = AfterUnref(prc, caller) BY DEF FailAcquire
<1>3. c \in Calls /\ Hands[a] = c /\ c \in Pendings /\ c \notin Sendings
  BY <1>1, <1>2, InHand, HeldNotSent DEF WithCall
<1>4. caller \in Threads BY <1>1, <1>2 DEF Shaped, Place
<1>5. AlikeProcs(prc, prc') BY <1>1, <1>2, AlikeAfterUnref
<1>6. CASE txn[c].from = None
  <2>1. thr' = Unref(thr, caller) /\ FailNext(a) BY <1>6 DEF FailAcquire
  <2>2. Alike(thr, thr') BY <1>1, <1>4, <2>1, AlikeUnref
  <2> QED BY <1>2, <1>5, <1>6, <2>1, <2>2, FailNextStep
<1>7. CASE txn[c].from # None
  <2>1. txn[c].from = caller /\ caller \notin Gone BY <1>2, <1>7, CallerOnTop
  <2>2. up \in Calls \union {None} BY <1>1, <1>3, FieldTypes DEF Types
  <2> DEFINE U == Unref(T, caller)
             pl == Resumed(a)
  <2>3. /\ thr' = [U EXCEPT ![caller].stack = up]
        /\ txn' = [txn EXCEPT ![c] = Freed] /\ at' = [at EXCEPT ![a] = pl]
    BY <1>7 DEF FailAcquire
  <2>4. Alike(thr, U)
    <3>1. Item("error", c) \in Work /\ Item("error", c).kind # "call" BY <1>3, Items
    <3>2. Alike(thr, Enqueue(thr, caller, Item("error", c)))
      BY <1>1, <1>4, <3>1, AlikeEnqueue
    <3>3. Alike(thr, T) BY <1>1, <3>2
    <3> HIDE DEF T, caller
    <3> QED BY <1>4, <3>3, AlikeUnref
  <2>5. pl \in Place /\ HandAt(pl) = None /\ SendAt(pl) = None
    BY <1>1, ResumedFits DEF HandAt, SendAt
  <2> HIDE DEF U, T, pl, up, caller, c
  <2>6. Moves(a) /\ at'[a] = pl BY <1>1, <2>3, <2>5, MovesTo
  <2>7. Lists' = Lists BY <1>1, <1>4, <1>5, <2>1, <2>2, <2>3, <2>4, NewTop
  <2>8. Rewritten(txn, c, Freed, txn') BY <1>1, <1>3, <2>3, FreedOne
  <2>9. HandAt(at'[a]) = None /\ SendAt(at[a]) = None /\ SendAt(at'[a]) = None
    BY <1>2, <2>5, <2>6 DEF SendAt
  <2>10. /\ Pendings' = (Pendings \ {Hands[a]}) \union ({None} \cap Calls)
         /\ Sendings' = (Sendings \ {SendAt(at[a])}) \union ({SendAt(at'[a])} \cap Calls)
    BY <2>6, <2>7, <2>9, NoneNowhere, HandMoves
  <2>11. Pendings' = Pendings \ {c} /\ Sendings' = Sendings
    BY <1>3, <2>9, <2>10, NoneNowhere
  <2>12. caller # None BY <1>4, NoneIsNobody
  <2> QED BY <1>3, <2>1, <2>8, <2>11, <2>12, AnswerStep
<1> QED BY <1>6, <1>7

\* A call taken off a list to be delivered is still on its way.
LEMMA TakenQuiet ==
    ASSUME Sound, Sound', NEW th \in Threads, Moves(th), txn' = txn, NEW r \in Agents,
           NEW c \in Lists[r], Hands[th] = None, at'[th].pc = "deliver", at'[th].cur = c,
           Lists'[r] = Lists[r] \ {c}, \A b \in Agents : b # r => Lists'[b] = Lists[b]
    PROVE  UNCHANGED Stacks!vars
<1>1. th \in Agents BY OneOfAgents
<1>2. HandAt(at'[th]) = c /\ SendAt(at'[th]) = c BY DEF HandAt, SendAt
<1>3. Pendings' = Pendings /\ Sendings' = Sendings BY <1>1, <1>2, ListToHand
<1> QED BY <1>3, QuietStacks

LEMMA ReadThreadQuiet ==
    ASSUME Sound, Sound', NEW th \in Threads, ReadThread(th) PROVE UNCHANGED Stacks!vars
<1> DEFINE item == Head(thr[th].todo)
           T == [thr EXCEPT ![th].todo = Tail(@),
                   ![th].processTodo = @ /\ Len(thr[th].todo) > 1]
<1>1. /\ Types /\ Tidied /\ at[th] \in Place /\ Shaped(Gone, th, at[th]) /\ th \in Agents
      /\ Alike(thr, thr) /\ AlikeProcs(prc, prc)
  BY AtHere, OneOfAgents
<1>2. /\ at[th].pc = "wait" /\ txn' = txn /\ prc' = prc /\ thr[th].todo # <<>>
      /\ IF item.kind = "call"
         THEN TakeCall(T, th, item.call)
         ELSE thr' = T /\ at' = [at EXCEPT ![th] = Idle("user")]
  BY DEF ReadThread
<1>3. at[th].cur = None BY <1>1, <1>2 DEF Shaped, WithCall
<1>4. Shorter(T, th) /\ thr[th].todo \in Seq(Work) /\ Tidy(thr[th].todo)
  BY <1>1, <1>2, HeadRead DEF HeadOff
<1> HIDE DEF T
<1>5. CASE item.kind # "call"
  <2> DEFINE pl == Idle("user")
  <2>1. thr' = T /\ at' = [at EXCEPT ![th] = pl] BY <1>2, <1>5
  <2>2. Alike(thr, thr') BY <1>1, <1>2, <1>4, <1>5, <2>1, ShorterAlike
  <2>3. pl \in Place /\ pl.pc = "user" /\ pl.cur = None BY DEF Idle, Place
  <2> HIDE DEF pl
  <2>4. HandAt(pl) = HandAt(at[th]) /\ SendAt(pl) = SendAt(at[th])
    BY <1>2, <1>3, <2>3 DEF HandAt, SendAt
  <2> QED BY <1>1, <1>2, <2>1, <2>2, <2>3, <2>4, GoesOn
<1>6. CASE item.kind = "call"
  <2> DEFINE c == item.call
  <2>1. TakeCall(T, th, c) BY <1>2, <1>6
  <2>2. c \in Calls /\ Tidy(Tail(thr[th].todo)) BY <1>2, <1>4, <1>6, NamesTail
  <2>3. item.kind = "call" /\ c = item.call BY <1>6
  <2>4. T \in LooseThreads /\ \A o \in Threads : Tidy(T[o].todo)
    BY <1>1, <1>4, <2>2 DEF Shorter, Tidied
  <2> HIDE DEF c
  <2>5. /\ Moves(th) /\ Alike(T, thr') /\ at'[th].pc = "deliver" /\ at'[th].cur = c
    BY <1>1, <2>1, <2>2, <2>4, TakesTo
  <2>6. /\ c \in Lists[th] /\ Lists'[th] = Lists[th] \ {c}
        /\ \A b \in Agents : b # th => Lists'[b] = Lists[b]
    BY <1>1, <1>2, <1>4, <2>3, <2>5, ShorterTakes
  <2>7. Hands[th] = None BY <1>1, <1>2, <1>3 DEF Hands, HandAt
  <2> QED BY <1>1, <1>2, <2>5, <2>6, <2>7, TakenQuiet
<1> QED BY <1>5, <1>6

\* The list of a process loses its first call.
LEMMA ListShorter ==
    ASSUME Types, Tidied, NEW p \in Procs, prc[p].todo # <<>>, NEW c, c = Head(prc[p].todo),
           prc' = [prc EXCEPT ![p].todo = Tail(@)],
           \A o \in Threads : Names(thr'[o].todo) = Names(thr[o].todo)
    PROVE  /\ p \in Agents /\ c \in Calls /\ c \in Lists[p] /\ Lists'[p] = Lists[p] \ {c}
           /\ \A b \in Agents : b # p => Lists'[b] = Lists[b]
<1> DEFINE s == Tail(prc[p].todo)
<1>1. /\ prc \in LooseProcesses /\ prc[p] \in LooseProcess /\ prc[p].todo \in Seq(Calls)
      /\ Distinct(prc[p].todo)
  BY DEF Types, LooseProcesses, LooseProcess, Tidied
<1>2. /\ s \in Seq(Calls) /\ c \in Calls
      /\ c \in Range(prc[p].todo) /\ Range(s) = Range(prc[p].todo) \ {c}
  BY <1>1, RangeTail
<1>3. prc' = [prc EXCEPT ![p].todo = s] OBVIOUS
<1> HIDE DEF s
<1>4. prc'[p].todo = s /\ \A q \in Procs : q # p => prc'[q] = prc[q]
  <2>1. prc'[p] = [prc[p] EXCEPT !.todo = s] BY <1>1, <1>3 DEF LooseProcesses
  <2>2. prc'[p].todo = s BY <1>1, <2>1 DEF LooseProcess
  <2>3. \A q \in Procs : q # p => prc'[q] = prc[q] BY <1>1, <1>3 DEF LooseProcesses
  <2> QED BY <2>2, <2>3
<1>5. p \in Agents /\ p \notin Threads BY OneOfAgents, NoneIsNobody
<1>6. Lists[p] = Range(prc[p].todo) /\ Lists'[p] = Range(prc'[p].todo)
  BY <1>5 DEF Lists
<1>7. \A b \in Agents : b # p => Lists'[b] = Lists[b] BY <1>4 DEF Lists, Agents
<1> QED BY <1>2, <1>4, <1>5, <1>6, <1>7

LEMMA ReadProcQuiet ==
    ASSUME Sound, Sound', NEW th \in Threads, ReadProc(th) PROVE UNCHANGED Stacks!vars
<1> DEFINE p == Owner[th]
           c == Head(prc[p].todo)
           T == [thr EXCEPT ![th].processTodo = FALSE]
<1>1. /\ Types /\ Tidied /\ at[th] \in Place /\ Shaped(Gone, th, at[th]) /\ th \in Agents
      /\ p \in Procs
  BY AtHere, OneOfAgents, OwnerAssumption
<1>2. /\ at[th].pc = "wait" /\ txn' = txn /\ prc[p].todo # <<>>
      /\ prc' = [prc EXCEPT ![p].todo = Tail(@)] /\ TakeCall(T, th, c)
  BY DEF ReadProc
<1>3. at[th].cur = None BY <1>1, <1>2 DEF Shaped, WithCall
<1>4. c \in Calls
  <2>1. prc[p].todo \in Seq(Calls) BY <1>1 DEF Types, LooseProcesses, LooseProcess
  <2> QED BY <1>2, <2>1
<1>5. c = Head(prc[p].todo) OBVIOUS
<1> HIDE DEF c, T, p
<1>6. T \in LooseThreads /\ Alike(thr, T)
  <2>1. thr \in LooseThreads /\ thr[th] \in LooseThread BY <1>1 DEF Types, LooseThreads
  <2>2. [thr[th] EXCEPT !.processTodo = FALSE] \in LooseThread
    BY <2>1 DEF LooseThread
  <2>3. T \in LooseThreads BY <2>1, <2>2 DEF LooseThreads, T
  <2>4. \A o \in Threads : /\ T[o].dead = thr[o].dead /\ T[o].stack = thr[o].stack
                           /\ T[o].todo = thr[o].todo
    BY <2>1 DEF T, LooseThreads, LooseThread
  <2>5. \A o \in Threads : Tidy(thr[o].todo) BY <1>1 DEF Tidied
  <2> QED BY <2>1, <2>3, <2>4, <2>5 DEF Alike
<1>7. Moves(th) /\ Alike(T, thr') /\ at'[th].pc = "deliver" /\ at'[th].cur = c
  <2>1. \A o \in Threads : Tidy(T[o].todo) BY <1>6 DEF Alike
  <2> QED BY <1>1, <1>2, <1>4, <1>6, <2>1, TakesTo
<1>8. Alike(thr, thr') BY <1>6, <1>7 DEF Alike
<1>9. \A o \in Threads : Names(thr'[o].todo) = Names(thr[o].todo) BY <1>8, AlikeTops
<1>10. /\ p \in Agents /\ c \in Lists[p] /\ Lists'[p] = Lists[p] \ {c}
       /\ \A b \in Agents : b # p => Lists'[b] = Lists[b]
  BY <1>1, <1>2, <1>5, <1>9, ListShorter
<1>11. Hands[th] = None BY <1>1, <1>2, <1>3 DEF Hands, HandAt
<1> QED BY <1>1, <1>2, <1>7, <1>10, <1>11, TakenQuiet

\* Whoever delivers a call holds it, and it is on its way.
LEMMA DeliversSent ==
    ASSUME Sound, NEW th \in Threads, at[th].pc = "deliver"
    PROVE  /\ at[th].cur \in Calls /\ Hands[th] = at[th].cur /\ SendAt(at[th]) = at[th].cur
           /\ at[th].cur \in Pendings /\ at[th].cur \in Sendings
<1>1. th \in Agents BY OneOfAgents
<1>2. at[th].cur \in Calls /\ Hands[th] = at[th].cur /\ at[th].cur \in Pendings
  BY <1>1, InHand DEF WithCall
<1>3. SendAt(at[th]) = at[th].cur /\ SendHands[th] = at[th].cur
  BY <1>1 DEF SendAt, SendHands
<1> QED BY <1>1, <1>2, <1>3 DEF Sendings, HeldIn

LEMMA DeliverFaultStep ==
    ASSUME Sound, Sound', NEW th \in Threads, DeliverFault(th) PROVE Stacks!Next
<1> DEFINE c == at[th].cur
           caller == at[th].tgt
           pl == [Idle("fail") EXCEPT !.cur = c]
<1>1. /\ Types /\ Tidied /\ at[th] \in Place /\ th \in Agents /\ Alike(thr, thr)
      /\ AlikeProcs(prc, prc)
  BY AtHere, OneOfAgents
<1>2. /\ at[th].pc = "deliver" /\ txn' = txn /\ at' = [at EXCEPT ![th] = pl]
      /\ thr' = (IF caller = None THEN thr ELSE Unref(thr, caller))
      /\ prc' = IF caller = None THEN prc ELSE AfterUnref(prc, caller)
  BY DEF DeliverFault, DropCaller
<1>3. /\ caller \in Threads \union {None} /\ c \in Calls /\ Hands[th] = c
      /\ SendAt(at[th]) = c /\ c \in Pendings /\ c \in Sendings
  BY <1>1, <1>2, DeliversSent DEF Place
<1>4. pl \in Place /\ pl.pc = "fail" /\ pl.cur = c BY <1>3 DEF Idle, Place
<1> HIDE DEF pl, c, caller
<1>5. Moves(th) /\ at'[th] = pl BY <1>1, <1>2, <1>4, MovesTo
<1>6. Alike(thr, thr') /\ AlikeProcs(prc, prc')
  BY <1>1, <1>2, <1>3, AlikeUnref, AlikeAfterUnref
<1>7. Lists' = Lists BY <1>1, <1>6, AlikeLists
<1>8. HandAt(at'[th]) = c /\ SendAt(at'[th]) = None BY <1>4, <1>5 DEF HandAt, SendAt
<1>9. /\ Pendings' = (Pendings \ {Hands[th]}) \union ({c} \cap Calls)
      /\ Sendings' = (Sendings \ {SendAt(at[th])}) \union ({SendAt(at'[th])} \cap Calls)
  BY <1>1, <1>3, <1>5, <1>7, <1>8, HandMoves
<1>10. Pendings' = Pendings /\ Sendings' = Sendings \ {c}
  BY <1>3, <1>8, <1>9, NoneNowhere
<1> QED BY <1>2, <1>3, <1>10, LoseStep

LEMMA DeliverStep ==
    ASSUME Sound, Sound', NEW th \in Threads, Deliver(th) PROVE Stacks!Next
<1> DEFINE c == at[th].cur
           caller == at[th].tgt
           pl == Idle("user")
           T == IF caller = None THEN thr ELSE Unref(thr, caller)
           rec == [txn[c] EXCEPT !.toParent = Tops[th], !.toThread = th]
<1>1. /\ Types /\ Tidied /\ at[th] \in Place /\ th \in Agents /\ Alike(thr, thr)
      /\ AlikeProcs(prc, prc)
  BY AtHere, OneOfAgents
<1>2. /\ at[th].pc = "deliver" /\ at' = [at EXCEPT ![th] = pl]
      /\ txn' = [txn EXCEPT ![c].toParent = thr[th].stack, ![c].toThread = th]
      /\ thr' = [T EXCEPT ![th].stack = c]
      /\ prc' = IF caller = None THEN prc ELSE AfterUnref(prc, caller)
  BY DEF Deliver, DropCaller
<1>3. /\ th \notin Gone /\ Tops[th] = thr[th].stack
      /\ caller \in Threads \union {None}
      /\ Tops[th] = None \/ WaitsFor(txn, Tops, th, c)
  BY <1>2, DelivererKnows
<1>4. /\ c \in Calls /\ Hands[th] = c /\ SendAt(at[th]) = c /\ c \in Pendings
      /\ c \in Sendings
  BY <1>2, DeliversSent
<1>5. Tops[th] \in Calls \union {None} /\ txn \in Transactions /\ txn[c] \in Transaction
  BY <1>1, <1>4, StateTypes, FieldTypes DEF Types
<1>6. Alike(thr, T) /\ AlikeProcs(prc, prc')
  <2>1. Alike(thr, T) BY <1>1, <1>3, AlikeUnref
  <2>2. AlikeProcs(prc, prc') BY <1>1, <1>2, AlikeAfterUnref
  <2> QED BY <2>1, <2>2
<1>7. Rewritten(txn, c, rec, txn')
  <2>1. rec \in Transaction BY <1>5 DEF Transaction
  <2>2. txn' = [txn EXCEPT ![c] = rec] BY <1>2, <1>3
  <2> HIDE DEF rec
  <2> QED BY <1>4, <1>5, <2>1, <2>2 DEF Transactions, Rewritten
<1>8. pl \in Place /\ pl.pc = "user" /\ pl.cur = None BY DEF Idle, Place
<1> HIDE DEF T, pl, c, caller
<1>9. Moves(th) /\ at'[th] = pl BY <1>1, <1>2, <1>8, MovesTo
<1>10. Lists' = Lists BY <1>1, <1>2, <1>3, <1>4, <1>6, NewTop
<1>11. HandAt(at'[th]) = None /\ SendAt(at'[th]) = None
  BY <1>8, <1>9 DEF HandAt, SendAt
<1>12. /\ Pendings' = (Pendings \ {Hands[th]}) \union ({None} \cap Calls)
       /\ Sendings' = (Sendings \ {SendAt(at[th])}) \union ({SendAt(at'[th])} \cap Calls)
  BY <1>1, <1>9, <1>10, <1>11, NoneNowhere, HandMoves
<1>13. Pendings' = Pendings \ {c} /\ Sendings' = Sendings \ {c}
  BY <1>4, <1>11, <1>12, NoneNowhere
<1> QED BY <1>3, <1>4, <1>7, <1>13, ServeStep

\* A thread is released: nothing is left of its stack.
LEMMA ReleaseThreadStep ==
    ASSUME Sound, Sound', NEW th \in Threads, at[th].pc = "user", ReleaseThread(th)
    PROVE  Stacks!Next \/ UNCHANGED Stacks!vars
<1> DEFINE t == Tops[th]
           C == ServedTopOf(txn, Tops, th)
           v == IF C = {} THEN None ELSE t
           pl == IF FailsTop(th) THEN [Idle("fail") EXCEPT !.cur = thr[th].stack]
                                 ELSE Idle("work")
           O == On(txn, Pendings, th)
<1>1. /\ Types /\ Tidied /\ at[th] \in Place /\ Shaped(Gone, th, at[th]) /\ th \in Agents
      /\ Core(txn, Tops, Gone, Pendings, Answered) /\ AlikeProcs(prc, prc)
      /\ Owner[th] \in Procs
  BY AtHere, OneOfAgents, OwnerAssumption DEF Sound
<1>2. /\ thr' = [thr EXCEPT ![th].dead = TRUE, ![th].ref = @ + 1]
      /\ prc' = [prc EXCEPT ![Owner[th]].ref = @ + 1]
      /\ txn' = [c \in Calls |->
           CASE c \in Frames(th) /\ txn[c].toThread = th ->
                  [txn[c] EXCEPT !.toThread = None]
             [] c \in Frames(th) /\ txn[c].toThread # th ->
                  [txn[c] EXCEPT !.from = None]
             [] OTHER -> txn[c]]
      /\ at' = [at EXCEPT ![th] = pl]
  BY DEF ReleaseThread
<1>3. th \notin Gone /\ at[th].cur = None BY <1>1 DEF Shaped, WithCall
<1>4. t = thr[th].stack /\ t \in Calls \union {None} BY <1>1, <1>3, TopThere, StateTypes
<1>5. Frames(th) = O
  <2>1. txn \in Transactions /\ Falling(txn) /\ Stacked(txn, Tops, Pendings, th)
    BY <1>1 DEF Types, Core
  <2> QED BY <1>4, <2>1, FramesAre
<1> HIDE DEF O
<1>6. CutFrom(txn, Pendings, th, txn')
  <2>1. \A c \in Calls :
          txn'[c] = IF c \notin O THEN txn[c]
                    ELSE IF txn[c].toThread = th THEN [txn[c] EXCEPT !.toThread = None]
                    ELSE [txn[c] EXCEPT !.from = None]
    BY <1>2, <1>5
  <2> QED BY <2>1 DEF CutFrom, O
<1>7. C = IF t # None /\ txn[t].toThread = th THEN {t} ELSE {} BY DEF ServedTopOf
<1>8. Serving(th) <=> C # {} BY <1>4, <1>7 DEF Serving
<1>9. v \in Calls \union {None} /\ v \notin Pendings /\ {v} \cap Calls = C
  <2>1. CASE C = {} BY <2>1, NoneNowhere
  <2>2. CASE C # {}
    <3>1. t # None /\ txn[t].toThread = th /\ v = t BY <1>7, <2>2
    <3>2. t \in Calls /\ t \notin Pendings BY <1>1, <3>1, ServedTop
    <3> QED BY <1>7, <2>2, <3>1, <3>2
  <2> QED BY <2>1, <2>2
<1>10. pl \in Place /\ pl.cur = v /\ pl.pc \in {"work", "fail"}
  <2>1. CASE C = {}
    <3>1. pl = Idle("work") /\ v = None BY <1>8, <2>1 DEF FailsTop
    <3> HIDE DEF pl, v
    <3> QED BY <3>1 DEF Idle, Place
  <2>2. CASE C # {}
    <3>1. pl = [Idle("fail") EXCEPT !.cur = t] /\ v = t
      BY <1>4, <1>8, <2>2 DEF FailsTop
    <3> HIDE DEF pl, v, t
    <3> QED BY <1>4, <3>1 DEF Idle, Place
  <2> QED BY <2>1, <2>2
<1>11. C = ServedTopOf(txn, Tops, th) OBVIOUS
<1> HIDE DEF pl, v, C, t
<1>12. Moves(th) /\ at'[th] = pl BY <1>1, <1>2, <1>10, MovesTo
<1>13. \A o \in Threads : /\ thr'[o].dead = (o = th \/ thr[o].dead)
                          /\ thr'[o].todo = thr[o].todo
  <2>1. thr \in LooseThreads /\ thr[th] \in LooseThread BY <1>1 DEF Types, LooseThreads
  <2>2. \A o \in Threads : o # th => thr'[o] = thr[o]
    BY <1>2, <2>1 DEF LooseThreads
  <2>3. thr'[th].dead = TRUE /\ thr'[th].todo = thr[th].todo
    BY <1>2, <2>1 DEF LooseThreads, LooseThread
  <2>4. \A o \in Threads : thr[o].dead \in BOOLEAN BY <2>1 DEF LooseThreads, LooseThread
  <2> QED BY <2>2, <2>3, <2>4
<1>14. \A p \in Procs : prc'[p].todo = prc[p].todo
  <2>1. AlikeProcs(prc, prc') BY <1>1, <1>2, AlikeProcRef
  <2> QED BY <2>1 DEF AlikeProcs
<1>15. Gone' = Gone \union {th} BY <1>13 DEF Gone
<1>16. Lists' = Lists BY <1>13, <1>14 DEF Lists, Agents
<1>17. /\ HandAt(at'[th]) = v /\ Hands[th] = None
       /\ SendAt(at[th]) = None /\ SendAt(at'[th]) = None
  BY <1>1, <1>3, <1>10, <1>12 DEF Hands, HandAt, SendAt
<1>18. /\ Pendings' = (Pendings \ {Hands[th]}) \union ({v} \cap Calls)
       /\ Sendings' = (Sendings \ {SendAt(at[th])}) \union ({SendAt(at'[th])} \cap Calls)
  BY <1>1, <1>9, <1>12, <1>16, <1>17, HandMoves
<1>19. Pendings' = Pendings \union C /\ Sendings' = Sendings
  BY <1>9, <1>17, <1>18, NoneNowhere
<1> QED BY <1>6, <1>11, <1>15, <1>19, ExitStep

\* A released thread or process drops a call on its list: nobody will serve it.
LEMMA DroppedStep ==
    ASSUME Sound, Sound', NEW a \in Agents, Moves(a), txn' = txn, NEW c \in Lists[a],
           Hands[a] = None, at'[a].pc = "fail", at'[a].cur = c,
           Lists'[a] = Lists[a] \ {c}, \A b \in Agents : b # a => Lists'[b] = Lists[b]
    PROVE  Stacks!Next
<1>1. HandAt(at'[a]) = c /\ SendAt(at'[a]) = None BY DEF HandAt, SendAt
<1>2. c \in Sendings /\ Pendings' = Pendings /\ Sendings' = Sendings \ {c}
  BY <1>1, ListToHand
<1> QED BY <1>2, LoseStep

LEMMA ReleaseWorkStep ==
    ASSUME Sound, Sound', NEW th \in Threads, ReleaseWork(th)
    PROVE  Stacks!Next \/ UNCHANGED Stacks!vars
<1> DEFINE item == Head(thr[th].todo)
           T == [thr EXCEPT ![th].todo = Tail(@)]
<1>1. /\ Types /\ Tidied /\ at[th] \in Place /\ Shaped(Gone, th, at[th]) /\ th \in Agents
      /\ AlikeProcs(prc, prc)
  BY AtHere, OneOfAgents
<1>2. /\ at[th].pc = "work" /\ txn' = txn /\ prc' = prc /\ thr[th].todo # <<>>
      /\ thr' = T
      /\ at' = IF item.kind = "call"
               THEN [at EXCEPT ![th] = [Idle("fail") EXCEPT !.cur = item.call]] ELSE at
  BY DEF ReleaseWork
<1>3. at[th].cur = None BY <1>1, <1>2 DEF Shaped, WithCall
<1>4. Shorter(T, th) /\ thr[th].todo \in Seq(Work) /\ Tidy(thr[th].todo)
  <2>1. thr[th] \in LooseThread /\ thr \in LooseThreads BY <1>1 DEF Types, LooseThreads
  <2>2. thr[th].todo \in Seq(Work) /\ Tidy(thr[th].todo)
    BY <1>1, <2>1 DEF LooseThread, Tidied
  <2>3. Tail(thr[th].todo) \in Seq(Work) BY <1>2, <2>2, NamesTail
  <2> DEFINE s == Tail(thr[th].todo)
  <2>4. T = [thr EXCEPT ![th].todo = s] OBVIOUS
  <2> HIDE DEF s, T
  <2>5. [thr[th] EXCEPT !.todo = s] \in LooseThread
    BY <2>1, <2>3, TodoTyped DEF s
  <2>6. T \in LooseThreads BY <2>1, <2>4, <2>5 DEF LooseThreads
  <2>7. \A o \in Threads :
          /\ T[o].dead = thr[o].dead /\ T[o].stack = thr[o].stack
          /\ T[o].todo = IF o = th THEN s ELSE thr[o].todo
    BY <2>1, <2>4 DEF LooseThreads, LooseThread
  <2> QED BY <2>2, <2>6, <2>7 DEF Shorter, s
<1> HIDE DEF T
<1>5. CASE item.kind # "call"
  <2>1. at' = at BY <1>2, <1>5
  <2>2. Alike(thr, thr') BY <1>1, <1>2, <1>4, <1>5, ShorterAlike
  <2>3. Moves(th) BY <1>1, <2>1, StaysPut
  <2>4. UNCHANGED Stacks!vars BY <1>1, <1>2, <2>1, <2>2, <2>3, QuietMove
  <2> QED BY <2>4
<1>6. CASE item.kind = "call"
  <2> DEFINE c == item.call
             pl == [Idle("fail") EXCEPT !.cur = c]
  <2>1. at' = [at EXCEPT ![th] = pl] BY <1>2, <1>6
  <2>2. c \in Calls /\ Tidy(Tail(thr[th].todo)) BY <1>2, <1>4, <1>6, NamesTail
  <2>3. item.kind = "call" /\ c = item.call BY <1>6
  <2>4. T \in LooseThreads /\ \A o \in Threads : Tidy(T[o].todo)
    BY <1>1, <1>4, <2>2 DEF Shorter, Tidied
  <2>5. Alike(T, thr') BY <1>2, <2>4 DEF Alike
  <2>6. pl \in Place /\ pl.pc = "fail" /\ pl.cur = c BY <2>2 DEF Idle, Place
  <2> HIDE DEF c, pl
  <2>7. Moves(th) /\ at'[th] = pl BY <1>1, <2>1, <2>6, MovesTo
  <2>8. /\ c \in Lists[th] /\ Lists'[th] = Lists[th] \ {c}
        /\ \A b \in Agents : b # th => Lists'[b] = Lists[b]
    BY <1>1, <1>2, <1>4, <2>3, <2>5, ShorterTakes
  <2>9. Hands[th] = None BY <1>1, <1>2, <1>3 DEF Hands, HandAt
  <2>10. Stacks!Next BY <1>1, <1>2, <2>6, <2>7, <2>8, <2>9, DroppedStep
  <2> QED BY <2>10
<1> QED BY <1>5, <1>6

LEMMA ReleaseTodoStep ==
    ASSUME Sound, Sound', NEW p \in Procs, ReleaseTodo(p) PROVE Stacks!Next
<1> DEFINE c == Head(prc[p].todo)
           pl == [Idle("fail") EXCEPT !.cur = c]
<1>1. Types /\ Tidied /\ p \in Agents BY OneOfAgents DEF Sound
<1>2. /\ at[p].pc = "todo" /\ prc[p].todo # <<>> /\ txn' = txn /\ thr' = thr
      /\ prc' = [prc EXCEPT ![p].todo = Tail(@)] /\ at' = [at EXCEPT ![p] = pl]
  BY DEF ReleaseTodo
<1>3. c = Head(prc[p].todo) OBVIOUS
<1> HIDE DEF c
<1>4. /\ c \in Calls /\ c \in Lists[p] /\ Lists'[p] = Lists[p] \ {c}
      /\ \A b \in Agents : b # p => Lists'[b] = Lists[b]
  BY <1>1, <1>2, <1>3, ListShorter
<1>5. pl \in Place /\ pl.pc = "fail" /\ pl.cur = c BY <1>4 DEF Idle, Place
<1> HIDE DEF pl
<1>6. Moves(p) /\ at'[p] = pl BY <1>1, <1>2, <1>5, MovesTo
<1>7. Hands[p] = None BY <1>2, ProcessKnows
<1> QED BY <1>1, <1>2, <1>4, <1>5, <1>6, <1>7, DroppedStep

LEMMA StutterQuiet ==
    ASSUME Sound, Sound', UNCHANGED vars PROVE UNCHANGED Stacks!vars
<1>1. prc' = prc /\ thr' = thr /\ txn' = txn /\ at' = at BY DEF vars
<1>2. Hands' = Hands /\ Lists' = Lists /\ SendHands' = SendHands
  BY <1>1 DEF Hands, Lists, SendHands
<1>3. Pendings' = Pendings /\ Sendings' = Sendings BY <1>2 DEF Pendings, Sendings
<1> QED BY <1>1, <1>3, QuietStacks

-----------------------------------------------------------------------------
(* The refinement. *)

LEMMA InitStacks == Init => Stacks!Init
<1> SUFFICES ASSUME Init PROVE Stacks!Init OBVIOUS
<1>1. Sound BY InitSound
<1>2. Types BY <1>1 DEF Sound
<1>3. \A th \in Threads : Tops[th] = None BY InitIs
<1>4. \A th \in Threads : StackOf(th) = <<>> BY <1>1, <1>3, StackTop
<1>5. \A c \in Calls : txn[c].state = "new" /\ txn[c].fromParent = None BY DEF Init
<1>6. \A c \in Calls : PhaseOf(c) = "new" BY <1>2, <1>5, PhaseIs
<1>7. StackNow = [th \in Threads |-> <<>>] BY <1>4 DEF StackNow
<1>8. PhaseNow = [c \in Calls |-> "new"] BY <1>6 DEF PhaseNow
<1>9. ParentNow = [c \in Calls |-> None] BY <1>5 DEF ParentNow
<1> QED BY <1>7, <1>8, <1>9 DEF Stacks!Init, StackNow, PhaseNow, ParentNow

\* A step of CallStacks, or one that does not show there.
StacksStep == Stacks!Next \/ UNCHANGED Stacks!vars

LEMMA InDriverStacks ==
    ASSUME Sound, Sound', NEW th \in Threads, InDriver(th) PROVE StacksStep
<1>1. CASE FindTarget(th) BY <1>1, FindTargetQuiet DEF StacksStep
<1>2. CASE CallFails(th) BY <1>2, CallFailsQuiet DEF StacksStep
<1>3. CASE PushCall(th) BY <1>3, PushCallStep DEF StacksStep
<1>4. CASE QueueCall(th) BY <1>4, QueueCallStep DEF StacksStep
<1>5. CASE UndoCall(th) BY <1>5, UndoCallStep DEF StacksStep
<1>6. CASE EndCall(th) BY <1>6, EndCallQuiet DEF StacksStep
<1>7. CASE ReplyFrom(th) BY <1>7, ReplyFromQuiet DEF StacksStep
<1>8. CASE ReplyAcquire(th) BY <1>8, ReplyAcquireQuiet DEF StacksStep
<1>9. CASE BuildReply(th, "built") \/ BuildReply(th, "refused")
  BY <1>9, BuildReplyQuiet DEF StacksStep
<1>10. CASE QueueReply(th) BY <1>10, QueueReplyStep DEF StacksStep
<1>11. CASE EndReply(th) BY <1>11, EndReplyStep DEF StacksStep
<1>12. CASE ReplyFails(th) BY <1>12, ReplyFailsQuiet DEF StacksStep
<1>13. CASE FailFrom(th) BY <1>13, OneOfAgents, FailFromStep DEF StacksStep
<1>14. CASE FailAcquire(th) BY <1>14, OneOfAgents, FailAcquireStep DEF StacksStep
<1>15. CASE Deliver(th) BY <1>15, DeliverStep DEF StacksStep
<1>16. CASE DeliverFault(th) BY <1>16, DeliverFaultStep DEF StacksStep
<1>17. CASE ReleaseWork(th) BY <1>17, ReleaseWorkStep DEF StacksStep
<1>18. CASE ThreadReleased(th) BY <1>18, ThreadReleasedQuiet DEF StacksStep
<1> QED BY <1>1, <1>2, <1>3, <1>4, <1>5, <1>6, <1>7, <1>8, <1>9, <1>10, <1>11, <1>12,
           <1>13, <1>14, <1>15, <1>16, <1>17, <1>18 DEF InDriver

LEMMA ThreadNextStacks ==
    ASSUME Blocking, Sound, Sound', NEW th \in Threads, ThreadNext(th) PROVE StacksStep
<1>1. CASE \E p \in Procs : BeginCall(th, p)
  BY <1>1, BeginCallQuiet DEF StacksStep
<1>2. CASE BeginReply(th) BY <1>2, BeginReplyStep DEF StacksStep
<1>3. CASE ReadBegin(th) \/ Interrupted(th) BY <1>3, ReadBeginQuiet DEF StacksStep
<1>4. CASE ThreadExit(th) BY <1>4, ReleaseThreadStep DEF ThreadExit, StacksStep
<1>5. CASE ReadThread(th) BY <1>5, ReadThreadQuiet DEF StacksStep
<1>6. CASE ReadProc(th) BY <1>6, ReadProcQuiet DEF StacksStep
<1>7. CASE InDriver(th) BY <1>7, InDriverStacks
<1> QED BY <1>1, <1>2, <1>3, <1>4, <1>5, <1>6, <1>7 DEF ThreadNext, Answers, Waits, Reads

LEMMA ReleasingStacks ==
    ASSUME Sound, Sound', NEW p \in Procs, ReleaseProc(p) \/ Releasing(p)
    PROVE  StacksStep
<1>1. CASE ReleaseProc(p) BY <1>1, ReleaseProcQuiet DEF StacksStep
<1>2. CASE ReleaseNode(p) BY <1>2, ReleaseNodeQuiet DEF StacksStep
<1>3. CASE ReleaseTodo(p) BY <1>3, ReleaseTodoStep DEF StacksStep
<1>4. CASE ProcReleased(p) BY <1>4, ProcReleasedQuiet DEF StacksStep
<1>5. CASE FailFrom(p) BY <1>5, OneOfAgents, FailFromStep DEF StacksStep
<1>6. CASE FailAcquire(p) BY <1>6, OneOfAgents, FailAcquireStep DEF StacksStep
<1>7. CASE \E th \in Threads : ReleaseProcThread(p, th)
  BY <1>7, ReleaseThreadStep DEF ReleaseProcThread, StacksStep
<1> QED BY <1>1, <1>2, <1>3, <1>4, <1>5, <1>6, <1>7 DEF Releasing

LEMMA NextStacks ==
    Blocking /\ Sound /\ Sound' /\ [Next]_vars => [Stacks!Next]_(Stacks!vars)
<1> SUFFICES ASSUME Blocking, Sound, Sound', [Next]_vars PROVE StacksStep
  BY DEF StacksStep
<1>1. CASE \E th \in Threads : ThreadNext(th) BY <1>1, ThreadNextStacks
<1>2. CASE \E p \in Procs : ReleaseProc(p) \/ Releasing(p) BY <1>2, ReleasingStacks
<1>3. CASE UNCHANGED vars BY <1>3, StutterQuiet DEF StacksStep
<1> QED BY <1>1, <1>2, <1>3 DEF Next

\* The driver implements CallStacks: its two linked lists per thread, the lists
\* of work and the calls in the hands of threads and releases behave as one
\* stack of calls per thread, whichever threads and processes go.
THEOREM DriverImplementsStacks == Blocking => (Spec => StacksRefined)
<1>1. Init => Stacks!Init BY InitStacks
<1>2. ASSUME Blocking
      PROVE  Sound /\ Sound' /\ [Next]_vars => [Stacks!Next]_(Stacks!vars)
  BY <1>2, NextStacks
<1>3. ASSUME Blocking PROVE Spec => []Sound BY <1>3, SoundAlways
<1>4. ASSUME Blocking PROVE Spec => StacksRefined
  BY <1>1, <1>2, <1>3, <1>4, PTL DEF Spec, StacksRefined, Stacks!Spec
<1> QED BY <1>4
=============================================================================
