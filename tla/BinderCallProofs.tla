-------------------------- MODULE BinderCallProofs --------------------------
(***************************************************************************)
(* Theorems about BinderCall, for any finite sets of processes and threads *)
(* and any bounds, when threads use the driver as a blocking call: every   *)
(* transaction is in somebody's charge, and the two kinds of links between *)
(* transactions make up a stack for every thread.                          *)
(*                                                                         *)
(* The first parts are about links, lists and hands as mere data: what a   *)
(* stack looks like, and what each kind of step does to it.  Then each     *)
(* action of the driver is shown to be a step of one of these kinds.       *)
(***************************************************************************)
EXTENDS BinderCall, SequenceTheorems, FiniteSetTheorems, TLAPS

-----------------------------------------------------------------------------
(* Smallest and largest elements, and functions by iteration. *)

LEMMA Smallest ==
    ASSUME NEW T \in SUBSET Nat, T # {}
    PROVE  \E x \in T : \A y \in T : x <= y
<1> DEFINE Initials == {0 .. x : x \in T}
<1>1. Initials \subseteq FiniteSubsetsOf(Nat) /\ Initials # {}
  <2>1. \A x \in Nat : 0 .. x \subseteq Nat /\ IsFiniteSet(0 .. x) BY FS_Interval
  <2> QED BY <2>1 DEF FiniteSubsetsOf
<1>2. PICK B \in Initials : \A C \in Initials : ~(<<C, B>> \in StrictSubsetOrdering(Nat))
  <2>1. IsWellFoundedOn(StrictSubsetOrdering(Nat), FiniteSubsetsOf(Nat))
    BY FS_StrictSubsetOrderingWellFounded
  <2> HIDE DEF Initials
  <2> QED BY <1>1, <2>1, WFMin
<1>3. PICK x \in T : B = 0 .. x OBVIOUS
<1>4. ASSUME NEW y \in T, y < x PROVE FALSE
  <2>1. (0 .. y) \subseteq (0 .. x) /\ x \in 0 .. x /\ x \notin 0 .. y BY <1>4
  <2>2. 0 .. y \in SUBSET Nat /\ 0 .. x \in SUBSET Nat OBVIOUS
  <2>3. <<0 .. y, 0 .. x>> \in StrictSubsetOrdering(Nat)
    BY <2>1, <2>2 DEF StrictSubsetOrdering
  <2> QED BY <1>2, <1>3, <2>3
<1>5. \A y \in T : x <= y BY <1>4
<1> QED BY <1>3, <1>5

LEMMA Largest ==
    ASSUME NEW n \in Nat, NEW T \in SUBSET (1 .. n), T # {}
    PROVE  \E x \in T : \A y \in T : y <= x
<1> DEFINE D == {k \in 0 .. n : n - k \in T}
<1>1. D \in SUBSET Nat OBVIOUS
<1>2. D # {}
  <2>1. PICK y \in T : TRUE OBVIOUS
  <2>2. n - y \in 0 .. n /\ n - (n - y) = y OBVIOUS
  <2>3. n - y \in D BY <2>1, <2>2
  <2> QED BY <2>3
<1> HIDE DEF D
<1>3. PICK k \in D : \A l \in D : k <= l BY <1>1, <1>2, Smallest
<1>4. k \in 0 .. n /\ n - k \in T BY <1>3 DEF D
<1>5. ASSUME NEW y \in T PROVE y <= n - k
  <2>1. n - y \in 0 .. n /\ n - (n - y) = y OBVIOUS
  <2>2. n - y \in D BY <2>1 DEF D
  <2>3. k <= n - y BY <1>3, <2>2
  <2> QED BY <1>4, <2>3
<1> QED BY <1>4, <1>5

LEMMA MinIs ==
    ASSUME NEW T \in SUBSET Nat, T # {}
    PROVE  Min(T) \in T /\ \A y \in T : Min(T) <= y
<1>1. \E x \in T : \A y \in T : x <= y BY Smallest
<1> QED BY <1>1, Zenon DEF Min

\* f is x, then what g leads to, as long as it leads somewhere.
Iterates(f, g, x) ==
    f = [k \in 0 .. MaxCalls |->
           IF k = 0 THEN x ELSE IF f[k - 1] = None THEN None ELSE g[f[k - 1]]]

LEMMA NoneIsNoCall ==
    /\ None \notin Calls /\ Calls = 1 .. MaxCalls /\ MaxCalls \in Nat \ {0}
    /\ \A c \in Calls : c \in Nat
BY NoneAssumption, CallsAssumption DEF Calls

LEMMA IterationExists ==
    ASSUME NEW g \in [Calls -> Calls \union {None}], NEW x \in Calls \union {None}
    PROVE  \E f \in [0 .. MaxCalls -> Calls \union {None}] : Iterates(f, g, x)
<1> DEFINE V == Calls \union {None}
           Step(d) == IF d = None THEN None ELSE g[d]
           Upto(n, f) == f[0] = x /\ \A k \in 1 .. n : f[k] = Step(f[k - 1])
           Bad == {n \in Nat : ~\E f \in [0 .. n -> V] : Upto(n, f)}
<1>0. \A d \in V : Step(d) \in V BY NoneIsNoCall
<1> HIDE DEF Step
<1>1. Bad = {}
  <2> SUFFICES ASSUME Bad # {} PROVE FALSE OBVIOUS
  <2>1. Bad \in SUBSET Nat OBVIOUS
  <2> HIDE DEF Bad
  <2>2. PICK n \in Bad : \A m \in Bad : n <= m BY <2>1, Smallest
  <2>3. n \in Nat BY <2>1
  <2>4. CASE n = 0
    <3> DEFINE h == [k \in 0 .. 0 |-> x]
    <3>1. h \in [0 .. n -> V] /\ Upto(n, h) BY <2>4
    <3> QED BY <2>2, <3>1 DEF Bad
  <2>5. CASE n # 0
    <3>1. n - 1 \in Nat /\ ~(n <= n - 1) BY <2>3, <2>5
    <3>2. n - 1 \notin Bad BY <2>2, <3>1
    <3>3. PICK f \in [0 .. n - 1 -> V] : Upto(n - 1, f) BY <3>1, <3>2 DEF Bad
    <3> DEFINE h == [k \in 0 .. n |-> IF k = n THEN Step(f[n - 1]) ELSE f[k]]
    <3>4. f[n - 1] \in V /\ \A k \in 0 .. n : k # n => k \in 0 .. n - 1
      BY <2>3, <2>5
    <3>5. h \in [0 .. n -> V] BY <1>0, <3>4
    <3>6. h[0] = x BY <2>3, <2>5, <3>3
    <3>7. ASSUME NEW k \in 1 .. n PROVE h[k] = Step(h[k - 1])
      <4>1. k - 1 \in 0 .. n /\ k \in 0 .. n /\ k - 1 # n BY <2>3
      <4>2. h[k - 1] = f[k - 1] BY <4>1
      <4>3. CASE k = n BY <4>1, <4>2, <4>3
      <4>4. CASE k # n
        <5>1. k \in 1 .. n - 1 BY <2>3, <4>4
        <5> QED BY <3>3, <4>1, <4>2, <4>4, <5>1
      <4> QED BY <4>3, <4>4
    <3> HIDE DEF h
    <3>8. Upto(n, h) BY <3>6, <3>7
    <3> QED BY <2>2, <2>3, <3>5, <3>8 DEF Bad
  <2> QED BY <2>4, <2>5
<1>2. MaxCalls \in Nat BY NoneIsNoCall
<1>3. PICK f \in [0 .. MaxCalls -> V] : Upto(MaxCalls, f) BY <1>1, <1>2
<1> DEFINE h == [k \in 0 .. MaxCalls |-> IF k = 0 THEN x ELSE Step(f[k - 1])]
<1>4. \A k \in 0 .. MaxCalls : f[k] = IF k = 0 THEN x ELSE Step(f[k - 1])
  BY <1>2, <1>3
<1>5. f = h BY <1>3, <1>4
<1>6. Iterates(f, g, x) BY <1>5 DEF Iterates, Step
<1> QED BY <1>6

\* Numbers fall along the iteration, so that it ends.
LEMMA IterationFalls ==
    ASSUME NEW g \in [Calls -> Calls \union {None}], NEW x \in Calls \union {None},
           \A d \in Calls : g[d] # None => g[d] < d,
           NEW f \in [0 .. MaxCalls -> Calls \union {None}], Iterates(f, g, x)
    PROVE  \A k \in 0 .. MaxCalls : f[k] # None => f[k] + k <= MaxCalls
<1> DEFINE Bad == {k \in 0 .. MaxCalls : f[k] # None /\ ~(f[k] + k <= MaxCalls)}
<1>0. MaxCalls \in Nat BY NoneIsNoCall
<1>1. \A k \in 0 .. MaxCalls :
        f[k] = IF k = 0 THEN x ELSE IF f[k - 1] = None THEN None ELSE g[f[k - 1]]
  BY Zenon DEF Iterates
<1> SUFFICES ASSUME Bad # {} PROVE FALSE OBVIOUS
<1>2. Bad \in SUBSET Nat OBVIOUS
<1> HIDE DEF Bad
<1>3. PICK k \in Bad : \A l \in Bad : k <= l BY <1>2, Smallest
<1>4. k \in 0 .. MaxCalls /\ f[k] # None /\ ~(f[k] + k <= MaxCalls) BY <1>3 DEF Bad
<1>5. f[k] \in 1 .. MaxCalls BY <1>4 DEF Calls
<1>6. k # 0 BY <1>0, <1>4, <1>5
<1>7. k - 1 \in 0 .. MaxCalls /\ ~(k <= k - 1) BY <1>0, <1>4, <1>6
<1>8. f[k - 1] # None /\ f[k] = g[f[k - 1]] BY <1>1, <1>4, <1>6
<1>9. f[k - 1] \in Calls BY <1>7, <1>8
<1>10. f[k] < f[k - 1] BY <1>4, <1>8, <1>9
<1>11. f[k - 1] + (k - 1) <= MaxCalls BY <1>3, <1>7, <1>8 DEF Bad
<1>12. f[k - 1] \in Nat BY <1>9, NoneIsNoCall
<1>13. k \in Nat /\ f[k] \in Nat BY <1>0, <1>4, <1>5
<1> QED BY <1>0, <1>4, <1>10, <1>11, <1>12, <1>13

LEMMA IterationTyped ==
    ASSUME NEW g \in [Calls -> Calls \union {None}], NEW x \in Calls \union {None},
           NEW f, DOMAIN f = 0 .. MaxCalls, f[0] = x,
           \A k \in 1 .. MaxCalls :
             /\ f[k - 1] = None => f[k] = None
             /\ f[k - 1] \in Calls => f[k] = g[f[k - 1]]
    PROVE  \A k \in 0 .. MaxCalls : f[k] \in Calls \union {None}
<1> DEFINE V == Calls \union {None}
           Bad == {k \in 0 .. MaxCalls : f[k] \notin V}
<1>0. MaxCalls \in Nat BY NoneIsNoCall
<1> SUFFICES ASSUME Bad # {} PROVE FALSE OBVIOUS
<1>1. Bad \in SUBSET Nat OBVIOUS
<1> HIDE DEF Bad
<1>2. PICK k \in Bad : \A l \in Bad : k <= l BY <1>1, Smallest
<1>3. k \in 0 .. MaxCalls /\ f[k] \notin V BY <1>2 DEF Bad
<1>4. k # 0 BY <1>3
<1>5. k - 1 \in 0 .. MaxCalls /\ ~(k <= k - 1) /\ k \in 1 .. MaxCalls
  BY <1>0, <1>3, <1>4
<1>6. f[k - 1] \in V BY <1>2, <1>5 DEF Bad
<1>7. f[k] \in V BY <1>5, <1>6
<1> QED BY <1>3, <1>7

LEMMA IterationOrder ==
    ASSUME NEW g \in [Calls -> Calls \union {None}], NEW x \in Calls \union {None},
           \A d \in Calls : g[d] # None => g[d] < d,
           NEW f \in [0 .. MaxCalls -> Calls \union {None}], Iterates(f, g, x),
           NEW k \in 0 .. MaxCalls
    PROVE  \A j \in 0 .. MaxCalls : k <= j /\ f[j] # None => f[k] # None /\ f[j] <= f[k]
<1> DEFINE Bad == {j \in 0 .. MaxCalls :
                     k <= j /\ f[j] # None /\ ~(f[k] # None /\ f[j] <= f[k])}
<1>0. MaxCalls \in Nat BY NoneIsNoCall
<1>1. \A l \in 0 .. MaxCalls :
        f[l] = IF l = 0 THEN x ELSE IF f[l - 1] = None THEN None ELSE g[f[l - 1]]
  BY Zenon DEF Iterates
<1> SUFFICES ASSUME Bad # {} PROVE FALSE OBVIOUS
<1>2. Bad \in SUBSET Nat OBVIOUS
<1> HIDE DEF Bad
<1>3. PICK j \in Bad : \A l \in Bad : j <= l BY <1>2, Smallest
<1>4. j \in 0 .. MaxCalls /\ k <= j /\ f[j] # None /\ ~(f[k] # None /\ f[j] <= f[k])
  BY <1>3 DEF Bad
<1>5. f[j] \in Calls /\ f[j] \in Nat BY <1>4, NoneIsNoCall
<1>6. j # k BY <1>4, <1>5
<1>7. j - 1 \in 0 .. MaxCalls /\ k <= j - 1 /\ ~(j <= j - 1) /\ j # 0
  BY <1>0, <1>4, <1>6
<1>8. f[j - 1] # None /\ f[j] = g[f[j - 1]] BY <1>1, <1>4, <1>7
<1>9. f[j - 1] \in Calls /\ f[j] < f[j - 1] BY <1>4, <1>7, <1>8
<1>10. f[k] # None /\ f[j - 1] <= f[k] BY <1>3, <1>7, <1>8 DEF Bad
<1>11. f[k] \in Nat /\ f[j - 1] \in Nat BY <1>9, <1>10, NoneIsNoCall
<1> QED BY <1>4, <1>5, <1>9, <1>10, <1>11

-----------------------------------------------------------------------------
(* The calls on whose behalf a call was made. *)

\* X is what txn is in some state.
Up(X, S) == \A x \in S : X[x].fromParent # None => X[x].fromParent \in S

\* c and the calls up the chain of callers.
Anc(X, c) == {y \in Calls : \A S \in SUBSET Calls : c \in S /\ Up(X, S) => y \in S}

Transactions == [Calls -> Transaction]

LEMMA AncIs ==
    ASSUME NEW X \in Transactions, NEW c \in Calls
    PROVE  /\ c \in Anc(X, c) /\ Anc(X, c) \subseteq Calls /\ Up(X, Anc(X, c))
           /\ \A S \in SUBSET Calls : c \in S /\ Up(X, S) => Anc(X, c) \subseteq S
<1>1. c \in Anc(X, c) /\ Anc(X, c) \subseteq Calls BY DEF Anc
<1>2. ASSUME NEW S \in SUBSET Calls, c \in S, Up(X, S) PROVE Anc(X, c) \subseteq S
  BY <1>2 DEF Anc
<1>3. Up(X, Anc(X, c))
  <2> SUFFICES ASSUME NEW x \in Anc(X, c), X[x].fromParent # None
               PROVE  X[x].fromParent \in Anc(X, c)
    BY DEF Up
  <2>1. x \in Calls BY DEF Anc
  <2>2. X[x] \in Transaction BY <2>1 DEF Transactions
  <2>3. X[x].fromParent \in Calls BY <2>2 DEF Transaction
  <2>4. ASSUME NEW S \in SUBSET Calls, c \in S, Up(X, S) PROVE X[x].fromParent \in S
    <3>1. x \in S BY <1>2, <2>4
    <3> QED BY <2>4, <3>1 DEF Up
  <2> QED BY <2>3, <2>4 DEF Anc
<1> QED BY <1>1, <1>2, <1>3

LEMMA AncNext ==
    ASSUME NEW X \in Transactions, NEW c \in Calls, NEW x \in Anc(X, c), x # c
    PROVE  \E y \in Anc(X, c) : X[y].fromParent = x
<1> DEFINE S == Anc(X, c) \ {x}
<1> SUFFICES ASSUME \A y \in Anc(X, c) : X[y].fromParent # x PROVE FALSE OBVIOUS
<1>1. c \in S /\ S \in SUBSET Calls BY AncIs
<1>2. Up(X, S) BY AncIs DEF Up
<1> HIDE DEF S
<1>3. Anc(X, c) \subseteq S BY <1>1, <1>2, AncIs
<1> QED BY <1>3 DEF S

LEMMA AncSame ==
    ASSUME NEW X \in Transactions, NEW Y \in Transactions, NEW c \in Calls,
           \A x \in Anc(X, c) : Y[x].fromParent = X[x].fromParent
    PROVE  Anc(Y, c) = Anc(X, c)
<1>1. Anc(Y, c) \subseteq Anc(X, c)
  <2>1. Up(Y, Anc(X, c)) BY AncIs DEF Up
  <2> QED BY <2>1, AncIs
<1>2. Anc(X, c) \subseteq Anc(Y, c)
  <2>1. Up(X, Anc(Y, c)) BY <1>1, AncIs DEF Up
  <2> QED BY <2>1, AncIs
<1> QED BY <1>1, <1>2

Falling(X) ==
    \A c \in Calls : /\ X[c].fromParent # None => X[c].fromParent < c
                     /\ X[c].toParent # None => X[c].toParent < c

LEMMA AncSmaller ==
    ASSUME NEW X \in Transactions, Falling(X), NEW c \in Calls
    PROVE  \A x \in Anc(X, c) : x <= c
<1> DEFINE S == {x \in Calls : x <= c}
<1>1. \A d \in Calls : d \in Nat BY NoneIsNoCall
<1>2. c \in S /\ S \in SUBSET Calls BY <1>1
<1>3. Up(X, S)
  <2> SUFFICES ASSUME NEW x \in S, X[x].fromParent # None PROVE X[x].fromParent \in S
    BY DEF Up
  <2>1. x \in Calls /\ x <= c OBVIOUS
  <2>2. X[x] \in Transaction BY <2>1 DEF Transactions
  <2>3. X[x].fromParent \in Calls /\ X[x].fromParent < x
    BY <2>1, <2>2 DEF Transaction, Falling
  <2>4. X[x].fromParent \in Nat /\ x \in Nat /\ c \in Nat BY <1>1, <2>1, <2>3
  <2>5. X[x].fromParent <= c BY <2>1, <2>3, <2>4
  <2> QED BY <2>3, <2>5
<1> HIDE DEF S
<1>4. Anc(X, c) \subseteq S BY <1>2, <1>3, AncIs
<1> QED BY <1>4 DEF S

-----------------------------------------------------------------------------
(* The transactions X, the tops S of the stacks, the released threads D, the *)
(* calls P on a list or in hands, and those R of them that are answered.     *)

LiveIn(X) == {c \in Calls : X[c].state = "live"}

\* The calls on the stack of th: those it made, and those it serves.
Made(X, th) == {c \in Calls : X[c].from = th}
Srv(X, P, th) == {c \in LiveIn(X) \ P : X[c].toThread = th}
On(X, P, th) == Made(X, th) \union Srv(X, P, th)

Under(X, th, c) ==
    IF X[c].toThread = th THEN X[c].toParent ELSE X[c].fromParent

\* c was made by the server of b for b, and is not answered.
Kid(X, R, c, b) == c \in LiveIn(X) /\ c \notin R /\ X[c].fromParent = b

Leaf(X, R, c) ==
    c \in LiveIn(X) /\ c \notin R /\ \A k \in Calls : ~Kid(X, R, k, c)

CoreTypes(X, S, D, P, R) ==
    /\ X \in Transactions /\ S \in [Threads -> Calls \union {None}]
    /\ D \in SUBSET Threads /\ P \in SUBSET Calls /\ R \in SUBSET Calls

Blank(X) ==
    \A c \in Calls \ LiveIn(X) :
      /\ X[c].from = None /\ X[c].toThread = None
      /\ X[c].fromParent = None /\ X[c].toParent = None

Foreign(X) ==
    \A c \in Calls : X[c].from # None /\ X[c].toThread # None =>
                       Owner[X[c].from] # Owner[X[c].toThread]

Marked(X, P, R) ==
    P \subseteq LiveIn(X) /\ R \subseteq P /\ \A c \in R : X[c].from = None

Kids(X, P, R) ==
    /\ \A b, c \in Calls : Kid(X, R, c, b) =>
         b \in LiveIn(X) /\ b \notin P /\ X[b].toThread = X[c].from
    /\ \A b, c, d \in Calls : Kid(X, R, c, b) /\ Kid(X, R, d, b) => c = d

\* A call whose server was released is left to a call the server had made.
Orphans(X, P, R) ==
    \A b \in LiveIn(X) : b \notin P /\ X[b].toThread = None =>
      \E c \in Calls : Kid(X, R, c, b)

Absent(X, D, P) == \A th \in D : On(X, P, th) = {}

\* From the top down, the stack of a thread is its calls by falling number.
Stacked(X, S, P, th) ==
    /\ S[th] = None => On(X, P, th) = {}
    /\ S[th] # None => S[th] \in On(X, P, th) /\ \A d \in On(X, P, th) : d <= S[th]
    /\ \A c \in On(X, P, th) :
         /\ Under(X, th, c) = None => \A d \in On(X, P, th) : c <= d
         /\ Under(X, th, c) # None =>
              /\ Under(X, th, c) \in On(X, P, th)
              /\ \A d \in On(X, P, th) : d <= Under(X, th, c) \/ c <= d

\* A thread that serves a call above another serves it on behalf of that one.
Behalf(X, P) ==
    \A e \in LiveIn(X) : e \notin P /\ X[e].toThread # None /\ X[e].toParent # None =>
      X[X[e].toParent].from = X[e].toThread /\ X[e].toParent \in Anc(X, e)

Core(X, S, D, P, R) ==
    /\ CoreTypes(X, S, D, P, R)
    /\ Falling(X) /\ Blank(X) /\ Foreign(X)
    /\ Marked(X, P, R) /\ Kids(X, P, R) /\ Orphans(X, P, R)
    /\ Absent(X, D, P) /\ (\A th \in Threads : Stacked(X, S, P, th))
    /\ Behalf(X, P)

LEMMA FieldTypes ==
    ASSUME NEW X \in Transactions, NEW c \in Calls
    PROVE  /\ X[c] \in Transaction /\ X[c].state \in {"new", "live", "freed"}
           /\ X[c].from \in Threads \union {None}
           /\ X[c].toThread \in Threads \union {None}
           /\ X[c].fromParent \in Calls \union {None}
           /\ X[c].toParent \in Calls \union {None}
BY DEF Transactions, Transaction

LEMMA NoneIsNobody == None \notin Threads /\ None \notin Procs /\ Procs \cap Threads = {}
BY NoneAssumption

\* Whoever is up the chain from c is live, and not pending.
LEMMA AncLive ==
    ASSUME NEW X, NEW S, NEW D, NEW P, NEW R, Core(X, S, D, P, R),
           NEW c \in Calls, c \in LiveIn(X), c \notin R, NEW x \in Anc(X, c), x # c
    PROVE  /\ x \in LiveIn(X) /\ x \notin P
           /\ \E y \in Anc(X, c) : Kid(X, R, y, x)
<1>0. X \in Transactions BY DEF Core, CoreTypes
<1> DEFINE T == {y \in Calls : y = c \/ (y \in LiveIn(X) /\ y \notin P)}
<1>1. c \in T /\ T \in SUBSET Calls OBVIOUS
<1>2. \A y \in T : y \in LiveIn(X) /\ y \notin R BY DEF Core, Marked
<1>3. Up(X, T)
  <2> SUFFICES ASSUME NEW y \in T, X[y].fromParent # None PROVE X[y].fromParent \in T
    BY DEF Up
  <2>1. X[y].fromParent \in Calls BY <1>0, FieldTypes
  <2>2. Kid(X, R, y, X[y].fromParent) BY <1>2 DEF Kid
  <2>3. X[y].fromParent \in LiveIn(X) /\ X[y].fromParent \notin P
    BY <2>1, <2>2 DEF Core, Kids
  <2> QED BY <2>1, <2>3
<1>4. Anc(X, c) \subseteq T BY <1>0, <1>1, <1>3, AncIs
<1>5. PICK y \in Anc(X, c) : X[y].fromParent = x BY <1>0, AncNext
<1>6. Kid(X, R, y, x) BY <1>2, <1>4, <1>5 DEF Kid
<1> QED BY <1>4, <1>6

\* Of two calls made on behalf of the same one, a leaf is below the other.
LEMMA OneChain ==
    ASSUME NEW X, NEW S, NEW D, NEW P, NEW R, Core(X, S, D, P, R),
           NEW c \in Calls, Leaf(X, R, c),
           NEW d \in Calls, d \in LiveIn(X), d \notin R,
           NEW x \in Anc(X, c) \cap Anc(X, d)
    PROVE  d \in Anc(X, c)
<1>0. X \in Transactions /\ Falling(X) BY DEF Core, CoreTypes
<1> DEFINE T == Anc(X, c) \cap Anc(X, d)
<1>1. T \in SUBSET (1 .. MaxCalls) /\ T # {} BY <1>0, AncIs, NoneIsNoCall
<1> HIDE DEF T
<1>2. PICK z \in T : \A w \in T : w <= z BY <1>1, Largest, NoneIsNoCall
<1>3. z \in Anc(X, c) /\ z \in Anc(X, d) BY <1>2 DEF T
<1> SUFFICES ASSUME d # z PROVE FALSE BY <1>3
<1>4. PICK y \in Anc(X, d) : Kid(X, R, y, z) BY <1>3, AncLive
<1>5. y \in Calls /\ z \in Calls BY <1>0, <1>3, <1>4, AncIs
<1>6. z # c BY <1>4, <1>5 DEF Leaf
<1>7. PICK v \in Anc(X, c) : Kid(X, R, v, z)
  <2>1. c \in LiveIn(X) /\ c \notin R BY DEF Leaf
  <2> QED BY <1>3, <1>6, <2>1, AncLive
<1>8. v \in Calls BY <1>0, <1>7, AncIs
<1>9. v = y BY <1>4, <1>5, <1>7, <1>8 DEF Core, Kids
<1>10. y \in T BY <1>4, <1>7, <1>9 DEF T
<1>11. y <= z BY <1>2, <1>10
<1>12. z < y BY <1>0, <1>4, <1>5, NoneIsNoCall DEF Falling, Kid
<1>13. y \in Nat /\ z \in Nat BY <1>5, NoneIsNoCall
<1> QED BY <1>11, <1>12, <1>13

LEMMA LeafUnique ==
    ASSUME NEW X, NEW S, NEW D, NEW P, NEW R, Core(X, S, D, P, R),
           NEW c \in Calls, Leaf(X, R, c), NEW d \in Calls, Leaf(X, R, d),
           NEW x \in Anc(X, c) \cap Anc(X, d)
    PROVE  c = d
<1>1. d \in LiveIn(X) /\ d \notin R /\ c \in LiveIn(X) /\ c \notin R BY DEF Leaf
<1>2. d \in Anc(X, c) BY <1>1, OneChain
<1> SUFFICES ASSUME c # d PROVE FALSE OBVIOUS
<1>3. PICK y \in Anc(X, c) : Kid(X, R, y, d) BY <1>1, <1>2, AncLive
<1>4. X \in Transactions BY DEF Core, CoreTypes
<1>5. y \in Calls BY <1>3, <1>4, AncIs
<1> QED BY <1>3, <1>5 DEF Leaf

\* The call just above another one on a stack.
LEMMA Above ==
    ASSUME NEW X, NEW S, NEW D, NEW P, NEW R, Core(X, S, D, P, R),
           NEW th \in Threads, NEW b \in On(X, P, th), b # S[th]
    PROVE  \E c \in On(X, P, th) : Under(X, th, c) = b /\ b < c
<1> DEFINE O == On(X, P, th)
           T == {d \in O : b < d}
<1>1. O \subseteq Calls BY DEF On, Made, Srv, LiveIn
<1>2. Stacked(X, S, P, th) BY DEF Core
<1>3. S[th] \in O /\ b <= S[th] BY <1>2 DEF Stacked
<1>4. \A d \in O : d \in Nat BY <1>1, NoneIsNoCall
<1> HIDE DEF O
<1>5. b \in O BY DEF O
<1>6. S[th] \in T BY <1>3, <1>4, <1>5
<1>7. T \in SUBSET Nat /\ T # {} BY <1>4, <1>6
<1>8. PICK c \in T : \A d \in T : c <= d BY <1>7, Smallest
<1>9. c \in O /\ b < c /\ c \in Calls BY <1>1, <1>8
<1>10. Under(X, th, c) # None
  <2>1. ~(c <= b) BY <1>4, <1>5, <1>9
  <2> QED BY <1>2, <1>5, <1>9, <2>1 DEF Stacked, O
<1>11. Under(X, th, c) \in O /\ (b <= Under(X, th, c) \/ c <= b)
  BY <1>2, <1>5, <1>9, <1>10 DEF Stacked, O
<1>12. Under(X, th, c) < c
  <2>1. X \in Transactions BY DEF Core, CoreTypes
  <2> QED BY <1>9, <1>10, <2>1 DEF Core, Falling, Under
<1>13. ~(b < Under(X, th, c))
  <2> SUFFICES ASSUME b < Under(X, th, c) PROVE FALSE OBVIOUS
  <2>1. c <= Under(X, th, c) BY <1>8, <1>11
  <2> QED BY <1>4, <1>9, <1>11, <1>12, <2>1
<1>14. Under(X, th, c) = b
  BY <1>4, <1>5, <1>9, <1>11, <1>13
<1> QED BY <1>9, <1>14 DEF O

\* What is above a call on a stack was made by its server, or is served on
\* behalf of it.
LEMMA AboveIs ==
    ASSUME NEW X, NEW S, NEW D, NEW P, NEW R, Core(X, S, D, P, R),
           NEW th \in Threads, NEW b \in On(X, P, th), b # S[th]
    PROVE  \E c \in On(X, P, th) :
             \/ c \in Made(X, th) /\ Kid(X, R, c, b)
             \/ /\ c \in Srv(X, P, th) /\ b \in Made(X, th)
                /\ c # b /\ b \in Anc(X, c)
<1>1. PICK c \in On(X, P, th) : Under(X, th, c) = b /\ b < c BY Above
<1>2. b \in Calls /\ c \in Calls BY DEF On, Made, Srv, LiveIn
<1>3. X \in Transactions BY DEF Core, CoreTypes
<1>4. CASE c \in Made(X, th)
  <2>1. X[c].from = th /\ X[c].from # None BY <1>4, NoneIsNobody DEF Made
  <2>2. X[c].toThread # th BY <1>2, <2>1, NoneIsNobody DEF Core, Foreign
  <2>3. X[c].fromParent = b BY <1>1, <2>2 DEF Under
  <2>4. c \in LiveIn(X) BY <1>2, <2>1 DEF Core, Blank
  <2>5. c \notin R BY <2>1 DEF Core, Marked
  <2> QED BY <1>1, <1>4, <2>3, <2>4, <2>5 DEF Kid
<1>5. CASE c \in Srv(X, P, th)
  <2>1. c \in LiveIn(X) /\ c \notin P /\ X[c].toThread = th BY <1>5 DEF Srv
  <2>2. X[c].toParent = b BY <1>1, <2>1 DEF Under
  <2>3. X[b].from = th /\ b \in Anc(X, c)
    BY <1>2, <2>1, <2>2, NoneIsNobody, NoneIsNoCall DEF Core, Behalf
  <2>4. c # b BY <1>1, <1>2, NoneIsNoCall
  <2> QED BY <1>1, <1>2, <1>5, <2>3, <2>4 DEF Made
<1> QED BY <1>4, <1>5 DEF On

\* A pending call is on top of its caller's stack.
LEMMA TopOf ==
    ASSUME NEW X, NEW S, NEW D, NEW P, NEW R, Core(X, S, D, P, R),
           NEW c \in P, X[c].from # None
    PROVE  X[c].from \in Threads /\ X[c].from \notin D /\ S[X[c].from] = c
<1> DEFINE th == X[c].from
<1>1. X \in Transactions /\ c \in Calls BY DEF Core, CoreTypes
<1>2. th \in Threads BY <1>1, FieldTypes
<1>3. c \in On(X, P, th) BY <1>1 DEF On, Made
<1>4. th \notin D BY <1>3 DEF Core, Absent
<1>5. S[th] = c
  <2> SUFFICES ASSUME c # S[th] PROVE FALSE OBVIOUS
  <2>1. PICK e \in On(X, P, th) :
             \/ e \in Made(X, th) /\ Kid(X, R, e, c)
             \/ e \in Srv(X, P, th) /\ c \in Made(X, th) /\ e # c /\ c \in Anc(X, e)
    BY <1>2, <1>3, AboveIs
  <2>2. e \in Calls BY DEF On, Made, Srv, LiveIn
  <2>3. CASE Kid(X, R, e, c) BY <1>1, <2>2, <2>3 DEF Core, Kids
  <2>4. CASE e \in Srv(X, P, th) /\ e # c /\ c \in Anc(X, e)
    <3>1. e \in LiveIn(X) /\ e \notin R BY <2>4 DEF Srv, Core, Marked
    <3> QED BY <2>2, <2>4, <3>1, AncLive
  <2> QED BY <2>1, <2>3, <2>4
<1> QED BY <1>2, <1>4, <1>5

\* Nobody was called on behalf of a call that is pending, or on top of the
\* stack of its server.
LEMMA PendingLeaf ==
    ASSUME NEW X, NEW S, NEW D, NEW P, NEW R, Core(X, S, D, P, R),
           NEW c \in P, c \notin R
    PROVE  Leaf(X, R, c)
BY DEF Core, CoreTypes, Marked, Kids, Leaf

LEMMA ServedTop ==
    ASSUME NEW X, NEW S, NEW D, NEW P, NEW R, Core(X, S, D, P, R),
           NEW th \in Threads, S[th] # None, X[S[th]].toThread = th
    PROVE  /\ S[th] \in Srv(X, P, th) /\ S[th] \in Calls /\ S[th] \notin P
           /\ S[th] \notin R /\ S[th] \notin Made(X, th) /\ th \notin D
           /\ Leaf(X, R, S[th])
<1> DEFINE b == S[th]
<1>1. X \in Transactions BY DEF Core, CoreTypes
<1>2. b \in On(X, P, th) /\ \A d \in On(X, P, th) : d <= b BY DEF Core, Stacked
<1>3. b \in Calls BY <1>2 DEF On, Made, Srv, LiveIn
<1>4. b \notin Made(X, th) BY <1>3, NoneIsNobody DEF Core, Foreign, Made
<1>5. b \in Srv(X, P, th) BY <1>2, <1>4 DEF On
<1>6. b \in LiveIn(X) /\ b \notin P /\ b \notin R BY <1>5 DEF Srv, Core, Marked
<1>7. th \notin D BY <1>2 DEF Core, Absent
<1>8. ASSUME NEW k \in Calls, Kid(X, R, k, b) PROVE FALSE
  <2>1. X[k].from = th BY <1>3, <1>8 DEF Core, Kids
  <2>2. k <= b BY <1>2, <2>1 DEF On, Made
  <2>3. b < k BY <1>3, <1>8, NoneIsNoCall DEF Core, Falling, Kid
  <2> QED BY <1>3, <2>2, <2>3, NoneIsNoCall
<1> QED BY <1>3, <1>4, <1>5, <1>6, <1>7, <1>8 DEF Leaf

-----------------------------------------------------------------------------
(* Stacks that stay, lose their top or get a new one. *)

LEMMA OnCalls ==
    ASSUME NEW X, NEW P, NEW th
    PROVE  /\ On(X, P, th) \subseteq Calls
           /\ \A c \in On(X, P, th) : c \in Nat /\ c # None
BY NoneIsNoCall DEF On, Made, Srv, LiveIn

LEMMA UnderFalls ==
    ASSUME NEW X, Falling(X), NEW th, NEW c \in Calls, Under(X, th, c) # None
    PROVE  Under(X, th, c) < c
BY DEF Falling, Under

LEMMA StackStays ==
    ASSUME NEW X, NEW S, NEW P, NEW th, Stacked(X, S, P, th),
           NEW Y, NEW T, NEW Q, On(Y, Q, th) = On(X, P, th), T[th] = S[th],
           \A c \in On(X, P, th) : Under(Y, th, c) = Under(X, th, c)
    PROVE  Stacked(Y, T, Q, th)
BY DEF Stacked

LEMMA StackPops ==
    ASSUME NEW X, Falling(X), NEW S, NEW P, NEW th, Stacked(X, S, P, th),
           S[th] # None, NEW Y, NEW T, NEW Q,
           On(Y, Q, th) = On(X, P, th) \ {S[th]}, T[th] = Under(X, th, S[th]),
           \A c \in On(Y, Q, th) : Under(Y, th, c) = Under(X, th, c)
    PROVE  Stacked(Y, T, Q, th)
<1> DEFINE O == On(X, P, th)
           N == On(Y, Q, th)
           t == S[th]
           U(c) == Under(X, th, c)
<1>1. \A c \in O : c \in Nat /\ c # None /\ (U(c) # None => U(c) < c)
  BY OnCalls, UnderFalls
<1>2. t \in O /\ \A d \in O : d <= t BY DEF Stacked
<1>3. \A c \in O : /\ U(c) = None => \A d \in O : c <= d
                   /\ U(c) # None => U(c) \in O /\ \A d \in O : d <= U(c) \/ c <= d
  BY DEF Stacked
<1>4. N = O \ {t} /\ T[th] = U(t) /\ \A c \in N : Under(Y, th, c) = U(c) OBVIOUS
<1> HIDE DEF O, N, t, U
<1>5. ASSUME T[th] = None PROVE N = {}
  <2> SUFFICES ASSUME NEW d \in N PROVE FALSE OBVIOUS
  <2>1. d \in O /\ d # t BY <1>4
  <2>2. d <= t /\ t <= d BY <1>2, <1>3, <1>4, <1>5, <2>1
  <2> QED BY <1>1, <1>2, <2>1, <2>2
<1>6. ASSUME T[th] # None PROVE T[th] \in N /\ \A d \in N : d <= T[th]
  <2>1. U(t) \in O /\ U(t) < t BY <1>1, <1>2, <1>3, <1>4, <1>6
  <2>2. U(t) \in N BY <1>1, <1>2, <1>4, <2>1
  <2>3. ASSUME NEW d \in N PROVE d <= U(t)
    <3>1. d \in O /\ d # t BY <1>4
    <3>2. d <= t /\ (d <= U(t) \/ t <= d) BY <1>2, <1>3, <1>4, <1>6, <3>1
    <3> QED BY <1>1, <1>2, <3>1, <3>2
  <2> QED BY <1>4, <2>2, <2>3
<1>7. ASSUME NEW c \in N
      PROVE  /\ U(c) = None => \A d \in N : c <= d
             /\ U(c) # None => U(c) \in N /\ \A d \in N : d <= U(c) \/ c <= d
  <2>1. c \in O BY <1>4
  <2>2. U(c) # None => U(c) # t BY <1>1, <1>2, <2>1
  <2> QED BY <1>3, <1>4, <2>1, <2>2
<1> QED BY <1>4, <1>5, <1>6, <1>7 DEF Stacked, N

LEMMA StackGrows ==
    ASSUME NEW X, Falling(X), NEW S, NEW P, NEW th, Stacked(X, S, P, th),
           NEW Y, NEW T, NEW Q, NEW c \in Calls, On(Y, Q, th) = On(X, P, th) \union {c},
           S[th] # None => S[th] < c,
           T[th] = c, Under(Y, th, c) = S[th],
           \A d \in On(X, P, th) : Under(Y, th, d) = Under(X, th, d)
    PROVE  Stacked(Y, T, Q, th)
<1> DEFINE O == On(X, P, th)
           N == On(Y, Q, th)
           t == S[th]
           U(d) == Under(X, th, d)
<1>1. \A d \in O : d \in Nat /\ d # None BY OnCalls
<1>2. c \in Nat /\ c # None BY NoneIsNoCall
<1>3. (t = None => O = {}) /\ (t # None => t \in O /\ \A d \in O : d <= t)
  BY DEF Stacked
<1>4. \A d \in O : /\ U(d) = None => \A e \in O : d <= e
                   /\ U(d) # None => U(d) \in O /\ \A e \in O : e <= U(d) \/ d <= e
  BY DEF Stacked
<1>5. N = O \union {c} /\ Under(Y, th, c) = t /\ \A d \in O : Under(Y, th, d) = U(d)
  OBVIOUS
<1>6. t # None => t < c OBVIOUS
<1> HIDE DEF O, N, t, U
<1>7. \A d \in O : d < c BY <1>1, <1>2, <1>3, <1>6
<1>8. \A d \in N : d <= c BY <1>1, <1>2, <1>5, <1>7
<1>9. ASSUME NEW d \in O
      PROVE  /\ U(d) = None => \A e \in N : d <= e
             /\ U(d) # None => U(d) \in N /\ \A e \in N : e <= U(d) \/ d <= e
  <2>1. d <= c BY <1>5, <1>8
  <2> QED BY <1>4, <1>5, <2>1
<1>10. /\ t = None => \A e \in N : c <= e
       /\ t # None => t \in N /\ \A e \in N : e <= t \/ c <= e
  <2>1. c <= c BY <1>2
  <2> QED BY <1>3, <1>5, <2>1
<1>11. \A d \in N : /\ Under(Y, th, d) = None => \A e \in N : d <= e
                    /\ Under(Y, th, d) # None =>
                         /\ Under(Y, th, d) \in N
                         /\ \A e \in N : e <= Under(Y, th, d) \/ d <= e
  BY <1>5, <1>9, <1>10
<1>12. c \in N BY <1>5
<1> QED BY <1>2, <1>8, <1>11, <1>12 DEF Stacked, N

-----------------------------------------------------------------------------
(* What a step does to the others. *)

\* w has made the call it waits for an answer to, on whose behalf c was made.
WaitsFor(X, S, w, c) == S[w] # None /\ X[S[w]].from = w /\ S[w] \in Anc(X, c)

\* The step from X, S to Y, T of agent a, after which the threads E are
\* released, with its hands on the calls C only.
Calm(X, S, P, R, Y, T, E, a, C) ==
    /\ \A c \in Calls : c \notin C =>
         /\ Y[c].toThread = X[c].toThread \/ (c \notin P /\ X[c].toThread \in E)
         /\ Y[c].from = X[c].from \/ (Y[c].from = None /\ X[c].from \in E)
    /\ \A b \in Threads : b # a /\ b \notin E =>
         /\ T[b] = S[b] \/ (S[b] \in P /\ X[S[b]].from = b)
         /\ S[b] # None /\ X[S[b]].toThread = b =>
              T[b] = S[b] /\ Y[S[b]].toThread = b /\ S[b] \notin C
    /\ \A w \in Threads, c \in Calls :
         /\ w \notin E /\ c \notin C /\ Leaf(X, R, c) /\ (c \notin P \/ S[w] # c)
         /\ WaitsFor(X, S, w, c)
         => WaitsFor(Y, T, w, c)

LEMMA Waited ==
    ASSUME NEW X, NEW S, NEW D, NEW P, NEW R, Core(X, S, D, P, R),
           NEW w \in Threads, NEW c \in Calls, Leaf(X, R, c), c \notin P \/ S[w] # c,
           WaitsFor(X, S, w, c)
    PROVE  /\ S[w] \in Calls /\ S[w] \notin P /\ X[S[w]].from = w /\ w \notin D
           /\ S[w] \in Anc(X, c) /\ c \in LiveIn(X) /\ c \notin R
<1>1. X \in Transactions BY DEF Core, CoreTypes
<1>2. S[w] \in Anc(X, c) /\ X[S[w]].from = w BY DEF WaitsFor
<1>3. c \in LiveIn(X) /\ c \notin R BY DEF Leaf
<1>4. S[w] \in Calls BY <1>1, <1>2, AncIs
<1>5. S[w] \notin P
  <2>1. CASE S[w] = c BY <2>1
  <2>2. CASE S[w] # c BY <1>2, <1>3, <2>2, AncLive
  <2> QED BY <2>1, <2>2
<1>6. S[w] \in On(X, P, w) BY <1>2, <1>4 DEF On, Made
<1>7. w \notin D BY <1>6 DEF Core, Absent
<1> QED BY <1>2, <1>3, <1>4, <1>5, <1>7

\* Only the transaction of c changes, to t.
Rewritten(X, c, t, Y) ==
    Y \in Transactions /\ Y[c] = t /\ \A d \in Calls : d # c => Y[d] = X[d]

\* Only the top of the stack of w changes, to t.
Retopped(S, w, t, T) ==
    /\ T \in [Threads -> Calls \union {None}]
    /\ \A th \in Threads : T[th] = IF th = w THEN t ELSE S[th]

\* The call that fails in place of c, whose caller is gone.
Heir(X, R, c) ==
    IF X[c].from = None /\ c \notin R /\ X[c].fromParent # None
    THEN {X[c].fromParent} ELSE {}

\* A pending call is freed, or left to the call it was made on behalf of.
LEMMA Removed ==
    ASSUME NEW X, NEW S, NEW D, NEW P, NEW R, Core(X, S, D, P, R),
           NEW c \in P, NEW N, N = Heir(X, R, c),
           NEW Y, Rewritten(X, c, Freed, Y),
           NEW T, Retopped(S, X[c].from, X[c].fromParent, T),
           NEW Q, Q = (P \ {c}) \union N, NEW a
    PROVE  /\ Core(Y, T, D, Q, R \ {c})
           /\ Calm(X, S, P, R, Y, T, D, a, {c} \union N)
<1>0. CoreTypes(X, S, D, P, R) /\ Falling(X) /\ Blank(X) /\ Foreign(X)
      /\ Marked(X, P, R) /\ Kids(X, P, R) /\ Orphans(X, P, R) /\ Absent(X, D, P)
      /\ Behalf(X, P) /\ \A th \in Threads : Stacked(X, S, P, th)
  BY DEF Core
<1>1. X \in Transactions /\ c \in Calls /\ c \in LiveIn(X)
  BY <1>0 DEF CoreTypes, Marked
<1>3. Y \in Transactions /\ Y[c] = Freed /\ \A d \in Calls : d # c => Y[d] = X[d]
  BY DEF Rewritten
<1>2. /\ T \in [Threads -> Calls \union {None}]
      /\ \A th \in Threads :
           T[th] = IF th = X[c].from THEN X[c].fromParent ELSE S[th]
  BY DEF Retopped
<1>4. LiveIn(Y) = LiveIn(X) \ {c} BY <1>3 DEF LiveIn, Freed
<1>5. \A k \in Calls : ~Kid(X, R, k, c) BY <1>0, <1>1 DEF Kids
<1>6. \A k, b \in Calls : Kid(Y, R \ {c}, k, b) <=> Kid(X, R, k, b) /\ k # c
  BY <1>3, <1>4 DEF Kid
<1>7. \A n \in N : /\ n \in Calls /\ n \in LiveIn(X) /\ n \notin P /\ n # c
                   /\ X[n].toThread = None /\ Kid(X, R, c, n)
  <2> SUFFICES ASSUME NEW n \in N
               PROVE  /\ n \in Calls /\ n \in LiveIn(X) /\ n \notin P /\ n # c
                      /\ X[n].toThread = None /\ Kid(X, R, c, n)
    OBVIOUS
  <2>1. n = X[c].fromParent /\ n # None /\ c \notin R /\ X[c].from = None BY DEF Heir
  <2>2. n \in Calls BY <1>1, <2>1, FieldTypes
  <2>3. Kid(X, R, c, n) BY <1>1, <2>1 DEF Kid
  <2> QED BY <1>0, <1>1, <2>1, <2>2, <2>3 DEF Kids
<1>8. \A e \in LiveIn(X) : e # c /\ e \notin R => Anc(Y, e) = Anc(X, e)
  <2> SUFFICES ASSUME NEW e \in LiveIn(X), e # c, e \notin R
               PROVE  Anc(Y, e) = Anc(X, e)
    OBVIOUS
  <2>1. e \in Calls BY DEF LiveIn
  <2>2. c \notin Anc(X, e) BY <2>1, AncLive
  <2>3. \A x \in Anc(X, e) : x \in Calls /\ x # c BY <1>1, <2>1, <2>2, AncIs
  <2>4. \A x \in Anc(X, e) : Y[x].fromParent = X[x].fromParent BY <1>3, <2>3
  <2> QED BY <1>1, <1>3, <2>1, <2>4, AncSame
<1>9. \A th \in Threads : /\ On(Y, Q, th) = On(X, P, th) \ {c}
                          /\ th # X[c].from => On(Y, Q, th) = On(X, P, th)
  <2> SUFFICES ASSUME NEW th \in Threads
               PROVE  /\ On(Y, Q, th) = On(X, P, th) \ {c}
                      /\ th # X[c].from => On(Y, Q, th) = On(X, P, th)
    OBVIOUS
  <2>1. Made(Y, th) = Made(X, th) \ {c}
    BY <1>1, <1>3, NoneIsNobody DEF Made, Freed
  <2>2. Srv(Y, Q, th) = Srv(X, P, th)
    <3>1. \A d \in Calls : d \in Q <=> (d \in P /\ d # c) \/ d \in N BY <1>7
    <3>2. \A d \in LiveIn(Y) : Y[d] = X[d] /\ d \in LiveIn(X) /\ d # c /\ d \in Calls
      BY <1>3, <1>4 DEF LiveIn
    <3>3. \A d \in N : X[d].toThread # th BY <1>7, NoneIsNobody
    <3>4. ASSUME NEW d \in Srv(Y, Q, th) PROVE d \in Srv(X, P, th)
      BY <3>1, <3>2 DEF Srv
    <3>5. ASSUME NEW d \in Srv(X, P, th) PROVE d \in Srv(Y, Q, th)
      <4>1. d \in LiveIn(X) /\ d \notin P /\ X[d].toThread = th BY DEF Srv
      <4>2. d # c /\ d \in LiveIn(Y) BY <1>4, <4>1
      <4>3. d \notin N /\ d \in Calls BY <3>3, <4>1, <4>2, <3>2
      <4> QED BY <3>1, <3>2, <4>1, <4>2, <4>3 DEF Srv
    <3> QED BY <3>4, <3>5
  <2>3. c \notin Srv(X, P, th) BY DEF Srv
  <2>4. th # X[c].from => c \notin Made(X, th) BY DEF Made
  <2> QED BY <2>1, <2>2, <2>3, <2>4 DEF On
<1>10. X[c].from # None => X[c].from \in Threads /\ S[X[c].from] = c BY TopOf
<1>11. CoreTypes(Y, T, D, Q, R \ {c})
  BY <1>0, <1>2, <1>3, <1>7 DEF CoreTypes
<1>12. Falling(Y) BY <1>0, <1>1, <1>3 DEF Falling, Freed
<1>13. Blank(Y)
  <2> SUFFICES ASSUME NEW d \in Calls \ LiveIn(Y)
               PROVE  /\ Y[d].from = None /\ Y[d].toThread = None
                      /\ Y[d].fromParent = None /\ Y[d].toParent = None
    BY DEF Blank
  <2>1. CASE d = c BY <1>3, <2>1 DEF Freed
  <2>2. CASE d # c
    <3>1. d \in Calls \ LiveIn(X) /\ Y[d] = X[d] BY <1>3, <1>4, <2>2
    <3> QED BY <1>0, <3>1 DEF Blank
  <2> QED BY <2>1, <2>2
<1>14. Foreign(Y)
  <2> SUFFICES ASSUME NEW d \in Calls, Y[d].from # None, Y[d].toThread # None
               PROVE  Owner[Y[d].from] # Owner[Y[d].toThread]
    BY DEF Foreign
  <2>1. d # c BY <1>3 DEF Freed
  <2> QED BY <1>0, <1>3, <2>1 DEF Foreign
<1>15. Marked(Y, Q, R \ {c})
  <2>1. Q \subseteq LiveIn(Y) BY <1>0, <1>4, <1>7 DEF Marked
  <2>2. R \ {c} \subseteq Q BY <1>0 DEF Marked
  <2>3. \A d \in R \ {c} : d \in Calls /\ X[d].from = None /\ Y[d] = X[d]
    BY <1>0, <1>3 DEF Marked, CoreTypes
  <2> QED BY <2>1, <2>2, <2>3 DEF Marked
<1>16. Kids(Y, Q, R \ {c})
  <2>1. ASSUME NEW b \in Calls, NEW k \in Calls, Kid(Y, R \ {c}, k, b)
        PROVE  b \in LiveIn(Y) /\ b \notin Q /\ Y[b].toThread = Y[k].from
    <3>1. Kid(X, R, k, b) /\ k # c BY <1>6, <2>1
    <3>2. b \in LiveIn(X) /\ b \notin P /\ X[b].toThread = X[k].from
      BY <1>0, <3>1 DEF Kids
    <3>3. b # c BY <1>5, <3>1
    <3>4. b \notin N
      <4> SUFFICES ASSUME b \in N PROVE FALSE OBVIOUS
      <4>1. Kid(X, R, c, b) BY <1>7
      <4> QED BY <1>0, <1>1, <3>1, <4>1 DEF Kids
    <3> QED BY <1>3, <1>4, <3>1, <3>2, <3>3, <3>4
  <2>2. ASSUME NEW b \in Calls, NEW k \in Calls, NEW l \in Calls,
               Kid(Y, R \ {c}, k, b), Kid(Y, R \ {c}, l, b)
        PROVE  k = l
    BY <1>0, <1>6, <2>2 DEF Kids
  <2> QED BY <2>1, <2>2 DEF Kids
<1>17. Orphans(Y, Q, R \ {c})
  <2> SUFFICES ASSUME NEW b \in LiveIn(Y), b \notin Q, Y[b].toThread = None
               PROVE  \E k \in Calls : Kid(Y, R \ {c}, k, b)
    BY DEF Orphans
  <2>1. b \in Calls /\ b # c /\ b \in LiveIn(X) /\ Y[b] = X[b]
    BY <1>3, <1>4 DEF LiveIn
  <2>2. b \notin P BY <2>1
  <2>3. PICK k \in Calls : Kid(X, R, k, b) BY <1>0, <2>1, <2>2 DEF Orphans
  <2>4. k # c
    <3> SUFFICES ASSUME k = c PROVE FALSE OBVIOUS
    <3>1. X[c].from = None BY <1>0, <2>1, <2>3 DEF Kids
    <3>2. c \notin R /\ X[c].fromParent = b BY <2>3 DEF Kid
    <3>3. b \in N BY <2>1, <3>1, <3>2, NoneIsNoCall DEF Heir
    <3> QED BY <3>3
  <2> QED BY <1>6, <2>1, <2>3, <2>4
<1>18. Absent(Y, D, Q)
  <2>1. D \subseteq Threads BY <1>0 DEF CoreTypes
  <2> QED BY <1>0, <1>9, <2>1 DEF Absent
<1>19. ASSUME NEW th \in Threads PROVE Stacked(Y, T, Q, th)
  <2>1. \A d \in On(Y, Q, th) : Under(Y, th, d) = Under(X, th, d)
    <3> SUFFICES ASSUME NEW d \in On(Y, Q, th) PROVE Under(Y, th, d) = Under(X, th, d)
      OBVIOUS
    <3>1. d \in Calls /\ d # c
      <4>1. d \in Calls BY OnCalls
      <4>2. d \in On(X, P, th) \ {c} BY <1>9
      <4> QED BY <4>1, <4>2
    <3>2. Y[d] = X[d] BY <1>3, <3>1
    <3> QED BY <3>2 DEF Under
  <2>2. CASE th # X[c].from
    <3>1. T[th] = S[th] BY <1>2, <2>2
    <3>2. On(Y, Q, th) = On(X, P, th) BY <1>9, <2>2
    <3>3. Stacked(X, S, P, th) BY <1>0
    <3> QED BY <2>1, <3>1, <3>2, <3>3, StackStays
  <2>3. CASE th = X[c].from
    <3>1. S[th] = c BY <1>10, <2>3, NoneIsNobody
    <3>2. X[c].toThread # th BY <1>0, <1>1, <2>3, NoneIsNobody DEF Foreign
    <3>3. Under(X, th, S[th]) = X[c].fromParent BY <3>1, <3>2 DEF Under
    <3>4. T[th] = Under(X, th, S[th]) BY <1>2, <2>3, <3>3
    <3>5. On(Y, Q, th) = On(X, P, th) \ {S[th]} BY <1>9, <3>1
    <3>6. Stacked(X, S, P, th) /\ S[th] # None BY <1>0, <1>1, <3>1, NoneIsNoCall
    <3>7. Falling(X) BY <1>0
    <3> QED BY <2>1, <3>4, <3>5, <3>6, <3>7, StackPops
  <2> QED BY <2>2, <2>3
<1>20. Behalf(Y, Q)
  <2> SUFFICES ASSUME NEW e \in LiveIn(Y), e \notin Q, Y[e].toThread # None,
                      Y[e].toParent # None
               PROVE  Y[Y[e].toParent].from = Y[e].toThread /\ Y[e].toParent \in Anc(Y, e)
    BY DEF Behalf
  <2>1. e \in Calls /\ e # c /\ e \in LiveIn(X) /\ Y[e] = X[e]
    BY <1>3, <1>4 DEF LiveIn
  <2>2. e \notin P /\ e \notin R BY <1>0, <2>1 DEF Marked
  <2>3. X[X[e].toParent].from = X[e].toThread /\ X[e].toParent \in Anc(X, e)
    BY <1>0, <2>1, <2>2 DEF Behalf
  <2>4. X[e].toParent \in Calls BY <1>1, <2>1, FieldTypes
  <2>5. X[e].toParent # c
    <3>1. X[e].toParent < e BY <1>0, <2>1 DEF Falling
    <3>2. X[e].toParent # e BY <2>1, <3>1, NoneIsNoCall
    <3> QED BY <2>1, <2>2, <2>3, <3>2, AncLive
  <2> QED BY <1>3, <1>8, <2>1, <2>2, <2>3, <2>4, <2>5
<1>21. Core(Y, T, D, Q, R \ {c})
  BY <1>11, <1>12, <1>13, <1>14, <1>15, <1>16, <1>17, <1>18, <1>19, <1>20 DEF Core
<1>22. ASSUME NEW b \in Threads
       PROVE  /\ T[b] = S[b] \/ (S[b] \in P /\ X[S[b]].from = b)
              /\ S[b] # None /\ X[S[b]].toThread = b =>
                   T[b] = S[b] /\ Y[S[b]].toThread = b /\ S[b] \notin {c} \union N
  <2>1. T[b] = S[b] \/ (S[b] \in P /\ X[S[b]].from = b)
    BY <1>2, <1>10, NoneIsNobody
  <2>2. ASSUME S[b] # None, X[S[b]].toThread = b
        PROVE  T[b] = S[b] /\ Y[S[b]].toThread = b /\ S[b] \notin {c} \union N
    <3>1. S[b] \in Calls /\ S[b] \notin P /\ S[b] \notin Made(X, b) BY <2>2, ServedTop
    <3>2. S[b] # c /\ T[b] = S[b] BY <2>1, <3>1
    <3>3. S[b] \notin N BY <1>7, <2>2, NoneIsNobody
    <3> QED BY <1>3, <2>2, <3>1, <3>2, <3>3
  <2> QED BY <2>1, <2>2
<1>23. ASSUME NEW w \in Threads, NEW d \in Calls, d # c, Leaf(X, R, d),
              d \notin P \/ S[w] # d, WaitsFor(X, S, w, d)
       PROVE  WaitsFor(Y, T, w, d)
  <2>1. /\ S[w] \in Calls /\ S[w] \notin P /\ X[S[w]].from = w
        /\ S[w] \in Anc(X, d) /\ d \in LiveIn(X) /\ d \notin R
    BY <1>23, Waited
  <2>2. S[w] # c /\ T[w] = S[w] BY <1>2, <1>10, <2>1, NoneIsNobody
  <2> QED BY <1>3, <1>8, <1>23, <2>1, <2>2 DEF WaitsFor
<1>24. \A d \in Calls : d # c => Y[d].toThread = X[d].toThread /\ Y[d].from = X[d].from
  BY <1>3
<1>25. Calm(X, S, P, R, Y, T, D, a, {c} \union N)
  BY <1>22, <1>23, <1>24 DEF Calm
<1> QED BY <1>21, <1>25

\* A thread makes a call.
LEMMA Pushed ==
    ASSUME NEW X, NEW S, NEW D, NEW P, NEW R, Core(X, S, D, P, R),
           NEW th \in Threads, th \notin D, S[th] = None \/ X[S[th]].toThread = th,
           NEW c \in Calls, c \notin LiveIn(X), \A d \in LiveIn(X) : d < c,
           NEW t \in Threads \union {None}, t # None => Owner[t] # Owner[th],
           NEW Y, Rewritten(X, c, [state |-> "live", from |-> th, toThread |-> t,
                                   fromParent |-> S[th], toParent |-> None], Y),
           NEW T, Retopped(S, th, c, T),
           NEW Q, Q = P \union {c}
    PROVE  /\ Core(Y, T, D, Q, R)
           /\ Calm(X, S, P, R, Y, T, D, th, {c})
<1>0. CoreTypes(X, S, D, P, R) /\ Falling(X) /\ Blank(X) /\ Foreign(X)
      /\ Marked(X, P, R) /\ Kids(X, P, R) /\ Orphans(X, P, R) /\ Absent(X, D, P)
      /\ Behalf(X, P) /\ \A o \in Threads : Stacked(X, S, P, o)
  BY DEF Core
<1>1. X \in Transactions /\ c \in Calls /\ c \notin P /\ c \notin R
  BY <1>0 DEF CoreTypes, Marked
<1>2. /\ T \in [Threads -> Calls \union {None}]
      /\ T[th] = c /\ \A o \in Threads : o # th => T[o] = S[o]
  BY DEF Retopped
<1>3. /\ Y \in Transactions /\ \A d \in Calls : d # c => Y[d] = X[d]
      /\ Y[c].state = "live" /\ Y[c].from = th /\ Y[c].toThread = t
      /\ Y[c].fromParent = S[th] /\ Y[c].toParent = None
  BY DEF Rewritten
<1>4. LiveIn(Y) = LiveIn(X) \union {c} BY <1>3 DEF LiveIn
<1>5. S[th] # None => /\ S[th] \in LiveIn(X) /\ S[th] \notin P /\ S[th] \in Calls
                      /\ S[th] # c /\ X[S[th]].toThread = th /\ Leaf(X, R, S[th])
  <2> HAVE S[th] # None
  <2>1. X[S[th]].toThread = th OBVIOUS
  <2>2. Leaf(X, R, S[th]) /\ S[th] \notin P /\ S[th] \in Calls BY <2>1, ServedTop
  <2>3. S[th] \in LiveIn(X) BY <2>2 DEF Leaf
  <2> QED BY <2>1, <2>2, <2>3
<1>6. \A k, b \in Calls : Kid(Y, R, k, b) <=> Kid(X, R, k, b) \/ (k = c /\ b = S[th])
  BY <1>1, <1>3, <1>4 DEF Kid
<1>7. \A e \in LiveIn(X) : Anc(Y, e) = Anc(X, e)
  <2> SUFFICES ASSUME NEW e \in LiveIn(X) PROVE Anc(Y, e) = Anc(X, e) OBVIOUS
  <2>1. e \in Calls /\ e < c BY DEF LiveIn
  <2>2. \A x \in Anc(X, e) : x \in Calls /\ x <= e BY <1>0, <1>1, <2>1, AncIs, AncSmaller
  <2>3. \A x \in Anc(X, e) : x # c BY <2>1, <2>2, NoneIsNoCall
  <2>4. \A x \in Anc(X, e) : Y[x].fromParent = X[x].fromParent BY <1>3, <2>2, <2>3
  <2> QED BY <1>1, <1>3, <2>1, <2>4, AncSame
<1>8. \A o \in Threads : /\ o # th => On(Y, Q, o) = On(X, P, o)
                         /\ o = th => On(Y, Q, o) = On(X, P, o) \union {c}
  <2> SUFFICES ASSUME NEW o \in Threads
               PROVE  /\ o # th => On(Y, Q, o) = On(X, P, o)
                      /\ o = th => On(Y, Q, o) = On(X, P, o) \union {c}
    OBVIOUS
  <2>1. X[c].from = None BY <1>0 DEF Blank
  <2>2. /\ o # th => Made(Y, o) = Made(X, o)
        /\ o = th => Made(Y, o) = Made(X, o) \union {c}
    BY <1>1, <1>3, <2>1, NoneIsNobody DEF Made
  <2>3. Srv(Y, Q, o) = Srv(X, P, o)
    <3>1. \A d \in LiveIn(X) : d # c /\ d \in Calls /\ Y[d] = X[d] BY <1>3 DEF LiveIn
    <3> QED BY <1>4, <3>1 DEF Srv
  <2> QED BY <2>2, <2>3 DEF On
<1>11. CoreTypes(Y, T, D, Q, R) BY <1>0, <1>1, <1>2, <1>3 DEF CoreTypes
<1>12. Falling(Y)
  <2>1. S[th] # None => S[th] < c BY <1>5
  <2> QED BY <1>0, <1>1, <1>3, <2>1 DEF Falling
<1>13. Blank(Y) BY <1>0, <1>3, <1>4 DEF Blank
<1>14. Foreign(Y)
  <2> SUFFICES ASSUME NEW d \in Calls, Y[d].from # None, Y[d].toThread # None
               PROVE  Owner[Y[d].from] # Owner[Y[d].toThread]
    BY DEF Foreign
  <2>1. CASE d = c BY <1>3, <2>1
  <2>2. CASE d # c BY <1>0, <1>3, <2>2 DEF Foreign
  <2> QED BY <2>1, <2>2
<1>15. Marked(Y, Q, R) BY <1>0, <1>1, <1>3, <1>4 DEF Marked, CoreTypes
<1>16. Kids(Y, Q, R)
  <2>1. ASSUME NEW b \in Calls, NEW k \in Calls, Kid(Y, R, k, b)
        PROVE  b \in LiveIn(Y) /\ b \notin Q /\ Y[b].toThread = Y[k].from
    <3>1. CASE Kid(X, R, k, b)
      <4>1. b \in LiveIn(X) /\ b \notin P /\ X[b].toThread = X[k].from
        BY <1>0, <3>1 DEF Kids
      <4>2. k \in LiveIn(X) BY <3>1 DEF Kid
      <4>3. b # c /\ k # c BY <4>1, <4>2
      <4> QED BY <1>3, <1>4, <4>1, <4>3
    <3>2. CASE k = c /\ b = S[th] BY <1>3, <1>4, <1>5, <3>2, NoneIsNoCall
    <3> QED BY <1>6, <2>1, <3>1, <3>2
  <2>2. ASSUME NEW b \in Calls, NEW k \in Calls, NEW l \in Calls,
               Kid(Y, R, k, b), Kid(Y, R, l, b)
        PROVE  k = l
    <3>1. S[th] = b => ~Kid(X, R, k, b) /\ ~Kid(X, R, l, b)
      BY <1>5, NoneIsNoCall DEF Leaf
    <3>2. Kid(X, R, k, b) /\ Kid(X, R, l, b) => k = l BY <1>0 DEF Kids
    <3> QED BY <1>6, <2>2, <3>1, <3>2
  <2> QED BY <2>1, <2>2 DEF Kids
<1>17. Orphans(Y, Q, R)
  <2> SUFFICES ASSUME NEW b \in LiveIn(Y), b \notin Q, Y[b].toThread = None
               PROVE  \E k \in Calls : Kid(Y, R, k, b)
    BY DEF Orphans
  <2>1. b \in Calls /\ b \in LiveIn(X) /\ b \notin P /\ Y[b] = X[b]
    BY <1>3, <1>4 DEF LiveIn
  <2>2. PICK k \in Calls : Kid(X, R, k, b) BY <1>0, <2>1 DEF Orphans
  <2> QED BY <1>6, <2>1, <2>2
<1>18. Absent(Y, D, Q)
  <2>1. D \subseteq Threads BY <1>0 DEF CoreTypes
  <2> QED BY <1>0, <1>8, <2>1 DEF Absent
<1>19. ASSUME NEW o \in Threads PROVE Stacked(Y, T, Q, o)
  <2>1. Stacked(X, S, P, o) /\ Falling(X) BY <1>0
  <2>2. \A d \in On(X, P, o) : Under(Y, o, d) = Under(X, o, d)
    <3> SUFFICES ASSUME NEW d \in On(X, P, o) PROVE Under(Y, o, d) = Under(X, o, d)
      OBVIOUS
    <3>1. d \in Calls BY OnCalls
    <3>2. d # c
      <4>1. d \in LiveIn(X) BY <1>0, <3>1, NoneIsNobody DEF On, Made, Srv, Blank
      <4> QED BY <4>1
    <3> QED BY <1>3, <3>1, <3>2 DEF Under
  <2>3. CASE o # th
    <3>1. On(Y, Q, o) = On(X, P, o) BY <1>8, <2>3
    <3>2. T[o] = S[o] BY <1>2, <2>3
    <3> QED BY <2>1, <2>2, <3>1, <3>2, StackStays
  <2>4. CASE o = th
    <3>1. On(Y, Q, o) = On(X, P, o) \union {c} BY <1>8, <2>4
    <3>2. S[o] # None => S[o] < c BY <1>5, <2>4
    <3>3. T[o] = c BY <1>2, <2>4
    <3>4. Under(Y, o, c) = S[o]
      <4>1. t # o BY <2>4, NoneIsNobody
      <4> QED BY <1>3, <2>4, <4>1 DEF Under
    <3> QED BY <2>1, <2>2, <3>1, <3>2, <3>3, <3>4, StackGrows
  <2> QED BY <2>3, <2>4
<1>20. Behalf(Y, Q)
  <2> SUFFICES ASSUME NEW e \in LiveIn(Y), e \notin Q, Y[e].toThread # None,
                      Y[e].toParent # None
               PROVE  Y[Y[e].toParent].from = Y[e].toThread /\ Y[e].toParent \in Anc(Y, e)
    BY DEF Behalf
  <2>1. e \in Calls /\ e # c /\ e \in LiveIn(X) /\ Y[e] = X[e] /\ e \notin P
    BY <1>3, <1>4 DEF LiveIn
  <2>2. X[X[e].toParent].from = X[e].toThread /\ X[e].toParent \in Anc(X, e)
    BY <1>0, <2>1 DEF Behalf
  <2>3. X[e].toParent \in Calls /\ X[c].from = None
    BY <1>0, <1>1, <2>1, FieldTypes DEF Blank
  <2>4. X[e].toParent # c BY <2>1, <2>2, <2>3
  <2> QED BY <1>3, <1>7, <2>1, <2>2, <2>3, <2>4
<1>21. Core(Y, T, D, Q, R)
  BY <1>11, <1>12, <1>13, <1>14, <1>15, <1>16, <1>17, <1>18, <1>19, <1>20 DEF Core
<1>22. ASSUME NEW b \in Threads, b # th
       PROVE  /\ T[b] = S[b] \/ (S[b] \in P /\ X[S[b]].from = b)
              /\ S[b] # None /\ X[S[b]].toThread = b =>
                   T[b] = S[b] /\ Y[S[b]].toThread = b /\ S[b] \notin {c}
  <2>1. T[b] = S[b] BY <1>2, <1>22
  <2>2. ASSUME S[b] # None, X[S[b]].toThread = b
        PROVE  Y[S[b]].toThread = b /\ S[b] \notin {c}
    <3>1. S[b] \in Calls /\ S[b] \in LiveIn(X) BY <2>2, ServedTop DEF Leaf
    <3>2. S[b] # c BY <3>1
    <3> QED BY <1>3, <2>2, <3>1, <3>2
  <2> QED BY <2>1, <2>2
<1>23. ASSUME NEW w \in Threads, NEW d \in Calls, d # c, Leaf(X, R, d),
              d \notin P \/ S[w] # d, WaitsFor(X, S, w, d)
       PROVE  WaitsFor(Y, T, w, d)
  <2>1. /\ S[w] \in Calls /\ S[w] \notin P /\ X[S[w]].from = w
        /\ S[w] \in Anc(X, d) /\ d \in LiveIn(X) /\ S[w] # None
    BY <1>23, Waited DEF WaitsFor
  <2>2. w # th
    <3> SUFFICES ASSUME w = th PROVE FALSE OBVIOUS
    <3>1. S[th] \notin Made(X, th) BY <2>1, ServedTop
    <3> QED BY <2>1, <3>1 DEF Made
  <2>3. S[w] # c
    <3>1. X[c].from = None BY <1>0 DEF Blank
    <3> QED BY <2>1, <3>1, NoneIsNobody
  <2>4. T[w] = S[w] BY <1>2, <2>2
  <2> QED BY <1>3, <1>7, <2>1, <2>3, <2>4 DEF WaitsFor
<1>24. \A d \in Calls : d # c => Y[d].toThread = X[d].toThread /\ Y[d].from = X[d].from
  BY <1>3
<1>25. Calm(X, S, P, R, Y, T, D, th, {c})
  BY <1>22, <1>23, <1>24 DEF Calm
<1> QED BY <1>21, <1>25

\* A server takes the call it is to answer off its stack.
LEMMA TakenOff ==
    ASSUME NEW X, NEW S, NEW D, NEW P, NEW R, Core(X, S, D, P, R),
           NEW th \in Threads, NEW c, c = S[th], c # None, X[c].toThread = th,
           NEW T, Retopped(S, th, X[c].toParent, T),
           NEW Q, Q = P \union {c}
    PROVE  /\ Core(X, T, D, Q, R)
           /\ Calm(X, S, P, R, X, T, D, th, {c})
<1>0. CoreTypes(X, S, D, P, R) /\ Falling(X) /\ Blank(X) /\ Foreign(X)
      /\ Marked(X, P, R) /\ Kids(X, P, R) /\ Orphans(X, P, R) /\ Absent(X, D, P)
      /\ Behalf(X, P) /\ \A o \in Threads : Stacked(X, S, P, o)
  BY DEF Core
<1>1. /\ c \in Srv(X, P, th) /\ c \in Calls /\ c \notin P /\ c \notin R
      /\ c \notin Made(X, th) /\ th \notin D /\ Leaf(X, R, c)
  BY ServedTop
<1>2. /\ T \in [Threads -> Calls \union {None}] /\ T[th] = X[c].toParent
      /\ \A o \in Threads : o # th => T[o] = S[o]
  BY DEF Retopped
<1>3. c \in LiveIn(X) BY <1>1 DEF Leaf
<1>4. \A o \in Threads : /\ o # th => On(X, Q, o) = On(X, P, o)
                         /\ o = th => On(X, Q, o) = On(X, P, o) \ {c}
  <2> SUFFICES ASSUME NEW o \in Threads
               PROVE  /\ o # th => On(X, Q, o) = On(X, P, o)
                      /\ o = th => On(X, Q, o) = On(X, P, o) \ {c}
    OBVIOUS
  <2>1. Srv(X, Q, o) = Srv(X, P, o) \ {c} BY DEF Srv
  <2>2. o # th => c \notin Srv(X, P, o) BY DEF Srv
  <2>3. o = th => c \notin Made(X, o) BY <1>1
  <2> QED BY <2>1, <2>2, <2>3 DEF On
<1>5. CoreTypes(X, T, D, Q, R) BY <1>0, <1>1, <1>2 DEF CoreTypes
<1>6. Marked(X, Q, R) BY <1>0, <1>3 DEF Marked
<1>7. Kids(X, Q, R)
  <2>1. \A b, k \in Calls : Kid(X, R, k, b) => b # c BY <1>1 DEF Leaf
  <2> QED BY <1>0, <2>1 DEF Kids
<1>8. Orphans(X, Q, R) BY <1>0 DEF Orphans
<1>9. Absent(X, D, Q)
  <2>1. D \subseteq Threads BY <1>0 DEF CoreTypes
  <2> QED BY <1>0, <1>4, <2>1 DEF Absent
<1>10. ASSUME NEW o \in Threads PROVE Stacked(X, T, Q, o)
  <2>1. Stacked(X, S, P, o) /\ Falling(X) BY <1>0
  <2>2. CASE o # th
    <3>1. On(X, Q, o) = On(X, P, o) /\ T[o] = S[o] BY <1>2, <1>4, <2>2
    <3> QED BY <2>1, <3>1, StackStays
  <2>3. CASE o = th
    <3>1. On(X, Q, o) = On(X, P, o) \ {S[o]} /\ S[o] # None BY <1>4, <2>3
    <3>2. T[o] = Under(X, o, S[o]) BY <1>2, <2>3 DEF Under
    <3> QED BY <2>1, <3>1, <3>2, StackPops
  <2> QED BY <2>2, <2>3
<1>11. Behalf(X, Q) BY <1>0 DEF Behalf
<1>12. Core(X, T, D, Q, R)
  BY <1>0, <1>5, <1>6, <1>7, <1>8, <1>9, <1>10, <1>11 DEF Core
<1>13. ASSUME NEW b \in Threads, b # th
       PROVE  /\ T[b] = S[b] \/ (S[b] \in P /\ X[S[b]].from = b)
              /\ S[b] # None /\ X[S[b]].toThread = b =>
                   T[b] = S[b] /\ X[S[b]].toThread = b /\ S[b] \notin {c}
  BY <1>2, <1>13
<1>14. ASSUME NEW w \in Threads, NEW d \in Calls, d # c, Leaf(X, R, d),
              d \notin P \/ S[w] # d, WaitsFor(X, S, w, d)
       PROVE  WaitsFor(X, T, w, d)
  <2>1. S[w] \in Calls /\ X[S[w]].from = w BY <1>14, Waited
  <2>2. w # th BY <1>1, <2>1 DEF Made
  <2>3. T[w] = S[w] BY <1>2, <2>2
  <2> QED BY <1>14, <2>3 DEF WaitsFor
<1>15. Calm(X, S, P, R, X, T, D, th, {c}) BY <1>13, <1>14 DEF Calm
<1> QED BY <1>12, <1>15

\* A call is handed to its server.  Either nobody waited there, or what waits
\* there does so for the call.
LEMMA Delivered ==
    ASSUME NEW X, NEW S, NEW D, NEW P, NEW R, Core(X, S, D, P, R),
           NEW th \in Threads, th \notin D, NEW c \in P, c \notin R,
           X[c].from # None => Owner[X[c].from] # Owner[th],
           S[th] = None \/ WaitsFor(X, S, th, c),
           NEW Y, Rewritten(X, c, [X[c] EXCEPT !.toParent = S[th], !.toThread = th], Y),
           NEW T, Retopped(S, th, c, T),
           NEW Q, Q = P \ {c}
    PROVE  /\ Core(Y, T, D, Q, R)
           /\ Calm(X, S, P, R, Y, T, D, th, {c})
<1>0. CoreTypes(X, S, D, P, R) /\ Falling(X) /\ Blank(X) /\ Foreign(X)
      /\ Marked(X, P, R) /\ Kids(X, P, R) /\ Orphans(X, P, R) /\ Absent(X, D, P)
      /\ Behalf(X, P) /\ \A o \in Threads : Stacked(X, S, P, o)
  BY DEF Core
<1>1. /\ X \in Transactions /\ c \in Calls /\ c \in LiveIn(X)
      /\ X[c] \in Transaction /\ X[c].state = "live"
  BY <1>0, FieldTypes DEF CoreTypes, Marked, LiveIn
<1>2. /\ T \in [Threads -> Calls \union {None}]
      /\ T[th] = c /\ \A o \in Threads : o # th => T[o] = S[o]
  BY DEF Retopped
<1>3. /\ Y \in Transactions /\ \A d \in Calls : d # c => Y[d] = X[d]
      /\ Y[c].state = "live" /\ Y[c].from = X[c].from /\ Y[c].toThread = th
      /\ Y[c].fromParent = X[c].fromParent /\ Y[c].toParent = S[th]
  BY <1>1 DEF Rewritten, Transaction
<1>4. LiveIn(Y) = LiveIn(X) BY <1>1, <1>3 DEF LiveIn
<1>5. \A d \in Calls : Y[d].fromParent = X[d].fromParent /\ Y[d].from = X[d].from
  BY <1>3
<1>6. \A k, b \in Calls : Kid(Y, R, k, b) <=> Kid(X, R, k, b)
  BY <1>4, <1>5 DEF Kid
<1>7. \A k \in Calls : ~Kid(X, R, k, c) BY <1>0, <1>1 DEF Kids
<1>8. \A e \in Calls : Anc(Y, e) = Anc(X, e)
  <2> SUFFICES ASSUME NEW e \in Calls PROVE Anc(Y, e) = Anc(X, e) OBVIOUS
  <2>1. \A x \in Anc(X, e) : Y[x].fromParent = X[x].fromParent
    BY <1>1, <1>5, AncIs
  <2> QED BY <1>1, <1>3, <2>1, AncSame
<1>9. c \notin On(X, P, th)
  BY NoneIsNobody DEF On, Made, Srv
<1>10. S[th] # None => S[th] \in Calls /\ S[th] < c /\ X[S[th]].from = th
                       /\ S[th] \in Anc(X, c)
  <2> HAVE S[th] # None
  <2>1. S[th] \in Anc(X, c) /\ X[S[th]].from = th BY DEF WaitsFor
  <2>2. S[th] \in Calls /\ S[th] <= c BY <1>0, <1>1, <2>1, AncIs, AncSmaller
  <2>3. S[th] # c BY <2>1, <2>2, <1>9 DEF On, Made
  <2> QED BY <1>1, <2>1, <2>2, <2>3, NoneIsNoCall
<1>11. \A o \in Threads : /\ o # th => On(Y, Q, o) = On(X, P, o)
                          /\ o = th => On(Y, Q, o) = On(X, P, o) \union {c}
  <2> SUFFICES ASSUME NEW o \in Threads
               PROVE  /\ o # th => On(Y, Q, o) = On(X, P, o)
                      /\ o = th => On(Y, Q, o) = On(X, P, o) \union {c}
    OBVIOUS
  <2>1. Made(Y, o) = Made(X, o) BY <1>5 DEF Made
  <2>2. \A d \in LiveIn(X) : d # c => Y[d] = X[d] BY <1>3 DEF LiveIn
  <2>3. /\ o # th => Srv(Y, Q, o) = Srv(X, P, o)
        /\ o = th => Srv(Y, Q, o) = Srv(X, P, o) \union {c}
    BY <1>1, <1>3, <1>4, <2>2 DEF Srv
  <2> QED BY <2>1, <2>3 DEF On
<1>12. CoreTypes(Y, T, D, Q, R) BY <1>0, <1>2, <1>3 DEF CoreTypes
<1>13. Falling(Y) BY <1>0, <1>3, <1>10 DEF Falling
<1>14. Blank(Y)
  <2> SUFFICES ASSUME NEW d \in Calls \ LiveIn(Y)
               PROVE  /\ Y[d].from = None /\ Y[d].toThread = None
                      /\ Y[d].fromParent = None /\ Y[d].toParent = None
    BY DEF Blank
  <2>1. d \in Calls \ LiveIn(X) /\ Y[d] = X[d] BY <1>1, <1>3, <1>4
  <2> QED BY <1>0, <2>1 DEF Blank
<1>15. Foreign(Y)
  <2> SUFFICES ASSUME NEW d \in Calls, Y[d].from # None, Y[d].toThread # None
               PROVE  Owner[Y[d].from] # Owner[Y[d].toThread]
    BY DEF Foreign
  <2>1. CASE d = c BY <1>3, <2>1
  <2>2. CASE d # c BY <1>0, <1>3, <2>2 DEF Foreign
  <2> QED BY <2>1, <2>2
<1>16. Marked(Y, Q, R)
  <2>1. \A d \in R : d \in Calls BY <1>0 DEF CoreTypes
  <2> QED BY <1>0, <1>4, <1>5, <2>1 DEF Marked
<1>17. Kids(Y, Q, R)
  <2>1. ASSUME NEW b \in Calls, NEW k \in Calls, Kid(Y, R, k, b)
        PROVE  b \in LiveIn(Y) /\ b \notin Q /\ Y[b].toThread = Y[k].from
    <3>1. Kid(X, R, k, b) /\ b # c BY <1>6, <1>7, <2>1
    <3>2. b \in LiveIn(X) /\ b \notin P /\ X[b].toThread = X[k].from
      BY <1>0, <3>1 DEF Kids
    <3> QED BY <1>3, <1>4, <1>5, <3>1, <3>2
  <2> QED BY <1>0, <1>6, <2>1 DEF Kids
<1>18. Orphans(Y, Q, R)
  <2> SUFFICES ASSUME NEW b \in LiveIn(Y), b \notin Q, Y[b].toThread = None
               PROVE  \E k \in Calls : Kid(Y, R, k, b)
    BY DEF Orphans
  <2>1. b \in Calls /\ b # c BY <1>3, NoneIsNobody DEF LiveIn
  <2>2. b \in LiveIn(X) /\ b \notin P /\ X[b].toThread = None BY <1>3, <1>4, <2>1
  <2> QED BY <1>0, <1>6, <2>1, <2>2 DEF Orphans
<1>19. Absent(Y, D, Q)
  <2>1. D \subseteq Threads BY <1>0 DEF CoreTypes
  <2> QED BY <1>0, <1>11, <2>1 DEF Absent
<1>20. ASSUME NEW o \in Threads PROVE Stacked(Y, T, Q, o)
  <2>1. Stacked(X, S, P, o) /\ Falling(X) BY <1>0
  <2>2. \A d \in On(X, P, o) : Under(Y, o, d) = Under(X, o, d)
    <3> SUFFICES ASSUME NEW d \in On(X, P, o) PROVE Under(Y, o, d) = Under(X, o, d)
      OBVIOUS
    <3>1. d \in Calls BY OnCalls
    <3>2. CASE d # c BY <1>3, <3>1, <3>2 DEF Under
    <3>3. CASE d = c
      <4>1. o # th /\ X[c].from = o BY <1>9, <3>3 DEF On, Made, Srv
      <4>2. X[c].toThread # o BY <1>0, <1>1, <4>1, NoneIsNobody DEF Foreign
      <4> QED BY <1>3, <3>3, <4>1, <4>2 DEF Under
    <3> QED BY <3>2, <3>3
  <2>3. CASE o # th
    <3>1. On(Y, Q, o) = On(X, P, o) BY <1>11, <2>3
    <3>2. T[o] = S[o] BY <1>2, <2>3
    <3> QED BY <2>1, <2>2, <3>1, <3>2, StackStays
  <2>4. CASE o = th
    <3>1. On(Y, Q, o) = On(X, P, o) \union {c} BY <1>11, <2>4
    <3>2. S[o] # None => S[o] < c BY <1>10, <2>4
    <3>3. T[o] = c BY <1>2, <2>4
    <3>4. Under(Y, o, c) = S[o] BY <1>3, <2>4 DEF Under
    <3> QED BY <1>1, <2>1, <2>2, <3>1, <3>2, <3>3, <3>4, StackGrows
  <2> QED BY <2>3, <2>4
<1>21. Behalf(Y, Q)
  <2> SUFFICES ASSUME NEW e \in LiveIn(Y), e \notin Q, Y[e].toThread # None,
                      Y[e].toParent # None
               PROVE  Y[Y[e].toParent].from = Y[e].toThread /\ Y[e].toParent \in Anc(Y, e)
    BY DEF Behalf
  <2>1. e \in Calls /\ e \in LiveIn(X) BY <1>4 DEF LiveIn
  <2>2. CASE e = c BY <1>1, <1>3, <1>5, <1>8, <1>10, <2>2
  <2>3. CASE e # c
    <3>1. Y[e] = X[e] /\ e \notin P BY <1>3, <2>1, <2>3
    <3>2. X[X[e].toParent].from = X[e].toThread /\ X[e].toParent \in Anc(X, e)
      BY <1>0, <2>1, <3>1 DEF Behalf
    <3>3. X[e].toParent \in Calls BY <1>1, <2>1, <3>1, FieldTypes
    <3> QED BY <1>5, <1>8, <2>1, <3>1, <3>2, <3>3
  <2> QED BY <2>2, <2>3
<1>22. Core(Y, T, D, Q, R)
  BY <1>12, <1>13, <1>14, <1>15, <1>16, <1>17, <1>18, <1>19, <1>20, <1>21 DEF Core
<1>23. ASSUME NEW b \in Threads, b # th
       PROVE  /\ T[b] = S[b] \/ (S[b] \in P /\ X[S[b]].from = b)
              /\ S[b] # None /\ X[S[b]].toThread = b =>
                   T[b] = S[b] /\ Y[S[b]].toThread = b /\ S[b] \notin {c}
  <2>1. T[b] = S[b] BY <1>2, <1>23
  <2>2. ASSUME S[b] # None, X[S[b]].toThread = b
        PROVE  Y[S[b]].toThread = b /\ S[b] \notin {c}
    <3>1. S[b] \in Calls /\ S[b] \notin P BY <2>2, ServedTop
    <3>2. S[b] # c BY <3>1
    <3> QED BY <1>3, <2>2, <3>1, <3>2
  <2> QED BY <2>1, <2>2
<1>24. ASSUME NEW w \in Threads, NEW d \in Calls, d # c, Leaf(X, R, d),
              d \notin P \/ S[w] # d, WaitsFor(X, S, w, d)
       PROVE  WaitsFor(Y, T, w, d)
  <2>1. S[w] \in Calls /\ X[S[w]].from = w /\ S[w] # None /\ S[w] \in Anc(X, d)
    BY <1>24, Waited DEF WaitsFor
  <2>2. w # th
    <3> SUFFICES ASSUME w = th PROVE FALSE OBVIOUS
    <3>1. S[th] \in Anc(X, c) BY <1>10, <2>1
    <3>2. Leaf(X, R, c) BY PendingLeaf
    <3>3. S[th] \in Anc(X, c) \cap Anc(X, d) BY <2>1, <3>1
    <3>4. c = d BY <1>1, <1>24, <3>2, <3>3, LeafUnique
    <3> QED BY <1>24, <3>4
  <2>3. T[w] = S[w] BY <1>2, <2>2
  <2> QED BY <1>5, <1>8, <1>24, <2>1, <2>3 DEF WaitsFor
<1>25. \A d \in Calls : d # c => Y[d].toThread = X[d].toThread /\ Y[d].from = X[d].from
  BY <1>3
<1>26. Calm(X, S, P, R, Y, T, D, th, {c})
  BY <1>23, <1>24, <1>25 DEF Calm
<1> QED BY <1>22, <1>26

\* A call is answered, and taken off its caller's stack.
LEMMA Replied ==
    ASSUME NEW X, NEW S, NEW D, NEW P, NEW R, Core(X, S, D, P, R),
           NEW c \in P, c \notin R, X[c].from # None,
           NEW Y, Rewritten(X, c, [X[c] EXCEPT !.from = None], Y),
           NEW T, Retopped(S, X[c].from, X[c].fromParent, T),
           NEW a
    PROVE  /\ Core(Y, T, D, P, R \union {c})
           /\ Calm(X, S, P, R, Y, T, D, a, {c})
<1> DEFINE th == X[c].from
           Z == R \union {c}
<1>0. CoreTypes(X, S, D, P, R) /\ Falling(X) /\ Blank(X) /\ Foreign(X)
      /\ Marked(X, P, R) /\ Kids(X, P, R) /\ Orphans(X, P, R) /\ Absent(X, D, P)
      /\ Behalf(X, P) /\ \A o \in Threads : Stacked(X, S, P, o)
  BY DEF Core
<1>1. /\ X \in Transactions /\ c \in Calls /\ c \in LiveIn(X)
      /\ X[c] \in Transaction /\ X[c].state = "live"
  BY <1>0, FieldTypes DEF CoreTypes, Marked, LiveIn
<1>2. /\ T \in [Threads -> Calls \union {None}]
      /\ \A o \in Threads : T[o] = IF o = th THEN X[c].fromParent ELSE S[o]
  BY DEF Retopped
<1>3. /\ Y \in Transactions /\ \A d \in Calls : d # c => Y[d] = X[d]
      /\ Y[c].state = "live" /\ Y[c].from = None /\ Y[c].toThread = X[c].toThread
      /\ Y[c].fromParent = X[c].fromParent /\ Y[c].toParent = X[c].toParent
  BY <1>1 DEF Rewritten, Transaction
<1>4. LiveIn(Y) = LiveIn(X) BY <1>1, <1>3 DEF LiveIn
<1>5. \A d \in Calls : /\ Y[d].fromParent = X[d].fromParent
                       /\ Y[d].toParent = X[d].toParent
                       /\ Y[d].toThread = X[d].toThread
  BY <1>3
<1>6. \A k, b \in Calls : Kid(Y, Z, k, b) <=> Kid(X, R, k, b) /\ k # c
  BY <1>4, <1>5 DEF Kid
<1>7. \A k \in Calls : ~Kid(X, R, k, c) BY <1>0, <1>1 DEF Kids
<1>8. \A e \in Calls : Anc(Y, e) = Anc(X, e)
  <2> SUFFICES ASSUME NEW e \in Calls PROVE Anc(Y, e) = Anc(X, e) OBVIOUS
  <2>1. \A x \in Anc(X, e) : Y[x].fromParent = X[x].fromParent
    BY <1>1, <1>5, AncIs
  <2> QED BY <1>1, <1>3, <2>1, AncSame
<1>9. th \in Threads /\ th \notin D /\ S[th] = c BY TopOf
<1>10. \A o \in Threads : /\ o # th => On(Y, P, o) = On(X, P, o)
                          /\ o = th => On(Y, P, o) = On(X, P, o) \ {c}
  <2> SUFFICES ASSUME NEW o \in Threads
               PROVE  /\ o # th => On(Y, P, o) = On(X, P, o)
                      /\ o = th => On(Y, P, o) = On(X, P, o) \ {c}
    OBVIOUS
  <2>1. Srv(Y, P, o) = Srv(X, P, o)
    <3>1. \A d \in LiveIn(X) : Y[d].toThread = X[d].toThread BY <1>5 DEF LiveIn
    <3> QED BY <1>4, <3>1 DEF Srv
  <2>2. /\ o # th => Made(Y, o) = Made(X, o)
        /\ o = th => Made(Y, o) = Made(X, o) \ {c}
    BY <1>1, <1>3, NoneIsNobody DEF Made
  <2>3. c \notin Srv(X, P, o) BY DEF Srv
  <2> QED BY <2>1, <2>2, <2>3 DEF On
<1>11. CoreTypes(Y, T, D, P, Z) BY <1>0, <1>1, <1>2, <1>3 DEF CoreTypes
<1>12. Falling(Y) BY <1>0, <1>5 DEF Falling
<1>13. Blank(Y)
  <2> SUFFICES ASSUME NEW d \in Calls \ LiveIn(Y)
               PROVE  /\ Y[d].from = None /\ Y[d].toThread = None
                      /\ Y[d].fromParent = None /\ Y[d].toParent = None
    BY DEF Blank
  <2>1. d \in Calls \ LiveIn(X) /\ Y[d] = X[d] BY <1>1, <1>3, <1>4
  <2> QED BY <1>0, <2>1 DEF Blank
<1>14. Foreign(Y)
  <2> SUFFICES ASSUME NEW d \in Calls, Y[d].from # None, Y[d].toThread # None
               PROVE  Owner[Y[d].from] # Owner[Y[d].toThread]
    BY DEF Foreign
  <2>1. d # c BY <1>3
  <2> QED BY <1>0, <1>3, <2>1 DEF Foreign
<1>15. Marked(Y, P, Z)
  <2>1. \A d \in R : d \in Calls /\ X[d].from = None BY <1>0 DEF CoreTypes, Marked
  <2>2. \A d \in Z : Y[d].from = None BY <1>3, <2>1
  <2> QED BY <1>0, <1>4, <2>2 DEF Marked
<1>16. Kids(Y, P, Z)
  <2>1. ASSUME NEW b \in Calls, NEW k \in Calls, Kid(Y, Z, k, b)
        PROVE  b \in LiveIn(Y) /\ b \notin P /\ Y[b].toThread = Y[k].from
    <3>1. Kid(X, R, k, b) /\ k # c BY <1>6, <2>1
    <3>2. b \in LiveIn(X) /\ b \notin P /\ X[b].toThread = X[k].from
      BY <1>0, <3>1 DEF Kids
    <3> QED BY <1>3, <1>4, <1>5, <3>1, <3>2
  <2> QED BY <1>0, <1>6, <2>1 DEF Kids
<1>17. Orphans(Y, P, Z)
  <2> SUFFICES ASSUME NEW b \in LiveIn(Y), b \notin P, Y[b].toThread = None
               PROVE  \E k \in Calls : Kid(Y, Z, k, b)
    BY DEF Orphans
  <2>1. b \in Calls /\ b \in LiveIn(X) /\ X[b].toThread = None BY <1>4, <1>5 DEF LiveIn
  <2>2. PICK k \in Calls : Kid(X, R, k, b) BY <1>0, <2>1 DEF Orphans
  <2>3. k # c
    <3>1. X[k].from = None BY <1>0, <2>1, <2>2 DEF Kids
    <3> QED BY <3>1
  <2> QED BY <1>6, <2>1, <2>2, <2>3
<1>18. Absent(Y, D, P)
  <2>1. D \subseteq Threads BY <1>0 DEF CoreTypes
  <2> QED BY <1>0, <1>10, <2>1 DEF Absent
<1>19. ASSUME NEW o \in Threads PROVE Stacked(Y, T, P, o)
  <2>1. Stacked(X, S, P, o) /\ Falling(X) BY <1>0
  <2>2. \A d \in Calls : Under(Y, o, d) = Under(X, o, d) BY <1>5 DEF Under
  <2>3. \A d \in On(X, P, o) : d \in Calls BY OnCalls
  <2>4. CASE o # th
    <3>1. On(Y, P, o) = On(X, P, o) BY <1>10, <2>4
    <3>2. T[o] = S[o] BY <1>2, <2>4
    <3>3. \A d \in On(X, P, o) : Under(Y, o, d) = Under(X, o, d) BY <2>2, <2>3
    <3> QED BY <2>1, <3>1, <3>2, <3>3, StackStays
  <2>5. CASE o = th
    <3>1. On(Y, P, o) = On(X, P, o) \ {S[o]} BY <1>9, <1>10, <2>5
    <3>2. S[o] # None BY <1>1, <1>9, <2>5, NoneIsNoCall
    <3>3. \A d \in On(Y, P, o) : Under(Y, o, d) = Under(X, o, d) BY <2>2, <2>3, <3>1
    <3>4. X[c].toThread # o BY <1>0, <1>1, <1>9, <2>5, NoneIsNobody DEF Foreign
    <3>5. T[o] = Under(X, o, S[o]) BY <1>2, <1>9, <2>5, <3>4 DEF Under
    <3> QED BY <2>1, <3>1, <3>2, <3>3, <3>5, StackPops
  <2> QED BY <2>4, <2>5
<1>20. Behalf(Y, P)
  <2> SUFFICES ASSUME NEW e \in LiveIn(Y), e \notin P, Y[e].toThread # None,
                      Y[e].toParent # None
               PROVE  Y[Y[e].toParent].from = Y[e].toThread /\ Y[e].toParent \in Anc(Y, e)
    BY DEF Behalf
  <2>1. e \in Calls /\ e # c /\ e \in LiveIn(X) /\ Y[e] = X[e] /\ e \notin R
    BY <1>0, <1>3, <1>4 DEF LiveIn, Marked
  <2>2. X[X[e].toParent].from = X[e].toThread /\ X[e].toParent \in Anc(X, e)
    BY <1>0, <2>1 DEF Behalf
  <2>3. X[e].toParent \in Calls BY <1>1, <2>1, FieldTypes
  <2>4. X[e].toParent # c BY <2>1, <2>2, AncLive
  <2> QED BY <1>3, <1>8, <2>1, <2>2, <2>3, <2>4
<1>21. Core(Y, T, D, P, Z)
  BY <1>11, <1>12, <1>13, <1>14, <1>15, <1>16, <1>17, <1>18, <1>19, <1>20 DEF Core
<1>22. ASSUME NEW b \in Threads
       PROVE  /\ T[b] = S[b] \/ (S[b] \in P /\ X[S[b]].from = b)
              /\ S[b] # None /\ X[S[b]].toThread = b =>
                   T[b] = S[b] /\ Y[S[b]].toThread = b /\ S[b] \notin {c}
  <2>1. T[b] = S[b] \/ (S[b] \in P /\ X[S[b]].from = b) BY <1>2, <1>9
  <2>2. ASSUME S[b] # None, X[S[b]].toThread = b
        PROVE  T[b] = S[b] /\ Y[S[b]].toThread = b /\ S[b] \notin {c}
    <3>1. S[b] \in Calls /\ S[b] \notin P BY <2>2, ServedTop
    <3>2. S[b] # c /\ T[b] = S[b] BY <2>1, <3>1
    <3> QED BY <1>3, <2>2, <3>1, <3>2
  <2> QED BY <2>1, <2>2
<1>23. ASSUME NEW w \in Threads, NEW d \in Calls, d # c, Leaf(X, R, d),
              d \notin P \/ S[w] # d, WaitsFor(X, S, w, d)
       PROVE  WaitsFor(Y, T, w, d)
  <2>1. /\ S[w] \in Calls /\ S[w] \notin P /\ X[S[w]].from = w
        /\ S[w] \in Anc(X, d)
    BY <1>23, Waited
  <2>2. S[w] # c /\ T[w] = S[w] BY <1>2, <1>9, <2>1
  <2> QED BY <1>3, <1>8, <1>23, <2>1, <2>2 DEF WaitsFor
<1>24. \A d \in Calls : d # c => Y[d].toThread = X[d].toThread /\ Y[d].from = X[d].from
  BY <1>3
<1>25. Calm(X, S, P, R, Y, T, D, a, {c})
  BY <1>22, <1>23, <1>24 DEF Calm
<1> QED BY <1>21, <1>25

\* The call on top, if th serves it.
ServedTopOf(X, S, th) ==
    IF S[th] # None /\ X[S[th]].toThread = th THEN {S[th]} ELSE {}

\* No transaction refers to th any more.
CutFrom(X, P, th, Y) ==
    \A c \in Calls :
      Y[c] = IF c \notin On(X, P, th) THEN X[c]
             ELSE IF X[c].toThread = th THEN [X[c] EXCEPT !.toThread = None]
             ELSE [X[c] EXCEPT !.from = None]

\* A thread is released: its stack is cut loose, and it takes the call on top
\* in hand if it was serving it.
LEMMA CutLoose ==
    ASSUME NEW X, NEW S, NEW D, NEW P, NEW R, Core(X, S, D, P, R),
           NEW th \in Threads, th \notin D,
           NEW C, C = ServedTopOf(X, S, th),
           NEW Y \in Transactions, CutFrom(X, P, th, Y),
           NEW T, Retopped(S, th, None, T),
           NEW E, E = D \union {th},
           NEW Q, Q = P \union C
    PROVE  /\ Core(Y, T, E, Q, R)
           /\ Calm(X, S, P, R, Y, T, E, th, C)
<1> USE DEF ServedTopOf, CutFrom
<1>0. CoreTypes(X, S, D, P, R) /\ Falling(X) /\ Blank(X) /\ Foreign(X)
      /\ Marked(X, P, R) /\ Kids(X, P, R) /\ Orphans(X, P, R) /\ Absent(X, D, P)
      /\ Behalf(X, P) /\ \A o \in Threads : Stacked(X, S, P, o)
  BY DEF Core
<1>1. X \in Transactions BY <1>0 DEF CoreTypes
<1>2. /\ T \in [Threads -> Calls \union {None}] /\ T[th] = None
      /\ \A o \in Threads : o # th => T[o] = S[o]
  BY DEF Retopped
<1>3. \A c \in Calls :
        /\ Y[c].state = X[c].state /\ Y[c].fromParent = X[c].fromParent
        /\ Y[c].toParent = X[c].toParent
        /\ Y[c].from = IF X[c].from = th THEN None ELSE X[c].from
        /\ Y[c].toThread = IF c \in Srv(X, P, th) THEN None ELSE X[c].toThread
  <2> SUFFICES ASSUME NEW c \in Calls
               PROVE  /\ Y[c].state = X[c].state /\ Y[c].fromParent = X[c].fromParent
                      /\ Y[c].toParent = X[c].toParent
                      /\ Y[c].from = IF X[c].from = th THEN None ELSE X[c].from
                      /\ Y[c].toThread = IF c \in Srv(X, P, th) THEN None
                                         ELSE X[c].toThread
    OBVIOUS
  <2>1. X[c] \in Transaction BY <1>1, FieldTypes
  <2>2. X[c].from = th => X[c].toThread # th BY <1>0, NoneIsNobody DEF Foreign
  <2>3. CASE c \in Made(X, th)
    <3>1. c \in On(X, P, th) /\ X[c].from = th /\ c \notin Srv(X, P, th)
      BY <2>2, <2>3 DEF On, Made, Srv
    <3>2. Y[c] = [X[c] EXCEPT !.from = None] BY <2>2, <3>1
    <3> QED BY <2>1, <3>1, <3>2 DEF Transaction
  <2>4. CASE c \in Srv(X, P, th)
    <3>1. c \in On(X, P, th) /\ X[c].toThread = th /\ X[c].from # th
      BY <2>2, <2>4 DEF On, Srv
    <3>2. Y[c] = [X[c] EXCEPT !.toThread = None] BY <3>1
    <3> QED BY <2>1, <2>4, <3>1, <3>2 DEF Transaction
  <2>5. CASE c \notin Made(X, th) /\ c \notin Srv(X, P, th)
    <3>1. Y[c] = X[c] /\ X[c].from # th BY <2>5 DEF On, Made
    <3> QED BY <2>5, <3>1
  <2> QED BY <2>3, <2>4, <2>5
<1>4. LiveIn(Y) = LiveIn(X) BY <1>3 DEF LiveIn
<1>6. \A k, b \in Calls : Kid(Y, R, k, b) <=> Kid(X, R, k, b)
  BY <1>3, <1>4 DEF Kid
<1>7. \A c \in C : /\ c \in Srv(X, P, th) /\ c \in Calls /\ Leaf(X, R, c) /\ c = S[th]
                   /\ c \in LiveIn(X) /\ c \notin P
  <2> SUFFICES ASSUME NEW c \in C
               PROVE  /\ c \in Srv(X, P, th) /\ c \in Calls /\ Leaf(X, R, c)
                      /\ c = S[th] /\ c \in LiveIn(X) /\ c \notin P
    OBVIOUS
  <2>1. c = S[th] /\ S[th] # None /\ X[S[th]].toThread = th OBVIOUS
  <2>2. c \in Srv(X, P, th) /\ c \in Calls /\ Leaf(X, R, c) BY <2>1, ServedTop
  <2> QED BY <2>1, <2>2 DEF Srv
<1>8. \A e \in Calls : Anc(Y, e) = Anc(X, e)
  <2> SUFFICES ASSUME NEW e \in Calls PROVE Anc(Y, e) = Anc(X, e) OBVIOUS
  <2>1. \A x \in Anc(X, e) : Y[x].fromParent = X[x].fromParent
    BY <1>1, <1>3, AncIs
  <2> QED BY <1>1, <2>1, AncSame
<1>9. \A o \in Threads : /\ o # th => On(Y, Q, o) = On(X, P, o)
                         /\ o = th => On(Y, Q, o) = {}
  <2> SUFFICES ASSUME NEW o \in Threads
               PROVE  /\ o # th => On(Y, Q, o) = On(X, P, o)
                      /\ o = th => On(Y, Q, o) = {}
    OBVIOUS
  <2>1. ASSUME o = th PROVE On(Y, Q, o) = {}
    <3>1. Made(Y, o) = {} BY <1>3, <2>1, NoneIsNobody DEF Made
    <3>2. Srv(Y, Q, o) = {}
      <4> SUFFICES ASSUME NEW d \in Srv(Y, Q, o) PROVE FALSE OBVIOUS
      <4>1. d \in Calls /\ d \in LiveIn(X) /\ d \notin P /\ Y[d].toThread = o
        BY <1>4 DEF Srv, LiveIn
      <4>2. X[d].toThread = th /\ d \notin Srv(X, P, th)
        BY <1>3, <2>1, <4>1, NoneIsNobody
      <4> QED BY <4>1, <4>2 DEF Srv
    <3> QED BY <3>1, <3>2 DEF On
  <2>2. ASSUME o # th PROVE On(Y, Q, o) = On(X, P, o)
    <3>1. Made(Y, o) = Made(X, o) BY <1>3, <2>2, NoneIsNobody DEF Made
    <3>2. \A d \in LiveIn(X) : d \in Calls /\ (Y[d].toThread = o <=> X[d].toThread = o)
      BY <1>3, <2>2, NoneIsNobody DEF LiveIn, Srv
    <3>3. \A d \in C : X[d].toThread # o BY <1>7, <2>2 DEF Srv
    <3>4. Srv(Y, Q, o) = Srv(X, P, o) BY <1>4, <3>2, <3>3 DEF Srv
    <3> QED BY <3>1, <3>4 DEF On
  <2> QED BY <2>1, <2>2
<1>11. CoreTypes(Y, T, E, Q, R)
  <2>1. C \subseteq Calls BY <1>7
  <2> QED BY <1>0, <1>2, <2>1 DEF CoreTypes
<1>12. Falling(Y) BY <1>0, <1>3 DEF Falling
<1>13. Blank(Y)
  <2> SUFFICES ASSUME NEW d \in Calls \ LiveIn(Y)
               PROVE  /\ Y[d].from = None /\ Y[d].toThread = None
                      /\ Y[d].fromParent = None /\ Y[d].toParent = None
    BY DEF Blank
  <2>1. d \in Calls \ LiveIn(X) BY <1>4
  <2> QED BY <1>0, <1>3, <2>1 DEF Blank
<1>14. Foreign(Y)
  <2> SUFFICES ASSUME NEW d \in Calls, Y[d].from # None, Y[d].toThread # None
               PROVE  Owner[Y[d].from] # Owner[Y[d].toThread]
    BY DEF Foreign
  <2>1. Y[d].from = X[d].from /\ Y[d].toThread = X[d].toThread BY <1>3
  <2> QED BY <1>0, <2>1 DEF Foreign
<1>15. Marked(Y, Q, R)
  <2>1. \A d \in R : d \in Calls /\ X[d].from = None BY <1>0 DEF CoreTypes, Marked
  <2>2. \A d \in R : Y[d].from = None BY <1>3, <2>1, NoneIsNobody
  <2> QED BY <1>0, <1>4, <1>7, <2>2 DEF Marked
<1>16. Kids(Y, Q, R)
  <2>1. ASSUME NEW b \in Calls, NEW k \in Calls, Kid(Y, R, k, b)
        PROVE  b \in LiveIn(Y) /\ b \notin Q /\ Y[b].toThread = Y[k].from
    <3>1. Kid(X, R, k, b) BY <1>6, <2>1
    <3>2. b \in LiveIn(X) /\ b \notin P /\ X[b].toThread = X[k].from
      BY <1>0, <3>1 DEF Kids
    <3>3. b \notin C BY <1>7, <3>1 DEF Leaf
    <3>4. b \in Srv(X, P, th) <=> X[b].toThread = th BY <3>2 DEF Srv
    <3>5. Y[b].toThread = Y[k].from BY <1>3, <3>2, <3>4
    <3> QED BY <1>4, <3>2, <3>3, <3>5
  <2> QED BY <1>0, <1>6, <2>1 DEF Kids
<1>17. Orphans(Y, Q, R)
  <2> SUFFICES ASSUME NEW b \in LiveIn(Y), b \notin Q, Y[b].toThread = None
               PROVE  \E k \in Calls : Kid(Y, R, k, b)
    BY DEF Orphans
  <2>1. b \in Calls /\ b \in LiveIn(X) /\ b \notin P BY <1>4 DEF LiveIn
  <2>2. CASE X[b].toThread = None
    <3>1. PICK k \in Calls : Kid(X, R, k, b) BY <1>0, <2>1, <2>2 DEF Orphans
    <3> QED BY <1>6, <2>1, <3>1
  <2>3. CASE X[b].toThread # None
    <3>1. b \in Srv(X, P, th) BY <1>3, <2>1, <2>3
    <3>2. b \in On(X, P, th) /\ X[b].toThread = th BY <3>1 DEF On, Srv
    <3>3. b # S[th] BY <2>1, <3>2, NoneIsNoCall
    <3>4. PICK c \in On(X, P, th) :
             \/ c \in Made(X, th) /\ Kid(X, R, c, b)
             \/ c \in Srv(X, P, th) /\ b \in Made(X, th) /\ c # b /\ b \in Anc(X, c)
      BY <3>2, <3>3, AboveIs
    <3>5. b \notin Made(X, th) BY <1>0, <2>1, <3>2, NoneIsNobody DEF Foreign, Made
    <3>6. c \in Calls BY OnCalls
    <3> QED BY <1>6, <2>1, <3>4, <3>5, <3>6
  <2> QED BY <2>2, <2>3
<1>18. Absent(Y, E, Q)
  <2>1. D \subseteq Threads BY <1>0 DEF CoreTypes
  <2> QED BY <1>0, <1>9, <2>1 DEF Absent
<1>19. ASSUME NEW o \in Threads PROVE Stacked(Y, T, Q, o)
  <2>1. CASE o = th
    <3>1. On(Y, Q, o) = {} /\ T[o] = None BY <1>2, <1>9, <2>1
    <3> QED BY <3>1 DEF Stacked
  <2>2. CASE o # th
    <3>1. Stacked(X, S, P, o) BY <1>0
    <3>2. On(Y, Q, o) = On(X, P, o) BY <1>9, <2>2
    <3>3. T[o] = S[o] BY <1>2, <2>2
    <3>4. \A d \in On(X, P, o) : Under(Y, o, d) = Under(X, o, d)
      <4> SUFFICES ASSUME NEW d \in On(X, P, o) PROVE Under(Y, o, d) = Under(X, o, d)
        OBVIOUS
      <4>1. d \in Calls BY OnCalls
      <4>2. Y[d].toThread = o <=> X[d].toThread = o
        BY <1>3, <2>2, <4>1, NoneIsNobody DEF Srv
      <4> QED BY <1>3, <4>1, <4>2 DEF Under
    <3> QED BY <3>1, <3>2, <3>3, <3>4, StackStays
  <2> QED BY <2>1, <2>2
<1>20. Behalf(Y, Q)
  <2> SUFFICES ASSUME NEW e \in LiveIn(Y), e \notin Q, Y[e].toThread # None,
                      Y[e].toParent # None
               PROVE  Y[Y[e].toParent].from = Y[e].toThread /\ Y[e].toParent \in Anc(Y, e)
    BY DEF Behalf
  <2>1. e \in Calls /\ e \in LiveIn(X) /\ e \notin P BY <1>4 DEF LiveIn
  <2>2. X[e].toThread = Y[e].toThread /\ X[e].toParent = Y[e].toParent
        /\ e \notin Srv(X, P, th)
    BY <1>3, <2>1
  <2>3. X[X[e].toParent].from = X[e].toThread /\ X[e].toParent \in Anc(X, e)
    BY <1>0, <2>1, <2>2 DEF Behalf
  <2>4. X[e].toParent \in Calls /\ X[e].toThread # th
    BY <1>1, <2>1, <2>2, FieldTypes DEF Srv
  <2> QED BY <1>3, <1>8, <2>1, <2>2, <2>3, <2>4
<1>21. Core(Y, T, E, Q, R)
  BY <1>11, <1>12, <1>13, <1>14, <1>15, <1>16, <1>17, <1>18, <1>19, <1>20 DEF Core
<1>22. ASSUME NEW b \in Threads, b # th
       PROVE  /\ T[b] = S[b] \/ (S[b] \in P /\ X[S[b]].from = b)
              /\ S[b] # None /\ X[S[b]].toThread = b =>
                   T[b] = S[b] /\ Y[S[b]].toThread = b /\ S[b] \notin C
  <2>1. T[b] = S[b] BY <1>2, <1>22
  <2>2. ASSUME S[b] # None, X[S[b]].toThread = b
        PROVE  Y[S[b]].toThread = b /\ S[b] \notin C
    <3>1. S[b] \in Calls BY <2>2, ServedTop
    <3>2. S[b] \notin Srv(X, P, th) BY <1>22, <2>2 DEF Srv
    <3> QED BY <1>3, <1>7, <2>2, <3>1, <3>2
  <2> QED BY <2>1, <2>2
<1>23. ASSUME NEW w \in Threads, NEW d \in Calls, w \notin E, Leaf(X, R, d),
              d \notin P \/ S[w] # d, WaitsFor(X, S, w, d)
       PROVE  WaitsFor(Y, T, w, d)
  <2>1. S[w] \in Calls /\ X[S[w]].from = w /\ S[w] \in Anc(X, d) BY <1>23, Waited
  <2>2. w # th BY <1>23
  <2>3. T[w] = S[w] BY <1>2, <2>2
  <2> QED BY <1>3, <1>8, <1>23, <2>1, <2>2, <2>3 DEF WaitsFor
<1>24. ASSUME NEW d \in Calls
       PROVE  /\ Y[d].toThread = X[d].toThread \/ (d \notin P /\ X[d].toThread \in E)
              /\ Y[d].from = X[d].from \/ (Y[d].from = None /\ X[d].from \in E)
  BY <1>3 DEF Srv
<1>25. Calm(X, S, P, R, Y, T, E, th, C)
  BY <1>22, <1>23, <1>24 DEF Calm
<1> QED BY <1>21, <1>25

-----------------------------------------------------------------------------
(* The frames of a stack and the chain of callers, as the code finds them. *)

LEMMA CallersAre ==
    ASSUME txn \in Transactions, Falling(txn), NEW c \in Calls \union {None}
    PROVE  /\ CallersFrom(c) \in [0 .. MaxCalls -> Calls \union {None}]
           /\ Iterates(CallersFrom(c), [d \in Calls |-> txn[d].fromParent], c)
           /\ c \in Calls => Range(CallersFrom(c)) \ {None} = Anc(txn, c)
<1> DEFINE g == [d \in Calls |-> txn[d].fromParent]
           V == Calls \union {None}
           Is(f) == f = [k \in 0 .. MaxCalls |->
                           IF k = 0 THEN c
                           ELSE IF f[k - 1] = None THEN None
                                ELSE txn[f[k - 1]].fromParent]
           F == CallersFrom(c)
<1>0. MaxCalls \in Nat /\ None \notin Calls BY NoneIsNoCall
<1>1. g \in [Calls -> V] BY FieldTypes
<1>2. PICK f \in [0 .. MaxCalls -> V] : Iterates(f, g, c) BY <1>1, IterationExists
<1>3. \A l \in 0 .. MaxCalls :
        f[l] = IF l = 0 THEN c ELSE IF f[l - 1] = None THEN None ELSE g[f[l - 1]]
  BY <1>2, Zenon DEF Iterates
<1>4. Is(f)
  <2>1. \A l \in 0 .. MaxCalls :
          f[l] = IF l = 0 THEN c ELSE IF f[l - 1] = None THEN None
                                      ELSE txn[f[l - 1]].fromParent
    <3> SUFFICES ASSUME NEW l \in 0 .. MaxCalls
                 PROVE  f[l] = IF l = 0 THEN c ELSE IF f[l - 1] = None THEN None
                                                    ELSE txn[f[l - 1]].fromParent
      OBVIOUS
    <3>1. CASE l = 0 BY <1>3, <3>1
    <3>2. CASE l # 0
      <4>1. l - 1 \in 0 .. MaxCalls BY <1>0, <3>2
      <4>2. f[l - 1] \in V BY <4>1
      <4> QED BY <1>3, <3>2, <4>2
    <3> QED BY <3>1, <3>2
  <2> QED BY Zenon, <2>1
<1> HIDE DEF g, V
<1>6. Is(F) BY <1>4, ZenonT(60) DEF CallersFrom
<1> USE DEF g, V
<1> HIDE DEF F
<1>7. DOMAIN F = 0 .. MaxCalls /\ F[0] = c
      /\ \A k \in 1 .. MaxCalls : F[k] = IF F[k - 1] = None THEN None
                                         ELSE txn[F[k - 1]].fromParent
  <2>1. DOMAIN F = 0 .. MaxCalls BY Zenon, <1>6
  <2>2. \A k \in 0 .. MaxCalls :
          F[k] = IF k = 0 THEN c ELSE IF F[k - 1] = None THEN None
                                      ELSE txn[F[k - 1]].fromParent
    BY Zenon, <1>6
  <2> QED BY <1>0, <2>1, <2>2
<1>8. \A k \in 0 .. MaxCalls : F[k] \in V
  <2>1. \A k \in 1 .. MaxCalls : /\ F[k - 1] = None => F[k] = None
                                 /\ F[k - 1] \in Calls => F[k] = g[F[k - 1]]
    BY <1>0, <1>7
  <2> QED BY <1>1, <1>7, <2>1, IterationTyped
<1>9. F \in [0 .. MaxCalls -> V]
  <2>1. F = [k \in 0 .. MaxCalls |-> F[k]] BY Zenon, <1>6
  <2> QED BY <1>8, <2>1
<1>10. Iterates(F, g, c)
  <2>1. \A l \in 0 .. MaxCalls :
        F[l] = IF l = 0 THEN c ELSE IF F[l - 1] = None THEN None ELSE g[F[l - 1]]
    <3> SUFFICES ASSUME NEW l \in 0 .. MaxCalls
                 PROVE  F[l] = IF l = 0 THEN c ELSE IF F[l - 1] = None THEN None
                                                    ELSE g[F[l - 1]]
      OBVIOUS
    <3>1. CASE l = 0 BY <1>7, <3>1
    <3>2. CASE l # 0
      <4>1. l - 1 \in 0 .. MaxCalls /\ l \in 1 .. MaxCalls BY <1>0, <3>2
      <4>2. F[l - 1] \in V BY <1>8, <4>1
      <4> QED BY <1>7, <3>2, <4>1, <4>2
    <3> QED BY <3>1, <3>2
  <2>2. F = [k \in 0 .. MaxCalls |-> F[k]] BY Zenon, <1>6
  <2> QED BY Zenon, <2>1, <2>2 DEF Iterates
<1>11. \A d \in Calls : g[d] # None => g[d] < d BY DEF Falling
<1> HIDE DEF Is
<1>12. ASSUME c \in Calls, NEW k \in 0 .. MaxCalls, F[k] # None
       PROVE  F[k] \in Anc(txn, c)
  <2> DEFINE Bad == {l \in 0 .. MaxCalls : F[l] # None /\ F[l] \notin Anc(txn, c)}
  <2> SUFFICES ASSUME Bad # {} PROVE FALSE BY <1>12
  <2>1. Bad \in SUBSET Nat OBVIOUS
  <2> HIDE DEF Bad
  <2>2. PICK l \in Bad : \A m \in Bad : l <= m BY <2>1, Smallest
  <2>3. l \in 0 .. MaxCalls /\ F[l] # None /\ F[l] \notin Anc(txn, c) BY <2>2 DEF Bad
  <2>4. l # 0 BY <1>7, <1>12, <2>3, AncIs
  <2>5. l - 1 \in 0 .. MaxCalls /\ l \in 1 .. MaxCalls /\ ~(l <= l - 1)
    BY <1>0, <2>3, <2>4
  <2>6. F[l - 1] # None /\ F[l] = txn[F[l - 1]].fromParent BY <1>7, <2>3, <2>5
  <2>7. F[l - 1] \in Anc(txn, c) BY <2>2, <2>5, <2>6 DEF Bad
  <2> QED BY <1>12, <2>3, <2>6, <2>7, AncIs DEF Up
<1>13. ASSUME c \in Calls PROVE Anc(txn, c) \subseteq Range(F) \ {None}
  <2> DEFINE N == Range(F) \ {None}
  <2>1. Range(F) = {F[k] : k \in 0 .. MaxCalls} BY <1>7 DEF Range
  <2>2. N \in SUBSET Calls BY <1>8, <2>1
  <2>3. c \in N BY <1>0, <1>7, <1>13, <2>1
  <2>4. Up(txn, N)
    <3> SUFFICES ASSUME NEW y \in N, txn[y].fromParent # None
                 PROVE  txn[y].fromParent \in N
      BY DEF Up
    <3>1. PICK k \in 0 .. MaxCalls : F[k] = y BY <2>1
    <3>2. y \in Calls /\ txn[y].fromParent \in Calls BY <2>2, FieldTypes
    <3>3. txn[y].fromParent < y BY <3>2 DEF Falling
    <3>4. y + k <= MaxCalls BY <1>1, <1>9, <1>10, <1>11, <3>1, <3>2, <1>0, IterationFalls
    <3>5. txn[y].fromParent \in 1 .. MaxCalls /\ y \in 1 .. MaxCalls
      BY <3>2, NoneIsNoCall
    <3>6. k + 1 \in 1 .. MaxCalls /\ (k + 1) - 1 = k BY <1>0, <3>3, <3>4, <3>5
    <3>7. F[k + 1] = txn[y].fromParent BY <1>0, <1>7, <3>1, <3>2, <3>6
    <3>8. k + 1 \in 0 .. MaxCalls BY <1>0, <3>6
    <3> QED BY <2>1, <3>7, <3>8
  <2> HIDE DEF N
  <2> QED BY <1>13, <2>2, <2>3, <2>4, AncIs DEF N
<1>14. c \in Calls => Range(F) \ {None} = Anc(txn, c)
  <2>1. Range(F) = {F[k] : k \in 0 .. MaxCalls} BY <1>7 DEF Range
  <2> QED BY <1>12, <1>13, <2>1
<1> QED BY <1>9, <1>10, <1>14 DEF F

LEMMA FramesAre ==
    ASSUME NEW th \in Threads, thr[th].stack \in Calls \union {None},
           txn \in Transactions, Falling(txn),
           NEW S, NEW P, Stacked(txn, S, P, th), S[th] = thr[th].stack
    PROVE  /\ FrameFrom(th)[MaxCalls] = None /\ Frames(th) = On(txn, P, th)
           /\ FrameFrom(th) \in [0 .. MaxCalls -> Calls \union {None}]
           /\ Iterates(FrameFrom(th), [d \in Calls |-> Below(th, d)], thr[th].stack)
<1> DEFINE g == [d \in Calls |-> Below(th, d)]
           V == Calls \union {None}
           O == On(txn, P, th)
           x == thr[th].stack
           Is(f) == f = [k \in 0 .. MaxCalls |->
                           IF k = 0 THEN x
                           ELSE IF f[k - 1] = None THEN None
                                ELSE Below(th, f[k - 1])]
           F == FrameFrom(th)
<1>0. MaxCalls \in Nat /\ None \notin Calls BY NoneIsNoCall
<1>1. g \in [Calls -> V] BY FieldTypes DEF Below
<1>2. PICK f \in [0 .. MaxCalls -> V] : Iterates(f, g, x) BY <1>1, IterationExists
<1>3. \A l \in 0 .. MaxCalls :
        f[l] = IF l = 0 THEN x ELSE IF f[l - 1] = None THEN None ELSE g[f[l - 1]]
  BY <1>2, Zenon DEF Iterates
<1>4. Is(f)
  <2>1. \A l \in 0 .. MaxCalls :
          f[l] = IF l = 0 THEN x ELSE IF f[l - 1] = None THEN None
                                      ELSE Below(th, f[l - 1])
    <3> SUFFICES ASSUME NEW l \in 0 .. MaxCalls
                 PROVE  f[l] = IF l = 0 THEN x ELSE IF f[l - 1] = None THEN None
                                                    ELSE Below(th, f[l - 1])
      OBVIOUS
    <3>1. CASE l = 0 BY <1>3, <3>1
    <3>2. CASE l # 0
      <4>1. l - 1 \in 0 .. MaxCalls BY <1>0, <3>2
      <4>2. f[l - 1] \in V BY <4>1
      <4> QED BY <1>3, <3>2, <4>2
    <3> QED BY <3>1, <3>2
  <2> QED BY Zenon, <2>1
<1> HIDE DEF g, V, O
<1>6. Is(F) BY <1>4, ZenonT(60) DEF FrameFrom
<1> USE DEF g, V
<1> HIDE DEF F
<1>7. DOMAIN F = 0 .. MaxCalls /\ F[0] = x
      /\ \A k \in 1 .. MaxCalls : F[k] = IF F[k - 1] = None THEN None
                                         ELSE Below(th, F[k - 1])
  <2>1. DOMAIN F = 0 .. MaxCalls BY Zenon, <1>6
  <2>2. \A k \in 0 .. MaxCalls :
          F[k] = IF k = 0 THEN x ELSE IF F[k - 1] = None THEN None
                                      ELSE Below(th, F[k - 1])
    BY Zenon, <1>6
  <2> QED BY <1>0, <2>1, <2>2
<1>8. \A k \in 0 .. MaxCalls : F[k] \in V
  <2>1. \A k \in 1 .. MaxCalls : /\ F[k - 1] = None => F[k] = None
                                 /\ F[k - 1] \in Calls => F[k] = g[F[k - 1]]
    BY <1>0, <1>7
  <2> QED BY <1>1, <1>7, <2>1, IterationTyped
<1>9. F \in [0 .. MaxCalls -> V]
  <2>1. F = [k \in 0 .. MaxCalls |-> F[k]] BY Zenon, <1>6
  <2> QED BY <1>8, <2>1
<1>10. Iterates(F, g, x)
  <2>1. \A l \in 0 .. MaxCalls :
        F[l] = IF l = 0 THEN x ELSE IF F[l - 1] = None THEN None ELSE g[F[l - 1]]
    <3> SUFFICES ASSUME NEW l \in 0 .. MaxCalls
                 PROVE  F[l] = IF l = 0 THEN x ELSE IF F[l - 1] = None THEN None
                                                    ELSE g[F[l - 1]]
      OBVIOUS
    <3>1. CASE l = 0 BY <1>7, <3>1
    <3>2. CASE l # 0
      <4>1. l - 1 \in 0 .. MaxCalls /\ l \in 1 .. MaxCalls BY <1>0, <3>2
      <4>2. F[l - 1] \in V BY <1>8, <4>1
      <4> QED BY <1>7, <3>2, <4>1, <4>2
    <3> QED BY <3>1, <3>2
  <2>2. F = [k \in 0 .. MaxCalls |-> F[k]] BY Zenon, <1>6
  <2> QED BY Zenon, <2>1, <2>2 DEF Iterates
<1> HIDE DEF Is
<1>11. \A d \in Calls : g[d] # None => g[d] < d BY DEF Falling, Below
<1>12. \A d \in O : d \in Calls /\ d \in Nat /\ d # None BY OnCalls DEF O
<1>13. /\ x = None => O = {}
       /\ x # None => x \in O /\ \A d \in O : d <= x
       /\ \A c \in O :
            /\ Below(th, c) = None => \A d \in O : c <= d
            /\ Below(th, c) # None =>
                 Below(th, c) \in O /\ \A d \in O : d <= Below(th, c) \/ c <= d
  <2>1. \A c \in Calls : Under(txn, th, c) = Below(th, c) BY DEF Under, Below
  <2>2. \A c \in O : Under(txn, th, c) = Below(th, c) BY <1>12, <2>1
  <2> QED BY <2>2 DEF Stacked, O
<1>14. F[MaxCalls] = None
  <2> SUFFICES ASSUME F[MaxCalls] # None PROVE FALSE OBVIOUS
  <2>1. MaxCalls \in 0 .. MaxCalls BY <1>0
  <2>2. F[MaxCalls] + MaxCalls <= MaxCalls
    BY <1>1, <1>9, <1>10, <1>11, <2>1, IterationFalls
  <2>3. F[MaxCalls] \in 1 .. MaxCalls BY <1>8, <2>1, NoneIsNoCall
  <2> QED BY <1>0, <2>2, <2>3
<1>15. ASSUME NEW k \in 0 .. MaxCalls, F[k] # None PROVE F[k] \in O
  <2> DEFINE Bad == {l \in 0 .. MaxCalls : F[l] # None /\ F[l] \notin O}
  <2> SUFFICES ASSUME Bad # {} PROVE FALSE BY <1>15
  <2>1. Bad \in SUBSET Nat OBVIOUS
  <2> HIDE DEF Bad
  <2>2. PICK l \in Bad : \A m \in Bad : l <= m BY <2>1, Smallest
  <2>3. l \in 0 .. MaxCalls /\ F[l] # None /\ F[l] \notin O BY <2>2 DEF Bad
  <2>4. l # 0 BY <1>7, <1>13, <2>3
  <2>5. l - 1 \in 0 .. MaxCalls /\ l \in 1 .. MaxCalls /\ ~(l <= l - 1)
    BY <1>0, <2>3, <2>4
  <2>6. F[l - 1] # None /\ F[l] = Below(th, F[l - 1]) BY <1>7, <2>3, <2>5
  <2>7. F[l - 1] \in O BY <2>2, <2>5, <2>6 DEF Bad
  <2> QED BY <1>13, <2>3, <2>6, <2>7
<1>16. ASSUME NEW d \in O, \A k \in 0 .. MaxCalls : F[k] # d PROVE FALSE
  <2> DEFINE Bad == {l \in 0 .. MaxCalls : ~(F[l] # None /\ d < F[l])}
  <2>1. MaxCalls \in Bad BY <1>0, <1>14
  <2>2. Bad \in SUBSET Nat OBVIOUS
  <2> HIDE DEF Bad
  <2>3. PICK l \in Bad : \A m \in Bad : l <= m BY <2>1, <2>2, Smallest
  <2>4. l \in 0 .. MaxCalls /\ ~(F[l] # None /\ d < F[l]) BY <2>3 DEF Bad
  <2>5. l # 0
    <3> SUFFICES ASSUME l = 0 PROVE FALSE OBVIOUS
    <3>1. F[l] = x /\ x # None /\ x \in O /\ d <= x /\ d # x
      BY <1>7, <1>13, <1>16, <2>4
    <3> QED BY <1>12, <2>4, <3>1
  <2>6. l - 1 \in 0 .. MaxCalls /\ l \in 1 .. MaxCalls /\ ~(l <= l - 1)
    BY <1>0, <2>4, <2>5
  <2>7. F[l - 1] # None /\ d < F[l - 1] BY <2>3, <2>6 DEF Bad
  <2>8. F[l - 1] \in O /\ F[l] = Below(th, F[l - 1]) BY <1>7, <1>15, <2>6, <2>7
  <2>9. ~(F[l - 1] <= d) BY <1>12, <2>7, <2>8
  <2>10. F[l] # None /\ d <= F[l] BY <1>13, <2>8, <2>9
  <2>11. F[l] \in O /\ F[l] # d BY <1>15, <1>16, <2>4, <2>10
  <2> QED BY <1>12, <2>4, <2>10, <2>11
<1>17. Range(F) = {F[k] : k \in 0 .. MaxCalls} BY <1>7 DEF Range
<1>18. Range(F) \ {None} = O BY <1>12, <1>15, <1>16, <1>17
<1> QED BY <1>9, <1>10, <1>14, <1>18 DEF F, Frames, O

\* A thread that is found to call back waits for the call that is served.
LEMMA CallerWaits ==
    ASSUME NEW S, NEW D, NEW P, NEW R, Core(txn, S, D, P, R),
           NEW th \in Threads, NEW p \in Procs, p # Owner[th], thr[th].stack = S[th],
           S[th] = None \/ txn[S[th]].toThread = th,
           NEW w, w = WaitingCaller(th, p), w # None
    PROVE  /\ w \in Threads /\ Owner[w] = p /\ w \notin D
           /\ S[th] # None /\ WaitsFor(txn, S, w, S[th])
<1> DEFINE t == S[th]
           F == CallersFrom(t)
           Hits == {k \in DOMAIN F : F[k] # None /\ txn[F[k]].from # None
                                      /\ Owner[txn[F[k]].from] = p}
<1>0. /\ txn \in Transactions /\ Falling(txn) /\ Foreign(txn) /\ Kids(txn, P, R)
      /\ t \in Calls \union {None} /\ MaxCalls \in Nat /\ None \notin Calls
  BY NoneIsNoCall DEF Core, CoreTypes
<1>1. /\ F \in [0 .. MaxCalls -> Calls \union {None}]
      /\ Iterates(F, [d \in Calls |-> txn[d].fromParent], t)
      /\ t \in Calls => Range(F) \ {None} = Anc(txn, t)
  BY <1>0, CallersAre
<1>2. [d \in Calls |-> txn[d].fromParent] \in [Calls -> Calls \union {None}]
  BY <1>0, FieldTypes
<1>3. \A d \in Calls : [e \in Calls |-> txn[e].fromParent][d] # None
                         => [e \in Calls |-> txn[e].fromParent][d] < d
  BY <1>0 DEF Falling
<1>4. \A k, j \in 0 .. MaxCalls : k <= j /\ F[j] # None => F[k] # None /\ F[j] <= F[k]
  BY <1>0, <1>1, <1>2, <1>3, IterationOrder
<1>5. F[0] = t
  <2>1. \A k \in 0 .. MaxCalls :
          F[k] = IF k = 0 THEN t ELSE IF F[k - 1] = None THEN None
                 ELSE [d \in Calls |-> txn[d].fromParent][F[k - 1]]
    BY <1>1, Zenon DEF Iterates
  <2> HIDE DEF F, t
  <2>2. 0 \in 0 .. MaxCalls BY <1>0
  <2> QED BY <2>1, <2>2
<1>6. w = IF Hits = {} THEN None ELSE txn[F[Min(Hits)]].from
  BY Zenon DEF WaitingCaller
<1> HIDE DEF F
<1>8. DOMAIN F = 0 .. MaxCalls BY <1>1
<1>7. Hits \in SUBSET Nat /\ Hits # {}
  <2>1. Hits \subseteq 0 .. MaxCalls BY <1>8
  <2>2. Hits \in SUBSET Nat BY <2>1
  <2> HIDE DEF Hits
  <2>3. Hits # {} BY <1>6
  <2> QED BY <2>2, <2>3
<1> HIDE DEF Hits
<1>10. Min(Hits) \in Hits /\ \A l \in Hits : Min(Hits) <= l BY <1>7, MinIs
<1> DEFINE m == Min(Hits)
           x == F[m]
<1>11. /\ m \in 0 .. MaxCalls /\ x # None /\ txn[x].from # None
       /\ Owner[txn[x].from] = p /\ w = txn[x].from
  <2>1. w = txn[x].from BY <1>6, <1>7
  <2>2. m \in Hits BY <1>10
  <2> HIDE DEF m
  <2>3. m \in DOMAIN F /\ F[m] # None /\ txn[F[m]].from # None
        /\ Owner[txn[F[m]].from] = p
    BY <2>2 DEF Hits
  <2> QED BY <1>8, <2>1, <2>3
<1> HIDE DEF m
<1>12. t \in Calls BY <1>0, <1>4, <1>5, <1>11
<1>13. Range(F) = {F[l] : l \in 0 .. MaxCalls} BY <1>8 DEF Range
<1>14. x \in Anc(txn, t) /\ x \in Calls BY <1>0, <1>1, <1>11, <1>12, <1>13
<1>15. w \in Threads BY <1>0, <1>11, <1>14, FieldTypes
<1>16. ASSUME NEW y \in Anc(txn, t), txn[y].from = w PROVE y <= x
  <2>1. PICK l \in 0 .. MaxCalls : F[l] = y /\ y # None BY <1>1, <1>12, <1>13
  <2>2. l \in Hits BY <1>8, <1>11, <1>15, <1>16, <2>1, NoneIsNobody DEF Hits
  <2>3. m <= l BY <1>10, <2>2 DEF m
  <2> QED BY <1>4, <1>11, <2>1, <2>3
<1>17. x \in On(txn, P, w) BY <1>11, <1>14 DEF On, Made
<1>18. w \notin D BY <1>15, <1>17 DEF Core, Absent
<1>19. t # None /\ Leaf(txn, R, t) /\ t \in LiveIn(txn) /\ t \notin R /\ txn[t].toThread = th
  BY <1>0, <1>12, ServedTop DEF Leaf
<1> HIDE DEF x, t
<1>20. S[w] = x
  <2> SUFFICES ASSUME x # S[w] PROVE FALSE OBVIOUS
  <2>1. PICK e \in On(txn, P, w) :
             \/ e \in Made(txn, w) /\ Kid(txn, R, e, x)
             \/ /\ e \in Srv(txn, P, w) /\ x \in Made(txn, w)
                /\ e # x /\ x \in Anc(txn, e)
    BY <1>15, <1>17, AboveIs
  <2>2. e \in Calls BY OnCalls
  <2>3. CASE e \in Made(txn, w) /\ Kid(txn, R, e, x)
    <3>1. txn[x].toThread = w BY <1>0, <1>14, <2>2, <2>3 DEF Kids, Made
    <3> QED BY <1>0, <1>11, <1>14, <1>15, <3>1, NoneIsNobody DEF Foreign
  <2>4. CASE e \in Srv(txn, P, w) /\ e # x /\ x \in Anc(txn, e)
    <3>1. e \in LiveIn(txn) /\ e \notin R /\ txn[e].toThread = w
      BY <2>4 DEF Srv, Core, Marked
    <3>2. e \in Anc(txn, t) BY <1>12, <1>14, <1>19, <2>2, <2>4, <3>1, OneChain
    <3>3. e # t
      <4> SUFFICES ASSUME e = t PROVE FALSE OBVIOUS
      <4>1. w = th BY <1>19, <3>1
      <4> QED BY <1>11, <4>1
    <3>4. PICK y \in Anc(txn, t) : Kid(txn, R, y, e)
      BY <1>12, <1>19, <3>2, <3>3, AncLive
    <3>5. y \in Calls BY <1>0, <1>12, AncIs
    <3>6. txn[y].from = w BY <1>0, <2>2, <3>1, <3>4, <3>5 DEF Kids
    <3>7. y <= x BY <1>16, <3>6
    <3>8. e < y BY <1>0, <2>2, <3>4, <3>5 DEF Falling, Kid
    <3>9. x <= e BY <1>0, <2>2, <2>4, AncSmaller
    <3>10. x \in Nat /\ y \in Nat /\ e \in Nat BY <1>14, <2>2, <3>5, NoneIsNoCall
    <3> QED BY <3>7, <3>8, <3>9, <3>10
  <2> QED BY <2>1, <2>3, <2>4
<1>21. WaitsFor(txn, S, w, t)
  BY <1>0, <1>11, <1>14, <1>20 DEF WaitsFor
<1> QED BY <1>11, <1>15, <1>18, <1>19, <1>21 DEF t

-----------------------------------------------------------------------------
(* Lists of work. *)

\* The calls on a thread's list.
Names(s) == {c \in Calls : \E i \in DOMAIN s : s[i] = Item("call", c)}

\* Each call is there once.
Tidy(s) ==
    \A i \in DOMAIN s : s[i].kind = "call" =>
      s[i].call \in Calls /\ \A j \in DOMAIN s : s[i] = s[j] => i = j

LEMMA Items ==
    /\ \A w \in Work : w.kind = "call" => w = Item("call", w.call)
    /\ \A c \in Calls \union {None} :
         /\ \A k \in {"call", "reply", "error", "return", "complete"} : Item(k, c) \in Work
         /\ \A k : Item(k, c).kind = k /\ Item(k, c).call = c
    /\ \A c, d, k, l : Item(k, c) = Item(l, d) => k = l /\ c = d
BY DEF Work, Item

LEMMA NamesNone == Names(<<>>) = {} /\ Tidy(<<>>)
BY DEF Names, Tidy

LEMMA NamesAppend ==
    ASSUME NEW s \in Seq(Work), Tidy(s), NEW w \in Work
    PROVE  /\ Append(s, w) \in Seq(Work) /\ Append(s, w) # <<>>
           /\ w.kind # "call" => Names(Append(s, w)) = Names(s) /\ Tidy(Append(s, w))
           /\ \A c \in Calls : w = Item("call", c) /\ c \notin Names(s) =>
                Names(Append(s, w)) = Names(s) \union {c} /\ Tidy(Append(s, w))
<1> DEFINE r == Append(s, w)
           n == Len(s)
<1>1. /\ n \in Nat /\ r \in Seq(Work) /\ Len(r) = n + 1 /\ r # <<>>
      /\ DOMAIN s = 1 .. n /\ DOMAIN r = 1 .. n + 1 /\ r[n + 1] = w
      /\ \A i \in 1 .. n : r[i] = s[i] /\ i \in DOMAIN r
      /\ \A i \in DOMAIN r : i \in 1 .. n \/ i = n + 1
  OBVIOUS
<1> HIDE DEF r, n
<1>2. ASSUME w.kind # "call" PROVE Names(r) = Names(s) /\ Tidy(r)
  <2>1. \A c : w # Item("call", c) BY <1>2 DEF Item
  <2>2. Names(r) = Names(s) BY <1>1, <2>1 DEF Names
  <2>3. Tidy(r)
    <3> SUFFICES ASSUME NEW i \in DOMAIN r, r[i].kind = "call"
                 PROVE  r[i].call \in Calls /\ \A j \in DOMAIN r : r[i] = r[j] => i = j
      BY DEF Tidy
    <3>1. i \in 1 .. n /\ r[i] = s[i] BY <1>1, <1>2
    <3>2. \A j \in DOMAIN r : r[i] = r[j] => j \in 1 .. n /\ r[j] = s[j]
      BY <1>1, <1>2
    <3> QED BY <1>1, <3>1, <3>2 DEF Tidy
  <2> QED BY <2>2, <2>3
<1>3. ASSUME NEW c \in Calls, w = Item("call", c), c \notin Names(s)
      PROVE  Names(r) = Names(s) \union {c} /\ Tidy(r)
  <2>1. \A d : w = Item("call", d) <=> d = c BY <1>3 DEF Item
  <2>2. Names(r) = Names(s) \union {c} BY <1>1, <2>1 DEF Names
  <2>3. \A i \in 1 .. n : s[i] # w BY <1>1, <1>3 DEF Names
  <2>4. w.call = c BY <1>3 DEF Item
  <2>5. Tidy(r)
    <3> SUFFICES ASSUME NEW i \in DOMAIN r, r[i].kind = "call"
                 PROVE  r[i].call \in Calls /\ \A j \in DOMAIN r : r[i] = r[j] => i = j
      BY DEF Tidy
    <3>1. CASE i \in 1 .. n
      <4>1. r[i] = s[i] /\ s[i].kind = "call" BY <1>1, <3>1
      <4>2. \A j \in DOMAIN r : r[i] = r[j] => j \in 1 .. n /\ r[j] = s[j]
        BY <1>1, <2>3, <3>1, <4>1
      <4> QED BY <1>1, <3>1, <4>1, <4>2 DEF Tidy
    <3>2. CASE i = n + 1
      <4>1. \A j \in DOMAIN r : r[i] = r[j] => j = i BY <1>1, <2>3, <3>2
      <4> QED BY <1>1, <2>4, <3>2, <4>1
    <3> QED BY <1>1, <3>1, <3>2
  <2> QED BY <2>2, <2>5
<1> QED BY <1>1, <1>2, <1>3 DEF r

LEMMA NamesTail ==
    ASSUME NEW s \in Seq(Work), Tidy(s), s # <<>>
    PROVE  /\ Tail(s) \in Seq(Work) /\ Head(s) \in Work /\ Tidy(Tail(s))
           /\ Head(s).kind # "call" => Names(Tail(s)) = Names(s)
           /\ Head(s).kind = "call" =>
                /\ Head(s).call \in Names(s) /\ Head(s).call \in Calls
                /\ Names(Tail(s)) = Names(s) \ {Head(s).call}
<1> DEFINE r == Tail(s)
           n == Len(s)
           h == Head(s)
<1>1. /\ n \in Nat /\ n # 0 /\ r \in Seq(Work) /\ h \in Work /\ h = s[1]
      /\ DOMAIN s = 1 .. n /\ DOMAIN r = 1 .. n - 1
      /\ \A i \in DOMAIN r : r[i] = s[i + 1] /\ i + 1 \in 2 .. n
      /\ \A i \in DOMAIN s : i = 1 \/ (i - 1 \in DOMAIN r /\ r[i - 1] = s[i])
  OBVIOUS
<1> HIDE DEF r, n, h
<1>2. Tidy(r)
  <2> SUFFICES ASSUME NEW i \in DOMAIN r, r[i].kind = "call"
               PROVE  r[i].call \in Calls /\ \A j \in DOMAIN r : r[i] = r[j] => i = j
    BY DEF Tidy
  <2>1. i + 1 \in DOMAIN s /\ r[i] = s[i + 1] /\ i \in Nat BY <1>1
  <2>2. \A j \in DOMAIN r : j + 1 \in DOMAIN s /\ r[j] = s[j + 1] /\ j \in Nat BY <1>1
  <2>3. \A j \in DOMAIN r : r[i] = r[j] => i + 1 = j + 1 BY <2>1, <2>2 DEF Tidy
  <2>4. r[i].call \in Calls BY <2>1 DEF Tidy
  <2> QED BY <2>1, <2>2, <2>3, <2>4
<1>3. 1 \in DOMAIN s BY <1>1
<1>4. \A c \in Calls : c \in Names(s) <=> h = Item("call", c) \/ c \in Names(r)
  BY <1>1, <1>3 DEF Names
<1>5. ASSUME h.kind # "call" PROVE Names(r) = Names(s)
  <2>1. \A c : h # Item("call", c) BY <1>5 DEF Item
  <2> QED BY <1>4, <2>1 DEF Names
<1>6. ASSUME h.kind = "call"
      PROVE  h.call \in Names(s) /\ h.call \in Calls /\ Names(r) = Names(s) \ {h.call}
  <2>1. h.call \in Calls /\ \A j \in DOMAIN s : s[1] = s[j] => 1 = j
    BY <1>1, <1>3, <1>6 DEF Tidy
  <2>2. h = Item("call", h.call) BY <1>1, <1>6, Items
  <2>3. \A c : h = Item("call", c) <=> c = h.call BY <2>2 DEF Item
  <2>4. h.call \notin Names(r)
    <3> SUFFICES ASSUME NEW i \in DOMAIN r, r[i] = h PROVE FALSE
      BY <2>2 DEF Names
    <3>1. i + 1 \in DOMAIN s /\ s[i + 1] = s[1] /\ i \in 1 .. n - 1 BY <1>1
    <3>2. i + 1 = 1 BY <2>1, <3>1
    <3> QED BY <1>1, <3>1, <3>2
  <2> QED BY <1>4, <2>1, <2>3, <2>4 DEF Names
<1> QED BY <1>1, <1>2, <1>5, <1>6 DEF r, h

LEMMA NamesRemove ==
    ASSUME NEW s \in Seq(Work), Tidy(s), NEW i \in DOMAIN s, s[i].kind # "call"
    PROVE  /\ RemoveAt(s, i) \in Seq(Work) /\ Tidy(RemoveAt(s, i))
           /\ Names(RemoveAt(s, i)) = Names(s)
<1> DEFINE r == RemoveAt(s, i)
           n == Len(s)
<1>1. n \in Nat /\ DOMAIN s = 1 .. n /\ i \in 1 .. n OBVIOUS
<1>2. /\ r \in Seq(Work) /\ Len(r) = n - 1
      /\ \A j \in 1 .. n - 1 : r[j] = s[IF j < i THEN j ELSE j + 1]
  <2> DEFINE u == SubSeq(s, 1, i - 1)
             v == SubSeq(s, i + 1, n)
  <2>1. u \in Seq(Work) /\ Len(u) = i - 1 /\ \A j \in 1 .. i - 1 : u[j] = s[j]
    BY <1>1
  <2>2. v \in Seq(Work) /\ Len(v) = n - i /\ \A j \in 1 .. n - i : v[j] = s[i + j]
    <3>1. \A j \in i + 1 .. n : s[j] \in Work BY <1>1
    <3>2. i + 1 \in Int /\ n \in Int BY <1>1
    <3>3. /\ v \in Seq(Work)
          /\ Len(v) = IF i + 1 <= n THEN n - (i + 1) + 1 ELSE 0
          /\ \A j \in 1 .. n - (i + 1) + 1 : v[j] = s[(i + 1) + j - 1]
      BY <3>1, <3>2, SubSeqProperties
    <3> HIDE DEF v
    <3>4. n - (i + 1) + 1 = n - i /\ (i + 1 <= n \/ n - i = 0)
          /\ \A j \in 1 .. n - i : (i + 1) + j - 1 = i + j
      BY <1>1
    <3> QED BY <1>1, <3>3, <3>4
  <2> HIDE DEF u, v
  <2>3. r = u \o v BY DEF RemoveAt, u, v, n
  <2>4. /\ r \in Seq(Work) /\ Len(r) = n - 1
        /\ \A j \in 1 .. n - 1 : r[j] = IF j <= i - 1 THEN u[j] ELSE v[j - (i - 1)]
    <3> HIDE DEF r
    <3>1. /\ u \o v \in Seq(Work) /\ Len(u \o v) = Len(u) + Len(v)
          /\ \A j \in 1 .. Len(u) + Len(v) :
               (u \o v)[j] = IF j <= Len(u) THEN u[j] ELSE v[j - Len(u)]
      BY <2>1, <2>2, ConcatProperties
    <3>2. Len(u) + Len(v) = n - 1 BY <1>1, <2>1, <2>2
    <3> QED BY <2>1, <2>3, <3>1, <3>2
  <2>5. ASSUME NEW j \in 1 .. n - 1 PROVE r[j] = s[IF j < i THEN j ELSE j + 1]
    <3>1. CASE j < i BY <1>1, <2>1, <2>4, <3>1
    <3>2. CASE ~(j < i)
      <4>1. ~(j <= i - 1) /\ j - (i - 1) \in 1 .. n - i /\ i + (j - (i - 1)) = j + 1
        BY <1>1, <3>2
      <4> QED BY <2>2, <2>4, <3>2, <4>1
    <3> QED BY <3>1, <3>2
  <2> QED BY <2>4, <2>5
<1> DEFINE J(j) == IF j < i THEN j ELSE j + 1
           K(j) == IF j < i THEN j ELSE j - 1
<1>3. DOMAIN r = 1 .. n - 1 BY <1>1, <1>2
<1>4. \A j \in DOMAIN r : J(j) \in DOMAIN s /\ J(j) # i /\ r[j] = s[J(j)]
  BY <1>1, <1>2, <1>3
<1>5. \A j \in DOMAIN s : j # i => K(j) \in DOMAIN r /\ J(K(j)) = j
  BY <1>1, <1>3
<1>6. \A j, k \in DOMAIN r : J(j) = J(k) => j = k BY <1>1, <1>3
<1> HIDE DEF r, J, K, n
<1>7. Tidy(r)
  <2> SUFFICES ASSUME NEW j \in DOMAIN r, r[j].kind = "call"
               PROVE  r[j].call \in Calls /\ \A k \in DOMAIN r : r[j] = r[k] => j = k
    BY DEF Tidy
  <2> QED BY <1>4, <1>6 DEF Tidy
<1>8. \A c : s[i] # Item("call", c) BY DEF Item
<1>9. Names(r) = Names(s)
  <2>1. ASSUME NEW c \in Names(r) PROVE c \in Names(s) BY <1>4 DEF Names
  <2>2. ASSUME NEW c \in Names(s) PROVE c \in Names(r)
    <3>1. PICK j \in DOMAIN s : s[j] = Item("call", c) BY DEF Names
    <3>2. j # i BY <1>8, <3>1
    <3>3. K(j) \in DOMAIN r /\ r[K(j)] = s[j] BY <1>4, <1>5, <3>2
    <3> QED BY <3>1, <3>3 DEF Names
  <2> QED BY <2>1, <2>2
<1> QED BY <1>2, <1>7, <1>9 DEF r

\* A process's list, of calls only.
Distinct(s) == \A i, j \in DOMAIN s : s[i] = s[j] => i = j

LEMMA RangeNone == Range(<<>>) = {} /\ Distinct(<<>>)
BY DEF Range, Distinct

LEMMA RangeAppend ==
    ASSUME NEW s \in Seq(Calls), Distinct(s), NEW c \in Calls, c \notin Range(s)
    PROVE  /\ Append(s, c) \in Seq(Calls) /\ Distinct(Append(s, c))
           /\ Range(Append(s, c)) = Range(s) \union {c}
<1> DEFINE r == Append(s, c)
           n == Len(s)
<1>1. /\ n \in Nat /\ r \in Seq(Calls)
      /\ DOMAIN s = 1 .. n /\ DOMAIN r = 1 .. n + 1 /\ r[n + 1] = c
      /\ \A i \in 1 .. n : r[i] = s[i] /\ i \in DOMAIN r
      /\ \A i \in DOMAIN r : i \in 1 .. n \/ i = n + 1
  OBVIOUS
<1>2. \A i \in 1 .. n : s[i] # c BY <1>1 DEF Range
<1>3. n + 1 \in DOMAIN r BY <1>1
<1> HIDE DEF r, n
<1>4. Range(r) = Range(s) \union {c} BY <1>1, <1>3 DEF Range
<1>5. Distinct(r)
  <2> SUFFICES ASSUME NEW i \in DOMAIN r, NEW j \in DOMAIN r, r[i] = r[j] PROVE i = j
    BY DEF Distinct
  <2>1. CASE i \in 1 .. n /\ j \in 1 .. n BY <1>1, <2>1 DEF Distinct
  <2>2. CASE i = n + 1 \/ j = n + 1 BY <1>1, <1>2, <2>2
  <2> QED BY <1>1, <2>1, <2>2
<1> QED BY <1>1, <1>4, <1>5 DEF r

LEMMA RangeTail ==
    ASSUME NEW s \in Seq(Calls), Distinct(s), s # <<>>
    PROVE  /\ Tail(s) \in Seq(Calls) /\ Head(s) \in Calls /\ Distinct(Tail(s))
           /\ Head(s) \in Range(s) /\ Range(Tail(s)) = Range(s) \ {Head(s)}
<1> DEFINE r == Tail(s)
           n == Len(s)
           h == Head(s)
<1>1. /\ n \in Nat /\ n # 0 /\ r \in Seq(Calls) /\ h \in Calls /\ h = s[1]
      /\ DOMAIN s = 1 .. n /\ DOMAIN r = 1 .. n - 1
      /\ \A i \in DOMAIN r : r[i] = s[i + 1] /\ i + 1 \in DOMAIN s /\ i + 1 # 1 /\ i \in Nat
      /\ \A i \in DOMAIN s : i = 1 \/ (i - 1 \in DOMAIN r /\ r[i - 1] = s[i])
  OBVIOUS
<1>2. 1 \in DOMAIN s BY <1>1
<1> HIDE DEF r, n, h
<1>3. Distinct(r)
  <2> SUFFICES ASSUME NEW i \in DOMAIN r, NEW j \in DOMAIN r, r[i] = r[j] PROVE i = j
    BY DEF Distinct
  <2>1. i + 1 = j + 1 BY <1>1 DEF Distinct
  <2> QED BY <1>1, <2>1
<1>4. \A i \in DOMAIN r : r[i] # h BY <1>1, <1>2 DEF Distinct
<1>5. Range(r) = Range(s) \ {h}
  <2>1. \A x : x \in Range(s) <=> x = h \/ x \in Range(r) BY <1>1, <1>2 DEF Range
  <2>2. h \notin Range(r) BY <1>4 DEF Range
  <2> QED BY <2>1, <2>2
<1>6. h \in Range(s) BY <1>1, <1>2 DEF Range
<1> QED BY <1>1, <1>3, <1>5, <1>6 DEF r, h

-----------------------------------------------------------------------------
(* Who has which pending call: in hand, or on its list. *)

Agents == Threads \union Procs

HoldTypes(H, L) ==
    H \in [Agents -> Calls \union {None}] /\ L \in [Agents -> SUBSET Calls]

Apart(H, L) ==
    \A a, b \in Agents :
      /\ H[a] # None => (H[a] = H[b] => a = b) /\ H[a] \notin L[b]
      /\ a # b => L[a] \cap L[b] = {}

HeldIn(H, L) == {c \in Calls : \E a \in Agents : H[a] = c \/ c \in L[a]}

LEMMA HandTurns ==
    ASSUME NEW H, NEW L, HoldTypes(H, L), Apart(H, L), NEW a \in Agents,
           NEW v \in Calls \union {None}, v = H[a] \/ v \notin HeldIn(H, L),
           NEW G, NEW M, HoldTypes(G, M), G[a] = v,
           \A b \in Agents : (b # a => G[b] = H[b]) /\ M[b] = L[b]
    PROVE  /\ Apart(G, M)
           /\ HeldIn(G, M) = (HeldIn(H, L) \ {H[a]}) \union ({v} \cap Calls)
<1>1. Apart(G, M)
  <2> SUFFICES ASSUME NEW b \in Agents, NEW c \in Agents
               PROVE  /\ G[b] # None => (G[b] = G[c] => b = c) /\ G[b] \notin M[c]
                      /\ b # c => M[b] \cap M[c] = {}
    BY DEF Apart
  <2>1. \A d \in Agents : d # a /\ v # None => H[d] # v /\ v \notin L[d]
    BY DEF HeldIn, Apart, HoldTypes
  <2>2. v # None => v \notin L[a]  BY DEF HeldIn, Apart, HoldTypes
  <2>3. G[b] # None => (G[b] = G[c] => b = c) BY <2>1 DEF Apart
  <2>4. G[b] # None => G[b] \notin M[c] BY <2>1, <2>2 DEF Apart
  <2>5. b # c => M[b] \cap M[c] = {} BY DEF Apart
  <2> QED BY <2>3, <2>4, <2>5
<1>2. \A c \in Calls : c \in HeldIn(G, M) <=>
        (c \in HeldIn(H, L) /\ c # H[a]) \/ c = v
  <2> SUFFICES ASSUME NEW c \in Calls
               PROVE  c \in HeldIn(G, M) <=> (c \in HeldIn(H, L) /\ c # H[a]) \/ c = v
    OBVIOUS
  <2>1. c # None BY NoneIsNoCall
  <2>2. \A d \in Agents : H[a] = c => (d # a => H[d] # c) /\ c \notin L[d]
    BY <2>1 DEF Apart
  <2> QED BY <2>1, <2>2 DEF HeldIn
<1>3. \A c \in HeldIn(H, L) \union HeldIn(G, M) : c \in Calls BY DEF HeldIn
<1> QED BY <1>1, <1>2, <1>3

LEMMA HandTakes ==
    ASSUME NEW H, NEW L, HoldTypes(H, L), Apart(H, L), NEW a \in Agents,
           NEW b \in Agents, NEW c \in L[b], H[a] = None,
           NEW G, NEW M, HoldTypes(G, M), G[a] = c, M[b] = L[b] \ {c},
           \A d \in Agents : (d # a => G[d] = H[d]) /\ (d # b => M[d] = L[d])
    PROVE  Apart(G, M) /\ HeldIn(G, M) = HeldIn(H, L)
<1>0. c \in Calls /\ c # None BY NoneIsNoCall DEF HoldTypes
<1>1. \A d \in Agents : H[d] # c /\ c \notin M[d] BY <1>0 DEF Apart
<1>2. \A d \in Agents : M[d] \subseteq L[d] OBVIOUS
<1>3. Apart(G, M)
  <2> SUFFICES ASSUME NEW d \in Agents, NEW e \in Agents
               PROVE  /\ G[d] # None => (G[d] = G[e] => d = e) /\ G[d] \notin M[e]
                      /\ d # e => M[d] \cap M[e] = {}
    BY DEF Apart
  <2>1. G[d] # None => (G[d] = G[e] => d = e) BY <1>1 DEF Apart
  <2>2. G[d] # None => G[d] \notin M[e] BY <1>1, <1>2 DEF Apart
  <2>3. d # e => M[d] \cap M[e] = {} BY <1>2 DEF Apart
  <2> QED BY <2>1, <2>2, <2>3
<1>4. HeldIn(G, M) = HeldIn(H, L)
  <2>1. ASSUME NEW e \in Calls, e \in HeldIn(H, L) PROVE e \in HeldIn(G, M)
    <3>1. PICK d \in Agents : H[d] = e \/ e \in L[d] BY <2>1 DEF HeldIn
    <3>2. CASE e = c BY <3>2 DEF HeldIn
    <3>3. CASE e # c
      <4>1. e \in L[d] => e \in M[d] BY <3>3
      <4>2. H[d] = e => d # a BY <1>0, NoneIsNoCall
      <4> QED BY <3>1, <4>1, <4>2 DEF HeldIn
    <3> QED BY <3>2, <3>3
  <2>2. \A e \in Calls : e \in HeldIn(G, M) => e \in HeldIn(H, L)
    BY <1>0, <1>2 DEF HeldIn
  <2> QED BY <2>1, <2>2 DEF HeldIn
<1> QED BY <1>3, <1>4

LEMMA HandPuts ==
    ASSUME NEW H, NEW L, HoldTypes(H, L), Apart(H, L), NEW a \in Agents,
           NEW b \in Agents, NEW c \in Calls, H[a] = c,
           NEW G, NEW M, HoldTypes(G, M), G[a] = None, M[b] = L[b] \union {c},
           \A d \in Agents : (d # a => G[d] = H[d]) /\ (d # b => M[d] = L[d])
    PROVE  Apart(G, M) /\ HeldIn(G, M) = HeldIn(H, L)
<1>0. c # None BY NoneIsNoCall
<1>1. \A d \in Agents : G[d] # c /\ c \notin L[d] BY <1>0 DEF Apart
<1>2. Apart(G, M)
  <2> SUFFICES ASSUME NEW d \in Agents, NEW e \in Agents
               PROVE  /\ G[d] # None => (G[d] = G[e] => d = e) /\ G[d] \notin M[e]
                      /\ d # e => M[d] \cap M[e] = {}
    BY DEF Apart
  <2>1. G[d] # None => G[d] = H[d] OBVIOUS
  <2>2. \A f \in Agents : M[f] = L[f] \/ (f = b /\ M[f] = L[f] \union {c}) OBVIOUS
  <2>3. G[d] # None => (G[d] = G[e] => d = e) BY <2>1 DEF Apart
  <2>4. G[d] # None => G[d] \notin M[e] BY <1>1, <2>1, <2>2 DEF Apart
  <2>5. d # e => M[d] \cap M[e] = {} BY <1>1, <2>2 DEF Apart
  <2> QED BY <2>3, <2>4, <2>5
<1>3. HeldIn(G, M) = HeldIn(H, L)
  <2>1. ASSUME NEW e \in Calls, e \in HeldIn(H, L) PROVE e \in HeldIn(G, M)
    <3>1. PICK d \in Agents : H[d] = e \/ e \in L[d] BY <2>1 DEF HeldIn
    <3>2. CASE e = c BY <3>2 DEF HeldIn
    <3>3. CASE e # c
      <4>1. e \in L[d] => e \in M[d] OBVIOUS
      <4>2. H[d] = e => d # a BY <3>3
      <4> QED BY <3>1, <4>1, <4>2 DEF HeldIn
    <3> QED BY <3>2, <3>3
  <2>2. ASSUME NEW e \in Calls, e \in HeldIn(G, M) PROVE e \in HeldIn(H, L)
    <3>1. PICK d \in Agents : G[d] = e \/ e \in M[d] BY <2>2 DEF HeldIn
    <3>2. CASE e = c BY <3>2 DEF HeldIn
    <3>3. CASE e # c
      <4>1. e \in M[d] => e \in L[d] BY <3>3
      <4>2. G[d] = e => H[d] = e BY <1>0, NoneIsNoCall
      <4> QED BY <3>1, <4>1, <4>2 DEF HeldIn
    <3> QED BY <3>2, <3>3
  <2> QED BY <2>1, <2>2 DEF HeldIn
<1> QED BY <1>2, <1>3

-----------------------------------------------------------------------------
(* What an agent relies on, at place pl and with the calls L on its list. *)

Free(pl) == pl.pc \in {"user", "wait", "deliver"}

\* The calls that thread is to serve next.
Coming(pl, L) == L \union {c \in Calls : pl.pc = "deliver" /\ pl.cur = c}

\* They are foreign, one at a time, and meant for thread th or for any thread
\* without a stack.
GivenTo(X, S, th, free, W) ==
    \A c \in W :
      /\ X[c].from # None => Owner[X[c].from] # Owner[th]
      /\ \A d \in W : d = c
      /\ \/ X[c].toThread = None /\ S[th] = None /\ free
         \/ X[c].toThread = th /\ WaitsFor(X, S, th, c)

\* What a thread that makes a call knows.
Writes(X, S, D, th, pl) ==
    /\ pl.pc \in {"refs", "target"} =>
         th \notin D /\ (S[th] = None \/ X[S[th]].toThread = th)
    /\ pl.pc = "target" /\ pl.tgt # None =>
         S[th] # None /\ (pl.tgt \in D \/ WaitsFor(X, S, pl.tgt, S[th]))
    /\ pl.pc = "queue" =>
         /\ th \notin D /\ X[pl.cur].from = th /\ X[pl.cur].toThread = pl.tgt
         /\ pl.tgt # None => pl.tgt \in D \/ WaitsFor(X, S, pl.tgt, pl.cur)
    /\ pl.pc = "undo" => th \notin D /\ X[pl.cur].from = th

\* Whoever answers a call has its caller, or that has been released.
Answering(X, D, pl) ==
    pl.pc \in {"from", "acquired", "built", "refused", "failfrom"} =>
      X[pl.cur].from = pl.tgt \/ (X[pl.cur].from = None /\ pl.tgt \in D)

\* The calls on a process's list.
ToAny(X, p, L) ==
    \A c \in L : X[c].toThread = None /\ (X[c].from # None => Owner[X[c].from] # p)

LEMMA GivenKeep ==
    ASSUME NEW X, NEW S, NEW D, NEW P, NEW R, Core(X, S, D, P, R),
           NEW Y, NEW T, NEW E, NEW a, NEW C, Calm(X, S, P, R, Y, T, E, a, C),
           NEW th \in Threads, th \notin E,
           T[th] = S[th] \/ (S[th] \in P /\ X[S[th]].from = th),
           NEW W, \A c \in W : c \in P /\ c \notin R,
           NEW free, GivenTo(X, S, th, free, W),
           NEW V, \A c \in V : c \in W /\ c \notin C,
           NEW still, V # {} => (free => still)
    PROVE  GivenTo(Y, T, th, still, V)
<1> SUFFICES ASSUME NEW c \in V
             PROVE  /\ Y[c].from # None => Owner[Y[c].from] # Owner[th]
                    /\ \A d \in V : d = c
                    /\ \/ Y[c].toThread = None /\ T[th] = None /\ still
                       \/ Y[c].toThread = th /\ WaitsFor(Y, T, th, c)
  BY DEF GivenTo
<1>1. c \in W /\ c \in P /\ c \notin R /\ c \notin C OBVIOUS
<1>2. CoreTypes(X, S, D, P, R) /\ c \in Calls BY <1>1 DEF Core, CoreTypes
<1>3. /\ X[c].from # None => Owner[X[c].from] # Owner[th]
      /\ \A d \in W : d = c
      /\ \/ X[c].toThread = None /\ S[th] = None /\ free
         \/ X[c].toThread = th /\ WaitsFor(X, S, th, c)
  BY <1>1 DEF GivenTo
<1>4. /\ Y[c].toThread = X[c].toThread
      /\ Y[c].from = X[c].from \/ Y[c].from = None
  BY <1>1, <1>2 DEF Calm
<1>5. S[th] = None => T[th] = None BY <1>2, NoneIsNoCall DEF CoreTypes
<1>6. ASSUME WaitsFor(X, S, th, c) PROVE WaitsFor(Y, T, th, c)
  <2>1. Leaf(X, R, c) BY <1>1, PendingLeaf
  <2>2. X[S[th]].from = th BY <1>6 DEF WaitsFor
  <2>3. S[th] # c BY <1>3, <2>2, NoneIsNobody
  <2> QED BY <1>1, <1>2, <1>6, <2>1, <2>3 DEF Calm
<1> QED BY <1>3, <1>4, <1>5, <1>6

LEMMA WritesKeep ==
    ASSUME NEW X, NEW S, NEW D, NEW P, NEW R, Core(X, S, D, P, R),
           NEW Y, NEW T, NEW E, NEW a, NEW C, Calm(X, S, P, R, Y, T, E, a, C),
           D \subseteq E, NEW th \in Threads, th # a, th \in E => th \in D,
           NEW pl \in Place, Writes(X, S, D, th, pl),
           pl.pc \in {"queue", "undo"} => pl.cur \in P /\ pl.cur \notin R /\ pl.cur \notin C
    PROVE  Writes(Y, T, E, th, pl)
<1>0. CoreTypes(X, S, D, P, R) BY DEF Core
<1>1. pl.tgt \in Threads \union {None} BY DEF Place
<1>2. ASSUME th \notin D, S[th] # None, X[S[th]].toThread = th
      PROVE  /\ T[th] = S[th] /\ Y[S[th]].toThread = th
             /\ \A w \in Threads : w \notin E /\ WaitsFor(X, S, w, S[th])
                                     => WaitsFor(Y, T, w, T[th])
  <2>1. T[th] = S[th] /\ Y[S[th]].toThread = th /\ S[th] \notin C
    BY <1>2 DEF Calm
  <2>2. S[th] \in Calls /\ S[th] \notin P /\ Leaf(X, R, S[th]) BY <1>2, ServedTop
  <2> QED BY <2>1, <2>2 DEF Calm
<1>3. ASSUME th \notin D, S[th] = None PROVE T[th] = None
  <2>1. T[th] = S[th] \/ S[th] \in P BY <1>3 DEF Calm
  <2> QED BY <1>0, <1>3, <2>1, NoneIsNoCall DEF CoreTypes
<1>4. ASSUME pl.pc \in {"refs", "target"}
      PROVE  th \notin E /\ (T[th] = None \/ Y[T[th]].toThread = th)
  BY <1>2, <1>3, <1>4 DEF Writes
<1>5. ASSUME pl.pc = "target", pl.tgt # None
      PROVE  T[th] # None /\ (pl.tgt \in E \/ WaitsFor(Y, T, pl.tgt, T[th]))
  <2>1. th \notin D /\ S[th] # None /\ X[S[th]].toThread = th
        /\ (pl.tgt \in D \/ WaitsFor(X, S, pl.tgt, S[th]))
    BY <1>5 DEF Writes
  <2> QED BY <1>1, <1>2, <1>5, <2>1
<1>6. ASSUME pl.pc \in {"queue", "undo"}
      PROVE  /\ th \notin E /\ Y[pl.cur].from = th
             /\ Y[pl.cur].toThread = X[pl.cur].toThread
  <2>1. th \notin D /\ X[pl.cur].from = th BY <1>6 DEF Writes
  <2>2. pl.cur \in Calls /\ pl.cur \in P /\ pl.cur \notin C
    BY <1>0, <1>6 DEF CoreTypes
  <2> QED BY <2>1, <2>2 DEF Calm
<1>7. ASSUME pl.pc = "queue", pl.tgt # None
      PROVE  pl.tgt \in E \/ WaitsFor(Y, T, pl.tgt, pl.cur)
  <2>1. X[pl.cur].from = th /\ X[pl.cur].toThread = pl.tgt
        /\ (pl.tgt \in D \/ WaitsFor(X, S, pl.tgt, pl.cur))
    BY <1>7 DEF Writes
  <2>2. pl.cur \in Calls /\ pl.cur \in P /\ pl.cur \notin C /\ pl.cur \notin R
    BY <1>0, <1>7 DEF CoreTypes
  <2>3. ASSUME WaitsFor(X, S, pl.tgt, pl.cur), pl.tgt \notin E
        PROVE  WaitsFor(Y, T, pl.tgt, pl.cur)
    <3>1. Leaf(X, R, pl.cur) BY <2>2, PendingLeaf
    <3>2. pl.tgt # th BY <1>1, <1>7, <2>1, <2>2, NoneIsNobody DEF Core, Foreign
    <3>3. X[S[pl.tgt]].from = pl.tgt BY <2>3 DEF WaitsFor
    <3>4. S[pl.tgt] # pl.cur BY <2>1, <3>2, <3>3
    <3> QED BY <1>1, <1>7, <2>2, <2>3, <3>1, <3>4 DEF Calm
  <2> QED BY <2>1, <2>3
<1> QED BY <1>4, <1>5, <1>6, <1>7 DEF Writes

LEMMA AnsweringKeep ==
    ASSUME NEW X, NEW S, NEW D, NEW P, NEW R, Core(X, S, D, P, R),
           NEW Y, NEW T, NEW E, NEW a, NEW C, Calm(X, S, P, R, Y, T, E, a, C),
           D \subseteq E, NEW pl, Answering(X, D, pl),
           pl.pc \in {"from", "acquired", "built", "refused", "failfrom"} =>
             pl.cur \in P /\ pl.cur \notin C
    PROVE  Answering(Y, E, pl)
<1> SUFFICES ASSUME pl.pc \in {"from", "acquired", "built", "refused", "failfrom"}
             PROVE  Y[pl.cur].from = pl.tgt \/ (Y[pl.cur].from = None /\ pl.tgt \in E)
  BY DEF Answering
<1>1. X[pl.cur].from = pl.tgt \/ (X[pl.cur].from = None /\ pl.tgt \in D)
  BY DEF Answering
<1>2. pl.cur \in Calls /\ pl.cur \notin C BY DEF Core, CoreTypes
<1>3. \/ Y[pl.cur].from = X[pl.cur].from
      \/ Y[pl.cur].from = None /\ X[pl.cur].from \in E
  BY <1>2 DEF Calm
<1> QED BY <1>1, <1>3

LEMMA ToAnyKeep ==
    ASSUME NEW X, NEW S, NEW D, NEW P, NEW R, Core(X, S, D, P, R),
           NEW Y, NEW T, NEW E, NEW a, NEW C, Calm(X, S, P, R, Y, T, E, a, C),
           NEW p, NEW L, ToAny(X, p, L), \A c \in L : c \in P,
           NEW M, \A c \in M : c \in L /\ c \notin C
    PROVE  ToAny(Y, p, M)
<1> SUFFICES ASSUME NEW c \in M
             PROVE  Y[c].toThread = None /\ (Y[c].from # None => Owner[Y[c].from] # p)
  BY DEF ToAny
<1>1. c \in Calls /\ c \in P /\ c \notin C /\ c \in L BY DEF Core, CoreTypes
<1>2. X[c].toThread = None /\ (X[c].from # None => Owner[X[c].from] # p)
  BY <1>1 DEF ToAny
<1>3. Y[c].toThread = X[c].toThread /\ (Y[c].from = X[c].from \/ Y[c].from = None)
  BY <1>1 DEF Calm
<1> QED BY <1>2, <1>3

-----------------------------------------------------------------------------
(* The places of threads and processes in the driver. *)

WithCall == {"queue", "undo", "done", "popped", "from", "acquired", "built",
             "replied", "refused", "unsent", "fail", "failfrom", "deliver"}
Calling == {"refs", "target", "queue", "undo", "done", "err"}
Sending == {"acquired", "built", "replied", "refused"}

\* What the place of an agent looks like, with the threads D released.
Shaped(D, b, pl) ==
    /\ pl.cur # None <=> pl.pc \in WithCall
    /\ pl.pc \in Sending \union {"from", "failfrom"} => pl.tgt # None
    /\ pl.tgt # None =>
         pl.pc \in Sending \union (Calling \ {"refs"}) \union {"from", "failfrom", "deliver"}
    /\ pl.proc # None <=> pl.pc \in Calling \union Sending
    /\ pl.tgt # None /\ pl.proc # None => Owner[pl.tgt] = pl.proc
    /\ b \in Procs => pl.pc \in {"off", "threads", "todo", "fail", "failfrom", "gone"}
    /\ b \in Threads =>
         /\ pl.pc \notin {"off", "threads", "todo"}
         /\ b \in D => pl.pc \in {"work", "fail", "failfrom", "gone"}
         /\ b \notin D => pl.pc \notin {"work", "gone"}
         /\ pl.pc \in Calling => pl.proc # Owner[b]

Fits(X, S, D, L, b, pl) ==
    /\ Shaped(D, b, pl)
    /\ b \in Threads /\ b \notin D => GivenTo(X, S, b, Free(pl), Coming(pl, L))
    /\ b \in Threads => Writes(X, S, D, b, pl)
    /\ Answering(X, D, pl)
    /\ b \in Procs => ToAny(X, b, L)

\* What b has in hand at pl.
HandAt(pl) == IF pl.pc = "done" THEN None ELSE pl.cur

LEMMA FitsKeep ==
    ASSUME NEW X, NEW S, NEW D, NEW P, NEW R, Core(X, S, D, P, R),
           NEW Y, NEW T, NEW E, NEW a \in Agents, NEW C, Calm(X, S, P, R, Y, T, E, a, C),
           D \subseteq E, E \subseteq D \union {a},
           NEW H, NEW L, HoldTypes(H, L), Apart(H, L), P = HeldIn(H, L),
           \A c \in C : c = H[a] \/ c \notin P,
           NEW b \in Agents, b # a, NEW pl \in Place, H[b] = HandAt(pl),
           \A c \in R : (\A d \in Agents : c \notin L[d]) /\ (H[b] = c => pl.pc = "replied"),
           NEW V, V = L[b], Fits(X, S, D, V, b, pl), NEW M \in SUBSET V,
           NEW ql, ql = pl \/ (pl.pc = "wait" /\ ql = Idle("user"))
    PROVE  Fits(Y, T, E, M, b, ql)
<1>0. /\ Shaped(D, b, pl) /\ Answering(X, D, pl) /\ (b \in Threads => Writes(X, S, D, b, pl))
      /\ b \in Procs => ToAny(X, b, V)
      /\ b \in Threads /\ b \notin D => GivenTo(X, S, b, Free(pl), Coming(pl, V))
  BY DEF Fits
<1>1. b \in E <=> b \in D OBVIOUS
<1>2. ql \in Place /\ ql.cur \in Calls \union {None}
  <2>1. Idle("user") \in Place BY DEF Idle, Place
  <2> QED BY <2>1 DEF Place
<1>3. \A c \in V : c \in Calls /\ c \in P /\ c \notin C /\ c \notin R
  <2> SUFFICES ASSUME NEW c \in V PROVE c \in Calls /\ c \in P /\ c \notin C /\ c \notin R
    OBVIOUS
  <2>1. c \in Calls /\ c \in P BY DEF HeldIn, HoldTypes
  <2>2. H[a] # c BY <2>1, NoneIsNoCall DEF Apart
  <2> QED BY <2>1, <2>2
<1>4. ASSUME pl.pc \in WithCall \ {"done"}
      PROVE  /\ pl.cur \in Calls /\ pl.cur \in P /\ pl.cur \notin C
             /\ pl.pc # "replied" => pl.cur \notin R
  <2>1. pl.cur # None /\ H[b] = pl.cur BY <1>0, <1>4 DEF Shaped, HandAt
  <2>2. pl.cur \in Calls /\ pl.cur \in P BY <2>1 DEF HeldIn, HoldTypes
  <2>3. H[a] # pl.cur BY <2>1 DEF Apart
  <2> QED BY <2>1, <2>2, <2>3
<1>5. Shaped(E, b, ql)
  <2>1. CASE ql = pl BY <1>0, <1>1, <2>1 DEF Shaped
  <2>2. CASE ql = Idle("user") /\ pl.pc = "wait"
    <3>1. ql.pc = "user" /\ ql.cur = None /\ ql.tgt = None /\ ql.proc = None
      BY <2>2 DEF Idle
    <3>2. b \notin Procs /\ (b \in Threads => b \notin D) BY <1>0, <2>2 DEF Shaped
    <3> QED BY <1>1, <3>1, <3>2 DEF Shaped, WithCall, Calling, Sending
  <2> QED BY <2>1, <2>2
<1>6. ASSUME b \in Threads, b \notin E
      PROVE  GivenTo(Y, T, b, Free(ql), Coming(ql, M))
  <2>1. T[b] = S[b] \/ (S[b] \in P /\ X[S[b]].from = b) BY <1>6 DEF Calm
  <2>2. \A c \in Coming(pl, V) : c \in P /\ c \notin R /\ c \notin C
    BY <1>3, <1>4 DEF Coming, WithCall
  <2>3. \A c \in Coming(ql, M) : c \in Coming(pl, V) BY DEF Coming, Idle
  <2>4. Free(pl) => Free(ql) BY DEF Free, Idle
  <2>5. GivenTo(X, S, b, Free(pl), Coming(pl, V)) BY <1>0, <1>1, <1>6
  <2> DEFINE W == Coming(pl, V)
             Z == Coming(ql, M)
             free == Free(pl)
             still == Free(ql)
  <2>6. \A c \in W : c \in P /\ c \notin R BY <2>2
  <2>7. \A c \in Z : c \in W /\ c \notin C BY <2>2, <2>3
  <2>8. Z # {} => (free => still) BY <2>4
  <2>9. GivenTo(X, S, b, free, W) BY <2>5
  <2> HIDE DEF W, Z, free, still
  <2>10. GivenTo(Y, T, b, still, Z) BY <1>6, <2>1, <2>6, <2>7, <2>8, <2>9, GivenKeep
  <2> QED BY <2>10 DEF still, Z
<1>7. ASSUME b \in Threads PROVE Writes(Y, T, E, b, ql)
  <2>1. CASE ql = pl
    <3>1. pl.pc \in {"queue", "undo"} => pl.cur \in P /\ pl.cur \notin R /\ pl.cur \notin C
      BY <1>4 DEF WithCall
    <3>2. Writes(X, S, D, b, pl) /\ (b \in E => b \in D) BY <1>0, <1>1, <1>7
    <3>3. Writes(Y, T, E, b, pl) BY <1>7, <3>1, <3>2, WritesKeep
    <3> QED BY <2>1, <3>3
  <2>2. CASE ql = Idle("user") BY <2>2 DEF Writes, Idle
  <2> QED BY <2>1, <2>2
<1>8. Answering(Y, E, ql)
  <2>1. CASE ql = pl
    <3>1. pl.pc \in {"from", "acquired", "built", "refused", "failfrom"} =>
             pl.cur \in P /\ pl.cur \notin C
      BY <1>4 DEF WithCall
    <3>2. Answering(Y, E, pl) BY <1>0, <3>1, AnsweringKeep
    <3> QED BY <2>1, <3>2
  <2>2. CASE ql = Idle("user") BY <2>2 DEF Answering, Idle
  <2> QED BY <2>1, <2>2
<1>9. ASSUME b \in Procs PROVE ToAny(Y, b, M)
  <2>1. ToAny(X, b, V) BY <1>0, <1>9
  <2>2. \A c \in V : c \in P BY <1>3
  <2>3. \A c \in M : c \in V /\ c \notin C BY <1>3
  <2> QED BY <2>1, <2>2, <2>3, ToAnyKeep
<1> QED BY <1>5, <1>6, <1>7, <1>8, <1>9 DEF Fits

-----------------------------------------------------------------------------
(* The state, as the above sees it. *)

\* Types, but for the reference counts, which are shown not to be negative
\* later.
LooseProcess == [dead : BOOLEAN, node : BOOLEAN, todo : Seq(Calls), ref : Int,
                 freed : BOOLEAN]
LooseThread == [stack : Calls \union {None}, todo : Seq(Work),
                processTodo : BOOLEAN, dead : BOOLEAN, ref : Int, freed : BOOLEAN]
LooseProcesses == [Procs -> LooseProcess]
LooseThreads == [Threads -> LooseThread]
Places == [Agents -> Place]

Types == prc \in LooseProcesses /\ thr \in LooseThreads /\ txn \in Transactions
         /\ at \in Places

TopOn(t) == IF t.dead THEN None ELSE t.stack
Tops == [th \in Threads |-> TopOn(thr[th])]
Gone == {th \in Threads : thr[th].dead}
Hands == [a \in Agents |-> HandAt(at[a])]
Lists == [a \in Agents |-> IF a \in Threads THEN Names(thr[a].todo)
                                            ELSE Range(prc[a].todo)]
Pendings == HeldIn(Hands, Lists)
Answered == {c \in Calls : \E a \in Agents : at[a].pc = "replied" /\ at[a].cur = c}

Tidied == /\ \A th \in Threads : Tidy(thr[th].todo)
          /\ \A p \in Procs : Distinct(prc[p].todo)

FitsAt(b) == Fits(txn, Tops, Gone, Lists[b], b, at[b])

\* The inductive invariant.
Sound ==
    /\ Types
    /\ Core(txn, Tops, Gone, Pendings, Answered)
    /\ Apart(Hands, Lists) /\ Tidied
    /\ \A b \in Agents : FitsAt(b)

LEMMA StateTypes ==
    ASSUME Types
    PROVE  /\ HoldTypes(Hands, Lists) /\ Tops \in [Threads -> Calls \union {None}]
           /\ Gone \in SUBSET Threads /\ Pendings \in SUBSET Calls
           /\ Answered \in SUBSET Calls
           /\ \A a \in Agents : at[a] \in Place
           /\ \A th \in Threads : thr[th] \in LooseThread
           /\ \A p \in Procs : prc[p] \in LooseProcess
<1>1. \A a \in Agents : at[a] \in Place BY DEF Types, Places
<1>2. \A th \in Threads : thr[th] \in LooseThread BY DEF Types, LooseThreads
<1>3. \A p \in Procs : prc[p] \in LooseProcess BY DEF Types, LooseProcesses
<1>4. Hands \in [Agents -> Calls \union {None}]
  <2>1. \A a \in Agents : HandAt(at[a]) \in Calls \union {None}
    BY <1>1 DEF HandAt, Place
  <2> QED BY <2>1 DEF Hands
<1>5. Lists \in [Agents -> SUBSET Calls]
  <2>1. \A th \in Threads : Names(thr[th].todo) \in SUBSET Calls BY DEF Names
  <2>2. \A p \in Procs : Range(prc[p].todo) \in SUBSET Calls
    <3> SUFFICES ASSUME NEW p \in Procs PROVE Range(prc[p].todo) \in SUBSET Calls
      OBVIOUS
    <3>1. prc[p].todo \in Seq(Calls) BY <1>3 DEF LooseProcess
    <3> QED BY <3>1 DEF Range
  <2> QED BY <2>1, <2>2 DEF Lists, Agents
<1>6. Tops \in [Threads -> Calls \union {None}]
  BY <1>2 DEF Tops, TopOn, LooseThread
<1>7. Gone \in SUBSET Threads /\ Pendings \in SUBSET Calls /\ Answered \in SUBSET Calls
  BY DEF Gone, Pendings, HeldIn, Answered
<1> QED BY <1>1, <1>2, <1>3, <1>4, <1>5, <1>6, <1>7 DEF HoldTypes

\* A call that is answered is in one hand only, and on no list.
LEMMA AnsweredHand ==
    ASSUME Types, Apart(Hands, Lists), NEW c \in Answered
    PROVE  /\ \A d \in Agents : c \notin Lists[d]
           /\ \A b \in Agents : Hands[b] = c => at[b].pc = "replied"
<1>1. PICK a \in Agents : at[a].pc = "replied" /\ at[a].cur = c BY DEF Answered
<1>2. Hands[a] = c /\ c # None BY <1>1, NoneIsNoCall DEF Hands, HandAt, Answered
<1> QED BY <1>1, <1>2 DEF Apart

\* A step of agent a on the calls C, after which r has got something.
LEMMA StepKeeps ==
    ASSUME Sound, Types', Tidied', NEW a \in Agents, NEW C, NEW r \in Agents,
           Core(txn', Tops', Gone', Pendings', Answered'), Apart(Hands', Lists'),
           Calm(txn, Tops, Pendings, Answered, txn', Tops', Gone', a, C),
           Gone \subseteq Gone', Gone' \subseteq Gone \union {a},
           \A c \in C : c = Hands[a] \/ c \notin Pendings,
           \A b \in Agents : b # a => /\ at'[b] = at[b]
                                      /\ b # r => Lists'[b] \subseteq Lists[b],
           FitsAt(a)', FitsAt(r)'
    PROVE  Sound'
<1>1. SUFFICES ASSUME NEW b \in Agents, b # a, b # r PROVE FitsAt(b)'
  BY DEF Sound
<1>2. HoldTypes(Hands, Lists) /\ at[b] \in Place BY StateTypes DEF Sound
<1>3. Core(txn, Tops, Gone, Pendings, Answered) /\ Apart(Hands, Lists) /\ Types
  BY DEF Sound
<1>4. \A c \in Answered : /\ \A d \in Agents : c \notin Lists[d]
                          /\ Hands[b] = c => at[b].pc = "replied"
  BY <1>3, AnsweredHand
<1>5. Hands[b] = HandAt(at[b]) BY DEF Hands
<1>6. Fits(txn, Tops, Gone, Lists[b], b, at[b]) BY DEF Sound, FitsAt
<1>7. at'[b] = at[b] /\ Lists'[b] \in SUBSET Lists[b] BY <1>1
<1>8. Fits(txn', Tops', Gone', Lists'[b], b, at[b])
  BY <1>1, <1>2, <1>3, <1>4, <1>5, <1>6, <1>7, FitsKeep DEF Pendings
<1> QED BY <1>7, <1>8 DEF FitsAt

-----------------------------------------------------------------------------
(* Steps that leave stacks and calls where they are. *)

\* Threads T and U differ in their reference counts, what is freed, and the
\* work that is not a call.
Alike(T, U) ==
    /\ T \in LooseThreads /\ U \in LooseThreads
    /\ \A o \in Threads :
         /\ U[o].dead = T[o].dead /\ (T[o].dead \/ U[o].stack = T[o].stack)
         /\ Names(U[o].todo) = Names(T[o].todo) /\ Tidy(T[o].todo)
         /\ Tidy(U[o].todo)

AlikeProcs(P, Q) ==
    /\ P \in LooseProcesses /\ Q \in LooseProcesses
    /\ \A p \in Procs : Q[p].todo = P[p].todo

LEMMA RecordsTyped ==
    /\ \A t \in LooseThread, i \in Int, f \in BOOLEAN, g \in BOOLEAN, s \in Calls \union {None} :
         [t EXCEPT !.ref = i, !.freed = f, !.stack = s, !.processTodo = g] \in LooseThread
    /\ \A q \in LooseProcess, i \in Int, f \in BOOLEAN :
         [q EXCEPT !.ref = i, !.freed = f] \in LooseProcess
BY DEF LooseThread, LooseProcess

LEMMA AlikeHere == Types /\ Tidied => Alike(thr, thr) /\ AlikeProcs(prc, prc)
BY DEF Types, Tidied, Alike, AlikeProcs

LEMMA AlikeRef ==
    ASSUME NEW T, NEW U, Alike(T, U), NEW x \in Threads
    PROVE  Alike(T, [U EXCEPT ![x].ref = @ + 1])
<1> DEFINE V == [U EXCEPT ![x].ref = @ + 1]
<1>1. /\ T \in LooseThreads /\ U \in LooseThreads
      /\ \A o \in Threads :
           /\ U[o].dead = T[o].dead /\ (T[o].dead \/ U[o].stack = T[o].stack)
           /\ Names(U[o].todo) = Names(T[o].todo) /\ Tidy(T[o].todo)
           /\ Tidy(U[o].todo)
  BY DEF Alike
<1>2. V \in LooseThreads
  <2>1. U[x] \in LooseThread BY <1>1 DEF LooseThreads
  <2>2. [U[x] EXCEPT !.ref = @ + 1] \in LooseThread BY <2>1 DEF LooseThread
  <2> QED BY <1>1, <2>2 DEF LooseThreads
<1>3. \A o \in Threads : /\ V[o].dead = U[o].dead /\ V[o].stack = U[o].stack
                         /\ V[o].todo = U[o].todo
  BY <1>1 DEF LooseThreads, LooseThread
<1> HIDE DEF V
<1> QED BY <1>1, <1>2, <1>3 DEF Alike, V

LEMMA AlikeUnref ==
    ASSUME NEW U, Alike(thr, U), NEW x \in Threads
    PROVE  Alike(thr, Unref(U, x))
<1> DEFINE V == Unref(U, x)
<1>1. /\ thr \in LooseThreads /\ U \in LooseThreads
      /\ \A o \in Threads :
           /\ U[o].dead = thr[o].dead /\ (thr[o].dead \/ U[o].stack = thr[o].stack)
           /\ Names(U[o].todo) = Names(thr[o].todo) /\ Tidy(thr[o].todo)
           /\ Tidy(U[o].todo)
  BY DEF Alike
<1>2. Frees(x) \in BOOLEAN /\ (Frees(x) => thr[x].dead)
  BY <1>1 DEF Frees, LooseThreads, LooseThread
<1>3. V = [U EXCEPT ![x].ref = @ - 1, ![x].freed = Frees(x),
                    ![x].stack = IF Frees(x) THEN None ELSE @,
                    ![x].processTodo = @ /\ ~Frees(x)]
  BY DEF Unref
<1> HIDE DEF V
<1>4. V \in LooseThreads
  <2>1. U[x] \in LooseThread BY <1>1 DEF LooseThreads
  <2>2. [U[x] EXCEPT !.ref = @ - 1, !.freed = Frees(x),
                     !.stack = IF Frees(x) THEN None ELSE @,
                     !.processTodo = @ /\ ~Frees(x)] \in LooseThread
    <3>1. (U[x].processTodo /\ ~Frees(x)) \in BOOLEAN BY Zenon
    <3>2. U[x].ref - 1 \in Int /\ (IF Frees(x) THEN None ELSE U[x].stack) \in Calls \union {None}
      BY <2>1 DEF LooseThread
    <3> QED BY ZenonT(60), <1>2, <2>1, <3>1, <3>2, RecordsTyped
  <2> QED BY <1>1, <1>3, <2>2 DEF LooseThreads
<1>5. \A o \in Threads : /\ V[o].dead = U[o].dead
                         /\ V[o].stack = U[o].stack \/ (o = x /\ Frees(x))
                         /\ V[o].todo = U[o].todo
  BY <1>1, <1>2, <1>3 DEF LooseThreads, LooseThread
<1> QED BY <1>1, <1>2, <1>4, <1>5 DEF Alike, V

LEMMA EnqueueIs ==
    ASSUME NEW U \in LooseThreads, NEW x \in Threads, NEW w \in Work
    PROVE  /\ Enqueue(U, x, w) \in LooseThreads
           /\ \A o \in Threads :
                /\ Enqueue(U, x, w)[o].dead = U[o].dead
                /\ Enqueue(U, x, w)[o].stack = U[o].stack
                /\ Enqueue(U, x, w)[o].ref = U[o].ref
                /\ Enqueue(U, x, w)[o].freed = U[o].freed
                /\ Enqueue(U, x, w)[o].todo =
                     IF o = x THEN Append(U[o].todo, w) ELSE U[o].todo
<1> DEFINE V == Enqueue(U, x, w)
<1>1. V = [U EXCEPT ![x].todo = Append(@, w), ![x].processTodo = TRUE]
  BY DEF Enqueue
<1>2. U[x].todo \in Seq(Work) BY DEF LooseThreads, LooseThread
<1>3. Append(U[x].todo, w) \in Seq(Work) BY <1>2
<1> HIDE DEF V
<1>4. V \in LooseThreads
  <2>1. U[x] \in LooseThread BY DEF LooseThreads
  <2>2. [U[x] EXCEPT !.todo = Append(@, w), !.processTodo = TRUE] \in LooseThread
    BY <1>3, <2>1 DEF LooseThread
  <2> QED BY <1>1, <2>2 DEF LooseThreads
<1>5. \A o \in Threads :
                /\ V[o].dead = U[o].dead
                /\ V[o].stack = U[o].stack
                /\ V[o].ref = U[o].ref
                /\ V[o].freed = U[o].freed
                /\ V[o].todo = IF o = x THEN Append(U[o].todo, w) ELSE U[o].todo
  BY <1>1, <1>3 DEF LooseThreads, LooseThread
<1> QED BY <1>4, <1>5 DEF V

LEMMA AlikeEnqueue ==
    ASSUME NEW T, NEW U, Alike(T, U), NEW x \in Threads,
           NEW w \in Work, w.kind # "call"
    PROVE  Alike(T, Enqueue(U, x, w))
<1> DEFINE V == Enqueue(U, x, w)
<1>1. /\ T \in LooseThreads /\ U \in LooseThreads
      /\ \A o \in Threads :
           /\ U[o].dead = T[o].dead /\ (T[o].dead \/ U[o].stack = T[o].stack)
           /\ Names(U[o].todo) = Names(T[o].todo) /\ Tidy(T[o].todo)
           /\ Tidy(U[o].todo)
  BY DEF Alike
<1>2. /\ V \in LooseThreads
      /\ \A o \in Threads :
           /\ V[o].dead = U[o].dead /\ V[o].stack = U[o].stack
           /\ V[o].todo = IF o = x THEN Append(U[o].todo, w) ELSE U[o].todo
  BY <1>1, EnqueueIs
<1>3. U[x].todo \in Seq(Work) /\ Tidy(U[x].todo)
  BY <1>1 DEF LooseThreads, LooseThread
<1>4. Names(Append(U[x].todo, w)) = Names(U[x].todo) /\ Tidy(Append(U[x].todo, w))
  BY <1>3, NamesAppend
<1> HIDE DEF V
<1>5. \A o \in Threads : Names(V[o].todo) = Names(U[o].todo) /\ Tidy(V[o].todo)
  BY <1>1, <1>2, <1>4
<1> QED BY <1>1, <1>2, <1>5 DEF Alike, V

LEMMA AlikeReport ==
    ASSUME NEW T, NEW U, Alike(T, U), NEW x \in Threads PROVE Alike(T, Report(U, x))
<1>1. Item("return", None) \in Work /\ Item("return", None).kind # "call"
  BY Items
<1> QED BY <1>1, AlikeEnqueue DEF Report

LEMMA AlikeUnrefProc ==
    ASSUME NEW P, NEW Q, AlikeProcs(P, Q), NEW p
    PROVE  AlikeProcs(P, UnrefProc(Q, p))
<1> DEFINE free == /\ Q[p].dead /\ Q[p].ref = 1
                   /\ \A th \in Threads : Owner[th] = p => thr[th].dead
           V == UnrefProc(Q, p)
<1>1. P \in LooseProcesses /\ Q \in LooseProcesses /\ \A q \in Procs : Q[q].todo = P[q].todo
  BY DEF AlikeProcs
<1>2. V = [Q EXCEPT ![p].ref = @ - 1, ![p].freed = free] BY DEF UnrefProc
<1>3. p \in Procs => free \in BOOLEAN
  BY <1>1 DEF LooseProcesses, LooseProcess
<1> HIDE DEF V, free
<1>4. V \in LooseProcesses
  <2>1. CASE p \notin Procs BY <1>1, <1>2, <2>1 DEF LooseProcesses
  <2>2. CASE p \in Procs
    <3>1. Q[p] \in LooseProcess BY <1>1, <2>2 DEF LooseProcesses
    <3>2. [Q[p] EXCEPT !.ref = @ - 1, !.freed = free] \in LooseProcess
      <4>1. Q[p].ref - 1 \in Int BY <3>1 DEF LooseProcess
      <4> QED BY ZenonT(60), <1>3, <2>2, <3>1, <4>1, RecordsTyped
    <3> QED BY <1>1, <1>2, <3>2 DEF LooseProcesses
  <2> QED BY <2>1, <2>2
<1>5. \A q \in Procs : V[q].todo = Q[q].todo
  BY <1>1, <1>2, <1>3 DEF LooseProcesses, LooseProcess
<1> QED BY <1>1, <1>4, <1>5 DEF AlikeProcs, V

LEMMA AlikeAfterUnref ==
    ASSUME NEW P, NEW Q, AlikeProcs(P, Q), NEW x
    PROVE  AlikeProcs(P, AfterUnref(Q, x))
BY AlikeUnrefProc DEF AfterUnref

LEMMA AlikeProcRef ==
    ASSUME NEW P, NEW Q, AlikeProcs(P, Q), NEW p
    PROVE  AlikeProcs(P, [Q EXCEPT ![p].ref = @ + 1])
<1> DEFINE V == [Q EXCEPT ![p].ref = @ + 1]
<1>1. P \in LooseProcesses /\ Q \in LooseProcesses /\ \A q \in Procs : Q[q].todo = P[q].todo
  BY DEF AlikeProcs
<1>2. V \in LooseProcesses
  <2>1. CASE p \notin Procs BY <1>1, <2>1 DEF LooseProcesses
  <2>2. CASE p \in Procs
    <3>1. Q[p] \in LooseProcess BY <1>1, <2>2 DEF LooseProcesses
    <3>2. [Q[p] EXCEPT !.ref = @ + 1] \in LooseProcess BY <3>1 DEF LooseProcess
    <3> QED BY <1>1, <3>2 DEF LooseProcesses
  <2> QED BY <2>1, <2>2
<1>3. \A q \in Procs : V[q].todo = Q[q].todo BY <1>1 DEF LooseProcesses, LooseProcess
<1> HIDE DEF V
<1> QED BY <1>1, <1>2, <1>3 DEF AlikeProcs, V

LEMMA AlikeTops ==
    ASSUME Alike(thr, thr')
    PROVE  Tops' = Tops /\ Gone' = Gone /\ \A th \in Threads : Names(thr'[th].todo) = Names(thr[th].todo)
<1>1. \A o \in Threads :
           /\ thr'[o].dead = thr[o].dead /\ (thr[o].dead \/ thr'[o].stack = thr[o].stack)
           /\ Names(thr'[o].todo) = Names(thr[o].todo)
  BY DEF Alike
<1>2. \A o \in Threads : TopOn(thr'[o]) = TopOn(thr[o]) BY <1>1 DEF TopOn
<1> QED BY <1>1, <1>2 DEF Tops, Gone

LEMMA AlikeLists ==
    ASSUME Alike(thr, thr'), AlikeProcs(prc, prc'), Tidied
    PROVE  Lists' = Lists /\ Tidied'
<1>1. \A th \in Threads : Names(thr'[th].todo) = Names(thr[th].todo) /\ Tidy(thr'[th].todo)
  BY DEF Alike
<1>2. \A p \in Procs : prc'[p].todo = prc[p].todo BY DEF AlikeProcs
<1> QED BY <1>1, <1>2 DEF Lists, Tidied, Agents

LEMMA QuietFits ==
    ASSUME NEW X, NEW S, NEW D, NEW L, NEW b, NEW pl, NEW ql, Fits(X, S, D, L, b, pl),
           Shaped(D, b, ql),
           b \in Threads => /\ \A c \in Coming(ql, L) : c \in Coming(pl, L)
                            /\ Coming(ql, L) # {} => (Free(pl) => Free(ql))
                            /\ Writes(X, S, D, b, ql),
           Answering(X, D, ql)
    PROVE  Fits(X, S, D, L, b, ql)
<1>1. ASSUME b \in Threads, b \notin D PROVE GivenTo(X, S, b, Free(ql), Coming(ql, L))
  <2>1. GivenTo(X, S, b, Free(pl), Coming(pl, L)) BY <1>1 DEF Fits
  <2> QED BY <1>1, <2>1 DEF GivenTo
<1> QED BY <1>1 DEF Fits

\* Only agent a moves.
Moves(a) == at' \in Places /\ \A b \in Agents : b # a => at'[b] = at[b]

LEMMA MovesTo ==
    ASSUME Types, NEW a \in Agents, NEW pl \in Place, at' = [at EXCEPT ![a] = pl]
    PROVE  Moves(a) /\ at'[a] = pl
<1>1. at \in Places BY DEF Types
<1> QED BY <1>1 DEF Places, Moves

LEMMA StaysPut ==
    ASSUME Types, at' = at, NEW a PROVE Moves(a)
BY DEF Types, Moves

\* a moves on, and that is all.
LEMMA QuietStep ==
    ASSUME Sound, NEW a \in Agents, txn' = txn, Alike(thr, thr'), AlikeProcs(prc, prc'),
           Moves(a), HandAt(at'[a]) = HandAt(at[a]),
           at'[a].pc = "replied" <=> at[a].pc = "replied",
           Fits(txn, Tops, Gone, Lists[a], a, at'[a])
    PROVE  Sound'
<1>1. Types /\ Tidied /\ Core(txn, Tops, Gone, Pendings, Answered) /\ Apart(Hands, Lists)
  BY DEF Sound
<1>2. Tops' = Tops /\ Gone' = Gone BY AlikeTops
<1>3. Lists' = Lists /\ Tidied' BY <1>1, AlikeLists
<1>4. Types' BY <1>1 DEF Types, Moves, Alike, AlikeProcs
<1>5. Hands' = Hands
  <2>1. \A b \in Agents : HandAt(at'[b]) = HandAt(at[b]) BY DEF Moves
  <2> QED BY <2>1 DEF Hands
<1>6. Pendings' = Pendings BY <1>3, <1>5 DEF Pendings
<1>7. Answered' = Answered
  <2> SUFFICES ASSUME NEW c \in Calls, NEW b \in Agents
               PROVE  (at'[b].pc = "replied" /\ at'[b].cur = c)
                        <=> (at[b].pc = "replied" /\ at[b].cur = c)
    BY DEF Answered
  <2>1. CASE b # a BY <2>1 DEF Moves
  <2>2. CASE b = a BY <2>2 DEF HandAt
  <2> QED BY <2>1, <2>2
<1>8. Calm(txn, Tops, Pendings, Answered, txn, Tops, Gone, a, {})
  <2>1. \A w \in Threads : /\ Tops[w] # None /\ txn[Tops[w]].toThread = w =>
                                Tops[w] = Tops[w]
    OBVIOUS
  <2> QED BY DEF Calm
<1>9. FitsAt(a)' BY <1>2, <1>3 DEF FitsAt
<1>10. \A b \in Agents : b # a => at'[b] = at[b] /\ Lists'[b] \subseteq Lists[b]
  BY <1>3 DEF Moves
<1>11. Core(txn', Tops', Gone', Pendings', Answered') /\ Apart(Hands', Lists')
  BY <1>1, <1>2, <1>3, <1>5, <1>6, <1>7
<1>12. Calm(txn, Tops, Pendings, Answered, txn', Tops', Gone', a, {})
  BY <1>2, <1>8
<1> QED BY <1>2, <1>3, <1>4, <1>9, <1>10, <1>11, <1>12, StepKeeps

\* What is known where a is.
LEMMA Known ==
    ASSUME Sound, NEW a \in Agents
    PROVE  /\ Types /\ Tidied /\ at[a] \in Place
           /\ Fits(txn, Tops, Gone, Lists[a], a, at[a])
           /\ Shaped(Gone, a, at[a]) /\ Answering(txn, Gone, at[a])
           /\ a \in Threads => Writes(txn, Tops, Gone, a, at[a])
           /\ a \in Threads /\ a \notin Gone =>
                GivenTo(txn, Tops, a, Free(at[a]), Coming(at[a], Lists[a]))
           /\ a \in Procs => ToAny(txn, a, Lists[a])
BY StateTypes DEF Sound, FitsAt, Fits

LEMMA OneOfAgents == Threads \subseteq Agents /\ Procs \subseteq Agents
BY DEF Agents

LEMMA TopThere ==
    ASSUME Types, NEW th \in Threads, th \notin Gone
    PROVE  Tops[th] = thr[th].stack /\ ~thr[th].dead /\ Lists[th] = Names(thr[th].todo)
BY OneOfAgents DEF Tops, TopOn, Gone, Lists

LEMMA IdleIs ==
    ASSUME NEW pc
    PROVE  /\ Idle(pc).pc = pc /\ Idle(pc).cur = None /\ Idle(pc).tgt = None
           /\ Idle(pc).proc = None
BY DEF Idle

\* Where it has neither a call nor a caller, an agent fits when it may be
\* there at all.
LEMMA PlainFits ==
    ASSUME NEW X, NEW S, NEW D, NEW L, NEW b, NEW pl, NEW ql, Fits(X, S, D, L, b, pl),
           Shaped(D, b, ql),
           ql.pc \in {"user", "wait", "done", "err", "popped", "replied", "unsent", "fail",
                      "work", "gone", "off", "threads", "todo"},
           Free(pl) => Free(ql) \/ L = {}
    PROVE  Fits(X, S, D, L, b, ql)
<1>1. Coming(ql, L) = L /\ L \subseteq Coming(pl, L) BY DEF Coming
<1>2. Writes(X, S, D, b, ql) /\ Answering(X, D, ql) BY DEF Writes, Answering
<1> QED BY <1>1, <1>2, QuietFits

\* What a thread that may write has.
LEMMA WriterKnows ==
    ASSUME Blocking, Sound, NEW th \in Threads, CanWrite(th)
    PROVE  /\ at[th].pc = "user" /\ at[th].cur = None /\ at[th].tgt = None
           /\ at[th].proc = None /\ th \notin Gone
           /\ Lists[th] = {} /\ thr[th].todo = <<>>
           /\ thr[th].stack = Tops[th]
           /\ Tops[th] = None \/ txn[Tops[th]].toThread = th
           /\ Serving(th) <=> Tops[th] # None
<1>1. Shaped(Gone, th, at[th]) /\ Types BY Known, OneOfAgents
<1>2. at[th].pc = "user" BY DEF CanWrite
<1>3. at[th].cur = None /\ at[th].tgt = None /\ at[th].proc = None /\ th \notin Gone
  BY <1>1, <1>2 DEF Shaped, WithCall, Calling, Sending
<1>4. Tops[th] = thr[th].stack /\ Lists[th] = Names(thr[th].todo) BY <1>1, <1>3, TopThere
<1>5. thr[th].todo = <<>> /\ (thr[th].stack = None \/ Serving(th)) BY DEF CanWrite
<1> QED BY <1>2, <1>3, <1>4, <1>5, NamesNone DEF Serving

LEMMA BeginCallKeeps ==
    ASSUME Blocking, Sound, NEW th \in Threads, NEW p \in Procs, BeginCall(th, p)
    PROVE  Sound'
<1>1. /\ Types /\ Tidied /\ at[th] \in Place /\ Fits(txn, Tops, Gone, Lists[th], th, at[th])
      /\ Shaped(Gone, th, at[th]) /\ th \in Agents
  BY Known, OneOfAgents
<1>2. /\ at[th].pc = "user" /\ at[th].cur = None /\ th \notin Gone /\ Lists[th] = {}
      /\ Tops[th] = None \/ txn[Tops[th]].toThread = th
  BY WriterKnows DEF BeginCall
<1>3. Alike(thr, thr) /\ AlikeProcs(prc, prc) BY <1>1, AlikeHere
<1>4. CASE prc[p].node
  <2> DEFINE pl == [Idle("refs") EXCEPT !.proc = p]
  <2>1. pl \in Place /\ pl.pc = "refs" /\ pl.cur = None /\ pl.tgt = None /\ pl.proc = p
    BY DEF Idle, Place
  <2>2. /\ prc' = [prc EXCEPT ![p].ref = @ + 1] /\ at' = [at EXCEPT ![th] = pl]
        /\ thr' = thr /\ txn' = txn /\ Owner[th] # p
    BY <1>4 DEF BeginCall
  <2> HIDE DEF pl
  <2>3. Moves(th) /\ at'[th] = pl BY <1>1, <2>1, <2>2, MovesTo
  <2>4. AlikeProcs(prc, prc') BY <1>3, <2>2, AlikeProcRef
  <2>5. Shaped(Gone, th, pl)
    BY <1>2, <2>1, <2>2, NoneIsNobody DEF Shaped, WithCall, Calling, Sending
  <2>6. Writes(txn, Tops, Gone, th, pl) /\ Answering(txn, Gone, pl)
    BY <1>2, <2>1 DEF Writes, Answering
  <2>7. Coming(pl, Lists[th]) = {} BY <1>2, <2>1 DEF Coming
  <2>8. Fits(txn, Tops, Gone, Lists[th], th, pl) BY <1>1, <2>5, <2>6, <2>7, QuietFits
  <2>9. HandAt(pl) = HandAt(at[th]) BY <1>2, <2>1 DEF HandAt
  <2> QED BY <1>1, <1>2, <1>3, <2>1, <2>2, <2>3, <2>4, <2>8, <2>9, QuietStep
<1>5. CASE ~prc[p].node
  <2>1. thr' = Report(thr, th) /\ prc' = prc /\ at' = at /\ txn' = txn
    BY <1>5 DEF BeginCall
  <2>2. Alike(thr, thr') BY <1>3, <2>1, AlikeReport
  <2>3. Moves(th) BY <1>1, <2>1, StaysPut
  <2>4. at'[th] = at[th] /\ AlikeProcs(prc, prc') BY <1>3, <2>1
  <2> QED BY <1>1, <2>1, <2>2, <2>3, <2>4, QuietStep
<1> QED BY <1>4, <1>5

LEMMA FindTargetKeeps ==
    ASSUME Sound, NEW th \in Threads, FindTarget(th) PROVE Sound'
<1> DEFINE caller == WaitingCaller(th, at[th].proc)
<1>1. /\ Types /\ Tidied /\ at[th] \in Place /\ Fits(txn, Tops, Gone, Lists[th], th, at[th])
      /\ Shaped(Gone, th, at[th]) /\ Writes(txn, Tops, Gone, th, at[th]) /\ th \in Agents
  BY Known, OneOfAgents
<1>2. at[th].pc = "refs" /\ prc' = prc /\ txn' = txn BY DEF FindTarget
<1>3. /\ at[th].cur = None /\ at[th].tgt = None /\ th \notin Gone
      /\ at[th].proc \in Procs /\ at[th].proc # Owner[th]
      /\ Tops[th] = None \/ txn[Tops[th]].toThread = th
  BY <1>1, <1>2 DEF Shaped, WithCall, Calling, Sending, Writes, Place
<1>4. Tops[th] = thr[th].stack BY <1>1, <1>3, TopThere
<1>5. Alike(thr, thr) /\ AlikeProcs(prc, prc') BY <1>1, <1>2, AlikeHere
<1>6. thr[th].stack = None \/ Serving(th) BY <1>3, <1>4 DEF Serving
<1>7. CASE caller = None
  <2> DEFINE pl == [at[th] EXCEPT !.pc = "target"]
  <2>1. /\ pl \in Place /\ pl.pc = "target" /\ pl.cur = None /\ pl.tgt = None
        /\ pl.proc = at[th].proc
    BY <1>1, <1>3 DEF Place
  <2>2. at' = [at EXCEPT ![th] = pl] /\ thr' = thr
    BY <1>6, <1>7 DEF FindTarget
  <2> HIDE DEF pl
  <2>3. Moves(th) /\ at'[th] = pl BY <1>1, <2>1, <2>2, MovesTo
  <2>4. Shaped(Gone, th, pl)
    BY <1>1, <1>2, <1>3, <2>1 DEF Shaped, WithCall, Calling, Sending
  <2>5. Writes(txn, Tops, Gone, th, pl) /\ Answering(txn, Gone, pl)
    BY <1>3, <2>1 DEF Writes, Answering
  <2>6. Coming(pl, Lists[th]) = Lists[th] /\ ~Free(at[th]) BY <1>2, <2>1 DEF Coming, Free
  <2>7. Fits(txn, Tops, Gone, Lists[th], th, pl)
    <3>1. \A c \in Lists[th] : c \in Coming(at[th], Lists[th]) BY DEF Coming
    <3> QED BY <1>1, <2>4, <2>5, <2>6, <3>1, QuietFits
  <2>8. HandAt(pl) = HandAt(at[th]) BY <1>2, <1>3, <2>1 DEF HandAt
  <2> QED BY <1>1, <1>2, <1>5, <2>1, <2>2, <2>3, <2>7, <2>8, QuietStep
<1>8. CASE caller # None
  <2>0. Core(txn, Tops, Gone, Pendings, Answered) BY DEF Sound
  <2>1. /\ caller \in Threads /\ Owner[caller] = at[th].proc /\ caller \notin Gone
        /\ Tops[th] # None /\ WaitsFor(txn, Tops, caller, Tops[th])
    BY <1>3, <1>4, <1>8, <2>0, CallerWaits
  <2> DEFINE pl == [at[th] EXCEPT !.pc = "target", !.tgt = caller]
  <2> HIDE DEF caller
  <2>2. /\ pl \in Place /\ pl.pc = "target" /\ pl.cur = None /\ pl.tgt = caller
        /\ pl.proc = at[th].proc
    BY <1>1, <1>3, <2>1 DEF Place
  <2>3. at' = [at EXCEPT ![th] = pl] /\ thr' = [thr EXCEPT ![caller].ref = @ + 1]
    BY <1>6, <1>8 DEF FindTarget, caller
  <2> HIDE DEF pl
  <2>4. Moves(th) /\ at'[th] = pl BY <1>1, <2>2, <2>3, MovesTo
  <2>5. Shaped(Gone, th, pl)
    BY <1>1, <1>2, <1>3, <2>1, <2>2 DEF Shaped, WithCall, Calling, Sending
  <2>6. Writes(txn, Tops, Gone, th, pl) /\ Answering(txn, Gone, pl)
    BY <1>3, <2>1, <2>2 DEF Writes, Answering
  <2>7. Coming(pl, Lists[th]) = Lists[th] /\ ~Free(at[th]) BY <1>2, <2>2 DEF Coming, Free
  <2>8. Fits(txn, Tops, Gone, Lists[th], th, pl)
    <3>1. \A c \in Lists[th] : c \in Coming(at[th], Lists[th]) BY DEF Coming
    <3> QED BY <1>1, <2>5, <2>6, <2>7, <3>1, QuietFits
  <2>9. HandAt(pl) = HandAt(at[th]) BY <1>2, <1>3, <2>2 DEF HandAt
  <2>10. Alike(thr, thr') BY <1>5, <2>1, <2>3, AlikeRef
  <2> QED BY <1>1, <1>2, <1>5, <2>2, <2>4, <2>8, <2>9, <2>10, QuietStep
<1> QED BY <1>7, <1>8

LEMMA CallFailsKeeps ==
    ASSUME Sound, NEW th \in Threads, CallFails(th) PROVE Sound'
<1>1. /\ Types /\ Tidied /\ at[th] \in Place /\ Fits(txn, Tops, Gone, Lists[th], th, at[th])
      /\ Shaped(Gone, th, at[th]) /\ th \in Agents
  BY Known, OneOfAgents
<1>2. at[th].pc = "target" /\ prc' = prc /\ txn' = txn /\ thr' = thr BY DEF CallFails
<1> DEFINE pl == [at[th] EXCEPT !.pc = "err"]
<1>3. /\ pl \in Place /\ pl.pc = "err" /\ pl.cur = at[th].cur /\ pl.tgt = at[th].tgt
      /\ pl.proc = at[th].proc
  BY <1>1 DEF Place
<1>4. at' = [at EXCEPT ![th] = pl] BY DEF CallFails
<1> HIDE DEF pl
<1>5. Moves(th) /\ at'[th] = pl BY <1>1, <1>3, <1>4, MovesTo
<1>6. Shaped(Gone, th, pl)
  BY <1>1, <1>2, <1>3 DEF Shaped, WithCall, Calling, Sending
<1>7. ~Free(at[th]) BY <1>2 DEF Free
<1>8. Fits(txn, Tops, Gone, Lists[th], th, pl) BY <1>1, <1>3, <1>6, <1>7, PlainFits
<1>9. HandAt(pl) = HandAt(at[th]) BY <1>2, <1>3 DEF HandAt
<1>10. Alike(thr, thr') /\ AlikeProcs(prc, prc') BY <1>1, <1>2, AlikeHere
<1> QED BY <1>1, <1>2, <1>3, <1>5, <1>8, <1>9, <1>10, QuietStep

-----------------------------------------------------------------------------
(* Steps that hand calls on. *)

\* Nobody else becomes or stops being one who has answered a call.
LEMMA AnsweredSame ==
    ASSUME NEW a \in Agents, Moves(a), at[a].pc # "replied", at'[a].pc # "replied"
    PROVE  Answered' = Answered
<1>1. \A b \in Agents, c \in Calls :
        (at'[b].pc = "replied" /\ at'[b].cur = c) <=> (at[b].pc = "replied" /\ at[b].cur = c)
  BY DEF Moves
<1> QED BY <1>1 DEF Answered

LEMMA HandsMove ==
    ASSUME NEW a \in Agents, Moves(a)
    PROVE  /\ Hands'[a] = HandAt(at'[a]) /\ \A b \in Agents : b # a => Hands'[b] = Hands[b]
BY DEF Moves, Hands

LEMMA CalmHere ==
    ASSUME NEW X, NEW S, NEW P, NEW R, NEW E, NEW a PROVE Calm(X, S, P, R, X, S, E, a, {})
BY DEF Calm

LEMMA HoldsTyped == Types => HoldTypes(Hands, Lists)
BY StateTypes

LEMMA HoldsTypedNext == Types' => HoldTypes(Hands, Lists)'
BY HoldsTyped, PTL

\* a puts the call in its hand on the list of r.
LEMMA PutStep ==
    ASSUME Sound, Types', Tidied', NEW a \in Agents, Moves(a), NEW r \in Agents, r # a,
           NEW c \in Calls, Hands[a] = c, HandAt(at'[a]) = None,
           at[a].pc # "replied", at'[a].pc # "replied",
           txn' = txn, Tops' = Tops, Gone' = Gone,
           Lists'[r] = Lists[r] \union {c},
           \A b \in Agents : b # r => Lists'[b] = Lists[b],
           Fits(txn, Tops, Gone, Lists[a], a, at'[a]),
           Fits(txn, Tops, Gone, Lists[r] \union {c}, r, at[r])
    PROVE  Sound'
<1>1. /\ Types /\ Core(txn, Tops, Gone, Pendings, Answered) /\ Apart(Hands, Lists)
      /\ HoldTypes(Hands, Lists)
  BY StateTypes DEF Sound
<1>2. HoldTypes(Hands', Lists') BY HoldsTypedNext
<1>3. c # None /\ Hands'[a] = None /\ \A b \in Agents : b # a => Hands'[b] = Hands[b]
  BY NoneIsNoCall, HandsMove
<1>4. Apart(Hands', Lists') /\ Pendings' = Pendings
  BY <1>1, <1>2, <1>3, HandPuts DEF Pendings
<1>5. Answered' = Answered BY AnsweredSame
<1>6. Core(txn', Tops', Gone', Pendings', Answered') BY <1>1, <1>4, <1>5
<1>7. Calm(txn, Tops, Pendings, Answered, txn', Tops', Gone', a, {}) BY CalmHere
<1>8. at'[r] = at[r] BY DEF Moves
<1>9. FitsAt(a)' /\ FitsAt(r)' BY <1>8 DEF FitsAt
<1>10. \A b \in Agents : b # a => /\ at'[b] = at[b]
                                  /\ b # r => Lists'[b] \subseteq Lists[b]
  BY DEF Moves
<1> QED BY <1>4, <1>6, <1>7, <1>9, <1>10, StepKeeps

\* a takes a call off the list of r.
LEMMA TakeStep ==
    ASSUME Sound, Types', Tidied', NEW a \in Agents, Moves(a), NEW r \in Agents,
           NEW c \in Lists[r], Hands[a] = None, HandAt(at'[a]) = c,
           at[a].pc # "replied", at'[a].pc # "replied",
           txn' = txn, Tops' = Tops, Gone' = Gone,
           Lists'[r] = Lists[r] \ {c},
           \A b \in Agents : b # r => Lists'[b] = Lists[b],
           Fits(txn, Tops, Gone, Lists'[a], a, at'[a])
    PROVE  Sound'
<1>1. /\ Types /\ Core(txn, Tops, Gone, Pendings, Answered) /\ Apart(Hands, Lists)
      /\ HoldTypes(Hands, Lists)
  BY StateTypes DEF Sound
<1>2. HoldTypes(Hands', Lists') BY HoldsTypedNext
<1>3. Hands'[a] = c /\ \A b \in Agents : b # a => Hands'[b] = Hands[b]
  BY HandsMove
<1>4. Apart(Hands', Lists') /\ Pendings' = Pendings
  BY <1>1, <1>2, <1>3, HandTakes DEF Pendings
<1>5. Answered' = Answered BY AnsweredSame
<1>6. Core(txn', Tops', Gone', Pendings', Answered') BY <1>1, <1>4, <1>5
<1>7. Calm(txn, Tops, Pendings, Answered, txn', Tops', Gone', a, {}) BY CalmHere
<1>8. FitsAt(a)' BY DEF FitsAt
<1>9. \A b \in Agents : b # a => at'[b] = at[b] /\ Lists'[b] \subseteq Lists[b]
  BY DEF Moves
<1> QED BY <1>4, <1>6, <1>7, <1>8, <1>9, StepKeeps

\* Places where an agent needs to know of no call.
Plain == {"user", "wait", "done", "err", "popped", "replied", "unsent", "fail", "work",
          "gone", "off", "threads", "todo"}

LEMMA PlainKeep ==
    ASSUME NEW X, NEW S, NEW D, NEW P, NEW R, Core(X, S, D, P, R),
           NEW Y, NEW T, NEW E, NEW a \in Agents, NEW C, Calm(X, S, P, R, Y, T, E, a, C),
           D \subseteq E,
           NEW H, NEW L, HoldTypes(H, L), Apart(H, L), P = HeldIn(H, L),
           \A c \in C : c = H[a] \/ c \notin P,
           \A c \in R : \A d \in Agents : c \notin L[d],
           NEW V, V = L[a], NEW pl, Fits(X, S, D, V, a, pl), NEW M \in SUBSET V,
           NEW ql, Shaped(E, a, ql), ql.pc \in Plain,
           M # {} => (Free(pl) => Free(ql)),
           a \in Threads /\ a \notin E => T[a] = S[a] \/ (S[a] \in P /\ X[S[a]].from = a)
    PROVE  Fits(Y, T, E, M, a, ql)
<1>1. Coming(ql, M) = M BY DEF Coming, Plain
<1>2. Writes(Y, T, E, a, ql) /\ Answering(Y, E, ql) BY DEF Writes, Answering, Plain
<1>3. \A c \in V : c \in Calls /\ c \in P /\ c \notin C /\ c \notin R
  <2> SUFFICES ASSUME NEW c \in V PROVE c \in Calls /\ c \in P /\ c \notin C /\ c \notin R
    OBVIOUS
  <2>1. c \in Calls /\ c \in P BY DEF HeldIn, HoldTypes
  <2>2. H[a] # c BY <2>1, NoneIsNoCall DEF Apart
  <2> QED BY <2>1, <2>2
<1>4. ASSUME a \in Threads, a \notin E PROVE GivenTo(Y, T, a, Free(ql), Coming(ql, M))
  <2> DEFINE free == Free(pl)
             still == Free(ql)
             W == Coming(pl, V)
  <2>1. GivenTo(X, S, a, free, V)
    <3>1. GivenTo(X, S, a, free, W) BY <1>4 DEF Fits
    <3>2. V \subseteq W BY DEF Coming
    <3> HIDE DEF free, W
    <3> QED BY <3>1, <3>2 DEF GivenTo
  <2>2. \A c \in V : c \in P /\ c \notin R BY <1>3
  <2>3. \A c \in M : c \in V /\ c \notin C BY <1>3
  <2>4. M # {} => (free => still) OBVIOUS
  <2> HIDE DEF free, still, W
  <2>5. GivenTo(Y, T, a, still, M) BY <1>4, <2>1, <2>2, <2>3, <2>4, GivenKeep
  <2> QED BY <1>1, <2>5 DEF still
<1>5. ASSUME a \in Procs PROVE ToAny(Y, a, M)
  <2>1. ToAny(X, a, V) BY <1>5 DEF Fits
  <2>2. \A c \in V : c \in P BY <1>3
  <2>3. \A c \in M : c \in V /\ c \notin C BY <1>3
  <2> QED BY <2>1, <2>2, <2>3, ToAnyKeep
<1> QED BY <1>2, <1>4, <1>5 DEF Fits

\* The call a has in hand is freed; a goes on with the heir, if there is one.
LEMMA RemoveStep ==
    ASSUME Sound, Types', Tidied', NEW a \in Agents, Moves(a),
           NEW c \in Calls, Hands[a] = c,
           Rewritten(txn, c, Freed, txn'),
           Retopped(Tops, txn[c].from, txn[c].fromParent, Tops'),
           Gone' = Gone, Lists' = Lists, ~Free(at[a]),
           at'[a].pc \in Plain \ {"replied"}, Shaped(Gone, a, at'[a]),
           Heir(txn, Answered, c) = {HandAt(at'[a])} \cap Calls
    PROVE  Sound'
<1> DEFINE N == Heir(txn, Answered, c)
           v == HandAt(at'[a])
<1>1. /\ Types /\ Core(txn, Tops, Gone, Pendings, Answered) /\ Apart(Hands, Lists)
      /\ HoldTypes(Hands, Lists) /\ txn \in Transactions
  BY StateTypes DEF Sound, Types
<1>2. HoldTypes(Hands', Lists') BY HoldsTypedNext
<1>3. Hands'[a] = v /\ \A b \in Agents : b # a => Hands'[b] = Hands[b]
  BY HandsMove
<1>4. c \in Pendings /\ c # None BY NoneIsNoCall DEF Pendings, HeldIn
<1>5. \A n \in N : n \in Calls /\ n \notin Pendings /\ n # c
  <2> SUFFICES ASSUME NEW n \in N PROVE n \in Calls /\ n \notin Pendings /\ n # c
    OBVIOUS
  <2>1. n = txn[c].fromParent /\ n # None /\ c \notin Answered BY DEF Heir
  <2>2. n \in Calls BY <1>1, <2>1, FieldTypes
  <2>3. c \in LiveIn(txn) BY <1>1, <1>4 DEF Core, Marked
  <2>4. Kid(txn, Answered, c, n) BY <2>1, <2>3 DEF Kid
  <2> QED BY <1>1, <1>4, <2>2, <2>4 DEF Core, Kids
<1>6. v \in Calls \union {None} BY <1>2, <1>3 DEF HoldTypes
<1>7. v = Hands[a] \/ v \notin HeldIn(Hands, Lists)
  <2>1. CASE v = None BY <2>1, NoneIsNoCall DEF HeldIn
  <2>2. CASE v # None
    <3>1. v \in N BY <1>6, <2>2
    <3> QED BY <1>5, <3>1 DEF Pendings
  <2> QED BY <2>1, <2>2
<1> HIDE DEF v, N
<1>8. \A b \in Agents : (b # a => Hands'[b] = Hands[b]) /\ Lists'[b] = Lists[b]
  BY <1>3
<1>9. /\ Apart(Hands', Lists')
      /\ HeldIn(Hands', Lists') = (HeldIn(Hands, Lists) \ {Hands[a]}) \union ({v} \cap Calls)
  BY <1>1, <1>2, <1>3, <1>6, <1>7, <1>8, HandTurns
<1>10. Pendings' = (Pendings \ {c}) \union N BY <1>9 DEF Pendings, v, N
<1>11. Answered' = Answered \ {c}
  <2>1. ASSUME NEW b \in Agents, NEW d \in Calls
        PROVE  (at'[b].pc = "replied" /\ at'[b].cur = d)
                 <=> (at[b].pc = "replied" /\ at[b].cur = d) /\ d # c
    <3>1. CASE b = a BY <3>1 DEF Hands, HandAt
    <3>2. CASE b # a
      <4>1. at'[b] = at[b] BY <3>2 DEF Moves
      <4>2. Hands[b] # c BY <1>1, <1>4, <3>2 DEF Apart
      <4> QED BY <4>1, <4>2 DEF Hands, HandAt
    <3> QED BY <3>1, <3>2
  <2> QED BY <2>1 DEF Answered
<1>12. /\ Core(txn', Tops', Gone, Pendings', Answered')
       /\ Calm(txn, Tops, Pendings, Answered, txn', Tops', Gone, a, {c} \union N)
  <2>1. N = Heir(txn, Answered, c) BY DEF N
  <2> QED BY <1>1, <1>4, <1>10, <1>11, <2>1, Removed
<1>13. \A d \in {c} \union N : d = Hands[a] \/ d \notin Pendings BY <1>5
<1>14. \A b \in Agents : b # a => at'[b] = at[b] /\ Lists'[b] \subseteq Lists[b]
  BY <1>8 DEF Moves
<1>15. Core(txn', Tops', Gone', Pendings', Answered') BY <1>12
<1>16. Calm(txn, Tops, Pendings, Answered, txn', Tops', Gone', a, {c} \union N) BY <1>12
<1>17. Gone \subseteq Gone' /\ Gone' \subseteq Gone \union {a} OBVIOUS
<1>18. ASSUME a \in Threads, a \notin Gone
       PROVE  Tops'[a] = Tops[a] \/ (Tops[a] \in Pendings /\ txn[Tops[a]].from = a)
  <2>1. CASE txn[c].from = a
    <3>1. txn[c].from # None BY <1>18, <2>1, NoneIsNobody
    <3>2. Tops[a] = c BY <1>1, <1>4, <2>1, <3>1, TopOf
    <3> QED BY <1>4, <2>1, <3>2
  <2>2. CASE txn[c].from # a BY <1>18, <2>2 DEF Retopped
  <2> QED BY <2>1, <2>2
<1>19. Fits(txn, Tops, Gone, Lists[a], a, at[a]) BY Known
<1>20. \A d \in Answered : \A b \in Agents : d \notin Lists[b] BY <1>1, AnsweredHand
<1>21. Fits(txn', Tops', Gone, Lists[a], a, at'[a])
  <2> DEFINE K == {c} \union N
             V == Lists[a]
             ql == at'[a]
  <2>1. Calm(txn, Tops, Pendings, Answered, txn', Tops', Gone, a, K) BY <1>12
  <2>2. \A d \in K : d = Hands[a] \/ d \notin Pendings BY <1>13
  <2>3. Pendings = HeldIn(Hands, Lists) BY DEF Pendings
  <2>4. ql.pc \in Plain /\ Shaped(Gone, a, ql) OBVIOUS
  <2>5. V \in SUBSET V /\ V = Lists[a] /\ Gone \subseteq Gone OBVIOUS
  <2>6. Fits(txn, Tops, Gone, V, a, at[a]) BY <1>19
  <2> HIDE DEF K, V, ql
  <2>7. Fits(txn', Tops', Gone, V, a, ql)
    BY <1>1, <1>18, <1>20, <2>1, <2>2, <2>3, <2>4, <2>5, <2>6, PlainKeep
  <2> QED BY <2>7 DEF V, ql
<1>22. FitsAt(a)' BY <1>21 DEF FitsAt
<1> QED BY <1>9, <1>13, <1>14, <1>15, <1>16, <1>17, <1>22, StepKeeps

LEMMA EnqueueCall ==
    ASSUME Types, Tidied, NEW r \in Threads, NEW c \in Calls, c \notin Lists[r],
           thr' = Enqueue(thr, r, Item("call", c)), prc' = prc
    PROVE  /\ thr' \in LooseThreads /\ Tidied' /\ Tops' = Tops /\ Gone' = Gone
           /\ Lists'[r] = Lists[r] \union {c}
           /\ \A b \in Agents : b # r => Lists'[b] = Lists[b]
<1>1. Item("call", c) \in Work BY Items
<1>2. /\ thr' \in LooseThreads
      /\ \A o \in Threads :
           /\ thr'[o].dead = thr[o].dead /\ thr'[o].stack = thr[o].stack
           /\ thr'[o].todo = IF o = r THEN Append(thr[o].todo, Item("call", c))
                                      ELSE thr[o].todo
  BY <1>1, EnqueueIs DEF Types
<1>3. thr[r].todo \in Seq(Work) /\ Tidy(thr[r].todo)
  BY DEF Types, LooseThreads, LooseThread, Tidied
<1>4. c \notin Names(thr[r].todo) BY OneOfAgents DEF Lists
<1>5. /\ Names(Append(thr[r].todo, Item("call", c))) = Names(thr[r].todo) \union {c}
      /\ Tidy(Append(thr[r].todo, Item("call", c)))
  BY <1>1, <1>3, <1>4, NamesAppend
<1>6. \A o \in Threads : TopOn(thr'[o]) = TopOn(thr[o]) BY <1>2 DEF TopOn
<1>7. Tops' = Tops /\ Gone' = Gone BY <1>2, <1>6 DEF Tops, Gone
<1>8. \A b \in Agents : b # r => Lists'[b] = Lists[b] BY <1>2 DEF Lists
<1>9. Lists'[r] = Lists[r] \union {c} BY <1>2, <1>5, OneOfAgents DEF Lists
<1>10. Tidied' BY <1>2, <1>5 DEF Tidied
<1> QED BY <1>2, <1>7, <1>8, <1>9, <1>10

LEMMA GivesFits ==
    ASSUME NEW X, NEW S, NEW D, NEW L, NEW b \in Threads, NEW pl, Fits(X, S, D, L, b, pl),
           NEW M, b \notin D => GivenTo(X, S, b, Free(pl), Coming(pl, M))
    PROVE  Fits(X, S, D, M, b, pl)
BY NoneIsNobody DEF Fits

LEMMA QueueCallKeeps ==
    ASSUME Sound, NEW th \in Threads, QueueCall(th) PROVE Sound'
<1> DEFINE c == at[th].cur
           p == at[th].proc
           to == at[th].tgt
           pl == at'[th]
<1>1. /\ Types /\ Tidied /\ at[th] \in Place /\ Fits(txn, Tops, Gone, Lists[th], th, at[th])
      /\ Shaped(Gone, th, at[th]) /\ Writes(txn, Tops, Gone, th, at[th]) /\ th \in Agents
  BY Known, OneOfAgents
<1>2. at[th].pc = "queue" /\ txn' = txn BY DEF QueueCall
<1>3. /\ c \in Calls /\ p \in Procs /\ p # Owner[th] /\ to \in Threads \union {None}
      /\ th \notin Gone /\ (to # None => Owner[to] = p)
  BY <1>1, <1>2, NoneIsNobody DEF Shaped, WithCall, Calling, Sending, Writes, Place
<1>4. /\ txn[c].from = th /\ txn[c].toThread = to
      /\ to # None => to \in Gone \/ WaitsFor(txn, Tops, to, c)
  BY <1>1, <1>2 DEF Writes
<1>5. Hands[th] = c /\ c \in Pendings
  BY <1>1, <1>2, <1>3 DEF Hands, HandAt, Pendings, HeldIn
<1>6. Core(txn, Tops, Gone, Pendings, Answered) /\ Apart(Hands, Lists) BY DEF Sound
<1>7. c \notin Answered BY <1>1, <1>2, <1>5, <1>6, AnsweredHand
<1>8. \A b \in Agents : c \notin Lists[b] /\ (b # th => Hands[b] # c)
  BY <1>1, <1>3, <1>5, <1>6, NoneIsNoCall DEF Apart
<1>9. ~Free(at[th]) BY <1>2 DEF Free
<1> HIDE DEF c, p, to, pl
<1>10. CASE prc[p].dead \/ (to # None /\ thr[to].dead)
  <2>1. at' = [at EXCEPT ![th].pc = "undo"] /\ prc' = prc /\ thr' = thr
    BY <1>10 DEF QueueCall, p, to
  <2> DEFINE ql == [at[th] EXCEPT !.pc = "undo"]
  <2>2. /\ ql \in Place /\ ql.pc = "undo" /\ ql.cur = at[th].cur /\ ql.tgt = at[th].tgt
        /\ ql.proc = at[th].proc
    BY <1>1 DEF Place
  <2>3. at' = [at EXCEPT ![th] = ql] BY <2>1
  <2> HIDE DEF ql
  <2>4. Moves(th) /\ at'[th] = ql BY <1>1, <2>2, <2>3, MovesTo
  <2>5. Shaped(Gone, th, ql) BY <1>1, <1>2, <2>2 DEF Shaped, WithCall, Calling, Sending
  <2>6. Writes(txn, Tops, Gone, th, ql) /\ Answering(txn, Gone, ql)
    BY <1>3, <1>4, <2>2 DEF Writes, Answering, c
  <2>7. \A d \in Coming(ql, Lists[th]) : d \in Coming(at[th], Lists[th])
    BY <2>2 DEF Coming
  <2>8. Fits(txn, Tops, Gone, Lists[th], th, ql)
    BY <1>1, <1>9, <2>5, <2>6, <2>7, QuietFits
  <2>9. HandAt(ql) = HandAt(at[th]) BY <1>2, <2>2 DEF HandAt
  <2>10. Alike(thr, thr') /\ AlikeProcs(prc, prc') BY <1>1, <2>1, AlikeHere
  <2> QED BY <1>1, <1>2, <2>2, <2>4, <2>8, <2>9, <2>10, QuietStep
<1>11. CASE ~(prc[p].dead \/ (to # None /\ thr[to].dead))
  <2>1. at' = [at EXCEPT ![th] = [at[th] EXCEPT !.pc = "done"]]
    BY <1>11 DEF QueueCall, p, to
  <2>2. /\ [at[th] EXCEPT !.pc = "done"] \in Place
        /\ [at[th] EXCEPT !.pc = "done"].pc = "done"
        /\ [at[th] EXCEPT !.pc = "done"].cur = at[th].cur
        /\ [at[th] EXCEPT !.pc = "done"].tgt = at[th].tgt
        /\ [at[th] EXCEPT !.pc = "done"].proc = at[th].proc
    BY <1>1 DEF Place
  <2>3. Moves(th) /\ pl \in Place /\ pl.pc = "done" /\ pl.cur = at[th].cur
        /\ pl.tgt = at[th].tgt /\ pl.proc = at[th].proc
    BY <1>1, <2>1, <2>2, MovesTo DEF pl
  <2>4. Shaped(Gone, th, pl) BY <1>1, <1>2, <2>3 DEF Shaped, WithCall, Calling, Sending
  <2>5. Fits(txn, Tops, Gone, Lists[th], th, pl) BY <1>1, <1>9, <2>3, <2>4, PlainFits
  <2>6. HandAt(at'[th]) = None /\ at[th].pc # "replied" /\ at'[th].pc # "replied"
    BY <1>2, <2>3 DEF HandAt, pl
  <2>7. ASSUME NEW r \in Threads, r # th, thr' = Enqueue(thr, r, Item("call", c)), prc' = prc,
               r \notin Gone =>
                 GivenTo(txn, Tops, r, Free(at[r]), Coming(at[r], Lists[r] \union {c}))
        PROVE  Sound'
    <3>1. r \in Agents /\ c \notin Lists[r] BY <1>8, OneOfAgents
    <3>2. /\ thr' \in LooseThreads /\ Tidied' /\ Tops' = Tops /\ Gone' = Gone
          /\ Lists'[r] = Lists[r] \union {c}
          /\ \A b \in Agents : b # r => Lists'[b] = Lists[b]
      BY <1>1, <1>3, <2>7, <3>1, EnqueueCall
    <3>3. Types' BY <1>1, <1>2, <2>3, <2>7, <3>2 DEF Types, Moves
    <3>4. Fits(txn, Tops, Gone, Lists[r], r, at[r]) BY <3>1, Known
    <3>5. Fits(txn, Tops, Gone, Lists[r] \union {c}, r, at[r]) BY <2>7, <3>4, GivesFits
    <3>6. Fits(txn, Tops, Gone, Lists[th], th, at'[th]) BY <2>5 DEF pl
    <3> QED BY <1>1, <1>2, <1>3, <1>5, <2>3, <2>6, <2>7, <3>1, <3>2, <3>3, <3>5, <3>6, PutStep
  <2>8. CASE to # None /\ thr' = Enqueue(thr, to, Item("call", c)) /\ prc' = prc
    <3>1. to \in Threads /\ Owner[to] # Owner[th] /\ to # th BY <1>3, <2>8
    <3>2. to \notin Gone /\ to \in Agents BY <1>11, <2>8, <3>1, OneOfAgents DEF Gone
    <3>3. WaitsFor(txn, Tops, to, c) BY <1>4, <2>8, <3>2
    <3>4. /\ at[to] \in Place /\ Shaped(Gone, to, at[to])
          /\ GivenTo(txn, Tops, to, Free(at[to]), Coming(at[to], Lists[to]))
      BY <3>1, <3>2, Known
    <3>5. ASSUME NEW d \in Coming(at[to], Lists[to]) PROVE FALSE
      <4>1. \/ d \in Lists[to]
            \/ d \in Calls /\ at[to].pc = "deliver" /\ at[to].cur = d /\ Hands[to] = d
        BY <3>2, <3>5 DEF Coming, Hands, HandAt
      <4>2. d \in Calls /\ d \in Pendings
        BY <1>1, <3>2, <4>1, StateTypes DEF Pendings, HeldIn, HoldTypes
      <4>3. d \notin Answered
        <5>1. ASSUME d \in Answered PROVE FALSE
          <6>1. d \notin Lists[to] /\ (Hands[to] = d => at[to].pc = "replied")
            BY <1>1, <1>6, <3>2, <5>1, AnsweredHand
          <6> QED BY <4>1, <6>1
        <5> QED BY <5>1
      <4>4. c # d BY <1>8, <3>1, <3>2, <4>1
      <4>5. Tops[to] # None /\ Tops[to] \in Anc(txn, c) BY <3>3 DEF WaitsFor
      <4>6. Tops[to] \in Anc(txn, d) BY <3>4, <3>5, <4>5 DEF GivenTo, WaitsFor
      <4>7. Leaf(txn, Answered, c) /\ Leaf(txn, Answered, d)
        BY <1>5, <1>6, <1>7, <4>2, <4>3, PendingLeaf
      <4> QED BY <1>3, <1>6, <4>2, <4>4, <4>5, <4>6, <4>7, LeafUnique
    <3>6. \A d \in Coming(at[to], Lists[to] \union {c}) : d = c
      BY <3>5 DEF Coming
    <3>7. GivenTo(txn, Tops, to, Free(at[to]), Coming(at[to], Lists[to] \union {c}))
      BY <1>4, <3>1, <3>3, <3>6 DEF GivenTo
    <3> QED BY <2>7, <2>8, <3>1, <3>7
  <2>9. ASSUME NEW w \in Listed(p), to = None, thr' = Enqueue(thr, w, Item("call", c)), prc' = prc
        PROVE  Sound'
    <3>1. /\ w \in Threads /\ Owner[w] = p /\ at[w].pc = "wait" /\ thr[w].stack = None
          /\ thr[w].todo = <<>>
      BY DEF Listed
    <3>2. w # th /\ w \in Agents BY <1>3, <3>1, OneOfAgents
    <3>3. w \notin Gone BY <3>1, <3>2, Known DEF Shaped
    <3>4. Tops[w] = None /\ Lists[w] = {} BY <1>1, <3>1, <3>3, TopThere, NamesNone
    <3>5. \A d \in Coming(at[w], Lists[w] \union {c}) : d = c
      BY <3>1, <3>4 DEF Coming
    <3>6. Free(at[w]) BY <3>1 DEF Free
    <3>7. GivenTo(txn, Tops, w, Free(at[w]), Coming(at[w], Lists[w] \union {c}))
      BY <1>3, <1>4, <2>9, <3>1, <3>4, <3>5, <3>6 DEF GivenTo
    <3> QED BY <2>7, <2>9, <3>1, <3>2, <3>7
  <2>10. CASE /\ to = None /\ thr' = thr
              /\ prc' = [prc EXCEPT ![p].todo = Append(@, c)]
    <3>1. p \in Agents /\ p \notin Threads /\ p # th
      BY <1>3, OneOfAgents, NoneIsNobody
    <3>2. /\ prc[p] \in LooseProcess /\ prc[p].todo \in Seq(Calls) /\ Distinct(prc[p].todo)
          /\ Lists[p] = Range(prc[p].todo)
      BY <1>1, <1>3, <3>1 DEF Types, LooseProcesses, LooseProcess, Tidied, Lists
    <3>3. /\ Append(prc[p].todo, c) \in Seq(Calls) /\ Distinct(Append(prc[p].todo, c))
          /\ Range(Append(prc[p].todo, c)) = Lists[p] \union {c}
      BY <1>3, <1>8, <3>1, <3>2, RangeAppend
    <3>4. [prc[p] EXCEPT !.todo = Append(@, c)] \in LooseProcess
      BY <3>2, <3>3 DEF LooseProcess
    <3>5. prc' \in LooseProcesses
      BY <1>1, <2>10, <3>4 DEF Types, LooseProcesses
    <3>6. \A q \in Procs : prc'[q].todo = IF q = p THEN Append(prc[p].todo, c) ELSE prc[q].todo
      BY <1>1, <2>10 DEF Types, LooseProcesses, LooseProcess
    <3>7. Tops' = Tops /\ Gone' = Gone BY <2>10 DEF Tops, Gone
    <3>8. Lists'[p] = Lists[p] \union {c} BY <1>3, <3>1, <3>3, <3>6 DEF Lists
    <3>9. \A b \in Agents : b # p => Lists'[b] = Lists[b]
      BY <2>10, <3>6 DEF Lists, Agents
    <3>10. Tidied' BY <1>1, <2>10, <3>3, <3>6 DEF Tidied
    <3>11. Types' BY <1>1, <1>2, <2>3, <2>10, <3>5 DEF Types, Moves
    <3>12. Fits(txn, Tops, Gone, Lists[p], p, at[p]) BY <3>1, Known
    <3>13. ToAny(txn, p, Lists[p] \union {c})
      BY <1>3, <1>4, <2>10, <3>12 DEF Fits, ToAny
    <3>14. Fits(txn, Tops, Gone, Lists[p] \union {c}, p, at[p])
      BY <3>1, <3>12, <3>13 DEF Fits
    <3>15. Fits(txn, Tops, Gone, Lists[th], th, at'[th]) BY <2>5 DEF pl
    <3> QED BY <1>1, <1>2, <1>3, <1>5, <2>3, <2>6, <3>1, <3>7, <3>8, <3>9, <3>10, <3>11,
               <3>14, <3>15, PutStep
  <2> QED BY <1>11, <2>8, <2>9, <2>10 DEF QueueCall, c, p, to
<1> QED BY <1>10, <1>11

LEMMA FreedTyped ==
    /\ Freed \in Transaction /\ Freed.state = "freed" /\ Freed.from = None
    /\ Freed.fromParent = None
BY DEF Freed, Transaction

LEMMA FreedOne ==
    ASSUME Types, NEW c \in Calls, txn' = [txn EXCEPT ![c] = Freed]
    PROVE  Rewritten(txn, c, Freed, txn') /\ txn' \in Transactions
<1>1. txn \in Transactions BY DEF Types
<1> QED BY <1>1, FreedTyped DEF Rewritten, Transactions

LEMMA UndoCallKeeps ==
    ASSUME Sound, NEW th \in Threads, UndoCall(th) PROVE Sound'
<1> DEFINE c == at[th].cur
           up == txn[c].fromParent
           pl == [at[th] EXCEPT !.pc = "err", !.cur = None]
<1>1. /\ Types /\ Tidied /\ at[th] \in Place /\ Fits(txn, Tops, Gone, Lists[th], th, at[th])
      /\ Shaped(Gone, th, at[th]) /\ Writes(txn, Tops, Gone, th, at[th]) /\ th \in Agents
  BY Known, OneOfAgents
<1>2. at[th].pc = "undo" /\ prc' = prc BY DEF UndoCall
<1>3. c \in Calls /\ th \notin Gone
  BY <1>1, <1>2 DEF Shaped, WithCall, Writes, Place
<1>4. txn[c].from = th /\ up \in Calls \union {None}
  BY <1>1, <1>2, <1>3, FieldTypes DEF Writes, Types
<1>5. Hands[th] = c BY <1>1, <1>2 DEF Hands, HandAt
<1>6. txn' = [txn EXCEPT ![c] = Freed] BY DEF UndoCall
<1>7. Rewritten(txn, c, Freed, txn') /\ txn' \in Transactions
  BY <1>1, <1>3, <1>6, FreedOne
<1>8. /\ pl \in Place /\ pl.pc = "err" /\ pl.cur = None /\ pl.tgt = at[th].tgt
      /\ pl.proc = at[th].proc
  BY <1>1 DEF Place
<1>9. at' = [at EXCEPT ![th] = pl] BY DEF UndoCall
<1>10. PICK i \in DOMAIN thr[th].todo :
         /\ thr[th].todo[i] = Item("complete", c)
         /\ thr' = [thr EXCEPT ![th].stack = up, ![th].todo = RemoveAt(@, i)]
  BY DEF UndoCall
<1> HIDE DEF c, up, pl
<1>11. thr[th] \in LooseThread /\ thr[th].todo \in Seq(Work) /\ Tidy(thr[th].todo)
  BY <1>1 DEF Types, LooseThreads, LooseThread, Tidied
<1>12. thr[th].todo[i].kind # "call" BY <1>10, Items, <1>3
<1> DEFINE r == RemoveAt(thr[th].todo, i)
<1>13. r \in Seq(Work) /\ Tidy(r) /\ Names(r) = Names(thr[th].todo)
  BY <1>11, <1>12, NamesRemove
<1>14. thr' = [thr EXCEPT ![th].stack = up, ![th].todo = r] BY <1>10
<1> HIDE DEF r
<1>15. thr' \in LooseThreads
  <2>1. [thr[th] EXCEPT !.stack = up, !.todo = r] \in LooseThread
    BY <1>4, <1>11, <1>13 DEF LooseThread
  <2> QED BY <1>1, <1>14, <2>1 DEF Types, LooseThreads
<1>16. \A o \in Threads :
         /\ thr'[o].dead = thr[o].dead
         /\ thr'[o].stack = IF o = th THEN up ELSE thr[o].stack
         /\ thr'[o].todo = IF o = th THEN r ELSE thr[o].todo
  BY <1>1, <1>14 DEF Types, LooseThreads, LooseThread
<1>17. Gone' = Gone BY <1>16 DEF Gone
<1>18. Retopped(Tops, th, up, Tops')
  <2>1. \A o \in Threads : TopOn(thr'[o]) = IF o = th THEN up ELSE TopOn(thr[o])
    BY <1>3, <1>16 DEF TopOn, Gone
  <2>2. \A o \in Threads : TopOn(thr'[o]) \in Calls \union {None}
    BY <1>15 DEF LooseThreads, LooseThread, TopOn
  <2> QED BY <2>1, <2>2 DEF Retopped, Tops
<1>19. Lists' = Lists /\ Tidied'
  <2>1. \A o \in Threads : Names(thr'[o].todo) = Names(thr[o].todo) /\ Tidy(thr'[o].todo)
    BY <1>1, <1>13, <1>16 DEF Tidied
  <2> QED BY <1>1, <1>2, <2>1 DEF Lists, Tidied
<1>20. Moves(th) /\ at'[th] = pl BY <1>1, <1>8, <1>9, MovesTo
<1>21. Types' BY <1>1, <1>2, <1>7, <1>15, <1>20 DEF Types, Moves
<1>22. Shaped(Gone, th, pl)
  BY <1>1, <1>2, <1>8 DEF Shaped, WithCall, Calling, Sending
<1>23. Heir(txn, Answered, c) = {} /\ {HandAt(pl)} \cap Calls = {}
  BY <1>4, <1>8, NoneIsNobody, NoneIsNoCall DEF Heir, HandAt
<1>24. ~Free(at[th]) /\ pl.pc \in Plain \ {"replied"} BY <1>2, <1>8 DEF Free, Plain
<1>25. Retopped(Tops, txn[c].from, txn[c].fromParent, Tops') BY <1>4, <1>18 DEF up
<1> QED BY <1>1, <1>3, <1>5, <1>7, <1>17, <1>19, <1>20, <1>21, <1>22, <1>23, <1>24, <1>25,
           RemoveStep

LEMMA EndCallKeeps ==
    ASSUME Sound, NEW th \in Threads, EndCall(th) PROVE Sound'
<1> DEFINE to == at[th].tgt
           T == IF to = None THEN thr ELSE Unref(thr, to)
           P == IF to = None THEN prc ELSE AfterUnref(prc, to)
           pl == Idle("user")
<1>1. /\ Types /\ Tidied /\ at[th] \in Place /\ Fits(txn, Tops, Gone, Lists[th], th, at[th])
      /\ Shaped(Gone, th, at[th]) /\ th \in Agents
  BY Known, OneOfAgents
<1>2. at[th].pc \in {"done", "err"} /\ txn' = txn /\ at' = [at EXCEPT ![th] = pl]
  BY DEF EndCall
<1>3. to \in Threads \union {None} BY <1>1 DEF Place
<1>4. Alike(thr, thr) /\ AlikeProcs(prc, prc) BY <1>1, AlikeHere
<1>5. Alike(thr, T) BY <1>3, <1>4, AlikeUnref
<1>6. AlikeProcs(prc, P) BY <1>4, AlikeAfterUnref
<1>7. thr' = (IF at[th].pc = "err" THEN Report(T, th) ELSE T)
      /\ prc' = UnrefProc(P, at[th].proc)
  BY DEF EndCall
<1> HIDE DEF T, P, to
<1>8. Alike(thr, thr') BY <1>5, <1>7, AlikeReport
<1>9. AlikeProcs(prc, prc') BY <1>6, <1>7, AlikeUnrefProc
<1>10. pl \in Place /\ pl.pc = "user" /\ pl.cur = None /\ pl.tgt = None /\ pl.proc = None
  BY DEF Idle, Place
<1> HIDE DEF pl
<1>11. Moves(th) /\ at'[th] = pl BY <1>1, <1>2, <1>10, MovesTo
<1>12. Shaped(Gone, th, pl)
  BY <1>1, <1>2, <1>10 DEF Shaped, WithCall, Calling, Sending
<1>13. ~Free(at[th]) BY <1>2 DEF Free
<1>14. Fits(txn, Tops, Gone, Lists[th], th, pl) BY <1>1, <1>10, <1>12, <1>13, PlainFits
<1>15. HandAt(pl) = HandAt(at[th])
  BY <1>1, <1>2, <1>10 DEF HandAt, Shaped, WithCall
<1> QED BY <1>1, <1>2, <1>8, <1>9, <1>10, <1>11, <1>14, <1>15, QuietStep

-----------------------------------------------------------------------------
(* A call is made, taken to be answered, and answered. *)

LEMMA EmptyFits ==
    ASSUME NEW X, NEW S, NEW D, NEW b \in Threads, NEW ql, Shaped(D, b, ql),
           ql.pc # "deliver", Writes(X, S, D, b, ql), Answering(X, D, ql)
    PROVE  Fits(X, S, D, {}, b, ql)
<1>1. Coming(ql, {}) = {} BY DEF Coming
<1> QED BY <1>1, NoneIsNobody DEF Fits, GivenTo

\* Nothing is sent to a thread that writes.
LEMMA NothingComes ==
    ASSUME Sound, NEW th \in Threads, th \notin Gone, ~Free(at[th]),
           Tops[th] = None \/ txn[Tops[th]].toThread = th
    PROVE  Lists[th] = {}
<1>1. GivenTo(txn, Tops, th, Free(at[th]), Coming(at[th], Lists[th]))
  BY Known, OneOfAgents
<1>2. Lists[th] \subseteq Coming(at[th], Lists[th]) BY DEF Coming
<1>3. Types /\ Foreign(txn) BY DEF Sound, Core
<1>4. Tops[th] \in Calls \union {None} BY <1>3, StateTypes
<1>5. ASSUME NEW c \in Lists[th] PROVE FALSE
  <2>1. WaitsFor(txn, Tops, th, c) BY <1>1, <1>2, <1>5 DEF GivenTo
  <2>2. Tops[th] \in Calls /\ txn[Tops[th]].from = th /\ txn[Tops[th]].toThread = th
    BY <1>4, <2>1 DEF WaitsFor
  <2> QED BY <1>3, <2>2, NoneIsNobody DEF Foreign
<1> QED BY <1>5

\* The top of the stack of th changes to s, and it gets work other than a call.
LEMMA NewTop ==
    ASSUME Types, Tidied, NEW th \in Threads, th \notin Gone,
           NEW s \in Calls \union {None}, NEW U, Alike(thr, U),
           thr' = [U EXCEPT ![th].stack = s], AlikeProcs(prc, prc')
    PROVE  /\ thr' \in LooseThreads /\ Gone' = Gone /\ Lists' = Lists /\ Tidied'
           /\ Retopped(Tops, th, s, Tops')
<1>1. /\ U \in LooseThreads
      /\ \A o \in Threads :
           /\ U[o].dead = thr[o].dead /\ (thr[o].dead \/ U[o].stack = thr[o].stack)
           /\ Names(U[o].todo) = Names(thr[o].todo) /\ Tidy(U[o].todo)
  BY DEF Alike
<1>2. thr' \in LooseThreads
  <2>1. U[th] \in LooseThread BY <1>1 DEF LooseThreads
  <2>2. [U[th] EXCEPT !.stack = s] \in LooseThread BY <2>1 DEF LooseThread
  <2> QED BY <1>1, <2>2 DEF LooseThreads
<1>3. \A o \in Threads :
        /\ thr'[o].dead = U[o].dead /\ thr'[o].todo = U[o].todo
        /\ thr'[o].stack = IF o = th THEN s ELSE U[o].stack
  BY <1>1 DEF LooseThreads, LooseThread
<1>4. Gone' = Gone BY <1>1, <1>3 DEF Gone
<1>5. \A p \in Procs : prc'[p].todo = prc[p].todo BY DEF AlikeProcs
<1>6. Lists' = Lists BY <1>1, <1>3, <1>5 DEF Lists, Agents
<1>7. Tidied' BY <1>1, <1>3, <1>5 DEF Tidied
<1>8. \A o \in Threads : TopOn(thr'[o]) = IF o = th THEN s ELSE TopOn(thr[o])
  BY <1>1, <1>3 DEF TopOn, Gone
<1>9. \A o \in Threads : TopOn(thr'[o]) \in Calls \union {None}
  BY <1>2 DEF LooseThreads, LooseThread, TopOn
<1>10. Retopped(Tops, th, s, Tops') BY <1>8, <1>9 DEF Retopped, Tops
<1> QED BY <1>2, <1>4, <1>6, <1>7, <1>10

LEMMA PushCallKeeps ==
    ASSUME Sound, NEW th \in Threads, PushCall(th) PROVE Sound'
<1>1. /\ Types /\ Tidied /\ at[th] \in Place
      /\ Shaped(Gone, th, at[th]) /\ Writes(txn, Tops, Gone, th, at[th]) /\ th \in Agents
      /\ Core(txn, Tops, Gone, Pendings, Answered) /\ Apart(Hands, Lists)
      /\ HoldTypes(Hands, Lists)
  BY Known, OneOfAgents, StateTypes DEF Sound
<1>2. at[th].pc = "target" /\ prc' = prc BY DEF PushCall
<1>3. PICK c \in NextCall :
         /\ txn' = [txn EXCEPT ![c] = [state |-> "live", from |-> th,
              toThread |-> at[th].tgt, fromParent |-> thr[th].stack,
              toParent |-> None]]
         /\ thr' = [thr EXCEPT ![th].stack = c,
                               ![th].todo = Append(@, Item("complete", c))]
         /\ at' = [at EXCEPT ![th].pc = "queue", ![th].cur = c]
  BY DEF PushCall
<1> DEFINE t == at[th].tgt
           rec == [state |-> "live", from |-> th, toThread |-> t,
                   fromParent |-> Tops[th], toParent |-> None]
           pl == [at[th] EXCEPT !.pc = "queue", !.cur = c]
           w == Item("complete", c)
           U == [thr EXCEPT ![th].todo = Append(@, w), ![th].processTodo = thr[th].processTodo]
<1>4. /\ t \in Threads \union {None} /\ th \notin Gone /\ at[th].cur = None
      /\ Tops[th] = None \/ txn[Tops[th]].toThread = th
      /\ t # None => Owner[t] # Owner[th] /\ t # th
  BY <1>1, <1>2 DEF Shaped, WithCall, Calling, Sending, Writes, Place
<1>5. Tops[th] = thr[th].stack BY <1>1, <1>4, TopThere
<1>6. /\ c \in Calls /\ c \notin LiveIn(txn)
      /\ \A d \in LiveIn(txn) : d \in Calls /\ d < c
  <2>1. c \in Calls /\ \A b \in Calls : txn[b].state = "new" <=> b >= c
    BY DEF NextCall
  <2>2. c \in Nat /\ \A b \in Calls : b \in Nat BY <2>1, NoneIsNoCall
  <2>3. txn[c].state = "new" BY <2>1, <2>2
  <2>4. \A d \in LiveIn(txn) : d \in Calls /\ ~(d >= c) BY <2>1 DEF LiveIn
  <2> QED BY <2>1, <2>2, <2>3, <2>4 DEF LiveIn
<1>7. Tops[th] \in Calls \union {None} BY <1>1, StateTypes
<1>8. txn' \in Transactions /\ Rewritten(txn, c, rec, txn')
  <2>1. rec \in Transaction BY <1>4, <1>7 DEF Transaction
  <2>2. txn' = [txn EXCEPT ![c] = rec] BY <1>3, <1>5
  <2> HIDE DEF rec
  <2> QED BY <1>1, <1>6, <2>1, <2>2 DEF Types, Transactions, Rewritten
<1>9. pl \in Place /\ pl.pc = "queue" /\ pl.cur = c /\ pl.tgt = t /\ pl.proc = at[th].proc
  BY <1>1, <1>6 DEF Place
<1>10. at' = [at EXCEPT ![th] = pl] BY <1>3
<1> HIDE DEF pl
<1>11. Moves(th) /\ at'[th] = pl BY <1>1, <1>9, <1>10, MovesTo
<1>12. thr[th] \in LooseThread /\ thr[th].todo \in Seq(Work) /\ Tidy(thr[th].todo)
       /\ thr \in LooseThreads
  BY <1>1 DEF Types, LooseThreads, LooseThread, Tidied
<1>13. w \in Work /\ w.kind # "call" BY <1>6, Items
<1> HIDE DEF w
<1>14. /\ Append(thr[th].todo, w) \in Seq(Work) /\ Tidy(Append(thr[th].todo, w))
       /\ Names(Append(thr[th].todo, w)) = Names(thr[th].todo)
  BY <1>12, <1>13, NamesAppend
<1>15. U \in LooseThreads
  <2>1. [thr[th] EXCEPT !.todo = Append(@, w), !.processTodo = thr[th].processTodo]
           \in LooseThread
    BY <1>12, <1>14 DEF LooseThread
  <2> QED BY <1>12, <2>1 DEF LooseThreads
<1>16. \A o \in Threads :
         /\ U[o].dead = thr[o].dead /\ U[o].stack = thr[o].stack
         /\ U[o].todo = IF o = th THEN Append(thr[o].todo, w) ELSE thr[o].todo
  BY <1>12 DEF LooseThreads, LooseThread
<1>17. Alike(thr, U) /\ AlikeProcs(prc, prc')
  <2>1. \A o \in Threads : Names(U[o].todo) = Names(thr[o].todo) /\ Tidy(U[o].todo)
                           /\ Tidy(thr[o].todo)
    BY <1>1, <1>14, <1>16 DEF Tidied
  <2>2. AlikeProcs(prc, prc') BY <1>1, <1>2, AlikeHere
  <2> HIDE DEF U
  <2> QED BY <1>12, <1>15, <1>16, <2>1, <2>2 DEF Alike
<1>18. thr' = [U EXCEPT ![th].stack = c]
  <2>1. thr' = [thr EXCEPT ![th].stack = c, ![th].todo = Append(@, w)]
    BY <1>3 DEF w
  <2>2. [thr[th] EXCEPT !.stack = c, !.todo = Append(@, w)]
          = [[thr[th] EXCEPT !.todo = Append(@, w), !.processTodo = thr[th].processTodo]
               EXCEPT !.stack = c]
    BY <1>12 DEF LooseThread
  <2> QED BY <1>12, <2>1, <2>2 DEF LooseThreads
<1> HIDE DEF U
<1>19. /\ thr' \in LooseThreads /\ Gone' = Gone /\ Lists' = Lists /\ Tidied'
       /\ Retopped(Tops, th, c, Tops')
  BY <1>1, <1>4, <1>6, <1>17, <1>18, NewTop
<1>20. Types' BY <1>1, <1>2, <1>8, <1>11, <1>19 DEF Types, Moves
<1>21. Hands[th] = None /\ Hands'[th] = c
  BY <1>1, <1>2, <1>4, <1>9, <1>11, HandsMove DEF Hands, HandAt
<1>22. HoldTypes(Hands', Lists') /\ \A b \in Agents : (b # th => Hands'[b] = Hands[b])
                                                      /\ Lists'[b] = Lists[b]
  <2>1. HoldTypes(Hands', Lists') BY <1>20, HoldsTypedNext
  <2>2. \A b \in Agents : b # th => Hands'[b] = Hands[b] BY <1>1, <1>11, HandsMove
  <2> QED BY <1>19, <2>1, <2>2
<1>23. c \notin HeldIn(Hands, Lists) BY <1>1, <1>6 DEF Core, Marked, Pendings
<1>24. /\ Apart(Hands', Lists')
       /\ HeldIn(Hands', Lists') = (HeldIn(Hands, Lists) \ {Hands[th]}) \union ({c} \cap Calls)
  <2>1. c \in Calls \union {None} /\ (c = Hands[th] \/ c \notin HeldIn(Hands, Lists))
    BY <1>6, <1>23
  <2> QED BY <1>1, <1>21, <1>22, <2>1, HandTurns
<1>25. Pendings' = Pendings \union {c}
  <2>1. None \notin HeldIn(Hands, Lists) BY NoneIsNoCall DEF HeldIn
  <2> QED BY <1>6, <1>21, <1>24, <2>1 DEF Pendings
<1>26. Answered' = Answered BY <1>1, <1>2, <1>9, <1>11, AnsweredSame
<1>27. /\ Core(txn', Tops', Gone, Pendings', Answered)
       /\ Calm(txn, Tops, Pendings, Answered, txn', Tops', Gone, th, {c})
  BY <1>1, <1>4, <1>6, <1>8, <1>19, <1>25, Pushed
<1> HIDE DEF rec
<1>28. Writes(txn', Tops', Gone, th, pl)
  <2>1. txn'[c].from = th /\ txn'[c].toThread = t /\ txn'[c].fromParent = Tops[th]
    BY <1>8 DEF Rewritten, rec
  <2>2. ASSUME t # None, t \notin Gone PROVE WaitsFor(txn', Tops', t, c)
    <3>1. Tops[th] # None /\ WaitsFor(txn, Tops, t, Tops[th])
      BY <1>1, <1>2, <2>2 DEF Writes
    <3>2. /\ Tops[th] \in Calls /\ Tops[th] \notin Pendings
          /\ Leaf(txn, Answered, Tops[th])
      BY <1>1, <1>4, <3>1, ServedTop
    <3>3. Tops[th] # c BY <1>6, <3>2 DEF Leaf
    <3>4. t \in Threads BY <1>4, <2>2
    <3>5. WaitsFor(txn', Tops', t, Tops[th])
      BY <1>27, <2>2, <3>1, <3>2, <3>3, <3>4 DEF Calm
    <3>6. c \in Anc(txn', c) /\ Anc(txn', c) \subseteq Calls /\ Up(txn', Anc(txn', c))
      BY <1>6, <1>8, AncIs
    <3>7. Tops[th] \in Anc(txn', c) BY <2>1, <3>1, <3>6 DEF Up
    <3>8. Anc(txn', Tops[th]) \subseteq Anc(txn', c) BY <1>8, <3>2, <3>6, <3>7, AncIs
    <3> QED BY <3>5, <3>8 DEF WaitsFor
  <2> QED BY <1>4, <1>9, <2>1, <2>2 DEF Writes
<1>29. Answering(txn', Gone, pl) BY <1>9 DEF Answering
<1>30. Shaped(Gone, th, pl)
  BY <1>1, <1>2, <1>6, <1>9, NoneIsNoCall DEF Shaped, WithCall, Calling, Sending
<1>31. Lists[th] = {}
  <2>1. ~Free(at[th]) BY <1>2 DEF Free
  <2> QED BY <1>4, <2>1, NothingComes
<1>32. Fits(txn', Tops', Gone, {}, th, pl)
  BY <1>9, <1>28, <1>29, <1>30, EmptyFits
<1>33. FitsAt(th)' BY <1>11, <1>19, <1>31, <1>32 DEF FitsAt
<1>34. \A b \in Agents : b # th => at'[b] = at[b] /\ Lists'[b] \subseteq Lists[b]
  BY <1>11, <1>22 DEF Moves
<1>35. \A d \in {c} : d = Hands[th] \/ d \notin Pendings BY <1>23 DEF Pendings
<1>36. /\ Core(txn', Tops', Gone', Pendings', Answered')
       /\ Calm(txn, Tops, Pendings, Answered, txn', Tops', Gone', th, {c})
       /\ Gone \subseteq Gone' /\ Gone' \subseteq Gone \union {th}
  BY <1>19, <1>26, <1>27
<1> QED BY <1>1, <1>19, <1>20, <1>24, <1>33, <1>34, <1>35, <1>36, StepKeeps

LEMMA BeginReplyKeeps ==
    ASSUME Blocking, Sound, NEW th \in Threads, BeginReply(th) PROVE Sound'
<1>1. /\ Types /\ Tidied /\ at[th] \in Place /\ Fits(txn, Tops, Gone, Lists[th], th, at[th])
      /\ Shaped(Gone, th, at[th]) /\ th \in Agents
      /\ Core(txn, Tops, Gone, Pendings, Answered) /\ Apart(Hands, Lists)
      /\ HoldTypes(Hands, Lists)
  BY Known, OneOfAgents, StateTypes DEF Sound
<1>2. /\ at[th].pc = "user" /\ at[th].cur = None /\ th \notin Gone /\ Lists[th] = {}
      /\ thr[th].stack = Tops[th]
      /\ Tops[th] = None \/ txn[Tops[th]].toThread = th
      /\ Serving(th) <=> Tops[th] # None
  BY WriterKnows DEF BeginReply
<1>3. Alike(thr, thr) /\ AlikeProcs(prc, prc) BY <1>1, AlikeHere
<1>4. prc' = prc /\ txn' = txn BY DEF BeginReply
<1>5. CASE ~Serving(th)
  <2>1. thr' = Report(thr, th) /\ at' = at BY <1>5 DEF BeginReply
  <2>2. Alike(thr, thr') BY <1>3, <2>1, AlikeReport
  <2>3. Moves(th) BY <1>1, <2>1, StaysPut
  <2>4. at'[th] = at[th] /\ AlikeProcs(prc, prc') BY <1>3, <1>4, <2>1
  <2> QED BY <1>1, <1>4, <2>2, <2>3, <2>4, QuietStep
<1>6. CASE Serving(th)
  <2> DEFINE c == Tops[th]
             up == txn[c].toParent
             pl == [Idle("popped") EXCEPT !.cur = c]
  <2>1. c # None /\ txn[c].toThread = th BY <1>2, <1>6
  <2>2. /\ c \in Srv(txn, Pendings, th) /\ c \in Calls /\ c \notin Pendings
        /\ c \notin Answered
    BY <1>1, <2>1, ServedTop
  <2>3. pl \in Place /\ pl.pc = "popped" /\ pl.cur = c /\ pl.tgt = None /\ pl.proc = None
    BY <2>2 DEF Idle, Place
  <2>4. /\ at' = [at EXCEPT ![th] = pl]
        /\ thr' = [thr EXCEPT ![th].stack = up]
    BY <1>1, <1>2, <1>6 DEF BeginReply, Types, LooseThreads
  <2>5. up \in Calls \union {None} BY <1>1, <2>2, FieldTypes DEF Types
  <2> HIDE DEF pl, up, c
  <2>6. Moves(th) /\ at'[th] = pl BY <1>1, <2>3, <2>4, MovesTo
  <2>7. /\ thr' \in LooseThreads /\ Gone' = Gone /\ Lists' = Lists /\ Tidied'
        /\ Retopped(Tops, th, up, Tops')
    BY <1>1, <1>2, <1>3, <1>4, <2>4, <2>5, NewTop
  <2>8. Types' BY <1>1, <1>4, <2>6, <2>7 DEF Types, Moves
  <2>9. Hands[th] = None /\ Hands'[th] = c
    BY <1>1, <1>2, <2>3, <2>6, HandsMove DEF Hands, HandAt
  <2>10. HoldTypes(Hands', Lists') BY <2>8, HoldsTypedNext
  <2>11. \A b \in Agents : (b # th => Hands'[b] = Hands[b]) /\ Lists'[b] = Lists[b]
    BY <1>1, <2>6, <2>7, HandsMove
  <2>12. c \in Calls \union {None} /\ (c = Hands[th] \/ c \notin HeldIn(Hands, Lists))
    BY <2>2 DEF Pendings
  <2>13. /\ Apart(Hands', Lists')
         /\ HeldIn(Hands', Lists') = (HeldIn(Hands, Lists) \ {Hands[th]}) \union ({c} \cap Calls)
    BY <1>1, <2>9, <2>10, <2>11, <2>12, HandTurns
  <2>14. Pendings' = Pendings \union {c}
    <3>1. None \notin HeldIn(Hands, Lists) BY NoneIsNoCall DEF HeldIn
    <3> QED BY <2>2, <2>9, <2>13, <3>1 DEF Pendings
  <2>15. Answered' = Answered BY <1>1, <1>2, <2>3, <2>6, AnsweredSame
  <2>16. /\ Core(txn, Tops', Gone, Pendings', Answered)
         /\ Calm(txn, Tops, Pendings, Answered, txn, Tops', Gone, th, {c})
    <3>1. c = Tops[th] /\ Retopped(Tops, th, txn[c].toParent, Tops')
      BY <2>7 DEF c, up
    <3> QED BY <1>1, <2>1, <2>14, <3>1, TakenOff
  <2>17. /\ Core(txn', Tops', Gone', Pendings', Answered')
         /\ Calm(txn, Tops, Pendings, Answered, txn', Tops', Gone', th, {c})
         /\ Gone \subseteq Gone' /\ Gone' \subseteq Gone \union {th}
    BY <1>4, <2>7, <2>15, <2>16
  <2>18. Shaped(Gone, th, pl)
    BY <1>1, <1>2, <2>1, <2>3 DEF Shaped, WithCall, Calling, Sending
  <2>19. Writes(txn, Tops', Gone, th, pl) /\ Answering(txn, Gone, pl)
    BY <2>3 DEF Writes, Answering
  <2>20. Fits(txn, Tops', Gone, {}, th, pl) BY <2>3, <2>18, <2>19, EmptyFits
  <2>21. FitsAt(th)' BY <1>2, <1>4, <2>6, <2>7, <2>20 DEF FitsAt
  <2>22. \A b \in Agents : b # th => at'[b] = at[b] /\ Lists'[b] \subseteq Lists[b]
    BY <2>6, <2>11 DEF Moves
  <2>23. \A d \in {c} : d = Hands[th] \/ d \notin Pendings BY <2>2
  <2> QED BY <1>1, <2>7, <2>8, <2>13, <2>17, <2>21, <2>22, <2>23, StepKeeps
<1> QED BY <1>5, <1>6

\* What whoever has a call in hand knows of it.
LEMMA InHand ==
    ASSUME Sound, NEW a \in Agents, at[a].pc \in WithCall \ {"done"}
    PROVE  /\ at[a].cur \in Calls /\ at[a].cur # None
           /\ Hands[a] = at[a].cur /\ at[a].cur \in Pendings
           /\ at[a].pc # "replied" => at[a].cur \notin Answered
           /\ at[a].pc = "replied" => at[a].cur \in Answered
           /\ \A b \in Agents : at[a].cur \notin Lists[b]
<1>1. /\ Types /\ at[a] \in Place /\ Shaped(Gone, a, at[a]) /\ Apart(Hands, Lists)
  BY Known DEF Sound
<1>2. at[a].cur # None /\ at[a].cur \in Calls BY <1>1 DEF Shaped, Place
<1>3. Hands[a] = at[a].cur BY DEF Hands, HandAt
<1>4. at[a].cur \in Pendings BY <1>2, <1>3 DEF Pendings, HeldIn
<1>5. at[a].pc # "replied" => at[a].cur \notin Answered BY <1>1, <1>3, AnsweredHand
<1>6. at[a].pc = "replied" => at[a].cur \in Answered BY <1>2 DEF Answered
<1>7. \A b \in Agents : at[a].cur \notin Lists[b] BY <1>1, <1>2, <1>3 DEF Apart
<1> QED BY <1>2, <1>3, <1>4, <1>5, <1>6, <1>7

LEMMA ReplyFromKeeps ==
    ASSUME Sound, NEW th \in Threads, ReplyFrom(th) PROVE Sound'
<1> DEFINE c == at[th].cur
           caller == txn[c].from
<1>1. /\ Types /\ Tidied /\ at[th] \in Place /\ Fits(txn, Tops, Gone, Lists[th], th, at[th])
      /\ Shaped(Gone, th, at[th]) /\ th \in Agents
  BY Known, OneOfAgents
<1>2. at[th].pc = "popped" /\ prc' = prc /\ txn' = txn BY DEF ReplyFrom
<1>3. c \in Calls /\ ~Free(at[th]) BY <1>1, <1>2, InHand DEF WithCall, Free
<1>4. caller \in Threads \union {None} BY <1>1, <1>3, FieldTypes DEF Types
<1>5. Alike(thr, thr) /\ AlikeProcs(prc, prc') BY <1>1, <1>2, AlikeHere
<1>6. at[th].tgt = None /\ at[th].proc = None
  BY <1>1, <1>2 DEF Shaped, WithCall, Calling, Sending
<1> HIDE DEF c, caller
<1>7. CASE caller = None
  <2> DEFINE pl == [at[th] EXCEPT !.pc = "unsent"]
  <2>1. pl \in Place /\ pl.pc = "unsent" /\ pl.cur = at[th].cur /\ pl.tgt = None /\ pl.proc = None
    BY <1>1, <1>6 DEF Place
  <2>2. at' = [at EXCEPT ![th] = pl] /\ thr' = thr
    BY <1>7 DEF ReplyFrom, c, caller
  <2> HIDE DEF pl
  <2>3. Moves(th) /\ at'[th] = pl BY <1>1, <2>1, <2>2, MovesTo
  <2>4. Shaped(Gone, th, pl) BY <1>1, <1>2, <2>1 DEF Shaped, WithCall, Calling, Sending
  <2>5. Fits(txn, Tops, Gone, Lists[th], th, pl) BY <1>1, <1>3, <2>1, <2>4, PlainFits
  <2>6. HandAt(pl) = HandAt(at[th]) BY <1>2, <2>1 DEF HandAt
  <2> QED BY <1>1, <1>2, <1>5, <2>1, <2>2, <2>3, <2>5, <2>6, QuietStep
<1>8. CASE caller # None
  <2> DEFINE pl == [at[th] EXCEPT !.pc = "from", !.tgt = caller]
  <2>1. pl \in Place /\ pl.pc = "from" /\ pl.cur = c /\ pl.tgt = caller /\ pl.proc = None
    BY <1>1, <1>4, <1>6, <1>8 DEF Place, c
  <2>2. at' = [at EXCEPT ![th] = pl] /\ thr' = [thr EXCEPT ![caller].ref = @ + 1]
    BY <1>8 DEF ReplyFrom, c, caller
  <2> HIDE DEF pl
  <2>3. Moves(th) /\ at'[th] = pl BY <1>1, <2>1, <2>2, MovesTo
  <2>4. Shaped(Gone, th, pl)
    BY <1>1, <1>2, <1>8, <2>1 DEF Shaped, WithCall, Calling, Sending, c
  <2>5. Writes(txn, Tops, Gone, th, pl) /\ Answering(txn, Gone, pl)
    BY <2>1 DEF Writes, Answering, caller
  <2>6. \A d \in Coming(pl, Lists[th]) : d \in Coming(at[th], Lists[th])
    BY <2>1 DEF Coming
  <2>7. Fits(txn, Tops, Gone, Lists[th], th, pl) BY <1>1, <1>3, <2>4, <2>5, <2>6, QuietFits
  <2>8. HandAt(pl) = HandAt(at[th]) BY <1>2, <2>1 DEF HandAt, c
  <2>9. Alike(thr, thr') BY <1>4, <1>5, <1>8, <2>2, AlikeRef
  <2> QED BY <1>1, <1>2, <1>5, <2>1, <2>3, <2>7, <2>8, <2>9, QuietStep
<1> QED BY <1>7, <1>8

\* A thread that has its call from its caller has one that waits for it.
LEMMA CallerOnTop ==
    ASSUME Sound, NEW a \in Agents,
           at[a].pc \in {"from", "acquired", "built", "refused", "failfrom"},
           txn[at[a].cur].from # None \/ ~thr[at[a].tgt].dead
    PROVE  /\ at[a].tgt \in Threads /\ txn[at[a].cur].from = at[a].tgt
           /\ at[a].tgt \notin Gone /\ thr[at[a].tgt].stack = at[a].cur
           /\ Tops[at[a].tgt] = at[a].cur
<1>1. /\ Types /\ at[a] \in Place /\ Shaped(Gone, a, at[a]) /\ Answering(txn, Gone, at[a])
      /\ Core(txn, Tops, Gone, Pendings, Answered)
  BY Known DEF Sound
<1>2. at[a].tgt \in Threads BY <1>1 DEF Shaped, Place, Sending
<1>3. txn[at[a].cur].from = at[a].tgt BY <1>1, <1>2 DEF Answering, Gone
<1>4. at[a].cur \in Pendings BY InHand DEF WithCall
<1>5. at[a].tgt \notin Gone /\ Tops[at[a].tgt] = at[a].cur
  BY <1>1, <1>2, <1>3, <1>4, NoneIsNobody, TopOf
<1> QED BY <1>1, <1>2, <1>3, <1>5, TopThere

LEMMA ReplyAcquireKeeps ==
    ASSUME Sound, NEW th \in Threads, ReplyAcquire(th) PROVE Sound'
<1> DEFINE c == at[th].cur
           caller == at[th].tgt
<1>1. /\ Types /\ Tidied /\ at[th] \in Place /\ Fits(txn, Tops, Gone, Lists[th], th, at[th])
      /\ Shaped(Gone, th, at[th]) /\ th \in Agents /\ Answering(txn, Gone, at[th])
  BY Known, OneOfAgents
<1>2. at[th].pc = "from" /\ txn' = txn BY DEF ReplyAcquire
<1>3. c \in Calls /\ c # None /\ ~Free(at[th])
  BY <1>1, <1>2, InHand DEF WithCall, Free
<1>4. caller \in Threads /\ at[th].proc = None /\ Owner[caller] \in Procs
  BY <1>1, <1>2, OwnerAssumption DEF Shaped, Calling, Sending, Place
<1>5. Alike(thr, thr) /\ AlikeProcs(prc, prc) BY <1>1, AlikeHere
<1> HIDE DEF c, caller
<1>6. CASE txn[c].from = None
  <2> DEFINE pl == [at[th] EXCEPT !.pc = "unsent", !.tgt = None]
  <2>1. pl \in Place /\ pl.pc = "unsent" /\ pl.cur = c /\ pl.tgt = None /\ pl.proc = None
    BY <1>1, <1>4 DEF Place, c
  <2>2. /\ at' = [at EXCEPT ![th] = pl] /\ thr' = Unref(thr, caller)
        /\ prc' = AfterUnref(prc, caller)
    BY <1>6 DEF ReplyAcquire, c, caller
  <2> HIDE DEF pl
  <2>3. Moves(th) /\ at'[th] = pl BY <1>1, <2>1, <2>2, MovesTo
  <2>4. Shaped(Gone, th, pl)
    BY <1>1, <1>2, <1>3, <2>1 DEF Shaped, WithCall, Calling, Sending
  <2>5. Fits(txn, Tops, Gone, Lists[th], th, pl) BY <1>1, <1>3, <2>1, <2>4, PlainFits
  <2>6. HandAt(pl) = HandAt(at[th]) BY <1>2, <2>1 DEF HandAt, c
  <2>7. Alike(thr, thr') /\ AlikeProcs(prc, prc')
    BY <1>4, <1>5, <2>2, AlikeUnref, AlikeAfterUnref
  <2> QED BY <1>1, <1>2, <2>1, <2>3, <2>5, <2>6, <2>7, QuietStep
<1>7. CASE txn[c].from # None
  <2>0. thr[caller].stack = c /\ txn[c].from = caller
    BY <1>1, <1>2, <1>7, CallerOnTop DEF c, caller
  <2> DEFINE pl == [at[th] EXCEPT !.pc = "acquired", !.proc = Owner[caller]]
  <2>1. /\ pl \in Place /\ pl.pc = "acquired" /\ pl.cur = c /\ pl.tgt = caller
        /\ pl.proc = Owner[caller]
    BY <1>1, <1>4 DEF Place, c, caller
  <2>2. /\ at' = [at EXCEPT ![th] = pl] /\ thr' = thr
        /\ prc' = [prc EXCEPT ![Owner[caller]].ref = @ + 1]
    BY <1>7, <2>0 DEF ReplyAcquire, c, caller
  <2> HIDE DEF pl
  <2>3. Moves(th) /\ at'[th] = pl BY <1>1, <2>1, <2>2, MovesTo
  <2>4. Shaped(Gone, th, pl)
    BY <1>1, <1>2, <1>3, <1>4, <2>1, NoneIsNobody DEF Shaped, WithCall, Calling, Sending
  <2>5. Writes(txn, Tops, Gone, th, pl) /\ Answering(txn, Gone, pl)
    BY <2>0, <2>1 DEF Writes, Answering
  <2>6. \A d \in Coming(pl, Lists[th]) : d \in Coming(at[th], Lists[th])
    BY <2>1 DEF Coming
  <2>7. Fits(txn, Tops, Gone, Lists[th], th, pl) BY <1>1, <1>3, <2>4, <2>5, <2>6, QuietFits
  <2>8. HandAt(pl) = HandAt(at[th]) BY <1>2, <2>1 DEF HandAt, c
  <2>9. Alike(thr, thr') /\ AlikeProcs(prc, prc') BY <1>5, <2>2, AlikeProcRef
  <2> QED BY <1>1, <1>2, <2>1, <2>3, <2>7, <2>8, <2>9, QuietStep
<1> QED BY <1>6, <1>7

LEMMA BuildReplyKeeps ==
    ASSUME Sound, NEW th \in Threads, NEW pc \in {"built", "refused"}, BuildReply(th, pc)
    PROVE  Sound'
<1> DEFINE pl == [at[th] EXCEPT !.pc = pc]
<1>1. /\ Types /\ Tidied /\ at[th] \in Place /\ Fits(txn, Tops, Gone, Lists[th], th, at[th])
      /\ Shaped(Gone, th, at[th]) /\ th \in Agents /\ Answering(txn, Gone, at[th])
  BY Known, OneOfAgents
<1>2. /\ at[th].pc = "acquired" /\ txn' = txn /\ thr' = thr /\ prc' = prc
      /\ at' = [at EXCEPT ![th] = pl]
  BY DEF BuildReply
<1>3. /\ pl \in Place /\ pl.pc = pc /\ pl.cur = at[th].cur /\ pl.tgt = at[th].tgt
      /\ pl.proc = at[th].proc
  BY <1>1 DEF Place
<1> HIDE DEF pl
<1>4. Moves(th) /\ at'[th] = pl BY <1>1, <1>2, <1>3, MovesTo
<1>5. Shaped(Gone, th, pl)
  BY <1>1, <1>2, <1>3 DEF Shaped, WithCall, Calling, Sending
<1>6. Writes(txn, Tops, Gone, th, pl) /\ Answering(txn, Gone, pl)
  BY <1>1, <1>2, <1>3 DEF Writes, Answering
<1>7. \A d \in Coming(pl, Lists[th]) : d \in Coming(at[th], Lists[th])
  BY <1>3 DEF Coming
<1>8. ~Free(at[th]) BY <1>2 DEF Free
<1>9. Fits(txn, Tops, Gone, Lists[th], th, pl) BY <1>1, <1>5, <1>6, <1>7, <1>8, QuietFits
<1>10. HandAt(pl) = HandAt(at[th]) BY <1>2, <1>3 DEF HandAt
<1>11. Alike(thr, thr') /\ AlikeProcs(prc, prc') BY <1>1, <1>2, AlikeHere
<1> QED BY <1>1, <1>2, <1>3, <1>4, <1>9, <1>10, <1>11, QuietStep

LEMMA ReplyFailsKeeps ==
    ASSUME Sound, NEW th \in Threads, ReplyFails(th) PROVE Sound'
<1> DEFINE pl == [at[th] EXCEPT !.pc = "fail"]
<1>1. /\ Types /\ Tidied /\ at[th] \in Place /\ Fits(txn, Tops, Gone, Lists[th], th, at[th])
      /\ Shaped(Gone, th, at[th]) /\ th \in Agents
  BY Known, OneOfAgents
<1>2. /\ at[th].pc = "unsent" /\ txn' = txn /\ thr' = Report(thr, th) /\ prc' = prc
      /\ at' = [at EXCEPT ![th] = pl]
  BY DEF ReplyFails
<1>3. /\ pl \in Place /\ pl.pc = "fail" /\ pl.cur = at[th].cur /\ pl.tgt = at[th].tgt
      /\ pl.proc = at[th].proc
  BY <1>1 DEF Place
<1> HIDE DEF pl
<1>4. Moves(th) /\ at'[th] = pl BY <1>1, <1>2, <1>3, MovesTo
<1>5. Shaped(Gone, th, pl)
  BY <1>1, <1>2, <1>3 DEF Shaped, WithCall, Calling, Sending
<1>6. ~Free(at[th]) BY <1>2 DEF Free
<1>7. Fits(txn, Tops, Gone, Lists[th], th, pl) BY <1>1, <1>3, <1>5, <1>6, PlainFits
<1>8. HandAt(pl) = HandAt(at[th]) BY <1>2, <1>3 DEF HandAt
<1>9. Alike(thr, thr) /\ AlikeProcs(prc, prc') BY <1>1, <1>2, AlikeHere
<1>10. Alike(thr, thr') BY <1>2, <1>9, AlikeReport
<1> QED BY <1>1, <1>2, <1>3, <1>4, <1>7, <1>8, <1>9, <1>10, QuietStep

LEMMA QueueReplyKeeps ==
    ASSUME Sound, NEW th \in Threads, QueueReply(th) PROVE Sound'
<1> DEFINE c == at[th].cur
           caller == at[th].tgt
           up == txn[c].fromParent
<1>1. /\ Types /\ Tidied /\ at[th] \in Place /\ Fits(txn, Tops, Gone, Lists[th], th, at[th])
      /\ Shaped(Gone, th, at[th]) /\ th \in Agents /\ Answering(txn, Gone, at[th])
      /\ Core(txn, Tops, Gone, Pendings, Answered) /\ Apart(Hands, Lists)
      /\ HoldTypes(Hands, Lists)
  BY Known, OneOfAgents, StateTypes DEF Sound
<1>2. at[th].pc = "built" /\ prc' = prc BY DEF QueueReply
<1>3. /\ c \in Calls /\ c # None /\ Hands[th] = c /\ c \in Pendings /\ c \notin Answered
      /\ ~Free(at[th])
  BY <1>1, <1>2, InHand DEF WithCall, Free
<1>4. caller \in Threads BY <1>1, <1>2 DEF Shaped, Sending, Place
<1>5. Alike(thr, thr) /\ AlikeProcs(prc, prc') BY <1>1, <1>2, AlikeHere
<1>6. CASE thr[caller].dead
  <2> DEFINE pl == [at[th] EXCEPT !.pc = "refused"]
  <2>1. /\ pl \in Place /\ pl.pc = "refused" /\ pl.cur = at[th].cur /\ pl.tgt = at[th].tgt
        /\ pl.proc = at[th].proc
    BY <1>1 DEF Place
  <2>2. at' = [at EXCEPT ![th] = pl] /\ thr' = thr /\ txn' = txn
    BY <1>6 DEF QueueReply
  <2> HIDE DEF pl
  <2>3. Moves(th) /\ at'[th] = pl BY <1>1, <2>1, <2>2, MovesTo
  <2>4. Shaped(Gone, th, pl) BY <1>1, <1>2, <2>1 DEF Shaped, WithCall, Calling, Sending
  <2>5. Writes(txn, Tops, Gone, th, pl) /\ Answering(txn, Gone, pl)
    BY <1>1, <1>2, <2>1 DEF Writes, Answering
  <2>6. \A d \in Coming(pl, Lists[th]) : d \in Coming(at[th], Lists[th])
    BY <2>1 DEF Coming
  <2>7. Fits(txn, Tops, Gone, Lists[th], th, pl) BY <1>1, <1>3, <2>4, <2>5, <2>6, QuietFits
  <2>8. HandAt(pl) = HandAt(at[th]) BY <1>2, <2>1 DEF HandAt
  <2>9. Alike(thr, thr') BY <1>5, <2>2
  <2> QED BY <1>1, <1>2, <1>5, <2>1, <2>2, <2>3, <2>7, <2>8, <2>9, QuietStep
<1>7. CASE ~thr[caller].dead
  <2>1. /\ txn[c].from = caller /\ caller \notin Gone /\ Tops[caller] = c
    BY <1>1, <1>2, <1>7, CallerOnTop
  <2>2. up \in Calls \union {None} /\ txn \in Transactions /\ txn[c] \in Transaction
    BY <1>1, <1>3, FieldTypes DEF Types
  <2> DEFINE U == Enqueue(Enqueue(thr, th, Item("complete", c)), caller, Item("reply", c))
             pl == [at[th] EXCEPT !.pc = "replied"]
             rec == [txn[c] EXCEPT !.from = None]
  <2>3. /\ thr' = [U EXCEPT ![caller].stack = up]
        /\ txn' = [txn EXCEPT ![c].from = None]
        /\ at' = [at EXCEPT ![th] = pl]
    BY <1>7 DEF QueueReply
  <2>4. Alike(thr, U)
    <3>1. /\ Item("complete", c) \in Work /\ Item("complete", c).kind # "call"
          /\ Item("reply", c) \in Work /\ Item("reply", c).kind # "call"
      BY <1>3, Items
    <3>2. Alike(thr, Enqueue(thr, th, Item("complete", c)))
      BY <1>5, <3>1, AlikeEnqueue
    <3> QED BY <1>4, <3>1, <3>2, AlikeEnqueue
  <2>5. /\ pl \in Place /\ pl.pc = "replied" /\ pl.cur = c /\ pl.tgt = caller
        /\ pl.proc = at[th].proc
    BY <1>1 DEF Place
  <2>6. txn' \in Transactions /\ Rewritten(txn, c, rec, txn')
    <3>1. rec \in Transaction BY <2>2 DEF Transaction
    <3>2. txn' = [txn EXCEPT ![c] = rec] BY <2>3
    <3> HIDE DEF rec
    <3> QED BY <1>3, <2>2, <3>1, <3>2 DEF Transactions, Rewritten
  <2> HIDE DEF U, pl, up, caller, c
  <2>7. Moves(th) /\ at'[th] = pl BY <1>1, <2>3, <2>5, MovesTo
  <2>8. /\ thr' \in LooseThreads /\ Gone' = Gone /\ Lists' = Lists /\ Tidied'
        /\ Retopped(Tops, caller, up, Tops')
    BY <1>1, <1>4, <1>5, <2>1, <2>2, <2>3, <2>4, NewTop
  <2>9. Types' BY <1>1, <1>2, <2>6, <2>7, <2>8 DEF Types, Moves
  <2>10. \A b \in Agents : Hands'[b] = Hands[b] /\ at'[b].cur = at[b].cur
    <3>1. HandAt(pl) = HandAt(at[th]) /\ pl.cur = at[th].cur
      BY <1>2, <2>5 DEF HandAt, c
    <3> QED BY <1>1, <2>7, <3>1 DEF Hands, Moves
  <2>11. Apart(Hands', Lists') BY <1>1, <2>8, <2>10 DEF Apart
  <2>12. Pendings' = Pendings BY <2>8, <2>10 DEF Pendings, HeldIn
  <2>13. Answered' = Answered \union {c}
    <3>1. ASSUME NEW b \in Agents, NEW d \in Calls
          PROVE  (at'[b].pc = "replied" /\ at'[b].cur = d)
                   <=> (at[b].pc = "replied" /\ at[b].cur = d) \/ (b = th /\ d = c)
      BY <1>2, <2>5, <2>7 DEF Moves
    <3> QED BY <1>1, <1>3, <3>1 DEF Answered
  <2>14. /\ Core(txn', Tops', Gone, Pendings, Answered \union {c})
         /\ Calm(txn, Tops, Pendings, Answered, txn', Tops', Gone, th, {c})
    <3>1. /\ c \in Pendings /\ c \notin Answered /\ txn[c].from # None
          /\ Rewritten(txn, c, [txn[c] EXCEPT !.from = None], txn')
          /\ Retopped(Tops, txn[c].from, txn[c].fromParent, Tops')
      BY <1>3, <1>4, <2>1, <2>6, <2>8, NoneIsNobody DEF c, up, caller
    <3> QED BY <1>1, <3>1, Replied
  <2>15. /\ Core(txn', Tops', Gone', Pendings', Answered')
         /\ Calm(txn, Tops, Pendings, Answered, txn', Tops', Gone', th, {c})
         /\ Gone \subseteq Gone' /\ Gone' \subseteq Gone \union {th}
    BY <2>8, <2>12, <2>13, <2>14
  <2>16. Shaped(Gone, th, pl)
    BY <1>1, <1>2, <2>5 DEF Shaped, WithCall, Calling, Sending, c, caller
  <2>17. \A d \in {c} : d = Hands[th] \/ d \notin Pendings BY <1>3 DEF c
  <2>18. \A d \in Answered : \A b \in Agents : d \notin Lists[b] BY <1>1, AnsweredHand
  <2>19. Tops'[th] = Tops[th] \/ (Tops[th] \in Pendings /\ txn[Tops[th]].from = th)
    <3>1. CASE th = caller BY <1>3, <2>1, <3>1 DEF c
    <3>2. CASE th # caller BY <2>8, <3>2 DEF Retopped
    <3> QED BY <3>1, <3>2
  <2>20. Fits(txn', Tops', Gone, Lists[th], th, pl)
    <3> DEFINE V == Lists[th]
    <3>1. pl.pc \in Plain /\ Pendings = HeldIn(Hands, Lists)
      BY <2>5 DEF Plain, Pendings
    <3>2. V \in SUBSET V /\ V = Lists[th] /\ Gone \subseteq Gone OBVIOUS
    <3>3. Fits(txn, Tops, Gone, V, th, at[th]) BY <1>1
    <3>4. ~Free(at[th]) BY <1>3
    <3> HIDE DEF V
    <3>5. Fits(txn', Tops', Gone, V, th, pl)
      BY <1>1, <2>14, <2>16, <2>17, <2>18, <2>19, <3>1, <3>2, <3>3, <3>4, PlainKeep
    <3> QED BY <3>5 DEF V
  <2>21. FitsAt(th)' BY <2>7, <2>8, <2>20 DEF FitsAt
  <2>22. \A b \in Agents : b # th => at'[b] = at[b] /\ Lists'[b] \subseteq Lists[b]
    BY <2>7, <2>8 DEF Moves
  <2> QED BY <1>1, <2>8, <2>9, <2>11, <2>15, <2>17, <2>21, <2>22, StepKeeps
<1> QED BY <1>6, <1>7

LEMMA EndReplyKeeps ==
    ASSUME Sound, NEW th \in Threads, EndReply(th) PROVE Sound'
<1> DEFINE c == at[th].cur
           caller == at[th].tgt
<1>1. /\ Types /\ Tidied /\ at[th] \in Place /\ Fits(txn, Tops, Gone, Lists[th], th, at[th])
      /\ Shaped(Gone, th, at[th]) /\ th \in Agents
      /\ Core(txn, Tops, Gone, Pendings, Answered)
  BY Known, OneOfAgents DEF Sound
<1>2. /\ at[th].pc \in {"replied", "refused"} /\ thr' = Unref(thr, caller)
      /\ prc' = UnrefProc(AfterUnref(prc, caller), at[th].proc)
  BY DEF EndReply
<1>3. /\ c \in Calls /\ Hands[th] = c /\ ~Free(at[th])
      /\ at[th].pc = "replied" => c \in Answered
  BY <1>1, <1>2, InHand DEF WithCall, Free
<1>4. caller \in Threads BY <1>1, <1>2 DEF Shaped, Sending, Place
<1>5. Alike(thr, thr) /\ AlikeProcs(prc, prc) BY <1>1, AlikeHere
<1>6. Alike(thr, thr') /\ AlikeProcs(prc, prc')
  BY <1>2, <1>4, <1>5, AlikeUnref, AlikeAfterUnref, AlikeUnrefProc
<1> HIDE DEF c, caller
<1>7. CASE at[th].pc = "replied"
  <2> DEFINE pl == Idle("user")
  <2>1. txn' = [txn EXCEPT ![c] = Freed] /\ at' = [at EXCEPT ![th] = pl]
    BY <1>7 DEF EndReply, c
  <2>2. pl \in Place /\ pl.pc = "user" /\ pl.cur = None /\ pl.tgt = None /\ pl.proc = None
    BY DEF Idle, Place
  <2> HIDE DEF pl
  <2>3. Moves(th) /\ at'[th] = pl BY <1>1, <2>1, <2>2, MovesTo
  <2>4. Rewritten(txn, c, Freed, txn') /\ txn' \in Transactions
    BY <1>1, <1>3, <2>1, FreedOne
  <2>5. Tops' = Tops /\ Gone' = Gone /\ Lists' = Lists /\ Tidied'
    BY <1>1, <1>6, AlikeTops, AlikeLists
  <2>6. txn[c].from = None BY <1>1, <1>3, <1>7 DEF Core, Marked
  <2>7. Retopped(Tops, txn[c].from, txn[c].fromParent, Tops')
    BY <1>1, <2>5, <2>6, StateTypes, NoneIsNobody DEF Retopped
  <2>8. Types' BY <1>1, <1>6, <2>3, <2>4 DEF Types, Moves, Alike, AlikeProcs
  <2>9. Heir(txn, Answered, c) = {} /\ {HandAt(pl)} \cap Calls = {}
    BY <1>3, <1>7, <2>2, NoneIsNoCall DEF Heir, HandAt
  <2>10. Shaped(Gone, th, pl)
    BY <1>1, <1>2, <2>2 DEF Shaped, WithCall, Calling, Sending
  <2>11. pl.pc \in Plain \ {"replied"} BY <2>2 DEF Plain
  <2> QED BY <1>1, <1>3, <2>3, <2>4, <2>5, <2>7, <2>8, <2>9, <2>10, <2>11, RemoveStep
<1>8. CASE at[th].pc = "refused"
  <2> DEFINE pl == [Idle("unsent") EXCEPT !.cur = c]
  <2>1. txn' = txn /\ at' = [at EXCEPT ![th] = pl]
    BY <1>8 DEF EndReply, c
  <2>2. pl \in Place /\ pl.pc = "unsent" /\ pl.cur = c /\ pl.tgt = None /\ pl.proc = None
    BY <1>3 DEF Idle, Place
  <2> HIDE DEF pl
  <2>3. Moves(th) /\ at'[th] = pl BY <1>1, <2>1, <2>2, MovesTo
  <2>4. Shaped(Gone, th, pl)
    BY <1>1, <1>2, <1>3, <2>2, NoneIsNoCall DEF Shaped, WithCall, Calling, Sending
  <2>5. Fits(txn, Tops, Gone, Lists[th], th, pl) BY <1>1, <1>3, <2>2, <2>4, PlainFits
  <2>6. HandAt(pl) = HandAt(at[th]) BY <1>8, <2>2 DEF HandAt, c
  <2> QED BY <1>1, <1>6, <1>8, <2>1, <2>2, <2>3, <2>5, <2>6, QuietStep
<1> QED BY <1>2, <1>7, <1>8

-----------------------------------------------------------------------------
(* A call fails. *)

LEMMA ResumedFits ==
    ASSUME Types, NEW a \in Agents
    PROVE  /\ Resumed(a) \in Place /\ Resumed(a).pc \in {"todo", "work", "user"}
           /\ Resumed(a).cur = None /\ Resumed(a).tgt = None /\ Resumed(a).proc = None
           /\ Shaped(Gone, a, Resumed(a))
<1> DEFINE pc == CASE a \in Procs -> "todo"
                   [] a \in Threads /\ thr[a].dead -> "work"
                   [] OTHER -> "user"
<1>1. /\ a \in Procs => pc = "todo"
      /\ a \in Gone => pc = "work"
      /\ a \in Threads \ Gone => pc = "user"
  <2>1. CASE a \in Procs BY <2>1, NoneIsNobody DEF Gone
  <2>2. CASE a \in Threads
    <3>1. a \notin Procs BY <2>2, NoneIsNobody
    <3> QED BY <2>2, <3>1 DEF Gone
  <2> QED BY <2>1, <2>2 DEF Agents
<1>2. Resumed(a) = Idle(pc) BY DEF Resumed
<1> HIDE DEF pc
<1>3. pc \in {"todo", "work", "user"} BY <1>1 DEF Agents
<1>4. /\ Idle(pc).pc = pc /\ Idle(pc).cur = None /\ Idle(pc).tgt = None
      /\ Idle(pc).proc = None
  BY IdleIs
<1>5. Idle(pc) \in Place BY <1>3 DEF Idle, Place
<1>6. Shaped(Gone, a, Idle(pc))
  BY <1>1, <1>3, <1>4, NoneIsNobody DEF Shaped, WithCall, Calling, Sending
<1> QED BY <1>2, <1>3, <1>4, <1>5, <1>6

LEMMA FailNextKeeps ==
    ASSUME Sound, NEW a \in Agents, at[a].pc \in {"fail", "failfrom"}, FailNext(a),
           txn[at[a].cur].from = None, Alike(thr, thr'), AlikeProcs(prc, prc')
    PROVE  Sound'
<1> DEFINE c == at[a].cur
           next == txn[c].fromParent
           pl == IF next = None THEN Resumed(a) ELSE [Idle("fail") EXCEPT !.cur = next]
<1>1. /\ Types /\ Tidied /\ at[a] \in Place /\ Shaped(Gone, a, at[a])
      /\ Core(txn, Tops, Gone, Pendings, Answered)
  BY Known DEF Sound
<1>2. txn' = [txn EXCEPT ![c] = Freed] /\ at' = [at EXCEPT ![a] = pl]
  BY DEF FailNext
<1>3. /\ c \in Calls /\ Hands[a] = c /\ ~Free(at[a]) /\ c \notin Answered
  BY <1>1, InHand DEF WithCall, Free
<1>4. next \in Calls \union {None} BY <1>1, <1>3, FieldTypes DEF Types
<1>5. txn[c].from = None OBVIOUS
<1>6. /\ pl \in Place /\ pl.pc \in Plain \ {"replied"} /\ pl.cur = next
      /\ Shaped(Gone, a, pl) /\ HandAt(pl) = next
  <2>1. CASE next = None
    <3>1. pl = Resumed(a) BY <2>1
    <3> HIDE DEF pl
    <3> QED BY <1>1, <2>1, <3>1, ResumedFits DEF Plain, HandAt
  <2>2. CASE next # None
    <3>1. pl = [Idle("fail") EXCEPT !.cur = next] BY <2>2
    <3> HIDE DEF pl
    <3>2. pl \in Place /\ pl.pc = "fail" /\ pl.cur = next /\ pl.tgt = None /\ pl.proc = None
      BY <1>4, <3>1 DEF Idle, Place
    <3>3. Shaped(Gone, a, pl)
      BY <1>1, <2>2, <3>2, NoneIsNobody DEF Shaped, WithCall, Calling, Sending
    <3> QED BY <3>2, <3>3 DEF Plain, HandAt
  <2> QED BY <2>1, <2>2
<1> HIDE DEF c, pl
<1>7. Moves(a) /\ at'[a] = pl BY <1>1, <1>2, <1>6, MovesTo
<1>8. Rewritten(txn, c, Freed, txn') /\ txn' \in Transactions
  BY <1>1, <1>2, <1>3, FreedOne
<1>9. Tops' = Tops /\ Gone' = Gone /\ Lists' = Lists /\ Tidied'
  BY <1>1, AlikeTops, AlikeLists
<1>10. Retopped(Tops, txn[c].from, txn[c].fromParent, Tops')
  BY <1>1, <1>5, <1>9, StateTypes, NoneIsNobody DEF Retopped
<1>11. Types' BY <1>1, <1>7, <1>8 DEF Types, Moves, Alike, AlikeProcs
<1>12. Heir(txn, Answered, c) = {HandAt(pl)} \cap Calls
  BY <1>3, <1>4, <1>5, <1>6, NoneIsNoCall DEF Heir
<1> QED BY <1>1, <1>3, <1>6, <1>7, <1>8, <1>9, <1>10, <1>11, <1>12, RemoveStep

LEMMA FailFromKeeps ==
    ASSUME Sound, NEW a \in Agents, FailFrom(a) PROVE Sound'
<1> DEFINE c == at[a].cur
           caller == txn[c].from
<1>1. /\ Types /\ Tidied /\ at[a] \in Place /\ Fits(txn, Tops, Gone, Lists[a], a, at[a])
      /\ Shaped(Gone, a, at[a])
  BY Known
<1>2. at[a].pc = "fail" /\ prc' = prc BY DEF FailFrom
<1>3. c \in Calls /\ c # None /\ ~Free(at[a]) BY <1>1, <1>2, InHand DEF WithCall, Free
<1>4. caller \in Threads \union {None} BY <1>1, <1>3, FieldTypes DEF Types
<1>5. Alike(thr, thr) /\ AlikeProcs(prc, prc') BY <1>1, <1>2, AlikeHere
<1>6. at[a].tgt = None /\ at[a].proc = None
  BY <1>1, <1>2 DEF Shaped, WithCall, Calling, Sending
<1>7. CASE caller = None
  <2>1. FailNext(a) /\ thr' = thr BY <1>7 DEF FailFrom
  <2> QED BY <1>2, <1>5, <1>7, <2>1, FailNextKeeps
<1> HIDE DEF c, caller
<1>8. CASE caller # None
  <2> DEFINE pl == [at[a] EXCEPT !.pc = "failfrom", !.tgt = caller]
  <2>1. pl \in Place /\ pl.pc = "failfrom" /\ pl.cur = c /\ pl.tgt = caller /\ pl.proc = None
    BY <1>1, <1>4, <1>6, <1>8 DEF Place, c
  <2>2. /\ at' = [at EXCEPT ![a] = pl] /\ thr' = [thr EXCEPT ![caller].ref = @ + 1]
        /\ txn' = txn
    BY <1>8 DEF FailFrom, c, caller
  <2> HIDE DEF pl
  <2>3. Moves(a) /\ at'[a] = pl BY <1>1, <2>1, <2>2, MovesTo
  <2>4. Shaped(Gone, a, pl)
    BY <1>1, <1>2, <1>3, <1>8, <2>1 DEF Shaped, WithCall, Calling, Sending, c
  <2>5. Writes(txn, Tops, Gone, a, pl) /\ Answering(txn, Gone, pl)
    BY <2>1 DEF Writes, Answering, caller
  <2>6. \A d \in Coming(pl, Lists[a]) : d \in Coming(at[a], Lists[a])
    BY <2>1 DEF Coming
  <2>7. Fits(txn, Tops, Gone, Lists[a], a, pl) BY <1>1, <1>3, <2>4, <2>5, <2>6, QuietFits
  <2>8. HandAt(pl) = HandAt(at[a]) BY <1>2, <2>1 DEF HandAt, c
  <2>9. Alike(thr, thr') BY <1>4, <1>5, <1>8, <2>2, AlikeRef
  <2> QED BY <1>1, <1>2, <1>5, <2>1, <2>2, <2>3, <2>7, <2>8, <2>9, QuietStep
<1> QED BY <1>7, <1>8 DEF c, caller

LEMMA FailAcquireKeeps ==
    ASSUME Sound, NEW a \in Agents, FailAcquire(a) PROVE Sound'
<1> DEFINE c == at[a].cur
           caller == at[a].tgt
           up == txn[c].fromParent
           T == IF Has(caller, "error") THEN thr ELSE Enqueue(thr, caller, Item("error", c))
<1>1. /\ Types /\ Tidied /\ at[a] \in Place /\ Shaped(Gone, a, at[a])
      /\ Core(txn, Tops, Gone, Pendings, Answered)
  BY Known DEF Sound
<1>2. at[a].pc = "failfrom" /\ prc' = AfterUnref(prc, caller) BY DEF FailAcquire
<1>3. c \in Calls /\ Hands[a] = c /\ ~Free(at[a]) /\ c \notin Answered
  BY <1>1, <1>2, InHand DEF WithCall, Free
<1>4. caller \in Threads BY <1>1, <1>2 DEF Shaped, Place
<1>5. Alike(thr, thr) /\ AlikeProcs(prc, prc) BY <1>1, AlikeHere
<1>6. AlikeProcs(prc, prc') BY <1>2, <1>5, AlikeAfterUnref
<1>7. CASE txn[c].from = None
  <2>1. thr' = Unref(thr, caller) /\ FailNext(a) BY <1>7 DEF FailAcquire
  <2>2. Alike(thr, thr') BY <1>4, <1>5, <2>1, AlikeUnref
  <2> QED BY <1>2, <1>6, <1>7, <2>1, <2>2, FailNextKeeps
<1>8. CASE txn[c].from # None
  <2>1. txn[c].from = caller /\ caller \notin Gone BY <1>2, <1>8, CallerOnTop
  <2>2. up \in Calls \union {None} BY <1>1, <1>3, FieldTypes DEF Types
  <2> DEFINE U == Unref(T, caller)
             pl == Resumed(a)
  <2>3. /\ thr' = [U EXCEPT ![caller].stack = up]
        /\ txn' = [txn EXCEPT ![c] = Freed] /\ at' = [at EXCEPT ![a] = pl]
    BY <1>8 DEF FailAcquire
  <2>4. Alike(thr, U)
    <3>1. Item("error", c) \in Work /\ Item("error", c).kind # "call" BY <1>3, Items
    <3>2. Alike(thr, Enqueue(thr, caller, Item("error", c)))
      BY <1>4, <1>5, <3>1, AlikeEnqueue
    <3>3. Alike(thr, T) BY <1>5, <3>2
    <3> HIDE DEF T, caller
    <3> QED BY <1>4, <3>3, AlikeUnref
  <2>5. /\ pl \in Place /\ pl.pc \in Plain \ {"replied"} /\ pl.cur = None
        /\ Shaped(Gone, a, pl) /\ HandAt(pl) = None
    BY <1>1, ResumedFits DEF Plain, HandAt
  <2> HIDE DEF U, T, pl, up, caller, c
  <2>6. Moves(a) /\ at'[a] = pl BY <1>1, <2>3, <2>5, MovesTo
  <2>7. /\ thr' \in LooseThreads /\ Gone' = Gone /\ Lists' = Lists /\ Tidied'
        /\ Retopped(Tops, caller, up, Tops')
    BY <1>1, <1>4, <1>6, <2>1, <2>2, <2>3, <2>4, NewTop
  <2>8. Rewritten(txn, c, Freed, txn') /\ txn' \in Transactions
    BY <1>1, <1>3, <2>3, FreedOne
  <2>9. Types' BY <1>1, <1>6, <2>6, <2>7, <2>8 DEF Types, Moves, AlikeProcs
  <2>10. Heir(txn, Answered, c) = {} /\ {HandAt(pl)} \cap Calls = {}
    BY <1>8, <2>5, NoneIsNoCall DEF Heir
  <2>11. Retopped(Tops, txn[c].from, txn[c].fromParent, Tops') BY <2>1, <2>7 DEF up
  <2> QED BY <1>1, <1>3, <2>5, <2>6, <2>7, <2>8, <2>9, <2>10, <2>11, RemoveStep
<1> QED BY <1>7, <1>8

-----------------------------------------------------------------------------
(* Reading. *)

LEMMA ReadBeginKeeps ==
    ASSUME Sound, NEW th \in Threads, ReadBegin(th) PROVE Sound'
<1> DEFINE pl == Idle("wait")
<1>1. /\ Types /\ Tidied /\ at[th] \in Place /\ Fits(txn, Tops, Gone, Lists[th], th, at[th])
      /\ Shaped(Gone, th, at[th]) /\ th \in Agents
  BY Known, OneOfAgents
<1>2. /\ at[th].pc = "user" /\ txn' = txn /\ thr' = thr /\ prc' = prc
      /\ at' = [at EXCEPT ![th] = pl]
  BY DEF ReadBegin
<1>3. pl \in Place /\ pl.pc = "wait" /\ pl.cur = None /\ pl.tgt = None /\ pl.proc = None
  BY DEF Idle, Place
<1> HIDE DEF pl
<1>4. Moves(th) /\ at'[th] = pl BY <1>1, <1>2, <1>3, MovesTo
<1>5. Shaped(Gone, th, pl)
  BY <1>1, <1>2, <1>3 DEF Shaped, WithCall, Calling, Sending
<1>6. Free(pl) BY <1>3 DEF Free
<1>7. Fits(txn, Tops, Gone, Lists[th], th, pl) BY <1>1, <1>3, <1>5, <1>6, PlainFits
<1>8. HandAt(pl) = HandAt(at[th])
  BY <1>1, <1>2, <1>3 DEF HandAt, Shaped, WithCall
<1>9. Alike(thr, thr') /\ AlikeProcs(prc, prc') BY <1>1, <1>2, AlikeHere
<1> QED BY <1>1, <1>2, <1>3, <1>4, <1>7, <1>8, <1>9, QuietStep

LEMMA InterruptedKeeps ==
    ASSUME Sound, NEW th \in Threads, Interrupted(th) PROVE Sound'
<1> DEFINE pl == Idle("user")
<1>1. /\ Types /\ Tidied /\ at[th] \in Place /\ Fits(txn, Tops, Gone, Lists[th], th, at[th])
      /\ Shaped(Gone, th, at[th]) /\ th \in Agents
  BY Known, OneOfAgents
<1>2. /\ at[th].pc = "wait" /\ txn' = txn /\ thr' = thr /\ prc' = prc
      /\ at' = [at EXCEPT ![th] = pl]
  BY DEF Interrupted
<1>3. pl \in Place /\ pl.pc = "user" /\ pl.cur = None /\ pl.tgt = None /\ pl.proc = None
  BY DEF Idle, Place
<1> HIDE DEF pl
<1>4. Moves(th) /\ at'[th] = pl BY <1>1, <1>2, <1>3, MovesTo
<1>5. Shaped(Gone, th, pl)
  BY <1>1, <1>2, <1>3 DEF Shaped, WithCall, Calling, Sending
<1>6. Free(pl) BY <1>3 DEF Free
<1>7. Fits(txn, Tops, Gone, Lists[th], th, pl) BY <1>1, <1>3, <1>5, <1>6, PlainFits
<1>8. HandAt(pl) = HandAt(at[th])
  BY <1>1, <1>2, <1>3 DEF HandAt, Shaped, WithCall
<1>9. Alike(thr, thr') /\ AlikeProcs(prc, prc') BY <1>1, <1>2, AlikeHere
<1> QED BY <1>1, <1>2, <1>3, <1>4, <1>7, <1>8, <1>9, QuietStep

LEMMA TodoTyped ==
    \A t \in LooseThread, s \in Seq(Work), g \in BOOLEAN :
      /\ [t EXCEPT !.todo = s, !.processTodo = g] \in LooseThread
      /\ [t EXCEPT !.todo = s] \in LooseThread
BY DEF LooseThread

\* T is thr without the first item on the list of th.
Shorter(T, th) ==
    /\ T \in LooseThreads
    /\ \A o \in Threads :
         /\ T[o].dead = thr[o].dead /\ T[o].stack = thr[o].stack
         /\ T[o].todo = IF o = th THEN Tail(thr[o].todo) ELSE thr[o].todo

LEMMA ShorterAlike ==
    ASSUME Types, Tidied, NEW th \in Threads, thr[th].todo # <<>>, NEW T, Shorter(T, th),
           Head(thr[th].todo).kind # "call"
    PROVE  Alike(thr, T)
<1>1. thr \in LooseThreads /\ thr[th].todo \in Seq(Work)
  BY DEF Types, LooseThreads, LooseThread
<1>2. \A o \in Threads : Tidy(thr[o].todo) BY DEF Tidied
<1>3. Tidy(Tail(thr[th].todo)) /\ Names(Tail(thr[th].todo)) = Names(thr[th].todo)
  BY <1>1, <1>2, NamesTail
<1> QED BY <1>1, <1>2, <1>3 DEF Shorter, Alike

LEMMA ShorterTakes ==
    ASSUME Types, Tidied, NEW th \in Threads, thr[th].todo # <<>>, NEW T, Shorter(T, th),
           NEW c, Head(thr[th].todo).kind = "call", c = Head(thr[th].todo).call,
           Alike(T, thr'), prc' = prc
    PROVE  /\ c \in Lists[th] /\ thr' \in LooseThreads /\ Tidied'
           /\ Tops' = Tops /\ Gone' = Gone /\ Lists'[th] = Lists[th] \ {c}
           /\ \A b \in Agents : b # th => Lists'[b] = Lists[b]
<1>1. thr \in LooseThreads /\ thr[th].todo \in Seq(Work)
  BY DEF Types, LooseThreads, LooseThread
<1>2. \A o \in Threads : Tidy(thr[o].todo) BY DEF Tidied
<1>3. /\ c \in Names(thr[th].todo)
      /\ Names(Tail(thr[th].todo)) = Names(thr[th].todo) \ {c}
  BY <1>1, <1>2, NamesTail
<1>4. \A o \in Threads :
         /\ T[o].dead = thr[o].dead /\ T[o].stack = thr[o].stack
         /\ T[o].todo = IF o = th THEN Tail(thr[o].todo) ELSE thr[o].todo
  BY DEF Shorter
<1>5. /\ thr' \in LooseThreads
      /\ \A o \in Threads :
           /\ thr'[o].dead = T[o].dead /\ (T[o].dead \/ thr'[o].stack = T[o].stack)
           /\ Names(thr'[o].todo) = Names(T[o].todo) /\ Tidy(thr'[o].todo)
  BY DEF Alike
<1>6. Tidied' BY <1>5 DEF Tidied
<1>7. \A o \in Threads : TopOn(thr'[o]) = TopOn(thr[o]) BY <1>4, <1>5 DEF TopOn
<1>8. Tops' = Tops /\ Gone' = Gone BY <1>4, <1>5, <1>7 DEF Tops, Gone
<1>9. \A o \in Threads : Names(thr'[o].todo) =
        IF o = th THEN Names(thr[o].todo) \ {c} ELSE Names(thr[o].todo)
  BY <1>3, <1>4, <1>5
<1>10. Lists[th] = Names(thr[th].todo) /\ Lists'[th] = Names(thr'[th].todo)
  BY OneOfAgents DEF Lists
<1>11. Lists'[th] = Lists[th] \ {c} /\ c \in Lists[th] BY <1>3, <1>9, <1>10
<1>12. \A b \in Agents : b # th => Lists'[b] = Lists[b] BY <1>9 DEF Lists
<1> QED BY <1>5, <1>6, <1>8, <1>11, <1>12

\* Where a thread that has taken a call is.
LEMMA TakesTo ==
    ASSUME Types, NEW th \in Threads, NEW c \in Calls, NEW T, T \in LooseThreads,
           \A o \in Threads : Tidy(T[o].todo), TakeCall(T, th, c)
    PROVE  /\ Moves(th) /\ Alike(T, thr')
           /\ at'[th].pc = "deliver" /\ at'[th].cur = c /\ at'[th].proc = None
           /\ HandAt(at'[th]) = c
<1> DEFINE caller == txn[c].from
           pl == [Idle("deliver") EXCEPT !.cur = c, !.tgt = caller]
<1>1. caller \in Threads \union {None} BY FieldTypes DEF Types
<1>2. /\ at' = [at EXCEPT ![th] = pl]
      /\ thr' = IF caller = None THEN T ELSE [T EXCEPT ![caller].ref = @ + 1]
  BY DEF TakeCall
<1>3. pl \in Place /\ pl.pc = "deliver" /\ pl.cur = c /\ pl.proc = None
  BY <1>1 DEF Idle, Place
<1>4. Alike(T, T) BY DEF Alike
<1> HIDE DEF pl, caller
<1>5. Moves(th) /\ at'[th] = pl BY <1>2, <1>3, OneOfAgents, MovesTo
<1>6. Alike(T, thr') BY <1>1, <1>2, <1>4, AlikeRef
<1> QED BY <1>3, <1>5, <1>6 DEF HandAt

LEMMA DeliverFits ==
    ASSUME NEW X, NEW S, NEW D, NEW L, NEW M, NEW th \in Threads, NEW pl, NEW ql,
           Fits(X, S, D, L, th, pl), pl.pc = "wait", th \notin D,
           ql.pc = "deliver", ql.cur # None, ql.proc = None,
           GivenTo(X, S, th, TRUE, Coming(ql, M))
    PROVE  Fits(X, S, D, M, th, ql)
<1>1. Shaped(D, th, ql)
  BY NoneIsNobody DEF Shaped, WithCall, Calling, Sending
<1>2. Writes(X, S, D, th, ql) /\ Answering(X, D, ql) BY DEF Writes, Answering
<1>3. th \notin Procs BY NoneIsNobody
<1>4. Free(ql) = TRUE BY DEF Free
<1> QED BY <1>1, <1>2, <1>3, <1>4 DEF Fits

\* A thread has read the first item on its list.
HeadOff(th) == [thr EXCEPT ![th].todo = Tail(@),
                           ![th].processTodo = @ /\ Len(thr[th].todo) > 1]

LEMMA HeadRead ==
    ASSUME Types, Tidied, NEW th \in Threads, thr[th].todo # <<>>
    PROVE  Shorter(HeadOff(th), th) /\ thr[th].todo \in Seq(Work) /\ Tidy(thr[th].todo)
<1>1. thr[th] \in LooseThread /\ thr \in LooseThreads BY DEF Types, LooseThreads
<1>2. thr[th].todo \in Seq(Work) /\ Tidy(thr[th].todo) BY <1>1 DEF LooseThread, Tidied
<1>3. Tail(thr[th].todo) \in Seq(Work) BY <1>2, NamesTail
<1> DEFINE s == Tail(thr[th].todo)
           g == thr[th].processTodo /\ Len(thr[th].todo) > 1
           T == HeadOff(th)
<1>4. T = [thr EXCEPT ![th].todo = s, ![th].processTodo = g] BY DEF HeadOff
<1>5. g \in BOOLEAN OBVIOUS
<1> HIDE DEF g, s, T
<1>6. [thr[th] EXCEPT !.todo = s, !.processTodo = g] \in LooseThread
  BY <1>1, <1>3, <1>5, TodoTyped, ZenonT(60) DEF s
<1>7. T \in LooseThreads BY <1>1, <1>4, <1>6 DEF LooseThreads
<1>8. \A o \in Threads :
        /\ T[o].dead = thr[o].dead /\ T[o].stack = thr[o].stack
        /\ T[o].todo = IF o = th THEN s ELSE thr[o].todo
  BY <1>1, <1>4 DEF LooseThreads, LooseThread
<1> QED BY <1>2, <1>7, <1>8 DEF Shorter, s, T

LEMMA ReadThreadKeeps ==
    ASSUME Sound, NEW th \in Threads, ReadThread(th) PROVE Sound'
<1> DEFINE item == Head(thr[th].todo)
           T == [thr EXCEPT ![th].todo = Tail(@),
                   ![th].processTodo = @ /\ Len(thr[th].todo) > 1]
<1>1. /\ Types /\ Tidied /\ at[th] \in Place /\ Fits(txn, Tops, Gone, Lists[th], th, at[th])
      /\ Shaped(Gone, th, at[th]) /\ th \in Agents
      /\ th \notin Gone =>
           GivenTo(txn, Tops, th, Free(at[th]), Coming(at[th], Lists[th]))
  BY Known, OneOfAgents
<1>2. /\ at[th].pc = "wait" /\ txn' = txn /\ prc' = prc /\ thr[th].todo # <<>>
      /\ IF item.kind = "call"
         THEN TakeCall(T, th, item.call)
         ELSE thr' = T /\ at' = [at EXCEPT ![th] = Idle("user")]
  BY DEF ReadThread
<1>3. th \notin Gone /\ at[th].cur = None BY <1>1, <1>2 DEF Shaped, WithCall
<1>4. Shorter(T, th) /\ thr[th].todo \in Seq(Work) /\ Tidy(thr[th].todo)
  BY <1>1, <1>2, HeadRead DEF HeadOff
<1> HIDE DEF T
<1>5. CASE item.kind # "call"
  <2> DEFINE pl == Idle("user")
  <2>1. thr' = T /\ at' = [at EXCEPT ![th] = pl] BY <1>2, <1>5
  <2>2. Alike(thr, thr') BY <1>1, <1>2, <1>4, <1>5, <2>1, ShorterAlike
  <2>3. pl \in Place /\ pl.pc = "user" /\ pl.cur = None /\ pl.tgt = None /\ pl.proc = None
    BY DEF Idle, Place
  <2> HIDE DEF pl
  <2>4. Moves(th) /\ at'[th] = pl BY <1>1, <2>1, <2>3, MovesTo
  <2>5. Shaped(Gone, th, pl)
    BY <1>1, <1>2, <2>3 DEF Shaped, WithCall, Calling, Sending
  <2>6. Free(pl) BY <2>3 DEF Free
  <2>7. Fits(txn, Tops, Gone, Lists[th], th, pl) BY <1>1, <2>3, <2>5, <2>6, PlainFits
  <2>8. HandAt(pl) = HandAt(at[th]) BY <1>2, <1>3, <2>3 DEF HandAt
  <2>9. AlikeProcs(prc, prc') BY <1>1, <1>2, AlikeHere
  <2> QED BY <1>1, <1>2, <2>2, <2>3, <2>4, <2>7, <2>8, <2>9, QuietStep
<1>6. CASE item.kind = "call"
  <2> DEFINE c == item.call
  <2>1. TakeCall(T, th, c) BY <1>2, <1>6
  <2>2. /\ c \in Calls /\ Tidy(Tail(thr[th].todo)) /\ c \in Names(thr[th].todo)
    BY <1>2, <1>4, <1>6, NamesTail DEF Names
  <2>3. item.kind = "call" /\ c = item.call BY <1>6
  <2>4. T \in LooseThreads /\ \A o \in Threads : Tidy(T[o].todo)
    BY <1>1, <1>4, <2>2 DEF Shorter, Tidied
  <2> HIDE DEF c
  <2>5. /\ Moves(th) /\ Alike(T, thr')
        /\ at'[th].pc = "deliver" /\ at'[th].cur = c /\ at'[th].proc = None
        /\ HandAt(at'[th]) = c
    BY <1>1, <2>1, <2>2, <2>4, TakesTo
  <2>6. /\ c \in Lists[th] /\ thr' \in LooseThreads /\ Tidied'
        /\ Tops' = Tops /\ Gone' = Gone /\ Lists'[th] = Lists[th] \ {c}
        /\ \A b \in Agents : b # th => Lists'[b] = Lists[b]
    BY <1>1, <1>2, <1>4, <2>3, <2>5, ShorterTakes
  <2>7. Types' BY <1>1, <1>2, <2>5, <2>6 DEF Types, Moves
  <2>8. Hands[th] = None BY <1>1, <1>2, <1>3 DEF Hands, HandAt
  <2>9. GivenTo(txn, Tops, th, TRUE, Coming(at'[th], Lists'[th]))
    <3>1. Coming(at'[th], Lists'[th]) = Lists[th] /\ Coming(at[th], Lists[th]) = Lists[th]
      BY <1>2, <2>2, <2>5, <2>6 DEF Coming
    <3>2. Free(at[th]) = TRUE BY <1>2 DEF Free
    <3> QED BY <1>1, <1>3, <3>1, <3>2
  <2>10. Fits(txn, Tops, Gone, Lists'[th], th, at'[th])
    <3> DEFINE M == Lists'[th]
               ql == at'[th]
    <3>1. GivenTo(txn, Tops, th, TRUE, Coming(ql, M)) BY <2>9
    <3>2. ql.pc = "deliver" /\ ql.cur # None /\ ql.proc = None
      BY <2>2, <2>5, NoneIsNoCall
    <3> HIDE DEF M, ql
    <3>3. Fits(txn, Tops, Gone, M, th, ql) BY <1>1, <1>2, <1>3, <3>1, <3>2, DeliverFits
    <3> QED BY <3>3 DEF M, ql
  <2> QED BY <1>1, <1>2, <2>5, <2>6, <2>7, <2>8, <2>10, TakeStep
<1> QED BY <1>5, <1>6

LEMMA ReadProcKeeps ==
    ASSUME Sound, NEW th \in Threads, ReadProc(th) PROVE Sound'
<1> DEFINE p == Owner[th]
           c == Head(prc[p].todo)
           T == [thr EXCEPT ![th].processTodo = FALSE]
<1>1. /\ Types /\ Tidied /\ at[th] \in Place /\ Fits(txn, Tops, Gone, Lists[th], th, at[th])
      /\ Shaped(Gone, th, at[th]) /\ th \in Agents /\ p \in Procs /\ p \in Agents
  BY Known, OneOfAgents, OwnerAssumption
<1>2. /\ at[th].pc = "wait" /\ txn' = txn /\ prc[p].todo # <<>>
      /\ thr[th].stack = None /\ thr[th].todo = <<>>
      /\ prc' = [prc EXCEPT ![p].todo = Tail(@)] /\ TakeCall(T, th, c)
  BY DEF ReadProc
<1>3. th \notin Gone /\ at[th].cur = None BY <1>1, <1>2 DEF Shaped, WithCall
<1>4. Tops[th] = None /\ Lists[th] = {}
  BY <1>1, <1>2, <1>3, TopThere, NamesNone
<1>5. ToAny(txn, p, Lists[p]) BY <1>1, Known
<1>6. /\ prc \in LooseProcesses /\ prc[p] \in LooseProcess /\ prc[p].todo \in Seq(Calls)
      /\ Distinct(prc[p].todo)
  BY <1>1 DEF Types, LooseProcesses, LooseProcess, Tidied
<1> DEFINE s == Tail(prc[p].todo)
<1>7. /\ s \in Seq(Calls) /\ c \in Calls /\ Distinct(s)
      /\ c \in Range(prc[p].todo) /\ Range(s) = Range(prc[p].todo) \ {c}
  BY <1>2, <1>6, RangeTail
<1>8. prc' = [prc EXCEPT ![p].todo = s] BY <1>2
<1> HIDE DEF c, s, T, p
<1>9. T \in LooseThreads /\ Alike(thr, T)
  <2>1. thr \in LooseThreads /\ thr[th] \in LooseThread BY <1>1 DEF Types, LooseThreads
  <2>2. [thr[th] EXCEPT !.processTodo = FALSE] \in LooseThread
    BY <2>1 DEF LooseThread
  <2>3. T \in LooseThreads BY <2>1, <2>2 DEF LooseThreads, T
  <2>4. \A o \in Threads : /\ T[o].dead = thr[o].dead /\ T[o].stack = thr[o].stack
                           /\ T[o].todo = thr[o].todo
    BY <2>1 DEF T, LooseThreads, LooseThread
  <2>5. \A o \in Threads : Tidy(thr[o].todo) BY <1>1 DEF Tidied
  <2> QED BY <2>1, <2>3, <2>4, <2>5 DEF Alike
<1>10. /\ Moves(th) /\ Alike(T, thr')
       /\ at'[th].pc = "deliver" /\ at'[th].cur = c /\ at'[th].proc = None
       /\ HandAt(at'[th]) = c
  <2>1. \A o \in Threads : Tidy(T[o].todo) BY <1>9 DEF Alike
  <2> QED BY <1>1, <1>2, <1>7, <1>9, <2>1, TakesTo
<1>11. /\ prc' \in LooseProcesses
       /\ \A q \in Procs : prc'[q].todo = IF q = p THEN s ELSE prc[q].todo
  <2>1. [prc[p] EXCEPT !.todo = s] \in LooseProcess BY <1>6, <1>7 DEF LooseProcess
  <2> QED BY <1>1, <1>6, <1>8, <2>1 DEF LooseProcesses, LooseProcess
<1>12. Alike(thr, thr') BY <1>9, <1>10 DEF Alike
<1>13. Tops' = Tops /\ Gone' = Gone
       /\ \A o \in Threads : Names(thr'[o].todo) = Names(thr[o].todo)
  BY <1>12, AlikeTops
<1>14. Lists'[p] = Lists[p] \ {c} /\ c \in Lists[p]
  <2>1. p \notin Threads BY <1>1, NoneIsNobody
  <2>2. Lists[p] = Range(prc[p].todo) /\ Lists'[p] = Range(prc'[p].todo)
    BY <1>1, <2>1 DEF Lists
  <2> QED BY <1>1, <1>7, <1>11, <2>2
<1>15. \A b \in Agents : b # p => Lists'[b] = Lists[b]
  BY <1>11, <1>13 DEF Lists, Agents
<1>16. Tidied'
  <2>1. \A o \in Threads : Tidy(thr'[o].todo) BY <1>12 DEF Alike
  <2> QED BY <1>1, <1>7, <1>11, <2>1 DEF Tidied
<1>17. Types' BY <1>1, <1>2, <1>10, <1>11, <1>12 DEF Types, Moves, Alike
<1>18. Hands[th] = None BY <1>1, <1>2, <1>3 DEF Hands, HandAt
<1>19. Lists'[th] = {} BY <1>1, <1>4, <1>15, NoneIsNobody
<1>20. GivenTo(txn, Tops, th, TRUE, Coming(at'[th], Lists'[th]))
  <2>1. Coming(at'[th], Lists'[th]) = {c} BY <1>7, <1>10, <1>19 DEF Coming
  <2>2. txn[c].toThread = None /\ (txn[c].from # None => Owner[txn[c].from] # Owner[th])
    BY <1>5, <1>14 DEF ToAny, p
  <2> QED BY <1>4, <2>1, <2>2 DEF GivenTo
<1>21. Fits(txn, Tops, Gone, Lists'[th], th, at'[th])
  <2> DEFINE M == Lists'[th]
             ql == at'[th]
  <2>1. GivenTo(txn, Tops, th, TRUE, Coming(ql, M)) BY <1>20
  <2>2. ql.pc = "deliver" /\ ql.cur # None /\ ql.proc = None
    BY <1>7, <1>10, NoneIsNoCall
  <2> HIDE DEF M, ql
  <2>3. Fits(txn, Tops, Gone, M, th, ql) BY <1>1, <1>2, <1>3, <2>1, <2>2, DeliverFits
  <2> QED BY <2>3 DEF M, ql
<1> QED BY <1>1, <1>2, <1>10, <1>13, <1>14, <1>15, <1>16, <1>17, <1>18, <1>21, TakeStep

\* A thread that has taken a call has nothing else to serve.
LEMMA DelivererKnows ==
    ASSUME Sound, NEW th \in Threads, at[th].pc = "deliver"
    PROVE  /\ th \notin Gone /\ Lists[th] = {} /\ Tops[th] = thr[th].stack
           /\ at[th].tgt \in Threads \union {None}
           /\ txn[at[th].cur].from # None => Owner[txn[at[th].cur].from] # Owner[th]
           /\ Tops[th] = None \/ WaitsFor(txn, Tops, th, at[th].cur)
<1> DEFINE c == at[th].cur
           W == Coming(at[th], Lists[th])
<1>1. /\ Types /\ at[th] \in Place /\ Shaped(Gone, th, at[th]) /\ th \in Agents
      /\ th \notin Gone => GivenTo(txn, Tops, th, Free(at[th]), W)
  BY Known, OneOfAgents
<1>2. th \notin Gone BY <1>1 DEF Shaped
<1>3. c \in Calls /\ \A b \in Agents : c \notin Lists[b] BY <1>1, InHand DEF WithCall
<1>4. c \in W /\ Lists[th] \subseteq W BY <1>3 DEF Coming
<1> HIDE DEF c, W
<1>5. /\ txn[c].from # None => Owner[txn[c].from] # Owner[th]
      /\ \A d \in W : d = c
      /\ Tops[th] = None \/ WaitsFor(txn, Tops, th, c)
  BY <1>1, <1>2, <1>4 DEF GivenTo
<1>6. Lists[th] = {} BY <1>1, <1>3, <1>4, <1>5
<1>7. Tops[th] = thr[th].stack BY <1>1, <1>2, TopThere
<1>8. at[th].tgt \in Threads \union {None} BY <1>1 DEF Place
<1> QED BY <1>2, <1>5, <1>6, <1>7, <1>8 DEF c

LEMMA DeliverFaultKeeps ==
    ASSUME Sound, NEW th \in Threads, DeliverFault(th) PROVE Sound'
<1> DEFINE c == at[th].cur
           caller == at[th].tgt
           pl == [Idle("fail") EXCEPT !.cur = c]
<1>1. /\ Types /\ Tidied /\ at[th] \in Place /\ Fits(txn, Tops, Gone, Lists[th], th, at[th])
      /\ Shaped(Gone, th, at[th]) /\ th \in Agents
  BY Known, OneOfAgents
<1>2. /\ at[th].pc = "deliver" /\ txn' = txn /\ at' = [at EXCEPT ![th] = pl]
      /\ thr' = (IF caller = None THEN thr ELSE Unref(thr, caller))
      /\ prc' = IF caller = None THEN prc ELSE AfterUnref(prc, caller)
  BY DEF DeliverFault, DropCaller
<1>3. /\ th \notin Gone /\ Lists[th] = {} /\ caller \in Threads \union {None}
      /\ c \in Calls
  BY <1>1, <1>2, DelivererKnows, InHand DEF WithCall
<1>4. /\ pl \in Place /\ pl.pc = "fail" /\ pl.cur = c /\ pl.tgt = None /\ pl.proc = None
  BY <1>3 DEF Idle, Place
<1> HIDE DEF pl, c, caller
<1>5. Moves(th) /\ at'[th] = pl BY <1>1, <1>2, <1>4, MovesTo
<1>6. Shaped(Gone, th, pl)
  BY <1>1, <1>2, <1>3, <1>4, NoneIsNoCall DEF Shaped, WithCall, Calling, Sending
<1>7. Fits(txn, Tops, Gone, Lists[th], th, pl) BY <1>1, <1>3, <1>4, <1>6, PlainFits
<1>8. HandAt(pl) = HandAt(at[th]) BY <1>2, <1>4 DEF HandAt, c
<1>9. Alike(thr, thr) /\ AlikeProcs(prc, prc) BY <1>1, AlikeHere
<1>10. Alike(thr, thr') /\ AlikeProcs(prc, prc')
  BY <1>2, <1>3, <1>9, AlikeUnref, AlikeAfterUnref
<1> QED BY <1>1, <1>2, <1>4, <1>5, <1>7, <1>8, <1>10, QuietStep

LEMMA DeliverKeeps ==
    ASSUME Sound, NEW th \in Threads, Deliver(th) PROVE Sound'
<1> DEFINE c == at[th].cur
           caller == at[th].tgt
           pl == Idle("user")
           T == IF caller = None THEN thr ELSE Unref(thr, caller)
           rec == [txn[c] EXCEPT !.toParent = Tops[th], !.toThread = th]
<1>1. /\ Types /\ Tidied /\ at[th] \in Place /\ Shaped(Gone, th, at[th]) /\ th \in Agents
      /\ Core(txn, Tops, Gone, Pendings, Answered) /\ Apart(Hands, Lists)
      /\ HoldTypes(Hands, Lists)
  BY Known, OneOfAgents, StateTypes DEF Sound
<1>2. /\ at[th].pc = "deliver" /\ at' = [at EXCEPT ![th] = pl]
      /\ txn' = [txn EXCEPT ![c].toParent = thr[th].stack, ![c].toThread = th]
      /\ thr' = [T EXCEPT ![th].stack = c]
      /\ prc' = IF caller = None THEN prc ELSE AfterUnref(prc, caller)
  BY DEF Deliver, DropCaller
<1>3. /\ th \notin Gone /\ Lists[th] = {} /\ Tops[th] = thr[th].stack
      /\ caller \in Threads \union {None}
      /\ txn[c].from # None => Owner[txn[c].from] # Owner[th]
      /\ Tops[th] = None \/ WaitsFor(txn, Tops, th, c)
  BY <1>2, DelivererKnows
<1>4. /\ c \in Calls /\ c # None /\ Hands[th] = c /\ c \in Pendings /\ c \notin Answered
  BY <1>1, <1>2, InHand DEF WithCall
<1>5. Tops[th] \in Calls \union {None} /\ txn \in Transactions /\ txn[c] \in Transaction
  BY <1>1, <1>4, StateTypes, FieldTypes DEF Types
<1>6. Alike(thr, T) /\ AlikeProcs(prc, prc')
  <2>1. Alike(thr, thr) /\ AlikeProcs(prc, prc) BY <1>1, AlikeHere
  <2>2. Alike(thr, T) BY <1>3, <2>1, AlikeUnref
  <2>3. AlikeProcs(prc, prc') BY <1>2, <2>1, AlikeAfterUnref
  <2> QED BY <2>2, <2>3
<1>7. txn' \in Transactions /\ Rewritten(txn, c, rec, txn')
  <2>1. rec \in Transaction BY <1>5 DEF Transaction
  <2>2. txn' = [txn EXCEPT ![c] = rec] BY <1>2, <1>3
  <2> HIDE DEF rec
  <2> QED BY <1>4, <1>5, <2>1, <2>2 DEF Transactions, Rewritten
<1>8. /\ pl \in Place /\ pl.pc = "user" /\ pl.cur = None /\ pl.tgt = None /\ pl.proc = None
  BY DEF Idle, Place
<1> HIDE DEF T, pl, c, caller
<1>9. Moves(th) /\ at'[th] = pl BY <1>1, <1>2, <1>8, MovesTo
<1>10. /\ thr' \in LooseThreads /\ Gone' = Gone /\ Lists' = Lists /\ Tidied'
       /\ Retopped(Tops, th, c, Tops')
  BY <1>1, <1>2, <1>3, <1>4, <1>6, NewTop
<1>11. Types' BY <1>1, <1>6, <1>7, <1>9, <1>10 DEF Types, Moves, AlikeProcs
<1>12. HoldTypes(Hands', Lists') BY <1>11, HoldsTypedNext
<1>13. Hands'[th] = None /\ \A b \in Agents : b # th => Hands'[b] = Hands[b]
  BY <1>1, <1>8, <1>9, HandsMove DEF HandAt
<1>14. /\ Apart(Hands', Lists')
       /\ HeldIn(Hands', Lists') = (HeldIn(Hands, Lists) \ {Hands[th]}) \union ({None} \cap Calls)
  <2>1. \A b \in Agents : (b # th => Hands'[b] = Hands[b]) /\ Lists'[b] = Lists[b]
    BY <1>10, <1>13
  <2>2. None \in Calls \union {None} /\ None \notin HeldIn(Hands, Lists)
    BY NoneIsNoCall DEF HeldIn
  <2> QED BY <1>1, <1>12, <1>13, <2>1, <2>2, HandTurns
<1>15. Pendings' = Pendings \ {c} BY <1>4, <1>14, NoneIsNoCall DEF Pendings
<1>16. Answered' = Answered BY <1>1, <1>2, <1>8, <1>9, AnsweredSame
<1>17. /\ Core(txn', Tops', Gone, Pendings', Answered)
       /\ Calm(txn, Tops, Pendings, Answered, txn', Tops', Gone, th, {c})
  BY <1>1, <1>3, <1>4, <1>7, <1>10, <1>15, Delivered
<1>18. Shaped(Gone, th, pl)
  BY <1>1, <1>2, <1>3, <1>8, NoneIsNobody DEF Shaped, WithCall, Calling, Sending
<1>19. Writes(txn', Tops', Gone, th, pl) /\ Answering(txn', Gone, pl)
  BY <1>8 DEF Writes, Answering
<1>20. Fits(txn', Tops', Gone, {}, th, pl) BY <1>8, <1>18, <1>19, EmptyFits
<1>21. FitsAt(th)' BY <1>3, <1>9, <1>10, <1>20 DEF FitsAt
<1>22. \A b \in Agents : b # th => at'[b] = at[b] /\ Lists'[b] \subseteq Lists[b]
  BY <1>9, <1>10 DEF Moves
<1>23. \A d \in {c} : d = Hands[th] \/ d \notin Pendings BY <1>4
<1>24. /\ Core(txn', Tops', Gone', Pendings', Answered')
       /\ Calm(txn, Tops, Pendings, Answered, txn', Tops', Gone', th, {c})
       /\ Gone \subseteq Gone' /\ Gone' \subseteq Gone \union {th}
  BY <1>10, <1>16, <1>17
<1> QED BY <1>1, <1>10, <1>11, <1>14, <1>21, <1>22, <1>23, <1>24, StepKeeps

-----------------------------------------------------------------------------
(* Threads and processes are released. *)

\* A released thread relies on no call.
LEMMA ReleasedFits ==
    ASSUME NEW X, NEW S, NEW D, NEW L, NEW th \in Threads, th \in D, NEW pl,
           Shaped(D, th, pl), pl.pc \in {"work", "fail", "gone"}
    PROVE  Fits(X, S, D, L, th, pl)
BY NoneIsNobody DEF Fits, Writes, Answering

LEMMA DeadTyped ==
    \A t \in LooseThread, i \in Int : [t EXCEPT !.dead = TRUE, !.ref = i] \in LooseThread
BY DEF LooseThread

LEMMA ReleaseThreadKeeps ==
    ASSUME Sound, NEW th \in Threads, at[th].pc = "user", ReleaseThread(th) PROVE Sound'
<1> DEFINE t == Tops[th]
           C == ServedTopOf(txn, Tops, th)
           v == IF C = {} THEN None ELSE t
           pl == IF FailsTop(th) THEN [Idle("fail") EXCEPT !.cur = thr[th].stack]
                                 ELSE Idle("work")
           O == On(txn, Pendings, th)
<1>1. /\ Types /\ Tidied /\ at[th] \in Place /\ Shaped(Gone, th, at[th]) /\ th \in Agents
      /\ Core(txn, Tops, Gone, Pendings, Answered) /\ Apart(Hands, Lists)
      /\ HoldTypes(Hands, Lists) /\ Owner[th] \in Procs
  BY Known, OneOfAgents, StateTypes, OwnerAssumption DEF Sound
<1>2. /\ thr' = [thr EXCEPT ![th].dead = TRUE, ![th].ref = @ + 1]
      /\ prc' = [prc EXCEPT ![Owner[th]].ref = @ + 1]
      /\ txn' = [c \in Calls |->
           CASE c \in Frames(th) /\ txn[c].toThread = th ->
                  [txn[c] EXCEPT !.toThread = None]
             [] c \in Frames(th) /\ txn[c].toThread # th ->
                  [txn[c] EXCEPT !.from = None]
             [] OTHER -> txn[c]]
      /\ at' = [at EXCEPT ![th] = pl]
  BY DEF ReleaseThread
<1>3. th \notin Gone /\ at[th].cur = None BY <1>1 DEF Shaped, WithCall
<1>4. t = thr[th].stack /\ t \in Calls \union {None} BY <1>1, <1>3, TopThere, StateTypes
<1>5. Frames(th) = O
  <2>1. txn \in Transactions /\ Falling(txn) /\ Stacked(txn, Tops, Pendings, th)
    BY <1>1 DEF Types, Core
  <2> QED BY <1>4, <2>1, FramesAre
<1> HIDE DEF O
<1>6. \A c \in Calls :
        txn'[c] = IF c \notin O THEN txn[c]
                  ELSE IF txn[c].toThread = th THEN [txn[c] EXCEPT !.toThread = None]
                  ELSE [txn[c] EXCEPT !.from = None]
  BY <1>2, <1>5
<1>7. txn' \in Transactions
  <2>1. DOMAIN txn' = Calls /\ txn' = [c \in Calls |-> txn'[c]] BY <1>2
  <2>2. ASSUME NEW c \in Calls PROVE txn'[c] \in Transaction
    <3>1. txn[c] \in Transaction BY <1>1 DEF Types, Transactions
    <3>2. /\ [txn[c] EXCEPT !.toThread = None] \in Transaction
          /\ [txn[c] EXCEPT !.from = None] \in Transaction
      BY <3>1 DEF Transaction
    <3> QED BY <1>6, <3>1, <3>2
  <2> QED BY <2>1, <2>2 DEF Transactions
<1>0. C = IF t # None /\ txn[t].toThread = th THEN {t} ELSE {} BY DEF ServedTopOf
<1>8. Serving(th) <=> C # {} BY <1>0, <1>4 DEF Serving
<1>9. v \in Calls \union {None} /\ v \notin Pendings /\ {v} \cap Calls = C
  <2>1. CASE C = {} BY <1>1, <2>1, NoneIsNoCall DEF Pendings, HeldIn
  <2>2. CASE C # {}
    <3>1. t # None /\ txn[t].toThread = th /\ v = t BY <1>0, <2>2
    <3>2. t \in Calls /\ t \notin Pendings BY <1>1, <3>1, ServedTop
    <3> QED BY <1>0, <2>2, <3>1, <3>2
  <2> QED BY <2>1, <2>2
<1>10. /\ pl \in Place /\ pl.cur = v /\ pl.tgt = None /\ pl.proc = None
       /\ pl.pc = IF v = None THEN "work" ELSE "fail"
  <2>1. CASE C = {}
    <3>1. pl = Idle("work") /\ v = None BY <1>8, <2>1 DEF FailsTop
    <3> HIDE DEF pl, v
    <3> QED BY <3>1 DEF Idle, Place
  <2>2. CASE C # {}
    <3>1. pl = [Idle("fail") EXCEPT !.cur = t] /\ v = t /\ t # None
      BY <1>0, <1>4, <1>8, <2>2 DEF FailsTop
    <3> HIDE DEF pl, v, t
    <3> QED BY <1>4, <3>1 DEF Idle, Place
  <2> QED BY <2>1, <2>2
<1>11. C = ServedTopOf(txn, Tops, th) OBVIOUS
<1> HIDE DEF pl, v, C, t
<1>12. Moves(th) /\ at'[th] = pl BY <1>1, <1>2, <1>10, MovesTo
<1>13. /\ thr' \in LooseThreads
       /\ \A o \in Threads : /\ thr'[o].dead = (o = th \/ thr[o].dead)
                             /\ thr'[o].stack = thr[o].stack
                             /\ thr'[o].todo = thr[o].todo
  <2>1. thr \in LooseThreads /\ thr[th] \in LooseThread BY <1>1 DEF Types, LooseThreads
  <2> DEFINE r == thr[th].ref + 1
  <2>0. r \in Int BY <2>1 DEF LooseThread
  <2>00. thr' = [thr EXCEPT ![th].dead = TRUE, ![th].ref = r] BY <1>2
  <2> HIDE DEF r
  <2>2. [thr[th] EXCEPT !.dead = TRUE, !.ref = r] \in LooseThread
    BY <2>0, <2>1, DeadTyped
  <2>3. thr' \in LooseThreads BY <2>00, <2>1, <2>2 DEF LooseThreads
  <2>4. \A o \in Threads : /\ o # th => thr'[o] = thr[o]
                           /\ thr'[o].stack = thr[o].stack /\ thr'[o].todo = thr[o].todo
    BY <1>2, <2>1 DEF LooseThreads, LooseThread
  <2>5. thr'[th].dead = TRUE BY <1>2, <2>1 DEF LooseThreads, LooseThread
  <2>6. \A o \in Threads : thr[o].dead \in BOOLEAN BY <2>1 DEF LooseThreads, LooseThread
  <2> QED BY <2>3, <2>4, <2>5, <2>6
<1>14. prc' \in LooseProcesses /\ \A p \in Procs : prc'[p].todo = prc[p].todo
  <2>1. AlikeProcs(prc, prc) BY <1>1, AlikeHere
  <2>2. AlikeProcs(prc, prc') BY <1>2, <2>1, AlikeProcRef
  <2> QED BY <2>2 DEF AlikeProcs
<1>15. Gone' = Gone \union {th} BY <1>13 DEF Gone
<1>16. Retopped(Tops, th, None, Tops')
  <2>1. \A o \in Threads : TopOn(thr'[o]) = IF o = th THEN None ELSE TopOn(thr[o])
    BY <1>13 DEF TopOn
  <2>2. \A o \in Threads : TopOn(thr'[o]) \in Calls \union {None}
    BY <1>13 DEF LooseThreads, LooseThread, TopOn
  <2> QED BY <2>1, <2>2 DEF Retopped, Tops
<1>17. Lists' = Lists /\ Tidied'
  BY <1>1, <1>13, <1>14 DEF Lists, Tidied, Agents
<1>18. Types' BY <1>7, <1>12, <1>13, <1>14 DEF Types, Moves
<1>19. HoldTypes(Hands', Lists') BY <1>18, HoldsTypedNext
<1>20. Hands[th] = None /\ Hands'[th] = v
       /\ \A b \in Agents : b # th => Hands'[b] = Hands[b]
  <2>1. HandAt(pl) = v /\ HandAt(at[th]) = None BY <1>3, <1>10 DEF HandAt
  <2> QED BY <1>1, <1>12, <2>1, HandsMove DEF Hands
<1>21. /\ Apart(Hands', Lists')
       /\ HeldIn(Hands', Lists') = (HeldIn(Hands, Lists) \ {Hands[th]}) \union ({v} \cap Calls)
  <2>1. \A b \in Agents : (b # th => Hands'[b] = Hands[b]) /\ Lists'[b] = Lists[b]
    BY <1>17, <1>20
  <2>2. v = Hands[th] \/ v \notin HeldIn(Hands, Lists) BY <1>9 DEF Pendings
  <2> QED BY <1>1, <1>9, <1>19, <1>20, <2>1, <2>2, HandTurns
<1>22. Pendings' = Pendings \union C
  <2>1. None \notin HeldIn(Hands, Lists) BY NoneIsNoCall DEF HeldIn
  <2> QED BY <1>9, <1>20, <1>21, <2>1 DEF Pendings
<1>23. Answered' = Answered
  <2>1. at[th].pc # "replied" /\ pl.pc # "replied" BY <1>10
  <2> QED BY <1>1, <1>12, <2>1, AnsweredSame
<1>24. /\ Core(txn', Tops', Gone', Pendings', Answered)
       /\ Calm(txn, Tops, Pendings, Answered, txn', Tops', Gone', th, C)
  <2>1. CutFrom(txn, Pendings, th, txn') BY <1>6 DEF CutFrom, O
  <2>2. Core(txn, Tops, Gone, Pendings, Answered) BY <1>1
  <2> QED BY <1>3, <1>7, <1>11, <1>15, <1>16, <1>22, <2>1, <2>2, CutLoose
<1>25. Shaped(Gone', th, pl)
  <2>1. th \in Gone' /\ th \notin Procs BY <1>15, NoneIsNobody
  <2> QED BY <1>9, <1>10, <2>1 DEF Shaped, WithCall, Calling, Sending
<1>26. Fits(txn', Tops', Gone', Lists'[th], th, pl)
  BY <1>10, <1>15, <1>25, ReleasedFits
<1>27. FitsAt(th)' BY <1>12, <1>26 DEF FitsAt
<1>28. \A b \in Agents : b # th => at'[b] = at[b] /\ Lists'[b] \subseteq Lists[b]
  BY <1>12, <1>17 DEF Moves
<1>29. \A d \in C : d = Hands[th] \/ d \notin Pendings BY <1>9
<1>30. /\ Core(txn', Tops', Gone', Pendings', Answered')
       /\ Gone \subseteq Gone' /\ Gone' \subseteq Gone \union {th}
  BY <1>15, <1>23, <1>24
<1> QED BY <1>1, <1>17, <1>18, <1>21, <1>24, <1>27, <1>28, <1>29, <1>30, StepKeeps

LEMMA ReleaseWorkKeeps ==
    ASSUME Sound, NEW th \in Threads, ReleaseWork(th) PROVE Sound'
<1> DEFINE item == Head(thr[th].todo)
           T == [thr EXCEPT ![th].todo = Tail(@)]
<1>1. /\ Types /\ Tidied /\ at[th] \in Place /\ Fits(txn, Tops, Gone, Lists[th], th, at[th])
      /\ Shaped(Gone, th, at[th]) /\ th \in Agents
  BY Known, OneOfAgents
<1>2. /\ at[th].pc = "work" /\ txn' = txn /\ prc' = prc /\ thr[th].todo # <<>>
      /\ thr' = T
      /\ at' = IF item.kind = "call"
               THEN [at EXCEPT ![th] = [Idle("fail") EXCEPT !.cur = item.call]] ELSE at
  BY DEF ReleaseWork
<1>3. th \in Gone /\ at[th].cur = None BY <1>1, <1>2 DEF Shaped, WithCall
<1>4. Shorter(T, th) /\ thr[th].todo \in Seq(Work) /\ Tidy(thr[th].todo)
  <2>1. thr[th] \in LooseThread /\ thr \in LooseThreads BY <1>1 DEF Types, LooseThreads
  <2>2. thr[th].todo \in Seq(Work) /\ Tidy(thr[th].todo)
    BY <1>1, <2>1 DEF LooseThread, Tidied
  <2>3. Tail(thr[th].todo) \in Seq(Work) BY <1>2, <2>2, NamesTail
  <2> DEFINE s == Tail(thr[th].todo)
  <2>4. T = [thr EXCEPT ![th].todo = s] OBVIOUS
  <2> HIDE DEF s, T
  <2>5. [thr[th] EXCEPT !.todo = s] \in LooseThread
    BY <2>1, <2>3, TodoTyped DEF s
  <2>6. T \in LooseThreads BY <2>1, <2>4, <2>5 DEF LooseThreads
  <2>7. \A o \in Threads :
          /\ T[o].dead = thr[o].dead /\ T[o].stack = thr[o].stack
          /\ T[o].todo = IF o = th THEN s ELSE thr[o].todo
    BY <2>1, <2>4 DEF LooseThreads, LooseThread
  <2> QED BY <2>2, <2>6, <2>7 DEF Shorter, s
<1> HIDE DEF T
<1>5. CASE item.kind # "call"
  <2>1. at' = at BY <1>2, <1>5
  <2>2. Alike(thr, thr') BY <1>1, <1>2, <1>4, <1>5, ShorterAlike
  <2>3. Moves(th) /\ at'[th] = at[th] BY <1>1, <2>1, StaysPut
  <2>4. AlikeProcs(prc, prc') BY <1>1, <1>2, AlikeHere
  <2> QED BY <1>1, <1>2, <2>2, <2>3, <2>4, QuietStep
<1>6. CASE item.kind = "call"
  <2> DEFINE c == item.call
             pl == [Idle("fail") EXCEPT !.cur = c]
  <2>1. at' = [at EXCEPT ![th] = pl] BY <1>2, <1>6
  <2>2. /\ c \in Calls /\ Tidy(Tail(thr[th].todo)) BY <1>2, <1>4, <1>6, NamesTail
  <2>3. item.kind = "call" /\ c = item.call BY <1>6
  <2>4. T \in LooseThreads /\ \A o \in Threads : Tidy(T[o].todo)
    BY <1>1, <1>4, <2>2 DEF Shorter, Tidied
  <2>5. Alike(T, thr') BY <1>2, <2>4 DEF Alike
  <2>6. pl \in Place /\ pl.pc = "fail" /\ pl.cur = c /\ pl.tgt = None /\ pl.proc = None
    BY <2>2 DEF Idle, Place
  <2> HIDE DEF c, pl
  <2>7. Moves(th) /\ at'[th] = pl BY <1>1, <2>1, <2>6, MovesTo
  <2>8. /\ c \in Lists[th] /\ thr' \in LooseThreads /\ Tidied'
        /\ Tops' = Tops /\ Gone' = Gone /\ Lists'[th] = Lists[th] \ {c}
        /\ \A b \in Agents : b # th => Lists'[b] = Lists[b]
    BY <1>1, <1>2, <1>4, <2>3, <2>5, ShorterTakes
  <2>9. Types' BY <1>1, <1>2, <2>7, <2>8 DEF Types, Moves
  <2>10. Hands[th] = None /\ HandAt(pl) = c BY <1>1, <1>2, <1>3, <2>6 DEF Hands, HandAt
  <2>11. Shaped(Gone, th, pl)
    BY <1>1, <1>2, <1>3, <2>2, <2>6, NoneIsNoCall DEF Shaped, WithCall, Calling, Sending
  <2>12. Fits(txn, Tops, Gone, Lists'[th], th, pl) BY <1>3, <2>6, <2>11, ReleasedFits
  <2> QED BY <1>1, <1>2, <2>6, <2>7, <2>8, <2>9, <2>10, <2>12, TakeStep
<1> QED BY <1>5, <1>6

LEMMA ThreadReleasedKeeps ==
    ASSUME Sound, NEW th \in Threads, ThreadReleased(th) PROVE Sound'
<1> DEFINE pl == Idle("gone")
<1>1. /\ Types /\ Tidied /\ at[th] \in Place /\ Fits(txn, Tops, Gone, Lists[th], th, at[th])
      /\ Shaped(Gone, th, at[th]) /\ th \in Agents
  BY Known, OneOfAgents
<1>2. /\ at[th].pc = "work" /\ txn' = txn /\ thr' = Unref(thr, th)
      /\ prc' = AfterUnref(prc, th) /\ at' = [at EXCEPT ![th] = pl]
  BY DEF ThreadReleased
<1>3. pl \in Place /\ pl.pc = "gone" /\ pl.cur = None /\ pl.tgt = None /\ pl.proc = None
  BY DEF Idle, Place
<1> HIDE DEF pl
<1>4. Moves(th) /\ at'[th] = pl BY <1>1, <1>2, <1>3, MovesTo
<1>5. Shaped(Gone, th, pl)
  BY <1>1, <1>2, <1>3 DEF Shaped, WithCall, Calling, Sending
<1>6. ~Free(at[th]) BY <1>2 DEF Free
<1>7. Fits(txn, Tops, Gone, Lists[th], th, pl) BY <1>1, <1>3, <1>5, <1>6, PlainFits
<1>8. HandAt(pl) = HandAt(at[th])
  BY <1>1, <1>2, <1>3 DEF HandAt, Shaped, WithCall
<1>9. Alike(thr, thr) /\ AlikeProcs(prc, prc) BY <1>1, AlikeHere
<1>10. Alike(thr, thr') /\ AlikeProcs(prc, prc')
  BY <1>2, <1>9, AlikeUnref, AlikeAfterUnref
<1> QED BY <1>1, <1>2, <1>3, <1>4, <1>7, <1>8, <1>10, QuietStep

LEMMA ProcTyped ==
    /\ \A q \in LooseProcess, i \in Int :
         [q EXCEPT !.dead = TRUE, !.ref = i] \in LooseProcess
    /\ \A q \in LooseProcess, s \in Seq(Calls) : [q EXCEPT !.todo = s] \in LooseProcess
BY DEF LooseProcess

\* The release of a process begins: it has nothing in hand.
LEMMA ProcessKnows ==
    ASSUME Sound, NEW p \in Procs, at[p].pc \in {"off", "threads", "todo", "gone"}
    PROVE  at[p].cur = None /\ at[p].tgt = None /\ at[p].proc = None /\ Hands[p] = None
<1>1. Shaped(Gone, p, at[p]) /\ p \in Agents BY Known, OneOfAgents
<1>2. at[p].cur = None /\ at[p].tgt = None /\ at[p].proc = None
  BY <1>1 DEF Shaped, WithCall, Calling, Sending
<1> QED BY <1>1, <1>2 DEF Hands, HandAt

LEMMA ProcessShaped ==
    ASSUME NEW D, NEW p \in Procs, NEW pl,
           pl.pc \in {"off", "threads", "todo", "gone"},
           pl.cur = None, pl.tgt = None, pl.proc = None
    PROVE  Shaped(D, p, pl)
BY NoneIsNobody DEF Shaped, WithCall, Calling, Sending

LEMMA ReleaseProcKeeps ==
    ASSUME Sound, NEW p \in Procs, ReleaseProc(p) PROVE Sound'
<1>1. /\ Types /\ Tidied /\ Core(txn, Tops, Gone, Pendings, Answered) /\ Apart(Hands, Lists)
      /\ p \in Agents /\ at \in Places
  BY OneOfAgents DEF Sound, Types
<1>2. /\ at[p].pc = "off" /\ thr' = thr /\ txn' = txn
      /\ prc' = [prc EXCEPT ![p].dead = TRUE, ![p].ref = @ + 1]
      /\ at' = [a \in DOMAIN at |->
           CASE a = p -> Idle("threads")
             [] a \in Threads /\ Owner[a] = p /\ at[a].pc = "wait" -> Idle("user")
             [] OTHER -> at[a]]
  BY DEF ReleaseProc
<1>3. \A b \in Agents : \/ b = p /\ at'[b] = Idle("threads")
                        \/ b \in Threads /\ at[b].pc = "wait" /\ at'[b] = Idle("user")
                        \/ b # p /\ at'[b] = at[b]
  BY <1>1, <1>2 DEF Places
<1>4. at' \in Places
  <2>1. Idle("threads") \in Place /\ Idle("user") \in Place BY DEF Idle, Place
  <2>2. \A b \in Agents : at'[b] \in Place BY <1>1, <1>3, <2>1 DEF Places
  <2>3. DOMAIN at' = Agents /\ at' = [b \in DOMAIN at' |-> at'[b]]
    BY <1>1, <1>2 DEF Places
  <2> QED BY <2>2, <2>3 DEF Places
<1>5. prc' \in LooseProcesses /\ \A q \in Procs : prc'[q].todo = prc[q].todo
  <2>1. prc \in LooseProcesses /\ prc[p] \in LooseProcess BY <1>1 DEF Types, LooseProcesses
  <2> DEFINE r == prc[p].ref + 1
  <2>2. r \in Int BY <2>1 DEF LooseProcess
  <2>3. prc' = [prc EXCEPT ![p].dead = TRUE, ![p].ref = r] BY <1>2
  <2> HIDE DEF r
  <2>4. [prc[p] EXCEPT !.dead = TRUE, !.ref = r] \in LooseProcess
    BY <2>1, <2>2, ProcTyped
  <2>5. prc' \in LooseProcesses BY <2>1, <2>3, <2>4 DEF LooseProcesses
  <2>6. \A q \in Procs : prc'[q].todo = prc[q].todo
    BY <2>1, <2>3 DEF LooseProcesses, LooseProcess
  <2> QED BY <2>5, <2>6
<1>6. Types' BY <1>1, <1>2, <1>4, <1>5 DEF Types
<1>7. Tops' = Tops /\ Gone' = Gone BY <1>2 DEF Tops, Gone
<1>8. Lists' = Lists /\ Tidied'
  <2>1. Tidied' BY <1>1, <1>2, <1>5 DEF Tidied
  <2>2. \A b \in Agents : b \notin Threads => prc'[b].todo = prc[b].todo
    BY <1>5 DEF Agents
  <2>3. \A b \in Agents :
          (IF b \in Threads THEN Names(thr'[b].todo) ELSE Range(prc'[b].todo))
            = (IF b \in Threads THEN Names(thr[b].todo) ELSE Range(prc[b].todo))
    <3>1. thr' = thr BY <1>2
    <3> QED BY <2>2, <3>1
  <2>4. Lists' = Lists BY <2>3 DEF Lists
  <2> QED BY <2>1, <2>4
<1>9. \A b \in Agents : (at'[b].cur = at[b].cur /\ at'[b].pc # "done" /\ at[b].pc # "done")
                        \/ at'[b] = at[b]
  <2>1. at[p].cur = None BY <1>2, ProcessKnows
  <2>2. \A b \in Threads : at[b].pc = "wait" => at[b].cur = None
    <3> SUFFICES ASSUME NEW b \in Threads, at[b].pc = "wait" PROVE at[b].cur = None
      OBVIOUS
    <3>1. Shaped(Gone, b, at[b]) BY Known, OneOfAgents
    <3> QED BY <3>1 DEF Shaped, WithCall
  <2> QED BY <1>2, <1>3, <2>1, <2>2, IdleIs
<1>10. Hands' = Hands
  <2>1. \A b \in Agents : HandAt(at'[b]) = HandAt(at[b]) BY <1>9 DEF HandAt
  <2> QED BY <2>1 DEF Hands
<1>11. Pendings' = Pendings BY <1>8, <1>10 DEF Pendings
<1>12. Answered' = Answered
  <2>1. \A b \in Agents : at'[b] = at[b] \/ (at'[b].pc # "replied" /\ at[b].pc # "replied")
    BY <1>2, <1>3, IdleIs
  <2> QED BY <2>1 DEF Answered
<1>13. ASSUME NEW b \in Agents PROVE FitsAt(b)'
  <2>1. Fits(txn, Tops, Gone, Lists[b], b, at[b]) /\ Shaped(Gone, b, at[b]) BY Known
  <2>2. Fits(txn, Tops, Gone, Lists[b], b, at'[b])
    <3>1. CASE b = p /\ at'[b] = Idle("threads")
      <4> DEFINE ql == at'[b]
      <4>1. ql.pc = "threads" /\ ql.cur = None /\ ql.tgt = None /\ ql.proc = None
        BY <3>1, IdleIs
      <4> HIDE DEF ql
      <4>2. Shaped(Gone, b, ql) BY <3>1, <4>1, ProcessShaped
      <4>3. ~Free(at[b]) BY <1>2, <3>1 DEF Free
      <4>4. Fits(txn, Tops, Gone, Lists[b], b, ql) BY <2>1, <4>1, <4>2, <4>3, PlainFits
      <4> QED BY <4>4 DEF ql
    <3>2. CASE b \in Threads /\ at[b].pc = "wait" /\ at'[b] = Idle("user")
      <4> DEFINE ql == at'[b]
      <4>1. ql.pc = "user" /\ ql.cur = None /\ ql.tgt = None /\ ql.proc = None
        BY <3>2, IdleIs
      <4> HIDE DEF ql
      <4>2. Shaped(Gone, b, ql)
        BY <2>1, <3>2, <4>1 DEF Shaped, WithCall, Calling, Sending
      <4>3. Free(ql) BY <4>1 DEF Free
      <4>4. Fits(txn, Tops, Gone, Lists[b], b, ql) BY <2>1, <4>1, <4>2, <4>3, PlainFits
      <4> QED BY <4>4 DEF ql
    <3>3. CASE at'[b] = at[b] BY <2>1, <3>3
    <3> QED BY <1>3, <3>1, <3>2, <3>3
  <2> QED BY <1>2, <1>7, <1>8, <2>2 DEF FitsAt
<1>14. Core(txn', Tops', Gone', Pendings', Answered') /\ Apart(Hands', Lists')
  BY <1>1, <1>2, <1>7, <1>8, <1>10, <1>11, <1>12
<1> QED BY <1>6, <1>8, <1>13, <1>14 DEF Sound

LEMMA ReleaseNodeKeeps ==
    ASSUME Sound, NEW p \in Procs, ReleaseNode(p) PROVE Sound'
<1> DEFINE pl == Idle("todo")
<1>1. /\ Types /\ Tidied /\ at[p] \in Place /\ Fits(txn, Tops, Gone, Lists[p], p, at[p])
      /\ p \in Agents
  BY Known, OneOfAgents
<1>2. /\ at[p].pc = "threads" /\ txn' = txn /\ thr' = thr
      /\ prc' = [prc EXCEPT ![p].node = FALSE] /\ at' = [at EXCEPT ![p] = pl]
  BY DEF ReleaseNode
<1>3. pl \in Place /\ pl.pc = "todo" /\ pl.cur = None /\ pl.tgt = None /\ pl.proc = None
  BY DEF Idle, Place
<1> HIDE DEF pl
<1>4. Moves(p) /\ at'[p] = pl BY <1>1, <1>2, <1>3, MovesTo
<1>5. Shaped(Gone, p, pl) BY <1>3, ProcessShaped
<1>6. ~Free(at[p]) BY <1>2 DEF Free
<1>7. Fits(txn, Tops, Gone, Lists[p], p, pl) BY <1>1, <1>3, <1>5, <1>6, PlainFits
<1>8. HandAt(pl) = HandAt(at[p]) BY <1>2, <1>3, ProcessKnows DEF HandAt
<1>9. Alike(thr, thr') /\ AlikeProcs(prc, prc')
  <2>1. prc \in LooseProcesses /\ prc[p] \in LooseProcess BY <1>1 DEF Types, LooseProcesses
  <2>2. [prc[p] EXCEPT !.node = FALSE] \in LooseProcess BY <2>1 DEF LooseProcess
  <2>3. prc' \in LooseProcesses BY <1>2, <2>1, <2>2 DEF LooseProcesses
  <2>4. \A q \in Procs : prc'[q].todo = prc[q].todo
    BY <1>2, <2>1 DEF LooseProcesses, LooseProcess
  <2>5. Alike(thr, thr') BY <1>1, <1>2, AlikeHere
  <2> QED BY <2>1, <2>3, <2>4, <2>5 DEF AlikeProcs
<1> QED BY <1>1, <1>2, <1>3, <1>4, <1>7, <1>8, <1>9, QuietStep

LEMMA ReleaseTodoKeeps ==
    ASSUME Sound, NEW p \in Procs, ReleaseTodo(p) PROVE Sound'
<1> DEFINE c == Head(prc[p].todo)
           s == Tail(prc[p].todo)
           pl == [Idle("fail") EXCEPT !.cur = c]
<1>1. /\ Types /\ Tidied /\ at[p] \in Place /\ Fits(txn, Tops, Gone, Lists[p], p, at[p])
      /\ p \in Agents /\ ToAny(txn, p, Lists[p])
  BY Known, OneOfAgents
<1>2. /\ at[p].pc = "todo" /\ prc[p].todo # <<>> /\ txn' = txn /\ thr' = thr
      /\ prc' = [prc EXCEPT ![p].todo = s] /\ at' = [at EXCEPT ![p] = pl]
  BY DEF ReleaseTodo
<1>3. /\ prc \in LooseProcesses /\ prc[p] \in LooseProcess /\ prc[p].todo \in Seq(Calls)
      /\ Distinct(prc[p].todo)
  BY <1>1 DEF Types, LooseProcesses, LooseProcess, Tidied
<1>4. /\ s \in Seq(Calls) /\ c \in Calls /\ Distinct(s)
      /\ c \in Range(prc[p].todo) /\ Range(s) = Range(prc[p].todo) \ {c}
  BY <1>2, <1>3, RangeTail
<1> HIDE DEF c, s
<1>5. pl \in Place /\ pl.pc = "fail" /\ pl.cur = c /\ pl.tgt = None /\ pl.proc = None
  BY <1>4 DEF Idle, Place
<1> HIDE DEF pl
<1>6. Moves(p) /\ at'[p] = pl BY <1>1, <1>2, <1>5, MovesTo
<1>7. /\ prc' \in LooseProcesses
      /\ \A q \in Procs : prc'[q].todo = IF q = p THEN s ELSE prc[q].todo
  <2>1. [prc[p] EXCEPT !.todo = s] \in LooseProcess BY <1>3, <1>4, ProcTyped
  <2> QED BY <1>2, <1>3, <2>1 DEF LooseProcesses, LooseProcess
<1>8. Tops' = Tops /\ Gone' = Gone BY <1>2 DEF Tops, Gone
<1>9. Lists'[p] = Lists[p] \ {c} /\ c \in Lists[p]
  <2>1. p \notin Threads BY NoneIsNobody
  <2>2. Lists[p] = Range(prc[p].todo) /\ Lists'[p] = Range(prc'[p].todo)
    BY <1>1, <2>1 DEF Lists
  <2> QED BY <1>4, <1>7, <2>2
<1>10. \A b \in Agents : b # p => Lists'[b] = Lists[b]
  BY <1>2, <1>7 DEF Lists, Agents
<1>11. Tidied' BY <1>1, <1>2, <1>4, <1>7 DEF Tidied
<1>12. Types' BY <1>1, <1>2, <1>6, <1>7 DEF Types, Moves
<1>13. Hands[p] = None /\ HandAt(pl) = c BY <1>2, <1>5, ProcessKnows DEF HandAt
<1>14. Shaped(Gone, p, pl)
  BY <1>4, <1>5, NoneIsNobody, NoneIsNoCall DEF Shaped, WithCall, Calling, Sending
<1>15. Fits(txn, Tops, Gone, Lists'[p], p, pl)
  <2>1. ToAny(txn, p, Lists'[p]) BY <1>1, <1>9 DEF ToAny
  <2>2. p \notin Threads BY NoneIsNobody
  <2>3. Answering(txn, Gone, pl) BY <1>5 DEF Answering
  <2> QED BY <1>14, <2>1, <2>2, <2>3 DEF Fits
<1> QED BY <1>1, <1>2, <1>5, <1>6, <1>8, <1>9, <1>10, <1>11, <1>12, <1>13, <1>15, TakeStep

LEMMA ProcReleasedKeeps ==
    ASSUME Sound, NEW p \in Procs, ProcReleased(p) PROVE Sound'
<1> DEFINE pl == Idle("gone")
<1>1. /\ Types /\ Tidied /\ at[p] \in Place /\ Fits(txn, Tops, Gone, Lists[p], p, at[p])
      /\ p \in Agents
  BY Known, OneOfAgents
<1>2. /\ at[p].pc = "todo" /\ txn' = txn /\ thr' = thr
      /\ prc' = UnrefProc(prc, p) /\ at' = [at EXCEPT ![p] = pl]
  BY DEF ProcReleased
<1>3. pl \in Place /\ pl.pc = "gone" /\ pl.cur = None /\ pl.tgt = None /\ pl.proc = None
  BY DEF Idle, Place
<1> HIDE DEF pl
<1>4. Moves(p) /\ at'[p] = pl BY <1>1, <1>2, <1>3, MovesTo
<1>5. Shaped(Gone, p, pl) BY <1>3, ProcessShaped
<1>6. ~Free(at[p]) BY <1>2 DEF Free
<1>7. Fits(txn, Tops, Gone, Lists[p], p, pl) BY <1>1, <1>3, <1>5, <1>6, PlainFits
<1>8. HandAt(pl) = HandAt(at[p]) BY <1>2, <1>3, ProcessKnows DEF HandAt
<1>9. Alike(thr, thr') /\ AlikeProcs(prc, prc') BY <1>1, <1>2, AlikeHere, AlikeUnrefProc
<1> QED BY <1>1, <1>2, <1>3, <1>4, <1>7, <1>8, <1>9, QuietStep

-----------------------------------------------------------------------------
(* The invariant holds. *)

LEMMA InitIs ==
    ASSUME Init
    PROVE  /\ Types /\ Tidied
           /\ \A c \in Calls : /\ txn[c].from = None /\ txn[c].toThread = None
                               /\ txn[c].fromParent = None /\ txn[c].toParent = None
           /\ LiveIn(txn) = {} /\ Gone = {} /\ Answered = {} /\ Pendings = {}
           /\ \A th \in Threads : Tops[th] = None
           /\ \A a \in Agents : /\ Hands[a] = None /\ Lists[a] = {}
                                /\ at[a].cur = None /\ at[a].tgt = None /\ at[a].proc = None
                                /\ at[a].pc = IF a \in Procs THEN "off" ELSE "user"
<1>1. /\ prc = [p \in Procs |-> [dead |-> FALSE, node |-> TRUE, todo |-> <<>>,
                                 ref |-> 0, freed |-> FALSE]]
      /\ thr = [th \in Threads |-> [stack |-> None, todo |-> <<>>,
                   processTodo |-> FALSE, dead |-> FALSE, ref |-> 0,
                   freed |-> FALSE]]
      /\ txn = [c \in Calls |-> [state |-> "new", from |-> None,
                   toThread |-> None, fromParent |-> None, toParent |-> None]]
      /\ at = [a \in Agents |-> Idle(IF a \in Procs THEN "off" ELSE "user")]
  BY DEF Init, Agents
<1>2. prc \in LooseProcesses
  <2>1. [dead |-> FALSE, node |-> TRUE, todo |-> <<>>, ref |-> 0, freed |-> FALSE]
           \in LooseProcess
    BY DEF LooseProcess
  <2> QED BY <1>1, <2>1 DEF LooseProcesses
<1>3. thr \in LooseThreads
  <2>1. [stack |-> None, todo |-> <<>>, processTodo |-> FALSE, dead |-> FALSE, ref |-> 0,
         freed |-> FALSE] \in LooseThread
    BY DEF LooseThread
  <2> QED BY <1>1, <2>1 DEF LooseThreads
<1>4. txn \in Transactions
  <2>1. [state |-> "new", from |-> None, toThread |-> None, fromParent |-> None,
         toParent |-> None] \in Transaction
    BY DEF Transaction
  <2> QED BY <1>1, <2>1 DEF Transactions
<1>5. at \in Places
  <2>1. \A pc \in {"off", "user"} : Idle(pc) \in Place BY DEF Idle, Place
  <2> QED BY <1>1, <2>1 DEF Places
<1>6. \A a \in Agents : /\ at[a].cur = None /\ at[a].tgt = None /\ at[a].proc = None
                        /\ at[a].pc = IF a \in Procs THEN "off" ELSE "user"
  BY <1>1, IdleIs
<1>7. \A c \in Calls : /\ txn[c].from = None /\ txn[c].toThread = None
                       /\ txn[c].fromParent = None /\ txn[c].toParent = None
                       /\ txn[c].state = "new"
  BY <1>1
<1>8. \A th \in Threads : thr[th].stack = None /\ thr[th].todo = <<>> /\ thr[th].dead = FALSE
  BY <1>1
<1>9. \A p \in Procs : prc[p].todo = <<>> BY <1>1
<1>10. Tidied BY <1>8, <1>9, NamesNone, RangeNone DEF Tidied
<1>11. LiveIn(txn) = {} /\ Gone = {} BY <1>7, <1>8 DEF LiveIn, Gone
<1>12. \A th \in Threads : Tops[th] = None BY <1>8 DEF Tops, TopOn
<1>13. \A a \in Agents : Hands[a] = None BY <1>6 DEF Hands, HandAt
<1>14. \A a \in Agents : Lists[a] = {}
  BY <1>8, <1>9, NamesNone, RangeNone DEF Lists, Agents
<1>15. Answered = {} BY <1>6 DEF Answered
<1>16. Pendings = {} BY <1>13, <1>14, NoneIsNoCall DEF Pendings, HeldIn
<1> QED BY <1>2, <1>3, <1>4, <1>5, <1>6, <1>7, <1>10, <1>11, <1>12, <1>13, <1>14, <1>15,
           <1>16 DEF Types

LEMMA InitSound == Init => Sound
<1> SUFFICES ASSUME Init PROVE Sound OBVIOUS
<1>1. /\ Types /\ Tidied
      /\ \A c \in Calls : /\ txn[c].from = None /\ txn[c].toThread = None
                          /\ txn[c].fromParent = None /\ txn[c].toParent = None
      /\ LiveIn(txn) = {} /\ Gone = {} /\ Answered = {} /\ Pendings = {}
      /\ \A th \in Threads : Tops[th] = None
  BY InitIs
<1>2. \A a \in Agents : /\ Hands[a] = None /\ Lists[a] = {}
                        /\ at[a].cur = None /\ at[a].tgt = None /\ at[a].proc = None
                        /\ at[a].pc = IF a \in Procs THEN "off" ELSE "user"
  BY InitIs
<1>3. CoreTypes(txn, Tops, Gone, Pendings, Answered)
  BY <1>1, StateTypes DEF CoreTypes, Types
<1>4. Falling(txn) /\ Blank(txn) /\ Foreign(txn) BY <1>1 DEF Falling, Blank, Foreign
<1>5. \A b, c \in Calls : ~Kid(txn, Answered, c, b) BY <1>1 DEF Kid
<1>6. Kids(txn, Pendings, Answered) BY <1>5 DEF Kids
<1>7. Marked(txn, Pendings, Answered) /\ Orphans(txn, Pendings, Answered)
      /\ Behalf(txn, Pendings)
  BY <1>1 DEF Marked, Orphans, Behalf
<1>8. \A th \in Threads : On(txn, Pendings, th) = {}
  BY <1>1, NoneIsNobody DEF On, Made, Srv
<1>9. Absent(txn, Gone, Pendings) BY <1>1 DEF Absent
<1>10. \A th \in Threads : Stacked(txn, Tops, Pendings, th) BY <1>1, <1>8 DEF Stacked
<1>11. Core(txn, Tops, Gone, Pendings, Answered)
  BY <1>3, <1>4, <1>6, <1>7, <1>9, <1>10 DEF Core
<1>12. Apart(Hands, Lists) BY <1>2 DEF Apart
<1>13. ASSUME NEW b \in Agents PROVE FitsAt(b)
  <2>1. at[b].pc \in {"off", "user"} /\ Lists[b] = {} BY <1>2
  <2>2. CASE b \in Procs
    <3>1. Shaped(Gone, b, at[b]) BY <1>2, <2>2, ProcessShaped
    <3>2. Answering(txn, Gone, at[b]) /\ ToAny(txn, b, Lists[b])
      BY <2>1 DEF Answering, ToAny
    <3> QED BY <2>2, <3>1, <3>2, NoneIsNobody DEF FitsAt, Fits
  <2>3. CASE b \in Threads
    <3>1. b \notin Procs /\ at[b].pc = "user" BY <1>2, <2>3, NoneIsNobody
    <3>2. Shaped(Gone, b, at[b])
      BY <1>1, <1>2, <2>3, <3>1 DEF Shaped, WithCall, Calling, Sending
    <3>3. Answering(txn, Gone, at[b]) /\ Writes(txn, Tops, Gone, b, at[b])
      BY <3>1 DEF Answering, Writes
    <3>4. Fits(txn, Tops, Gone, {}, b, at[b]) BY <2>3, <3>1, <3>2, <3>3, EmptyFits
    <3> QED BY <2>1, <3>4 DEF FitsAt
  <2> QED BY <2>2, <2>3 DEF Agents
<1> QED BY <1>1, <1>11, <1>12, <1>13 DEF Sound

LEMMA StutterKeeps ==
    ASSUME Sound, UNCHANGED vars PROVE Sound'
<1>1. prc' = prc /\ thr' = thr /\ txn' = txn /\ at' = at BY DEF vars
<1>2. Tops' = Tops /\ Gone' = Gone /\ Hands' = Hands /\ Lists' = Lists
      /\ Answered' = Answered
  BY <1>1 DEF Tops, Gone, Hands, Lists, Answered
<1>3. Pendings' = Pendings BY <1>2 DEF Pendings
<1>4. Types' /\ Tidied' BY <1>1 DEF Sound, Types, Tidied
<1>5. \A b \in Agents : FitsAt(b)' BY <1>1, <1>2 DEF Sound, FitsAt
<1> QED BY <1>1, <1>2, <1>3, <1>4, <1>5 DEF Sound

LEMMA ThreadNextKeeps ==
    ASSUME Blocking, Sound, NEW th \in Threads, ThreadNext(th) PROVE Sound'
<1>1. CASE \E p \in Procs : BeginCall(th, p) BY <1>1, BeginCallKeeps
<1>2. CASE BeginReply(th) BY <1>2, BeginReplyKeeps
<1>3. CASE ReadBegin(th) BY <1>3, ReadBeginKeeps
<1>4. CASE ThreadExit(th) BY <1>4, ReleaseThreadKeeps DEF ThreadExit
<1>5. CASE Interrupted(th) BY <1>5, InterruptedKeeps
<1>6. CASE Reads(th) BY <1>6, ReadThreadKeeps, ReadProcKeeps DEF Reads
<1>7. CASE InDriver(th)
  <2>1. CASE FindTarget(th) \/ CallFails(th) \/ PushCall(th) \/ QueueCall(th)
    BY <2>1, FindTargetKeeps, CallFailsKeeps, PushCallKeeps, QueueCallKeeps
  <2>2. CASE UndoCall(th) \/ EndCall(th) BY <2>2, UndoCallKeeps, EndCallKeeps
  <2>3. CASE ReplyFrom(th) \/ ReplyAcquire(th)
    BY <2>3, ReplyFromKeeps, ReplyAcquireKeeps
  <2>4. CASE BuildReply(th, "built") \/ BuildReply(th, "refused")
    BY <2>4, BuildReplyKeeps
  <2>5. CASE QueueReply(th) \/ EndReply(th) \/ ReplyFails(th)
    BY <2>5, QueueReplyKeeps, EndReplyKeeps, ReplyFailsKeeps
  <2>6. CASE FailFrom(th) \/ FailAcquire(th)
    BY <2>6, OneOfAgents, FailFromKeeps, FailAcquireKeeps
  <2>7. CASE Deliver(th) \/ DeliverFault(th)
    BY <2>7, DeliverKeeps, DeliverFaultKeeps
  <2>8. CASE ReleaseWork(th) \/ ThreadReleased(th)
    BY <2>8, ReleaseWorkKeeps, ThreadReleasedKeeps
  <2> QED BY <1>7, <2>1, <2>2, <2>3, <2>4, <2>5, <2>6, <2>7, <2>8 DEF InDriver
<1> QED BY <1>1, <1>2, <1>3, <1>4, <1>5, <1>6, <1>7 DEF ThreadNext, Answers, Waits

LEMMA ReleasingKeeps ==
    ASSUME Sound, NEW p \in Procs, ReleaseProc(p) \/ Releasing(p) PROVE Sound'
<1>1. CASE ReleaseProc(p) BY <1>1, ReleaseProcKeeps
<1>2. CASE ReleaseNode(p) BY <1>2, ReleaseNodeKeeps
<1>3. CASE ReleaseTodo(p) BY <1>3, ReleaseTodoKeeps
<1>4. CASE ProcReleased(p) BY <1>4, ProcReleasedKeeps
<1>5. CASE FailFrom(p) \/ FailAcquire(p)
  BY <1>5, OneOfAgents, FailFromKeeps, FailAcquireKeeps
<1>6. CASE \E th \in Threads : ReleaseProcThread(p, th)
  BY <1>6, ReleaseThreadKeeps DEF ReleaseProcThread
<1> QED BY <1>1, <1>2, <1>3, <1>4, <1>5, <1>6 DEF Releasing

LEMMA NextKeeps == Blocking /\ Sound /\ [Next]_vars => Sound'
<1> SUFFICES ASSUME Blocking, Sound, [Next]_vars PROVE Sound' OBVIOUS
<1>1. CASE \E th \in Threads : ThreadNext(th) BY <1>1, ThreadNextKeeps
<1>2. CASE \E p \in Procs : ReleaseProc(p) \/ Releasing(p) BY <1>2, ReleasingKeeps
<1>3. CASE UNCHANGED vars BY <1>3, StutterKeeps
<1> QED BY <1>1, <1>2, <1>3 DEF Next

\* What the others rest on: the types, the links and stacks, and who is where
\* between two steps of the driver, hold for as long as the driver runs.
THEOREM SoundAlways == Blocking => (Spec => []Sound)
<1>1. Init => Sound BY InitSound
<1>2. ASSUME Blocking PROVE Sound /\ [Next]_vars => Sound' BY <1>2, NextKeeps
<1>3. ASSUME Blocking PROVE Spec => []Sound BY <1>1, <1>2, <1>3, PTL DEF Spec
<1> QED BY <1>3

-----------------------------------------------------------------------------
(* What follows from it. *)

LEMMA FramesOn ==
    ASSUME Sound, NEW th \in Threads, ~thr[th].dead
    PROVE  FrameFrom(th)[MaxCalls] = None /\ Frames(th) = On(txn, Pendings, th)
<1>1. Types /\ Core(txn, Tops, Gone, Pendings, Answered) BY DEF Sound
<1>2. th \notin Gone BY DEF Gone
<1>3. Tops[th] = thr[th].stack /\ Tops[th] \in Calls \union {None}
  BY <1>1, <1>2, TopThere, StateTypes
<1>4. txn \in Transactions /\ Falling(txn) /\ Stacked(txn, Tops, Pendings, th)
  BY <1>1 DEF Types, Core
<1> QED BY <1>3, <1>4, FramesAre

LEMMA SoundStacks == Sound => StacksSound
<1> SUFFICES ASSUME Sound, NEW th \in Threads, ~thr[th].dead
             PROVE  /\ FrameFrom(th)[MaxCalls] = None
                    /\ \A c \in Frames(th) : txn[c].toThread = th <=> txn[c].from # th
                    /\ \A c \in Frames(th), o \in Threads \ {th} :
                         ~thr[o].dead /\ c \in Frames(o) => txn[c].from \in {th, o}
  BY DEF StacksSound
<1>1. Foreign(txn) BY DEF Sound, Core
<1>2. FrameFrom(th)[MaxCalls] = None /\ Frames(th) = On(txn, Pendings, th) BY FramesOn
<1>3. ASSUME NEW c \in Frames(th) PROVE txn[c].toThread = th <=> txn[c].from # th
  <2>1. c \in On(txn, Pendings, th) /\ c \in Calls BY <1>2 DEF On, Made, Srv, LiveIn
  <2>2. txn[c].from = th \/ txn[c].toThread = th BY <2>1 DEF On, Made, Srv
  <2>3. ~(txn[c].from = th /\ txn[c].toThread = th)
    BY <1>1, <2>1, NoneIsNobody DEF Foreign
  <2> QED BY <2>2, <2>3
<1>4. ASSUME NEW c \in Frames(th), NEW o \in Threads \ {th}, ~thr[o].dead, c \in Frames(o)
      PROVE  txn[c].from \in {th, o}
  <2>1. c \in On(txn, Pendings, th) /\ c \in On(txn, Pendings, o)
    BY <1>2, <1>4, FramesOn
  <2> QED BY <2>1 DEF On, Made, Srv
<1> QED BY <1>2, <1>3, <1>4

LEMMA SoundPops == Sound => PopsTop
<1> SUFFICES ASSUME Sound, NEW a \in DOMAIN at
             PROVE  LET c == at[a].cur IN
                    /\ at[a].pc = "failfrom" /\ txn[c].from # None =>
                         txn[c].from = at[a].tgt /\ thr[at[a].tgt].stack = c
                    /\ at[a].pc = "built" /\ ~thr[at[a].tgt].dead =>
                         txn[c].from = at[a].tgt /\ thr[at[a].tgt].stack = c
                    /\ at[a].pc = "undo" => txn[c].from = a /\ thr[a].stack = c
  BY DEF PopsTop
<1>1. a \in Agents /\ Types /\ Core(txn, Tops, Gone, Pendings, Answered)
  BY DEF Sound, Types, Places
<1>2. ASSUME at[a].pc = "failfrom", txn[at[a].cur].from # None
      PROVE  txn[at[a].cur].from = at[a].tgt /\ thr[at[a].tgt].stack = at[a].cur
  BY <1>1, <1>2, CallerOnTop
<1>3. ASSUME at[a].pc = "built", ~thr[at[a].tgt].dead
      PROVE  txn[at[a].cur].from = at[a].tgt /\ thr[at[a].tgt].stack = at[a].cur
  BY <1>1, <1>3, CallerOnTop
<1>4. ASSUME at[a].pc = "undo"
      PROVE  txn[at[a].cur].from = a /\ thr[a].stack = at[a].cur
  <2>1. Shaped(Gone, a, at[a]) BY <1>1, Known
  <2>2. a \in Threads BY <1>1, <1>4, <2>1 DEF Shaped, Agents
  <2>3. a \notin Gone /\ txn[at[a].cur].from = a BY <1>1, <1>4, <2>2, Known DEF Writes
  <2>4. at[a].cur \in Pendings BY <1>1, <1>4, InHand DEF WithCall
  <2>5. Tops[a] = at[a].cur BY <1>1, <2>2, <2>3, <2>4, NoneIsNobody, TopOf
  <2> QED BY <1>1, <2>2, <2>3, <2>5, TopThere
<1> QED BY <1>2, <1>3, <1>4

\* What is in hand or on a list is in somebody's charge, and so is what a
\* living thread serves.
LEMMA PendingHeld ==
    ASSUME Types, NEW c \in Pendings PROVE Queued(c) \/ InHands(c)
<1>1. c \in Calls /\ c # None BY NoneIsNoCall DEF Pendings, HeldIn
<1>2. PICK a \in Agents : Hands[a] = c \/ c \in Lists[a] BY DEF Pendings, HeldIn
<1>3. CASE Hands[a] = c
  <2>1. at[a].cur = c /\ at[a].pc # "done" BY <1>1, <1>3 DEF Hands, HandAt
  <2>2. a \in DOMAIN at BY DEF Types, Places
  <2> QED BY <2>1, <2>2 DEF InHands
<1>4. CASE c \in Lists[a] /\ a \in Threads
  <2>1. c \in Names(thr[a].todo) BY <1>4 DEF Lists
  <2>2. Item("call", c) \in Range(thr[a].todo) BY <2>1 DEF Names, Range
  <2> QED BY <1>4, <2>2 DEF Queued
<1>5. CASE c \in Lists[a] /\ a \notin Threads
  <2>1. c \in Range(prc[a].todo) BY <1>5 DEF Lists
  <2> QED BY <1>5, <2>1 DEF Queued, Agents
<1> QED BY <1>2, <1>3, <1>4, <1>5

LEMMA ServerServes ==
    ASSUME Sound, NEW c \in Calls, c \in LiveIn(txn), c \notin Pendings,
           txn[c].toThread # None
    PROVE  Served(c)
<1> DEFINE th == txn[c].toThread
<1>1. Types /\ Absent(txn, Gone, Pendings) BY DEF Sound, Core
<1>2. th \in Threads BY <1>1, FieldTypes DEF Types
<1>3. c \in On(txn, Pendings, th) BY DEF On, Srv
<1>4. th \notin Gone BY <1>1, <1>3 DEF Absent
<1>5. ~thr[th].dead BY <1>2, <1>4 DEF Gone
<1>6. c \in Frames(th) BY <1>2, <1>3, <1>5, FramesOn
<1> QED BY <1>2, <1>5, <1>6 DEF Served

LEMMA ChargedSelf ==
    ASSUME txn \in Transactions, Falling(txn), NEW c \in Calls,
           Queued(c) \/ InHands(c) \/ Served(c)
    PROVE  Charged(c)
<1> DEFINE f == CallersFrom(c)
<1>1. /\ f \in [0 .. MaxCalls -> Calls \union {None}]
      /\ Iterates(f, [d \in Calls |-> txn[d].fromParent], c)
  BY CallersAre
<1>2. 0 \in DOMAIN f /\ f[0] = c
  <2>1. 0 \in 0 .. MaxCalls BY NoneIsNoCall
  <2> QED BY <1>1, <2>1 DEF Iterates
<1>3. \A j \in 0 .. 0 - 1 : txn[f[j]].from = None OBVIOUS
<1> QED BY <1>2, <1>3 DEF Charged

LEMMA ChargedUp ==
    ASSUME txn \in Transactions, Falling(txn), NEW c \in Calls, NEW e \in Calls,
           Charged(e), txn[e].fromParent = c, txn[e].from = None
    PROVE  Charged(c)
<1>1. PICK d \in Calls :
        LET f == CallersFrom(d) IN
        /\ Queued(d) \/ InHands(d) \/ Served(d)
        /\ \E k \in DOMAIN f : f[k] = e /\ \A j \in 0 .. k - 1 : txn[f[j]].from = None
  BY DEF Charged
<1> DEFINE f == CallersFrom(d)
           g == [x \in Calls |-> txn[x].fromParent]
<1>2. f \in [0 .. MaxCalls -> Calls \union {None}] /\ Iterates(f, g, d) BY CallersAre
<1>3. PICK k \in DOMAIN f : f[k] = e /\ \A j \in 0 .. k - 1 : txn[f[j]].from = None
  BY <1>1
<1>4. g \in [Calls -> Calls \union {None}] BY FieldTypes
<1>5. \A x \in Calls : g[x] # None => g[x] < x BY DEF Falling
<1>6. g[e] = c OBVIOUS
<1>7. Queued(d) \/ InHands(d) \/ Served(d) BY <1>1
<1> HIDE DEF f, g
<1>8. k \in 0 .. MaxCalls /\ e # None /\ e \in 1 .. MaxCalls /\ c # None
  BY <1>2, <1>3, NoneIsNoCall
<1>9. f[k] + k <= MaxCalls BY <1>2, <1>3, <1>4, <1>5, <1>8, IterationFalls
<1>10. k + 1 \in 0 .. MaxCalls /\ k + 1 # 0 /\ (k + 1) - 1 = k
  BY <1>3, <1>8, <1>9, NoneIsNoCall
<1>11. f[k + 1] = c
  <2>1. f[k + 1] = IF f[(k + 1) - 1] = None THEN None ELSE g[f[(k + 1) - 1]]
    BY <1>2, <1>10 DEF Iterates
  <2> QED BY <1>3, <1>6, <1>8, <1>10, <2>1
<1>12. \A j \in 0 .. (k + 1) - 1 : txn[f[j]].from = None
  <2> SUFFICES ASSUME NEW j \in 0 .. k PROVE txn[f[j]].from = None BY <1>10
  <2>1. CASE j = k BY <1>3, <2>1
  <2>2. CASE j # k
    <3>1. j \in 0 .. k - 1 BY <1>8, <2>2
    <3> QED BY <1>3, <3>1
  <2> QED BY <2>1, <2>2
<1>13. k + 1 \in DOMAIN f BY <1>2, <1>10
<1> QED BY <1>7, <1>11, <1>12, <1>13 DEF Charged, f

LEMMA SoundOwned == Sound => TransactionOwned
<1> SUFFICES ASSUME Sound PROVE TransactionOwned OBVIOUS
<1> DEFINE Bad == {c \in Calls : Live(c) /\ ~Charged(c)}
<1>1. /\ Types /\ txn \in Transactions /\ Falling(txn)
      /\ Orphans(txn, Pendings, Answered) /\ Kids(txn, Pendings, Answered)
  BY DEF Sound, Core, Types
<1> SUFFICES ASSUME Bad # {} PROVE FALSE BY DEF TransactionOwned
<1>2. Bad \in SUBSET (1 .. MaxCalls) /\ MaxCalls \in Nat BY NoneIsNoCall DEF Calls
<1> HIDE DEF Bad
<1>3. PICK c \in Bad : \A y \in Bad : y <= c BY <1>2, Largest
<1>4. c \in Calls /\ c \in LiveIn(txn) /\ ~Charged(c) BY <1>3 DEF Bad, LiveIn, Live
<1>5. c \notin Pendings BY <1>1, <1>4, PendingHeld, ChargedSelf
<1>6. txn[c].toThread = None BY <1>1, <1>4, <1>5, ServerServes, ChargedSelf
<1>7. PICK e \in Calls : Kid(txn, Answered, e, c)
  BY <1>1, <1>4, <1>5, <1>6 DEF Orphans
<1>8. txn[e].fromParent = c /\ e \in LiveIn(txn) BY <1>7 DEF Kid
<1>9. txn[e].from = None BY <1>1, <1>4, <1>6, <1>7 DEF Kids
<1>10. c < e /\ c \in Nat /\ e \in Nat
  BY <1>1, <1>4, <1>8, NoneIsNoCall DEF Falling
<1>11. e \notin Bad BY <1>3, <1>10
<1>12. Charged(e) BY <1>8, <1>11 DEF Bad, LiveIn, Live
<1> QED BY <1>1, <1>4, <1>8, <1>9, <1>12, ChargedUp

-----------------------------------------------------------------------------
(* The theorems about the runs' properties. *)

\* The chain of from_parent and to_parent links that a living thread's stack
\* heads ends, holds only calls the thread made or serves, and shares a call
\* with another thread's only when that one is its caller
\* (binder_thread_release walks it, with a BUG() for any other link).
THEOREM StacksAreSound == Blocking => (Spec => []StacksSound)
<1>1. Sound => StacksSound BY SoundStacks
<1>2. ASSUME Blocking PROVE Spec => []StacksSound
  BY <1>1, <1>2, SoundAlways, PTL
<1> QED BY <1>2

\* binder_pop_transaction_ilocked's two BUG_ONs never fire: the call it pops
\* is the one on top of the caller's stack, and the caller made it.
THEOREM CallersPopTheTop == Blocking => (Spec => []PopsTop)
<1>1. Sound => PopsTop BY SoundPops
<1>2. ASSUME Blocking PROVE Spec => []PopsTop
  BY <1>1, <1>2, SoundAlways, PTL
<1> QED BY <1>2

\* Every transaction that is not freed is queued, in somebody's hands, served
\* by a living thread, or a dead caller's below such a one: none is leaked,
\* whichever threads exit while it is under way.
THEOREM CallsAreOwned == Blocking => (Spec => []TransactionOwned)
<1>1. Sound => TransactionOwned BY SoundOwned
<1>2. ASSUME Blocking PROVE Spec => []TransactionOwned
  BY <1>1, <1>2, SoundAlways, PTL
<1> QED BY <1>2
=============================================================================
