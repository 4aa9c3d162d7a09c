------------------------- MODULE BinderBuffersProofs -------------------------
(***************************************************************************)
(* The size of a buffer is exact for every width of size_t and every       *)
(* pointer size that divides it; and the invariants of the buffer          *)
(* allocator, for every size of the mapping, of its pages and of the       *)
(* requests.                                                               *)
(*                                                                         *)
(* The buffers of the list follow each other without a gap, so what a      *)
(* buffer shares a page with is a matter of where its neighbours start and *)
(* end.  Two free buffers are never neighbours: the one before and the one *)
(* after a free buffer are allocated, and what lies beyond them cannot     *)
(* reach into its pages unless they do.                                    *)
(*                                                                         *)
(* The second part is about what a transaction writes into its buffer: it  *)
(* stays whole, and the descriptors the driver opens for the target are    *)
(* accounted for, whatever objects a sender makes up, in whatever order,   *)
(* and wherever the transaction fails.                                     *)
(***************************************************************************)
EXTENDS BinderBuffers, FiniteSetTheorems, SequenceTheorems, TLAPS

-----------------------------------------------------------------------------
(* The size of a buffer. *)

\* Division with remainder, the only fact about % that the rest needs.
LEMMA Remainder ==
  ASSUME NEW x \in Int, NEW m \in Nat \ {0}
  PROVE  /\ x % m \in 0 .. (m - 1)
         /\ \E q \in Int : x = (m * q) + (x % m)
<1>1. x % m \in 0 .. (m - 1)
  OBVIOUS
<1>2. x \div m \in Int /\ x = (m * (x \div m)) + (x % m)
  OBVIOUS
<1> QED BY <1>1, <1>2

LEMMA SmallMultiple ==
  ASSUME NEW m \in Nat \ {0}, NEW q \in Int, 
         m * q < m, m * q > -m
  PROVE  q = 0
<1>1. CASE q >= 1
  <2>1. m * q >= m
    BY <1>1
  <2> QED BY <2>1
<1>2. CASE q <= -1
  <2>1. m * q <= -m
    BY <1>2
  <2> QED BY <2>1
<1> QED BY <1>1, <1>2

LEMMA RemainderUnique ==
  ASSUME NEW m \in Nat \ {0}, NEW q \in Int, NEW r \in 0 .. (m - 1)
  PROVE  ((m * q) + r) % m = r
<1> DEFINE x == (m * q) + r
<1>1. x \in Int
  OBVIOUS
<1>2. x % m \in 0 .. (m - 1)
  BY <1>1, Remainder
<1>3. PICK p \in Int : x = (m * p) + (x % m)
  BY <1>1, Remainder
<1>4. m * (p - q) = r - (x % m)
  <2> DEFINE y == x % m
  <2>1. y \in Int /\ (m * q) + r = (m * p) + y
    BY <1>2, <1>3
  <2> HIDE DEF x, y
  <2>2. m * (p - q) = (m * p) - (m * q) /\ m * p \in Int /\ m * q \in Int
    OBVIOUS
  <2>3. m * (p - q) = r - y
    BY <2>1, <2>2
  <2> QED BY <2>3 DEF y
<1>5. m * (p - q) < m /\ m * (p - q) > -m /\ p - q \in Int
  BY <1>2, <1>4
<1>6. p - q = 0
  BY <1>5, SmallMultiple
<1> QED BY <1>4, <1>6, <1>2

\* Rounding up reaches the next multiple of a word, which is at most Limit.
LEMMA RoundedUp ==
  ASSUME NEW x \in SizeT
  PROVE  \E a, k \in Int : /\ Limit = Word * k /\ RoundUp(x) = Word * a
                           /\ x <= Word * a /\ Word * a < x + Word
                           /\ a <= k
<1>1. Word \in Nat \ {0} /\ Limit \in Nat \ {0} /\ x \in Int /\ x < Limit /\ -x \in Int
  BY WordAssumption DEF SizeT
<1>2. PICK k \in Int : Limit = Word * k
  <2>1. Limit \in Int
    BY <1>1
  <2>2. PICK k \in Int : Limit = (Word * k) + (Limit % Word)
    BY <1>1, <2>1, Remainder
  <2> QED BY <1>1, <2>2, LimitAssumption
<1>3. PICK q \in Int : -x = (Word * q) + ((-x) % Word)
  BY <1>1, Remainder
<1>4. (-x) % Word \in 0 .. (Word - 1)
  BY <1>1, Remainder
<1>5. RoundUp(x) = Word * (-q) /\ -q \in Int
  BY <1>1, <1>3, <1>4 DEF RoundUp
<1>6. x <= Word * (-q) /\ Word * (-q) < x + Word
  BY <1>1, <1>3, <1>4
<1>7. -q <= k
  <2>1. SUFFICES ASSUME -q >= k + 1 PROVE FALSE
    OBVIOUS
  <2>2. Word * (-q) >= Word * (k + 1)
    BY <1>1, <2>1
  <2>3. Word * (k + 1) = Limit + Word
    BY <1>1, <1>2
  <2> QED BY <1>1, <1>6, <2>2, <2>3
<1> QED BY <1>2, <1>5, <1>6, <1>7

LEMMA AlignIsRoundUp ==
  ASSUME NEW x \in SizeT
  PROVE  /\ RoundUp(x) \in Nat /\ x <= RoundUp(x) /\ RoundUp(x) < x + Word
         /\ RoundUp(x) < Limit => Align(x) = RoundUp(x)
         /\ RoundUp(x) >= Limit => RoundUp(x) = Limit /\ Align(x) = 0
         /\ RoundUp(x) + Word <= Limit \/ RoundUp(x) = Limit
<1>1. PICK a, k \in Int : /\ Limit = Word * k /\ RoundUp(x) = Word * a
                          /\ x <= Word * a /\ Word * a < x + Word
                          /\ a <= k
  BY RoundedUp
<1>2. Word \in Nat \ {0} /\ Limit \in Nat \ {0} /\ x \in Nat /\ x < Limit
  BY WordAssumption DEF SizeT
<1>3. RoundUp(x) \in Nat /\ x <= RoundUp(x) /\ RoundUp(x) < x + Word
  BY <1>1, <1>2
<1>4. CASE a = k
  <2>1. RoundUp(x) = Limit
    BY <1>1, <1>4
  <2> DEFINE r == x + Word - 1 - Limit
  <2>2. r \in 0 .. (Word - 1) /\ r < Word - 1
    BY <1>1, <1>2, <1>4
  <2>3. Limit >= Word
    <3>1. k >= 1
      <4>1. SUFFICES ASSUME k <= 0 PROVE FALSE
        BY <1>1
      <4>2. Word * k <= 0
        BY <1>2, <4>1
      <4> QED BY <1>1, <1>2, <4>2
    <3>2. Word * k >= Word
      BY <1>2, <3>1
    <3> QED BY <1>1, <3>2
  <2>4. (x + Word - 1) % Limit = r
    <3>1. x + Word - 1 = (Limit * 1) + r /\ r \in 0 .. (Limit - 1)
      BY <1>2, <2>2, <2>3
    <3> HIDE DEF r
    <3>2. ((Limit * 1) + r) % Limit = r
      BY <1>2, <3>1, RemainderUnique
    <3> QED BY <3>1, <3>2
  <2>5. r % Word = r
    <3> HIDE DEF r
    <3>1. ((Word * 0) + r) % Word = r
      BY <1>2, <2>2, RemainderUnique
    <3>2. (Word * 0) + r = r
      BY <1>2, <2>2
    <3> QED BY <3>1, <3>2
  <2>6. Align(x) = 0
    <3> HIDE DEF r
    <3> QED BY <2>2, <2>4, <2>5 DEF Align
  <2> QED BY <1>2, <1>3, <2>1, <2>6
<1>5. CASE a # k
  <2>1. Word * a + Word <= Limit
    <3>1. a + 1 <= k
      BY <1>1, <1>5
    <3>2. Word * (a + 1) <= Word * k
      BY <1>2, <3>1
    <3>3. Word * (a + 1) = Word * a + Word
      BY <1>2
    <3> QED BY <1>1, <3>2, <3>3
  <2> DEFINE y == x + Word - 1
             r == y - (Word * a)
  <2>2. y \in 0 .. (Limit - 1) /\ r \in 0 .. (Word - 1) /\ y = (Word * a) + r
    BY <1>1, <1>2, <2>1
  <2>3. y % Limit = y
    <3> HIDE DEF y
    <3>1. ((Limit * 0) + y) % Limit = y
      BY <1>2, <2>2, RemainderUnique
    <3>2. (Limit * 0) + y = y
      BY <1>2, <2>2
    <3> QED BY <3>1, <3>2
  <2>4. y % Word = r
    <3> HIDE DEF y, r
    <3> QED BY <1>2, <2>2, RemainderUnique
  <2>5. Align(x) = Word * a
    <3>1. Align(x) = y - r
      <4> HIDE DEF r
      <4>1. Align(x) = (y % Limit) - ((y % Limit) % Word)
        BY DEF Align
      <4> HIDE DEF y
      <4> QED BY <2>3, <2>4, <4>1
    <3>2. y - r = Word * a
      BY <1>1, <1>2
    <3> QED BY <3>1, <3>2
  <2> QED BY <1>1, <1>2, <1>3, <2>1, <2>5
<1> QED BY <1>4, <1>5

LEMMA AddWraps ==
  ASSUME NEW x \in SizeT, NEW y \in SizeT
  PROVE  (x + y) % Limit = IF x + y < Limit THEN x + y ELSE x + y - Limit
<1>1. Limit \in Nat \ {0} /\ x \in 0 .. (Limit - 1) /\ y \in 0 .. (Limit - 1)
  BY WordAssumption DEF SizeT
<1>2. CASE x + y < Limit
  <2> DEFINE z == x + y
  <2>1. z \in 0 .. (Limit - 1)
    BY <1>1, <1>2
  <2>2. z = (Limit * 0) + z
    BY <1>1, <2>1
  <2> HIDE DEF z
  <2>3. z % Limit = z
    BY <1>1, <2>1, <2>2, RemainderUnique
  <2> QED BY <1>2, <2>3 DEF z
<1>3. CASE x + y >= Limit
  <2> DEFINE z == x + y - Limit
  <2>1. z \in 0 .. (Limit - 1) /\ x + y = (Limit * 1) + z
    BY <1>1, <1>3
  <2> HIDE DEF z
  <2>2. (x + y) % Limit = z
    BY <1>1, <2>1, RemainderUnique
  <2> QED BY <1>1, <1>3, <2>2 DEF z
<1> QED BY <1>1, <1>2, <1>3

Multiple(x) == \E k \in Int : x = Word * k

LEMMA MultipleFits ==
  ASSUME NEW x \in Int, Multiple(x), x < Limit
  PROVE  x + Word <= Limit
<1>1. Word \in Nat \ {0} /\ Limit \in Nat \ {0} /\ 0 \in SizeT
  BY WordAssumption DEF SizeT
<1>2. PICK c \in Int : Limit = Word * c
  BY <1>1, RoundedUp
<1>3. PICK a \in Int : x = Word * a
  BY DEF Multiple
<1>4. a < c
  <2>1. SUFFICES ASSUME a >= c PROVE FALSE
    OBVIOUS
  <2>2. Word * a >= Word * c
    BY <1>1, <2>1
  <2> QED BY <1>1, <1>2, <1>3, <2>2
<1>5. Word * (a + 1) <= Word * c
  BY <1>1, <1>4
<1>6. Word * (a + 1) = x + Word
  BY <1>1, <1>3
<1> QED BY <1>2, <1>5, <1>6

LEMMA WordFits == Word <= Limit
<1>1. Word \in Nat \ {0} /\ Limit \in Nat \ {0}
  BY WordAssumption
<1>2. Multiple(0)
  BY <1>1 DEF Multiple
<1> QED BY <1>1, <1>2, MultipleFits

LEMMA MultipleSum ==
  ASSUME NEW x \in Int, NEW y \in Int, Multiple(x), Multiple(y)
  PROVE  Multiple(x + y) /\ Multiple(x + y - Limit)
<1>1. Word \in Nat \ {0} /\ Limit \in Nat \ {0} /\ 0 \in SizeT
  BY WordAssumption DEF SizeT
<1>2. PICK c \in Int : Limit = Word * c
  BY <1>1, RoundedUp
<1>3. PICK a \in Int : x = Word * a
  BY DEF Multiple
<1>4. PICK b \in Int : y = Word * b
  BY DEF Multiple
<1>5. x + y = Word * (a + b) /\ a + b \in Int
  BY <1>1, <1>3, <1>4
<1>6. x + y - Limit = Word * (a + b - c) /\ a + b - c \in Int
  BY <1>1, <1>2, <1>3, <1>4
<1> QED BY <1>5, <1>6 DEF Multiple

LEMMA AlignIsMultiple ==
  ASSUME NEW x \in SizeT
  PROVE  Align(x) \in SizeT /\ Align(x) \in Int /\ Multiple(Align(x))
<1>1. Word \in Nat \ {0} /\ Limit \in Nat \ {0}
  BY WordAssumption
<1>2. Multiple(RoundUp(x)) /\ Multiple(0)
  <2>1. PICK a \in Int : RoundUp(x) = Word * a
    BY RoundedUp
  <2>2. 0 = Word * 0 /\ 0 \in Int
    BY <1>1
  <2> QED BY <2>1, <2>2, Zenon DEF Multiple
<1>3. \/ Align(x) = RoundUp(x) /\ RoundUp(x) \in SizeT
      \/ Align(x) = 0 /\ 0 \in SizeT
  BY AlignIsRoundUp, <1>1 DEF SizeT
<1>4. Align(x) \in SizeT /\ Multiple(Align(x))
  BY <1>2, <1>3
<1> QED BY <1>4 DEF SizeT

\* One step of the sum: a is what has been added up for a part of size d, and
\* v is the size whose aligned form is added.  The comparisons with the two
\* parts detect every wrap.
LEMMA AddIsExact ==
  ASSUME NEW v \in SizeT, NEW a \in SizeT, NEW d \in SizeT,
         Multiple(a), d <= a, a < d + Word
  PROVE  LET sum == (a + Align(v)) % Limit
         IN  /\ sum \in SizeT /\ Multiple(sum)
             /\ (sum >= d /\ sum >= v) <=> a + RoundUp(v) < Limit
             /\ a + RoundUp(v) < Limit => sum = a + RoundUp(v)
<1>1. /\ Limit \in Nat \ {0} /\ Word \in Nat \ {0} /\ Word <= Limit
      /\ a \in Nat /\ d \in Nat /\ v \in Nat /\ v < Limit /\ a + Word <= Limit
  BY WordAssumption, WordFits, MultipleFits DEF SizeT
<1>2. /\ RoundUp(v) \in Nat /\ v <= RoundUp(v) /\ RoundUp(v) < v + Word
      /\ RoundUp(v) < Limit => Align(v) = RoundUp(v)
      /\ RoundUp(v) >= Limit => RoundUp(v) = Limit /\ Align(v) = 0
      /\ RoundUp(v) + Word <= Limit \/ RoundUp(v) = Limit
  BY AlignIsRoundUp
<1>3. Align(v) \in SizeT /\ Multiple(Align(v)) /\ Align(v) \in Int /\ a \in Int
  BY <1>1, AlignIsMultiple
<1>4. (a + Align(v)) % Limit =
        IF a + Align(v) < Limit THEN a + Align(v) ELSE a + Align(v) - Limit
  BY <1>3, AddWraps
<1> DEFINE sum == (a + Align(v)) % Limit
<1>5. Multiple(sum)
  <2>1. Multiple(a + Align(v)) /\ Multiple(a + Align(v) - Limit)
    BY <1>3, MultipleSum
  <2> QED BY <1>4, <2>1
<1>6. CASE RoundUp(v) = Limit
  <2>1. sum = a
    BY <1>1, <1>2, <1>4, <1>6
  <2> HIDE DEF sum
  <2>2. ~(sum >= v) /\ ~(a + RoundUp(v) < Limit)
    BY <1>1, <1>2, <1>6, <2>1
  <2>3. sum \in SizeT
    BY <2>1
  <2> QED BY <1>5, <2>2, <2>3 DEF sum
<1>7. CASE RoundUp(v) < Limit /\ a + RoundUp(v) < Limit
  <2>1. sum = a + RoundUp(v)
    BY <1>1, <1>2, <1>4, <1>7
  <2> HIDE DEF sum
  <2>2. sum \in SizeT /\ sum >= d /\ sum >= v
    BY <1>1, <1>2, <1>7, <2>1 DEF SizeT
  <2> QED BY <1>5, <1>7, <2>1, <2>2 DEF sum
<1>8. CASE RoundUp(v) < Limit /\ a + RoundUp(v) >= Limit
  <2>1. sum = a + RoundUp(v) - Limit
    BY <1>1, <1>2, <1>4, <1>8
  <2> HIDE DEF sum
  <2>2. sum \in SizeT /\ ~(sum >= d)
    BY <1>1, <1>2, <1>8, <2>1 DEF SizeT
  <2>3. ~(a + RoundUp(v) < Limit)
    BY <1>1, <1>2, <1>8
  <2> QED BY <1>5, <2>2, <2>3 DEF sum
<1> QED BY <1>1, <1>2, <1>6, <1>7, <1>8

\* Whatever three sizes a sender passes to binder_alloc_new_buf, they are
\* accepted exactly when their aligned sum is a size_t, and the buffer is then
\* exactly as large as its aligned parts.
THEOREM EveryRequestIsExact == \A r \in Request : SizeIsExact(r)
<1> SUFFICES ASSUME NEW r \in Request PROVE SizeIsExact(r)
  OBVIOUS
<1> DEFINE d == r.data
           o == r.offsets
           x == r.extra
<1>1. d \in SizeT /\ o \in SizeT /\ x \in SizeT
  BY DEF Request
<1>2. /\ DataOffsets(r) = (Align(d) + Align(o)) % Limit
      /\ TotalSize(r) = (DataOffsets(r) + Align(x)) % Limit
      /\ TrueSize(r) = RoundUp(d) + RoundUp(o) + RoundUp(x)
      /\ ValidSize(r) <=> /\ DataOffsets(r) >= d /\ DataOffsets(r) >= o
                          /\ TotalSize(r) >= DataOffsets(r) /\ TotalSize(r) >= x
  BY DEF DataOffsets, TotalSize, TrueSize, ValidSize
<1> HIDE DEF d, o, x
<1>3. /\ Limit \in Nat \ {0} /\ Word \in Nat \ {0} /\ Word <= Limit
      /\ d \in Nat /\ o \in Nat /\ x \in Nat
      /\ d < Limit /\ o < Limit /\ x < Limit
      /\ RoundUp(d) \in Nat /\ RoundUp(o) \in Nat /\ RoundUp(x) \in Nat
  BY <1>1, WordAssumption, WordFits, AlignIsRoundUp DEF SizeT
<1>4. /\ d <= RoundUp(d) /\ RoundUp(d) < d + Word
      /\ RoundUp(d) < Limit => Align(d) = RoundUp(d)
      /\ RoundUp(d) >= Limit => RoundUp(d) = Limit /\ Align(d) = 0
      /\ Align(d) \in SizeT /\ Multiple(Align(d))
  BY <1>1, AlignIsRoundUp, AlignIsMultiple
<1> DEFINE s == DataOffsets(r)
           t == TotalSize(r)
<1>5. CASE RoundUp(d) < Limit
  <2>1. /\ s \in SizeT /\ Multiple(s)
        /\ (s >= d /\ s >= o) <=> RoundUp(d) + RoundUp(o) < Limit
        /\ RoundUp(d) + RoundUp(o) < Limit => s = RoundUp(d) + RoundUp(o)
    <3>1. Align(d) = RoundUp(d) /\ d <= Align(d) /\ Align(d) < d + Word
      BY <1>4, <1>5
    <3> QED BY <1>1, <1>2, <1>4, <3>1, AddIsExact
  <2>2. /\ t \in SizeT
        /\ (t >= s /\ t >= x) <=> s + RoundUp(x) < Limit
        /\ s + RoundUp(x) < Limit => t = s + RoundUp(x)
    <3> HIDE DEF s
    <3>1. s <= s /\ s < s + Word
      BY <1>3, <2>1 DEF SizeT
    <3>2. t = (s + Align(x)) % Limit
      BY <1>2 DEF s
    <3> HIDE DEF t
    <3> QED BY <1>1, <2>1, <3>1, <3>2, AddIsExact
  <2>3. ValidSize(r) <=> s >= d /\ s >= o /\ t >= s /\ t >= x
    BY <1>2
  <2> HIDE DEF s, t
  <2>4. CASE RoundUp(d) + RoundUp(o) < Limit
    BY <1>2, <1>3, <2>1, <2>2, <2>3, <2>4 DEF SizeIsExact, t
  <2>5. CASE ~(RoundUp(d) + RoundUp(o) < Limit)
    <3>1. ~ValidSize(r)
      BY <2>1, <2>3, <2>5
    <3>2. ~(TrueSize(r) < Limit)
      BY <1>2, <1>3, <2>5
    <3> QED BY <3>1, <3>2 DEF SizeIsExact
  <2> QED BY <2>4, <2>5
<1>6. CASE RoundUp(d) >= Limit
  <2>1. RoundUp(d) = Limit /\ Align(d) = 0
    BY <1>4, <1>6
  <2>2. Align(o) \in SizeT /\ Align(o) \in Int /\ Multiple(Align(o))
    BY <1>1, AlignIsMultiple
  <2>3. Align(o) + Word <= Limit
    <3>1. Align(o) < Limit
      BY <1>3, <2>2 DEF SizeT
    <3> QED BY <2>2, <3>1, MultipleFits
  <2>4. s = Align(o)
    <3>1. 0 \in SizeT /\ 0 + Align(o) = Align(o) /\ Align(o) < Limit
      BY <1>3, <2>2, <2>3 DEF SizeT
    <3>2. (0 + Align(o)) % Limit = Align(o)
      BY <2>2, <3>1, AddWraps
    <3> QED BY <1>2, <2>1, <3>2
  <2>5. ~(s >= d)
    BY <1>3, <1>4, <2>1, <2>2, <2>3, <2>4
  <2>6. ~ValidSize(r)
    BY <1>2, <2>5
  <2>7. ~(TrueSize(r) < Limit)
    BY <1>2, <1>3, <2>1
  <2> QED BY <2>6, <2>7 DEF SizeIsExact
<1> QED BY <1>3, <1>5, <1>6

-----------------------------------------------------------------------------
(* Smallest and largest elements. *)

LEMMA MinExists ==
  ASSUME NEW T \in SUBSET Nat, T # {}
  PROVE  /\ Min(T) \in T
         /\ \A y \in T : Min(T) <= y
<1>. DEFINE Below == {0 .. x : x \in T}
<1>1. Below \subseteq FiniteSubsetsOf(Nat) /\ Below # {}
  <2>1. \A x \in Nat : 0 .. x \subseteq Nat /\ IsFiniteSet(0 .. x)
    BY FS_Interval
  <2>. QED
    BY <2>1 DEF FiniteSubsetsOf
<1>2. PICK B \in Below :
        \A C \in Below : ~(<<C, B>> \in StrictSubsetOrdering(Nat))
  <2>1. IsWellFoundedOn(StrictSubsetOrdering(Nat), FiniteSubsetsOf(Nat))
    BY FS_StrictSubsetOrderingWellFounded
  <2>. HIDE DEF Below
  <2>. QED
    BY <1>1, <2>1, WFMin
<1>3. PICK x \in T : B = 0 .. x
  OBVIOUS
<1>4. ASSUME NEW y \in T, y < x PROVE FALSE
  <2>1. (0 .. y) \subseteq (0 .. x) /\ x \in 0 .. x /\ x \notin 0 .. y
    BY <1>4
  <2>2. 0 .. y \in SUBSET Nat /\ 0 .. x \in SUBSET Nat
    OBVIOUS
  <2>3. <<0 .. y, 0 .. x>> \in StrictSubsetOrdering(Nat)
    BY <2>1, <2>2 DEF StrictSubsetOrdering
  <2>. QED
    BY <1>2, <1>3, <2>3
<1>5. \A y \in T : x =< y
  BY <1>4
<1>. QED
  BY <1>5 DEF Min

LEMMA MinIs ==
  ASSUME NEW T \in SUBSET Nat, NEW m \in T, \A y \in T : m <= y
  PROVE  Min(T) = m
<1>1. Min(T) \in T /\ Min(T) <= m
  BY MinExists
<1>2. Min(T) \in Nat /\ m \in Nat /\ m <= Min(T)
  BY <1>1
<1>. QED
  BY <1>1, <1>2

LEMMA MaxExists ==
  ASSUME NEW T \in SUBSET Nat, T # {}, NEW b \in Nat, \A y \in T : y <= b
  PROVE  /\ Max(T) \in T
         /\ \A y \in T : Max(T) >= y
<1>. DEFINE D == {b - y : y \in T}
<1>1. \A y \in T : y \in Nat /\ b - y \in Nat
  OBVIOUS
<1>2. D \in SUBSET Nat /\ D # {}
  BY <1>1
<1>3. Min(D) \in D /\ \A z \in D : Min(D) <= z
  <2>. HIDE DEF D
  <2>. QED BY <1>2, MinExists
<1>4. PICK x \in T : Min(D) = b - x
  BY <1>3
<1>5. ASSUME NEW y \in T PROVE x >= y
  <2>1. b - x <= b - y
    BY <1>3, <1>4
  <2>. QED BY <2>1, <1>1
<1>. QED
  BY <1>5 DEF Max

-----------------------------------------------------------------------------
(* Pages.  Lo(p) is the first address of page p. *)

Lo(p) == p * PageSize

LEMMA PageFacts ==
  ASSUME NEW p \in Nat, NEW x \in Nat
  PROVE  /\ Lo(p) \in Nat
         /\ FloorPage(x) \in Nat /\ CeilPage(x) \in Nat
         /\ FloorPage(x) <= Lo(p) <=> x < Lo(p) + PageSize
         /\ Lo(p) < FloorPage(x) <=> Lo(p) + PageSize <= x
         /\ CeilPage(x) <= Lo(p) <=> x <= Lo(p)
         /\ Lo(p) < CeilPage(x) <=> Lo(p) < x
<1>. DEFINE P == PageSize
<1>0. P \in Nat /\ P > 0
  BY PageAssumption
<1>1. ASSUME NEW y \in Nat
      PROVE /\ FloorPage(y) \in Nat 
            /\ FloorPage(y) <= Lo(p) <=> y < Lo(p) + P
  <2>1. y \div P \in Nat /\ y % P \in 0 .. P - 1 /\ y = P * (y \div P) + (y % P)
    BY <1>0
  <2>2. FloorPage(y) = P * (y \div P)
    BY <2>1, <1>0 DEF FloorPage
  <2>. DEFINE q == y \div P
  <2>3. q <= p => P * q <= P * p
    BY <1>0, <2>1
  <2>4. q >= p + 1 => P * q >= P * p + P
    BY <1>0, <2>1
  <2>. QED BY <2>1, <2>2, <2>3, <2>4, <1>0 DEF Lo
<1>2. Lo(p) \in Nat
  BY <1>0 DEF Lo
<1>3. CeilPage(x) = FloorPage(x + P - 1) /\ x + P - 1 \in Nat
  BY <1>0 DEF CeilPage
<1>. QED BY <1>0, <1>1, <1>2, <1>3

LEMMA PageAt ==
  ASSUME NEW p \in Nat, NEW x \in Nat
  PROVE  /\ p = x \div PageSize <=> Lo(p) <= x /\ x < Lo(p) + PageSize
         /\ p = x \div PageSize => (x % PageSize = 0 <=> x = Lo(p))
         /\ p = x \div PageSize =>
              \A y \in Int :
                FloorPage(y) = FloorPage(x) <=> Lo(p) <= y /\ y < Lo(p) + PageSize
<1>. DEFINE P == PageSize
<1>0. P \in Nat /\ P > 0
  BY PageAssumption
<1>1. ASSUME NEW y \in Int
      PROVE /\ y \div P \in Int /\ y % P \in 0 .. P - 1
            /\ y = P * (y \div P) + (y % P) /\ FloorPage(y) = P * (y \div P)
  BY <1>0 DEF FloorPage
<1>2. ASSUME NEW y \in Int
      PROVE  p = y \div P <=> Lo(p) <= y /\ y < Lo(p) + P
  <2>. DEFINE q == y \div P
  <2>1. q <= p - 1 => P * q <= P * p - P
    BY <1>0, <1>1
  <2>2. q >= p + 1 => P * q >= P * p + P
    BY <1>0, <1>1
  <2>3. Lo(p) = P * p
    BY <1>0 DEF Lo
  <2>. QED
    BY SMTT(30), <1>0, <1>1, <2>1, <2>2, <2>3
<1>3. p = x \div P => (x % P = 0 <=> x = Lo(p))
  BY <1>0, <1>1 DEF Lo
<1>4. ASSUME p = x \div P, NEW y \in Int
      PROVE  FloorPage(y) = FloorPage(x) <=> p = y \div P
  <2>. DEFINE q == y \div P
  <2>1. q <= p - 1 => P * q <= P * p - P
    BY <1>0, <1>1
  <2>2. q >= p + 1 => P * q >= P * p + P
    BY <1>0, <1>1
  <2>. QED
    BY SMTT(30), <1>0, <1>1, <1>4, <2>1, <2>2
<1>. QED
  BY <1>2, <1>3, <1>4

LEMMA SpaceFacts ==
  /\ Space \in Nat /\ Space > 0 /\ PageSize \in Nat /\ PageSize > 0
  /\ \A a \in Addrs : a \in Nat /\ a < Space
  /\ 0 \in Addrs
  /\ \A p \in PageIdx : p \in Nat /\ Lo(p) \in Nat /\ Lo(p) + PageSize <= Space
<1>1. PageSize \in Nat /\ PageSize > 0 /\ NPages \in Nat /\ NPages > 0
  BY PageAssumption
<1>2. Space \in Nat /\ Space > 0
  BY <1>1 DEF Space
<1>3. 0 % Word = 0
  BY WordAssumption
<1>4. ASSUME NEW p \in PageIdx
      PROVE  p \in Nat /\ Lo(p) \in Nat /\ Lo(p) + PageSize <= Space
  <2>1. p \in Nat /\ p + 1 <= NPages
    BY <1>1 DEF PageIdx
  <2>2. PageSize * (p + 1) <= PageSize * NPages
    BY <1>1, <2>1
  <2>. QED BY <1>1, <2>1, <2>2 DEF Lo, Space
<1>. QED
  BY <1>1, <1>2, <1>3, <1>4 DEF Addrs

-----------------------------------------------------------------------------
(* The list of buffers. *)

LEMMA EndProps ==
  ASSUME NEW S \in SUBSET Addrs, NEW a \in Addrs
  PROVE  /\ EndIn(S, a) \in Nat /\ a < EndIn(S, a) /\ EndIn(S, a) <= Space
         /\ EndIn(S, a) \in S \/ EndIn(S, a) = Space
         /\ \A b \in S : a < b => EndIn(S, a) <= b
<1>. DEFINE T == {b \in S : b > a} \union {Space}
<1>1. T \in SUBSET Nat /\ T # {}
  BY SpaceFacts
<1>2. Min(T) \in T /\ \A y \in T : Min(T) <= y
  <2>. HIDE DEF T
  <2>. QED BY <1>1, MinExists
<1>3. EndIn(S, a) = Min(T)
  BY DEF EndIn
<1>. QED
  BY <1>1, <1>2, <1>3, SpaceFacts

LEMMA EndUnique ==
  ASSUME NEW S \in SUBSET Addrs, NEW a \in Addrs, NEW e \in S \union {Space},
         a < e, \A b \in S : a < b => e <= b
  PROVE  EndIn(S, a) = e
<1>1. e <= Space /\ e \in Nat
  BY SpaceFacts
<1>. QED
  BY <1>1, EndProps, SpaceFacts

LEMMA MaxBefore ==
  ASSUME NEW S \in SUBSET Addrs, NEW b \in Nat, NEW x \in S, x < b
  PROVE  LET m == Max({y \in S : y < b})
         IN  m \in S /\ m < b /\ \A y \in S : y < b => y <= m
<1>. DEFINE T == {y \in S : y < b}
<1>1. T \in SUBSET Nat /\ T # {} /\ \A y \in T : y <= b
  BY SpaceFacts
<1>2. Max(T) \in T /\ \A y \in T : Max(T) >= y
  <2>. HIDE DEF T
  <2>. QED BY <1>1, MaxExists
<1>. QED
  BY <1>1, <1>2

\* The buffer before a ends where a starts.
LEMMA PrevProps ==
  ASSUME NEW S \in SUBSET Addrs, NEW a \in S, 0 \in S, a # 0
  PROVE  LET m == Max({y \in S : y < a})
         IN  /\ m \in S /\ m < a /\ EndIn(S, m) = a
             /\ \A y \in S : y < a => y <= m
<1>. DEFINE m == Max({y \in S : y < a})
<1>1. 0 < a /\ a \in Nat
  BY SpaceFacts
<1>2. m \in S /\ m < a /\ \A y \in S : y < a => y <= m
  BY <1>1, MaxBefore
<1>. HIDE DEF m
<1>3. \A b \in S : m < b => a <= b
  BY <1>1, <1>2, SpaceFacts
<1>4. EndIn(S, m) = a
  BY <1>2, <1>3, EndUnique
<1>. QED
  BY <1>2, <1>4 DEF m

-----------------------------------------------------------------------------
(* The invariant. *)

Types ==
    /\ mapped \in BOOLEAN /\ released \in BOOLEAN
    /\ state \in [Addrs -> BufferStates]
    /\ request \in [Addrs -> Request]
    /\ async \in [Addrs -> BOOLEAN]
    /\ pages \in [PageIdx -> PageStates]

\* There are buffers only while there is a mapping.
ListShape == ~mapped \/ released => Starts = {}

IInv == Types /\ ListShape /\ Coalesced /\ SizeMatchesRequest /\ PagesFollowBuffers

E(a) == EndIn(Starts, a)

\* Bytes of the buffer at a are in page p.
Touches(a, p) == Lo(p) < E(a) /\ a < Lo(p) + PageSize

Used(p) == \E a \in Addrs : InUse(a) /\ Touches(a, p)

LEMMA TouchesIsPagesOf ==
  ASSUME NEW a \in Addrs, NEW p \in PageIdx
  PROVE  p \in PagesOf(a) <=> Touches(a, p)
<1>1. Starts \in SUBSET Addrs
  BY DEF Starts
<1>2. E(a) \in Nat /\ a \in Nat
  BY <1>1, EndProps, SpaceFacts DEF E
<1>3. a + SizeAt(a) = E(a)
  BY <1>2 DEF SizeAt, E
<1>4. p \in Nat /\ (FloorPage(a) <= Lo(p) <=> a < Lo(p) + PageSize)
  BY <1>2, PageFacts, SpaceFacts
<1>. QED
  BY <1>3, <1>4 DEF PagesOf, PageRange, Touches, Lo

LEMMA PagesAreUsed ==
  PagesFollowBuffers <=>
    \A p \in PageIdx : (pages[p] = "active" <=> Used(p)) /\ pages[p] # "warned"
BY TouchesIsPagesOf DEF PagesFollowBuffers, Used

\* What is known of the list while there is a buffer.
LEMMA ListFacts ==
  ASSUME IInv
  PROVE  /\ Starts \in SUBSET Addrs
         /\ Starts # {} => 0 \in Starts
         /\ \A a \in Addrs : InUse(a) => a \in Starts
         /\ \A a \in Starts : state[a] = "free" \/ InUse(a)
         /\ \A a \in Starts : ~(state[a] = "free" /\ InUse(a))
         /\ \A a \in Addrs : E(a) \in Nat /\ a < E(a) /\ E(a) <= Space
         /\ \A a \in Addrs : E(a) \in Starts \/ E(a) = Space
         /\ \A a \in Addrs, b \in Starts : a < b => E(a) <= b
         /\ \A a \in Starts : state[a] = "free" /\ E(a) # Space => InUse(E(a))
<1>1. Starts \in SUBSET Addrs
  BY DEF Starts
<1>2. Starts # {} => 0 \in Starts
  BY SpaceFacts DEF IInv, ListShape, Coalesced, Starts
<1>3. \A a \in Addrs : InUse(a) => a \in Starts
  BY DEF InUse, Allocated, Starts
<1>4. \A a \in Starts : state[a] = "free" \/ InUse(a)
  BY DEF InUse, Allocated, Starts, IInv, Types, BufferStates
<1>5. \A a \in Starts : ~(state[a] = "free" /\ InUse(a))
  BY DEF InUse, Allocated
<1>6. /\ \A a \in Addrs : E(a) \in Nat /\ a < E(a) /\ E(a) <= Space
      /\ \A a \in Addrs : E(a) \in Starts \/ E(a) = Space
      /\ \A a \in Addrs, b \in Starts : a < b => E(a) <= b
  BY <1>1, EndProps DEF E
<1>7. \A a \in Starts : state[a] = "free" /\ E(a) # Space => InUse(E(a))
  BY DEF IInv, Coalesced, E
<1>. QED
  BY <1>1, <1>2, <1>3, <1>4, <1>5, <1>6, <1>7

\* The buffer before a, and whether it is free.
LEMMA BeforeIt ==
  ASSUME IInv, NEW a \in Starts, a # 0
  PROVE  LET m == Max({y \in Starts : y < a})
         IN  /\ m \in Starts /\ m < a /\ E(m) = a
             /\ \A y \in Starts : y < a => y <= m
             /\ state[a] = "free" => InUse(m)
<1>. DEFINE m == Max({y \in Starts : y < a})
<1>1. m \in Starts /\ m < a /\ E(m) = a /\ \A y \in Starts : y < a => y <= m
  BY ListFacts, PrevProps DEF E
<1>. HIDE DEF m
<1>2. state[a] = "free" => InUse(m)
  <2>1. a # Space
    BY SpaceFacts, ListFacts
  <2>. QED
    BY <1>1, <2>1, ListFacts
<1>. QED
  BY <1>1, <1>2 DEF m

-----------------------------------------------------------------------------
(* Sizes. *)

LEMMA SizeFacts ==
  ASSUME NEW r \in Request
  PROVE  /\ TotalSize(r) \in Nat /\ Multiple(TotalSize(r))
         /\ Padded(r) \in Nat /\ Padded(r) > 0 /\ Multiple(Padded(r))
<1>0. Word \in Nat /\ Word > 0 /\ Limit \in Nat /\ Limit > 0
  BY WordAssumption
<1>1. \A x \in {r.data, r.offsets, r.extra} :
        Align(x) \in SizeT /\ Align(x) \in Int /\ Multiple(Align(x))
  BY AlignIsMultiple DEF Request
<1>2. ASSUME NEW x \in SizeT, NEW y \in SizeT, Multiple(x), Multiple(y)
      PROVE  (x + y) % Limit \in SizeT /\ Multiple((x + y) % Limit)
  <2>1. x \in Int /\ y \in Int /\ (x + y) % Limit \in 0 .. Limit - 1
    BY <1>0 DEF SizeT
  <2>. QED
    BY <1>2, <2>1, AddWraps, MultipleSum DEF SizeT
<1>3. DataOffsets(r) \in SizeT /\ Multiple(DataOffsets(r))
  BY <1>1, <1>2 DEF DataOffsets
<1>4. TotalSize(r) \in SizeT /\ Multiple(TotalSize(r))
  BY <1>1, <1>2, <1>3 DEF TotalSize
<1>5. TotalSize(r) \in Nat
  BY <1>0, <1>4 DEF SizeT
<1>6. Multiple(Word)
  <2>1. Word = Word * 1 /\ 1 \in Int
    BY <1>0
  <2>. QED BY <2>1, Zenon DEF Multiple
<1>7. Padded(r) \in {TotalSize(r), Word} /\ Padded(r) >= Word
  <2>1. {TotalSize(r), Word} \in SUBSET Nat /\ \A y \in {TotalSize(r), Word} : y <= TotalSize(r) + Word
    BY <1>0, <1>5
  <2>2. TotalSize(r) + Word \in Nat
    BY <1>0, <1>5
  <2>. QED
    BY <2>1, <2>2, MaxExists DEF Padded
<1>. QED
  BY <1>0, <1>4, <1>5, <1>6, <1>7

LEMMA AddrPlus ==
  ASSUME NEW a \in Addrs, NEW n \in Nat, Multiple(n), a + n < Space
  PROVE  a + n \in Addrs
<1>0. Word \in Nat \ {0} /\ a \in Int /\ a % Word = 0 /\ a + n \in 0 .. Space - 1
  BY WordAssumption, SpaceFacts DEF Addrs
<1>1. PICK q \in Int : a = (Word * q) + (a % Word)
  BY <1>0, Remainder
<1>2. PICK k \in Int : n = Word * k
  BY DEF Multiple
<1>3. a + n = (Word * (q + k)) + 0 /\ q + k \in Int /\ 0 \in 0 .. Word - 1
  BY <1>0, <1>1, <1>2
<1>4. (a + n) % Word = 0
  <2>1. ((Word * (q + k)) + 0) % Word = 0
    BY <1>0, <1>3, RemainderUnique, Zenon
  <2>. QED BY <1>3, <2>1, Zenon
<1>. QED
  BY <1>0, <1>4 DEF Addrs

-----------------------------------------------------------------------------
(* Allocation. *)

LEMMA Fits ==
  ASSUME IInv, NEW r \in Request, NEW a \in BestFit(Padded(r))
  PROVE  /\ a \in Starts /\ a \in Addrs /\ a \in Nat /\ state[a] = "free" /\ 0 \in Starts
         /\ SizeAt(a) = E(a) - a
         /\ Padded(r) \in Nat /\ Padded(r) > 0 /\ a + Padded(r) <= E(a)
         /\ ~InUse(a)
<1>1. a \in Starts /\ state[a] = "free" /\ SizeAt(a) >= Padded(r)
  BY DEF BestFit
<1>2. a \in Addrs /\ a \in Nat /\ 0 \in Starts /\ ~InUse(a) /\ E(a) \in Nat
  BY <1>1, ListFacts, SpaceFacts
<1>3. SizeAt(a) = E(a) - a
  BY DEF SizeAt, E
<1>. QED
  BY <1>1, <1>2, <1>3, SizeFacts

\* The free buffer at a is cut into the new one and the rest.
LEMMA NewBufList ==
  ASSUME IInv, NEW r \in Request, NEW a \in BestFit(Padded(r)),
         state' = [b \in Addrs |->
              CASE b = a -> "kernel"
                [] b = a + Padded(r) /\ Padded(r) # SizeAt(a) -> "free"
                [] OTHER -> state[b]]
  PROVE  /\ Starts' = Starts \union {x \in {a + Padded(r)} : x # E(a)}
         /\ E(a)' = a + Padded(r)
         /\ \A b \in Starts : b # a => E(b)' = E(b)
         /\ a + Padded(r) # E(a) =>
              /\ a + Padded(r) \in Addrs /\ E(a + Padded(r))' = E(a)
              /\ state'[a + Padded(r)] = "free" /\ a + Padded(r) \notin Starts
         /\ \A b \in Addrs : InUse(b)' <=> (b = a \/ InUse(b))
         /\ \A b \in Starts : b # a => state'[b] = state[b]
<1>. DEFINE n == a + Padded(r)
<1>1. /\ a \in Starts /\ a \in Addrs /\ a \in Nat /\ state[a] = "free"
      /\ SizeAt(a) = E(a) - a
      /\ Padded(r) \in Nat /\ Padded(r) > 0 /\ n <= E(a)
  BY Fits
<1>2. E(a) \in Nat /\ E(a) <= Space /\ a < n /\ n \in Nat
  BY <1>1, ListFacts
<1>3. Padded(r) # SizeAt(a) <=> n # E(a)
  BY <1>1, <1>2
<1>. HIDE DEF n
<1>4. n # E(a) => n \in Addrs /\ n \notin Starts
  <2>. SUFFICES ASSUME n # E(a) PROVE n \in Addrs /\ n \notin Starts
    OBVIOUS
  <2>1. n < E(a) /\ n < Space
    BY <1>1, <1>2, SpaceFacts
  <2>2. n \in Addrs
    BY <1>1, <2>1, AddrPlus, SizeFacts DEF n
  <2>. QED
    BY <1>1, <1>2, <2>1, <2>2, ListFacts
<1>5. \A b \in Addrs :
        state'[b] = IF b = a THEN "kernel"
                    ELSE IF b = n /\ n # E(a) THEN "free" ELSE state[b]
  <2>. TAKE b \in Addrs
  <2>1. state'[b] = CASE b = a -> "kernel"
                      [] b = n /\ Padded(r) # SizeAt(a) -> "free"
                      [] OTHER -> state[b]
    BY Zenon DEF n
  <2>2. a # n
    BY <1>1, <1>2
  <2>. QED
    BY <1>3, <2>1, <2>2
<1>6. Starts' = Starts \union {x \in {n} : x # E(a)}
  BY <1>1, <1>4, <1>5 DEF Starts
<1>7. Starts' \in SUBSET Addrs
  BY <1>6, <1>4, ListFacts
<1>8. E(a)' = n
  <2>1. n \in Starts' \union {Space} /\ \A b \in Starts' : a < b => n <= b
    BY <1>1, <1>2, <1>4, <1>6, ListFacts, SpaceFacts
  <2>2. EndIn(Starts', a) = n
    BY <1>1, <1>2, <1>7, <2>1, EndUnique
  <2>. QED BY <2>2 DEF E, EndIn
<1>9. ASSUME NEW b \in Starts, b # a PROVE E(b)' = E(b)
  <2>1. /\ E(b) \in Starts \union {Space} /\ b < E(b) /\ E(b) \in Nat /\ b \in Nat
        /\ \A c \in Starts : b < c => E(b) <= c
    BY ListFacts, SpaceFacts
  <2>2. n # E(a) /\ b < n => E(b) <= n
    BY <1>1, <1>2, <1>9, <2>1, ListFacts
  <2>3. E(b) \in Starts' \union {Space} /\ \A c \in Starts' : b < c => E(b) <= c
    BY <1>6, <2>1, <2>2
  <2>4. EndIn(Starts', b) = E(b)
    BY <1>7, <1>9, <2>1, <2>3, EndUnique, ListFacts
  <2>. QED BY <2>4 DEF E, EndIn
<1>10. n # E(a) => E(n)' = E(a)
  <2>. SUFFICES ASSUME n # E(a) PROVE E(n)' = E(a)
    OBVIOUS
  <2>1. E(a) \in Starts' \union {Space} /\ n < E(a)
    BY <1>1, <1>2, <1>6, ListFacts
  <2>2. \A c \in Starts' : n < c => E(a) <= c
    BY <1>1, <1>2, <1>6, ListFacts, SpaceFacts
  <2>3. EndIn(Starts', n) = E(a)
    BY <1>4, <1>7, <2>1, <2>2, EndUnique
  <2>. QED BY <2>3 DEF E, EndIn
<1>11. \A b \in Addrs : InUse(b)' <=> (b = a \/ InUse(b))
  BY <1>4, <1>5, ListFacts DEF InUse, Allocated
<1>12. n # E(a) => state'[n] = "free"
  BY <1>1, <1>2, <1>4, <1>5
<1>13. \A b \in Starts : b # a => state'[b] = state[b]
  BY <1>4, <1>5, ListFacts
<1>. QED
  BY <1>4, <1>6, <1>8, <1>9, <1>10, <1>11, <1>12, <1>13 DEF n

\* The pages asked for are used by nobody, and the others of the new buffer
\* already are, by the buffer before it or the one after the free one.
LEMMA NewBufPages ==
  ASSUME IInv, NEW r \in Request, NEW a \in BestFit(Padded(r)), NEW p \in PageIdx
  PROVE  /\ p \in PagesFor(a, Padded(r)) =>
              ~Used(p) /\ Lo(p) < a + Padded(r) /\ a < Lo(p) + PageSize
         /\ Lo(p) < a + Padded(r) /\ a < Lo(p) + PageSize =>
              p \in PagesFor(a, Padded(r)) \/ Used(p)
<1>. DEFINE n == a + Padded(r)
<1>1. /\ a \in Starts /\ a \in Addrs /\ a \in Nat /\ state[a] = "free" /\ 0 \in Starts
      /\ SizeAt(a) = E(a) - a
      /\ Padded(r) \in Nat /\ Padded(r) > 0 /\ n <= E(a)
  BY Fits
<1>2. E(a) \in Nat /\ E(a) <= Space /\ n \in Nat /\ a + SizeAt(a) = E(a)
  BY <1>1, ListFacts
<1>3. p \in Nat /\ Lo(p) \in Nat /\ PageSize \in Nat /\ PageSize > 0 /\ Lo(p) + PageSize <= Space
  BY SpaceFacts
<1>. HIDE DEF n
<1>4. p \in PagesFor(a, Padded(r)) <=> a <= Lo(p) /\ Lo(p) < n /\ Lo(p) + PageSize <= E(a)
  <2>. DEFINE T == {CeilPage(n), FloorPage(E(a))}
  <2>1. CeilPage(n) \in Nat /\ FloorPage(E(a)) \in Nat
    BY <1>2, <1>3, PageFacts
  <2>2. Min(T) \in T /\ Min(T) <= CeilPage(n) /\ Min(T) <= FloorPage(E(a))
    BY <2>1, MinExists
  <2>3. Lo(p) < Min(T) <=> Lo(p) < CeilPage(n) /\ Lo(p) < FloorPage(E(a))
    BY <1>3, <2>1, <2>2
  <2>4. PagesFor(a, Padded(r)) = PageRange(CeilPage(a), Min(T))
    BY <1>2 DEF PagesFor, n
  <2>5. p \in PagesFor(a, Padded(r)) <=> CeilPage(a) <= Lo(p) /\ Lo(p) < Min(T)
    BY <2>4 DEF PageRange, Lo
  <2>. QED
    BY <1>1, <1>2, <1>3, <2>3, <2>5, PageFacts
<1>5. ASSUME a <= Lo(p), Lo(p) + PageSize <= E(a), NEW c \in Addrs, InUse(c), Touches(c, p)
      PROVE  FALSE
  <2>1. c \in Starts /\ c # a /\ c \in Nat
    BY <1>1, <1>5, ListFacts, SpaceFacts
  <2>2. c < a => E(c) <= a
    BY <1>1, <2>1, ListFacts
  <2>3. c > a => E(a) <= c
    BY <1>1, <2>1, ListFacts
  <2>. QED
    BY <1>1, <1>2, <1>3, <1>5, <2>1, <2>2, <2>3, ListFacts DEF Touches
<1>6. ASSUME Lo(p) < a, a < Lo(p) + PageSize PROVE Used(p)
  <2>. DEFINE m == Max({y \in Starts : y < a})
  <2>1. a # 0
    BY <1>1, <1>3, <1>6
  <2>2. m \in Starts /\ m < a /\ E(m) = a /\ InUse(m)
    BY <1>1, <2>1, BeforeIt
  <2>. HIDE DEF m
  <2>3. m \in Addrs /\ m \in Nat
    BY <2>2, ListFacts, SpaceFacts
  <2>. QED
    BY <1>1, <1>3, <1>6, <2>2, <2>3 DEF Used, Touches
<1>7. ASSUME a <= Lo(p), Lo(p) < n, Lo(p) + PageSize > E(a) PROVE Used(p)
  <2>1. E(a) # Space
    BY <1>2, <1>3, <1>7
  <2>2. InUse(E(a)) /\ E(a) \in Addrs
    BY <1>1, <2>1, ListFacts
  <2>3. E(a) < E(E(a)) /\ E(E(a)) \in Nat
    BY <2>2, ListFacts
  <2>4. Touches(E(a), p)
    BY <1>1, <1>2, <1>3, <1>7, <2>3 DEF Touches
  <2>. QED
    BY <2>2, <2>4 DEF Used
<1>8. p \in PagesFor(a, Padded(r)) => ~Used(p) /\ Lo(p) < n /\ a < Lo(p) + PageSize
  BY <1>1, <1>3, <1>4, <1>5 DEF Used
<1>9. Lo(p) < n /\ a < Lo(p) + PageSize => p \in PagesFor(a, Padded(r)) \/ Used(p)
  BY <1>1, <1>2, <1>3, <1>4, <1>6, <1>7
<1>. QED
  BY <1>8, <1>9 DEF n

LEMMA NewBufKeeps ==
  ASSUME IInv, NEW r \in Request, NEW isAsync \in BOOLEAN, NewBuf(r, isAsync)
  PROVE  IInv'
<1>1. PICK a \in BestFit(Padded(r)) :
        /\ pages' = TakePages(PagesFor(a, Padded(r)))
        /\ state' = [b \in Addrs |->
              CASE b = a -> "kernel"
                [] b = a + Padded(r) /\ Padded(r) # SizeAt(a) -> "free"
                [] OTHER -> state[b]]
        /\ request' = [request EXCEPT ![a] = r]
        /\ async' = [async EXCEPT ![a] = isAsync]
  BY DEF NewBuf
<1>2. mapped' = mapped /\ released' = released
  BY DEF NewBuf, mapVars
<1>3. /\ a \in Starts /\ a \in Addrs /\ a \in Nat /\ state[a] = "free" /\ 0 \in Starts
      /\ Padded(r) \in Nat /\ Padded(r) > 0 /\ a + Padded(r) <= E(a) /\ ~InUse(a)
  BY Fits
<1>4. /\ Starts' = Starts \union {x \in {a + Padded(r)} : x # E(a)}
      /\ E(a)' = a + Padded(r)
      /\ \A b \in Starts : b # a => E(b)' = E(b)
      /\ a + Padded(r) # E(a) =>
           /\ a + Padded(r) \in Addrs /\ E(a + Padded(r))' = E(a)
           /\ state'[a + Padded(r)] = "free" /\ a + Padded(r) \notin Starts
      /\ \A b \in Addrs : InUse(b)' <=> (b = a \/ InUse(b))
      /\ \A b \in Starts : b # a => state'[b] = state[b]
  BY <1>1, NewBufList
<1>5. Types'
  <2>1. state' \in [Addrs -> BufferStates]
    BY <1>1 DEF IInv, Types, BufferStates
  <2>2. pages' \in [PageIdx -> PageStates]
    BY <1>1 DEF IInv, Types, TakePages, PageStates
  <2>3. request' \in [Addrs -> Request] /\ async' \in [Addrs -> BOOLEAN]
    BY <1>1 DEF IInv, Types
  <2>. QED
    BY <1>2, <2>1, <2>2, <2>3 DEF IInv, Types
<1>6. ListShape'
  BY <1>2, <1>3 DEF IInv, ListShape
<1>7. Coalesced'
  <2>1. state'[0] # "none"
    BY <1>3, <1>4 DEF Starts
  <2>2. ASSUME NEW b \in Starts', state'[b] = "free", E(b)' # Space PROVE InUse(E(b))'
    <3>1. CASE b \in Starts
      <4>1. b # a /\ state[b] = "free" /\ E(b)' = E(b)
        BY <1>3, <1>4, <2>2, <3>1 DEF InUse, Allocated
      <4>2. InUse(E(b)) /\ E(b) \in Addrs
        BY <2>2, <3>1, <4>1, ListFacts
      <4>. QED
        BY <1>4, <4>1, <4>2 DEF InUse
    <3>2. CASE b \notin Starts
      <4>1. b = a + Padded(r) /\ b # E(a) /\ E(b)' = E(a)
        BY <1>4, <3>2
      <4>2. InUse(E(a)) /\ E(a) \in Addrs
        BY <1>3, <2>2, <4>1, ListFacts
      <4>. QED
        BY <1>4, <4>1, <4>2 DEF InUse
    <3>. QED BY <3>1, <3>2
  <2>. QED
    BY <2>1, <2>2 DEF Coalesced, E
<1>8. SizeMatchesRequest'
  <2>1. ASSUME NEW b \in Addrs, InUse(b)' PROVE (SizeAt(b) = Padded(request[b]))'
    <3>1. CASE b = a
      <4>1. request'[a] = r
        BY <1>1, <1>3 DEF IInv, Types
      <4>2. SizeAt(a)' = Padded(r)
        BY <1>3, <1>4 DEF SizeAt, E
      <4>. QED
        BY <3>1, <4>1, <4>2 DEF Padded
    <3>2. CASE b # a
      <4>1. InUse(b) /\ b \in Starts /\ E(b)' = E(b)
        BY <1>4, <2>1, <3>2, ListFacts
      <4>2. request'[b] = request[b]
        BY <1>1, <3>2 DEF IInv, Types
      <4>3. SizeAt(b)' = SizeAt(b)
        BY <4>1 DEF SizeAt, E
      <4>. QED
        BY <4>1, <4>2, <4>3 DEF IInv, SizeMatchesRequest, Padded
    <3>. QED BY <3>1, <3>2
  <2>. QED
    BY <2>1 DEF SizeMatchesRequest
<1>9. PagesFollowBuffers'
  <2>1. ASSUME NEW p \in PageIdx
        PROVE  Used(p)' <=> Used(p) \/ (Lo(p) < a + Padded(r) /\ a < Lo(p) + PageSize)
    <3>1. \A b \in Addrs : InUse(b) => (Touches(b, p)' <=> Touches(b, p)) /\ b # a
      BY <1>3, <1>4, ListFacts DEF Touches, Lo
    <3>2. Touches(a, p)' <=> Lo(p) < a + Padded(r) /\ a < Lo(p) + PageSize
      BY <1>4 DEF Touches, Lo
    <3>. QED
      BY <1>3, <1>4, <3>1, <3>2 DEF Used
  <2>2. \A p \in PageIdx : (pages[p] = "active" <=> Used(p)) /\ pages[p] # "warned"
    BY PagesAreUsed DEF IInv
  <2>3. ASSUME NEW p \in PageIdx
        PROVE  (pages'[p] = "active" <=> Used(p)') /\ pages'[p] # "warned"
    <3>1. pages'[p] = IF p \notin PagesFor(a, Padded(r)) THEN pages[p]
                      ELSE IF pages[p] = "active" THEN "warned" ELSE "active"
      BY <1>1 DEF TakePages
    <3>. QED
      BY <2>1, <2>2, <3>1, NewBufPages
  <2>4. (\A p \in PageIdx : (pages[p] = "active" <=> Used(p)) /\ pages[p] # "warned")'
    BY <2>3
  <2>. QED
    BY <2>4, PagesAreUsed, PTL
<1>. QED
  BY <1>5, <1>6, <1>7, <1>8, <1>9 DEF IInv

-----------------------------------------------------------------------------
(* Steps that leave the list alone. *)

\* Pages nobody uses come and go.
LEMMA UnusedPagesKeep ==
  ASSUME IInv, UNCHANGED <<mapVars, bufVars>>,
         pages' \in [PageIdx -> PageStates],
         \A p \in PageIdx : \/ pages'[p] = pages[p]
                            \/ ~Used(p) /\ pages'[p] \in {"lru", "none"}
  PROVE  IInv'
<1>1. Types' /\ ListShape' /\ Coalesced' /\ SizeMatchesRequest'
  BY DEF mapVars, bufVars, IInv, Types, ListShape, Coalesced, SizeMatchesRequest,
         Starts, EndIn, InUse, SizeAt, Padded
<1>2. \A p \in PageIdx : Used(p)' <=> Used(p)
  BY DEF bufVars, Used, InUse, Touches, E, EndIn, Starts, Lo
<1>3. \A p \in PageIdx : (pages[p] = "active" <=> Used(p)) /\ pages[p] # "warned"
  BY PagesAreUsed DEF IInv
<1>4. (\A p \in PageIdx : (pages[p] = "active" <=> Used(p)) /\ pages[p] # "warned")'
  BY <1>2, <1>3
<1>5. PagesFollowBuffers'
  BY <1>4, PagesAreUsed, PTL
<1>. QED
  BY <1>1, <1>5 DEF IInv

LEMMA NewBufNoPageKeeps ==
  ASSUME IInv, NEW r \in Request, NEW isAsync \in BOOLEAN, NewBufNoPage(r, isAsync)
  PROVE  IInv'
<1>1. PICK a \in BestFit(Padded(r)), p \in PageIdx :
        pages' = [q \in PageIdx |->
                   IF q \in PagesFor(a, Padded(r)) /\ q < p THEN "lru" ELSE pages[q]]
  BY DEF NewBufNoPage, Missing, PagesFor, PageRange
<1>2. pages' \in [PageIdx -> PageStates]
  BY <1>1 DEF IInv, Types, PageStates
<1>3. \A q \in PageIdx : pages'[q] = pages[q] \/ (~Used(q) /\ pages'[q] \in {"lru", "none"})
  BY <1>1, NewBufPages
<1>4. UNCHANGED <<mapVars, bufVars>>
  BY DEF NewBufNoPage
<1>. QED
  BY <1>2, <1>3, <1>4, UnusedPagesKeep

LEMMA NewBufNoStructKeeps ==
  ASSUME IInv, NEW r \in Request, NEW isAsync \in BOOLEAN, NewBufNoStruct(r, isAsync)
  PROVE  IInv'
<1>1. PICK a \in BestFit(Padded(r)) :
        pages' = [q \in PageIdx |->
                   IF q \in PagesFor(a, Padded(r)) THEN "lru" ELSE pages[q]]
  BY DEF NewBufNoStruct
<1>2. pages' \in [PageIdx -> PageStates]
  BY <1>1 DEF IInv, Types, PageStates
<1>3. \A q \in PageIdx : pages'[q] = pages[q] \/ (~Used(q) /\ pages'[q] \in {"lru", "none"})
  BY <1>1, NewBufPages
<1>4. UNCHANGED <<mapVars, bufVars>>
  BY DEF NewBufNoStruct
<1>. QED
  BY <1>2, <1>3, <1>4, UnusedPagesKeep

LEMMA ShrinkPageKeeps ==
  ASSUME IInv, NEW p \in PageIdx, ShrinkPage(p)
  PROVE  IInv'
<1>1. pages' = [pages EXCEPT ![p] = "none"] /\ pages[p] = "lru"
  BY DEF ShrinkPage
<1>2. pages' \in [PageIdx -> PageStates]
  BY <1>1 DEF IInv, Types, PageStates
<1>3. ~Used(p)
  BY <1>1, PagesAreUsed DEF IInv
<1>4. \A q \in PageIdx : pages'[q] = pages[q] \/ (~Used(q) /\ pages'[q] \in {"lru", "none"})
  BY <1>1, <1>3 DEF IInv, Types
<1>5. UNCHANGED <<mapVars, bufVars>>
  BY DEF ShrinkPage
<1>. QED
  BY <1>2, <1>4, <1>5, UnusedPagesKeep

\* An allocated buffer passes from hand to hand.
LEMMA HandOverKeeps ==
  ASSUME IInv, NEW a \in Addrs, AllowUserFree(a) \/ PrepareToFree(a)
  PROVE  IInv'
<1>1. /\ \E x \in {"user", "freeing"} : state' = [state EXCEPT ![a] = x]
      /\ state[a] \in {"kernel", "user"}
      /\ UNCHANGED <<mapVars, request, async, pages>>
  BY DEF AllowUserFree, PrepareToFree
<1>2. state' \in [Addrs -> BufferStates]
  BY <1>1 DEF IInv, Types, BufferStates
<1>3. \A b \in Addrs : /\ state'[b] = "none" <=> state[b] = "none"
                       /\ state'[b] = "free" <=> state[b] = "free"
                       /\ InUse(b)' <=> InUse(b)
  BY <1>1 DEF IInv, Types, InUse, Allocated
<1>4. Starts' = Starts
  BY <1>3 DEF Starts
<1>5. \A b \in Addrs : /\ EndIn(Starts, b)' = EndIn(Starts, b)
                       /\ SizeAt(b)' = SizeAt(b) /\ E(b)' = E(b)
                       /\ Padded(request[b])' = Padded(request[b])
  BY <1>1, <1>4 DEF EndIn, SizeAt, E, Padded
<1>6. Types' /\ ListShape'
  BY <1>1, <1>2, <1>4 DEF IInv, Types, ListShape, mapVars
<1>7. Coalesced'
  <2>1. Starts \in SUBSET Addrs /\ 0 \in Addrs
    BY SpaceFacts DEF Starts
  <2>2. \A b \in Starts : EndIn(Starts, b) # Space => EndIn(Starts, b) \in Addrs
    BY <2>1, EndProps
  <2>. QED
    BY <1>1, <1>3, <1>4, <1>5, <2>1, <2>2 DEF IInv, Coalesced, mapVars
<1>8. SizeMatchesRequest'
  BY <1>3, <1>5 DEF IInv, SizeMatchesRequest
<1>9. \A p \in PageIdx : Used(p)' <=> Used(p)
  BY <1>3, <1>5 DEF Used, Touches, Lo
<1>10. (\A p \in PageIdx : (pages[p] = "active" <=> Used(p)) /\ pages[p] # "warned")'
  BY <1>1, <1>9, PagesAreUsed DEF IInv
<1>11. PagesFollowBuffers'
  BY <1>10, PagesAreUsed, PTL
<1>. QED
  BY <1>6, <1>7, <1>8, <1>11 DEF IInv

\* With no buffer there is nothing to get wrong.
Nothing ==
  /\ Types /\ Starts = {} /\ (~mapped \/ released)
  /\ \A p \in PageIdx : pages[p] \notin {"active", "warned"}

LEMMA NoBuffers == Nothing => IInv
<1>1. Nothing => \A a \in Addrs : ~InUse(a)
  BY DEF Nothing, InUse, Allocated, Starts
<1>. QED
  BY <1>1 DEF Nothing, IInv, ListShape, Coalesced, SizeMatchesRequest, PagesFollowBuffers

LEMMA MmapHandlerKeeps == ASSUME IInv, MmapHandler PROVE IInv'
<1>1. /\ ~mapped /\ ~released /\ mapped' = TRUE /\ released' = released
      /\ state' = [state EXCEPT ![0] = "free"]
      /\ UNCHANGED <<request, async, pages>>
  BY DEF MmapHandler
<1>2. Starts = {} /\ 0 \in Addrs
  BY <1>1, SpaceFacts DEF IInv, ListShape
<1>3. \A a \in Addrs : ~InUse(a)
  BY <1>2 DEF InUse, Allocated, Starts
<1>4. state' \in [Addrs -> BufferStates] /\ state'[0] = "free"
  BY <1>1, <1>2 DEF IInv, Types, BufferStates
<1>5. Starts' = {0}
  BY <1>1, <1>2, <1>4 DEF IInv, Types, Starts
<1>6. \A a \in Addrs : ~InUse(a)'
  BY <1>1, <1>2, <1>3 DEF IInv, Types, InUse, Allocated
<1>7. EndIn(Starts', 0) = Space
  <2>1. {0} \in SUBSET Addrs /\ 0 < Space /\ \A b \in {0} : 0 < b => Space <= b
    BY <1>2, SpaceFacts
  <2>2. EndIn({0}, 0) = Space
    BY <1>2, <2>1, EndUnique
  <2>. QED BY <1>5, <2>2
<1>8. EndIn(Starts, 0)' = Space
  BY <1>7 DEF EndIn
<1>9. Types' /\ ListShape'
  BY <1>1, <1>4 DEF IInv, Types, ListShape
<1>10. Coalesced'
  BY <1>4, <1>5, <1>8 DEF Coalesced
<1>11. SizeMatchesRequest' /\ PagesFollowBuffers'
  BY <1>1, <1>3, <1>6 DEF IInv, SizeMatchesRequest, PagesFollowBuffers
<1>. QED
  BY <1>9, <1>10, <1>11 DEF IInv

LEMMA DeferredReleaseKeeps == ASSUME IInv, DeferredRelease PROVE IInv'
<1>1. /\ released' = TRUE /\ mapped' = mapped
      /\ state' = [a \in Addrs |-> "none"]
      /\ request' = [a \in Addrs |-> NoRequest]
      /\ async' = [a \in Addrs |-> FALSE]
      /\ pages' = [p \in PageIdx |-> "none"]
  BY DEF DeferredRelease
<1>2. NoRequest \in Request
  BY WordAssumption DEF NoRequest, Request, SizeT
<1>3. Types' /\ Starts' = {}
  BY <1>1, <1>2 DEF IInv, Types, Starts, BufferStates, PageStates
<1>4. Nothing'
  BY <1>1, <1>3 DEF Nothing
<1>. QED
  BY <1>4, NoBuffers, PTL

-----------------------------------------------------------------------------
(* Freeing. *)

Prev(a) == Max({y \in Starts : y < a})

\* What is known of the neighbours of an allocated buffer.
LEMMA Neighbours ==
  ASSUME IInv, NEW a \in Addrs, InUse(a)
  PROVE  /\ a \in Starts /\ a \in Nat /\ 0 \in Starts
         /\ E(a) \in Nat /\ a < E(a)
         /\ MergesNext(a) <=> E(a) # Space /\ state[E(a)] = "free"
         /\ MergesPrev(a) <=> a # 0 /\ state[Prev(a)] = "free"
         /\ a # 0 => /\ Prev(a) \in Starts /\ Prev(a) < a /\ E(Prev(a)) = a
                     /\ \A y \in Starts : y < a => y <= Prev(a)
<1>1. a \in Starts /\ a \in Nat /\ 0 \in Starts /\ E(a) \in Nat /\ a < E(a)
  BY ListFacts, SpaceFacts
<1>2. MergesNext(a) <=> E(a) # Space /\ state[E(a)] = "free"
  BY DEF MergesNext, E
<1>3. {b \in Starts : b < a} # {} <=> a # 0
  <2>1. a # 0 => 0 \in {b \in Starts : b < a}
    BY <1>1
  <2>2. ASSUME NEW b \in Starts, b < a PROVE a # 0
    <3>1. b \in Nat
      BY ListFacts, SpaceFacts
    <3>. QED
      BY <1>1, <2>2, <3>1
  <2>. QED
    BY <2>1, <2>2
<1>4. MergesPrev(a) <=> a # 0 /\ state[Prev(a)] = "free"
  BY <1>3 DEF MergesPrev, Prev
<1>5. a # 0 => /\ Prev(a) \in Starts /\ Prev(a) < a /\ E(Prev(a)) = a
               /\ \A y \in Starts : y < a => y <= Prev(a)
  BY <1>1, BeforeIt DEF Prev
<1>. QED
  BY <1>1, <1>2, <1>4, <1>5

\* The free buffer that comes of it: where it starts and where it ends.
FreeStart(a) == IF MergesPrev(a) THEN Prev(a) ELSE a
FreeEnd(a) == IF MergesNext(a) THEN E(E(a)) ELSE E(a)

LEMMA FreeBufList ==
  ASSUME IInv, NEW a \in Addrs, InUse(a),
         state' = [b \in Addrs |->
             CASE b = a -> IF MergesPrev(a) THEN "none" ELSE "free"
               [] b = EndIn(Starts, a) /\ MergesNext(a) -> "none"
               [] OTHER -> state[b]]
  PROVE  /\ Starts' = {b \in Starts : /\ b = a => ~MergesPrev(a)
                                      /\ b = E(a) => ~MergesNext(a)}
         /\ FreeStart(a) \in Starts' /\ EndIn(Starts', FreeStart(a)) = FreeEnd(a)
         /\ \A b \in Starts' : b # FreeStart(a) =>
              /\ E(b)' = E(b) /\ state'[b] = state[b]
              /\ state[b] = "free" => E(b) # a
         /\ FreeEnd(a) = Space \/ (InUse(FreeEnd(a)) /\ FreeEnd(a) # a /\ FreeEnd(a) \in Addrs)
         /\ \A b \in Addrs : InUse(b)' <=> InUse(b) /\ b # a
<1>. DEFINE mp == MergesPrev(a)
            mn == MergesNext(a)
            m == Prev(a)
            n == E(a)
            s == FreeStart(a)
            e == FreeEnd(a)
<1>1. /\ a \in Starts /\ a \in Nat /\ 0 \in Starts
      /\ n \in Nat /\ a < n
      /\ mn <=> n # Space /\ state[n] = "free"
      /\ mp <=> a # 0 /\ state[m] = "free"
      /\ a # 0 => /\ m \in Starts /\ m < a /\ E(m) = a
                  /\ \A y \in Starts : y < a => y <= m
  BY Neighbours
<1>2. mn => n \in Starts /\ n \in Addrs
  BY <1>1, ListFacts
<1>3. s = IF mp THEN m ELSE a
  BY DEF FreeStart
<1>4. e = IF mn THEN E(n) ELSE n
  BY DEF FreeEnd
<1>5. \A b \in Addrs :
        state'[b] = IF b = a THEN IF mp THEN "none" ELSE "free"
                    ELSE IF b = n /\ mn THEN "none" ELSE state[b]
  <2>. TAKE b \in Addrs
  <2>1. state'[b] = CASE b = a -> IF mp THEN "none" ELSE "free"
                      [] b = n /\ mn -> "none"
                      [] OTHER -> state[b]
    BY Zenon DEF E
  <2>2. a # n
    BY <1>1
  <2>. QED
    BY <2>1, <2>2
<1>. HIDE DEF mp, mn, m, n, s, e
<1>6. Starts' = {b \in Starts : (b = a => ~mp) /\ (b = n => ~mn)}
  BY <1>1, <1>5 DEF Starts
<1>7. Starts' \in SUBSET Addrs
  BY <1>6, ListFacts
<1>8. s \in Starts' /\ s \in Starts
  BY <1>1, <1>3, <1>6
<1>9. e = Space \/ (e \in Starts /\ InUse(e) /\ e > a /\ e >= n)
  <2>1. CASE mn
    <3>1. e = E(n) /\ n < E(n)
      BY <1>2, <1>4, <2>1, ListFacts
    <3>. QED
      BY <1>1, <1>2, <2>1, <3>1, ListFacts
  <2>2. CASE ~mn
    BY <1>1, <1>4, <2>2, ListFacts DEF n
  <2>. QED BY <2>1, <2>2
<1>10. e \in Nat /\ s \in Nat /\ s < e /\ s <= a /\ n <= e
  BY <1>1, <1>2, <1>3, <1>4, <1>8, ListFacts, SpaceFacts
<1>11. EndIn(Starts', s) = e
  <2>1. e \in Starts' \union {Space}
    <3>. SUFFICES ASSUME e # Space PROVE e \in Starts'
      OBVIOUS
    <3>1. e \in Starts /\ e # a
      BY <1>1, <1>9, <1>10
    <3>2. ~(e = n /\ mn)
      BY <1>2, <1>4, ListFacts
    <3>. QED
      BY <1>6, <3>1, <3>2
  <2>2. ASSUME NEW b \in Starts', s < b PROVE e <= b
    <3>1. b \in Starts /\ b \in Nat /\ (b = a => ~mp) /\ (b = n => ~mn)
      BY <1>6, ListFacts, SpaceFacts
    <3>2. b # a /\ ~(b < a)
      BY <1>1, <1>3, <1>8, <2>2, <3>1, SpaceFacts, ListFacts
    <3>3. n <= b
      BY <1>1, <3>1, <3>2, ListFacts DEF n
    <3>. QED
      BY <1>1, <1>2, <1>4, <3>1, <3>3, ListFacts
  <2>. QED
    BY <1>7, <1>8, <1>10, <2>1, <2>2, EndUnique
<1>12. ASSUME NEW b \in Starts', b # s
       PROVE  E(b)' = E(b) /\ state'[b] = state[b] /\ (E(b) = a => state[b] # "free")
  <2>1. /\ b \in Starts /\ b \in Addrs /\ b \in Nat /\ b # a
        /\ E(b) \in Starts \union {Space} /\ b < E(b) /\ E(b) \in Nat
        /\ \A c \in Starts : b < c => E(b) <= c
    BY <1>3, <1>6, <1>12, ListFacts, SpaceFacts
  <2>2. E(b) = a => a # 0 /\ b = m
    <3>. SUFFICES ASSUME E(b) = a PROVE a # 0 /\ b = m
      OBVIOUS
    <3>1. a # 0 /\ b <= m
      BY <1>1, <2>1
    <3>2. m \in Nat /\ m < a /\ m \in Starts
      BY <1>1, <3>1, ListFacts, SpaceFacts
    <3>. QED
      BY <1>1, <2>1, <3>1, <3>2
  <2>3. E(b) # n
    <3>. SUFFICES ASSUME E(b) = n PROVE FALSE
      OBVIOUS
    <3>1. ~(b < a)
      BY <1>1, <2>1
    <3>2. b > a => n <= b
      BY <1>1, <2>1, ListFacts DEF n
    <3>. QED
      BY <1>1, <2>1, <3>1, <3>2
  <2>4. E(b) = a => ~mp
    BY <1>3, <1>12, <2>2
  <2>5. E(b) \in Starts' \union {Space} /\ \A c \in Starts' : b < c => E(b) <= c
    <3>1. E(b) \in Starts => E(b) \in Starts'
      BY <1>6, <2>3, <2>4
    <3>. QED
      BY <1>6, <2>1, <3>1
  <2>6. EndIn(Starts', b) = E(b)
    BY <1>7, <2>1, <2>5, EndUnique
  <2>7. E(b)' = E(b)
    BY <2>6 DEF E, EndIn
  <2>8. state'[b] = state[b]
    BY <1>5, <1>6, <2>1
  <2>9. E(b) = a => state[b] # "free"
    BY <1>1, <2>2, <2>4
  <2>. QED
    BY <2>7, <2>8, <2>9
<1>13. \A b \in Addrs : InUse(b)' <=> InUse(b) /\ b # a
  BY <1>1, <1>5, ListFacts DEF InUse, Allocated
<1>14. e = Space \/ (InUse(e) /\ e # a /\ e \in Addrs)
  BY <1>1, <1>9, <1>10, ListFacts
<1>. QED
  BY <1>6, <1>8, <1>11, <1>12, <1>13, <1>14 DEF mp, mn, n, s, e

\* The page that goes with an entry: it starts before b and ends after it, and
\* the entries before and after b have nothing in it.
LEMMA LastPageIs ==
  ASSUME NEW S \in SUBSET Addrs, NEW b \in S, 0 \in S, b # 0, NEW p \in PageIdx
  PROVE  p \in LastPage(S, b) <=>
           /\ Max({x \in S : x < b}) <= Lo(p) /\ Lo(p) < b
           /\ b < Lo(p) + PageSize /\ Lo(p) + PageSize <= EndIn(S, b)
<1>. DEFINE m == Max({x \in S : x < b})
            n == EndIn(S, b)
            page == b \div PageSize
<1>1. m \in S /\ m < b
  BY PrevProps
<1>2. n \in Nat /\ b < n /\ n <= Space
  BY EndProps
<1>. HIDE DEF m, n
<1>3. b \in Nat /\ m \in Nat /\ m - 1 \in Int /\ p \in Nat /\ Lo(p) \in Nat
      /\ PageSize \in Nat /\ Lo(p) + PageSize <= Space
  BY <1>1, SpaceFacts
<1>4. p \in LastPage(S, b) <=>
        /\ p = page
        /\ FloorPage(m - 1) # FloorPage(b)
        /\ ~(n # Space /\ FloorPage(n) = FloorPage(b))
        /\ b % PageSize # 0
  BY DEF LastPage, m, n
<1>5. /\ p = page <=> Lo(p) <= b /\ b < Lo(p) + PageSize
      /\ p = page =>
           /\ b % PageSize = 0 <=> b = Lo(p)
           /\ FloorPage(m - 1) = FloorPage(b) <=> Lo(p) <= m - 1 /\ m - 1 < Lo(p) + PageSize
           /\ FloorPage(n) = FloorPage(b) <=> Lo(p) <= n /\ n < Lo(p) + PageSize
  BY <1>2, <1>3, PageAt
<1>. HIDE DEF page
<1>6. p \in LastPage(S, b) <=>
        /\ m <= Lo(p) /\ Lo(p) < b /\ b < Lo(p) + PageSize /\ Lo(p) + PageSize <= n
  BY <1>1, <1>2, <1>3, <1>4, <1>5
<1>. QED
  BY <1>6 DEF m, n

\* The free buffer that comes of it covers a page exactly when no other
\* allocated buffer is in that page.
LEMMA OthersIn ==
  ASSUME IInv, NEW a \in Addrs, InUse(a), NEW p \in PageIdx, Touches(a, p)
  PROVE  (\E c \in Addrs : c # a /\ InUse(c) /\ Touches(c, p)) <=>
           ~(FreeStart(a) <= Lo(p) /\ Lo(p) + PageSize <= FreeEnd(a))
<1>. DEFINE mp == MergesPrev(a)
            mn == MergesNext(a)
            m == Prev(a)
            n == E(a)
            lo == Lo(p)
            hi == Lo(p) + PageSize
<1>1. /\ a \in Starts /\ a \in Nat /\ 0 \in Starts
      /\ n \in Nat /\ a < n
      /\ mn <=> n # Space /\ state[n] = "free"
      /\ mp <=> a # 0 /\ state[m] = "free"
      /\ a # 0 => /\ m \in Starts /\ m < a /\ E(m) = a
                  /\ \A y \in Starts : y < a => y <= m
  BY Neighbours
<1>2. lo \in Nat /\ hi \in Nat /\ lo < hi /\ lo < n /\ a < hi /\ hi <= Space
  BY SpaceFacts DEF Touches
<1>3. FreeStart(a) = IF mp THEN m ELSE a
  BY DEF FreeStart
<1>4. FreeEnd(a) = IF mn THEN E(n) ELSE n
  BY DEF FreeEnd
<1>5. \A c \in Addrs : Touches(c, p) <=> lo < E(c) /\ c < hi
  BY DEF Touches
<1>6. n \in Starts \/ n = Space
  BY <1>1, ListFacts
<1>. HIDE DEF mp, mn, m, n, lo, hi
<1>7. ASSUME lo < FreeStart(a)
      PROVE  \E c \in Addrs : c # a /\ InUse(c) /\ Touches(c, p)
  <2>0. a # 0 /\ m \in Nat /\ m \in Addrs /\ m < a
    <3>1. a # 0
      BY <1>1, <1>2, <1>3, <1>7
    <3>. QED
      BY <1>1, <3>1, ListFacts, SpaceFacts
  <2>1. CASE mp
    <3>1. lo < m /\ m # 0 /\ m \in Starts /\ state[m] = "free"
      BY <1>1, <1>2, <1>3, <1>7, <2>0, <2>1
    <3>. DEFINE k == Max({y \in Starts : y < m})
    <3>2. k \in Starts /\ k < m /\ E(k) = m /\ InUse(k)
      BY <3>1, BeforeIt
    <3>. HIDE DEF k
    <3>3. k \in Addrs /\ k \in Nat
      BY <3>2, ListFacts, SpaceFacts
    <3>4. k # a /\ Touches(k, p)
      BY <1>1, <1>2, <1>5, <2>0, <3>1, <3>2, <3>3
    <3>. QED
      BY <3>2, <3>3, <3>4
  <2>2. CASE ~mp
    <3>1. lo < a /\ InUse(m) /\ E(m) = a
      BY <1>1, <1>3, <1>7, <2>0, <2>2, ListFacts
    <3>2. Touches(m, p) /\ m # a
      BY <1>1, <1>2, <1>5, <2>0, <3>1
    <3>. QED
      BY <2>0, <3>1, <3>2
  <2>. QED
    BY <2>1, <2>2
<1>8. ASSUME FreeEnd(a) < hi
      PROVE  \E c \in Addrs : c # a /\ InUse(c) /\ Touches(c, p)
  <2>. DEFINE e == FreeEnd(a)
  <2>1. e \in Addrs /\ InUse(e) /\ e >= n /\ e \in Nat
    <3>1. CASE mn
      <4>1. n \in Starts /\ n \in Addrs /\ state[n] = "free" /\ e = E(n)
        BY <1>1, <1>4, <1>6, <3>1, ListFacts
      <4>2. E(n) # Space /\ E(n) \in Starts /\ n < E(n)
        BY <1>2, <1>8, <4>1, ListFacts, SpaceFacts
      <4>. QED
        BY <4>1, <4>2, ListFacts, SpaceFacts
    <3>2. CASE ~mn
      <4>1. e = n /\ n # Space /\ n \in Starts
        BY <1>1, <1>2, <1>4, <1>6, <1>8, <3>2, SpaceFacts
      <4>. QED
        BY <1>1, <3>2, <4>1, ListFacts
    <3>. QED
      BY <3>1, <3>2
  <2>. HIDE DEF e
  <2>2. E(e) \in Nat /\ e < E(e)
    BY <2>1, ListFacts
  <2>3. Touches(e, p) /\ e # a
    BY <1>1, <1>2, <1>5, <1>8, <2>1, <2>2 DEF e
  <2>. QED
    BY <2>1, <2>3
<1>9. ASSUME FreeStart(a) <= lo, hi <= FreeEnd(a),
             NEW c \in Addrs, c # a, InUse(c), Touches(c, p)
      PROVE  FALSE
  <2>1. c \in Starts /\ c \in Nat /\ E(c) \in Nat /\ lo < E(c) /\ c < hi
        /\ state[c] # "free"
    BY <1>5, <1>9, ListFacts, SpaceFacts
  <2>2. CASE c < a
    <3>0. a # 0
      BY <1>1, <2>1, <2>2
    <3>1. a # 0 /\ c <= m /\ m \in Nat /\ m \in Starts
      BY <1>1, <2>1, <2>2, <3>0, ListFacts, SpaceFacts
    <3>2. CASE mp
      <4>1. c < m /\ E(c) <= m
        BY <1>1, <2>1, <3>1, <3>2, ListFacts
      <4>. QED
        BY <1>2, <1>3, <1>9, <2>1, <3>1, <3>2, <4>1
    <3>3. CASE ~mp
      <4>1. E(c) <= a
        BY <1>1, <2>2, ListFacts
      <4>. QED
        BY <1>1, <1>2, <1>3, <1>9, <2>1, <3>3, <4>1
    <3>. QED
      BY <3>2, <3>3
  <2>3. CASE c > a
    <3>1. n <= c
      BY <2>1, <2>3, <1>1, ListFacts DEF n
    <3>2. CASE mn
      <4>1. n \in Addrs /\ n < c /\ E(n) <= c /\ E(n) \in Nat
        BY <1>1, <1>6, <2>1, <3>1, <3>2, ListFacts
      <4>. QED
        BY <1>2, <1>4, <1>9, <2>1, <3>2, <4>1
    <3>3. CASE ~mn
      BY <1>1, <1>2, <1>4, <1>9, <2>1, <3>1, <3>3
    <3>. QED
      BY <3>2, <3>3
  <2>. QED
    BY <1>1, <1>9, <2>1, <2>2, <2>3
<1>10. FreeStart(a) \in Nat /\ FreeEnd(a) \in Nat
  BY <1>1, <1>3, <1>4, <1>6, ListFacts, SpaceFacts
<1>11. FreeStart(a) <= lo \/ lo < FreeStart(a)
  BY <1>2, <1>10
<1>12. hi <= FreeEnd(a) \/ FreeEnd(a) < hi
  BY <1>2, <1>10
<1>13. (\E c \in Addrs : c # a /\ InUse(c) /\ Touches(c, p)) <=>
         ~(FreeStart(a) <= lo /\ hi <= FreeEnd(a))
  BY <1>7, <1>8, <1>9, <1>11, <1>12
<1>. QED
  BY <1>13 DEF lo, hi

\* The pages that FreeBuf puts on the LRU: three disjoint ranges, and together
\* what only the buffer at a has bytes in.
LEMMA FreeBufPages ==
  ASSUME IInv, NEW a \in Addrs, InUse(a), NEW p \in PageIdx
  PROVE  LET R1 == PageRange(CeilPage(a), FloorPage(E(a)))
             R2 == IF MergesNext(a) THEN LastPage(Starts, E(a)) ELSE {}
             R3 == IF MergesPrev(a)
                   THEN LastPage(IF MergesNext(a) THEN Starts \ {E(a)} ELSE Starts, a)
                   ELSE {}
         IN  /\ p \notin R1 \cap R2 /\ p \notin R1 \cap R3 /\ p \notin R2 \cap R3
             /\ p \in R1 \union R2 \union R3 <=>
                  /\ Touches(a, p)
                  /\ ~\E c \in Addrs : c # a /\ InUse(c) /\ Touches(c, p)
<1>. DEFINE mp == MergesPrev(a)
            mn == MergesNext(a)
            m == Prev(a)
            n == E(a)
            lo == Lo(p)
            hi == Lo(p) + PageSize
            list == IF mn THEN Starts \ {n} ELSE Starts
            R1 == PageRange(CeilPage(a), FloorPage(n))
            R2 == IF mn THEN LastPage(Starts, n) ELSE {}
            R3 == IF mp THEN LastPage(list, a) ELSE {}
<1>1. /\ a \in Starts /\ a \in Nat /\ 0 \in Starts
      /\ n \in Nat /\ a < n
      /\ mn <=> n # Space /\ state[n] = "free"
      /\ mp <=> a # 0 /\ state[m] = "free"
      /\ a # 0 => /\ m \in Starts /\ m < a /\ E(m) = a
                  /\ \A y \in Starts : y < a => y <= m
  BY Neighbours
<1>2. lo \in Nat /\ hi \in Nat /\ lo < hi /\ hi <= Space
  BY SpaceFacts
<1>3. FreeStart(a) = IF mp THEN m ELSE a
  BY DEF FreeStart
<1>4. FreeEnd(a) = IF mn THEN E(n) ELSE n
  BY DEF FreeEnd
<1>5. mn => n \in Starts /\ n \in Addrs /\ n # 0
  BY <1>1, ListFacts
<1>. HIDE DEF mp, mn, m, n, lo, hi
<1>6. p \in R1 <=> a <= lo /\ hi <= n
  <2>1. p \in Nat /\ p * PageSize = lo
    BY SpaceFacts DEF lo, Lo
  <2>2. p \in R1 <=> CeilPage(a) <= lo /\ lo < FloorPage(n)
    BY <2>1 DEF PageRange
  <2>. QED
    BY <1>1, <2>1, <2>2, PageFacts DEF lo, hi
<1>7. p \in R2 <=> mn /\ a <= lo /\ lo < n /\ n < hi /\ hi <= E(n)
  <2>. SUFFICES ASSUME mn
                PROVE  p \in LastPage(Starts, n) <=> a <= lo /\ lo < n /\ n < hi /\ hi <= E(n)
    OBVIOUS
  <2>. DEFINE k == Max({y \in Starts : y < n})
  <2>1. k \in Starts /\ k < n /\ \A y \in Starts : y < n => y <= k
    BY <1>5, BeforeIt
  <2>. HIDE DEF k
  <2>2. k = a
    <3>1. a <= k /\ k \in Nat
      BY <1>1, <2>1, ListFacts, SpaceFacts
    <3>2. ~(a < k)
      BY <1>1, <2>1, <3>1, ListFacts DEF n
    <3>. QED
      BY <1>1, <3>1, <3>2
  <2>3. Starts \in SUBSET Addrs
    BY ListFacts
  <2>. QED
    BY <1>1, <1>5, <2>2, <2>3, LastPageIs DEF k, lo, hi, E
<1>8. p \in R3 <=> mp /\ m <= lo /\ lo < a /\ a < hi /\ hi <= FreeEnd(a)
  <2>. SUFFICES ASSUME mp
                PROVE  p \in LastPage(list, a) <=>
                         m <= lo /\ lo < a /\ a < hi /\ hi <= FreeEnd(a)
    OBVIOUS
  <2>1. list \in SUBSET Addrs /\ a \in list /\ 0 \in list /\ a # 0
    BY <1>1, <1>5, ListFacts
  <2>2. {x \in list : x < a} = {x \in Starts : x < a}
    <3>1. ~(n < a)
      BY <1>1
    <3>. QED BY <3>1
  <2>3. Max({x \in list : x < a}) = m
    BY <2>2 DEF m, Prev
  <2>4. EndIn(list, a) = FreeEnd(a)
    <3>1. CASE mn
      <4>. DEFINE e == E(n)
      <4>1. e \in Nat /\ n < e /\ (e \in Starts \/ e = Space)
            /\ \A b \in Starts : n < b => e <= b
        BY <1>5, <3>1, ListFacts
      <4>. HIDE DEF e
      <4>2. e \in list \union {Space} /\ a < e
        BY <1>1, <3>1, <4>1
      <4>3. ASSUME NEW b \in list, a < b PROVE e <= b
        <5>1. b \in Starts /\ b # n /\ b \in Nat
          BY <3>1, ListFacts, SpaceFacts
        <5>2. n <= b
          BY <1>1, <4>3, <5>1, ListFacts DEF n
        <5>. QED
          BY <1>1, <4>1, <5>1, <5>2
      <4>4. EndIn(list, a) = e
        BY <2>1, <4>2, <4>3, EndUnique
      <4>. QED
        BY <1>4, <3>1, <4>4 DEF e
    <3>2. CASE ~mn
      BY <1>4, <3>2 DEF n, E
    <3>. QED BY <3>1, <3>2
  <2>. HIDE DEF list
  <2>. QED
    BY <2>1, <2>3, <2>4, LastPageIs DEF lo, hi
<1>. HIDE DEF R1, R2, R3
<1>9. FreeEnd(a) \in Nat /\ FreeStart(a) \in Nat /\ n <= FreeEnd(a) /\ FreeStart(a) <= a
  <2>1. mn => E(n) \in Nat /\ n < E(n)
    BY <1>5, ListFacts
  <2>2. mp => m \in Nat
    BY <1>1, ListFacts, SpaceFacts
  <2>. QED
    BY <1>1, <1>3, <1>4, <2>1, <2>2
<1>10. p \notin R1 \cap R2 /\ p \notin R1 \cap R3 /\ p \notin R2 \cap R3
  BY <1>1, <1>2, <1>6, <1>7, <1>8
<1>11. Touches(a, p) <=> lo < n /\ a < hi
  BY DEF Touches, lo, hi, n
<1>12. p \in R1 \union R2 \union R3 <=>
         /\ lo < n /\ a < hi
         /\ FreeStart(a) <= lo /\ hi <= FreeEnd(a)
  <2>1. ASSUME p \in R1 PROVE lo < n /\ a < hi /\ FreeStart(a) <= lo /\ hi <= FreeEnd(a)
    BY <1>1, <1>2, <1>6, <1>9, <2>1
  <2>2. ASSUME p \in R2 PROVE lo < n /\ a < hi /\ FreeStart(a) <= lo /\ hi <= FreeEnd(a)
    BY <1>1, <1>2, <1>4, <1>7, <1>9, <2>2
  <2>3. ASSUME p \in R3 PROVE lo < n /\ a < hi /\ FreeStart(a) <= lo /\ hi <= FreeEnd(a)
    BY <1>1, <1>2, <1>3, <1>8, <1>9, <2>3
  <2>4. ASSUME lo < n, a < hi, FreeStart(a) <= lo, hi <= FreeEnd(a)
        PROVE  p \in R1 \/ p \in R2 \/ p \in R3
    <3>1. CASE a <= lo /\ hi <= n
      BY <1>6, <3>1
    <3>2. CASE a <= lo /\ n < hi
      <4>1. mn
        BY <1>1, <1>2, <1>4, <2>4, <3>2
      <4>. QED
        BY <1>4, <1>7, <2>4, <3>2, <4>1
    <3>3. CASE lo < a
      <4>1. mp
        BY <1>1, <1>2, <1>3, <2>4, <3>3
      <4>. QED
        BY <1>3, <1>8, <2>4, <3>3, <4>1
    <3>. QED
      BY <1>1, <1>2, <3>1, <3>2, <3>3
  <2>. QED
    BY <2>1, <2>2, <2>3, <2>4
<1>13. p \in R1 \union R2 \union R3 <=>
         /\ Touches(a, p)
         /\ ~\E c \in Addrs : c # a /\ InUse(c) /\ Touches(c, p)
  BY <1>11, <1>12, OthersIn DEF lo, hi
<1>. QED
  BY <1>10, <1>13 DEF R1, R2, R3, list, mp, mn, n

LEMMA FreeBufKeeps ==
  ASSUME IInv, NEW a \in Addrs, FreeBuf(a)
  PROVE  IInv'
<1>. DEFINE list == IF MergesNext(a) THEN Starts \ {E(a)} ELSE Starts
            R1 == PageRange(CeilPage(a), FloorPage(E(a)))
            R2 == IF MergesNext(a) THEN LastPage(Starts, E(a)) ELSE {}
            R3 == IF MergesPrev(a) THEN LastPage(list, a) ELSE {}
            s == FreeStart(a)
            e == FreeEnd(a)
<1>1. /\ InUse(a)
      /\ pages' = PutPages(R1, R2, R3)
      /\ state' = [b \in Addrs |->
             CASE b = a -> IF MergesPrev(a) THEN "none" ELSE "free"
               [] b = EndIn(Starts, a) /\ MergesNext(a) -> "none"
               [] OTHER -> state[b]]
      /\ request' = [request EXCEPT ![a] = NoRequest]
      /\ async' = [async EXCEPT ![a] = FALSE]
      /\ mapped' = mapped /\ released' = released
  BY Zenon DEF FreeBuf, mapVars, InUse, Allocated, E
<1>0. /\ InUse(a)
      /\ state' = [b \in Addrs |->
             CASE b = a -> IF MergesPrev(a) THEN "none" ELSE "free"
               [] b = EndIn(Starts, a) /\ MergesNext(a) -> "none"
               [] OTHER -> state[b]]
  BY <1>1, Zenon
<1>2. /\ Starts' = {b \in Starts : /\ b = a => ~MergesPrev(a)
                                   /\ b = E(a) => ~MergesNext(a)}
      /\ s \in Starts' /\ EndIn(Starts', s) = e
      /\ \A b \in Starts' : b # s =>
           /\ E(b)' = E(b) /\ state'[b] = state[b]
           /\ state[b] = "free" => E(b) # a
      /\ e = Space \/ (InUse(e) /\ e # a /\ e \in Addrs)
      /\ \A b \in Addrs : InUse(b)' <=> InUse(b) /\ b # a
  BY <1>0, FreeBufList
<1>3. NoRequest \in Request
  BY WordAssumption DEF NoRequest, Request, SizeT
<1>4. Types'
  <2>1. state' \in [Addrs -> BufferStates]
    BY <1>1 DEF IInv, Types, BufferStates
  <2>2. pages' \in [PageIdx -> PageStates]
    BY <1>1 DEF PutPages, IInv, Types, PageStates
  <2>. QED
    BY <1>1, <1>3, <2>1, <2>2 DEF IInv, Types
<1>5. a \in Starts /\ 0 \in Starts /\ a \in Nat /\ mapped /\ ~released
  BY <1>1, ListFacts, SpaceFacts DEF IInv, ListShape
<1>6. ListShape'
  BY <1>1, <1>5 DEF ListShape
<1>. HIDE DEF s, e
<1>7. Coalesced'
  <2>1. ASSUME NEW b \in Starts', state'[b] = "free", EndIn(Starts', b) # Space
        PROVE  state'[EndIn(Starts', b)] \in Allocated
    <3>1. CASE b = s
      <4>1. InUse(e) /\ e # a /\ e \in Addrs
        BY <1>2, <2>1, <3>1
      <4>. QED
        BY <1>2, <3>1, <4>1 DEF InUse
    <3>2. CASE b # s
      <4>1. b \in Starts /\ b \in Addrs /\ state[b] = "free" /\ E(b) # a /\ EndIn(Starts', b) = E(b)
        BY <1>2, <2>1, <3>2, ListFacts DEF E, EndIn
      <4>2. InUse(E(b)) /\ E(b) \in Addrs
        BY <2>1, <4>1, ListFacts
      <4>. QED
        BY <1>2, <4>1, <4>2 DEF InUse
    <3>. QED BY <3>1, <3>2
  <2>2. 0 \in Starts'
    <3>1. 0 = a => ~MergesPrev(a)
      BY <1>1, Neighbours
    <3>2. 0 # E(a)
      BY <1>1, <1>5, Neighbours
    <3>. QED
      BY <1>2, <1>5, <3>1, <3>2
  <2>3. state'[0] # "none"
    BY <2>2 DEF Starts
  <2>. QED
    BY <2>1, <2>3 DEF Coalesced, EndIn, InUse
<1>8. SizeMatchesRequest'
  <2>1. ASSUME NEW b \in Addrs, InUse(b)' PROVE (SizeAt(b) = Padded(request[b]))'
    <3>1. InUse(b) /\ b # a
      BY <1>2, <2>1
    <3>2. b \in Starts' /\ b # s
      <4>1. b \in Starts /\ state[b] # "free" /\ (MergesNext(a) => b # E(a))
        BY <1>1, <3>1, ListFacts, Neighbours
      <4>2. MergesPrev(a) => b # Prev(a)
        BY <1>1, <4>1, Neighbours
      <4>. QED
        BY <1>2, <3>1, <4>1, <4>2 DEF s, FreeStart
    <3>3. SizeAt(b)' = SizeAt(b)
      BY <1>2, <3>2 DEF SizeAt, E
    <3>4. request'[b] = request[b]
      BY <1>1, <3>1 DEF IInv, Types
    <3>. QED
      BY <3>1, <3>3, <3>4 DEF IInv, SizeMatchesRequest, Padded
  <2>. QED
    BY <2>1 DEF SizeMatchesRequest
<1>9. PagesFollowBuffers'
  <2>1. ASSUME NEW p \in PageIdx
        PROVE  Used(p)' <=> \E c \in Addrs : c # a /\ InUse(c) /\ Touches(c, p)
    <3>1. ASSUME NEW c \in Addrs, InUse(c), c # a
          PROVE  Touches(c, p)' <=> Touches(c, p)
      <4>1. c \in Starts /\ state[c] # "free" /\ (MergesNext(a) => c # E(a))
        BY <1>1, <3>1, ListFacts, Neighbours
      <4>2. MergesPrev(a) => c # Prev(a)
        BY <1>1, <4>1, Neighbours
      <4>3. c \in Starts' /\ c # s
        BY <1>2, <3>1, <4>1, <4>2 DEF s, FreeStart
      <4>. QED
        BY <1>2, <4>3 DEF Touches, Lo
    <3>. QED
      BY <1>2, <3>1 DEF Used
  <2>2. \A p \in PageIdx : (pages[p] = "active" <=> Used(p)) /\ pages[p] # "warned"
    BY PagesAreUsed DEF IInv
  <2>3. ASSUME NEW p \in PageIdx
        PROVE  (pages'[p] = "active" <=> Used(p)') /\ pages'[p] # "warned"
    <3>1. /\ p \notin R1 \cap R2 /\ p \notin R1 \cap R3 /\ p \notin R2 \cap R3
          /\ p \in R1 \union R2 \union R3 <=>
               /\ Touches(a, p)
               /\ ~\E c \in Addrs : c # a /\ InUse(c) /\ Touches(c, p)
      BY <1>1, FreeBufPages
    <3>. HIDE DEF R1, R2, R3
    <3>2. pages'[p] =
            IF p \notin R1 \union R2 \union R3 THEN pages[p]
            ELSE IF \/ pages[p] # "active"
                    \/ p \in (R1 \cap R2) \union (R1 \cap R3) \union (R2 \cap R3)
                 THEN "warned" ELSE "lru"
      BY <1>1, Zenon DEF PutPages
    <3>3. Used(p) <=> Touches(a, p) \/ \E c \in Addrs : c # a /\ InUse(c) /\ Touches(c, p)
      BY <1>1 DEF Used
    <3>4. CASE p \in R1 \union R2 \union R3
      <4>1. pages'[p] = "lru"
        BY <2>2, <3>1, <3>2, <3>3, <3>4
      <4>. QED
        BY <2>1, <3>1, <3>4, <4>1
    <3>5. CASE p \notin R1 \union R2 \union R3
      BY <2>1, <2>2, <3>1, <3>2, <3>3, <3>5
    <3>. QED
      BY <3>4, <3>5
  <2>4. (\A p \in PageIdx : (pages[p] = "active" <=> Used(p)) /\ pages[p] # "warned")'
    BY <2>3
  <2>. QED
    BY <2>4, PagesAreUsed, PTL
<1>. QED
  BY <1>4, <1>6, <1>7, <1>8, <1>9 DEF IInv

-----------------------------------------------------------------------------
(* The theorems. *)

LEMMA InitEstablishes == Init => IInv
<1>. SUFFICES ASSUME Init PROVE IInv
  OBVIOUS
<1>1. NoRequest \in Request
  BY WordAssumption DEF NoRequest, Request, SizeT
<1>2. Types /\ Starts = {}
  BY <1>1 DEF Init, Types, Starts, BufferStates, PageStates
<1>. QED
  BY <1>2, NoBuffers DEF Init, Nothing

\* The address space goes, in two steps: the allocator learns nothing of it.
LEMMA AddressSpaceKeeps ==
  ASSUME IInv, MmExit \/ VmaClose \/ UNCHANGED vars PROVE IInv'
<1>1. UNCHANGED <<mapped, released, bufVars, pages>>
  BY DEF MmExit, VmaClose, vars, mapVars, bufVars
<1>. QED
  BY <1>1 DEF bufVars, IInv, Types, ListShape, Coalesced, SizeMatchesRequest,
       PagesFollowBuffers, PagesOf, Starts, EndIn, InUse, SizeAt, Padded

LEMMA NextKeeps == IInv /\ [Next]_vars => IInv'
<1>. SUFFICES ASSUME IInv, [Next]_vars PROVE IInv'
  OBVIOUS
<1>1. CASE MmapHandler \/ DeferredRelease
  BY <1>1, MmapHandlerKeeps, DeferredReleaseKeeps
<1>2. CASE MmExit \/ VmaClose \/ UNCHANGED vars
  BY <1>2, AddressSpaceKeeps
<1>3. ASSUME NEW r \in Requests \union AsyncRequests, NEW isAsync \in BOOLEAN,
             \/ NewBuf(r, isAsync)
             \/ NewBufNoPage(r, isAsync)
             \/ NewBufNoStruct(r, isAsync)
      PROVE  IInv'
  <2>1. r \in Request
    BY RequestAssumption
  <2>. QED
    BY <1>3, <2>1, NewBufKeeps, NewBufNoPageKeeps, NewBufNoStructKeeps
<1>4. ASSUME NEW a \in Addrs, AllowUserFree(a) \/ PrepareToFree(a) \/ FreeBuf(a)
      PROVE  IInv'
  BY <1>4, HandOverKeeps, FreeBufKeeps
<1>5. ASSUME NEW p \in PageIdx, ShrinkPage(p) PROVE IInv'
  BY <1>5, ShrinkPageKeeps
<1>. QED
  BY <1>1, <1>2, <1>3, <1>4, <1>5 DEF Next

\* What the invariants below share: it holds whatever is allocated, freed,
\* shrunk or torn down.
THEOREM AllocatorInvariant == Spec => []IInv
BY InitEstablishes, NextKeeps, PTL DEF Spec

\* binder_update_page_range and binder_delete_free_buffer agree about pages
\* that neighbours share: a page is there exactly when an allocated buffer has
\* bytes in it, and neither WARN_ON of the LRU is ever reached.
THEOREM PagesAreThere == Spec => []PagesFollowBuffers
<1>1. IInv => PagesFollowBuffers
  BY DEF IInv
<1>. QED
  BY <1>1, AllocatorInvariant, PTL

\* binder_free_buf_locked leaves no two free neighbours and never takes the
\* first buffer off the list.
THEOREM FreeSpaceIsCoalesced == Spec => []Coalesced
<1>1. IInv => Coalesced
  BY DEF IInv
<1>. QED
  BY <1>1, AllocatorInvariant, PTL

\* The size the list gives a buffer is the one its three sizes give, whatever
\* was cut off or merged next to it.
THEOREM BuffersAreAsLargeAsAsked == Spec => []SizeMatchesRequest
<1>1. IInv => SizeMatchesRequest
  BY DEF IInv
<1>. QED
  BY <1>1, AllocatorInvariant, PTL

\* A step that leaves a buffer allocated leaves its request alone.
LEMMA RequestStays ==
  ASSUME IInv, [Next]_vars, NEW b \in Addrs, InUse(b), InUse(b)'
  PROVE  request'[b] = request[b] /\ async'[b] = async[b]
<1>0. request \in [Addrs -> Request] /\ async \in [Addrs -> BOOLEAN]
  BY DEF IInv, Types
<1>1. CASE UNCHANGED vars \/ MmapHandler \/ MmExit \/ VmaClose
  BY <1>1 DEF vars, bufVars, MmapHandler, MmExit, VmaClose
<1>2. CASE DeferredRelease
  BY <1>2 DEF DeferredRelease, InUse, Allocated
<1>3. ASSUME NEW r \in Requests \union AsyncRequests, NEW isAsync \in BOOLEAN,
             NewBuf(r, isAsync)
      PROVE  request'[b] = request[b] /\ async'[b] = async[b]
  <2>1. PICK a \in BestFit(Padded(r)) :
          request' = [request EXCEPT ![a] = r] /\ async' = [async EXCEPT ![a] = isAsync]
    BY <1>3 DEF NewBuf
  <2>2. ~InUse(a)
    BY DEF BestFit, InUse, Allocated
  <2>. QED
    BY <1>0, <2>1, <2>2
<1>4. ASSUME NEW r \in Requests \union AsyncRequests, NEW isAsync \in BOOLEAN,
             NewBufNoPage(r, isAsync) \/ NewBufNoStruct(r, isAsync)
      PROVE  request'[b] = request[b] /\ async'[b] = async[b]
  BY <1>4 DEF NewBufNoPage, NewBufNoStruct, bufVars
<1>5. ASSUME NEW a \in Addrs, AllowUserFree(a) \/ PrepareToFree(a)
      PROVE  request'[b] = request[b] /\ async'[b] = async[b]
  BY <1>5 DEF AllowUserFree, PrepareToFree
<1>6. ASSUME NEW a \in Addrs, FreeBuf(a)
      PROVE  request'[b] = request[b] /\ async'[b] = async[b]
  <2>1. /\ request' = [request EXCEPT ![a] = NoRequest]
        /\ async' = [async EXCEPT ![a] = FALSE]
        /\ state'[a] \in {"none", "free"}
    BY <1>6 DEF FreeBuf
  <2>2. b # a
    BY <2>1 DEF InUse, Allocated
  <2>. QED
    BY <1>0, <2>1, <2>2
<1>7. ASSUME NEW p \in PageIdx, ShrinkPage(p)
      PROVE  request'[b] = request[b] /\ async'[b] = async[b]
  BY <1>7 DEF ShrinkPage, bufVars
<1>. QED
  BY <1>1, <1>2, <1>3, <1>4, <1>5, <1>6, <1>7 DEF Next

\* Nothing that is allocated, freed or shrunk next to a buffer moves it, cuts
\* it or takes a page from under it: the size follows from the request before
\* and after the step, and the pages from the size.
THEOREM BuffersAreLeftAlone == Spec => BufferUndisturbed
<1>1. ASSUME IInv, IInv', [Next]_vars, NEW a \in Addrs, InUse(a), InUse(a)'
      PROVE  /\ SizeAt(a)' = SizeAt(a) /\ UNCHANGED <<request[a], async[a]>>
             /\ \A p \in PagesOf(a) : pages'[p] = "active"
  <2>1. request'[a] = request[a] /\ async'[a] = async[a]
    BY <1>1, RequestStays
  <2>2. SizeAt(a) = Padded(request[a])
    BY <1>1 DEF IInv, SizeMatchesRequest
  <2>3. SizeAt(a)' = Padded(request'[a])
    BY <1>1 DEF IInv, SizeMatchesRequest, Padded
  <2>4. SizeAt(a)' = SizeAt(a)
    BY <2>1, <2>2, <2>3
  <2>5. PagesOf(a)' = PagesOf(a)
    BY <2>4 DEF PagesOf
  <2>6. \A p \in PagesOf(a) : pages'[p] = "active"
    <3>1. PagesOf(a) \subseteq PageIdx
      BY DEF PagesOf, PageRange
    <3>2. \A p \in PageIdx :
            pages'[p] = "active" <=> \E c \in Addrs : InUse(c)' /\ p \in PagesOf(c)'
      BY <1>1 DEF IInv, PagesFollowBuffers
    <3>. QED
      BY <1>1, <2>5, <3>1, <3>2
  <2>. QED
    BY <2>1, <2>4, <2>6
<1>2. IInv /\ IInv' /\ [Next]_vars =>
        [\A a \in Addrs : InUse(a) /\ InUse(a)' =>
            /\ SizeAt(a)' = SizeAt(a) /\ UNCHANGED <<request[a], async[a]>>
            /\ \A p \in PagesOf(a) : pages'[p] = "active"]_vars
  BY <1>1
<1>. QED
  BY <1>2, AllocatorInvariant, PTL DEF Spec, BufferUndisturbed

-----------------------------------------------------------------------------
(* Sums over finite sets.  MapThenSumSet takes the elements off in the order *)
(* of a choice; the lemmas show that the order does not matter.              *)

Pick(s) == CHOOSE x \in s : TRUE

\* it is the recursive function of MapThenFoldSet, for the values of f.
Adds(f, T, it) ==
    it = [s \in SUBSET T |-> IF s = {} THEN 0 ELSE f[Pick(s)] + it[s \ {Pick(s)}]]

SumBy(f, T) == CHOOSE it : Adds(f, T, it)
SumOf(f, T) == SumBy(f, T)[T]

\* Where a set of finite sets has a member, it has a smallest one.
LEMMA SmallestSet ==
    ASSUME NEW D, NEW C \in SUBSET SUBSET D, IsFiniteSet(D), C # {}
    PROVE  \E m \in C : \A y \in C : y \subseteq m => y = m
<1>1. C \subseteq FiniteSubsetsOf(D) BY FS_Subset DEF FiniteSubsetsOf
<1>2. IsWellFoundedOn(StrictSubsetOrdering(D), FiniteSubsetsOf(D))
  BY FS_StrictSubsetOrderingWellFounded
<1>3. PICK m \in C : \A y \in C : ~(<<y, m>> \in StrictSubsetOrdering(D))
  BY <1>1, <1>2, WFMin
<1> QED BY <1>3 DEF StrictSubsetOrdering

LEMMA PickIn == ASSUME NEW s, s # {} PROVE Pick(s) \in s
BY DEF Pick

LEMMA AddsAt ==
    ASSUME NEW f, NEW T, NEW it, Adds(f, T, it), NEW s \in SUBSET T
    PROVE  it[s] = IF s = {} THEN 0 ELSE f[Pick(s)] + it[s \ {Pick(s)}]
<1> DEFINE F == [t \in SUBSET T |-> IF t = {} THEN 0 ELSE f[Pick(t)] + it[t \ {Pick(t)}]]
<1>1. it = F BY DEF Adds
<1>2. F[s] = IF s = {} THEN 0 ELSE f[Pick(s)] + it[s \ {Pick(s)}] OBVIOUS
<1> HIDE DEF F
<1> QED BY <1>1, <1>2

LEMMA AddsAtTop ==
    ASSUME NEW f, NEW T, NEW it, Adds(f, T, it)
    PROVE  it[T] = IF T = {} THEN 0 ELSE f[Pick(T)] + it[T \ {Pick(T)}]
<1>1. \A s \in SUBSET T :
        it[s] = IF s = {} THEN 0 ELSE f[Pick(s)] + it[s \ {Pick(s)}]
  BY AddsAt
<1>2. PICK s \in SUBSET T : s = T OBVIOUS
<1> QED BY <1>1, <1>2

LEMMA AddsUnique ==
    ASSUME NEW D, IsFiniteSet(D), NEW f \in [D -> Nat],
           NEW T \in SUBSET D, NEW U \in SUBSET T, NEW i, NEW j,
           Adds(f, T, i), Adds(f, U, j), NEW s \in SUBSET U
    PROVE  i[s] = j[s] /\ i[s] \in Nat
<1> DEFINE C == {t \in SUBSET U : ~(i[t] = j[t] /\ i[t] \in Nat)}
<1> SUFFICES ASSUME C # {} PROVE FALSE OBVIOUS
<1>1. PICK m \in C : \A y \in C : y \subseteq m => y = m
  <2>1. C \in SUBSET SUBSET D OBVIOUS
  <2> HIDE DEF C
  <2> QED BY <2>1, SmallestSet
<1>2. /\ i[m] = IF m = {} THEN 0 ELSE f[Pick(m)] + i[m \ {Pick(m)}]
      /\ j[m] = IF m = {} THEN 0 ELSE f[Pick(m)] + j[m \ {Pick(m)}]
  BY AddsAt
<1>3. CASE m = {} BY <1>2, <1>3
<1>4. CASE m # {}
  <2> DEFINE r == m \ {Pick(m)}
  <2>1. Pick(m) \in m BY <1>4, PickIn
  <2>2. r \in SUBSET U /\ r \subseteq m /\ r # m BY <2>1
  <2>3. r \notin C BY <1>1, <2>2
  <2>4. i[r] = j[r] /\ i[r] \in Nat BY <2>2, <2>3
  <2>5. f[Pick(m)] \in Nat BY <2>1
  <2> QED BY <1>2, <1>4, <2>4, <2>5
<1> QED BY <1>3, <1>4

LEMMA SumUnfolds ==
    ASSUME NEW D, IsFiniteSet(D), NEW f \in [D -> Nat], NEW T \in SUBSET D,
           \E it : Adds(f, T, it),
           T # {} => \E it : Adds(f, T \ {Pick(T)}, it)
    PROVE  /\ SumOf(f, T) = IF T = {} THEN 0
                            ELSE f[Pick(T)] + SumOf(f, T \ {Pick(T)})
           /\ SumOf(f, T) \in Nat
<1>1. Adds(f, T, SumBy(f, T)) BY DEF SumBy
<1>2. SumBy(f, T)[T] = IF T = {} THEN 0
                       ELSE f[Pick(T)] + SumBy(f, T)[T \ {Pick(T)}]
  BY <1>1, AddsAtTop
<1>3. SumBy(f, T)[T] \in Nat BY <1>1, AddsUnique
<1>4. CASE T = {} BY <1>2, <1>3, <1>4 DEF SumOf
<1>5. CASE T # {}
  <2> DEFINE R == T \ {Pick(T)}
  <2>1. Adds(f, R, SumBy(f, R)) BY <1>5 DEF SumBy
  <2>2. SumBy(f, T)[R] = SumBy(f, R)[R]
    <3>1. R \in SUBSET T /\ R \in SUBSET R OBVIOUS
    <3> HIDE DEF R
    <3> QED BY <1>1, <2>1, <3>1, AddsUnique
  <2> QED BY <1>2, <1>3, <1>5, <2>2 DEF SumOf
<1> QED BY <1>4, <1>5

LEMMA AddsExists ==
    ASSUME NEW D, IsFiniteSet(D), NEW f \in [D -> Nat], NEW T \in SUBSET D
    PROVE  \E it : Adds(f, T, it)
<1> DEFINE C == {t \in SUBSET D : ~\E it : Adds(f, t, it)}
<1> SUFFICES ASSUME C # {} PROVE FALSE OBVIOUS
<1>1. PICK m \in C : \A y \in C : y \subseteq m => y = m
  <2>1. C \in SUBSET SUBSET D OBVIOUS
  <2> HIDE DEF C
  <2> QED BY <2>1, SmallestSet
<1>2. m \in SUBSET D /\ ~\E it : Adds(f, m, it) OBVIOUS
<1>3. ASSUME NEW r \in SUBSET m, r # m PROVE \E it : Adds(f, r, it)
  <2>1. r \notin C BY <1>1, <1>3
  <2> QED BY <2>1
<1> HIDE DEF C
<1> DEFINE G == [s \in SUBSET m |->
                   IF s = {} THEN 0 ELSE f[Pick(s)] + SumOf(f, s \ {Pick(s)})]
<1>4. ASSUME NEW s \in SUBSET m, s # {}
      PROVE  G[s \ {Pick(s)}] = SumOf(f, s \ {Pick(s)})
  <2> DEFINE r == s \ {Pick(s)}
  <2>1. r \in SUBSET m /\ r # m BY <1>4, PickIn
  <2>2. \E it : Adds(f, r, it) BY <1>3, <2>1
  <2>3. r # {} => \E it : Adds(f, r \ {Pick(r)}, it)
    <3> HIDE DEF r
    <3> SUFFICES ASSUME r # {} PROVE \E it : Adds(f, r \ {Pick(r)}, it) OBVIOUS
    <3>1. r \ {Pick(r)} \in SUBSET m /\ r \ {Pick(r)} # m BY <2>1, PickIn
    <3> QED BY <1>3, <3>1
  <2>4. r \in SUBSET D BY <1>2, <2>1
  <2> HIDE DEF r
  <2>5. SumOf(f, r) = IF r = {} THEN 0 ELSE f[Pick(r)] + SumOf(f, r \ {Pick(r)})
    BY <2>2, <2>3, <2>4, SumUnfolds
  <2>6. G[r] = SumOf(f, r) BY <2>1, <2>5
  <2> QED BY <2>6 DEF r
<1>5. Adds(f, m, G)
  <2>1. \A s \in SUBSET m : (IF s = {} THEN 0 ELSE f[Pick(s)] + SumOf(f, s \ {Pick(s)}))
          = IF s = {} THEN 0 ELSE f[Pick(s)] + G[s \ {Pick(s)}]
    <3> HIDE DEF G
    <3> QED BY <1>4
  <2> DEFINE H == [s \in SUBSET m |->
                     IF s = {} THEN 0 ELSE f[Pick(s)] + G[s \ {Pick(s)}]]
  <2>2. G = H BY <2>1
  <2> HIDE DEF G
  <2> QED BY <2>2 DEF Adds
<1> QED BY <1>2, <1>5

LEMMA SumIs ==
    ASSUME NEW D, IsFiniteSet(D), NEW f \in [D -> Nat], NEW T \in SUBSET D
    PROVE  /\ SumOf(f, T) = IF T = {} THEN 0
                            ELSE f[Pick(T)] + SumOf(f, T \ {Pick(T)})
           /\ SumOf(f, T) \in Nat
BY AddsExists, SumUnfolds

LEMMA SumWithout ==
    ASSUME NEW D, IsFiniteSet(D), NEW f \in [D -> Nat], NEW T \in SUBSET D, NEW x \in T
    PROVE  SumOf(f, T) = f[x] + SumOf(f, T \ {x})
<1> DEFINE C == {t \in SUBSET D : \E y \in t : SumOf(f, t) # f[y] + SumOf(f, t \ {y})}
<1> SUFFICES ASSUME C # {} PROVE FALSE OBVIOUS
<1>1. PICK m \in C : \A y \in C : y \subseteq m => y = m
  <2>1. C \in SUBSET SUBSET D OBVIOUS
  <2> HIDE DEF C
  <2> QED BY <2>1, SmallestSet
<1>2. m \in SUBSET D OBVIOUS
<1>3. PICK y \in m : SumOf(f, m) # f[y] + SumOf(f, m \ {y}) OBVIOUS
<1> DEFINE p == Pick(m)
           r == m \ {p, y}
<1>4. p \in m BY <1>3, PickIn
<1>5. SumOf(f, m) = f[p] + SumOf(f, m \ {p})
  BY <1>2, <1>3, SumIs
<1>6. p # y BY <1>3, <1>5
<1>7. ASSUME NEW t \in SUBSET m, t # m, NEW z \in t
      PROVE  SumOf(f, t) = f[z] + SumOf(f, t \ {z})
  <2>1. t \notin C BY <1>1, <1>7
  <2> QED BY <1>2, <2>1
<1> HIDE DEF C
<1>8. SumOf(f, m \ {p}) = f[y] + SumOf(f, r)
  <2>1. m \ {p} \in SUBSET m /\ m \ {p} # m /\ y \in m \ {p} /\ (m \ {p}) \ {y} = r
    BY <1>4, <1>6
  <2> HIDE DEF p, r
  <2> QED BY <1>7, <2>1
<1>9. SumOf(f, m \ {y}) = f[p] + SumOf(f, r)
  <2>1. m \ {y} \in SUBSET m /\ m \ {y} # m /\ p \in m \ {y} /\ (m \ {y}) \ {p} = r
    BY <1>4, <1>6
  <2> HIDE DEF p, r
  <2> QED BY <1>7, <2>1
<1>10. f[p] \in Nat /\ f[y] \in Nat /\ SumOf(f, r) \in Nat
  <2>1. r \in SUBSET D BY <1>2
  <2> HIDE DEF r
  <2> QED BY <1>2, <1>4, <2>1, SumIs
<1> HIDE DEF p, r
<1> QED BY <1>3, <1>5, <1>8, <1>9, <1>10

LEMMA SumSame ==
    ASSUME NEW D, IsFiniteSet(D), NEW f \in [D -> Nat], NEW g \in [D -> Nat],
           NEW T \in SUBSET D, \A x \in T : f[x] = g[x]
    PROVE  SumOf(f, T) = SumOf(g, T)
<1> DEFINE C == {t \in SUBSET T : SumOf(f, t) # SumOf(g, t)}
<1> SUFFICES ASSUME C # {} PROVE FALSE OBVIOUS
<1>1. PICK m \in C : \A y \in C : y \subseteq m => y = m
  <2>1. C \in SUBSET SUBSET D OBVIOUS
  <2> HIDE DEF C
  <2> QED BY <2>1, SmallestSet
<1>2. m \in SUBSET T /\ m \in SUBSET D /\ SumOf(f, m) # SumOf(g, m) OBVIOUS
<1>3. /\ SumOf(f, m) = IF m = {} THEN 0 ELSE f[Pick(m)] + SumOf(f, m \ {Pick(m)})
      /\ SumOf(g, m) = IF m = {} THEN 0 ELSE g[Pick(m)] + SumOf(g, m \ {Pick(m)})
  BY <1>2, SumIs
<1>4. m # {} BY <1>2, <1>3
<1>5. Pick(m) \in m BY <1>4, PickIn
<1>6. m \ {Pick(m)} \notin C BY <1>1, <1>5
<1>7. SumOf(f, m \ {Pick(m)}) = SumOf(g, m \ {Pick(m)}) BY <1>2, <1>6
<1> HIDE DEF C
<1> QED BY <1>2, <1>3, <1>4, <1>5, <1>7

-----------------------------------------------------------------------------
(* The space of async buffers. *)

\* A mapping and the struct at the head of a buffer are far below the range of
\* size_t together (binder_mmap cuts a mapping off at SZ_4M).
ShortMapping == Space + Hdr < Limit

\* No one-way transaction is empty.  For one that is, the check is made against
\* no bytes and the space is charged with the padded size.
NoneEmpty == \A r \in AsyncRequests : TotalSize(r) # 0

Taken == [a \in Addrs |-> SizeAt(a) + Hdr]
Adding ==
    mapped /\ ~released =>
      /\ asyncFree \in SizeT
      /\ asyncFree + SumOf(Taken, AsyncBuffers) = Space \div 2
AsyncAsked == \A a \in AsyncBuffers : request[a] \in AsyncRequests
SpaceInv == IInv /\ AsyncAsked /\ Adding

LEMMA TakenFacts ==
    /\ IsFiniteSet(Addrs) /\ Taken \in [Addrs -> Nat]
    /\ Hdr \in Nat /\ Limit \in Nat /\ Space \in Nat
    /\ Space \div 2 \in Nat /\ Space \div 2 <= Space
<1>1. Limit \in Nat /\ Hdr \in Nat BY WordAssumption, RequestAssumption DEF SizeT
<1>2. Space \in Nat /\ Space > 0 BY SpaceFacts
<1>3. IsFiniteSet(Addrs)
  <2>1. IsFiniteSet(0 .. Space - 1) BY <1>2, FS_Interval
  <2> QED BY <2>1, FS_Subset DEF Addrs
<1>4. ASSUME NEW a \in Addrs PROVE SizeAt(a) + Hdr \in Nat
  <2>1. EndIn(Starts, a) \in Nat /\ a < EndIn(Starts, a) /\ a \in Nat
    BY EndProps, SpaceFacts DEF Starts
  <2> QED BY <1>1, <2>1 DEF SizeAt
<1>5. Taken \in [Addrs -> Nat] BY <1>4 DEF Taken
<1> QED BY <1>1, <1>2, <1>3, <1>5

\* The fold of the two properties is the sum of these lemmas.
LEMMA SumOfTaken ==
    MapThenSumSet(LAMBDA a : SizeAt(a) + Hdr, AsyncBuffers) = SumOf(Taken, AsyncBuffers)
<1> DEFINE A == AsyncBuffers
           G(j) == [s \in SUBSET A |->
                      IF s = {} THEN 0
                      ELSE SizeAt(Pick(s)) + Hdr + j[s \ {Pick(s)}]]
           H(j) == [s \in SUBSET A |->
                      IF s = {} THEN 0 ELSE Taken[Pick(s)] + j[s \ {Pick(s)}]]
           I == CHOOSE it : it = G(it)
<1>1. MapThenSumSet(LAMBDA a : SizeAt(a) + Hdr, A) = I[A]
  BY Zenon DEF MapThenSumSet, MapThenFoldSet, Pick
<1>2. A \in SUBSET Addrs BY DEF AsyncBuffers
<1>3. PICK it : Adds(Taken, A, it) BY <1>2, TakenFacts, AddsExists
<1>4. ASSUME NEW j PROVE G(j) = H(j)
  <2>1. ASSUME NEW s \in SUBSET A, s # {} PROVE Taken[Pick(s)] = SizeAt(Pick(s)) + Hdr
    <3>1. Pick(s) \in Addrs BY <1>2, <2>1, PickIn
    <3> QED BY <3>1 DEF Taken
  <2> QED BY <2>1
<1>5. it = G(it) BY <1>3, <1>4, Zenon DEF Adds
<1>6. I = G(I)
  <2> HIDE DEF G
  <2> QED BY <1>5
<1> HIDE DEF I
<1>7. Adds(Taken, A, I)
  <2>1. I = H(I) BY <1>4, <1>6
  <2> QED BY <2>1, Zenon DEF Adds
<1>8. Adds(Taken, A, SumBy(Taken, A)) BY <1>3 DEF SumBy
<1>9. I[A] = SumOf(Taken, A)
  BY <1>2, <1>7, <1>8, AddsUnique, TakenFacts DEF SumOf
<1> QED BY <1>1, <1>9

LEMMA SumPrimed == SumOf(Taken, AsyncBuffers)' = SumOf(Taken', AsyncBuffers')
BY DEF SumOf, SumBy, Adds, Pick

LEMMA TakenNext == Taken' \in [Addrs -> Nat]
<1>1. Taken \in [Addrs -> Nat] BY TakenFacts
<1>2. (Taken \in [Addrs -> Nat])' BY <1>1, PTL
<1> QED BY <1>2

LEMMA SizeStays ==
    ASSUME IInv, IInv', [Next]_vars, NEW b \in Addrs, InUse(b), InUse(b)'
    PROVE  SizeAt(b)' = SizeAt(b)
<1>1. request'[b] = request[b] BY RequestStays
<1>2. SizeAt(b) = Padded(request[b]) BY DEF IInv, SizeMatchesRequest
<1>3. SizeAt(b)' = Padded(request'[b]) BY DEF IInv, SizeMatchesRequest, Padded
<1> QED BY <1>1, <1>2, <1>3

\* What stays allocated takes what it took.
LEMMA SumStays ==
    ASSUME IInv, IInv', [Next]_vars, NEW A \in SUBSET AsyncBuffers, \A b \in A : InUse(b)'
    PROVE  SumOf(Taken', A) = SumOf(Taken, A)
<1>1. A \in SUBSET Addrs BY DEF AsyncBuffers
<1>2. ASSUME NEW b \in A PROVE Taken'[b] = Taken[b]
  <2>1. SizeAt(b)' = SizeAt(b) BY <1>1, SizeStays DEF AsyncBuffers
  <2> QED BY <1>1, <2>1 DEF Taken
<1> QED BY <1>1, <1>2, SumSame, TakenFacts, TakenNext

\* A step that neither makes nor frees async buffers.
LEMMA AddingStays ==
    ASSUME SpaceInv, IInv', [Next]_vars,
           UNCHANGED <<mapped, released, asyncFree, AsyncBuffers>>,
           \A b \in AsyncBuffers : request'[b] = request[b]
    PROVE  SpaceInv'
<1>1. \A b \in AsyncBuffers : InUse(b)' BY DEF AsyncBuffers
<1>2. SumOf(Taken', AsyncBuffers) = SumOf(Taken, AsyncBuffers) BY <1>1, SumStays DEF SpaceInv
<1>3. Adding' BY <1>2, SumPrimed DEF SpaceInv, Adding
<1>4. AsyncAsked' BY DEF SpaceInv, AsyncAsked
<1> QED BY <1>3, <1>4 DEF SpaceInv

LEMMA SmallRemainder ==
    ASSUME NEW x \in Nat, x < Limit PROVE x % Limit = x
<1>1. Limit \in Nat \ {0} /\ x \in 0 .. Limit - 1 BY WordAssumption
<1>2. ((Limit * 0) + x) % Limit = x BY <1>1, RemainderUnique
<1> QED BY <1>1, <1>2

LEMMA SolidSize ==
    ASSUME NoneEmpty, NEW r \in AsyncRequests
    PROVE  r \in Request /\ Padded(r) = TotalSize(r) /\ TotalSize(r) \in Nat
<1>1. r \in Request BY RequestAssumption
<1>2. TotalSize(r) \in Nat /\ TotalSize(r) # 0 BY <1>1, SizeFacts DEF NoneEmpty
<1>3. PICK k \in Int : TotalSize(r) = Word * k BY <1>1, SizeFacts DEF Multiple
<1>4. Word \in Nat \ {0} BY WordAssumption
<1>5. TotalSize(r) >= Word
  <2>1. CASE k >= 1 BY <1>3, <1>4, <2>1
  <2>2. CASE k <= 0
    <3>1. Word * k <= 0 BY <1>4, <2>2
    <3> QED BY <1>2, <1>3, <3>1
  <2> QED BY <2>1, <2>2
<1>6. Padded(r) = TotalSize(r)
  <2>1. {TotalSize(r), Word} \in SUBSET Nat /\ {TotalSize(r), Word} # {}
    BY <1>2, <1>4
  <2>2. \A y \in {TotalSize(r), Word} : y <= TotalSize(r) BY <1>2, <1>4, <1>5
  <2>3. Padded(r) \in {TotalSize(r), Word} /\ \A y \in {TotalSize(r), Word} : Padded(r) >= y
    BY <1>2, <2>1, <2>2, MaxExists DEF Padded
  <2> QED BY <1>2, <1>4, <1>5, <2>3
<1> QED BY <1>1, <1>2, <1>6

LEMMA NewBufAdds ==
    ASSUME ShortMapping, NoneEmpty, SpaceInv, IInv', [Next]_vars,
           NEW r \in AsyncRequests, NewBuf(r, TRUE)
    PROVE  SpaceInv'
<1>1. r \in Request /\ Padded(r) = TotalSize(r) /\ TotalSize(r) \in Nat BY SolidSize
<1>2. PICK a \in BestFit(Padded(r)) :
        /\ state' = [b \in Addrs |->
              CASE b = a -> "kernel"
                [] b = a + Padded(r) /\ Padded(r) # SizeAt(a) -> "free"
                [] OTHER -> state[b]]
        /\ request' = [request EXCEPT ![a] = r]
        /\ async' = [async EXCEPT ![a] = TRUE]
  BY DEF NewBuf
<1>3. /\ a \in Addrs /\ ~InUse(a) /\ a \in Nat /\ E(a) \in Nat /\ E(a) <= Space
      /\ a + Padded(r) <= E(a) /\ mapped /\ ~released
  BY <1>1, Fits, ListFacts DEF SpaceInv, IInv, ListShape
<1>4. \A b \in Addrs : InUse(b)' <=> (b = a \/ InUse(b))
  BY <1>1, <1>2, NewBufList DEF SpaceInv
<1>5. request \in [Addrs -> Request] /\ async \in [Addrs -> BOOLEAN]
  BY DEF SpaceInv, IInv, Types
<1>6. AsyncBuffers' = AsyncBuffers \union {a} /\ a \notin AsyncBuffers
  BY <1>2, <1>3, <1>4, <1>5 DEF AsyncBuffers
<1>7. SizeAt(a)' = TotalSize(r)
  <2>1. request'[a] = r BY <1>2, <1>3, <1>5
  <2>2. InUse(a)' BY <1>3, <1>4
  <2>3. SizeAt(a)' = Padded(request'[a]) BY <1>3, <2>2 DEF IInv, SizeMatchesRequest, Padded
  <2> QED BY <1>1, <2>1, <2>3
<1>8. Taken'[a] = TotalSize(r) + Hdr BY <1>3, <1>7 DEF Taken
<1>9. AsyncBuffers \in SUBSET Addrs BY DEF AsyncBuffers
<1>10. SumOf(Taken', AsyncBuffers') = Taken'[a] + SumOf(Taken', AsyncBuffers)
  <2>1. AsyncBuffers' \in SUBSET Addrs /\ a \in AsyncBuffers'
        /\ AsyncBuffers' \ {a} = AsyncBuffers
    BY <1>3, <1>6, <1>9
  <2> QED BY <2>1, SumWithout, TakenFacts, TakenNext
<1>11. SumOf(Taken', AsyncBuffers) = SumOf(Taken, AsyncBuffers)
  BY <1>4, <1>9, SumStays DEF SpaceInv, AsyncBuffers
<1>12. SumOf(Taken, AsyncBuffers) \in Nat BY <1>9, SumIs, TakenFacts
<1>13. TotalSize(r) + Hdr < Limit /\ TotalSize(r) + Hdr \in Nat
  BY <1>1, <1>3, TakenFacts DEF ShortMapping
<1>14. /\ asyncFree \in SizeT /\ asyncFree >= (TotalSize(r) + Hdr) % Limit
       /\ asyncFree' = (asyncFree - (TotalSize(r) + Hdr)) % Limit
       /\ UNCHANGED mapVars
  BY <1>1, <1>3 DEF NewBuf, Admitted, SpaceInv, Adding
<1>15. (TotalSize(r) + Hdr) % Limit = TotalSize(r) + Hdr
  BY <1>13, TakenFacts, SmallRemainder
<1>16. /\ asyncFree \in Nat /\ asyncFree < Limit
       /\ asyncFree - (TotalSize(r) + Hdr) \in Nat
       /\ asyncFree - (TotalSize(r) + Hdr) < Limit
  BY <1>13, <1>14, <1>15, TakenFacts DEF SizeT
<1>17. asyncFree' = asyncFree - (TotalSize(r) + Hdr)
  BY <1>14, <1>16, TakenFacts, SmallRemainder
<1>18. Adding'
  <2>1. asyncFree + SumOf(Taken, AsyncBuffers) = Space \div 2
    BY <1>3 DEF Adding, SpaceInv
  <2>2. asyncFree' + SumOf(Taken', AsyncBuffers') = Space \div 2
    BY <1>8, <1>10, <1>11, <1>12, <1>13, <1>16, <1>17, <2>1, TakenFacts
  <2>3. asyncFree' \in SizeT BY <1>16, <1>17, TakenFacts DEF SizeT
  <2> QED BY <2>2, <2>3, SumPrimed DEF Adding
<1>19. AsyncAsked'
  <2>1. \A b \in AsyncBuffers' : request'[b] \in AsyncRequests
    BY <1>2, <1>3, <1>5, <1>6, <1>9 DEF AsyncAsked, SpaceInv
  <2> QED BY <2>1 DEF AsyncAsked
<1> QED BY <1>18, <1>19 DEF SpaceInv

\* The same step as far as async buffers go, when the new one is not async.
LEMMA NewBufSync ==
    ASSUME SpaceInv, IInv', [Next]_vars, NEW r \in Request, NewBuf(r, FALSE)
    PROVE  SpaceInv'
<1>1. PICK a \in BestFit(Padded(r)) :
        /\ state' = [b \in Addrs |->
              CASE b = a -> "kernel"
                [] b = a + Padded(r) /\ Padded(r) # SizeAt(a) -> "free"
                [] OTHER -> state[b]]
        /\ request' = [request EXCEPT ![a] = r]
        /\ async' = [async EXCEPT ![a] = FALSE]
  BY DEF NewBuf
<1>2. a \in Addrs /\ ~InUse(a) BY <1>1, Fits DEF SpaceInv
<1>3. \A b \in Addrs : InUse(b)' <=> (b = a \/ InUse(b))
  BY <1>1, NewBufList DEF SpaceInv
<1>4. request \in [Addrs -> Request] /\ async \in [Addrs -> BOOLEAN]
  BY DEF SpaceInv, IInv, Types
<1>5. AsyncBuffers' = AsyncBuffers
  BY <1>1, <1>2, <1>3, <1>4 DEF AsyncBuffers
<1>6. \A b \in AsyncBuffers : request'[b] = request[b]
  BY <1>1, <1>2, <1>4 DEF AsyncBuffers
<1>7. UNCHANGED <<mapped, released, asyncFree>> BY DEF NewBuf, mapVars
<1> QED BY <1>5, <1>6, <1>7, AddingStays

LEMMA FreeBufGivesBack ==
    ASSUME ShortMapping, NoneEmpty, SpaceInv, IInv', [Next]_vars,
           NEW a \in Addrs, FreeBuf(a)
    PROVE  SpaceInv'
<1>1. /\ InUse(a)
      /\ state' = [b \in Addrs |->
             CASE b = a -> IF MergesPrev(a) THEN "none" ELSE "free"
               [] b = EndIn(Starts, a) /\ MergesNext(a) -> "none"
               [] OTHER -> state[b]]
      /\ request' = [request EXCEPT ![a] = NoRequest]
      /\ async' = [async EXCEPT ![a] = FALSE]
      /\ mapped' = mapped /\ released' = released
      /\ asyncFree' = IF async[a] THEN Refund(a) ELSE asyncFree
  BY Zenon DEF FreeBuf, mapVars, InUse, Allocated
<1>2. \A b \in Addrs : InUse(b)' <=> InUse(b) /\ b # a
  <2>1. /\ InUse(a)
        /\ state' = [b \in Addrs |->
             CASE b = a -> IF MergesPrev(a) THEN "none" ELSE "free"
               [] b = EndIn(Starts, a) /\ MergesNext(a) -> "none"
               [] OTHER -> state[b]]
    BY <1>1, Zenon
  <2> QED BY <2>1, FreeBufList DEF SpaceInv
<1>3. request \in [Addrs -> Request] /\ async \in [Addrs -> BOOLEAN]
  BY DEF SpaceInv, IInv, Types
<1>4. AsyncBuffers' = AsyncBuffers \ {a} BY <1>1, <1>2, <1>3 DEF AsyncBuffers
<1>5. \A b \in AsyncBuffers' : request'[b] = request[b] /\ InUse(b)'
  BY <1>1, <1>2, <1>3, <1>4 DEF AsyncBuffers
<1>6. CASE ~async[a]
  <2>1. AsyncBuffers' = AsyncBuffers BY <1>4, <1>6 DEF AsyncBuffers
  <2>2. UNCHANGED <<mapped, released, asyncFree>> BY <1>1, <1>6
  <2> QED BY <1>5, <2>1, <2>2, AddingStays
<1>7. CASE async[a]
  <2> DEFINE A == AsyncBuffers \ {a}
             n == TotalSize(request[a]) + Hdr
  <2>1. a \in AsyncBuffers /\ AsyncBuffers \in SUBSET Addrs /\ A \in SUBSET Addrs
    BY <1>1, <1>7 DEF AsyncBuffers
  <2>2. request[a] \in AsyncRequests BY <2>1 DEF SpaceInv, AsyncAsked
  <2>3. /\ SizeAt(a) = Padded(request[a]) /\ Padded(request[a]) = TotalSize(request[a])
        /\ TotalSize(request[a]) \in Nat
    BY <1>1, <2>2, SolidSize DEF SpaceInv, IInv, SizeMatchesRequest
  <2>4. Taken[a] = n /\ n \in Nat BY <2>3, TakenFacts DEF Taken
  <2>5. SumOf(Taken, AsyncBuffers) = n + SumOf(Taken, A) /\ SumOf(Taken, A) \in Nat
    <3>1. SumOf(Taken, A) \in Nat
      <4> HIDE DEF A
      <4> QED BY <2>1, SumIs, TakenFacts
    <3>2. SumOf(Taken, AsyncBuffers) = Taken[a] + SumOf(Taken, AsyncBuffers \ {a})
      BY <2>1, SumWithout, TakenFacts
    <3> QED BY <2>4, <3>1, <3>2
  <2>6. SumOf(Taken', A) = SumOf(Taken, A)
    BY <1>4, <1>5, SumStays DEF SpaceInv
  <2>7. AsyncAsked' BY <1>4, <1>5 DEF SpaceInv, AsyncAsked
  <2>8. ASSUME mapped, ~released
        PROVE  asyncFree' \in SizeT /\ asyncFree' + SumOf(Taken, A) = Space \div 2
    <3>1. /\ asyncFree \in SizeT
          /\ asyncFree + (n + SumOf(Taken, A)) = Space \div 2
      BY <2>5, <2>8 DEF SpaceInv, Adding
    <3>2. asyncFree \in Nat BY <3>1 DEF SizeT
    <3>3. asyncFree + n \in Nat /\ asyncFree + n < Limit
      BY <2>4, <2>5, <3>1, <3>2, TakenFacts DEF ShortMapping
    <3>4. asyncFree' = (asyncFree + n) % Limit
      <4>1. asyncFree + TotalSize(request[a]) + Hdr = asyncFree + n
        BY <2>3, <3>2, TakenFacts
      <4> QED BY <1>1, <1>7, <4>1 DEF Refund
    <3>5. asyncFree' = asyncFree + n BY <3>3, <3>4, SmallRemainder
    <3> QED BY <2>4, <2>5, <3>1, <3>2, <3>3, <3>5, TakenFacts DEF SizeT
  <2>9. Adding' BY <1>1, <1>4, <2>6, <2>8, SumPrimed DEF Adding
  <2> QED BY <2>7, <2>9 DEF SpaceInv
<1> QED BY <1>6, <1>7

LEMMA MmapGivesHalf ==
    ASSUME SpaceInv, IInv', MmapHandler PROVE SpaceInv'
<1>1. Starts = {} BY DEF MmapHandler, SpaceInv, IInv, ListShape
<1>2. \A b \in Addrs : state[b] = "none" BY <1>1 DEF Starts
<1>3. \A b \in Addrs : state'[b] \in {"none", "free"}
  BY <1>2 DEF MmapHandler, SpaceInv, IInv, Types
<1>4. AsyncBuffers' = {} BY <1>3 DEF AsyncBuffers, InUse, Allocated
<1>5. SumOf(Taken', {}) = 0 BY SumIs, TakenFacts, TakenNext
<1>6. asyncFree' = Space \div 2 BY DEF MmapHandler
<1>7. Adding'
  <2>1. Space < Limit BY PageAssumption DEF Space
  <2>2. Space \div 2 \in SizeT BY <2>1, TakenFacts DEF SizeT
  <2>3. SumOf(Taken, AsyncBuffers)' = 0 BY <1>4, <1>5, SumPrimed
  <2> QED BY <1>6, <2>2, <2>3, TakenFacts DEF Adding
<1>8. AsyncAsked' BY <1>4 DEF AsyncAsked
<1> QED BY <1>7, <1>8 DEF SpaceInv

LEMMA ReleaseEndsIt == ASSUME IInv', DeferredRelease PROVE SpaceInv'
<1>1. released' = TRUE BY DEF DeferredRelease
<1>2. \A b \in Addrs : state'[b] = "none" BY DEF DeferredRelease
<1>3. AsyncBuffers' = {} BY <1>2 DEF AsyncBuffers, InUse, Allocated
<1> QED BY <1>1, <1>3 DEF SpaceInv, Adding, AsyncAsked

LEMMA SpaceNext == ShortMapping /\ NoneEmpty /\ SpaceInv /\ [Next]_vars => SpaceInv'
<1> SUFFICES ASSUME ShortMapping, NoneEmpty, SpaceInv, [Next]_vars PROVE SpaceInv'
  OBVIOUS
<1>1. IInv' BY NextKeeps DEF SpaceInv
<1>2. CASE MmapHandler BY <1>1, <1>2, MmapGivesHalf
<1>3. CASE DeferredRelease BY <1>1, <1>3, ReleaseEndsIt
<1>4. CASE MmExit \/ VmaClose \/ UNCHANGED vars
  <2>1. UNCHANGED <<mapped, released, state, request, async, asyncFree>>
    BY <1>4 DEF MmExit, VmaClose, vars, mapVars, bufVars
  <2>2. AsyncBuffers' = AsyncBuffers BY <2>1 DEF AsyncBuffers, InUse
  <2> QED BY <1>1, <2>1, <2>2, AddingStays
<1>5. ASSUME NEW r \in AsyncRequests, NewBuf(r, TRUE) PROVE SpaceInv'
  BY <1>1, <1>5, NewBufAdds
<1>6. ASSUME NEW r \in Requests, NewBuf(r, FALSE) PROVE SpaceInv'
  <2>1. r \in Request BY RequestAssumption
  <2> QED BY <1>1, <1>6, <2>1, NewBufSync
<1>7. ASSUME NEW r, NEW isAsync \in BOOLEAN, NewBufNoPage(r, isAsync) \/ NewBufNoStruct(r, isAsync)
      PROVE  SpaceInv'
  <2>1. UNCHANGED <<mapped, released, state, request, async, asyncFree>>
    BY <1>7 DEF NewBufNoPage, NewBufNoStruct, mapVars, bufVars
  <2>2. AsyncBuffers' = AsyncBuffers BY <2>1 DEF AsyncBuffers, InUse
  <2> QED BY <1>1, <2>1, <2>2, AddingStays
<1>8. ASSUME NEW a \in Addrs, AllowUserFree(a) \/ PrepareToFree(a) PROVE SpaceInv'
  <2>1. UNCHANGED <<mapped, released, request, async, asyncFree>>
    BY <1>8 DEF AllowUserFree, PrepareToFree, mapVars
  <2>2. \A b \in Addrs : InUse(b)' <=> InUse(b)
    BY <1>8 DEF AllowUserFree, PrepareToFree, InUse, Allocated, SpaceInv, IInv, Types
  <2>3. AsyncBuffers' = AsyncBuffers BY <2>1, <2>2 DEF AsyncBuffers
  <2> QED BY <1>1, <2>1, <2>3, AddingStays
<1>9. ASSUME NEW a \in Addrs, FreeBuf(a) PROVE SpaceInv'
  BY <1>1, <1>9, FreeBufGivesBack
<1>10. ASSUME NEW p \in PageIdx, ShrinkPage(p) PROVE SpaceInv'
  <2>1. UNCHANGED <<mapped, released, state, request, async, asyncFree>>
    BY <1>10 DEF ShrinkPage, mapVars, bufVars
  <2>2. AsyncBuffers' = AsyncBuffers BY <2>1 DEF AsyncBuffers, InUse
  <2> QED BY <1>1, <2>1, <2>2, AddingStays
<1> QED BY <1>2, <1>3, <1>4, <1>5, <1>6, <1>7, <1>8, <1>9, <1>10 DEF Next

LEMMA InitSpace == Init => SpaceInv
<1> SUFFICES ASSUME Init PROVE SpaceInv OBVIOUS
<1>1. AsyncBuffers = {} BY DEF Init, AsyncBuffers
<1> QED BY <1>1, InitEstablishes DEF SpaceInv, Adding, AsyncAsked, Init

LEMMA SpaceAlways == ShortMapping /\ NoneEmpty => (Spec => []SpaceInv)
<1>1. ASSUME ShortMapping, NoneEmpty PROVE SpaceInv /\ [Next]_vars => SpaceInv'
  BY <1>1, SpaceNext
<1>2. ASSUME ShortMapping, NoneEmpty PROVE Spec => []SpaceInv
  BY <1>1, <1>2, InitSpace, PTL DEF Spec
<1> QED BY <1>2

\* binder_alloc_new_buf_locked charges a one-way buffer with its padded size and
\* binder_free_buf_locked refunds the sum of its three sizes, both in size_t: the
\* two agree, and neither wraps.
THEOREM AsyncSpaceIsAccounted ==
    ShortMapping /\ NoneEmpty => (Spec => []AsyncSpaceAddsUp)
<1>1. SpaceInv => AsyncSpaceAddsUp
  BY SumOfTaken DEF SpaceInv, Adding, AsyncSpaceAddsUp
<1>2. ASSUME ShortMapping, NoneEmpty PROVE Spec => []AsyncSpaceAddsUp
  BY <1>1, <1>2, SpaceAlways, PTL
<1> QED BY <1>2

\* One-way buffers never have more than half of the mapping, as the comments on
\* free_async_space have it, unless empty ones are sent.
THEOREM AsyncHasHalf == ShortMapping /\ NoneEmpty => (Spec => []AsyncWithinHalf)
<1>1. SpaceInv => AsyncWithinHalf
  <2> SUFFICES ASSUME SpaceInv PROVE SumOf(Taken, AsyncBuffers) <= Space \div 2
    BY SumOfTaken DEF AsyncWithinHalf
  <2>1. AsyncBuffers \in SUBSET Addrs BY DEF AsyncBuffers
  <2>2. SumOf(Taken, AsyncBuffers) \in Nat BY <2>1, SumIs, TakenFacts
  <2>3. CASE mapped /\ ~released
    <3>1. asyncFree \in Nat BY <2>3 DEF SpaceInv, Adding, SizeT
    <3> QED BY <2>2, <2>3, <3>1, TakenFacts DEF SpaceInv, Adding
  <2>4. CASE ~mapped \/ released
    <3>1. Starts = {} BY <2>4 DEF SpaceInv, IInv, ListShape
    <3>2. AsyncBuffers = {} BY <3>1 DEF Starts, AsyncBuffers, InUse, Allocated
    <3>3. SumOf(Taken, {}) = 0 BY SumIs, TakenFacts
    <3> QED BY <3>2, <3>3, TakenFacts
  <2> QED BY <2>3, <2>4
<1>2. ASSUME ShortMapping, NoneEmpty PROVE Spec => []AsyncWithinHalf
  BY <1>1, <1>2, SpaceAlways, PTL
<1> QED BY <1>2

-----------------------------------------------------------------------------
(* The tree of parents. *)

\* A set of objects that has the parents of its members.
Closed(os, S) == \A y \in S : os[y].parent # 0 => os[y].parent \in S

\* x and what is above it, as the smallest such set.
Above(os, x) ==
    {y \in 1 .. Len(os) : /\ x # 0
                          /\ \A S \in SUBSET (1 .. Len(os)) :
                               x \in S /\ Closed(os, S) => y \in S}

ParentsFirst(os) == \A i \in 1 .. Len(os) : os[i].parent \in 0 .. i - 1

LEMMA AboveOfNone == ASSUME NEW os PROVE Above(os, 0) = {}
BY DEF Above

LEMMA AboveIs ==
    ASSUME NEW os, Len(os) \in Nat, ParentsFirst(os), NEW x \in 1 .. Len(os)
    PROVE  /\ x \in Above(os, x) /\ Closed(os, Above(os, x))
           /\ Above(os, x) \subseteq 1 .. x
           /\ \A S \in SUBSET (1 .. Len(os)) :
                x \in S /\ Closed(os, S) => Above(os, x) \subseteq S
<1> DEFINE A == Above(os, x)
<1>1. x # 0 /\ A \subseteq 1 .. Len(os) BY DEF Above
<1>2. x \in A BY DEF Above
<1>3. ASSUME NEW S \in SUBSET (1 .. Len(os)), x \in S, Closed(os, S)
      PROVE  A \subseteq S
  BY <1>3 DEF Above
<1>4. Closed(os, A)
  <2> SUFFICES ASSUME NEW y \in A, os[y].parent # 0 PROVE os[y].parent \in A
    BY DEF Closed
  <2>1. os[y].parent \in 1 .. Len(os) BY <1>1 DEF ParentsFirst
  <2>2. ASSUME NEW S \in SUBSET (1 .. Len(os)), x \in S, Closed(os, S)
        PROVE  os[y].parent \in S
    BY <1>3, <2>2 DEF Closed
  <2> QED BY <1>1, <2>1, <2>2 DEF Above
<1>5. A \subseteq 1 .. x
  <2>1. Closed(os, 1 .. x)
    <3> SUFFICES ASSUME NEW y \in 1 .. x, os[y].parent # 0
                 PROVE  os[y].parent \in 1 .. x
      BY DEF Closed
    <3> QED BY DEF ParentsFirst
  <2> QED BY <1>3, <2>1
<1> QED BY <1>2, <1>3, <1>4, <1>5

LEMMA AboveParent ==
    ASSUME NEW os, Len(os) \in Nat, ParentsFirst(os), NEW x \in 1 .. Len(os)
    PROVE  Above(os, x) = {x} \union Above(os, os[x].parent)
<1> DEFINE p == os[x].parent
           U == {x} \union Above(os, p)
<1>1. /\ x \in Above(os, x) /\ Closed(os, Above(os, x))
      /\ Above(os, x) \subseteq 1 .. Len(os)
      /\ \A S \in SUBSET (1 .. Len(os)) :
           x \in S /\ Closed(os, S) => Above(os, x) \subseteq S
  BY AboveIs
<1>2. p \in 0 .. x - 1 BY DEF ParentsFirst
<1>3. CASE p = 0
  <2>1. U = {x} BY <1>3, AboveOfNone
  <2>2. Closed(os, {x}) BY <1>3 DEF Closed
  <2> QED BY <1>1, <2>1, <2>2
<1>4. CASE p # 0
  <2>1. /\ p \in Above(os, p) /\ Closed(os, Above(os, p))
        /\ Above(os, p) \subseteq 1 .. Len(os)
        /\ \A S \in SUBSET (1 .. Len(os)) :
             p \in S /\ Closed(os, S) => Above(os, p) \subseteq S
    BY <1>2, <1>4, AboveIs
  <2>2. Closed(os, U) BY <2>1 DEF Closed
  <2>3. p \in Above(os, x) BY <1>1, <1>4 DEF Closed
  <2> QED BY <1>1, <2>1, <2>2, <2>3
<1> QED BY <1>3, <1>4

\* The recursion of the model finds that set.
LEMMA UpwardIs ==
    ASSUME Len(objs) \in Nat, ParentsFirst(objs)
    PROVE  \A x \in 0 .. Len(objs) : Upward[x] = Above(objs, x)
<1> DEFINE D == 0 .. Len(objs)
           f == [x \in D |-> Above(objs, x)]
<1>1. ASSUME NEW x \in D, x # 0 PROVE objs[x].parent \in D /\ objs[x].parent < x
  BY <1>1 DEF ParentsFirst
<1>2. f = [x \in D |-> IF x = 0 THEN {} ELSE {x} \union f[objs[x].parent]]
  <2>1. ASSUME NEW x \in D
        PROVE  Above(objs, x) = IF x = 0 THEN {} ELSE {x} \union f[objs[x].parent]
    BY <1>1, AboveOfNone, AboveParent
  <2> HIDE DEF D
  <2> QED BY <2>1
<1>3. Upward = [x \in D |-> IF x = 0 THEN {} ELSE {x} \union Upward[objs[x].parent]]
  <2> HIDE DEF f
  <2> QED BY <1>2, Zenon DEF Upward
<1> DEFINE T == {x \in D : Upward[x] # f[x]}
<1> HIDE DEF f
<1> SUFFICES ASSUME T # {} PROVE FALSE BY DEF f
<1>4. PICK m \in T : \A y \in T : m <= y
  <2>1. T \in SUBSET Nat OBVIOUS
  <2> HIDE DEF T
  <2> QED BY <2>1, MinExists
<1>5. m \in D /\ Upward[m] # f[m] BY <1>4
<1>6. /\ Upward[m] = IF m = 0 THEN {} ELSE {m} \union Upward[objs[m].parent]
      /\ f[m] = IF m = 0 THEN {} ELSE {m} \union f[objs[m].parent]
  <2> HIDE DEF D, T
  <2>1. \A x \in D : f[x] = IF x = 0 THEN {} ELSE {x} \union f[objs[x].parent]
    BY <1>2, Zenon
  <2>2. \A x \in D : Upward[x] = IF x = 0 THEN {} ELSE {x} \union Upward[objs[x].parent]
    BY <1>3, Zenon
  <2> QED BY <1>5, <2>1, <2>2
<1>7. m # 0 /\ Upward[objs[m].parent] # f[objs[m].parent]
  <2> HIDE DEF D, T
  <2> QED BY <1>5, <1>6
<1>8. objs[m].parent \in D /\ objs[m].parent < m BY <1>1, <1>5, <1>7
<1>9. objs[m].parent \in T BY <1>7, <1>8
<1>10. m \in Int /\ objs[m].parent \in Int BY <1>5, <1>8
<1> HIDE DEF T
<1> QED BY <1>4, <1>8, <1>9, <1>10

\* A further object is above none that was there.
LEMMA AboveAppend ==
    ASSUME NEW O, NEW os \in Seq(O), NEW o \in O, ParentsFirst(os),
           NEW x \in 0 .. Len(os)
    PROVE  Above(Append(os, o), x) = Above(os, x)
<1> DEFINE ps == Append(os, o)
<1>1. /\ Len(os) \in Nat /\ Len(ps) = Len(os) + 1
      /\ \A i \in 1 .. Len(os) : ps[i] = os[i]
  OBVIOUS
<1> HIDE DEF ps
<1>2. CASE x = 0 BY <1>2, AboveOfNone DEF ps
<1>3. CASE x # 0
  <2>1. ASSUME NEW y \in Above(os, x) PROVE y \in Above(ps, x)
    <3>1. y \in 1 .. Len(ps) /\ y \in 1 .. Len(os) BY <1>1, <2>1 DEF Above
    <3>2. ASSUME NEW S \in SUBSET (1 .. Len(ps)), x \in S, Closed(ps, S)
          PROVE  y \in S
      <4>1. Closed(os, S \cap (1 .. Len(os))) /\ x \in S \cap (1 .. Len(os))
        BY <1>1, <1>3, <3>2 DEF Closed, ParentsFirst
      <4> QED BY <2>1, <4>1 DEF Above
    <3> QED BY <1>3, <3>1, <3>2 DEF Above
  <2>2. ASSUME NEW y \in Above(ps, x) PROVE y \in Above(os, x)
    <3>1. ASSUME NEW S \in SUBSET (1 .. Len(os)), x \in S, Closed(os, S)
          PROVE  y \in S
      <4>1. S \in SUBSET (1 .. Len(ps)) /\ Closed(ps, S) BY <1>1, <3>1 DEF Closed
      <4> QED BY <2>2, <3>1, <4>1 DEF Above
    <3>2. Closed(os, 1 .. Len(os)) /\ x \in 1 .. Len(os)
      BY <1>1, <1>3 DEF Closed, ParentsFirst
    <3>3. y \in 1 .. Len(os) BY <3>1, <3>2
    <3> QED BY <1>3, <3>1, <3>3 DEF Above
  <2> QED BY <2>1, <2>2 DEF ps
<1> QED BY <1>2, <1>3

-----------------------------------------------------------------------------
(* Places and sizes. *)

ObjRecord == [kind : {"ptr", "fd", "fda"}, parent : Nat, off : Nat, len : Nat,
              base : Nat, fd : Nat]

\* The end of what is the sender's.
Room == Extra - CtxSize

\* How much of its parent an object is written over.
Size(o) == IF o.kind = "fda" THEN FdSize * o.len ELSE Word

\* Where object i is written into its parent.
At(os, i) == os[os[i].parent].base + os[i].off
Patch(os, i) == At(os, i) .. At(os, i) + Size(os[i]) - 1

\* An object fits into what is in os, of which s bytes are copied.
FitsIn(os, s, o) ==
    /\ o.kind = "ptr" => o.base + o.len <= s
    /\ o.kind = "fda" => o.parent # 0 /\ o.len < (Limit - 1) \div FdSize
    /\ o.parent # 0 => /\ o.kind # "fd" /\ os[o.parent].kind = "ptr"
                       /\ o.off + Size(o) <= os[o.parent].len

\* The copies lie one behind the other, and every object in its parent.
Laid(os, s) ==
    /\ s \in Nat /\ Multiple(s) /\ s <= Room
    /\ ParentsFirst(os)
    /\ \A i \in 1 .. Len(os) : FitsIn(os, s, os[i])
    /\ \A i \in 1 .. Len(os) : \A j \in 1 .. i - 1 :
         os[i].kind = "ptr" /\ os[j].kind = "ptr" => os[j].base + os[j].len <= os[i].base

\* Nothing is written into p from off on.
Behind(os, p, off) ==
    \A i \in 1 .. Len(os) : os[i].parent = p => os[i].off + Size(os[i]) <= off

LEMMA Constants ==
    /\ Word \in Nat \ {0} /\ FdSize \in Nat \ {0} /\ Limit \in Nat \ {0}
    /\ Extra \in Nat /\ CtxSize \in Nat /\ Room \in Nat
    /\ Room <= Extra /\ Room < Limit /\ Multiple(Room)
    /\ Fds \subseteq Nat /\ MaxObjs \in Nat
    /\ Lengths \subseteq SizeT /\ Offsets \subseteq SizeT /\ Nums \subseteq SizeT
    /\ SizeT \subseteq Nat
<1>1. /\ Word \in Nat \ {0} /\ Limit \in Nat \ {0} /\ FdSize \in Nat \ {0}
      /\ Extra \in Nat /\ Extra < Limit /\ CtxSize \in Nat /\ CtxSize <= Extra
      /\ Extra % Word = 0 /\ CtxSize % Word = 0
      /\ Fds \subseteq Nat /\ MaxObjs \in Nat
      /\ Lengths \subseteq SizeT /\ Offsets \subseteq SizeT /\ Nums \subseteq SizeT
      /\ SizeT \subseteq Nat
  BY WordAssumption, ObjectAssumption DEF SizeT
<1>2. ASSUME NEW x \in Nat, x % Word = 0 PROVE \E q \in Int : x = Word * q
  <2>1. x \in Int /\ Word \in Nat \ {0} BY <1>1
  <2>2. PICK q \in Int : x = (Word * q) + (x % Word) BY <2>1, Remainder
  <2>3. Word * q \in Int BY <2>1
  <2>4. x = Word * q BY <1>2, <2>2, <2>3
  <2> QED BY <2>4
<1>3. PICK a, b \in Int : Extra = Word * a /\ CtxSize = Word * b BY <1>1, <1>2
<1>4. Room = Word * (a - b) BY <1>1, <1>3 DEF Room
<1>5. Multiple(Room) BY <1>4 DEF Multiple
<1> QED BY <1>1, <1>5 DEF Room

LEMMA AlignFits ==
    ASSUME NEW x \in SizeT, NEW y \in Nat, Multiple(y), x <= y, y < Limit
    PROVE  /\ Align(x) \in Nat /\ x <= Align(x) /\ Align(x) <= y
           /\ Multiple(Align(x))
<1>1. x \in Nat /\ Word \in Nat \ {0} /\ Limit \in Nat \ {0} BY Constants DEF SizeT
<1>2. PICK a, k \in Int : /\ RoundUp(x) = Word * a /\ x <= Word * a
                          /\ Word * a < x + Word
  BY RoundedUp
<1>3. PICK b \in Int : y = Word * b BY DEF Multiple
<1>4. a <= b
  <2> SUFFICES ASSUME a >= b + 1 PROVE FALSE OBVIOUS
  <2>1. Word * a >= Word * (b + 1) BY <1>1
  <2>2. Word * (b + 1) = y + Word BY <1>1, <1>3
  <2> QED BY <1>1, <1>2, <1>3, <2>1, <2>2
<1>5. Word * a <= Word * b BY <1>1, <1>4
<1>6. RoundUp(x) <= y /\ x <= RoundUp(x) BY <1>2, <1>3, <1>5
<1>7. Align(x) = RoundUp(x) /\ RoundUp(x) \in Nat BY <1>1, <1>6, AlignIsRoundUp
<1>8. Multiple(Align(x)) BY AlignIsMultiple
<1> QED BY <1>6, <1>7, <1>8

\* The size of an array that is not refused has not wrapped.
LEMMA ArraySize ==
    ASSUME NEW num \in Nat, num < (Limit - 1) \div FdSize
    PROVE  FdSize * num \in Nat /\ (FdSize * num) % Limit = FdSize * num
<1>1. FdSize \in Nat \ {0} /\ Limit \in Nat \ {0} BY Constants
<1> DEFINE q == (Limit - 1) \div FdSize
<1>2. q \in Int /\ FdSize * q <= Limit - 1 BY <1>1
<1>3. num < q OBVIOUS
<1> HIDE DEF q
<1>4. FdSize * num <= FdSize * q BY <1>1, <1>2, <1>3
<1>5. FdSize * num \in Nat /\ FdSize * q \in Int BY <1>1, <1>2
<1> DEFINE s == FdSize * num
<1>6. s \in Nat /\ s < Limit BY <1>1, <1>2, <1>4, <1>5
<1> HIDE DEF s
<1>7. s % Limit = s BY <1>1, <1>6
<1> QED BY <1>5, <1>7 DEF s

LEMMA EntryBounds ==
    ASSUME NEW n \in Nat, NEW k \in 1 .. n
    PROVE  /\ FdSize * n \in Nat /\ FdSize * (k - 1) \in Nat
           /\ FdSize * (k - 1) + FdSize <= FdSize * n
<1>1. FdSize \in Nat \ {0} BY Constants
<1>2. FdSize * (k - 1) + FdSize = FdSize * k BY <1>1
<1>3. FdSize * k <= FdSize * n BY <1>1
<1>4. FdSize * n \in Nat /\ FdSize * (k - 1) \in Nat BY <1>1
<1> QED BY <1>2, <1>3, <1>4

LEMMA SizeNat == ASSUME NEW o \in ObjRecord PROVE Size(o) \in Nat
<1>1. o.len \in Nat BY DEF ObjRecord
<1>2. FdSize * o.len \in Nat /\ Word \in Nat BY <1>1, Constants
<1> QED BY <1>2 DEF Size

\* What is written for an object lies in the copy of its parent.
LEMMA PatchInParent ==
    ASSUME NEW os \in Seq(ObjRecord), NEW s, Laid(os, s),
           NEW i \in 1 .. Len(os), os[i].parent # 0
    PROVE  LET p == os[i].parent IN
           /\ p \in 1 .. i - 1 /\ os[p].kind = "ptr"
           /\ os[p].base \in Nat /\ os[p].len \in Nat
           /\ At(os, i) \in Nat /\ os[p].base <= At(os, i)
           /\ At(os, i) + Size(os[i]) <= os[p].base + os[p].len
           /\ os[p].base + os[p].len <= s
<1> DEFINE p == os[i].parent
<1>1. p \in 1 .. i - 1 BY DEF Laid, ParentsFirst
<1>2. os[i] \in ObjRecord /\ os[p] \in ObjRecord /\ p \in 1 .. Len(os) BY <1>1
<1>3. /\ os[i].off \in Nat /\ os[p].base \in Nat /\ os[p].len \in Nat
      /\ Size(os[i]) \in Nat
  BY <1>2, SizeNat DEF ObjRecord
<1>4. /\ os[p].kind = "ptr" /\ os[i].off + Size(os[i]) <= os[p].len
      /\ os[p].base + os[p].len <= s
  BY <1>2 DEF Laid, FitsIn
<1>5. At(os, i) = os[p].base + os[i].off BY DEF At
<1>6. s \in Nat BY DEF Laid
<1> HIDE DEF p
<1>7. /\ At(os, i) \in Nat /\ os[p].base <= At(os, i)
      /\ At(os, i) + Size(os[i]) <= os[p].base + os[p].len
  BY <1>3, <1>4, <1>5
<1> QED BY <1>1, <1>3, <1>4, <1>7 DEF p

LEMMA PatchInArea ==
    ASSUME NEW os \in Seq(ObjRecord), NEW s, Laid(os, s),
           NEW i \in 1 .. Len(os), os[i].parent # 0, NEW b \in Patch(os, i)
    PROVE  b \in Area /\ b < s
<1> DEFINE q == os[i].parent
           a == At(os, i)
           z == Size(os[i])
           e == os[q].base + os[q].len
<1>1. a \in Nat /\ e \in Nat /\ a + z <= e /\ e <= s BY PatchInParent
<1>2. z \in Nat BY SizeNat
<1>3. b \in a .. a + z - 1 BY DEF Patch
<1>4. s \in Nat /\ s <= Room /\ Room <= Extra /\ Room \in Nat /\ Extra \in Nat
  BY Constants DEF Laid
<1> HIDE DEF a, z, e
<1> QED BY <1>1, <1>2, <1>3, <1>4 DEF Area

\* What is written into p behind all that is in it touches nothing of it, nor
\* of what is in other copies.
LEMMA PatchesApart ==
    ASSUME NEW os \in Seq(ObjRecord), NEW s, Laid(os, s),
           NEW p \in 1 .. Len(os), os[p].kind = "ptr",
           NEW off \in Nat, NEW w \in Nat, Behind(os, p, off), off + w <= os[p].len,
           NEW i \in 1 .. Len(os), os[i].parent # 0, NEW b \in Patch(os, i)
    PROVE  b \notin os[p].base + off .. os[p].base + off + w - 1
<1> DEFINE q == os[i].parent
<1>1. /\ q \in 1 .. Len(os) /\ os[q].kind = "ptr"
      /\ os[q].base \in Nat /\ os[q].len \in Nat
      /\ At(os, i) \in Nat /\ os[q].base <= At(os, i)
      /\ At(os, i) + Size(os[i]) <= os[q].base + os[q].len
  BY PatchInParent
<1>2. os[i] \in ObjRecord /\ os[p] \in ObjRecord OBVIOUS
<1>3. os[i].off \in Nat /\ os[p].base \in Nat /\ os[p].len \in Nat /\ Size(os[i]) \in Nat
  BY <1>2, SizeNat DEF ObjRecord
<1>4. b \in Int /\ At(os, i) <= b /\ b <= At(os, i) + Size(os[i]) - 1
  BY <1>1, <1>3 DEF Patch
<1>5. CASE q = p
  <2>1. os[i].off + Size(os[i]) <= off BY <1>5 DEF Behind
  <2>2. At(os, i) = os[p].base + os[i].off BY <1>5 DEF At
  <2> DEFINE a == At(os, i)
             z == Size(os[i])
             bp == os[p].base
             o == os[i].off
  <2>3. /\ o \in Nat /\ z \in Nat /\ bp \in Nat /\ o + z <= off /\ a = bp + o
        /\ b \in Int /\ b <= a + z - 1
    BY <1>3, <1>4, <2>1, <2>2
  <2> HIDE DEF a, z, bp, o
  <2>4. b < bp + off BY SMTT(30), <2>3
  <2>5. b \notin bp + off .. bp + off + w - 1 BY <2>3, <2>4
  <2> QED BY <2>5 DEF bp
<1>6. \/ q < p /\ os[q].base + os[q].len <= os[p].base
      \/ p < q /\ os[p].base + os[p].len <= os[q].base
      \/ p = q
  <2> HIDE DEF q
  <2>1. \A i1 \in 1 .. Len(os) : \A j1 \in 1 .. i1 - 1 :
          os[i1].kind = "ptr" /\ os[j1].kind = "ptr" => os[j1].base + os[j1].len <= os[i1].base
    BY DEF Laid
  <2>2. q \in Int /\ p \in Int /\ q \in 1 .. Len(os) BY <1>1
  <2>3. CASE q < p
    <3>1. q \in 1 .. p - 1 BY <2>2, <2>3
    <3>2. os[q].base + os[q].len <= os[p].base BY <1>1, <2>1, <3>1
    <3> QED BY <2>3, <3>2
  <2>4. CASE p < q
    <3>1. p \in 1 .. q - 1 BY <2>2, <2>4
    <3>2. os[p].base + os[p].len <= os[q].base BY <1>1, <2>1, <2>2, <3>1
    <3> QED BY <2>4, <3>2
  <2> QED BY <2>2, <2>3, <2>4
<1> DEFINE a == At(os, i)
           z == Size(os[i])
           bp == os[p].base
           lp == os[p].len
           bq == os[q].base
           lq == os[q].len
<1>7. /\ a \in Nat /\ z \in Nat /\ bp \in Nat /\ lp \in Nat /\ bq \in Nat /\ lq \in Nat
      /\ b \in Int /\ a <= b /\ b <= a + z - 1 /\ bq <= a /\ a + z <= bq + lq
      /\ off + w <= lp
  BY <1>1, <1>3, <1>4
<1>8. bq + lq <= bp \/ bp + lp <= bq \/ p = q BY <1>6
<1> HIDE DEF a, z, bp, lp, bq, lq
<1>9. p # q => b \notin bp + off .. bp + off + w - 1 BY <1>7, <1>8
<1> QED BY <1>5, <1>9 DEF bp

-----------------------------------------------------------------------------
(* The order of fix-ups. *)

\* In an object fixed up and not left, nothing lies behind the place from which
\* on it may be written: behind lastMin in the last, and in one above it behind
\* the pointer to the one below.
Ordered(os, l, m) ==
    \A i \in 1 .. Len(os) : os[i].parent \in Above(os, l) =>
      /\ os[i].parent = l => os[i].off + Size(os[i]) <= m
      /\ \A c \in Above(os, l) :
           os[c].parent = os[i].parent => os[i].off + Size(os[i]) <= os[c].off + Word

\* A place a fix-up may be made at.
Fresh(os, l, p, off) ==
    p \in Above(os, l) /\ os[p].kind = "ptr" /\ Behind(os, p, off)

\* What binder_validate_fixup lets through is such a place.
LEMMA ValidIsFresh ==
    ASSUME objs \in Seq(ObjRecord), ParentsFirst(objs), last \in 0 .. Len(objs),
           lastMin \in Nat, Ordered(objs, last, lastMin),
           NEW p, NEW off \in Nat, ValidPtr(p), ValidFixup(p, off)
    PROVE  Fresh(objs, last, p, off)
<1>1. Upward[last] = Above(objs, last) BY UpwardIs
<1>2. p \in Above(objs, last) BY <1>1 DEF ValidFixup
<1>3. ASSUME NEW i \in 1 .. Len(objs), objs[i].parent = p
      PROVE  objs[i].off + Size(objs[i]) <= off
  <2>1. objs[i] \in ObjRecord OBVIOUS
  <2>2. objs[i].off \in Nat /\ Size(objs[i]) \in Nat BY <2>1, SizeNat DEF ObjRecord
  <2>3. CASE p = last /\ off >= lastMin
    <3>1. objs[i].off + Size(objs[i]) <= lastMin BY <1>2, <1>3, <2>3 DEF Ordered
    <3> QED BY <2>2, <2>3, <3>1
  <2>4. ASSUME NEW c \in Above(objs, last), objs[c].parent = p,
               off >= objs[c].off + Word
        PROVE  objs[i].off + Size(objs[i]) <= off
    <3>1. objs[i].off + Size(objs[i]) <= objs[c].off + Word
      BY <1>2, <1>3, <2>4 DEF Ordered
    <3>2. objs[c] \in ObjRecord BY DEF Above
    <3>3. objs[c].off \in Nat /\ Word \in Nat BY <3>2, Constants DEF ObjRecord
    <3> DEFINE x == objs[i].off + Size(objs[i])
               y == objs[c].off + Word
    <3>4. x \in Int /\ y \in Int BY SMTT(30), <2>2, <3>3
    <3>5. x <= y /\ y <= off BY <2>4, <3>1
    <3> HIDE DEF x, y
    <3>6. x <= off BY <3>4, <3>5
    <3> QED BY <3>6 DEF x
  <2> QED BY <1>1, <2>3, <2>4 DEF ValidFixup
<1> QED BY <1>2, <1>3 DEF Fresh, Behind, ValidPtr

LEMMA AppendFacts ==
    ASSUME NEW os \in Seq(ObjRecord), NEW o \in ObjRecord
    PROVE  /\ Append(os, o) \in Seq(ObjRecord)
           /\ Len(os) \in Nat /\ Len(Append(os, o)) = Len(os) + 1
           /\ \A i \in 1 .. Len(os) : Append(os, o)[i] = os[i]
           /\ Append(os, o)[Len(os) + 1] = o
OBVIOUS

\* A further object that fits is laid out behind those there are.
LEMMA AppendLaid ==
    ASSUME NEW os \in Seq(ObjRecord), NEW s, Laid(os, s), NEW o \in ObjRecord,
           NEW t \in Nat, s <= t, t <= Room, Multiple(t),
           o.parent \in 0 .. Len(os), FitsIn(os, t, o),
           o.kind = "ptr" => o.base = s
    PROVE  Laid(Append(os, o), t)
<1> DEFINE ps == Append(os, o)
           n == Len(os)
<1>1. /\ ps \in Seq(ObjRecord) /\ n \in Nat /\ Len(ps) = n + 1
      /\ \A i \in 1 .. n : ps[i] = os[i]
      /\ ps[n + 1] = o
  BY AppendFacts
<1> HIDE DEF ps
<1>2. s \in Nat /\ ParentsFirst(os) BY DEF Laid
<1>3. ParentsFirst(ps)
  <2> SUFFICES ASSUME NEW i \in 1 .. Len(ps) PROVE ps[i].parent \in 0 .. i - 1
    BY DEF ParentsFirst
  <2>1. CASE i = n + 1 BY <1>1, <2>1
  <2>2. CASE i \in 1 .. n BY <1>1, <1>2, <2>2 DEF ParentsFirst
  <2> QED BY <1>1, <2>1, <2>2
<1>4. ASSUME NEW i \in 1 .. Len(ps) PROVE FitsIn(ps, t, ps[i])
  <2> DEFINE r == ps[i]
             q == r.parent
  <2> SUFFICES FitsIn(ps, t, r) OBVIOUS
  <2>1. r \in ObjRecord BY <1>1
  <2>2. q \in 0 .. i - 1 BY <1>3 DEF ParentsFirst
  <2>3. CASE i = n + 1
    <3>1. r = o /\ FitsIn(os, t, r) BY <1>1, <2>3
    <3>2. q # 0 => ps[q] = os[q] BY <1>1, <2>2, <2>3
    <3> HIDE DEF r
    <3> QED BY <3>1, <3>2 DEF FitsIn
  <2>4. CASE i \in 1 .. n
    <3>1. r = os[i] BY <1>1, <2>4
    <3>2. FitsIn(os, s, r) BY <2>4, <3>1 DEF Laid
    <3>3. q # 0 => ps[q] = os[q] BY <1>1, <2>2, <2>4
    <3>4. r.base \in Nat /\ r.len \in Nat BY <2>1 DEF ObjRecord
    <3> HIDE DEF r
    <3>5. r.kind = "ptr" => r.base + r.len <= t BY <1>2, <3>2, <3>4 DEF FitsIn
    <3> QED BY <3>2, <3>3, <3>5 DEF FitsIn
  <2> QED BY <1>1, <2>3, <2>4
<1>5. ASSUME NEW i \in 1 .. Len(ps), NEW j \in 1 .. i - 1,
             ps[i].kind = "ptr", ps[j].kind = "ptr"
      PROVE  ps[j].base + ps[j].len <= ps[i].base
  <2>1. j \in 1 .. n /\ ps[j] = os[j] BY <1>1
  <2>2. CASE i = n + 1
    <3>1. ps[i].base = s BY <1>1, <1>5, <2>2
    <3>2. FitsIn(os, s, os[j]) BY <2>1 DEF Laid
    <3> QED BY <1>5, <2>1, <3>1, <3>2 DEF FitsIn
  <2>3. CASE i \in 1 .. n
    <3>1. ps[i] = os[i] BY <1>1, <2>3
    <3> QED BY <1>5, <2>1, <2>3, <3>1 DEF Laid
  <2> QED BY <1>1, <2>2, <2>3
<1>6. Laid(ps, t) BY <1>3, <1>4, <1>5 DEF Laid
<1> QED BY <1>6 DEF ps

\* An object without a parent disturbs no order.
LEMMA AppendFdOrdered ==
    ASSUME NEW os \in Seq(ObjRecord), NEW o \in ObjRecord, ParentsFirst(os),
           NEW l \in 0 .. Len(os), NEW m, Ordered(os, l, m), o.parent = 0
    PROVE  Ordered(Append(os, o), l, m)
<1> DEFINE ps == Append(os, o)
           n == Len(os)
<1>1. /\ n \in Nat /\ Len(ps) = n + 1
      /\ \A i \in 1 .. n : ps[i] = os[i]
      /\ ps[n + 1] = o
  BY AppendFacts
<1>2. Above(ps, l) = Above(os, l) BY AboveAppend
<1>3. Above(os, l) \subseteq 1 .. n BY DEF Above
<1> HIDE DEF ps
<1>4. ASSUME NEW i \in 1 .. Len(ps), ps[i].parent \in Above(ps, l)
      PROVE  i \in 1 .. n /\ ps[i] = os[i]
  <2>1. i # n + 1 BY <1>1, <1>2, <1>3, <1>4
  <2>2. i \in 1 .. n BY <1>1, <2>1
  <2> QED BY <1>1, <2>2
<1>5. \A c \in Above(os, l) : ps[c] = os[c] BY <1>1, <1>3
<1>6. Ordered(ps, l, m) BY <1>2, <1>4, <1>5 DEF Ordered
<1> QED BY <1>6 DEF ps

\* A buffer that starts a tree of its own is the last, and empty.
LEMMA AppendRootOrdered ==
    ASSUME NEW os \in Seq(ObjRecord), NEW o \in ObjRecord, ParentsFirst(os),
           o.parent = 0
    PROVE  Ordered(Append(os, o), Len(os) + 1, 0)
<1> DEFINE ps == Append(os, o)
           n == Len(os)
<1>1. /\ n \in Nat /\ Len(ps) = n + 1
      /\ \A i \in 1 .. n : ps[i] = os[i]
      /\ ps[n + 1] = o
  BY AppendFacts
<1> HIDE DEF ps
<1>2. ParentsFirst(ps)
  <2> SUFFICES ASSUME NEW i \in 1 .. Len(ps) PROVE ps[i].parent \in 0 .. i - 1
    BY DEF ParentsFirst
  <2>1. CASE i = n + 1 BY <1>1, <2>1
  <2>2. CASE i \in 1 .. n BY <1>1, <2>2 DEF ParentsFirst
  <2> QED BY <1>1, <2>1, <2>2
<1>3. Above(ps, n + 1) = {n + 1} BY <1>1, <1>2, AboveParent, AboveOfNone
<1>4. \A i \in 1 .. Len(ps) : ps[i].parent # n + 1 BY <1>1, <1>2 DEF ParentsFirst
<1>5. Ordered(ps, n + 1, 0) BY <1>3, <1>4 DEF Ordered
<1> QED BY <1>5 DEF ps

\* A buffer with a parent is the last, and the pointer to it the end of what is
\* in the parent.
LEMMA AppendPtrOrdered ==
    ASSUME NEW os \in Seq(ObjRecord), NEW o \in ObjRecord, ParentsFirst(os),
           NEW l \in 0 .. Len(os), NEW m, Ordered(os, l, m),
           o.kind = "ptr", Fresh(os, l, o.parent, o.off)
    PROVE  Ordered(Append(os, o), Len(os) + 1, 0)
<1> DEFINE ps == Append(os, o)
           n == Len(os)
           p == o.parent
           U == Above(os, p)
<1>1. /\ ps \in Seq(ObjRecord) /\ n \in Nat /\ Len(ps) = n + 1
      /\ \A i \in 1 .. n : ps[i] = os[i]
      /\ ps[n + 1] = o
  BY AppendFacts
<1>2. /\ l \in 1 .. n /\ p \in 1 .. n /\ p \in Above(os, l)
      /\ \A i \in 1 .. n : os[i].parent = p => os[i].off + Size(os[i]) <= o.off
  BY <1>1 DEF Fresh, Behind, Above
<1>3. U \subseteq Above(os, l) /\ U \subseteq 1 .. p
  <2>1. Above(os, l) \subseteq 1 .. n /\ Closed(os, Above(os, l))
    BY <1>1, <1>2, AboveIs
  <2> QED BY <1>1, <1>2, <2>1, AboveIs
<1>4. Above(ps, p) = U BY <1>2, AboveAppend
<1> HIDE DEF ps, p, U
<1>5. ParentsFirst(ps)
  <2> SUFFICES ASSUME NEW i \in 1 .. Len(ps) PROVE ps[i].parent \in 0 .. i - 1
    BY DEF ParentsFirst
  <2>1. CASE i = n + 1 BY <1>1, <1>2, <2>1 DEF p
  <2>2. CASE i \in 1 .. n BY <1>1, <2>2 DEF ParentsFirst
  <2> QED BY <1>1, <2>1, <2>2
<1>6. Above(ps, n + 1) = {n + 1} \union U
  <2>1. ps[n + 1].parent = p BY <1>1 DEF p
  <2> QED BY <1>1, <1>4, <1>5, <2>1, AboveParent
<1>7. ASSUME NEW i \in 1 .. Len(ps), ps[i].parent \in Above(ps, n + 1)
      PROVE  /\ ps[i].parent # n + 1
             /\ \A c \in Above(ps, n + 1) : ps[c].parent = ps[i].parent =>
                  ps[i].off + Size(ps[i]) <= ps[c].off + Word
  <2> DEFINE q == ps[i].parent
  <2>1. q # n + 1 /\ q \in U BY <1>1, <1>5, <1>6, <1>7 DEF ParentsFirst
  <2>2. o.off \in Nat /\ Word \in Nat BY Constants DEF ObjRecord
  <2>3. Size(o) = Word BY DEF Size
  <2> SUFFICES ASSUME NEW c \in Above(ps, n + 1), ps[c].parent = q
               PROVE  ps[i].off + Size(ps[i]) <= ps[c].off + Word
    BY <2>1
  <2>4. CASE c = n + 1
    <3>1. q = p /\ ps[c] = o BY <1>1, <2>4 DEF p
    <3>2. CASE i = n + 1 BY <1>1, <2>2, <2>3, <3>1, <3>2
    <3>3. CASE i \in 1 .. n
      <4>1. ps[i] = os[i] BY <1>1, <3>3
      <4>2. os[i].off + Size(os[i]) <= o.off BY <1>2, <3>1, <3>3, <4>1
      <4>3. os[i] \in ObjRecord BY <3>3
      <4>4. os[i].off \in Nat /\ Size(os[i]) \in Nat BY <4>3, SizeNat DEF ObjRecord
      <4> QED BY <2>2, <3>1, <4>1, <4>2, <4>4
    <3> QED BY <1>1, <3>2, <3>3
  <2>5. CASE c \in U
    <3>0. c \in 1 .. p BY <1>3, <2>5
    <3>1. c \in 1 .. p /\ c \in 1 .. n /\ ps[c] = os[c] BY <1>1, <1>2, <3>0
    <3>2. q \in 0 .. c - 1 BY <3>1, <2>5 DEF ParentsFirst
    <3>3. i # n + 1 BY <1>1, <1>2, <3>1, <3>2 DEF p
    <3>4. i \in 1 .. n /\ ps[i] = os[i] BY <1>1, <3>3
    <3>5. q \in Above(os, l) /\ c \in Above(os, l) BY <1>3, <2>1, <2>5
    <3>6. os[i].parent = q /\ os[c].parent = q BY <2>5, <3>1, <3>4
    <3> HIDE DEF q
    <3> QED BY <3>1, <3>4, <3>5, <3>6 DEF Ordered
  <2> QED BY <1>6, <2>4, <2>5
<1>8. Ordered(ps, n + 1, 0) BY <1>7 DEF Ordered
<1> QED BY <1>8 DEF ps

\* After an array, its parent is the last, and the array the end of what is
\* in it.
LEMMA AppendArrayOrdered ==
    ASSUME NEW os \in Seq(ObjRecord), NEW o \in ObjRecord, ParentsFirst(os),
           NEW l \in 0 .. Len(os), NEW m, Ordered(os, l, m),
           o.kind = "fda", Fresh(os, l, o.parent, o.off)
    PROVE  Ordered(Append(os, o), o.parent, o.off + FdSize * o.len)
<1> DEFINE ps == Append(os, o)
           n == Len(os)
           p == o.parent
           U == Above(os, p)
           e == o.off + FdSize * o.len
<1>1. /\ ps \in Seq(ObjRecord) /\ n \in Nat /\ Len(ps) = n + 1
      /\ \A i \in 1 .. n : ps[i] = os[i]
      /\ ps[n + 1] = o
  BY AppendFacts
<1>2. /\ l \in 1 .. n /\ p \in 1 .. n /\ p \in Above(os, l)
      /\ \A i \in 1 .. n : os[i].parent = p => os[i].off + Size(os[i]) <= o.off
  BY <1>1 DEF Fresh, Behind, Above
<1>3. U \subseteq Above(os, l) /\ U \subseteq 1 .. p
  <2>1. Above(os, l) \subseteq 1 .. n /\ Closed(os, Above(os, l))
    BY <1>1, <1>2, AboveIs
  <2> QED BY <1>1, <1>2, <2>1, AboveIs
<1>4. Above(ps, p) = U BY <1>2, AboveAppend
<1>5. Size(o) = FdSize * o.len /\ Size(o) \in Nat /\ o.off \in Nat
  BY SizeNat DEF Size, ObjRecord
<1> HIDE DEF ps, p, U
<1>6. ASSUME NEW i \in 1 .. Len(ps), ps[i].parent \in Above(ps, p)
      PROVE  /\ ps[i].parent = p => ps[i].off + Size(ps[i]) <= e
             /\ \A c \in Above(ps, p) : ps[c].parent = ps[i].parent =>
                  ps[i].off + Size(ps[i]) <= ps[c].off + Word
  <2> DEFINE q == ps[i].parent
  <2>1. q \in U BY <1>4, <1>6
  <2>2. ASSUME q = p PROVE ps[i].off + Size(ps[i]) <= e
    <3>1. CASE i = n + 1 BY <1>1, <1>5, <3>1
    <3>2. CASE i \in 1 .. n
      <4>1. ps[i] = os[i] BY <1>1, <3>2
      <4>2. os[i].off + Size(os[i]) <= o.off BY <1>2, <2>2, <3>2, <4>1
      <4>3. os[i] \in ObjRecord BY <3>2
      <4>4. os[i].off \in Nat /\ Size(os[i]) \in Nat BY <4>3, SizeNat DEF ObjRecord
      <4> QED BY <1>5, <4>1, <4>2, <4>4
    <3> QED BY <1>1, <3>1, <3>2
  <2>3. ASSUME NEW c \in U, ps[c].parent = q
        PROVE  ps[i].off + Size(ps[i]) <= ps[c].off + Word
    <3>1. c \in 1 .. p /\ c \in 1 .. n /\ ps[c] = os[c] BY <1>1, <1>2, <1>3
    <3>2. os[c].parent \in 0 .. c - 1 BY <3>1 DEF ParentsFirst
    <3>3. os[c].parent = q BY <2>3, <3>1
    <3>4. i # n + 1 BY <1>1, <1>2, <3>1, <3>2, <3>3 DEF p
    <3>5. i \in 1 .. n /\ ps[i] = os[i] BY <1>1, <3>4
    <3>6. q \in Above(os, l) /\ c \in Above(os, l) BY <1>3, <2>1
    <3>7. os[i].parent = q BY <3>5
    <3> HIDE DEF q
    <3> QED BY <3>1, <3>3, <3>5, <3>6, <3>7 DEF Ordered
  <2> QED BY <1>4, <2>2, <2>3
<1>7. Ordered(ps, p, e) BY <1>6 DEF Ordered
<1> QED BY <1>7 DEF ps, p

-----------------------------------------------------------------------------
(* What is written stays. *)

EntryWhole(m, a, k) ==
    \A b \in a + FdSize * (k - 1) .. a + FdSize * (k - 1) + FdSize - 1 :
      m[b] = Byte("fd", m[a + FdSize * (k - 1)].of)

Intact(os, m, i) ==
    /\ os[i].kind = "ptr" /\ os[i].parent # 0 => \A b \in Patch(os, i) : m[b] = Byte("ptr", i)
    /\ os[i].kind = "fda" => \A k \in 1 .. os[i].len : EntryWhole(m, At(os, i), k)

CtxIntact(m) == \A b \in Area : m[b].what = "ctx" <=> b >= Room

Kept(os, m) == (\A i \in 1 .. Len(os) : Intact(os, m, i)) /\ CtxIntact(m)

Translating == step \in {"reserve", "install"}

\* The place in the parent of the array under translation is still fresh, and
\* the entries written so far are whole.
ArrayUnderway ==
    /\ cur.parent \in 1 .. Len(objs)
    /\ Fresh(objs, last, cur.parent, cur.off) /\ FitsIn(objs, sg, cur)
    /\ \A k \in 1 .. fdi : EntryWhole(mem, objs[cur.parent].base + cur.off, k)

Underway ==
    /\ Translating => /\ cur.kind \in {"fd", "fda"} /\ fdi <= cur.len
                      /\ cur.kind = "fd" => cur.parent = 0 /\ cur.len = 1
                      /\ cur.kind = "fda" => ArrayUnderway
    /\ step = "install" => fdi < cur.len

BufferTypes ==
    /\ objs \in Seq(ObjRecord) /\ last \in 0 .. Len(objs) /\ lastMin \in Nat
    /\ mem \in [Area -> [what : {"free", "ctx", "data", "ptr", "fd"}, of : Nat]]

StepTypes ==
    /\ table \in [Fds -> FdStates] /\ files \in BOOLEAN
    /\ step \in Steps /\ cur \in ObjRecord \union {NoObj} /\ fdi \in Nat /\ newFd \in Nat
    /\ closing \in Seq(Nat) /\ rel \in Nat \ {0} /\ failed \in BOOLEAN

BufferInv ==
    /\ BufferTypes /\ StepTypes
    /\ Laid(objs, sg) /\ Ordered(objs, last, lastMin) /\ Kept(objs, mem)
    /\ Underway

LEMMA PartOfPart ==
    ASSUME NEW a \in Nat, NEW e \in Nat, NEW w \in Nat \ {0}, NEW z \in Nat, e + w <= z,
           NEW b \in a + e .. a + e + w - 1
    PROVE  b \in a .. a + z - 1 /\ a + e \in a .. a + z - 1
OBVIOUS

LEMMA EntryInPatch ==
    ASSUME NEW os \in Seq(ObjRecord), NEW s, Laid(os, s),
           NEW i \in 1 .. Len(os), os[i].kind = "fda", NEW k \in 1 .. os[i].len,
           NEW b \in At(os, i) + FdSize * (k - 1) .. At(os, i) + FdSize * (k - 1) + FdSize - 1
    PROVE  b \in Patch(os, i) /\ At(os, i) + FdSize * (k - 1) \in Patch(os, i)
<1>1. os[i] \in ObjRecord OBVIOUS
<1>2. os[i].len \in Nat BY <1>1 DEF ObjRecord
<1>3. /\ FdSize * os[i].len \in Nat /\ FdSize * (k - 1) \in Nat
      /\ FdSize * (k - 1) + FdSize <= FdSize * os[i].len
  BY <1>2, EntryBounds
<1>4. os[i].parent # 0 BY DEF Laid, FitsIn
<1>5. At(os, i) \in Nat BY <1>4, PatchInParent
<1>6. Size(os[i]) = FdSize * os[i].len BY DEF Size
<1> DEFINE e == FdSize * (k - 1)
           z == FdSize * os[i].len
           a == At(os, i)
<1>7. /\ e \in Nat /\ z \in Nat /\ a \in Nat /\ e + FdSize <= z
      /\ b \in a + e .. a + e + FdSize - 1 /\ Patch(os, i) = a .. a + z - 1
  BY <1>3, <1>5, <1>6 DEF Patch
<1> HIDE DEF e, z, a
<1>8. b \in a .. a + z - 1 /\ a + e \in a .. a + z - 1
  <2>1. FdSize \in Nat \ {0} BY Constants
  <2> QED BY <1>7, <2>1, PartOfPart
<1> QED BY <1>7, <1>8 DEF a, e

\* A write that touches nothing written for an object leaves all of it whole.
LEMMA KeptApart ==
    ASSUME NEW os \in Seq(ObjRecord), NEW s, Laid(os, s), NEW m, NEW w, Kept(os, m),
           \A i \in 1 .. Len(os) : os[i].parent # 0 =>
             \A b \in Patch(os, i) : w[b] = m[b],
           CtxIntact(w)
    PROVE  Kept(os, w)
<1> SUFFICES ASSUME NEW i \in 1 .. Len(os) PROVE Intact(os, w, i) BY DEF Kept
<1>1. Intact(os, m, i) BY DEF Kept
<1>2. os[i].kind = "ptr" /\ os[i].parent # 0 => \A b \in Patch(os, i) : w[b] = Byte("ptr", i)
  BY <1>1 DEF Intact
<1>3. ASSUME os[i].kind = "fda", NEW k \in 1 .. os[i].len
      PROVE  EntryWhole(w, At(os, i), k)
  <2> DEFINE e == At(os, i) + FdSize * (k - 1)
  <2> SUFFICES ASSUME NEW b \in e .. e + FdSize - 1 PROVE w[b] = Byte("fd", w[e].of)
    BY DEF EntryWhole
  <2>1. os[i].parent # 0 BY <1>3 DEF Laid, FitsIn
  <2>2. b \in Patch(os, i) /\ e \in Patch(os, i) BY <1>3, EntryInPatch
  <2>3. EntryWhole(m, At(os, i), k) BY <1>1, <1>3 DEF Intact
  <2>4. m[b] = Byte("fd", m[e].of) BY <2>3 DEF EntryWhole
  <2> HIDE DEF e
  <2> QED BY <2>1, <2>2, <2>4
<1> QED BY <1>2, <1>3 DEF Intact

LEMMA AppendKept ==
    ASSUME NEW os \in Seq(ObjRecord), NEW s, Laid(os, s), NEW o \in ObjRecord,
           NEW m, Kept(os, m), Intact(Append(os, o), m, Len(os) + 1)
    PROVE  Kept(Append(os, o), m)
<1> DEFINE ps == Append(os, o)
           n == Len(os)
<1>1. /\ n \in Nat /\ Len(ps) = n + 1 /\ \A i \in 1 .. n : ps[i] = os[i]
  BY AppendFacts
<1> HIDE DEF ps
<1>2. ASSUME NEW i \in 1 .. n PROVE Intact(ps, m, i)
  <2>1. Intact(os, m, i) BY DEF Kept
  <2>2. ps[i] = os[i] BY <1>1
  <2>3. ASSUME os[i].parent # 0 PROVE At(ps, i) = At(os, i) /\ Patch(ps, i) = Patch(os, i)
    <3>1. os[i].parent \in 1 .. n BY <2>3 DEF Laid, ParentsFirst
    <3>2. ps[os[i].parent] = os[os[i].parent] BY <1>1, <3>1
    <3> QED BY <2>2, <3>2 DEF At, Patch
  <2>4. CASE os[i].parent # 0
    <3> HIDE DEF n
    <3> QED BY <2>1, <2>2, <2>3, <2>4 DEF Intact
  <2>5. CASE os[i].parent = 0
    <3>1. os[i].kind # "fda" BY <2>5 DEF Laid, FitsIn
    <3> QED BY <2>1, <2>2, <2>5, <3>1 DEF Intact
  <2> QED BY <2>4, <2>5
<1>3. Kept(ps, m) BY <1>1, <1>2 DEF Kept, ps
<1> QED BY <1>3 DEF ps

-----------------------------------------------------------------------------
(* One step after the other. *)

LEMMA MultipleDifference ==
    ASSUME NEW x \in Nat, NEW y \in Nat, Multiple(x), Multiple(y)
    PROVE  Multiple(x - y)
<1>1. PICK a, b \in Int : x = Word * a /\ y = Word * b BY DEF Multiple
<1>2. x - y = Word * (a - b) BY <1>1, Constants
<1> QED BY <1>2 DEF Multiple

LEMMA LaidGrows ==
    ASSUME NEW os \in Seq(ObjRecord), NEW s, Laid(os, s),
           NEW t \in Nat, s <= t, t <= Room, Multiple(t)
    PROVE  Laid(os, t)
<1>1. s \in Nat BY DEF Laid
<1>2. ASSUME NEW i \in 1 .. Len(os) PROVE FitsIn(os, t, os[i])
  <2>1. os[i] \in ObjRecord /\ FitsIn(os, s, os[i]) BY DEF Laid
  <2>2. os[i].base \in Nat /\ os[i].len \in Nat BY <2>1 DEF ObjRecord
  <2> QED BY <1>1, <2>1, <2>2 DEF FitsIn
<1> QED BY <1>2 DEF Laid

\* What the step writes, it writes elsewhere.
PatchesStay ==
    \A i \in 1 .. Len(objs) : objs[i].parent # 0 =>
      \A b \in Patch(objs, i) : mem'[b] = mem[b]

LEMMA TranslatePtrKeeps ==
    ASSUME BufferInv, NEW p \in 0 .. MaxObjs, NEW off \in Offsets, NEW len \in Lengths,
           TranslatePtr(p, off, len)
    PROVE  BufferInv' /\ PatchesStay
<1> DEFINE n == Len(objs)
           t == sg + Align(len)
           copied == Write(sg, len, Byte("data", 0))
           Bs == [what : {"free", "ctx", "data", "ptr", "fd"}, of : Nat]
<1>1. /\ objs \in Seq(ObjRecord) /\ n \in Nat /\ sg \in Nat /\ sg <= Room
      /\ Laid(objs, sg) /\ ParentsFirst(objs)
      /\ Ordered(objs, last, lastMin) /\ last \in 0 .. n /\ lastMin \in Nat
      /\ Kept(objs, mem) /\ CtxIntact(mem) /\ mem \in [Area -> Bs]
      /\ step = "object" /\ len <= Room - sg /\ sg' = t
  BY DEF BufferInv, BufferTypes, Laid, Kept, TranslatePtr, AtObject, Room
<1>2. /\ len \in SizeT /\ len \in Nat /\ off \in Nat /\ p \in Nat
      /\ Room \in Nat /\ Room <= Extra /\ Extra \in Nat /\ Word \in Nat \ {0}
      /\ Room - sg \in Nat /\ Room - sg < Limit
  BY <1>1, Constants
<1>3. /\ t \in Nat /\ sg + len <= t /\ sg <= t /\ t <= Room /\ Multiple(t)
  <2>1. Multiple(sg) /\ Multiple(Room) BY <1>1, Constants DEF Laid
  <2>2. Multiple(Room - sg) BY <1>1, <1>2, <2>1, MultipleDifference
  <2>3. /\ Align(len) \in Nat /\ len <= Align(len) /\ Align(len) <= Room - sg
        /\ Multiple(Align(len))
    BY <1>1, <1>2, <2>2, AlignFits
  <2>4. Multiple(t) BY <1>1, <2>1, <2>3, MultipleSum
  <2> QED BY <1>1, <1>2, <2>3, <2>4
<1> HIDE DEF t
<1>4. /\ copied \in [Area -> Bs]
      /\ \A b \in Area : copied[b] = IF b \in sg .. sg + len - 1 THEN Byte("data", 0) ELSE mem[b]
  <2>1. Byte("data", 0) \in Bs BY DEF Byte
  <2> HIDE DEF Bs
  <2> QED BY <1>1, <2>1 DEF Write
<1> HIDE DEF copied, n
<1>5. CtxIntact(copied)
  <2> SUFFICES ASSUME NEW b \in Area PROVE copied[b].what = "ctx" <=> b >= Room
    BY DEF CtxIntact
  <2>1. CASE b \in sg .. sg + len - 1
    <3>1. copied[b].what # "ctx" BY <1>4, <2>1 DEF Byte
    <3> QED BY <1>1, <1>2, <2>1, <3>1
  <2>2. CASE b \notin sg .. sg + len - 1 BY <1>1, <1>4, <2>2 DEF CtxIntact
  <2> QED BY <2>1, <2>2
<1>6. ASSUME NEW i \in 1 .. Len(objs), objs[i].parent # 0, NEW b \in Patch(objs, i)
      PROVE  copied[b] = mem[b]
  <2>1. b \in Area /\ b < sg BY <1>1, <1>6, PatchInArea
  <2> QED BY <1>1, <1>4, <2>1
<1>7. Kept(objs, copied) BY <1>1, <1>5, <1>6, KeptApart
<1>8. CASE ~(p = 0 \/ ParentFits(p, off))
  <2>1. mem' = copied /\ Fails /\ UNCHANGED <<objs, last, lastMin, cur, fdi, newFd, closing, rel>>
        /\ UNCHANGED tableVars
    BY <1>8 DEF TranslatePtr, copied
  <2>2. Laid(objs, t) BY <1>1, <1>3, LaidGrows
  <2>3. BufferTypes' BY <1>1, <1>4, <2>1 DEF BufferTypes, n
  <2>4. StepTypes' BY <2>1 DEF BufferInv, StepTypes, Fails, tableVars, Steps
  <2>5. Underway' BY <2>1 DEF Underway, Translating, Fails
  <2>6. Laid(objs, sg)' /\ Ordered(objs, last, lastMin)' /\ Kept(objs, mem)'
    BY <1>1, <1>7, <2>1, <2>2
  <2>7. PatchesStay BY <1>6, <2>1 DEF PatchesStay
  <2> QED BY <2>3, <2>4, <2>5, <2>6, <2>7 DEF BufferInv
<1>9. CASE p = 0 \/ ParentFits(p, off)
  <2> DEFINE o == Obj("ptr", p, IF p = 0 THEN 0 ELSE off, len, sg)
             ps == Append(objs, o)
             w == [b \in Area |-> IF b - objs[p].base - off \in 0 .. Word - 1
                                  THEN Byte("ptr", n + 1) ELSE copied[b]]
             M == IF p = 0 THEN copied ELSE w
  <2>1. /\ objs' = ps /\ mem' = M /\ last' = n + 1 /\ lastMin' = 0
        /\ UNCHANGED stepVars /\ UNCHANGED tableVars
    BY <1>9 DEF TranslatePtr, copied, n
  <2>2. /\ o \in ObjRecord /\ o.kind = "ptr" /\ o.parent = p /\ o.len = len /\ o.base = sg
        /\ p # 0 => o.off = off
        /\ Size(o) = Word
    BY <1>1, <1>2 DEF Obj, ObjRecord, Size
  <2>3. p # 0 => /\ p \in 1 .. n /\ objs[p].kind = "ptr" /\ off + Word <= objs[p].len
                 /\ Fresh(objs, last, p, off)
    <3> SUFFICES ASSUME p # 0, ParentFits(p, off)
                 PROVE  /\ p \in 1 .. n /\ objs[p].kind = "ptr" /\ off + Word <= objs[p].len
                        /\ Fresh(objs, last, p, off)
      BY <1>9
    <3>1. Fresh(objs, last, p, off)
      BY <1>1, <1>2, ValidIsFresh DEF ParentFits, n
    <3>2. p \in 1 .. n /\ objs[p].kind = "ptr" BY DEF ParentFits, ValidPtr, n
    <3>3. objs[p] \in ObjRecord BY <1>1, <3>2 DEF n
    <3>4. objs[p].len \in Nat BY <3>3 DEF ObjRecord
    <3> QED BY <1>2, <3>1, <3>2, <3>4 DEF ParentFits
  <2> HIDE DEF o, M
  <2>4. Laid(ps, t)
    <3>1. FitsIn(objs, t, o) BY <1>2, <1>3, <2>2, <2>3 DEF FitsIn
    <3>2. o.parent \in 0 .. n BY <1>1, <2>2, <2>3
    <3> QED BY <1>1, <1>3, <2>2, <3>1, <3>2, AppendLaid DEF n
  <2>5. Ordered(ps, n + 1, 0)
    <3>1. CASE p = 0 BY <1>1, <2>2, <3>1, AppendRootOrdered DEF n
    <3>2. CASE p # 0
      <4>1. Fresh(objs, last, o.parent, o.off) BY <2>2, <2>3, <3>2
      <4> QED BY <1>1, <2>2, <4>1, AppendPtrOrdered DEF n
    <3> QED BY <3>1, <3>2
  <2>6. /\ ps \in Seq(ObjRecord) /\ Len(ps) = n + 1
        /\ \A i \in 1 .. n : ps[i] = objs[i]
        /\ ps[n + 1] = o
    BY <1>1, <2>2, AppendFacts DEF n
  <2>7. /\ Kept(ps, M) /\ M \in [Area -> Bs]
        /\ \A i \in 1 .. Len(objs) : objs[i].parent # 0 =>
             \A b \in Patch(objs, i) : M[b] = copied[b]
    <3>1. CASE p = 0
      <4>1. M = copied BY <3>1 DEF M
      <4>2. Intact(ps, M, n + 1) BY <2>2, <2>6, <3>1 DEF Intact
      <4> QED BY <1>1, <1>4, <1>7, <2>2, <4>1, <4>2, AppendKept DEF n
    <3>2. CASE p # 0
      <4>1. M = w BY <3>2 DEF M
      <4> DEFINE bp == objs[p].base
                 lp == objs[p].len
      <4>2. /\ p \in 1 .. n /\ objs[p] \in ObjRecord /\ FitsIn(objs, sg, objs[p])
            /\ objs[p].kind = "ptr" /\ off + Word <= objs[p].len
        BY <1>1, <2>3, <3>2 DEF Laid, n
      <4>3. /\ bp \in Nat /\ lp \in Nat /\ bp + lp <= sg /\ off + Word <= lp
        BY <4>2 DEF ObjRecord, FitsIn
      <4>4. \A b \in Area : w[b] = IF b - bp - off \in 0 .. Word - 1
                                  THEN Byte("ptr", n + 1) ELSE copied[b]
        OBVIOUS
      <4>5. w \in [Area -> Bs]
        <5>1. Byte("ptr", n + 1) \in Bs BY <1>1 DEF Byte, n
        <5> HIDE DEF Bs
        <5> QED BY <1>4, <5>1
      <4>6. \A b \in Area : b \in bp + off .. bp + off + Word - 1 <=> b - bp - off \in 0 .. Word - 1
        <5> HIDE DEF bp, w, Bs, lp
        <5> QED BY <1>2, <4>3 DEF Area
      <4>7. bp + off .. bp + off + Word - 1 \subseteq Area
        <5> HIDE DEF bp, lp, w, Bs
        <5> QED BY <1>1, <1>2, <4>3 DEF Area
      <4>8. CtxIntact(w)
        <5> SUFFICES ASSUME NEW b \in Area PROVE w[b].what = "ctx" <=> b >= Room
          BY DEF CtxIntact
        <5> HIDE DEF w, bp, lp, Bs
        <5>1. CASE b \in bp + off .. bp + off + Word - 1
          <6>1. w[b].what # "ctx" BY <4>4, <4>6, <5>1 DEF Byte
          <6>2. b \in Int /\ b < bp + off + Word BY <1>2, <4>3, <5>1
          <6>3. bp + off + Word <= Room BY <1>1, <1>2, <4>3
          <6>4. ~(b >= Room) BY <1>1, <1>2, <4>3, <6>2, <6>3
          <6> QED BY <6>1, <6>4
        <5>2. CASE b \notin bp + off .. bp + off + Word - 1
          <6>1. w[b] = copied[b] BY <4>4, <4>6, <5>2
          <6> QED BY <1>5, <6>1 DEF CtxIntact
        <5> QED BY <5>1, <5>2
      <4>9. ASSUME NEW i \in 1 .. Len(objs), objs[i].parent # 0, NEW b \in Patch(objs, i)
            PROVE  w[b] = copied[b]
        <5>1. Behind(objs, p, off) BY <2>3, <3>2 DEF Fresh
        <5>2. b \notin bp + off .. bp + off + Word - 1
          BY <1>1, <1>2, <4>2, <4>3, <4>9, <5>1, PatchesApart DEF n
        <5>3. b \in Area BY <1>1, <4>9, PatchInArea
        <5> HIDE DEF w, bp
        <5> QED BY <4>4, <4>6, <5>2, <5>3
      <4>10. Kept(objs, w)
        <5> HIDE DEF w
        <5> QED BY <1>1, <1>7, <4>8, <4>9, KeptApart
      <4>11. Intact(ps, w, n + 1)
        <5>1. At(ps, n + 1) = bp + off BY <2>2, <2>3, <2>6, <3>2 DEF At
        <5>2. Patch(ps, n + 1) = bp + off .. bp + off + Word - 1
          BY <2>2, <2>6, <5>1 DEF Patch
        <5> HIDE DEF w, bp
        <5>3. \A b \in Patch(ps, n + 1) : w[b] = Byte("ptr", n + 1)
          BY <4>4, <4>6, <4>7, <5>2
        <5> QED BY <2>2, <2>6, <5>3 DEF Intact
      <4> HIDE DEF w, Bs
      <4> QED BY <1>1, <2>2, <4>1, <4>5, <4>9, <4>11, <4>10, AppendKept DEF n
    <3> QED BY <3>1, <3>2
  <2> HIDE DEF ps, w
  <2>8. BufferTypes'
    BY <1>1, <2>1, <2>6, <2>7 DEF BufferTypes, n
  <2>9. StepTypes' BY <2>1 DEF BufferInv, StepTypes, stepVars, tableVars
  <2>10. Underway' BY <1>1, <2>1 DEF Underway, Translating, stepVars
  <2>11. Laid(objs, sg)' /\ Ordered(objs, last, lastMin)' /\ Kept(objs, mem)'
    BY <1>1, <2>1, <2>4, <2>5, <2>7
  <2>12. PatchesStay BY <1>6, <2>1, <2>7 DEF PatchesStay
  <2> QED BY <2>8, <2>9, <2>10, <2>11, <2>12 DEF BufferInv
<1> QED BY <1>8, <1>9

LEMMA Untouched ==
    ASSUME BufferInv, UNCHANGED bufferVars, StepTypes', Underway'
    PROVE  BufferInv'
<1>1. BufferTypes' BY DEF BufferInv, BufferTypes, bufferVars
<1>2. Laid(objs, sg)' /\ Ordered(objs, last, lastMin)' /\ Kept(objs, mem)'
  BY DEF BufferInv, bufferVars
<1> QED BY <1>1, <1>2 DEF BufferInv

LEMMA TranslateFdKeeps == ASSUME BufferInv, TranslateFd PROVE BufferInv'
<1>1. UNCHANGED bufferVars BY DEF TranslateFd
<1>2. cur' \in ObjRecord /\ cur'.kind = "fd" /\ cur'.parent = 0 /\ cur'.len = 1
  BY DEF TranslateFd, Obj, ObjRecord
<1>3. StepTypes' BY <1>2 DEF TranslateFd, BufferInv, StepTypes, Steps, tableVars
<1>4. Underway' BY <1>2 DEF TranslateFd, Underway, Translating
<1> QED BY <1>1, <1>3, <1>4, Untouched

LEMMA TranslateFdArrayKeeps ==
    ASSUME BufferInv, NEW p \in 0 .. MaxObjs, NEW off \in Offsets, NEW num \in Nums,
           TranslateFdArray(p, off, num)
    PROVE  BufferInv'
<1>1. UNCHANGED bufferVars BY DEF TranslateFdArray
<1>2. off \in Nat /\ num \in Nat /\ p \in Nat BY Constants
<1>3. /\ cur' \in ObjRecord /\ cur'.kind = "fda" /\ cur'.parent = p /\ cur'.off = off
      /\ cur'.len = num /\ Size(cur') = FdSize * num
  BY <1>2 DEF TranslateFdArray, Obj, ObjRecord, Size
<1>4. StepTypes' BY <1>3 DEF TranslateFdArray, BufferInv, StepTypes, Steps, tableVars
<1>5. Fresh(objs, last, p, off)
  BY <1>2, ValidIsFresh DEF BufferInv, BufferTypes, Laid, TranslateFdArray
<1> DEFINE z == FdSize * num
           y == z % Limit
<1>6. /\ p \in 1 .. Len(objs) /\ objs[p].kind = "ptr"
      /\ num < (Limit - 1) \div FdSize
      /\ y <= objs[p].len /\ off <= objs[p].len - y
  <2>1. ValidPtr(p) /\ ArrayFits(p, off, num) BY DEF TranslateFdArray
  <2>2. num < (Limit - 1) \div FdSize /\ y <= objs[p].len /\ off <= objs[p].len - y
    BY <2>1, Zenon DEF ArrayFits
  <2> QED BY <2>1, <2>2, Zenon DEF ValidPtr
<1>7. off + FdSize * num <= objs[p].len
  <2>1. objs[p] \in ObjRecord BY <1>6 DEF BufferInv, BufferTypes
  <2>2. objs[p].len \in Nat BY <2>1 DEF ObjRecord
  <2>3. z \in Nat /\ y = z BY <1>2, <1>6, ArraySize
  <2> HIDE DEF z, y
  <2>4. off + z <= objs[p].len BY <1>2, <1>6, <2>2, <2>3
  <2> QED BY <2>4 DEF z
<1>8. FitsIn(objs, sg, cur') BY <1>3, <1>6, <1>7 DEF FitsIn
<1>9. fdi' = 0 /\ step' = "reserve" BY DEF TranslateFdArray
<1>10. ArrayUnderway'
  BY <1>1, <1>3, <1>5, <1>6, <1>8, <1>9 DEF ArrayUnderway, bufferVars
<1>11. Underway' BY <1>2, <1>3, <1>9, <1>10 DEF Underway, Translating
<1> QED BY <1>1, <1>4, <1>11, Untouched

LEMMA FreeFd ==
    ASSUME Free # {} PROVE Min(Free) \in Fds /\ Min(Free) \in Nat /\ table[Min(Free)] = "free"
<1>1. Free \in SUBSET Nat BY Constants DEF Free
<1>2. Min(Free) \in Free BY <1>1, MinExists
<1> QED BY <1>1, <1>2 DEF Free

LEMMA ReserveFdKeeps == ASSUME BufferInv, ReserveFd PROVE BufferInv'
<1>1. UNCHANGED bufferVars /\ UNCHANGED <<cur, fdi, files, closing, rel, failed>>
  BY DEF ReserveFd
<1>2. newFd' \in Nat /\ table' \in [Fds -> FdStates]
  BY FreeFd DEF ReserveFd, BufferInv, StepTypes, FdStates
<1>3. StepTypes' BY <1>1, <1>2 DEF ReserveFd, BufferInv, StepTypes, Steps
<1>4. Translating /\ fdi < cur.len BY DEF ReserveFd, Translating
<1>5. ArrayUnderway => ArrayUnderway' BY <1>1 DEF ArrayUnderway, bufferVars
<1>6. Underway' BY <1>1, <1>4, <1>5 DEF BufferInv, Underway
<1> QED BY <1>1, <1>3, <1>6, Untouched

\* Where the array under translation is written.
LEMMA CurPlace ==
    ASSUME BufferInv, Translating, cur.kind = "fda"
    PROVE  /\ cur \in ObjRecord /\ cur.off \in Nat /\ cur.len \in Nat
           /\ FdSize * cur.len \in Nat /\ Size(cur) = FdSize * cur.len
           /\ cur.parent \in 1 .. Len(objs) /\ objs[cur.parent].kind = "ptr"
           /\ objs[cur.parent].base \in Nat /\ objs[cur.parent].len \in Nat
           /\ cur.off + FdSize * cur.len <= objs[cur.parent].len
           /\ objs[cur.parent].base + objs[cur.parent].len <= sg
<1>1. cur \in ObjRecord BY DEF BufferInv, StepTypes, NoObj, Obj
<1>2. cur.off \in Nat /\ cur.len \in Nat BY <1>1 DEF ObjRecord
<1>3. FdSize * cur.len \in Nat /\ Size(cur) = FdSize * cur.len
  BY <1>2, Constants DEF Size
<1>4. ArrayUnderway BY DEF BufferInv, Underway
<1>5. cur.parent \in 1 .. Len(objs) /\ FitsIn(objs, sg, cur) BY <1>4 DEF ArrayUnderway
<1>6. /\ objs[cur.parent] \in ObjRecord
      /\ FitsIn(objs, sg, objs[cur.parent])
  BY <1>5 DEF BufferInv, BufferTypes, Laid
<1>7. objs[cur.parent].base \in Nat /\ objs[cur.parent].len \in Nat
  BY <1>6 DEF ObjRecord
<1>8. cur.parent # 0 BY <1>5
<1> QED BY <1>1, <1>2, <1>3, <1>5, <1>6, <1>7, <1>8 DEF FitsIn

\* Its entries lie in the extra area and one behind the other.
LEMMA CurEntries ==
    ASSUME BufferInv, Translating, cur.kind = "fda", NEW k \in 1 .. cur.len
    PROVE  LET a == objs[cur.parent].base + cur.off
               e == FdSize * (k - 1)
           IN  /\ a \in Nat /\ e \in Nat /\ a + e \in Area
               /\ a + e .. a + e + FdSize - 1 \subseteq a .. a + FdSize * cur.len - 1
               /\ a + e .. a + e + FdSize - 1 \subseteq Area
               /\ \A b \in a + e .. a + e + FdSize - 1 : b < sg
               /\ e + FdSize <= FdSize * cur.len
<1> DEFINE a == objs[cur.parent].base + cur.off
           e == FdSize * (k - 1)
           z == FdSize * cur.len
           bp == objs[cur.parent].base
           lp == objs[cur.parent].len
           off == cur.off
<1>1. /\ off \in Nat /\ z \in Nat /\ bp \in Nat /\ lp \in Nat /\ off + z <= lp
      /\ bp + lp <= sg /\ cur.len \in Nat
  BY CurPlace
<1>2. e \in Nat /\ e + FdSize <= z BY <1>1, EntryBounds
<1>3. /\ sg \in Nat /\ sg <= Room /\ Room \in Nat /\ Room <= Extra /\ Extra \in Nat
      /\ FdSize \in Nat \ {0}
  BY Constants DEF BufferInv, Laid
<1>4. a = bp + off OBVIOUS
<1> HIDE DEF a, e, z, bp, lp, off
<1> QED BY <1>1, <1>2, <1>3, <1>4 DEF Area, e, z, a, bp, off

LEMMA CurFits ==
    ASSUME BufferInv, Translating
    PROVE  /\ cur \in ObjRecord /\ cur.kind \in {"fd", "fda"}
           /\ cur.parent \in 0 .. Len(objs) /\ FitsIn(objs, sg, cur)
           /\ cur.kind = "fd" => cur.parent = 0 /\ cur.len = 1
           /\ cur.len \in Nat /\ fdi \in Nat /\ fdi <= cur.len
<1>1. cur.kind \in {"fd", "fda"} /\ fdi <= cur.len BY DEF BufferInv, Underway
<1>2. cur \in ObjRecord BY <1>1 DEF BufferInv, StepTypes, NoObj, Obj
<1>3. cur.len \in Nat /\ fdi \in Nat BY <1>2 DEF ObjRecord, BufferInv, StepTypes
<1>4. CASE cur.kind = "fd"
  <2>1. cur.parent = 0 /\ cur.len = 1 BY <1>4 DEF BufferInv, Underway
  <2> QED BY <1>1, <1>2, <1>3, <1>4, <2>1 DEF FitsIn, BufferInv, BufferTypes
<1>5. CASE cur.kind = "fda"
  <2>1. ArrayUnderway BY <1>5 DEF BufferInv, Underway
  <2> QED BY <1>1, <1>2, <1>3, <1>5, <2>1 DEF ArrayUnderway, BufferInv, BufferTypes
<1> QED BY <1>1, <1>4, <1>5

LEMMA InstallFdKeeps == ASSUME BufferInv, InstallFd PROVE BufferInv' /\ PatchesStay
<1> DEFINE Bs == [what : {"free", "ctx", "data", "ptr", "fd"}, of : Nat]
           k == fdi + 1
           a == objs[cur.parent].base + cur.off
           e == FdSize * (k - 1)
           z == FdSize * cur.len
<1>1. /\ Translating /\ fdi < cur.len /\ step = "install" /\ step' = "reserve"
      /\ fdi' = k /\ newFd \in Nat
      /\ UNCHANGED <<objs, sg, last, lastMin, files, newFd, closing, rel, failed>>
  BY DEF InstallFd, Translating, BufferInv, Underway, StepTypes
<1>2. /\ cur \in ObjRecord /\ cur.kind \in {"fd", "fda"}
      /\ cur.kind = "fd" => cur.parent = 0 /\ cur.len = 1
      /\ cur.len \in Nat /\ fdi \in Nat
  BY <1>1, CurFits
<1>3. k \in 1 .. cur.len /\ k \in Nat BY <1>1, <1>2
<1>4. table' \in [Fds -> FdStates]
  BY DEF InstallFd, BufferInv, StepTypes, FdStates
<1>5. CASE cur.kind = "fd"
  <2>1. UNCHANGED mem /\ cur' = [cur EXCEPT !.fd = newFd] BY <1>5 DEF InstallFd
  <2>2. /\ cur' \in ObjRecord /\ cur'.kind = "fd" /\ cur'.parent = 0 /\ cur'.len = 1
    BY <1>1, <1>2, <1>5, <2>1 DEF ObjRecord
  <2> HIDE DEF k
  <2>3. StepTypes' BY <1>1, <1>3, <1>4, <2>2 DEF BufferInv, StepTypes, Steps
  <2>4. Underway' BY <1>1, <1>2, <1>3, <1>5, <2>2 DEF Underway, Translating
  <2>5. UNCHANGED bufferVars BY <1>1, <2>1 DEF bufferVars
  <2>6. PatchesStay BY <2>1 DEF PatchesStay
  <2> QED BY <2>3, <2>4, <2>5, <2>6, Untouched
<1>6. CASE cur.kind = "fda"
  <2>1. UNCHANGED cur /\ mem' = Write(a + e, FdSize, Byte("fd", newFd))
    BY <1>6 DEF InstallFd, EntryAt
  <2>2. /\ a \in Nat /\ e \in Nat /\ a + e \in Area
        /\ a + e .. a + e + FdSize - 1 \subseteq a .. a + z - 1
        /\ a + e .. a + e + FdSize - 1 \subseteq Area
        /\ \A b \in a + e .. a + e + FdSize - 1 : b < sg
    BY <1>1, <1>3, <1>6, CurEntries
  <2> DEFINE R == a + e .. a + e + FdSize - 1
  <2>3. /\ mem \in [Area -> Bs] /\ objs \in Seq(ObjRecord) /\ Laid(objs, sg)
        /\ Kept(objs, mem) /\ CtxIntact(mem) /\ sg <= Room /\ sg \in Nat
        /\ ArrayUnderway
    BY <1>1, <1>6 DEF BufferInv, BufferTypes, Laid, Kept, Underway
  <2>4. /\ mem' \in [Area -> Bs]
        /\ \A b \in Area : mem'[b] = IF b \in R THEN Byte("fd", newFd) ELSE mem[b]
    <3>1. Byte("fd", newFd) \in Bs BY <1>1 DEF Byte
    <3> HIDE DEF Bs, a, e
    <3> QED BY <2>1, <2>3, <3>1 DEF Write
  <2>5. CtxIntact(mem')
    <3> SUFFICES ASSUME NEW b \in Area PROVE mem'[b].what = "ctx" <=> b >= Room
      BY DEF CtxIntact
    <3>1. CASE b \in R
      <4>1. mem'[b].what # "ctx" BY <2>4, <3>1 DEF Byte
      <4>2. b < sg BY <2>2, <3>1
      <4> HIDE DEF R
      <4> QED BY <2>3, <4>1, <4>2, Constants DEF Area
    <3>2. CASE b \notin R
      <4>1. mem'[b] = mem[b] BY <2>4, <3>2
      <4> QED BY <2>3, <4>1 DEF CtxIntact
    <3> QED BY <3>1, <3>2
  <2>6. ASSUME NEW i \in 1 .. Len(objs), objs[i].parent # 0, NEW b \in Patch(objs, i)
        PROVE  mem'[b] = mem[b]
    <3>1. Behind(objs, cur.parent, cur.off) BY <2>3 DEF ArrayUnderway, Fresh
    <3>2. /\ cur.off \in Nat /\ z \in Nat /\ cur.parent \in 1 .. Len(objs)
          /\ objs[cur.parent].kind = "ptr" /\ cur.off + z <= objs[cur.parent].len
      BY <1>1, <1>6, CurPlace
    <3> HIDE DEF z
    <3>3. b \notin a .. a + z - 1 BY <2>3, <2>6, <3>1, <3>2, PatchesApart
    <3>4. b \in Area BY <2>3, <2>6, PatchInArea
    <3>5. b \notin R BY <2>2, <3>3
    <3> HIDE DEF R
    <3> QED BY <2>4, <3>4, <3>5
  <2>7. Kept(objs, mem') BY <2>3, <2>5, <2>6, KeptApart
  <2>8. ASSUME NEW j \in 1 .. k PROVE EntryWhole(mem', a, j)
    <3> DEFINE d == FdSize * (j - 1)
    <3> SUFFICES ASSUME NEW b \in a + d .. a + d + FdSize - 1
                 PROVE  mem'[b] = Byte("fd", mem'[a + d].of)
      BY DEF EntryWhole
    <3>1. CASE j = k
      <4>1. b \in R /\ b \in Area /\ a + d \in Area /\ a + d \in R
        <5>1. d = e BY <3>1
        <5>2. b \in R BY <5>1
        <5> HIDE DEF a, e
        <5>3. a + e \in R BY <2>2, Constants
        <5> HIDE DEF R, d
        <5> QED BY <2>2, <5>1, <5>2, <5>3 DEF R
      <4> HIDE DEF R, d, a
      <4>2. mem'[b] = Byte("fd", newFd) /\ mem'[a + d] = Byte("fd", newFd)
        BY <2>4, <4>1
      <4> QED BY <4>2 DEF Byte
    <3>2. CASE j \in 1 .. fdi
      <4>1. EntryWhole(mem, a, j) BY <2>3, <3>2 DEF ArrayUnderway
      <4>2. mem[b] = Byte("fd", mem[a + d].of) BY <4>1 DEF EntryWhole
      <4>3. d \in Nat /\ d + FdSize <= FdSize * fdi BY <1>2, <3>2, EntryBounds
      <4>4. e = FdSize * fdi BY <1>2
      <4>5. j \in 1 .. cur.len BY <1>1, <1>2, <3>2
      <4>6. a + d \in Area /\ b \in Area
        BY <1>1, <1>6, <4>5, CurEntries
      <4>7. b \notin R /\ a + d \notin R
        <5> HIDE DEF a, d, e
        <5> QED BY <2>2, <4>3, <4>4, Constants
      <4> HIDE DEF R, d, a
      <4> QED BY <2>4, <4>2, <4>6, <4>7
    <3> QED BY <1>2, <3>1, <3>2
  <2>9. FitsIn(objs, sg, cur) BY <1>1, CurFits
  <2> HIDE DEF k, Bs
  <2>10. ArrayUnderway' BY <1>1, <2>1, <2>3, <2>8, <2>9 DEF ArrayUnderway
  <2>11. StepTypes' BY <1>1, <1>3, <1>4, <2>1 DEF BufferInv, StepTypes, Steps
  <2>12. Underway' BY <1>1, <1>2, <1>3, <1>6, <2>1, <2>10 DEF Underway, Translating
  <2>13. BufferTypes' BY <1>1, <2>3, <2>4 DEF BufferInv, BufferTypes, Bs
  <2>14. Laid(objs, sg)' /\ Ordered(objs, last, lastMin)' /\ Kept(objs, mem)'
    BY <1>1, <2>7 DEF BufferInv
  <2>15. PatchesStay BY <2>6 DEF PatchesStay
  <2> QED BY <2>11, <2>12, <2>13, <2>14, <2>15 DEF BufferInv
<1> QED BY <1>2, <1>5, <1>6

LEMMA FdsDoneKeeps == ASSUME BufferInv, FdsDone PROVE BufferInv'
<1> DEFINE n == Len(objs)
           ps == Append(objs, cur)
<1>1. /\ Translating /\ fdi = cur.len /\ step' = "object" /\ objs' = ps
      /\ cur' = NoObj /\ fdi' = 0 /\ newFd' = 0
      /\ UNCHANGED <<sg, mem, table, files, closing, rel, failed>>
  BY DEF FdsDone, Translating, tableVars
<1>2. /\ cur \in ObjRecord /\ cur.kind \in {"fd", "fda"}
      /\ cur.parent \in 0 .. n /\ FitsIn(objs, sg, cur)
      /\ cur.kind = "fd" => cur.parent = 0 /\ cur.len = 1
      /\ cur.len \in Nat
  BY <1>1, CurFits
<1>3. /\ objs \in Seq(ObjRecord) /\ Laid(objs, sg) /\ ParentsFirst(objs)
      /\ last \in 0 .. n /\ Ordered(objs, last, lastMin) /\ Kept(objs, mem)
      /\ sg \in Nat /\ sg <= Room /\ Multiple(sg) /\ lastMin \in Nat
  BY DEF BufferInv, BufferTypes, Laid
<1>4. /\ ps \in Seq(ObjRecord) /\ n \in Nat /\ Len(ps) = n + 1
      /\ \A i \in 1 .. n : ps[i] = objs[i]
      /\ ps[n + 1] = cur
  BY <1>2, <1>3, AppendFacts
<1>5. Laid(ps, sg) BY <1>2, <1>3, AppendLaid
<1>6. StepTypes' BY <1>1 DEF BufferInv, StepTypes, Steps
<1>7. Underway' BY <1>1 DEF Underway, Translating
<1>8. CASE cur.kind = "fd"
  <2>1. UNCHANGED <<last, lastMin>> BY <1>8 DEF FdsDone
  <2>2. Ordered(ps, last, lastMin) BY <1>2, <1>3, <1>8, AppendFdOrdered
  <2>3. Intact(ps, mem, n + 1) BY <1>4, <1>8 DEF Intact
  <2>4. Kept(ps, mem) BY <1>2, <1>3, <2>3, AppendKept
  <2> HIDE DEF ps
  <2>5. BufferTypes' BY <1>1, <1>3, <1>4, <2>1 DEF BufferInv, BufferTypes
  <2>6. Laid(objs, sg)' /\ Ordered(objs, last, lastMin)' /\ Kept(objs, mem)'
    BY <1>1, <1>5, <2>1, <2>2, <2>4
  <2> QED BY <1>6, <1>7, <2>5, <2>6 DEF BufferInv
<1>9. CASE cur.kind = "fda"
  <2>1. last' = cur.parent /\ lastMin' = cur.off + FdSize * cur.len
    BY <1>9 DEF FdsDone
  <2>2. ArrayUnderway BY <1>1, <1>9 DEF BufferInv, Underway
  <2>3. Ordered(ps, cur.parent, cur.off + FdSize * cur.len)
    BY <1>2, <1>3, <1>9, <2>2, AppendArrayOrdered DEF ArrayUnderway
  <2>4. At(ps, n + 1) = objs[cur.parent].base + cur.off
    BY <1>4, <2>2 DEF At, ArrayUnderway
  <2>5. Intact(ps, mem, n + 1)
    <3> HIDE DEF ps
    <3> QED BY <1>1, <1>4, <1>9, <2>2, <2>4 DEF Intact, ArrayUnderway
  <2>6. Kept(ps, mem) BY <1>2, <1>3, <2>5, AppendKept
  <2>7. lastMin' \in Nat
    <3>1. cur.off \in Nat /\ FdSize * cur.len \in Nat BY <1>1, <1>9, CurPlace
    <3> QED BY <2>1, <3>1
  <2>8. last' \in 0 .. n + 1 BY <1>2, <1>4, <2>1
  <2> HIDE DEF ps, n
  <2>9. BufferTypes' BY <1>1, <1>3, <1>4, <2>7, <2>8 DEF BufferInv, BufferTypes
  <2>10. Laid(objs, sg)' /\ Ordered(objs, last, lastMin)' /\ Kept(objs, mem)'
    BY <1>1, <1>5, <2>1, <2>3, <2>6
  <2> QED BY <1>6, <1>7, <2>9, <2>10 DEF BufferInv
<1> QED BY <1>2, <1>8, <1>9

\* Addresses of an array that was translated.
LEMMA ArrayEntries ==
    ASSUME BufferInv, NEW i \in 1 .. Len(objs), objs[i].kind = "fda",
           NEW k \in 1 .. objs[i].len
    PROVE  /\ EntryAt(objs[i], k) = At(objs, i) + FdSize * (k - 1)
           /\ EntryAt(objs[i], k) \in Patch(objs, i) /\ EntryAt(objs[i], k) \in Area
           /\ mem[EntryAt(objs[i], k)].of \in Nat
<1>1. objs \in Seq(ObjRecord) /\ Laid(objs, sg) BY DEF BufferInv, BufferTypes
<1>2. objs[i].parent # 0 BY <1>1 DEF Laid, FitsIn
<1> DEFINE e == At(objs, i) + FdSize * (k - 1)
<1>3. EntryAt(objs[i], k) = e BY DEF EntryAt, At
<1>4. e \in Patch(objs, i)
  <2>1. objs[i] \in ObjRecord BY <1>1
  <2>2. objs[i].len \in Nat BY <2>1 DEF ObjRecord
  <2>3. FdSize * (k - 1) \in Nat BY <2>2, EntryBounds
  <2>4. At(objs, i) \in Nat BY <1>1, <1>2, PatchInParent
  <2>5. e \in e .. e + FdSize - 1 BY <2>3, <2>4, Constants
  <2> QED BY <1>1, <2>5, EntryInPatch
<1>5. e \in Area BY <1>1, <1>2, <1>4, PatchInArea
<1> HIDE DEF e
<1>6. mem[e].of \in Nat BY <1>5 DEF BufferInv, BufferTypes
<1> QED BY <1>3, <1>4, <1>5, <1>6 DEF e

LEMMA FdFailsKeeps == ASSUME BufferInv, FdFails PROVE BufferInv'
<1>1. /\ Translating /\ UNCHANGED bufferVars /\ UNCHANGED <<table, files, rel>>
      /\ step' = "release" /\ failed' = TRUE /\ cur' = NoObj /\ fdi' = 0 /\ newFd' = 0
      /\ closing' = Installed
  BY DEF FdFails, Translating, tableVars, Fails
<1>2. fdi \in Nat /\ cur.len \in Nat /\ fdi <= cur.len BY <1>1, CurFits
<1>3. closing' \in Seq(Nat)
  <2>1. CASE cur.kind = "fda"
    <3>1. ASSUME NEW k \in 1 .. fdi PROVE mem[EntryAt(cur, k)].of \in Nat
      <4> DEFINE e == objs[cur.parent].base + cur.off + FdSize * (k - 1)
      <4>1. k \in 1 .. cur.len BY <1>2
      <4>2. e \in Area BY <1>1, <2>1, <4>1, CurEntries
      <4>3. EntryAt(cur, k) = e BY DEF EntryAt
      <4> HIDE DEF e
      <4> QED BY <4>2, <4>3 DEF BufferInv, BufferTypes
    <3>2. Installed = Entries(cur, fdi) BY <2>1 DEF Installed
    <3>3. Entries(cur, fdi) \in [1 .. fdi -> Nat] BY <3>1 DEF Entries
    <3> QED BY <1>1, <1>2, <3>2, <3>3
  <2>2. CASE cur.kind # "fda" BY <1>1, <2>2 DEF Installed
  <2> QED BY <2>1, <2>2
<1>4. StepTypes' BY <1>1, <1>3 DEF BufferInv, StepTypes, Steps
<1>5. Underway' BY <1>1 DEF Underway, Translating
<1> QED BY <1>1, <1>4, <1>5, Untouched

LEMMA ReleaseObjectKeeps == ASSUME BufferInv, ReleaseObject PROVE BufferInv'
<1>1. /\ UNCHANGED bufferVars /\ UNCHANGED <<table, files, step, cur, fdi, newFd, failed>>
      /\ step = "release" /\ rel <= Len(objs) /\ rel' = rel + 1
      /\ closing' = ToClose(objs[rel])
  BY DEF ReleaseObject, tableVars
<1>2. rel \in 1 .. Len(objs) /\ objs \in Seq(ObjRecord)
  BY <1>1 DEF BufferInv, BufferTypes, StepTypes
<1>3. objs[rel] \in ObjRecord BY <1>2
<1>4. objs[rel].fd \in Nat /\ objs[rel].len \in Nat BY <1>3 DEF ObjRecord
<1>5. closing' \in Seq(Nat)
  <2> DEFINE fds == Entries(objs[rel], objs[rel].len)
  <2>1. objs[rel].kind = "fda" => fds \in Seq(Nat)
    <3> SUFFICES ASSUME objs[rel].kind = "fda" PROVE fds \in Seq(Nat) OBVIOUS
    <3>1. \A k \in 1 .. objs[rel].len : mem[EntryAt(objs[rel], k)].of \in Nat
      BY <1>2, ArrayEntries
    <3>2. fds \in [1 .. objs[rel].len -> Nat] BY <3>1 DEF Entries
    <3> HIDE DEF fds
    <3> QED BY <1>4, <3>2
  <2> HIDE DEF fds
  <2>2. \/ closing' = <<objs[rel].fd>> \/ closing' = <<>>
        \/ objs[rel].kind = "fda" /\ closing' = fds
    BY <1>1 DEF ToClose, fds
  <2>3. \A x \in Nat : <<x>> \in Seq(Nat) OBVIOUS
  <2>4. <<objs[rel].fd>> \in Seq(Nat) BY <1>4, <2>3
  <2>5. CASE closing' = <<objs[rel].fd>> BY <2>4, <2>5
  <2>6. CASE closing' = <<>> BY <2>6
  <2>7. CASE objs[rel].kind = "fda" /\ closing' = fds BY <2>1, <2>7
  <2> QED BY <2>2, <2>5, <2>6, <2>7
<1>6. StepTypes' BY <1>1, <1>2, <1>5 DEF BufferInv, StepTypes
<1>7. Underway' BY <1>1 DEF Underway, Translating
<1> QED BY <1>1, <1>6, <1>7, Untouched

LEMMA UnderwayStays ==
    ASSUME BufferInv, UNCHANGED bufferVars, UNCHANGED <<step, cur, fdi>>
    PROVE  Underway'
<1>1. ArrayUnderway => ArrayUnderway' BY DEF ArrayUnderway, bufferVars
<1> QED BY <1>1 DEF BufferInv, Underway, Translating

LEMMA CloseFdKeeps == ASSUME BufferInv, CloseFd PROVE BufferInv'
<1>1. /\ UNCHANGED bufferVars /\ UNCHANGED <<files, step, cur, fdi, newFd, rel, failed>>
      /\ closing # <<>> /\ closing' = Tail(closing)
  BY DEF CloseFd
<1>2. closing' \in Seq(Nat) BY <1>1 DEF BufferInv, StepTypes
<1>3. table' \in [Fds -> FdStates] BY DEF CloseFd, BufferInv, StepTypes, FdStates
<1>4. StepTypes' BY <1>1, <1>2, <1>3 DEF BufferInv, StepTypes
<1>5. Underway' BY <1>1, UnderwayStays
<1> QED BY <1>1, <1>4, <1>5, Untouched

LEMMA TargetKeeps ==
    ASSUME BufferInv, Opens \/ PutFiles \/ \E f \in Fds : Closes(f)
    PROVE  BufferInv'
<1>1. UNCHANGED bufferVars /\ UNCHANGED stepVars
  BY DEF Opens, PutFiles, Closes
<1>2. table' \in [Fds -> FdStates] /\ files' \in BOOLEAN
  BY DEF Opens, PutFiles, Closes, BufferInv, StepTypes, FdStates
<1>3. StepTypes' BY <1>1, <1>2 DEF BufferInv, StepTypes, stepVars
<1>4. Underway' BY <1>1, UnderwayStays DEF stepVars
<1> QED BY <1>1, <1>3, <1>4, Untouched

LEMMA WayKeeps ==
    ASSUME BufferInv, TransactionFails \/ Send \/ Give \/ FreeBuffer \/ Released
    PROVE  BufferInv'
<1>1. /\ UNCHANGED bufferVars /\ UNCHANGED <<files, cur, fdi, newFd, closing, rel>>
      /\ step' \in Steps \ {"reserve", "install"} /\ failed' \in BOOLEAN
  BY DEF TransactionFails, Send, Give, FreeBuffer, Released, Fails, tableVars, Steps,
         BufferInv, StepTypes
<1>2. table' \in [Fds -> FdStates]
  <2>1. CASE Give BY <2>1 DEF Give, BufferInv, StepTypes, FdStates
  <2>2. CASE TransactionFails \/ Send \/ FreeBuffer \/ Released
    BY <2>2 DEF TransactionFails, Send, FreeBuffer, Released, tableVars, BufferInv, StepTypes
  <2> QED BY <2>1, <2>2
<1>3. StepTypes' BY <1>1, <1>2 DEF BufferInv, StepTypes
<1>4. Underway' BY <1>1 DEF Underway, Translating
<1> QED BY <1>1, <1>3, <1>4, Untouched

LEMMA ObjNextKeeps == ASSUME BufferInv, ObjNext PROVE BufferInv'
<1>1. \/ TranslateFd
      \/ \E off \in Offsets, p \in 0 .. MaxObjs :
           \/ \E len \in Lengths : TranslatePtr(p, off, len)
           \/ \E num \in Nums : TranslateFdArray(p, off, num)
      \/ ReserveFd \/ InstallFd \/ FdsDone \/ FdFails
      \/ ReleaseObject \/ CloseFd
      \/ TransactionFails \/ Send \/ Give \/ FreeBuffer \/ Released
      \/ Opens \/ PutFiles \/ \E f \in Fds : Closes(f)
  BY DEF ObjNext
<1> QED
  BY <1>1, TranslateFdKeeps, TranslatePtrKeeps, TranslateFdArrayKeeps, ReserveFdKeeps,
     InstallFdKeeps, FdsDoneKeeps, FdFailsKeeps, ReleaseObjectKeeps, CloseFdKeeps,
     WayKeeps, TargetKeeps

LEMMA ObjInitInv == ObjInit => BufferInv
<1> SUFFICES ASSUME ObjInit PROVE BufferInv OBVIOUS
<1>1. /\ objs = <<>> /\ sg = 0 /\ last = 0 /\ lastMin = 0 /\ step = "object"
      /\ cur = NoObj /\ fdi = 0 /\ newFd = 0 /\ closing = <<>> /\ rel = 1
  BY DEF ObjInit
<1>2. StepTypes
  <2>1. table \in [Fds -> FdStates] /\ files \in BOOLEAN /\ failed \in BOOLEAN
    BY DEF ObjInit, FdStates
  <2>2. step \in Steps BY <1>1 DEF Steps
  <2> QED BY <1>1, <2>1, <2>2 DEF StepTypes
<1>3. BufferTypes BY <1>1 DEF ObjInit, BufferTypes, Byte
<1>4. Laid(objs, sg)
  <2>1. Multiple(0) BY Constants DEF Multiple
  <2> QED BY <1>1, <2>1, Constants DEF Laid, ParentsFirst
<1>5. Ordered(objs, last, lastMin) BY <1>1 DEF Ordered
<1>6. Kept(objs, mem)
  <2>1. CtxIntact(mem) BY Constants DEF ObjInit, CtxIntact, Byte, Room, Area
  <2> QED BY <1>1, <2>1 DEF Kept
<1>7. Underway BY <1>1 DEF Underway, Translating
<1> QED BY <1>2, <1>3, <1>4, <1>5, <1>6, <1>7 DEF BufferInv

\* Of the two sides of the module, the buffers' is of no concern here.
THEOREM ObjectsInvariance == BuffersSpec => []BufferInv
<1>1. BuffersInit => BufferInv BY ObjInitInv DEF BuffersInit
<1>2. BufferInv /\ [BuffersNext]_buffersVars => BufferInv'
  <2> SUFFICES ASSUME BufferInv, [BuffersNext]_buffersVars PROVE BufferInv' OBVIOUS
  <2>1. CASE ObjNext BY <2>1, ObjNextKeeps
  <2>2. CASE UNCHANGED objVars
    <3>1. UNCHANGED bufferVars /\ UNCHANGED tableVars /\ UNCHANGED stepVars
      BY <2>2 DEF objVars
    <3>2. StepTypes' BY <3>1 DEF BufferInv, StepTypes, tableVars, stepVars
    <3>3. Underway' BY <3>1, UnderwayStays DEF stepVars
    <3> QED BY <3>1, <3>2, <3>3, Untouched
  <2> QED BY <2>1, <2>2 DEF BuffersNext, buffersVars
<1> QED BY <1>1, <1>2, PTL DEF BuffersSpec

-----------------------------------------------------------------------------

LEMMA BufferInvFixups == BufferInv => FixupsStay
<1> SUFFICES ASSUME BufferInv PROVE FixupsStay OBVIOUS
<1>1. /\ objs \in Seq(ObjRecord) /\ Laid(objs, sg) /\ Kept(objs, mem)
      /\ sg \in Nat /\ sg <= Room
  BY DEF BufferInv, BufferTypes, Laid
<1>2. ASSUME NEW i \in Ptrs
      PROVE  /\ i \in 1 .. Len(objs) /\ objs[i].kind = "ptr"
             /\ objs[i].base \in Nat /\ objs[i].len \in Nat
             /\ objs[i].base + objs[i].len <= sg
  <2>1. i \in 1 .. Len(objs) /\ objs[i].kind = "ptr" BY DEF Ptrs, ObjIdx
  <2>2. objs[i] \in ObjRecord BY <1>1, <2>1
  <2> QED BY <1>1, <2>1, <2>2 DEF Laid, FitsIn, ObjRecord
<1>3. ASSUME NEW i \in Ptrs, NEW b \in Copy(i) PROVE b < Extra - CtxSize
  BY <1>1, <1>2, Constants DEF Copy, Room
<1>4. ASSUME NEW i \in Ptrs, NEW j \in Ptrs, i # j PROVE Copy(i) \cap Copy(j) = {}
  <2>1. i \in 1 .. j - 1 \/ j \in 1 .. i - 1 BY <1>1, <1>2, <1>4
  <2>2. \/ objs[i].base + objs[i].len <= objs[j].base
        \/ objs[j].base + objs[j].len <= objs[i].base
    BY <1>1, <1>2, <2>1 DEF Laid
  <2> DEFINE bi == objs[i].base
             li == objs[i].len
             bj == objs[j].base
             lj == objs[j].len
  <2>3. bi \in Nat /\ li \in Nat /\ bj \in Nat /\ lj \in Nat BY <1>2
  <2>4. bi + li <= bj \/ bj + lj <= bi BY <2>2
  <2>5. Copy(i) = bi .. bi + li - 1 /\ Copy(j) = bj .. bj + lj - 1 BY DEF Copy
  <2> HIDE DEF bi, li, bj, lj
  <2>6. ASSUME NEW b \in bi .. bi + li - 1 PROVE b \notin bj .. bj + lj - 1
    BY <2>3, <2>4
  <2> QED BY <2>5, <2>6
<1>5. ASSUME NEW i \in 1 .. Len(objs), objs[i].parent # 0, NEW b \in Patch(objs, i)
      PROVE  b \in Copy(objs[i].parent)
  <2> DEFINE q == objs[i].parent
             a == At(objs, i)
             z == Size(objs[i])
             bq == objs[q].base
             lq == objs[q].len
  <2>1. a \in Nat /\ bq \in Nat /\ lq \in Nat /\ bq <= a /\ a + z <= bq + lq
    BY <1>1, <1>5, PatchInParent
  <2>2. z \in Nat BY <1>1, SizeNat
  <2>3. b \in a .. a + z - 1 BY <1>5 DEF Patch
  <2>4. Copy(q) = bq .. bq + lq - 1 BY DEF Copy
  <2> HIDE DEF a, z, bq, lq
  <2>5. b \in bq .. bq + lq - 1 BY <2>1, <2>2, <2>3
  <2> QED BY <2>4, <2>5
<1>6. ASSUME NEW i \in Ptrs, objs[i].parent # 0, NEW b \in PointerOf(i)
      PROVE  b \in Copy(objs[i].parent) /\ mem[b] = Byte("ptr", i)
  <2>1. b \in Patch(objs, i) BY <1>2, <1>6 DEF PointerOf, Patch, At, Size
  <2>2. Intact(objs, mem, i) BY <1>1, <1>2 DEF Kept
  <2> QED BY <1>2, <1>5, <1>6, <2>1, <2>2 DEF Intact
<1>7. ASSUME NEW i \in Arrays, NEW k \in 1 .. objs[i].len, NEW b \in EntryOf(i, k)
      PROVE  /\ b \in Copy(objs[i].parent)
             /\ mem[b].what = "fd" /\ mem[b].of = Entries(objs[i], k)[k]
  <2>1. i \in 1 .. Len(objs) /\ objs[i].kind = "fda" BY DEF Arrays, ObjIdx
  <2> DEFINE e == At(objs, i) + FdSize * (k - 1)
  <2>2. EntryAt(objs[i], k) = e BY <2>1, ArrayEntries
  <2>3. b \in e .. e + FdSize - 1 BY <1>7, <2>2 DEF EntryOf
  <2>4. b \in Patch(objs, i) BY <1>1, <2>1, <2>3, EntryInPatch
  <2>5. objs[i].parent # 0 BY <1>1, <2>1 DEF Laid, FitsIn
  <2>6. Intact(objs, mem, i) BY <1>1, <2>1 DEF Kept
  <2>7. EntryWhole(mem, At(objs, i), k) BY <2>1, <2>6 DEF Intact
  <2>8. mem[b] = Byte("fd", mem[e].of) BY <2>3, <2>7 DEF EntryWhole
  <2>9. Entries(objs[i], k)[k] = mem[e].of
    <3>1. objs[i] \in ObjRecord BY <1>1, <2>1
    <3>2. k \in 1 .. k BY <3>1 DEF ObjRecord
    <3> HIDE DEF e
    <3> QED BY <2>2, <3>2 DEF Entries
  <2> QED BY <1>5, <2>1, <2>4, <2>5, <2>8, <2>9 DEF Byte
<1>8. \A b \in Area : mem[b].what = "ctx" <=> b >= Extra - CtxSize
  BY <1>1 DEF Kept, CtxIntact, Room
<1> QED BY <1>3, <1>4, <1>6, <1>7, <1>8 DEF FixupsStay

\* However a sender lays out its buffers and fix-ups, none is written over.
THEOREM FixupsStayHolds == BuffersSpec => []FixupsStay
BY ObjectsInvariance, BufferInvFixups, PTL

-----------------------------------------------------------------------------
(* The descriptors that are held. *)

\* The places a descriptor is held at: place k of closing (i = 0), of object i
\* as long as it is not released, or of the object under translation.
Holds(i, k) ==
    \/ i = 0 /\ k \in 1 .. Len(closing)
    \/ i \in rel .. Len(objs) /\ objs[i].kind = "fda" /\ k \in 1 .. objs[i].len
    \/ i \in rel .. Len(objs) /\ objs[i].kind = "fd" /\ ~Given /\ k = 1
    \/ i = Len(objs) + 1 /\ Translating /\ k \in 1 .. fdi

FdIn(o, k) == IF o.kind = "fd" THEN o.fd ELSE mem[EntryAt(o, k)].of

\* And the descriptor held there.
FdAt(i, k) ==
    IF i = 0 THEN closing[k]
    ELSE IF i = Len(objs) + 1 THEN FdIn(cur, k) ELSE FdIn(objs[i], k)

\* The descriptors in the target's table are held, each at one place.
Accounted ==
    /\ \A i, k \in Nat : Holds(i, k) => FdAt(i, k) \in Fds /\ table[FdAt(i, k)] = "sent"
    /\ \A i, k, j, l \in Nat :
         Holds(i, k) /\ Holds(j, l) /\ FdAt(i, k) = FdAt(j, l) => i = j /\ k = l
    /\ \A f \in Fds : table[f] = "sent" => \E i, k \in Nat : Holds(i, k) /\ FdAt(i, k) = f

Reserving ==
    /\ \A f \in Fds : table[f] = "reserved" => step = "install" /\ f = newFd
    /\ step = "install" => newFd \in Fds /\ table[newFd] = "reserved"

\* Nothing is released or closed before the release.
WayInv ==
    /\ closing # <<>> => step = "release"
    /\ step \notin {"release", "done"} => rel = 1 /\ failed = FALSE

FdInv == BufferInv /\ WayInv /\ (files => Accounted /\ Reserving)

\* A step after which the same places hold the same.
LEMMA PlacesSame ==
    ASSUME Accounted,
           \A i, k \in Nat : Holds(i, k)' <=> Holds(i, k),
           \A i, k \in Nat : Holds(i, k) => FdAt(i, k)' = FdAt(i, k),
           \A f \in Fds : table'[f] = "sent" <=> table[f] = "sent"
    PROVE  Accounted'
<1>1. /\ \A i, k \in Nat : Holds(i, k) => FdAt(i, k) \in Fds /\ table[FdAt(i, k)] = "sent"
      /\ \A i, k, j, l \in Nat :
           Holds(i, k) /\ Holds(j, l) /\ FdAt(i, k) = FdAt(j, l) => i = j /\ k = l
      /\ \A f \in Fds : table[f] = "sent" => \E i, k \in Nat : Holds(i, k) /\ FdAt(i, k) = f
  BY DEF Accounted
<1>2. \A i, k \in Nat : Holds(i, k)' => FdAt(i, k)' \in Fds /\ table'[FdAt(i, k)'] = "sent"
  BY <1>1
<1>3. \A i, k, j, l \in Nat :
        Holds(i, k)' /\ Holds(j, l)' /\ FdAt(i, k)' = FdAt(j, l)' => i = j /\ k = l
  BY <1>1
<1>4. \A f \in Fds : table'[f] = "sent" => \E i, k \in Nat : Holds(i, k)' /\ FdAt(i, k)' = f
  BY <1>1
<1> QED BY <1>2, <1>3, <1>4 DEF Accounted

\* A step after which closing holds what r held.
LEMMA PlacesMove ==
    ASSUME Accounted, NEW r \in Nat, r # 0,
           \A k \in Nat : ~Holds(0, k) /\ ~Holds(r, k)',
           \A k \in Nat : Holds(0, k)' <=> Holds(r, k),
           \A k \in Nat : Holds(r, k) => FdAt(0, k)' = FdAt(r, k),
           \A i, k \in Nat : i # 0 /\ i # r => (Holds(i, k)' <=> Holds(i, k)),
           \A i, k \in Nat : i # 0 /\ i # r /\ Holds(i, k) => FdAt(i, k)' = FdAt(i, k),
           \A f \in Fds : table'[f] = "sent" <=> table[f] = "sent"
    PROVE  Accounted'
<1>1. /\ \A i, k \in Nat : Holds(i, k) => FdAt(i, k) \in Fds /\ table[FdAt(i, k)] = "sent"
      /\ \A i, k, j, l \in Nat :
           Holds(i, k) /\ Holds(j, l) /\ FdAt(i, k) = FdAt(j, l) => i = j /\ k = l
      /\ \A f \in Fds : table[f] = "sent" => \E i, k \in Nat : Holds(i, k) /\ FdAt(i, k) = f
  BY DEF Accounted
<1> DEFINE was(i) == IF i = 0 THEN r ELSE i
<1>2. ASSUME NEW i \in Nat, NEW k \in Nat, Holds(i, k)'
      PROVE  was(i) \in Nat /\ Holds(was(i), k) /\ FdAt(was(i), k) = FdAt(i, k)' /\ i # r
  <2>1. CASE i = 0 BY <1>2, <2>1
  <2>2. CASE i # 0 BY <1>2, <2>2
  <2> QED BY <2>1, <2>2
<1>3. ASSUME NEW i \in Nat, NEW k \in Nat, Holds(i, k)'
      PROVE  FdAt(i, k)' \in Fds /\ table'[FdAt(i, k)'] = "sent"
  BY <1>1, <1>2, <1>3
<1>4. ASSUME NEW i \in Nat, NEW k \in Nat, NEW j \in Nat, NEW l \in Nat,
             Holds(i, k)', Holds(j, l)', FdAt(i, k)' = FdAt(j, l)'
      PROVE  i = j /\ k = l
  <2>1. /\ was(i) \in Nat /\ Holds(was(i), k) /\ FdAt(was(i), k) = FdAt(i, k)' /\ i # r
        /\ was(j) \in Nat /\ Holds(was(j), l) /\ FdAt(was(j), l) = FdAt(j, l)' /\ j # r
    BY <1>2, <1>4
  <2>2. was(i) = was(j) /\ k = l
    <3> HIDE DEF was
    <3> QED BY <1>1, <1>4, <2>1
  <2> QED BY <2>1, <2>2
<1>5. ASSUME NEW f \in Fds, table'[f] = "sent"
      PROVE  \E i, k \in Nat : Holds(i, k)' /\ FdAt(i, k)' = f
  <2>1. PICK i \in Nat, k \in Nat : Holds(i, k) /\ FdAt(i, k) = f BY <1>1, <1>5
  <2>2. CASE i = r BY <2>1, <2>2
  <2>3. CASE i # r BY <2>1, <2>3
  <2> QED BY <2>2, <2>3
<1> QED BY <1>3, <1>4, <1>5 DEF Accounted

HeldByObject(i) ==
    IF objs[i].kind = "fda" THEN {Entries(objs[i], objs[i].len)[k] : k \in 1 .. objs[i].len}
    ELSE IF Given THEN {} ELSE FdsOf(objs[i])

HeldByCur ==
    IF step \in {"reserve", "install"} /\ fdi > 0
    THEN IF cur.kind = "fda" THEN {Entries(cur, fdi)[k] : k \in 1 .. fdi} ELSE {cur.fd}
    ELSE {}

HeldByClosing == {closing[k] : k \in 1 .. Len(closing)}

LEMMA HeldParts ==
    \A f : f \in Held <=> \/ \E i \in rel .. Len(objs) : f \in HeldByObject(i)
                        \/ f \in HeldByCur \/ f \in HeldByClosing
<1>1. Held = (UNION {HeldByObject(i) : i \in rel .. Len(objs)})
             \union HeldByCur \union HeldByClosing
  BY DEF Held, HeldByObject, HeldByCur, HeldByClosing
<1> DEFINE O == {HeldByObject(i) : i \in rel .. Len(objs)}
<1>2. \A f : f \in UNION O <=> \E S \in O : f \in S BY Zenon
<1>3. \A f : (\E S \in O : f \in S) <=> \E i \in rel .. Len(objs) : f \in HeldByObject(i)
  BY Zenon
<1> DEFINE U == UNION O
<1>4. Held = U \union HeldByCur \union HeldByClosing BY <1>1
<1> HIDE DEF O
<1>5. \A f : f \in U <=> \E i \in rel .. Len(objs) : f \in HeldByObject(i) BY <1>2, <1>3, Zenon
<1> HIDE DEF U
<1> QED BY <1>4, <1>5

LEMMA FdInvAccounted == FdInv => FdsAccounted
<1> SUFFICES ASSUME FdInv, files PROVE FdsAccounted BY DEF FdsAccounted
<1>1. BufferInv /\ Accounted /\ Reserving BY DEF FdInv
<1>2. {f \in Fds : table[f] = "reserved"} = IF step = "install" THEN {newFd} ELSE {}
  BY <1>1 DEF Reserving
<1>3. /\ objs \in Seq(ObjRecord) /\ rel \in Nat \ {0} /\ closing \in Seq(Nat) /\ fdi \in Nat
      /\ Len(objs) \in Nat /\ Len(closing) \in Nat
  BY <1>1 DEF BufferInv, BufferTypes, StepTypes
<1>4. \A i \in rel .. Len(objs) : i \in Nat /\ i # 0 /\ i # Len(objs) + 1 /\ i \in 1 .. Len(objs)
  BY <1>3
<1>5. ASSUME NEW i \in 1 .. Len(objs) PROVE objs[i].len \in Nat
  <2>1. objs[i] \in ObjRecord BY <1>3
  <2> QED BY <2>1 DEF ObjRecord
<1>6. ASSUME NEW i \in Nat, NEW k \in Nat, Holds(i, k) PROVE FdAt(i, k) \in Held
  <2>1. CASE i = 0 /\ k \in 1 .. Len(closing)
    <3>1. FdAt(i, k) = closing[k] BY <2>1 DEF FdAt
    <3> QED BY <2>1, <3>1, HeldParts DEF HeldByClosing
  <2>2. CASE i \in rel .. Len(objs) /\ objs[i].kind = "fda" /\ k \in 1 .. objs[i].len
    <3>1. FdAt(i, k) = Entries(objs[i], objs[i].len)[k]
      BY <1>4, <2>2 DEF FdAt, FdIn, Entries
    <3>2. FdAt(i, k) \in HeldByObject(i) BY <2>2, <3>1 DEF HeldByObject
    <3> QED BY <2>2, <3>2, HeldParts
  <2>3. CASE i \in rel .. Len(objs) /\ objs[i].kind = "fd" /\ ~Given /\ k = 1
    <3>1. FdAt(i, k) \in FdsOf(objs[i]) BY <1>4, <2>3 DEF FdAt, FdIn, FdsOf
    <3>2. FdAt(i, k) \in HeldByObject(i) BY <2>3, <3>1 DEF HeldByObject
    <3> QED BY <2>3, <3>2, HeldParts
  <2>4. CASE i = Len(objs) + 1 /\ Translating /\ k \in 1 .. fdi
    <3>1. i # 0 /\ fdi > 0 /\ step \in {"reserve", "install"}
      BY <1>3, <2>4 DEF Translating
    <3>2. FdAt(i, k) = IF cur.kind = "fd" THEN cur.fd ELSE Entries(cur, fdi)[k]
      BY <2>4, <3>1 DEF FdAt, FdIn, Entries
    <3>3. cur.kind \in {"fd", "fda"} BY <1>1, <2>4, CurFits
    <3>4. FdAt(i, k) \in HeldByCur BY <2>4, <3>1, <3>2, <3>3 DEF HeldByCur
    <3> QED BY <3>4, HeldParts
  <2> QED BY <1>6, <2>1, <2>2, <2>3, <2>4 DEF Holds
<1>7. ASSUME NEW f \in Held PROVE \E i, k \in Nat : Holds(i, k) /\ FdAt(i, k) = f
  <2>1. ASSUME NEW i \in rel .. Len(objs), f \in HeldByObject(i)
        PROVE  \E k \in Nat : Holds(i, k) /\ FdAt(i, k) = f
    <3>1. CASE objs[i].kind = "fda"
      <4>1. PICK k \in 1 .. objs[i].len : f = Entries(objs[i], objs[i].len)[k]
        BY <2>1, <3>1 DEF HeldByObject
      <4>2. k \in Nat BY <1>4, <1>5
      <4>3. FdAt(i, k) = f BY <1>4, <3>1, <4>1 DEF FdAt, FdIn, Entries
      <4> QED BY <3>1, <4>2, <4>3 DEF Holds
    <3>2. CASE objs[i].kind # "fda"
      <4>1. ~Given /\ objs[i].kind = "fd" /\ f = objs[i].fd
        BY <2>1, <3>2 DEF HeldByObject, FdsOf
      <4>2. Holds(i, 1) /\ FdAt(i, 1) = f BY <1>4, <4>1 DEF Holds, FdAt, FdIn
      <4> QED BY <4>2
    <3> QED BY <3>1, <3>2
  <2>2. ASSUME f \in HeldByCur
        PROVE  \E i, k \in Nat : Holds(i, k) /\ FdAt(i, k) = f
    <3> DEFINE n == Len(objs) + 1
    <3>1. n \in Nat /\ n # 0 /\ Translating /\ fdi > 0
      BY <1>3, <2>2 DEF Translating, HeldByCur
    <3>2. cur.kind \in {"fd", "fda"} BY <1>1, <3>1, CurFits
    <3>3. CASE cur.kind = "fda"
      <4>1. PICK k \in 1 .. fdi : f = Entries(cur, fdi)[k]
        BY <2>2, <3>3 DEF HeldByCur
      <4>2. k \in Nat BY <1>3
      <4>3. FdAt(n, k) = f BY <3>1, <3>3, <4>1 DEF FdAt, FdIn, Entries
      <4>4. Holds(n, k) BY <3>1 DEF Holds
      <4> QED BY <3>1, <4>2, <4>3, <4>4
    <3>4. CASE cur.kind = "fd"
      <4>1. FdAt(n, 1) = f BY <2>2, <3>1, <3>4 DEF FdAt, FdIn, HeldByCur
      <4>2. Holds(n, 1) BY <1>3, <3>1 DEF Holds
      <4> QED BY <3>1, <4>1, <4>2
    <3> QED BY <3>2, <3>3, <3>4
  <2>3. ASSUME NEW k \in 1 .. Len(closing), f = closing[k]
        PROVE  \E i, l \in Nat : Holds(i, l) /\ FdAt(i, l) = f
    <3>1. k \in Nat /\ Holds(0, k) /\ FdAt(0, k) = f BY <1>3, <2>3 DEF Holds, FdAt
    <3> QED BY <3>1
  <2>4. f \in HeldByClosing => \E k \in 1 .. Len(closing) : f = closing[k]
    BY DEF HeldByClosing
  <2>5. CASE \E i \in rel .. Len(objs) : f \in HeldByObject(i) BY <1>4, <2>1, <2>5
  <2> QED BY <2>2, <2>3, <2>4, <2>5, HeldParts
<1>8. {f \in Fds : table[f] = "sent"} = Held BY <1>1, <1>6, <1>7 DEF Accounted
<1> QED BY <1>2, <1>8 DEF FdsAccounted

\* A step after which f is held at one place more.
LEMMA PlacesGrow ==
    ASSUME Accounted, NEW r \in Nat, NEW q \in Nat, NEW f \in Fds, table[f] # "sent",
           \A i, k \in Nat : Holds(i, k)' <=> Holds(i, k) \/ (i = r /\ k = q),
           \A i, k \in Nat : Holds(i, k) => FdAt(i, k)' = FdAt(i, k),
           FdAt(r, q)' = f,
           \A g \in Fds : table'[g] = "sent" <=> g = f \/ table[g] = "sent"
    PROVE  Accounted'
<1>1. /\ \A i, k \in Nat : Holds(i, k) => FdAt(i, k) \in Fds /\ table[FdAt(i, k)] = "sent"
      /\ \A i, k, j, l \in Nat :
           Holds(i, k) /\ Holds(j, l) /\ FdAt(i, k) = FdAt(j, l) => i = j /\ k = l
      /\ \A g \in Fds : table[g] = "sent" => \E i, k \in Nat : Holds(i, k) /\ FdAt(i, k) = g
  BY DEF Accounted
<1>2. \A i, k \in Nat : Holds(i, k)' => FdAt(i, k)' \in Fds /\ table'[FdAt(i, k)'] = "sent"
  BY <1>1
<1>3. \A i, k, j, l \in Nat :
        Holds(i, k)' /\ Holds(j, l)' /\ FdAt(i, k)' = FdAt(j, l)' => i = j /\ k = l
  BY <1>1
<1>4. \A g \in Fds : table'[g] = "sent" => \E i, k \in Nat : Holds(i, k)' /\ FdAt(i, k)' = g
  BY <1>1
<1> QED BY <1>2, <1>3, <1>4 DEF Accounted

LEMMA FdFacts ==
    ASSUME FdInv
    PROVE  /\ BufferInv /\ WayInv /\ objs \in Seq(ObjRecord) /\ Laid(objs, sg)
           /\ Len(objs) \in Nat /\ closing \in Seq(Nat) /\ Len(closing) \in Nat
           /\ rel \in Nat \ {0} /\ fdi \in Nat /\ newFd \in Nat
           /\ \A i \in 1 .. Len(objs) : objs[i] \in ObjRecord /\ objs[i].len \in Nat
           /\ table \in [Fds -> FdStates] /\ step \in Steps
<1>1. /\ BufferInv /\ WayInv /\ objs \in Seq(ObjRecord) /\ Laid(objs, sg)
      /\ closing \in Seq(Nat) /\ rel \in Nat \ {0} /\ fdi \in Nat /\ newFd \in Nat
      /\ table \in [Fds -> FdStates] /\ step \in Steps
  BY DEF FdInv, BufferInv, BufferTypes, StepTypes
<1>2. Len(objs) \in Nat /\ Len(closing) \in Nat BY <1>1
<1>3. ASSUME NEW i \in 1 .. Len(objs) PROVE objs[i] \in ObjRecord /\ objs[i].len \in Nat
  <2>1. objs[i] \in ObjRecord BY <1>1
  <2> QED BY <2>1 DEF ObjRecord
<1> QED BY <1>1, <1>2, <1>3

\* An object that stays holds what it held.
LEMMA ObjectFdSame ==
    ASSUME BufferInv, PatchesStay, \A j \in 1 .. Len(objs) : objs'[j] = objs[j],
           NEW i \in 1 .. Len(objs), NEW k,
           objs[i].kind = "fd" \/ (objs[i].kind = "fda" /\ k \in 1 .. objs[i].len)
    PROVE  FdIn(objs[i], k)' = FdIn(objs[i], k)
<1>1. CASE objs[i].kind = "fd" BY <1>1 DEF FdIn
<1>2. CASE objs[i].kind = "fda"
  <2>1. objs[i].kind # "fd" /\ k \in 1 .. objs[i].len BY <1>2
  <2>2. EntryAt(objs[i], k) \in Patch(objs, i) BY <1>2, <2>1, ArrayEntries
  <2>3. objs[i].parent \in 1 .. Len(objs) /\ objs[i].parent # 0
    BY <1>2 DEF BufferInv, Laid, FitsIn, ParentsFirst
  <2>4. mem'[EntryAt(objs[i], k)] = mem[EntryAt(objs[i], k)]
    BY <2>2, <2>3 DEF PatchesStay
  <2>5. EntryAt(objs[i], k)' = EntryAt(objs[i], k) BY <2>3 DEF EntryAt
  <2> QED BY <2>1, <2>4, <2>5 DEF FdIn
<1> QED BY <1>1, <1>2

\* Where no object, descriptor or place comes or goes.
LEMMA QuietAccounted ==
    ASSUME FdInv, files, UNCHANGED <<bufferVars, closing, rel>>, Given' <=> Given,
           \A k \in Nat : (Translating' /\ k \in 1 .. fdi') <=> (Translating /\ k \in 1 .. fdi),
           Translating /\ fdi > 0 => cur' = cur,
           \A f \in Fds : table'[f] = "sent" <=> table[f] = "sent"
    PROVE  Accounted'
<1>1. UNCHANGED <<objs, mem, closing, rel>> BY DEF bufferVars
<1>2. Accounted /\ fdi \in Nat /\ rel \in Nat \ {0} BY FdFacts DEF FdInv
<1>3. ASSUME NEW i \in Nat, NEW k \in Nat PROVE Holds(i, k)' <=> Holds(i, k)
  BY <1>1 DEF Holds
<1>4. ASSUME NEW i \in Nat, NEW k \in Nat, Holds(i, k) PROVE FdAt(i, k)' = FdAt(i, k)
  <2>1. CASE i = Len(objs) + 1 /\ i # 0
    <3>1. Translating /\ k \in 1 .. fdi BY <1>2, <1>4, <2>1, FdFacts DEF Holds
    <3>2. cur' = cur BY <1>2, <3>1
    <3> QED BY <1>1, <2>1, <3>2 DEF FdAt, FdIn, EntryAt
  <2>2. CASE ~(i = Len(objs) + 1 /\ i # 0)
    BY <1>1, <2>2 DEF FdAt, FdIn, EntryAt
  <2> QED BY <2>1, <2>2
<1> QED BY <1>2, <1>3, <1>4, PlacesSame

LEMMA QuietKeepsFds ==
    ASSUME FdInv,
           \/ TranslateFd
           \/ \E off \in Offsets, p \in 0 .. MaxObjs, num \in Nums : TranslateFdArray(p, off, num)
           \/ TransactionFails \/ Send \/ FreeBuffer \/ Released
    PROVE  WayInv' /\ (files' => Accounted' /\ Reserving')
<1>1. UNCHANGED <<bufferVars, closing, rel>> /\ UNCHANGED <<table, files>>
  BY DEF TranslateFd, TranslateFdArray, TransactionFails, Send, FreeBuffer, Released, tableVars
<1>2. WayInv BY DEF FdInv
<1>3. ~Translating /\ step # "install" /\ step' # "install"
  BY DEF TranslateFd, TranslateFdArray, TransactionFails, Send, FreeBuffer, Released, AtObject,
         Translating, Fails
<1>4. Translating' => fdi' = 0
  BY DEF TranslateFd, TranslateFdArray, TransactionFails, Send, FreeBuffer, Released, AtObject,
         Translating, Fails
<1>5. Given' <=> Given
  BY <1>2 DEF TranslateFd, TranslateFdArray, TransactionFails, Send, FreeBuffer, Released,
              AtObject, Given, Fails, WayInv
<1>6. WayInv'
  BY <1>2 DEF TranslateFd, TranslateFdArray, TransactionFails, Send, FreeBuffer, Released,
              AtObject, Fails, WayInv
<1>7. \A k \in Nat : (Translating' /\ k \in 1 .. fdi') <=> (Translating /\ k \in 1 .. fdi)
  BY <1>3, <1>4
<1>8. files' => Accounted' BY <1>1, <1>3, <1>5, <1>7, QuietAccounted
<1>9. files' => Reserving' BY <1>1, <1>3 DEF FdInv, Reserving
<1> QED BY <1>6, <1>8, <1>9

LEMMA ReserveFdKeepsFds ==
    ASSUME FdInv, ReserveFd PROVE WayInv' /\ (files' => Accounted' /\ Reserving')
<1> DEFINE m == Min(Free)
<1>1. m \in Fds /\ table[m] = "free" BY FreeFd DEF ReserveFd
<1>2. /\ UNCHANGED <<bufferVars, closing, rel>> /\ UNCHANGED <<files, cur, fdi, failed>>
      /\ step = "reserve" /\ step' = "install" /\ files /\ newFd' = m
      /\ table' = [table EXCEPT ![m] = "reserved"]
  BY DEF ReserveFd
<1> HIDE DEF m
<1>3. table \in [Fds -> FdStates] /\ Reserving BY <1>2, FdFacts DEF FdInv
<1>4. WayInv' BY <1>2 DEF FdInv, WayInv
<1>5. Accounted'
  <2>1. Translating /\ Translating' BY <1>2 DEF Translating
  <2>2. Given' <=> Given BY <1>2 DEF Given
  <2>3. \A f \in Fds : table'[f] = "sent" <=> table[f] = "sent" BY <1>1, <1>2, <1>3
  <2> QED BY <1>2, <2>1, <2>2, <2>3, QuietAccounted
<1>6. Reserving' BY <1>1, <1>2, <1>3 DEF Reserving
<1> QED BY <1>4, <1>5, <1>6

LEMMA TargetKeepsFds ==
    ASSUME FdInv, Opens \/ PutFiles \/ (\E f \in Fds : Closes(f)) \/ UNCHANGED objVars
    PROVE  WayInv' /\ (files' => Accounted' /\ Reserving')
<1>1. /\ UNCHANGED bufferVars /\ UNCHANGED <<step, cur, fdi, newFd, closing, rel, failed>>
      /\ files' => files
  BY DEF Opens, PutFiles, Closes, stepVars, objVars, tableVars
<1>2. table \in [Fds -> FdStates] BY FdFacts
<1>3. WayInv' BY <1>1 DEF FdInv, WayInv
<1>4. ASSUME files', NEW f \in Fds
      PROVE  /\ table'[f] = "sent" <=> table[f] = "sent"
             /\ table'[f] = "reserved" <=> table[f] = "reserved"
  <2>1. CASE Opens BY <1>2, <2>1, FreeFd DEF Opens
  <2>2. CASE PutFiles BY <1>4, <2>2 DEF PutFiles
  <2>3. CASE \E g \in Fds : Closes(g) BY <1>2, <2>3 DEF Closes
  <2>4. CASE UNCHANGED objVars BY <2>4 DEF objVars, tableVars
  <2> QED BY <2>1, <2>2, <2>3, <2>4
<1>5. ASSUME files' PROVE Accounted' /\ Reserving'
  <2>1. Given' <=> Given BY <1>1 DEF Given
  <2>2. Translating' <=> Translating BY <1>1 DEF Translating
  <2>3. Accounted' BY <1>1, <1>4, <1>5, <2>1, <2>2, QuietAccounted
  <2>4. Reserving BY <1>1, <1>5 DEF FdInv
  <2> QED BY <1>1, <1>4, <1>5, <2>3, <2>4 DEF Reserving
<1> QED BY <1>3, <1>5

LEMMA TranslatePtrKeepsFds ==
    ASSUME FdInv, NEW p \in 0 .. MaxObjs, NEW off \in Offsets, NEW len \in Lengths,
           TranslatePtr(p, off, len)
    PROVE  WayInv' /\ (files' => Accounted' /\ Reserving')
<1> DEFINE n == Len(objs)
<1>1. BufferInv /\ objs \in Seq(ObjRecord) /\ n \in Nat /\ rel \in Nat \ {0} BY FdFacts
<1>2. PatchesStay BY <1>1, TranslatePtrKeeps
<1>3. /\ UNCHANGED <<table, files>> /\ UNCHANGED <<closing, rel>> /\ step = "object"
      /\ step' \in {"object", "release"}
      /\ step' = "object" => failed' = failed
      /\ step' = "release" => failed' = TRUE
  BY DEF TranslatePtr, AtObject, tableVars, stepVars, Fails
<1>4. \/ objs' = objs
      \/ \E o \in ObjRecord : objs' = Append(objs, o) /\ o.kind = "ptr"
  <2>1. CASE p = 0 \/ ParentFits(p, off)
    <3> DEFINE o == Obj("ptr", p, IF p = 0 THEN 0 ELSE off, len, sg)
    <3>1. objs' = Append(objs, o) BY <2>1 DEF TranslatePtr
    <3>2. p \in Nat /\ off \in Nat /\ len \in Nat /\ sg \in Nat
      BY <1>1, Constants DEF BufferInv, Laid
    <3>3. o \in ObjRecord /\ o.kind = "ptr" BY <3>2 DEF Obj, ObjRecord
    <3> QED BY <3>1, <3>3
  <2>2. CASE ~(p = 0 \/ ParentFits(p, off)) BY <2>2 DEF TranslatePtr
  <2> QED BY <2>1, <2>2
<1>5. /\ \A i \in 1 .. n : objs'[i] = objs[i]
      /\ \/ Len(objs') = n
         \/ Len(objs') = n + 1 /\ objs'[n + 1].kind = "ptr"
  <2>1. CASE objs' = objs BY <2>1
  <2>2. ASSUME NEW o \in ObjRecord, objs' = Append(objs, o), o.kind = "ptr"
        PROVE  /\ \A i \in 1 .. n : objs'[i] = objs[i]
               /\ Len(objs') = n + 1 /\ objs'[n + 1].kind = "ptr"
    BY <1>1, <2>2, AppendFacts
  <2> QED BY <1>4, <2>1, <2>2
<1> HIDE DEF n
<1>6. ~Given /\ ~Given' /\ ~Translating /\ ~Translating'
  BY <1>3 DEF Given, Translating
<1>7. ASSUME NEW i \in Nat, NEW k \in Nat PROVE Holds(i, k)' <=> Holds(i, k)
  <2>1. i \in rel .. Len(objs) => i \in 1 .. n BY <1>1 DEF n
  <2>2. i \in rel .. Len(objs') => i \in 1 .. n \/ objs'[i].kind = "ptr" BY <1>1, <1>5
  <2>3. i \in 1 .. n => (i \in rel .. Len(objs') <=> i \in rel .. Len(objs))
    BY <1>1, <1>5 DEF n
  <2>4. CASE i \in 1 .. n BY <1>3, <1>5, <1>6, <2>3, <2>4 DEF Holds
  <2>5. CASE i \notin 1 .. n BY <1>3, <1>6, <2>1, <2>2, <2>5 DEF Holds
  <2> QED BY <2>4, <2>5
<1>8. ASSUME NEW i \in Nat, NEW k \in Nat, Holds(i, k) PROVE FdAt(i, k)' = FdAt(i, k)
  <2>1. CASE i = 0 BY <1>3, <2>1 DEF FdAt
  <2>2. CASE i # 0
    <3>1. /\ i \in 1 .. n
          /\ objs[i].kind = "fd" \/ (objs[i].kind = "fda" /\ k \in 1 .. objs[i].len)
      BY <1>1, <1>6, <1>8, <2>2 DEF Holds, n
    <3>2. FdIn(objs[i], k)' = FdIn(objs[i], k)
      BY <1>1, <1>2, <1>5, <3>1, ObjectFdSame DEF n
    <3>3. i # Len(objs) + 1 /\ i # Len(objs') + 1 BY <1>1, <1>5, <3>1 DEF n
    <3> QED BY <2>2, <3>2, <3>3 DEF FdAt
  <2> QED BY <2>1, <2>2
<1>9. files' => Accounted' BY <1>3, <1>7, <1>8, PlacesSame DEF FdInv
<1>10. WayInv' BY <1>3 DEF FdInv, WayInv
<1>11. files' => Reserving' BY <1>3 DEF FdInv, Reserving
<1> QED BY <1>9, <1>10, <1>11

LEMMA FdsDoneKeepsFds ==
    ASSUME FdInv, FdsDone PROVE WayInv' /\ (files' => Accounted' /\ Reserving')
<1> DEFINE n == Len(objs)
<1>1. /\ BufferInv /\ WayInv /\ objs \in Seq(ObjRecord) /\ n \in Nat /\ rel \in Nat \ {0}
      /\ fdi \in Nat
  BY FdFacts
<1>2. /\ step = "reserve" /\ fdi = cur.len /\ step' = "object" /\ objs' = Append(objs, cur)
      /\ cur' = NoObj /\ fdi' = 0
      /\ UNCHANGED <<mem, table, files, closing, rel, failed>>
  BY DEF FdsDone, tableVars
<1>3. /\ Translating /\ ~Translating' /\ ~Given /\ ~Given' /\ rel = 1
  BY <1>1, <1>2 DEF Given, Translating, WayInv
<1>4. /\ cur \in ObjRecord /\ cur.kind \in {"fd", "fda"}
      /\ cur.kind = "fd" => cur.len = 1
      /\ cur.kind = "fda" => cur.parent \in 1 .. n
  BY <1>1, <1>3, CurFits, CurPlace
<1>5. /\ \A i \in 1 .. n : objs'[i] = objs[i]
      /\ Len(objs') = n + 1 /\ objs'[n + 1] = cur
  BY <1>1, <1>2, <1>4, AppendFacts
<1>6. PatchesStay BY <1>2 DEF PatchesStay
<1> HIDE DEF n
<1>7. ASSUME NEW i \in Nat, NEW k \in Nat PROVE Holds(i, k)' <=> Holds(i, k)
  <2>1. CASE i \in 1 .. n
    <3>1. i \in rel .. Len(objs') /\ i \in rel .. Len(objs) /\ i # Len(objs) + 1
          /\ i # Len(objs') + 1
      BY <1>1, <1>2, <1>3, <1>5, <2>1 DEF n
    <3> QED BY <1>2, <1>3, <1>5, <2>1, <3>1 DEF Holds
  <2>2. CASE i = n + 1
    <3>1. Holds(i, k) <=> k \in 1 .. fdi
      <4>1. i # 0 /\ i \notin rel .. Len(objs) /\ i = Len(objs) + 1
        BY <1>1, <2>2 DEF n
      <4> QED BY <1>3, <4>1 DEF Holds
    <3>2. Holds(i, k)' <=> \/ cur.kind = "fda" /\ k \in 1 .. cur.len
                           \/ cur.kind = "fd" /\ k = 1
      <4>1. i # 0 /\ i \in rel' .. Len(objs') /\ objs'[i] = cur
        BY <1>1, <1>2, <1>3, <1>5, <2>2
      <4> QED BY <1>3, <4>1 DEF Holds
    <3>3. 1 .. 1 = {1} OBVIOUS
    <3> QED BY <1>2, <1>4, <3>1, <3>2, <3>3
  <2>3. CASE i \notin 1 .. n /\ i # n + 1
    <3>1. /\ i \notin rel .. Len(objs) /\ i # Len(objs) + 1
          /\ i \notin rel' .. Len(objs')
      BY <1>1, <1>2, <1>3, <1>5, <2>3 DEF n
    <3> QED BY <1>2, <1>3, <3>1 DEF Holds
  <2> QED BY <2>1, <2>2, <2>3
<1>8. ASSUME NEW i \in Nat, NEW k \in Nat, Holds(i, k) PROVE FdAt(i, k)' = FdAt(i, k)
  <2>1. CASE i = 0 BY <1>2, <2>1 DEF FdAt
  <2>2. CASE i = n + 1
    <3>1. FdAt(i, k) = FdIn(cur, k) BY <1>1, <2>2 DEF FdAt, n
    <3>2. i # 0 /\ i # Len(objs') + 1 /\ objs'[i] = cur BY <1>1, <1>5, <2>2
    <3>3. FdAt(i, k)' = IF cur.kind = "fd" THEN cur.fd
                        ELSE mem[objs'[cur.parent].base + cur.off + FdSize * (k - 1)].of
      BY <1>2, <3>2 DEF FdAt, FdIn, EntryAt
    <3>4. cur.kind = "fda" => objs'[cur.parent] = objs[cur.parent] BY <1>4, <1>5
    <3> QED BY <1>4, <3>1, <3>3, <3>4 DEF FdIn, EntryAt
  <2>3. CASE i # 0 /\ i # n + 1
    <3>1. /\ i \in 1 .. n
          /\ objs[i].kind = "fd" \/ (objs[i].kind = "fda" /\ k \in 1 .. objs[i].len)
      BY <1>1, <1>8, <2>3 DEF Holds, n
    <3>2. FdIn(objs[i], k)' = FdIn(objs[i], k)
      BY <1>1, <1>5, <1>6, <3>1, ObjectFdSame DEF n
    <3>3. i # Len(objs) + 1 /\ i # Len(objs') + 1 BY <1>1, <1>5, <3>1 DEF n
    <3>4. objs'[i] = objs[i] BY <1>5, <3>1
    <3> QED BY <2>3, <3>2, <3>3, <3>4 DEF FdAt
  <2> QED BY <2>1, <2>2, <2>3
<1>9. files' => Accounted' BY <1>2, <1>7, <1>8, PlacesSame DEF FdInv
<1>10. WayInv' BY <1>1, <1>2 DEF WayInv
<1>11. files' => Reserving' BY <1>2 DEF FdInv, Reserving
<1> QED BY <1>9, <1>10, <1>11

LEMMA InstallFdKeepsFds ==
    ASSUME FdInv, InstallFd PROVE WayInv' /\ (files' => Accounted' /\ Reserving')
<1>0. PICK n \in Nat, q \in Nat, g \in Nat : n = Len(objs) /\ q = fdi + 1 /\ g = newFd
  BY FdFacts
<1>1. /\ BufferInv /\ WayInv /\ objs \in Seq(ObjRecord) /\ rel \in Nat \ {0}
      /\ fdi \in Nat /\ table \in [Fds -> FdStates]
      /\ n = Len(objs) /\ q = fdi + 1 /\ g = newFd
  BY <1>0, FdFacts
<1>2. /\ step = "install" /\ step' = "reserve" /\ fdi' = q
      /\ UNCHANGED <<objs, files, newFd, closing, rel, failed>>
      /\ table' = IF files THEN [table EXCEPT ![g] = "sent"] ELSE table
  BY <1>0 DEF InstallFd
<1>3. PatchesStay BY <1>1, InstallFdKeeps
<1>4. Translating /\ Translating' /\ ~Given /\ ~Given' /\ fdi < cur.len
  BY <1>1, <1>2 DEF Given, Translating, BufferInv, Underway
<1>5. /\ cur \in ObjRecord /\ cur.kind \in {"fd", "fda"} /\ cur.len \in Nat
      /\ cur.kind = "fd" => cur.len = 1
  BY <1>1, <1>4, CurFits
<1>6. q \in 1 .. cur.len BY <1>1, <1>4, <1>5
<1>7. ASSUME NEW i \in Nat, NEW k \in Nat
      PROVE  Holds(i, k)' <=> Holds(i, k) \/ (i = n + 1 /\ k = q)
  <2>1. k \in 1 .. q <=> k \in 1 .. fdi \/ k = q BY <1>1
  <2>2. ~(n + 1 \in rel .. n) /\ n + 1 # 0 BY <1>1
  <2> QED BY <1>1, <1>2, <1>4, <2>1, <2>2 DEF Holds
<1>8. cur.kind = "fd" => cur'.kind = "fd" /\ cur'.fd = g
  BY <1>1, <1>2, <1>5 DEF InstallFd, ObjRecord
<1>9. ASSUME cur.kind = "fda"
      PROVE  /\ FdIn(cur, q)' = g
             /\ \A k \in 1 .. fdi : FdIn(cur, k)' = FdIn(cur, k)
  <2> DEFINE a == objs[cur.parent].base + cur.off
             e == FdSize * (q - 1)
             R == a + e .. a + e + FdSize - 1
  <2>1. UNCHANGED cur /\ mem' = Write(a + e, FdSize, Byte("fd", g))
    BY <1>1, <1>9 DEF InstallFd, EntryAt
  <2>2. a \in Nat /\ e \in Nat /\ a + e \in Area BY <1>1, <1>4, <1>6, <1>9, CurEntries
  <2>3. \A b \in Area : mem'[b] = IF b \in R THEN Byte("fd", g) ELSE mem[b]
    <3> HIDE DEF a, e
    <3> QED BY <2>1 DEF Write
  <2>4. a + e \in R
    <3> HIDE DEF a, e
    <3> QED BY <2>2, Constants
  <2>5. FdIn(cur, q)' = g
    <3>1. FdIn(cur, q)' = mem'[a + e].of BY <1>2, <1>9, <2>1 DEF FdIn, EntryAt
    <3> HIDE DEF a, e, R
    <3> QED BY <2>2, <2>3, <2>4, <3>1 DEF Byte
  <2>6. ASSUME NEW k \in 1 .. fdi PROVE FdIn(cur, k)' = FdIn(cur, k)
    <3> DEFINE d == FdSize * (k - 1)
    <3>1. k \in 1 .. cur.len BY <1>1, <1>4, <1>5
    <3>2. a + d \in Area BY <1>1, <1>4, <1>9, <3>1, CurEntries
    <3>3. d \in Nat /\ d + FdSize <= FdSize * fdi BY <1>1, EntryBounds
    <3>4. e = FdSize * fdi BY <1>1
    <3>5. a + d \notin R
      <4> HIDE DEF a, d, e
      <4> QED BY <2>2, <3>3, <3>4, Constants
    <3>6. FdIn(cur, k)' = mem'[a + d].of /\ FdIn(cur, k) = mem[a + d].of
      BY <1>2, <1>9, <2>1 DEF FdIn, EntryAt
    <3> HIDE DEF a, d, R
    <3> QED BY <2>3, <3>2, <3>5, <3>6
  <2> QED BY <2>5, <2>6
<1>10. ASSUME NEW i \in Nat, NEW k \in Nat, Holds(i, k) PROVE FdAt(i, k)' = FdAt(i, k)
  <2>1. CASE i = 0 BY <1>2, <2>1 DEF FdAt
  <2>2. CASE i = n + 1
    <3>1. k \in 1 .. fdi
      <4>1. i # 0 /\ ~(i \in rel .. Len(objs)) BY <1>1, <2>2
      <4> QED BY <1>10, <4>1 DEF Holds
    <3>2. cur.kind = "fda" BY <1>1, <1>4, <1>5, <3>1
    <3>3. FdIn(cur, k)' = FdIn(cur, k) BY <1>9, <3>1, <3>2
    <3> QED BY <1>1, <1>2, <2>2, <3>3 DEF FdAt
  <2>3. CASE i # 0 /\ i # n + 1
    <3>1. /\ i \in 1 .. n
          /\ objs[i].kind = "fd" \/ (objs[i].kind = "fda" /\ k \in 1 .. objs[i].len)
      BY <1>1, <1>10, <2>3 DEF Holds
    <3>2. FdIn(objs[i], k)' = FdIn(objs[i], k)
      BY <1>1, <1>2, <1>3, <3>1, ObjectFdSame
    <3> QED BY <1>1, <1>2, <2>3, <3>2 DEF FdAt
  <2> QED BY <2>1, <2>2, <2>3
<1>11. FdAt(n + 1, q)' = g
  <2>1. FdAt(n + 1, q)' = FdIn(cur, q)' BY <1>1, <1>2 DEF FdAt
  <2>2. CASE cur.kind = "fd"
    <3>1. FdIn(cur, q)' = cur'.fd BY <1>8, <2>2 DEF FdIn
    <3> QED BY <1>8, <2>1, <2>2, <3>1
  <2>3. CASE cur.kind = "fda" BY <1>9, <2>1, <2>3
  <2> QED BY <1>5, <2>2, <2>3
<1>12. ASSUME files' PROVE Accounted' /\ Reserving'
  <2>1. files /\ Accounted /\ Reserving BY <1>2, <1>12 DEF FdInv
  <2>2. g \in Fds /\ table[g] = "reserved" BY <1>1, <1>2, <2>1 DEF Reserving
  <2>3. \A f \in Fds : table'[f] = "sent" <=> f = g \/ table[f] = "sent"
    BY <1>1, <1>2, <2>1, <2>2
  <2>4. n + 1 \in Nat /\ q \in Nat BY <1>1
  <2>5. Accounted' BY <1>7, <1>10, <1>11, <2>1, <2>2, <2>3, <2>4, PlacesGrow
  <2>6. Reserving' BY <1>1, <1>2, <2>1, <2>2 DEF Reserving
  <2> QED BY <2>5, <2>6
<1>13. WayInv' BY <1>1, <1>2 DEF WayInv
<1> QED BY <1>12, <1>13

LEMMA FdFailsKeepsFds ==
    ASSUME FdInv, FdFails PROVE WayInv' /\ (files' => Accounted' /\ Reserving')
<1>0. PICK r \in Nat : r = Len(objs) + 1 BY FdFacts
<1>1. /\ BufferInv /\ WayInv /\ objs \in Seq(ObjRecord) /\ rel \in Nat \ {0}
      /\ fdi \in Nat /\ Len(objs) \in Nat /\ r = Len(objs) + 1
  BY <1>0, FdFacts
<1>2. /\ step = "reserve" /\ fdi < cur.len /\ step' = "release" /\ failed' = TRUE
      /\ closing' = Installed /\ UNCHANGED <<objs, mem, table, files, rel>>
  BY DEF FdFails, Fails, tableVars, bufferVars
<1>3. /\ Translating /\ ~Translating' /\ ~Given /\ ~Given' /\ closing = <<>>
  BY <1>1, <1>2 DEF Given, Translating, WayInv
<1>4. cur.kind \in {"fd", "fda"} /\ (cur.kind = "fd" => cur.len = 1) BY <1>1, <1>3, CurFits
<1>5. /\ Len(closing') = fdi
      /\ \A k \in 1 .. fdi : closing'[k] = FdIn(cur, k)
  <2>1. CASE cur.kind = "fd"
    <3>1. fdi = 0 BY <1>1, <1>2, <1>4, <2>1
    <3>2. closing' = <<>> BY <1>2, <2>1 DEF Installed
    <3> QED BY <3>1, <3>2
  <2>2. CASE cur.kind = "fda"
    <3>1. closing' = [k \in 1 .. fdi |-> mem[EntryAt(cur, k)].of]
      BY <1>2, <2>2 DEF Installed, Entries
    <3>2. \A k \in 1 .. fdi : FdIn(cur, k) = mem[EntryAt(cur, k)].of BY <2>2 DEF FdIn
    <3> QED BY <1>1, <3>1, <3>2
  <2> QED BY <1>4, <2>1, <2>2
<1>6. r \in Nat /\ r # 0 /\ ~(r \in rel .. Len(objs)) /\ ~(0 \in rel .. Len(objs)) BY <1>1
<1>7. ASSUME NEW k \in Nat
      PROVE  /\ ~Holds(0, k) /\ ~Holds(r, k)'
             /\ Holds(r, k) <=> k \in 1 .. fdi
             /\ Holds(0, k)' <=> k \in 1 .. fdi
  <2>1. ~(k \in 1 .. Len(<<>>)) BY DEF Holds
  <2>2. ~Holds(0, k) BY <1>3, <1>6, <2>1 DEF Holds
  <2>3. ~Holds(r, k)' BY <1>2, <1>1, <1>3, <1>6 DEF Holds
  <2>4. Holds(r, k) <=> k \in 1 .. fdi BY <1>1, <1>3, <1>6 DEF Holds
  <2>5. Holds(0, k)' <=> k \in 1 .. fdi BY <1>2, <1>3, <1>5, <1>6 DEF Holds
  <2> QED BY <2>2, <2>3, <2>4, <2>5
<1>8. ASSUME NEW k \in Nat, Holds(r, k) PROVE FdAt(0, k)' = FdAt(r, k)
  <2>1. k \in 1 .. fdi BY <1>7, <1>8
  <2> QED BY <1>1, <1>5, <1>6, <2>1 DEF FdAt
<1>9. ASSUME NEW i \in Nat, NEW k \in Nat, i # 0, i # r
      PROVE  /\ Holds(i, k)' <=> Holds(i, k)
             /\ Holds(i, k) => FdAt(i, k)' = FdAt(i, k)
  <2>1. Holds(i, k)' <=> Holds(i, k) BY <1>1, <1>2, <1>3, <1>9 DEF Holds
  <2>2. FdAt(i, k)' = FdAt(i, k) BY <1>1, <1>2, <1>9 DEF FdAt, FdIn, EntryAt
  <2> QED BY <2>1, <2>2
<1>10. ASSUME files' PROVE Accounted' /\ Reserving'
  <2>1. Accounted /\ Reserving BY <1>2, <1>10 DEF FdInv
  <2>2. \A f \in Fds : table'[f] = "sent" <=> table[f] = "sent" BY <1>2
  <2>3. Accounted' BY <1>6, <1>7, <1>8, <1>9, <2>1, <2>2, PlacesMove
  <2>4. Reserving' BY <1>2, <2>1 DEF Reserving
  <2> QED BY <2>3, <2>4
<1>11. WayInv' BY <1>2 DEF WayInv
<1> QED BY <1>10, <1>11

LEMMA ReleaseObjectKeepsFds ==
    ASSUME FdInv, ReleaseObject PROVE WayInv' /\ (files' => Accounted' /\ Reserving')
<1> DEFINE o == objs[rel]
<1>0. PICK n \in Nat, r \in Nat : n = Len(objs) /\ r = rel BY FdFacts
<1>1. /\ BufferInv /\ WayInv /\ objs \in Seq(ObjRecord) /\ n = Len(objs)
      /\ rel \in Nat \ {0} /\ r = rel /\ Laid(objs, sg)
  BY <1>0, FdFacts
<1>2. /\ step = "release" /\ closing = <<>> /\ r <= n /\ closing' = ToClose(o)
      /\ rel' = r + 1
      /\ UNCHANGED <<objs, mem, table, files, step, cur, fdi, newFd, failed>>
  BY <1>1 DEF ReleaseObject, tableVars, bufferVars
<1>3. ~Translating /\ ~Translating' /\ (Given' <=> Given) /\ (Given <=> ~failed)
  BY <1>2 DEF Given, Translating
<1>4. rel \in 1 .. n /\ o \in ObjRecord /\ o.len \in Nat BY <1>1, <1>2, FdFacts
<1> DEFINE holds(k) == \/ o.kind = "fda" /\ k \in 1 .. o.len
                       \/ o.kind = "fd" /\ ~Given /\ k = 1
<1>5. ASSUME NEW k \in Nat
      PROVE  /\ k \in 1 .. Len(closing') <=> holds(k)
             /\ holds(k) => closing'[k] = FdIn(o, k)
  <2>1. CASE o.kind = "fda"
    <3>1. ValidPtr(o.parent) /\ ArrayFits(o.parent, o.off, o.len)
      <4>1. FitsIn(objs, sg, o) /\ o.parent \in 0 .. rel - 1
        BY <1>1, <1>4 DEF Laid, ParentsFirst
      <4>2. /\ o.parent \in 1 .. n /\ objs[o.parent].kind = "ptr"
            /\ o.len < (Limit - 1) \div FdSize
            /\ o.off + FdSize * o.len <= objs[o.parent].len
        BY <1>4, <2>1, <4>1 DEF FitsIn, Size
      <4>3. FdSize * o.len \in Nat /\ (FdSize * o.len) % Limit = FdSize * o.len
        BY <1>4, <4>2, ArraySize
      <4>4. o.off \in Nat /\ objs[o.parent].len \in Nat
        BY <1>1, <1>4, <4>2, FdFacts DEF ObjRecord
      <4> DEFINE z == FdSize * o.len
                 y == z % Limit
                 l == objs[o.parent].len
                 f == o.off
      <4>5. z \in Nat /\ y = z /\ f \in Nat /\ l \in Nat /\ f + z <= l BY <4>2, <4>3, <4>4
      <4> HIDE DEF z, y, l, f
      <4>6. y <= l /\ f <= l - y BY <4>5
      <4>7. ArrayFits(o.parent, o.off, o.len)
        BY <4>2, <4>6, Zenon DEF ArrayFits, z, y, l, f
      <4> QED BY <1>1, <4>2, <4>7, Zenon DEF ValidPtr
    <3>2. closing' = Entries(o, o.len) BY <1>2, <2>1, <3>1 DEF ToClose
    <3>3. closing' = [j \in 1 .. o.len |-> mem[EntryAt(o, j)].of] BY <3>2 DEF Entries
    <3>4. FdIn(o, k) = mem[EntryAt(o, k)].of BY <2>1 DEF FdIn
    <3> HIDE DEF o
    <3> QED BY <1>4, <2>1, <3>3, <3>4
  <2>2. CASE o.kind = "fd"
    <3>1. closing' = IF failed THEN <<o.fd>> ELSE <<>> BY <1>2, <2>2 DEF ToClose
    <3>2. FdIn(o, k) = o.fd BY <2>2 DEF FdIn
    <3> HIDE DEF o
    <3>3. CASE failed BY <1>3, <2>2, <3>1, <3>2, <3>3
    <3>4. CASE ~failed BY <1>3, <2>2, <3>1, <3>2, <3>4
    <3> QED BY <3>3, <3>4
  <2>3. CASE o.kind = "ptr"
    <3>1. closing' = <<>> BY <1>2, <2>3 DEF ToClose
    <3> QED BY <2>3, <3>1
  <2> QED BY <1>4, <2>1, <2>2, <2>3 DEF ObjRecord
<1> HIDE DEF holds
<1>6. r \in Nat /\ r # 0 /\ ~(0 \in rel .. Len(objs)) BY <1>1
<1>7. ASSUME NEW k \in Nat
      PROVE  /\ ~Holds(0, k) /\ ~Holds(r, k)'
             /\ Holds(r, k) <=> holds(k)
             /\ Holds(0, k)' <=> holds(k)
  <2>1. ~(k \in 1 .. Len(<<>>)) OBVIOUS
  <2>2. ~Holds(0, k) BY <1>1, <1>2, <1>6, <2>1 DEF Holds
  <2>3. ~(r \in r + 1 .. n) /\ ~(0 \in r + 1 .. n) /\ r # n + 1 /\ r \in r .. n
    BY <1>1, <1>2
  <2>4. \A j \in Nat : Holds(j, k)' <=>
          \/ j = 0 /\ k \in 1 .. Len(closing')
          \/ j \in r + 1 .. n /\ objs[j].kind = "fda" /\ k \in 1 .. objs[j].len
          \/ j \in r + 1 .. n /\ objs[j].kind = "fd" /\ ~Given /\ k = 1
    BY <1>1, <1>2, <1>3 DEF Holds
  <2>5. ~Holds(r, k)' BY <1>6, <2>3, <2>4
  <2>6. Holds(0, k)' <=> k \in 1 .. Len(closing') BY <2>3, <2>4
  <2>7. Holds(r, k) <=> holds(k) BY <1>1, <1>3, <1>6, <2>3 DEF Holds, holds
  <2> QED BY <1>5, <2>2, <2>5, <2>6, <2>7
<1>8. ASSUME NEW k \in Nat, Holds(r, k) PROVE FdAt(0, k)' = FdAt(r, k)
  <2>1. closing'[k] = FdIn(o, k) BY <1>5, <1>7, <1>8
  <2>2. r # Len(objs) + 1 BY <1>1, <1>2
  <2> QED BY <1>1, <1>6, <2>1, <2>2 DEF FdAt
<1>9. ASSUME NEW i \in Nat, NEW k \in Nat, i # 0, i # r
      PROVE  /\ Holds(i, k)' <=> Holds(i, k)
             /\ Holds(i, k) => FdAt(i, k)' = FdAt(i, k)
  <2>1. i \in rel' .. Len(objs') <=> i \in rel .. Len(objs) BY <1>1, <1>2, <1>9
  <2>2. Holds(i, k)' <=> Holds(i, k) BY <1>1, <1>2, <1>3, <1>9, <2>1 DEF Holds
  <2>3. FdAt(i, k)' = FdAt(i, k) BY <1>1, <1>2, <1>9 DEF FdAt, FdIn, EntryAt
  <2> QED BY <2>2, <2>3
<1>10. ASSUME files' PROVE Accounted' /\ Reserving'
  <2>1. Accounted /\ Reserving BY <1>2, <1>10 DEF FdInv
  <2>2. \A f \in Fds : table'[f] = "sent" <=> table[f] = "sent" BY <1>2
  <2>3. Accounted' BY <1>6, <1>7, <1>8, <1>9, <2>1, <2>2, PlacesMove
  <2>4. Reserving' BY <1>2, <2>1 DEF Reserving
  <2> QED BY <2>3, <2>4
<1>11. WayInv' BY <1>2 DEF WayInv
<1> QED BY <1>10, <1>11

LEMMA CloseFdKeepsFds ==
    ASSUME FdInv, CloseFd PROVE WayInv' /\ (files' => Accounted' /\ Reserving')
<1>0. PICK n \in Nat, c \in Nat, h \in Nat :
        n = Len(objs) /\ c = Len(closing) /\ h = Head(closing)
  <2>1. closing \in Seq(Nat) /\ closing # <<>> BY FdFacts DEF CloseFd
  <2>2. Head(closing) \in Nat BY <2>1
  <2> QED BY <2>2, FdFacts
<1>1. /\ BufferInv /\ WayInv /\ n = Len(objs) /\ c = Len(closing) /\ rel \in Nat \ {0}
      /\ closing \in Seq(Nat) /\ closing # <<>> /\ table \in [Fds -> FdStates]
  BY <1>0, FdFacts DEF CloseFd
<1>2. /\ closing' = Tail(closing)
      /\ UNCHANGED <<objs, mem, files, step, cur, fdi, newFd, rel, failed>>
      /\ table' = [f \in Fds |->
           IF f = h /\ files /\ table[f] # "reserved" THEN "free" ELSE table[f]]
  BY <1>0 DEF CloseFd, bufferVars
<1>3. /\ c >= 1 /\ Len(closing') = c - 1 /\ h = closing[1]
      /\ \A k \in 1 .. c - 1 : closing'[k] = closing[k + 1]
  BY <1>0, <1>1, <1>2
<1>4. (Given' <=> Given) /\ (Translating' <=> Translating) BY <1>2 DEF Given, Translating
<1>5. ~(0 \in rel .. n) /\ 0 # n + 1 BY <1>1
<1>6. ASSUME NEW k \in Nat
      PROVE  /\ Holds(0, k) <=> k \in 1 .. c
             /\ Holds(0, k)' <=> k \in 1 .. c - 1
  BY <1>1, <1>2, <1>3, <1>5 DEF Holds
<1>7. ASSUME NEW i \in Nat, NEW k \in Nat, i # 0
      PROVE  /\ Holds(i, k)' <=> Holds(i, k)
             /\ FdAt(i, k)' = FdAt(i, k)
  <2>1. Holds(i, k)' <=> Holds(i, k) BY <1>2, <1>4, <1>7 DEF Holds
  <2>2. FdAt(i, k)' = FdAt(i, k) BY <1>2, <1>7 DEF FdAt, FdIn, EntryAt
  <2> QED BY <2>1, <2>2
<1>8. /\ \A k \in Nat : FdAt(0, k) = closing[k] /\ FdAt(0, k)' = closing'[k]
  BY DEF FdAt
<1>9. ASSUME files' PROVE Accounted' /\ Reserving'
  <2>1. files /\ Accounted /\ Reserving BY <1>2, <1>9 DEF FdInv
  <2>2. /\ \A i, k \in Nat : Holds(i, k) => FdAt(i, k) \in Fds /\ table[FdAt(i, k)] = "sent"
        /\ \A i, k, j, l \in Nat :
             Holds(i, k) /\ Holds(j, l) /\ FdAt(i, k) = FdAt(j, l) => i = j /\ k = l
        /\ \A f \in Fds : table[f] = "sent" => \E i, k \in Nat : Holds(i, k) /\ FdAt(i, k) = f
    BY <2>1 DEF Accounted
  <2>3. Holds(0, 1) /\ FdAt(0, 1) = h BY <1>3, <1>6, <1>8
  <2>4. /\ h \in Fds /\ table[h] = "sent"
        /\ \A f \in Fds : table'[f] = "sent" <=> table[f] = "sent" /\ f # h
        /\ \A f \in Fds : table'[f] = "reserved" <=> table[f] = "reserved"
    <3>1. h \in Fds /\ table[h] = "sent" BY <2>2, <2>3
    <3> QED BY <1>2, <2>1, <3>1
  <2> DEFINE was(i, k) == IF i = 0 THEN k + 1 ELSE k
  <2>5. ASSUME NEW i \in Nat, NEW k \in Nat, Holds(i, k)'
        PROVE  /\ was(i, k) \in Nat /\ Holds(i, was(i, k))
               /\ FdAt(i, was(i, k)) = FdAt(i, k)'
               /\ ~(i = 0 /\ was(i, k) = 1)
    <3>1. CASE i = 0
      <4>1. k \in 1 .. c - 1 BY <1>6, <2>5, <3>1
      <4>2. k + 1 \in 1 .. c /\ k + 1 \in Nat /\ k + 1 # 1 BY <1>3, <4>1
      <4> QED BY <1>3, <1>6, <1>8, <3>1, <4>1, <4>2
    <3>2. CASE i # 0 BY <1>7, <2>5, <3>2
    <3> QED BY <3>1, <3>2
  <2>6. ASSUME NEW i \in Nat, NEW k \in Nat, Holds(i, k)'
        PROVE  FdAt(i, k)' \in Fds /\ table'[FdAt(i, k)'] = "sent"
    <3> HIDE DEF was
    <3>1. /\ was(i, k) \in Nat /\ Holds(i, was(i, k)) /\ FdAt(i, was(i, k)) = FdAt(i, k)'
          /\ ~(i = 0 /\ was(i, k) = 1)
      BY <2>5, <2>6
    <3> DEFINE g == FdAt(i, was(i, k))
    <3>2. g \in Fds /\ table[g] = "sent" BY <2>2, <3>1
    <3>3. g # h BY <2>2, <2>3, <3>1
    <3>4. g = FdAt(i, k)' BY <3>1
    <3> HIDE DEF g
    <3>5. table'[g] = "sent" BY <2>4, <3>2, <3>3
    <3> QED BY <3>2, <3>4, <3>5
  <2>7. ASSUME NEW i \in Nat, NEW k \in Nat, NEW j \in Nat, NEW l \in Nat,
               Holds(i, k)', Holds(j, l)', FdAt(i, k)' = FdAt(j, l)'
        PROVE  i = j /\ k = l
    <3>1. i = j /\ was(i, k) = was(j, l)
      <4> HIDE DEF was
      <4>1. /\ was(i, k) \in Nat /\ Holds(i, was(i, k)) /\ FdAt(i, was(i, k)) = FdAt(i, k)'
            /\ was(j, l) \in Nat /\ Holds(j, was(j, l)) /\ FdAt(j, was(j, l)) = FdAt(j, l)'
        BY <2>5, <2>7
      <4> QED BY <2>2, <2>7, <4>1
    <3> QED BY <3>1
  <2>8. ASSUME NEW f \in Fds, table'[f] = "sent"
        PROVE  \E i, k \in Nat : Holds(i, k)' /\ FdAt(i, k)' = f
    <3>1. table[f] = "sent" /\ f # h BY <2>4, <2>8
    <3>2. PICK i \in Nat, k \in Nat : Holds(i, k) /\ FdAt(i, k) = f BY <2>2, <3>1
    <3>3. CASE i = 0
      <4>1. k \in 1 .. c /\ k # 1 BY <1>6, <2>3, <3>1, <3>2, <3>3
      <4>2. k - 1 \in 1 .. c - 1 /\ k - 1 \in Nat /\ (k - 1) + 1 = k BY <4>1
      <4>3. closing'[k - 1] = closing[k] BY <1>3, <4>2
      <4>4. Holds(0, k - 1)' /\ FdAt(0, k - 1)' = f
        BY <1>6, <1>8, <3>2, <3>3, <4>2, <4>3
      <4> QED BY <4>2, <4>4
    <3>4. CASE i # 0 BY <1>7, <3>2, <3>4
    <3> QED BY <3>3, <3>4
  <2>9. Accounted' BY <2>6, <2>7, <2>8 DEF Accounted
  <2>10. Reserving' BY <1>2, <2>1, <2>4 DEF Reserving
  <2> QED BY <2>9, <2>10
<1>10. WayInv'
  <2>1. step = "release" BY <1>1 DEF WayInv
  <2> QED BY <1>2, <2>1 DEF WayInv
<1> QED BY <1>9, <1>10

LEMMA GiveKeepsFds ==
    ASSUME FdInv, Give PROVE WayInv' /\ (files' => Accounted' /\ Reserving')
<1>0. PICK n \in Nat : n = Len(objs) BY FdFacts
<1>1. /\ BufferInv /\ WayInv /\ n = Len(objs) /\ rel \in Nat \ {0}
      /\ table \in [Fds -> FdStates]
  BY <1>0, FdFacts
<1> DEFINE given(f) == \E i \in 1 .. n : f \in FdsOf(objs[i])
<1>2. /\ step = "sent" /\ step' = "given"
      /\ UNCHANGED <<objs, mem, files, cur, fdi, newFd, closing, rel, failed>>
      /\ table' = [f \in Fds |-> IF table[f] = "sent" /\ given(f) THEN "own" ELSE table[f]]
  BY <1>0 DEF Give, bufferVars
<1>3. /\ ~Translating /\ ~Translating' /\ ~Given /\ Given' /\ rel = 1 /\ closing = <<>>
      /\ failed = FALSE
  BY <1>1, <1>2 DEF Given, Translating, WayInv
<1>4. ASSUME NEW i \in Nat, NEW k \in Nat
      PROVE  /\ Holds(i, k) => i \in 1 .. n /\ objs[i].kind \in {"fd", "fda"}
             /\ Holds(i, k)' <=> Holds(i, k) /\ objs[i].kind = "fda"
             /\ i \in 1 .. n /\ objs[i].kind = "fd" => Holds(i, 1)
  <2>1. ~(k \in 1 .. Len(<<>>)) OBVIOUS
  <2>2. Holds(i, k) <=> \/ i \in 1 .. n /\ objs[i].kind = "fda" /\ k \in 1 .. objs[i].len
                        \/ i \in 1 .. n /\ objs[i].kind = "fd" /\ k = 1
    BY <1>1, <1>3, <2>1 DEF Holds
  <2>3. Holds(i, k)' <=> i \in 1 .. n /\ objs[i].kind = "fda" /\ k \in 1 .. objs[i].len
    BY <1>1, <1>2, <1>3, <2>1 DEF Holds
  <2>4. i \in 1 .. n /\ objs[i].kind = "fd" => Holds(i, 1) BY <1>1, <1>3 DEF Holds
  <2> QED BY <2>2, <2>3, <2>4
<1>5. ASSUME NEW i \in Nat, NEW k \in Nat PROVE FdAt(i, k)' = FdAt(i, k)
  BY <1>2 DEF FdAt, FdIn, EntryAt
<1>6. ASSUME NEW i \in 1 .. n, NEW f \in FdsOf(objs[i])
      PROVE  i \in Nat /\ Holds(i, 1) /\ FdAt(i, 1) = f /\ objs[i].kind = "fd"
  <2>1. objs[i].kind = "fd" /\ f = objs[i].fd BY <1>6 DEF FdsOf
  <2>2. i \in Nat /\ i # 0 /\ i # n + 1 OBVIOUS
  <2>3. FdAt(i, 1) = f BY <1>1, <2>1, <2>2 DEF FdAt, FdIn
  <2> QED BY <1>4, <2>1, <2>2, <2>3
<1>7. ASSUME files' PROVE Accounted' /\ Reserving'
  <2>1. files /\ Accounted /\ Reserving BY <1>2, <1>7 DEF FdInv
  <2>2. /\ \A i, k \in Nat : Holds(i, k) => FdAt(i, k) \in Fds /\ table[FdAt(i, k)] = "sent"
        /\ \A i, k, j, l \in Nat :
             Holds(i, k) /\ Holds(j, l) /\ FdAt(i, k) = FdAt(j, l) => i = j /\ k = l
        /\ \A f \in Fds : table[f] = "sent" => \E i, k \in Nat : Holds(i, k) /\ FdAt(i, k) = f
    BY <2>1 DEF Accounted
  <2>3. /\ \A f \in Fds : table'[f] = "sent" <=> table[f] = "sent" /\ ~given(f)
        /\ \A f \in Fds : table'[f] = "reserved" <=> table[f] = "reserved"
    <3> HIDE DEF given
    <3> QED BY <1>2
  <2>4. ASSUME NEW i \in Nat, NEW k \in Nat, Holds(i, k)'
        PROVE  FdAt(i, k)' \in Fds /\ table'[FdAt(i, k)'] = "sent"
    <3>1. Holds(i, k) /\ objs[i].kind = "fda" BY <1>4, <2>4
    <3>2. FdAt(i, k) \in Fds /\ table[FdAt(i, k)] = "sent" BY <2>2, <3>1
    <3>3. ASSUME NEW j \in 1 .. n, FdAt(i, k) \in FdsOf(objs[j]) PROVE FALSE
      <4>1. j \in Nat /\ Holds(j, 1) /\ FdAt(j, 1) = FdAt(i, k) /\ objs[j].kind = "fd"
        BY <1>6, <3>3
      <4>2. i = j BY <2>2, <3>1, <4>1
      <4> QED BY <3>1, <4>1, <4>2
    <3>4. ~given(FdAt(i, k)) BY <3>3
    <3> HIDE DEF given
    <3> QED BY <1>5, <2>3, <3>2, <3>4
  <2>5. \A i, k, j, l \in Nat :
          Holds(i, k)' /\ Holds(j, l)' /\ FdAt(i, k)' = FdAt(j, l)' => i = j /\ k = l
    BY <1>4, <1>5, <2>2
  <2>6. ASSUME NEW f \in Fds, table'[f] = "sent"
        PROVE  \E i, k \in Nat : Holds(i, k)' /\ FdAt(i, k)' = f
    <3>1. table[f] = "sent" /\ ~given(f)
      <4> HIDE DEF given
      <4> QED BY <2>3, <2>6
    <3>2. PICK i \in Nat, k \in Nat : Holds(i, k) /\ FdAt(i, k) = f BY <2>2, <3>1
    <3>3. i \in 1 .. n /\ objs[i].kind \in {"fd", "fda"} BY <1>4, <3>2
    <3>4. objs[i].kind # "fd"
      <4> SUFFICES ASSUME objs[i].kind = "fd" PROVE FALSE OBVIOUS
      <4>1. i # 0 /\ i # n + 1 BY <3>3
      <4>2. f \in FdsOf(objs[i]) BY <1>1, <3>2, <4>1 DEF FdAt, FdIn, FdsOf
      <4> QED BY <3>1, <3>3, <4>2
    <3> QED BY <1>4, <1>5, <3>2, <3>3, <3>4
  <2>7. Accounted' BY <2>4, <2>5, <2>6 DEF Accounted
  <2>8. Reserving' BY <1>2, <2>1, <2>3 DEF Reserving
  <2> QED BY <2>7, <2>8
<1>8. WayInv' BY <1>2, <1>3 DEF WayInv
<1> QED BY <1>7, <1>8

LEMMA ObjNextKeepsFds ==
    ASSUME FdInv, ObjNext \/ UNCHANGED objVars
    PROVE  WayInv' /\ (files' => Accounted' /\ Reserving')
<1>1. CASE UNCHANGED objVars BY <1>1, TargetKeepsFds
<1>2. CASE ObjNext
  <2>1. \/ TranslateFd
        \/ \E off \in Offsets, p \in 0 .. MaxObjs, num \in Nums : TranslateFdArray(p, off, num)
        \/ \E off \in Offsets, p \in 0 .. MaxObjs, len \in Lengths : TranslatePtr(p, off, len)
        \/ ReserveFd \/ InstallFd \/ FdsDone \/ FdFails
        \/ ReleaseObject \/ CloseFd \/ Give
        \/ TransactionFails \/ Send \/ FreeBuffer \/ Released
        \/ Opens \/ PutFiles \/ \E f \in Fds : Closes(f)
    BY <1>2 DEF ObjNext
  <2> QED
    BY <2>1, QuietKeepsFds, TranslatePtrKeepsFds, ReserveFdKeepsFds, InstallFdKeepsFds,
       FdsDoneKeepsFds, FdFailsKeepsFds, ReleaseObjectKeepsFds, CloseFdKeepsFds,
       GiveKeepsFds, TargetKeepsFds
<1> QED BY <1>1, <1>2

LEMMA ObjInitFds == ObjInit => FdInv
<1> SUFFICES ASSUME ObjInit PROVE FdInv OBVIOUS
<1>1. BufferInv BY ObjInitInv
<1>2. /\ objs = <<>> /\ step = "object" /\ fdi = 0 /\ closing = <<>> /\ rel = 1
      /\ failed = FALSE /\ table = [f \in Fds |-> "free"]
  BY DEF ObjInit
<1>3. WayInv BY <1>2 DEF WayInv
<1>4. ASSUME NEW i \in Nat, NEW k \in Nat PROVE ~Holds(i, k)
  <2>1. ~(k \in 1 .. Len(<<>>)) /\ ~(i \in 1 .. Len(<<>>)) OBVIOUS
  <2> QED BY <1>2, <2>1 DEF Holds, Translating
<1>5. Accounted BY <1>2, <1>4 DEF Accounted
<1>6. Reserving BY <1>2 DEF Reserving
<1> QED BY <1>1, <1>3, <1>5, <1>6 DEF FdInv

\* As long as the driver has the table, what it put there is what it holds.
THEOREM FdsAccountedHolds == BuffersSpec => []FdsAccounted
<1>1. BuffersInit => FdInv BY ObjInitFds DEF BuffersInit
<1>2. FdInv /\ BufferInv' /\ [BuffersNext]_buffersVars => FdInv'
  <2> SUFFICES ASSUME FdInv, BufferInv', [BuffersNext]_buffersVars PROVE FdInv' OBVIOUS
  <2>1. ObjNext \/ UNCHANGED objVars BY DEF BuffersNext, buffersVars
  <2>2. WayInv' /\ (files' => Accounted' /\ Reserving') BY <2>1, ObjNextKeepsFds
  <2> QED BY <2>2 DEF FdInv
<1> QED BY <1>1, <1>2, ObjectsInvariance, FdInvAccounted, PTL DEF BuffersSpec

=============================================================================
