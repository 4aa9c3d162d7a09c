------------------------ MODULE BinderNodeRefProofs ------------------------
(***************************************************************************)
(* The counts of a binder node are exactly its users, and a node that has  *)
(* been freed has none, for any finite number of processes, threads,       *)
(* objects under way and calls.                                            *)
(*                                                                         *)
(* Each action changes one entry of ref, parcel, call or ack and the node. *)
(* The first part says what changing one entry does to the sets that are   *)
(* counted; the second what each operation does to a node whose counts are *)
(* right; the third puts the two together, action by action.               *)
(***************************************************************************)
EXTENDS BinderNodeRef, FiniteSetTheorems, TLAPS

\* What a parcel or a call counts for: as a holder, and as a local reference.
TmpOf(v) == IF v.st \in {"looked", "counted", "failed", "found", "put"} THEN 1 ELSE 0
LocalStates == {"counted", "built", "held", "undo", "found"}
StrongOf(v) == IF v.local /\ v.strong /\ v.st \in LocalStates THEN 1 ELSE 0
WeakOf(v) == IF v.local /\ ~v.strong /\ v.st \in LocalStates THEN 1 ELSE 0
CallTmpOf(v) == IF v.st \in {"built", "accepted", "done"} THEN 1 ELSE 0
CallLocalOf(v) == IF v.st \in {"built", "accepted", "held"} THEN 1 ELSE 0
AckOf(v) == IF v = "none" THEN 0 ELSE 1
RefOf(v) == IF v.strong > 0 THEN 1 ELSE 0

Internal == Cardinality(StrongRefs)
StrongParcels == LocalParcels(TRUE)
WeakParcels == LocalParcels(FALSE)
LocalStrong == Cardinality(StrongParcels) + Cardinality(LocalCalls)
LocalWeak == Cardinality(WeakParcels)
Open == prc[Server] = "open"

\* The counts of n are h holders, i refs with a strong count, s and w local
\* references, the server being the context manager (g) and alive (open).
Counts(n, h, i, s, w, g, open) ==
    /\ n.tmp = h /\ n.internal = i
    /\ open =>
         /\ n.localStrong = s + (IF n.pendingStrong THEN 1 ELSE 0) + (IF g THEN 1 ELSE 0)
         /\ n.localWeak = w + (IF n.pendingWeak THEN 1 ELSE 0) + (IF g THEN 1 ELSE 0)

Placed(n, linked, open) ==
    /\ ~n.exists => linked = {} /\ n = NoNode
    /\ open /\ n.exists =>
         /\ n.tree /\ n.proc
         /\ n.pendingStrong => n.hasStrong
         /\ n.pendingWeak => n.hasWeak

Similar(m, n) ==
    /\ m.tree = n.tree /\ m.proc = n.proc
    /\ m.hasStrong = n.hasStrong /\ m.hasWeak = n.hasWeak
    /\ m.pendingStrong = n.pendingStrong /\ m.pendingWeak = n.pendingWeak

Sound(n, linked, h, i, s, w, g, open) ==
    n \in Node /\ Counts(n, h, i, s, w, g, open) /\ Placed(n, linked, open)

Others ==
    /\ ref \in [Procs -> Ref]
    /\ locked \subseteq Procs
    /\ parcel \in [Parcels -> Parcel]
    /\ call \in [Calls -> Call]
    /\ ack \in [Threads -> AckStates]
    /\ prc \in [Procs -> {"open", "dead", "erased", "put", "refs", "released"}]
    /\ mgr \in BOOLEAN /\ careless \in BOOLEAN
    /\ RefShape /\ ParcelShape
    /\ mgr => Open

\* The inductive invariant, sorted for the proof.
LEMMA Sorted ==
    IInv <=> Others /\ Sound(node, Linked, Holders, Internal, LocalStrong,
                             LocalWeak, mgr, Open)
BY DEF IInv, TypeOK, Others, Sound, Counts, Placed, ServerShape, Open,
       NoUseAfterFree, InternalCounts, LocalCounts, Internal, LocalStrong,
       StrongParcels, LocalWeak, WeakParcels

LEMMA SortedNext ==
    IInv' <=> Others' /\ Sound(node', Linked', Holders', Internal', LocalStrong',
                               LocalWeak', mgr', Open')
BY DEF IInv, TypeOK, Others, Sound, Counts, Placed, ServerShape, Open,
       NoUseAfterFree, InternalCounts, LocalCounts, Internal, LocalStrong,
       StrongParcels, LocalWeak, WeakParcels

-----------------------------------------------------------------------------
(* Counting. *)

\* The elements of T that are in A, when only x may have come (b) or gone (a).
LEMMA CountedUpdate ==
    ASSUME NEW T, IsFiniteSet(T), NEW x \in T,
           NEW A \in SUBSET T, NEW B \in SUBSET T, A \ {x} = B \ {x},
           NEW a \in {0, 1}, NEW b \in {0, 1}, x \in A <=> a = 1, x \in B <=> b = 1
    PROVE  /\ Cardinality(A) \in Nat /\ Cardinality(B) \in Nat
           /\ Cardinality(B) = Cardinality(A) + b - a
<1>1. IsFiniteSet(A) /\ IsFiniteSet(B) BY FS_Subset
<1>2. Cardinality(A) \in Nat /\ Cardinality(B) \in Nat
  BY <1>1, FS_CardinalityType
<1>3. ASSUME NEW C, IsFiniteSet(C), NEW c \in {0, 1}, x \in C <=> c = 1
      PROVE  Cardinality(C \ {x}) = Cardinality(C) - c
  <2>1. Cardinality(C) \in Nat BY <1>3, FS_CardinalityType
  <2>2. CASE c = 1 BY <1>3, <2>1, <2>2, FS_RemoveElement
  <2>3. CASE c = 0
    <3>1. C \ {x} = C BY <1>3, <2>3
    <3> QED BY <2>1, <2>3, <3>1
  <2> QED BY <2>2, <2>3
<1>4. Cardinality(A \ {x}) = Cardinality(A) - a BY <1>1, <1>3
<1>5. Cardinality(B \ {x}) = Cardinality(B) - b BY <1>1, <1>3
<1>6. Cardinality(A \ {x}) = Cardinality(B \ {x}) OBVIOUS
<1>7. Cardinality(B) - b = Cardinality(A) - a BY <1>4, <1>5, <1>6
<1>8. a \in Nat /\ b \in Nat OBVIOUS
<1> QED BY <1>2, <1>7, <1>8

LEMMA ParcelUpdate ==
    ASSUME Others, NEW x \in Parcels, NEW v \in Parcel,
           parcel' = [parcel EXCEPT ![x] = v]
    PROVE  /\ parcel' \in [Parcels -> Parcel]
           /\ Cardinality(TmpParcels')
                = Cardinality(TmpParcels) + TmpOf(v) - TmpOf(parcel[x])
           /\ Cardinality(StrongParcels')
                = Cardinality(StrongParcels) + StrongOf(v) - StrongOf(parcel[x])
           /\ Cardinality(WeakParcels')
                = Cardinality(WeakParcels) + WeakOf(v) - WeakOf(parcel[x])
<1>0. IsFiniteSet(Parcels) BY FiniteAssumption
<1>1. parcel \in [Parcels -> Parcel] /\ parcel' \in [Parcels -> Parcel]
  BY DEF Others
<1>2. /\ TmpParcels \in SUBSET Parcels /\ TmpParcels' \in SUBSET Parcels
      /\ TmpParcels \ {x} = TmpParcels' \ {x}
      /\ TmpOf(parcel[x]) \in {0, 1} /\ TmpOf(v) \in {0, 1}
      /\ x \in TmpParcels <=> TmpOf(parcel[x]) = 1
      /\ x \in TmpParcels' <=> TmpOf(v) = 1
  BY <1>1 DEF TmpParcels, TmpOf
<1>3. /\ StrongParcels \in SUBSET Parcels /\ StrongParcels' \in SUBSET Parcels
      /\ StrongParcels \ {x} = StrongParcels' \ {x}
      /\ StrongOf(parcel[x]) \in {0, 1} /\ StrongOf(v) \in {0, 1}
      /\ x \in StrongParcels <=> StrongOf(parcel[x]) = 1
      /\ x \in StrongParcels' <=> StrongOf(v) = 1
  BY <1>1 DEF StrongParcels, LocalParcels, StrongOf, LocalStates, Parcel
<1>4. /\ WeakParcels \in SUBSET Parcels /\ WeakParcels' \in SUBSET Parcels
      /\ WeakParcels \ {x} = WeakParcels' \ {x}
      /\ WeakOf(parcel[x]) \in {0, 1} /\ WeakOf(v) \in {0, 1}
      /\ x \in WeakParcels <=> WeakOf(parcel[x]) = 1
      /\ x \in WeakParcels' <=> WeakOf(v) = 1
  BY <1>1 DEF WeakParcels, LocalParcels, WeakOf, LocalStates, Parcel
<1>5. Cardinality(TmpParcels')
        = Cardinality(TmpParcels) + TmpOf(v) - TmpOf(parcel[x])
  BY <1>0, <1>2, CountedUpdate
<1>6. Cardinality(StrongParcels')
        = Cardinality(StrongParcels) + StrongOf(v) - StrongOf(parcel[x])
  BY <1>0, <1>3, CountedUpdate
<1>7. Cardinality(WeakParcels')
        = Cardinality(WeakParcels) + WeakOf(v) - WeakOf(parcel[x])
  BY <1>0, <1>4, CountedUpdate
<1> QED BY <1>1, <1>5, <1>6, <1>7

LEMMA CallUpdate ==
    ASSUME Others, NEW c \in Calls, NEW v \in Call,
           call' = [call EXCEPT ![c] = v]
    PROVE  /\ call' \in [Calls -> Call]
           /\ Cardinality(TmpCalls')
                = Cardinality(TmpCalls) + CallTmpOf(v) - CallTmpOf(call[c])
           /\ Cardinality(LocalCalls')
                = Cardinality(LocalCalls) + CallLocalOf(v) - CallLocalOf(call[c])
<1>0. IsFiniteSet(Calls) BY FiniteAssumption
<1>1. call \in [Calls -> Call] /\ call' \in [Calls -> Call]
  BY DEF Others
<1>2. /\ TmpCalls \in SUBSET Calls /\ TmpCalls' \in SUBSET Calls
      /\ TmpCalls \ {c} = TmpCalls' \ {c}
      /\ CallTmpOf(call[c]) \in {0, 1} /\ CallTmpOf(v) \in {0, 1}
      /\ c \in TmpCalls <=> CallTmpOf(call[c]) = 1
      /\ c \in TmpCalls' <=> CallTmpOf(v) = 1
  BY <1>1 DEF TmpCalls, CallTmpOf
<1>3. /\ LocalCalls \in SUBSET Calls /\ LocalCalls' \in SUBSET Calls
      /\ LocalCalls \ {c} = LocalCalls' \ {c}
      /\ CallLocalOf(call[c]) \in {0, 1} /\ CallLocalOf(v) \in {0, 1}
      /\ c \in LocalCalls <=> CallLocalOf(call[c]) = 1
      /\ c \in LocalCalls' <=> CallLocalOf(v) = 1
  BY <1>1 DEF LocalCalls, CallLocalOf
<1>4. Cardinality(TmpCalls')
        = Cardinality(TmpCalls) + CallTmpOf(v) - CallTmpOf(call[c])
  BY <1>0, <1>2, CountedUpdate
<1>5. Cardinality(LocalCalls')
        = Cardinality(LocalCalls) + CallLocalOf(v) - CallLocalOf(call[c])
  BY <1>0, <1>3, CountedUpdate
<1> QED BY <1>1, <1>4, <1>5

LEMMA AckUpdate ==
    ASSUME Others, NEW th \in Threads, NEW v \in AckStates,
           ack' = [ack EXCEPT ![th] = v]
    PROVE  /\ ack' \in [Threads -> AckStates]
           /\ Cardinality(TmpAcks') = Cardinality(TmpAcks) + AckOf(v) - AckOf(ack[th])
<1>0. IsFiniteSet(Threads) BY FiniteAssumption
<1>1. ack \in [Threads -> AckStates] /\ ack' \in [Threads -> AckStates]
  BY DEF Others
<1>2. /\ TmpAcks \in SUBSET Threads /\ TmpAcks' \in SUBSET Threads
      /\ TmpAcks \ {th} = TmpAcks' \ {th}
      /\ AckOf(ack[th]) \in {0, 1} /\ AckOf(v) \in {0, 1}
      /\ th \in TmpAcks <=> AckOf(ack[th]) = 1
      /\ th \in TmpAcks' <=> AckOf(v) = 1
  BY <1>1 DEF TmpAcks, AckOf
<1>3. Cardinality(TmpAcks') = Cardinality(TmpAcks) + AckOf(v) - AckOf(ack[th])
  BY <1>0, <1>2, CountedUpdate
<1> QED BY <1>1, <1>3

LEMMA RefUpdate ==
    ASSUME Others, NEW p \in Procs, NEW v \in Ref,
           ref' = [ref EXCEPT ![p] = v]
    PROVE  /\ ref' \in [Procs -> Ref]
           /\ Internal \in Nat /\ Internal' \in Nat
           /\ Internal' = Internal + RefOf(v) - RefOf(ref[p])
           /\ Linked' = IF v.on THEN Linked \union {p} ELSE Linked \ {p}
<1>0. IsFiniteSet(Procs) BY FiniteAssumption, FS_AddElement DEF Procs
<1>1. ref \in [Procs -> Ref] /\ ref' \in [Procs -> Ref]
  BY DEF Others
<1>2. /\ StrongRefs \in SUBSET Procs /\ StrongRefs' \in SUBSET Procs
      /\ StrongRefs \ {p} = StrongRefs' \ {p}
      /\ RefOf(ref[p]) \in {0, 1} /\ RefOf(v) \in {0, 1}
      /\ p \in StrongRefs <=> RefOf(ref[p]) = 1
      /\ p \in StrongRefs' <=> RefOf(v) = 1
  BY <1>1 DEF StrongRefs, RefOf
<1>3. /\ Internal \in Nat /\ Internal' \in Nat
      /\ Internal' = Internal + RefOf(v) - RefOf(ref[p])
  BY <1>0, <1>2, CountedUpdate DEF Internal
<1>4. Linked' = IF v.on THEN Linked \union {p} ELSE Linked \ {p}
  BY <1>1 DEF Linked
<1> QED BY <1>1, <1>3, <1>4

\* A process with a strong count has a ref.
LEMMA Unlinked == ASSUME Others PROVE Linked = {} => Internal = 0
<1>1. Linked = {} => StrongRefs = {}
  BY DEF Others, RefShape, NoRef, Linked, StrongRefs
<1> QED BY <1>1, FS_EmptySet DEF Internal

LEMMA UnlinkedNext == ASSUME RefShape' PROVE Linked' = {} => Internal' = 0
<1>1. Linked' = {} => StrongRefs' = {}
  BY DEF RefShape, NoRef, Linked, StrongRefs
<1>2. Internal' = Cardinality(StrongRefs') BY DEF Internal
<1> QED BY <1>1, <1>2, FS_EmptySet

LEMMA CountTypes ==
    ASSUME Others
    PROVE  /\ Cardinality(TmpParcels) \in Nat /\ Cardinality(TmpCalls) \in Nat
           /\ Cardinality(TmpAcks) \in Nat /\ Cardinality(LocalCalls) \in Nat
           /\ Cardinality(StrongParcels) \in Nat /\ Cardinality(WeakParcels) \in Nat
           /\ Internal \in Nat /\ Holders \in Nat
           /\ LocalStrong \in Nat /\ LocalWeak \in Nat
<1>1. IsFiniteSet(Procs) BY FiniteAssumption, FS_AddElement DEF Procs
<1>2. /\ StrongRefs \subseteq Procs /\ TmpParcels \subseteq Parcels
      /\ TmpCalls \subseteq Calls /\ TmpAcks \subseteq Threads
      /\ LocalCalls \subseteq Calls /\ StrongParcels \subseteq Parcels
      /\ WeakParcels \subseteq Parcels
  BY DEF StrongRefs, TmpParcels, TmpCalls, TmpAcks, LocalCalls, StrongParcels,
         WeakParcels, LocalParcels
<1>3. /\ Cardinality(TmpParcels) \in Nat /\ Cardinality(TmpCalls) \in Nat
      /\ Cardinality(TmpAcks) \in Nat /\ Cardinality(LocalCalls) \in Nat
      /\ Cardinality(StrongParcels) \in Nat /\ Cardinality(WeakParcels) \in Nat
      /\ Cardinality(StrongRefs) \in Nat
  BY <1>1, <1>2, FiniteAssumption, FS_Subset, FS_CardinalityType
<1>4. Holders \in Nat BY <1>3 DEF Holders
<1>5. LocalStrong \in Nat /\ LocalWeak \in Nat /\ Internal \in Nat
  BY <1>3 DEF LocalStrong, LocalWeak, Internal
<1> QED BY <1>3, <1>4, <1>5

\* What the counts become when one parcel, call or answer changes.
LEMMA ParcelStep ==
    ASSUME Others, NEW x \in Parcels, NEW v \in Parcel,
           v.local => v.to = Server /\ v.st # "looked", v.st # "idle" => v.to # None,
           v.st = "found" => v.local,
           parcel' = [parcel EXCEPT ![x] = v], UNCHANGED <<call, ack, prc>>
    PROVE  /\ parcel' \in [Parcels -> Parcel] /\ ParcelShape'
           /\ Holders' = Holders + TmpOf(v) - TmpOf(parcel[x])
           /\ LocalStrong' = LocalStrong + StrongOf(v) - StrongOf(parcel[x])
           /\ LocalWeak' = LocalWeak + WeakOf(v) - WeakOf(parcel[x])
           /\ Open' = Open
<1>1. TmpCalls' = TmpCalls /\ LocalCalls' = LocalCalls /\ TmpAcks' = TmpAcks
  BY DEF TmpCalls, LocalCalls, TmpAcks
<1>2. ParcelShape'
  <2>1. parcel \in [Parcels -> Parcel] /\ ParcelShape BY DEF Others
  <2> QED BY <2>1 DEF ParcelShape
<1>3. Open' = Open BY DEF Open
<1>4. /\ TmpOf(v) \in Nat /\ TmpOf(parcel[x]) \in Nat
      /\ StrongOf(v) \in Nat /\ StrongOf(parcel[x]) \in Nat
  BY DEF TmpOf, StrongOf
<1>5. Holders' = Cardinality(TmpParcels') + Cardinality(TmpCalls)
                   + Cardinality(TmpAcks)
                   + (IF prc[Server] \in {"erased", "put"} THEN 1 ELSE 0)
  BY <1>1 DEF Holders
<1>10. /\ Cardinality(TmpParcels')
            = Cardinality(TmpParcels) + TmpOf(v) - TmpOf(parcel[x])
       /\ Cardinality(StrongParcels')
            = Cardinality(StrongParcels) + StrongOf(v) - StrongOf(parcel[x])
  BY ParcelUpdate
<1>11. /\ Cardinality(TmpParcels) \in Nat /\ Cardinality(TmpCalls) \in Nat
       /\ Cardinality(TmpAcks) \in Nat /\ Cardinality(LocalCalls) \in Nat
       /\ Cardinality(StrongParcels) \in Nat
  BY CountTypes
<1>6. Holders' = Holders + TmpOf(v) - TmpOf(parcel[x])
  BY <1>4, <1>5, <1>10, <1>11 DEF Holders
<1>7. LocalStrong' = Cardinality(StrongParcels') + Cardinality(LocalCalls)
  BY <1>1 DEF LocalStrong
<1>8. LocalStrong' = LocalStrong + StrongOf(v) - StrongOf(parcel[x])
  BY <1>4, <1>7, <1>10, <1>11 DEF LocalStrong
<1>9. LocalWeak' = LocalWeak + WeakOf(v) - WeakOf(parcel[x])
  BY ParcelUpdate DEF LocalWeak
<1> QED BY <1>2, <1>3, <1>6, <1>8, <1>9, ParcelUpdate

LEMMA CallStep ==
    ASSUME Others, NEW c \in Calls, NEW v \in Call,
           call' = [call EXCEPT ![c] = v], UNCHANGED <<parcel, ack, prc>>
    PROVE  /\ call' \in [Calls -> Call]
           /\ Holders' = Holders + CallTmpOf(v) - CallTmpOf(call[c])
           /\ LocalStrong' = LocalStrong + CallLocalOf(v) - CallLocalOf(call[c])
           /\ LocalWeak' = LocalWeak
           /\ Open' = Open
<1>1. /\ TmpParcels' = TmpParcels /\ TmpAcks' = TmpAcks
      /\ StrongParcels' = StrongParcels /\ WeakParcels' = WeakParcels
  BY DEF TmpParcels, LocalParcels, TmpAcks, StrongParcels, WeakParcels
<1>2. Open' = Open BY DEF Open
<1>3. /\ CallTmpOf(v) \in Nat /\ CallTmpOf(call[c]) \in Nat
      /\ CallLocalOf(v) \in Nat /\ CallLocalOf(call[c]) \in Nat
  BY DEF CallTmpOf, CallLocalOf
<1>4. Holders' = Cardinality(TmpParcels) + Cardinality(TmpCalls')
                   + Cardinality(TmpAcks)
                   + (IF prc[Server] \in {"erased", "put"} THEN 1 ELSE 0)
  BY <1>1 DEF Holders
<1>9. /\ Cardinality(TmpCalls')
           = Cardinality(TmpCalls) + CallTmpOf(v) - CallTmpOf(call[c])
      /\ Cardinality(LocalCalls')
           = Cardinality(LocalCalls) + CallLocalOf(v) - CallLocalOf(call[c])
  BY CallUpdate
<1>10. /\ Cardinality(TmpParcels) \in Nat /\ Cardinality(TmpCalls) \in Nat
       /\ Cardinality(TmpAcks) \in Nat /\ Cardinality(LocalCalls) \in Nat
       /\ Cardinality(StrongParcels) \in Nat
  BY CountTypes
<1>5. Holders' = Holders + CallTmpOf(v) - CallTmpOf(call[c])
  BY <1>3, <1>4, <1>9, <1>10 DEF Holders
<1>6. LocalStrong' = Cardinality(StrongParcels) + Cardinality(LocalCalls')
  BY <1>1 DEF LocalStrong
<1>7. LocalStrong' = LocalStrong + CallLocalOf(v) - CallLocalOf(call[c])
  BY <1>3, <1>6, <1>9, <1>10 DEF LocalStrong
<1>8. LocalWeak' = LocalWeak BY <1>1 DEF LocalWeak
<1> QED BY <1>2, <1>5, <1>7, <1>8, CallUpdate

LEMMA AckStep ==
    ASSUME Others, NEW th \in Threads, NEW v \in AckStates,
           ack' = [ack EXCEPT ![th] = v], UNCHANGED <<parcel, call, prc>>
    PROVE  /\ ack' \in [Threads -> AckStates]
           /\ Holders' = Holders + AckOf(v) - AckOf(ack[th])
           /\ LocalStrong' = LocalStrong /\ LocalWeak' = LocalWeak
           /\ Open' = Open
<1>1. /\ TmpParcels' = TmpParcels /\ TmpCalls' = TmpCalls
      /\ LocalCalls' = LocalCalls
      /\ StrongParcels' = StrongParcels /\ WeakParcels' = WeakParcels
  BY DEF TmpParcels, LocalParcels, TmpCalls, LocalCalls, StrongParcels, WeakParcels
<1>2. Open' = Open BY DEF Open
<1>3. AckOf(v) \in Nat /\ AckOf(ack[th]) \in Nat BY DEF AckOf
<1>4. Holders' = Cardinality(TmpParcels) + Cardinality(TmpCalls)
                   + Cardinality(TmpAcks')
                   + (IF prc[Server] \in {"erased", "put"} THEN 1 ELSE 0)
  BY <1>1 DEF Holders
<1>7. Cardinality(TmpAcks') = Cardinality(TmpAcks) + AckOf(v) - AckOf(ack[th])
  BY AckUpdate
<1>8. /\ Cardinality(TmpParcels) \in Nat /\ Cardinality(TmpCalls) \in Nat
      /\ Cardinality(TmpAcks) \in Nat
  BY CountTypes
<1>5. Holders' = Holders + AckOf(v) - AckOf(ack[th])
  BY <1>3, <1>4, <1>7, <1>8 DEF Holders
<1>6. LocalStrong' = LocalStrong /\ LocalWeak' = LocalWeak
  BY <1>1 DEF LocalStrong, LocalWeak
<1> QED BY <1>2, <1>5, <1>6, AckUpdate

LEMMA RefSame ==
    ASSUME UNCHANGED ref PROVE Internal' = Internal /\ Linked' = Linked
BY DEF Internal, StrongRefs, Linked

LEMMA OthersSame ==
    ASSUME UNCHANGED <<parcel, call, ack, prc>>
    PROVE  /\ Holders' = Holders /\ LocalStrong' = LocalStrong
           /\ LocalWeak' = LocalWeak /\ Open' = Open
<1>1. /\ TmpParcels' = TmpParcels /\ TmpCalls' = TmpCalls /\ TmpAcks' = TmpAcks
      /\ LocalCalls' = LocalCalls
      /\ StrongParcels' = StrongParcels /\ WeakParcels' = WeakParcels
  BY DEF TmpParcels, LocalParcels, TmpCalls, LocalCalls, TmpAcks, StrongParcels,
         WeakParcels
<1> QED BY <1>1 DEF Holders, LocalStrong, LocalWeak, Open

-----------------------------------------------------------------------------
(* Operations on a node whose counts are right. *)

\* What a node may be after Settle: as it was, or queued, or freed for good.
Settled(r, m, linked) ==
    \/ r = m
    \/ r = [m EXCEPT !.work = IF @ = None THEN "proc" ELSE @]
    \/ r = NoNode /\ Unused(m, linked)

LEMMA SettledSound ==
    ASSUME NEW m \in Node, m.exists, NEW linked, NEW r, Settled(r, m, linked),
           NEW h \in Nat, NEW i \in Nat, NEW s \in Nat, NEW w \in Nat,
           NEW g \in BOOLEAN, NEW open \in BOOLEAN,
           Counts(m, h, i, s, w, g, open), Placed(m, linked, open),
           linked = {} => i = 0
    PROVE  Sound(r, linked, h, i, s, w, g, open)
<1>1. CASE r = m BY <1>1 DEF Sound
<1>2. CASE r = [m EXCEPT !.work = IF @ = None THEN "proc" ELSE @]
  <2>1. /\ r \in Node /\ r.exists /\ r.tmp = m.tmp /\ r.internal = m.internal
        /\ r.localStrong = m.localStrong /\ r.localWeak = m.localWeak
        /\ r.pendingStrong = m.pendingStrong /\ r.pendingWeak = m.pendingWeak
        /\ Similar(r, m)
    BY <1>2 DEF Node, Similar
  <2> QED BY <2>1 DEF Sound, Counts, Placed, Similar
<1>3. CASE r = NoNode /\ Unused(m, linked)
  <2>1. m.localStrong = 0 /\ m.localWeak = 0 /\ m.tmp = 0 /\ linked = {}
    BY <1>3 DEF Unused
  <2>2. open => s = 0 /\ w = 0 /\ ~g
    BY <2>1 DEF Counts
  <2>3. h = 0 /\ i = 0 BY <2>1 DEF Counts
  <2>4. NoNode \in Node BY DEF NoNode, Node
  <2>5. Counts(NoNode, h, i, s, w, g, open)
    BY <2>2, <2>3 DEF Counts, NoNode
  <2>6. Placed(NoNode, linked, open) BY <2>1 DEF Placed, Similar, NoNode
  <2> QED BY <1>3, <2>4, <2>5, <2>6 DEF Sound
<1> QED BY <1>1, <1>2, <1>3 DEF Settled

LEMMA PutSound ==
    ASSUME NEW n \in Node, n.exists, NEW linked,
           NEW h \in Nat, NEW i \in Nat, NEW s \in Nat, NEW w \in Nat,
           NEW g \in BOOLEAN, NEW open \in BOOLEAN,
           Counts(n, h + 1, i, s, w, g, open), Placed(n, linked, open),
           linked = {} => i = 0
    PROVE  Sound(Put(n, linked), linked, h, i, s, w, g, open)
<1> DEFINE m == [n EXCEPT !.tmp = @ - 1]
           r == Put(n, linked)
<1>1. /\ m \in Node /\ m.exists /\ m.tmp = n.tmp - 1 /\ m.internal = n.internal
      /\ m.localStrong = n.localStrong /\ m.localWeak = n.localWeak
      /\ m.pendingStrong = n.pendingStrong /\ m.pendingWeak = n.pendingWeak
      /\ Similar(m, n)
  BY DEF Node, Similar
<1>2. Settled(r, m, linked) BY DEF Put, Settle, Settled
<1> HIDE DEF m, r
<1>3. Counts(m, h, i, s, w, g, open) /\ Placed(m, linked, open)
  BY <1>1 DEF Counts, Placed, Similar
<1>4. Sound(r, linked, h, i, s, w, g, open)
  BY <1>1, <1>2, <1>3, SettledSound
<1> QED BY <1>4 DEF r

LEMMA TmpSound ==
    ASSUME NEW n \in Node, n.exists, NEW linked,
           NEW h \in Nat, NEW i \in Nat, NEW s \in Nat, NEW w \in Nat,
           NEW g \in BOOLEAN, NEW open \in BOOLEAN,
           Sound(n, linked, h, i, s, w, g, open)
    PROVE  Sound(Tmp(n), linked, h + 1, i, s, w, g, open) /\ Tmp(n).exists
<1>1. LET m == Tmp(n) IN
      /\ m \in Node /\ m.exists /\ m.tmp = n.tmp + 1 /\ m.internal = n.internal
      /\ m.localStrong = n.localStrong /\ m.localWeak = n.localWeak
      /\ m.pendingStrong = n.pendingStrong /\ m.pendingWeak = n.pendingWeak
      /\ Similar(m, n)
  BY DEF Node, Similar, Tmp
<1> QED BY <1>1 DEF Counts, Placed, Similar, Sound

\* A reference is given back: a, b and c are what the counts lose.
LEMMA DecSound ==
    ASSUME NEW n \in Node, n.exists, NEW linked,
           NEW strong \in BOOLEAN, NEW internal \in BOOLEAN,
           NEW a \in Nat, NEW b \in Nat, NEW c \in Nat,
           a = IF strong /\ internal THEN 1 ELSE 0,
           b = IF strong /\ ~internal THEN 1 ELSE 0,
           c = IF ~strong /\ ~internal THEN 1 ELSE 0,
           NEW h \in Nat, NEW i \in Nat, NEW s \in Nat, NEW w \in Nat,
           NEW g \in BOOLEAN, NEW open \in BOOLEAN,
           Counts(n, h, i + a, s + b, w + c, g, open),
           Placed(n, linked, open), linked = {} => i = 0
    PROVE  Sound(Dec(n, strong, internal, linked), linked, h, i, s, w, g, open)
<1> DEFINE i1 == n.internal - a
           s1 == n.localStrong - b
           w1 == n.localWeak - c
           m == [n EXCEPT !.internal = i1, !.localStrong = s1, !.localWeak = w1]
           r == Dec(n, strong, internal, linked)
<1>1. m = Less(n, strong, internal) BY DEF Less, Node
<1>2. Settled(r, m, linked) BY ZenonT(60), <1>1 DEF Dec, Settle, Settled
<1>3. /\ m \in Node /\ m.exists /\ m.tmp = n.tmp /\ m.internal = n.internal - a
      /\ m.localStrong = n.localStrong - b /\ m.localWeak = n.localWeak - c
      /\ m.pendingStrong = n.pendingStrong /\ m.pendingWeak = n.pendingWeak
      /\ Similar(m, n)
  <2>1. i1 \in Int /\ s1 \in Int /\ w1 \in Int BY DEF Node, Similar
  <2> HIDE DEF i1, s1, w1
  <2>2. /\ m \in Node /\ m.exists /\ m.tmp = n.tmp /\ m.internal = i1
        /\ m.localStrong = s1 /\ m.localWeak = w1
        /\ m.pendingStrong = n.pendingStrong /\ m.pendingWeak = n.pendingWeak
        /\ Similar(m, n)
    BY <2>1 DEF Node, Similar
  <2> QED BY <2>2 DEF i1, s1, w1
<1> HIDE DEF m, r
<1>4. Counts(m, h, i, s, w, g, open) /\ Placed(m, linked, open)
  BY <1>3 DEF Counts, Placed, Similar, Node
<1>5. Sound(r, linked, h, i, s, w, g, open)
  BY <1>2, <1>3, <1>4, SettledSound
<1> QED BY <1>5 DEF r

\* A reference is taken, unless it fails.
LEMMA IncSound ==
    ASSUME NEW n \in Node, n.exists, NEW linked,
           NEW strong \in BOOLEAN, NEW internal \in BOOLEAN,
           NEW list \in Threads \union {None},
           NEW a \in Nat, NEW b \in Nat, NEW c \in Nat,
           a = IF /\ strong /\ internal
                  /\ ~(strong /\ IncFails(n, strong, internal, list)) THEN 1 ELSE 0,
           b = IF strong /\ ~internal THEN 1 ELSE 0,
           c = IF ~strong /\ ~internal THEN 1 ELSE 0,
           NEW h \in Nat, NEW i \in Nat, NEW s \in Nat, NEW w \in Nat,
           NEW g \in BOOLEAN, NEW open \in BOOLEAN,
           Sound(n, linked, h, i, s, w, g, open)
    PROVE  LET m == Inc(n, strong, internal, list)
           IN  /\ m \in Node /\ m.exists /\ Similar(m, n)
               /\ Counts(m, h, i + a, s + b, w + c, g, open)
<1> DEFINE failed == strong /\ IncFails(n, strong, internal, list)
           m == Inc(n, strong, internal, list)
           to == Announced(n, strong, list)
           i1 == n.internal + a
           s1 == n.localStrong + b
           w1 == n.localWeak + c
           e == [n EXCEPT !.internal = i1, !.localStrong = s1, !.localWeak = w1,
                          !.work = to]
<1>1. failed => internal BY DEF IncFails
<1>2. to \in Threads \union {"proc", None}
  BY DEF Announced, Node
<1>4. CASE failed
  <2>1. a = 0 /\ b = 0 /\ c = 0 BY <1>1, <1>4
  <2>2. m = n BY <1>4 DEF Inc
  <2>3. Counts(n, h, i + a, s + b, w + c, g, open) BY <2>1 DEF Sound
  <2> QED BY <2>2, <2>3 DEF Sound, Similar
<1>5. CASE ~failed
  <2>1. m = e
    BY <1>5 DEF Inc
  <2>2. Counts(n, h, i, s, w, g, open) BY DEF Sound
  <2> HIDE DEF to
  <2>3. /\ e \in Node /\ e.exists /\ e.tmp = n.tmp
        /\ e.internal = n.internal + a
        /\ e.localStrong = n.localStrong + b /\ e.localWeak = n.localWeak + c
        /\ e.pendingStrong = n.pendingStrong /\ e.pendingWeak = n.pendingWeak
        /\ Similar(e, n)
    <3>1. i1 \in Int /\ s1 \in Int /\ w1 \in Int BY DEF Node, Similar
    <3> HIDE DEF i1, s1, w1
    <3>2. /\ e \in Node /\ e.exists /\ e.tmp = n.tmp /\ e.internal = i1
          /\ e.localStrong = s1 /\ e.localWeak = w1
          /\ e.pendingStrong = n.pendingStrong /\ e.pendingWeak = n.pendingWeak
          /\ Similar(e, n)
      BY <1>2, <3>1 DEF Node, Similar
    <3> QED BY <3>2 DEF i1, s1, w1
  <2> HIDE DEF e, m
  <2>5. Counts(e, h, i + a, s + b, w + c, g, open)
    BY <2>2, <2>3 DEF Counts
  <2>6. /\ m \in Node /\ m.exists /\ Similar(m, n)
        /\ Counts(m, h, i + a, s + b, w + c, g, open)
    BY <2>1, <2>3, <2>5
  <2> QED BY <2>6 DEF m
<1> QED BY <1>4, <1>5

-----------------------------------------------------------------------------
(* The same for each kind of reference, and what follows from the invariant. *)

\* A ref gives its strong count back; it is gone; the server or a call gives a
\* strong one back; the server gives a weak one back.
GiveStrong(n, linked) == Dec(n, TRUE, TRUE, linked)
GiveWeak(n, linked) == Dec(n, FALSE, TRUE, linked)
DropStrong(n, linked) == Dec(n, TRUE, FALSE, linked)
DropWeak(n, linked) == Dec(n, FALSE, FALSE, linked)

LEMMA GiveStrongSound ==
    ASSUME NEW n \in Node, n.exists, NEW linked,
           NEW h \in Nat, NEW i \in Nat, NEW s \in Nat, NEW w \in Nat,
           NEW g \in BOOLEAN, NEW open \in BOOLEAN,
           Counts(n, h, i + 1, s, w, g, open),
           Placed(n, linked, open), linked = {} => i = 0
    PROVE  Sound(GiveStrong(n, linked), linked, h, i, s, w, g, open)
<1> DEFINE st == TRUE
           in == TRUE
<1>1. /\ st \in BOOLEAN /\ in \in BOOLEAN
      /\ 1 = (IF st /\ in THEN 1 ELSE 0) /\ 0 = (IF st /\ ~in THEN 1 ELSE 0)
      /\ 0 = (IF ~st /\ ~in THEN 1 ELSE 0)
      /\ i + 1 \in Nat /\ s + 0 = s /\ w + 0 = w
  OBVIOUS
<1>2. GiveStrong(n, linked) = Dec(n, st, in, linked) BY DEF GiveStrong
<1> HIDE DEF st, in
<1>3. Counts(n, h, i + 1, s + 0, w + 0, g, open) BY <1>1
<1> QED BY <1>1, <1>2, <1>3, DecSound

LEMMA GiveWeakSound ==
    ASSUME NEW n \in Node, n.exists, NEW linked,
           NEW h \in Nat, NEW i \in Nat, NEW s \in Nat, NEW w \in Nat,
           NEW g \in BOOLEAN, NEW open \in BOOLEAN,
           Counts(n, h, i, s, w, g, open),
           Placed(n, linked, open), linked = {} => i = 0
    PROVE  Sound(GiveWeak(n, linked), linked, h, i, s, w, g, open)
<1> DEFINE st == FALSE
           in == TRUE
<1>1. /\ st \in BOOLEAN /\ in \in BOOLEAN
      /\ 0 = (IF st /\ in THEN 1 ELSE 0) /\ 0 = (IF st /\ ~in THEN 1 ELSE 0)
      /\ 0 = (IF ~st /\ ~in THEN 1 ELSE 0)
      /\ i + 0 = i /\ s + 0 = s /\ w + 0 = w
  OBVIOUS
<1>2. GiveWeak(n, linked) = Dec(n, st, in, linked) BY DEF GiveWeak
<1> HIDE DEF st, in
<1>3. Counts(n, h, i + 0, s + 0, w + 0, g, open) BY <1>1
<1> QED BY <1>1, <1>2, <1>3, DecSound

LEMMA DropStrongSound ==
    ASSUME NEW n \in Node, n.exists, NEW linked,
           NEW h \in Nat, NEW i \in Nat, NEW s \in Nat, NEW w \in Nat,
           NEW g \in BOOLEAN, NEW open \in BOOLEAN,
           Counts(n, h, i, s + 1, w, g, open),
           Placed(n, linked, open), linked = {} => i = 0
    PROVE  Sound(DropStrong(n, linked), linked, h, i, s, w, g, open)
<1> DEFINE st == TRUE
           in == FALSE
<1>1. /\ st \in BOOLEAN /\ in \in BOOLEAN
      /\ 0 = (IF st /\ in THEN 1 ELSE 0) /\ 1 = (IF st /\ ~in THEN 1 ELSE 0)
      /\ 0 = (IF ~st /\ ~in THEN 1 ELSE 0)
      /\ i + 0 = i /\ s + 0 = s /\ w + 0 = w
  OBVIOUS
<1>2. DropStrong(n, linked) = Dec(n, st, in, linked) BY DEF DropStrong
<1> HIDE DEF st, in
<1>3. Counts(n, h, i + 0, s + 1, w + 0, g, open) BY <1>1
<1> QED BY <1>1, <1>2, <1>3, DecSound

LEMMA DropWeakSound ==
    ASSUME NEW n \in Node, n.exists, NEW linked,
           NEW h \in Nat, NEW i \in Nat, NEW s \in Nat, NEW w \in Nat,
           NEW g \in BOOLEAN, NEW open \in BOOLEAN,
           Counts(n, h, i, s, w + 1, g, open),
           Placed(n, linked, open), linked = {} => i = 0
    PROVE  Sound(DropWeak(n, linked), linked, h, i, s, w, g, open)
<1> DEFINE st == FALSE
           in == FALSE
<1>1. /\ st \in BOOLEAN /\ in \in BOOLEAN
      /\ 0 = (IF st /\ in THEN 1 ELSE 0) /\ 0 = (IF st /\ ~in THEN 1 ELSE 0)
      /\ 1 = (IF ~st /\ ~in THEN 1 ELSE 0)
      /\ i + 0 = i /\ s + 0 = s /\ w + 0 = w
  OBVIOUS
<1>2. DropWeak(n, linked) = Dec(n, st, in, linked) BY DEF DropWeak
<1> HIDE DEF st, in
<1>3. Counts(n, h, i + 0, s + 0, w + 1, g, open) BY <1>1
<1> QED BY <1>1, <1>2, <1>3, DecSound

\* What holds in a state in which the invariant does.
LEMMA Facts ==
    ASSUME IInv
    PROVE  /\ Others /\ node \in Node
           /\ Counts(node, Holders, Internal, LocalStrong, LocalWeak, mgr, Open)
           /\ Placed(node, Linked, Open)
           /\ Holders \in Nat /\ Internal \in Nat
           /\ LocalStrong \in Nat /\ LocalWeak \in Nat
           /\ mgr \in BOOLEAN /\ Open \in BOOLEAN
           /\ (Linked = {} => Internal = 0)
           /\ Holders > 0 => node.exists
           /\ Linked # {} => node.exists
           /\ mgr => Open /\ node.exists
<1>1. /\ Others /\ node \in Node
      /\ Counts(node, Holders, Internal, LocalStrong, LocalWeak, mgr, Open)
      /\ Placed(node, Linked, Open)
  BY Sorted DEF Sound
<1>2. /\ Holders \in Nat /\ Internal \in Nat
      /\ LocalStrong \in Nat /\ LocalWeak \in Nat
  BY <1>1, CountTypes
<1>3. mgr \in BOOLEAN /\ Open \in BOOLEAN /\ (mgr => Open) BY <1>1 DEF Others, Open
<1>4. Linked = {} => Internal = 0 BY <1>1, Unlinked
<1>5. ~node.exists =>
        node.tmp = 0 /\ node.localStrong = 0 /\ ~node.pendingStrong /\ Linked = {}
  BY <1>1 DEF Placed, NoNode
<1>6. Holders > 0 => node.exists BY <1>1, <1>2, <1>5 DEF Counts
<1>7. mgr => node.exists BY <1>1, <1>2, <1>3, <1>5 DEF Counts
<1> QED BY <1>1, <1>2, <1>3, <1>4, <1>5, <1>6, <1>7

\* And in the next one.
LEMMA CountTypesNext ==
    ASSUME Others'
    PROVE  /\ Holders' \in Nat /\ Internal' \in Nat
           /\ LocalStrong' \in Nat /\ LocalWeak' \in Nat
           /\ mgr' \in BOOLEAN /\ Open' \in BOOLEAN
<1>1. IsFiniteSet(Procs) BY FiniteAssumption, FS_AddElement DEF Procs
<1>2. /\ StrongRefs' \subseteq Procs /\ TmpParcels' \subseteq Parcels
      /\ TmpCalls' \subseteq Calls /\ TmpAcks' \subseteq Threads
      /\ LocalCalls' \subseteq Calls /\ StrongParcels' \subseteq Parcels
      /\ WeakParcels' \subseteq Parcels
  BY DEF StrongRefs, TmpParcels, TmpCalls, TmpAcks, LocalCalls, StrongParcels,
         WeakParcels, LocalParcels
<1>3. /\ Cardinality(TmpParcels') \in Nat /\ Cardinality(TmpCalls') \in Nat
      /\ Cardinality(TmpAcks') \in Nat /\ Cardinality(LocalCalls') \in Nat
      /\ Cardinality(StrongParcels') \in Nat /\ Cardinality(WeakParcels') \in Nat
      /\ Cardinality(StrongRefs') \in Nat
  BY <1>1, <1>2, FiniteAssumption, FS_Subset, FS_CardinalityType
<1>4. Holders' \in Nat BY <1>3 DEF Holders
<1>5. LocalStrong' \in Nat /\ LocalWeak' \in Nat /\ Internal' \in Nat
  BY <1>3 DEF LocalStrong, LocalWeak, Internal
<1>6. mgr' \in BOOLEAN /\ Open' \in BOOLEAN BY DEF Others, Open
<1> QED BY <1>4, <1>5, <1>6

\* How an action changes the node, once it is known what it does to the counts.
LEMMA AfterPut ==
    ASSUME IInv, Others', node' = Put(node, Linked),
           Linked' = Linked, Internal' = Internal, Holders' = Holders - 1,
           LocalStrong' = LocalStrong, LocalWeak' = LocalWeak,
           mgr' = mgr, Open' = Open
    PROVE  IInv'
<1>1. /\ node \in Node /\ node.exists
      /\ Counts(node, Holders' + 1, Internal', LocalStrong', LocalWeak', mgr', Open')
      /\ Placed(node, Linked', Open') /\ (Linked' = {} => Internal' = 0)
  BY Facts, CountTypesNext
<1>2. Sound(Put(node, Linked'), Linked', Holders', Internal', LocalStrong',
            LocalWeak', mgr', Open')
  BY <1>1, CountTypesNext, PutSound
<1> QED BY <1>2, SortedNext

LEMMA AfterTmp ==
    ASSUME IInv, Others', node.exists, node' = Tmp(node),
           Linked' = Linked, Internal' = Internal, Holders' = Holders + 1,
           LocalStrong' = LocalStrong, LocalWeak' = LocalWeak,
           mgr' = mgr, Open' = Open
    PROVE  IInv'
<1>1. /\ node \in Node
      /\ Sound(node, Linked, Holders, Internal, LocalStrong, LocalWeak, mgr, Open)
  BY Facts DEF Sound
<1>2. Sound(Tmp(node), Linked, Holders + 1, Internal, LocalStrong, LocalWeak, mgr,
            Open)
  BY <1>1, Facts, TmpSound
<1> QED BY <1>2, SortedNext

LEMMA AfterSame ==
    ASSUME IInv, Others', node' = node,
           Linked' = Linked, Internal' = Internal, Holders' = Holders,
           mgr' = mgr, Open' => Open,
           Open' => LocalStrong' = LocalStrong /\ LocalWeak' = LocalWeak
    PROVE  IInv'
<1>1. /\ node \in Node
      /\ Counts(node, Holders, Internal, LocalStrong, LocalWeak, mgr, Open)
      /\ Placed(node, Linked, Open)
  BY Facts
<1>2. Sound(node, Linked', Holders', Internal', LocalStrong', LocalWeak', mgr', Open')
  BY <1>1 DEF Sound, Counts, Placed, Similar
<1> QED BY <1>2, SortedNext

LEMMA AfterDropStrong ==
    ASSUME IInv, Others', node.exists, node' = DropStrong(node, Linked),
           Linked' = Linked, Internal' = Internal, Holders' = Holders,
           LocalStrong' = LocalStrong - 1, LocalWeak' = LocalWeak,
           mgr' = mgr, Open' = Open
    PROVE  IInv'
<1>1. /\ node \in Node
      /\ Counts(node, Holders', Internal', LocalStrong' + 1, LocalWeak', mgr', Open')
      /\ Placed(node, Linked', Open') /\ (Linked' = {} => Internal' = 0)
  BY Facts, CountTypesNext
<1>2. Sound(DropStrong(node, Linked'), Linked', Holders', Internal', LocalStrong',
            LocalWeak', mgr', Open')
  BY <1>1, CountTypesNext, DropStrongSound
<1> QED BY <1>2, SortedNext

LEMMA AfterDropWeak ==
    ASSUME IInv, Others', node.exists, node' = DropWeak(node, Linked),
           Linked' = Linked, Internal' = Internal, Holders' = Holders,
           LocalStrong' = LocalStrong, LocalWeak' = LocalWeak - 1,
           mgr' = mgr, Open' = Open
    PROVE  IInv'
<1>1. /\ node \in Node
      /\ Counts(node, Holders', Internal', LocalStrong', LocalWeak' + 1, mgr', Open')
      /\ Placed(node, Linked', Open') /\ (Linked' = {} => Internal' = 0)
  BY Facts, CountTypesNext
<1>2. Sound(DropWeak(node, Linked'), Linked', Holders', Internal', LocalStrong',
            LocalWeak', mgr', Open')
  BY <1>1, CountTypesNext, DropWeakSound
<1> QED BY <1>2, SortedNext

-----------------------------------------------------------------------------
(* Objects: actions that change one parcel and the node. *)

\* One parcel changes and no ref does.
LEMMA ParcelOthers ==
    ASSUME IInv, NEW x \in Parcels, NEW v \in Parcel,
           v.local => v.to = Server /\ v.st # "looked", v.st # "idle" => v.to # None,
           v.st = "found" => v.local,
           parcel' = [parcel EXCEPT ![x] = v],
           UNCHANGED <<ref, locked, call, ack, prc, mgr>>, careless' \in BOOLEAN
    PROVE  /\ Others' /\ Linked' = Linked /\ Internal' = Internal
           /\ Holders' = Holders + TmpOf(v) - TmpOf(parcel[x])
           /\ LocalStrong' = LocalStrong + StrongOf(v) - StrongOf(parcel[x])
           /\ LocalWeak' = LocalWeak + WeakOf(v) - WeakOf(parcel[x])
           /\ mgr' = mgr /\ Open' = Open
<1>1. Others BY Facts
<1>2. /\ parcel' \in [Parcels -> Parcel] /\ ParcelShape'
      /\ Holders' = Holders + TmpOf(v) - TmpOf(parcel[x])
      /\ LocalStrong' = LocalStrong + StrongOf(v) - StrongOf(parcel[x])
      /\ LocalWeak' = LocalWeak + WeakOf(v) - WeakOf(parcel[x])
      /\ Open' = Open
  BY <1>1, ParcelStep
<1>3. Linked' = Linked /\ Internal' = Internal BY RefSame
<1>4. Others' BY <1>1, <1>2 DEF Others, RefShape
<1> QED BY <1>2, <1>3, <1>4

LEMMA ParcelFacts ==
    ASSUME IInv, NEW x \in Parcels
    PROVE  /\ parcel[x] \in Parcel
           /\ parcel[x].local => parcel[x].to = Server
           /\ parcel[x].st # "idle" => parcel[x].to \in Procs
           /\ parcel[x].st = "found" => parcel[x].local
           /\ parcel[x].st = "looked" => ~parcel[x].local
           /\ TmpOf(parcel[x]) = 1 => Holders > 0
           /\ ref \in [Procs -> Ref] /\ careless \in BOOLEAN
<1>1. Others BY Facts
<1>2. /\ parcel[x] \in Parcel /\ ref \in [Procs -> Ref] /\ careless \in BOOLEAN
      /\ parcel[x].local => parcel[x].to = Server
      /\ parcel[x].st # "idle" => parcel[x].to # None
      /\ parcel[x].st = "found" => parcel[x].local
      /\ parcel[x].st = "looked" => ~parcel[x].local
  BY <1>1 DEF Others, ParcelShape
<1>3. parcel[x].st # "idle" => parcel[x].to \in Procs BY <1>2 DEF Parcel
<1>4. ASSUME TmpOf(parcel[x]) = 1 PROVE Holders > 0
  <2>1. x \in TmpParcels BY <1>4 DEF TmpOf, TmpParcels
  <2>2. IsFiniteSet(TmpParcels) BY FiniteAssumption, FS_Subset DEF TmpParcels
  <2>3. Cardinality(TmpParcels) > 0
    BY <1>1, <2>1, <2>2, FS_EmptySet, CountTypes
  <2>4. /\ Cardinality(TmpParcels) \in Nat /\ Cardinality(TmpCalls) \in Nat
        /\ Cardinality(TmpAcks) \in Nat
    BY <1>1, CountTypes
  <2> QED BY <2>3, <2>4 DEF Holders
<1> QED BY <1>2, <1>3, <1>4

LEMMA PutParcelNodeStep ==
    ASSUME IInv, NEW x \in Parcels, PutParcelNode(x) PROVE IInv'
<1> DEFINE v == IF parcel[x].st = "counted" THEN [parcel[x] EXCEPT !.st = "built"]
                ELSE NoParcel
<1>1. /\ v \in Parcel
      /\ v.local => v.to = Server
      /\ v.st # "idle" => v.to # None
      /\ v.st # "found" /\ v.st # "looked"
      /\ TmpOf(v) = 0 /\ TmpOf(parcel[x]) = 1
      /\ StrongOf(v) = StrongOf(parcel[x]) /\ WeakOf(v) = WeakOf(parcel[x])
  <2>1. CASE parcel[x].st = "counted"
    <3>1. /\ v \in Parcel /\ v.local = parcel[x].local /\ v.to = parcel[x].to
          /\ v.strong = parcel[x].strong /\ v.st = "built"
      BY <2>1, ParcelFacts DEF Parcel, ParcelStates
    <3> HIDE DEF v
    <3> QED
      BY <2>1, <3>1, ActorAssumption, ParcelFacts
      DEF Procs, TmpOf, StrongOf, WeakOf, LocalStates
  <2>2. CASE parcel[x].st # "counted"
    <3>1. v = NoParcel BY <2>2
    <3>2. parcel[x].st \in {"failed", "put"} BY <2>2 DEF PutParcelNode
    <3> HIDE DEF v
    <3> QED
      BY <3>1, <3>2 DEF NoParcel, Parcel, ParcelStates, TmpOf, StrongOf, WeakOf,
                        LocalStates
  <2> QED BY <2>1, <2>2
<1>2. /\ parcel' = [parcel EXCEPT ![x] = v] /\ node' = Put(node, Linked)
      /\ UNCHANGED <<ref, locked, call, ack, prc, mgr, careless>>
  BY DEF PutParcelNode
<1> HIDE DEF v
<1>3. StrongOf(v) \in Nat /\ WeakOf(v) \in Nat BY DEF StrongOf, WeakOf
<1>6. careless' \in BOOLEAN BY <1>2, ParcelFacts
<1>4. /\ Others' /\ Linked' = Linked /\ Internal' = Internal
      /\ Holders' = Holders + TmpOf(v) - TmpOf(parcel[x])
      /\ LocalStrong' = LocalStrong + StrongOf(v) - StrongOf(parcel[x])
      /\ LocalWeak' = LocalWeak + WeakOf(v) - WeakOf(parcel[x])
      /\ mgr' = mgr /\ Open' = Open
  BY <1>1, <1>2, <1>6, ParcelOthers
<1>5. /\ Holders' = Holders - 1 /\ LocalStrong' = LocalStrong
      /\ LocalWeak' = LocalWeak
  BY <1>1, <1>3, <1>4, Facts
<1> QED BY <1>2, <1>4, <1>5, AfterPut

\* The object is looked up: its sender is named, and the node is held.
LEMMA LookStep ==
    ASSUME IInv, NEW x \in Parcels, NEW v \in Parcel, v.st = "looked", ~v.local,
           v.to # None, parcel[x].st = "idle", node.exists, node' = Tmp(node),
           parcel' = [parcel EXCEPT ![x] = v],
           UNCHANGED <<ref, locked, call, ack, prc, mgr>>, careless' \in BOOLEAN
    PROVE  IInv'
<1>1. /\ TmpOf(v) = 1 /\ TmpOf(parcel[x]) = 0
      /\ StrongOf(v) = 0 /\ StrongOf(parcel[x]) = 0
      /\ WeakOf(v) = 0 /\ WeakOf(parcel[x]) = 0
  BY DEF TmpOf, StrongOf, WeakOf, LocalStates
<1>2. /\ Others' /\ Linked' = Linked /\ Internal' = Internal
      /\ Holders' = Holders + TmpOf(v) - TmpOf(parcel[x])
      /\ LocalStrong' = LocalStrong + StrongOf(v) - StrongOf(parcel[x])
      /\ LocalWeak' = LocalWeak + WeakOf(v) - WeakOf(parcel[x])
      /\ mgr' = mgr /\ Open' = Open
  BY ParcelOthers
<1>3. /\ Holders' = Holders + 1 /\ LocalStrong' = LocalStrong
      /\ LocalWeak' = LocalWeak
  BY <1>1, <1>2, Facts
<1> QED BY <1>2, <1>3, AfterTmp

\* A new node has one holder and nothing else.
NewNode ==
    [exists |-> TRUE, tree |-> TRUE, proc |-> TRUE,
     internal |-> 0, localStrong |-> 0, localWeak |-> 0, tmp |-> 1,
     hasStrong |-> FALSE, pendingStrong |-> FALSE,
     hasWeak |-> FALSE, pendingWeak |-> FALSE, work |-> None]

LEMMA NewNodeSound ==
    ASSUME NEW linked, NEW open \in BOOLEAN, NEW g \in BOOLEAN, ~g
    PROVE  Sound(NewNode, linked, 1, 0, 0, 0, g, open)
<1>1. NewNode \in Node BY DEF NewNode, Node
<1>2. Counts(NewNode, 1, 0, 0, 0, g, open) BY DEF Counts, NewNode
<1>3. Placed(NewNode, linked, open) BY DEF Placed, NewNode
<1> QED BY <1>1, <1>2, <1>3 DEF Sound

LEMMA SendBinderStep ==
    ASSUME IInv, NEW x \in Parcels, NEW th \in Threads, NEW p \in Procs,
           NEW strong \in BOOLEAN, SendBinder(x, th, p, strong)
    PROVE  IInv'
<1> DEFINE v == [st |-> "looked", by |-> Server, th |-> th, to |-> p,
                 strong |-> strong, local |-> FALSE]
<1>1. v \in Parcel /\ v.st = "looked" /\ ~v.local /\ v.to # None
  BY ActorAssumption DEF Parcel, ParcelStates, Procs
<1>2. /\ parcel[x].st = "idle" /\ prc[Server] = "open"
      /\ parcel' = [parcel EXCEPT ![x] = v]
      /\ UNCHANGED <<ref, locked, call, ack, prc, mgr, careless>>
  BY DEF SendBinder
<1>3. careless' \in BOOLEAN BY <1>2, ParcelFacts
<1> HIDE DEF v
<1>4. CASE node.exists
  <2>1. node' = Tmp(node) BY <1>4 DEF SendBinder
  <2> QED BY <1>1, <1>2, <1>3, <1>4, <2>1, LookStep
<1>5. CASE ~node.exists
  <2>1. node' = NewNode BY <1>5 DEF SendBinder, NoNode, NewNode
  <2>2. node = NoNode /\ Linked = {} /\ Holders = 0 /\ ~mgr /\ Open
    BY <1>2, <1>5, Facts DEF Placed, Open
  <2>3. Internal = 0 /\ LocalStrong = 0 /\ LocalWeak = 0
    BY <2>2, Facts DEF Counts, NoNode
  <2>4. /\ TmpOf(v) = 1 /\ TmpOf(parcel[x]) = 0
        /\ StrongOf(v) = 0 /\ StrongOf(parcel[x]) = 0
        /\ WeakOf(v) = 0 /\ WeakOf(parcel[x]) = 0
    BY <1>1, <1>2 DEF TmpOf, StrongOf, WeakOf, LocalStates
  <2>5. /\ Others' /\ Linked' = Linked /\ Internal' = Internal
        /\ Holders' = Holders + TmpOf(v) - TmpOf(parcel[x])
        /\ LocalStrong' = LocalStrong + StrongOf(v) - StrongOf(parcel[x])
        /\ LocalWeak' = LocalWeak + WeakOf(v) - WeakOf(parcel[x])
        /\ mgr' = mgr /\ Open' = Open
    BY <1>1, <1>2, <1>3, ParcelOthers
  <2>6. /\ Holders' = 1 /\ Internal' = 0 /\ LocalStrong' = 0 /\ LocalWeak' = 0
        /\ ~mgr' /\ mgr' \in BOOLEAN /\ Open' \in BOOLEAN
    BY <2>2, <2>3, <2>4, <2>5, Facts
  <2>7. Sound(node', Linked', Holders', Internal', LocalStrong', LocalWeak', mgr',
              Open')
    BY <2>1, <2>6, NewNodeSound
  <2> QED BY <2>5, <2>7, SortedNext
<1> QED BY <1>4, <1>5

LEMMA SendHandleStep ==
    ASSUME IInv, NEW x \in Parcels, NEW q \in Clients, NEW p \in Procs,
           NEW strong \in BOOLEAN, SendHandle(x, q, p, strong)
    PROVE  IInv'
<1> DEFINE v == [st |-> "looked", by |-> q, th |-> None, to |-> p,
                 strong |-> strong, local |-> FALSE]
<1>1. v \in Parcel /\ v.st = "looked" /\ ~v.local /\ v.to # None
  BY ActorAssumption DEF Parcel, ParcelStates, Procs
<1>2. /\ parcel[x].st = "idle" /\ node' = Tmp(node)
      /\ parcel' = [parcel EXCEPT ![x] = v]
      /\ UNCHANGED <<ref, locked, call, ack, prc, mgr>>
  BY DEF SendHandle
<1>3. careless' \in BOOLEAN BY ParcelFacts DEF SendHandle
<1>4. q \in Linked BY DEF SendHandle, Finds, Linked, Procs
<1>5. node.exists BY <1>4, Facts
<1> HIDE DEF v
<1> QED BY <1>1, <1>2, <1>3, <1>5, LookStep

\* Nothing is counted differently.
LEMMA QuietParcelStep ==
    ASSUME IInv, NEW x \in Parcels, NEW v \in Parcel,
           v.local => v.to = Server /\ v.st # "looked", v.st # "idle" => v.to # None,
           v.st = "found" => v.local,
           TmpOf(v) = TmpOf(parcel[x]), StrongOf(v) = StrongOf(parcel[x]),
           WeakOf(v) = WeakOf(parcel[x]),
           parcel' = [parcel EXCEPT ![x] = v],
           UNCHANGED <<node, ref, locked, call, ack, prc, mgr>>, careless' \in BOOLEAN
    PROVE  IInv'
<1>1. /\ Others' /\ Linked' = Linked /\ Internal' = Internal
      /\ Holders' = Holders + TmpOf(v) - TmpOf(parcel[x])
      /\ LocalStrong' = LocalStrong + StrongOf(v) - StrongOf(parcel[x])
      /\ LocalWeak' = LocalWeak + WeakOf(v) - WeakOf(parcel[x])
      /\ mgr' = mgr /\ Open' = Open
  BY ParcelOthers
<1>2. TmpOf(v) \in Nat /\ StrongOf(v) \in Nat /\ WeakOf(v) \in Nat
  BY DEF TmpOf, StrongOf, WeakOf
<1>3. Holders' = Holders /\ LocalStrong' = LocalStrong /\ LocalWeak' = LocalWeak
  BY <1>1, <1>2, Facts
<1> QED BY <1>1, <1>3, AfterSame

LEMMA HandStep ==
    ASSUME IInv, NEW x \in Parcels, Hand(x) PROVE IInv'
<1> DEFINE v == [parcel[x] EXCEPT !.st = "held", !.by = None, !.th = None]
<1>1. /\ parcel[x].st = "built" /\ parcel' = [parcel EXCEPT ![x] = v]
      /\ UNCHANGED <<node, ref, locked, call, ack, prc, mgr, careless>>
  BY ParcelFacts DEF Hand
<1>2. /\ v \in Parcel /\ v.st = "held" /\ v.local = parcel[x].local
      /\ v.to = parcel[x].to /\ v.strong = parcel[x].strong
  BY ParcelFacts DEF Parcel, ParcelStates
<1> HIDE DEF v
<1>3. /\ v.local => v.to = Server
      /\ v.st # "idle" => v.to # None
      /\ TmpOf(v) = TmpOf(parcel[x]) /\ StrongOf(v) = StrongOf(parcel[x])
      /\ WeakOf(v) = WeakOf(parcel[x])
  BY <1>1, <1>2, ParcelFacts, ActorAssumption
  DEF Procs, TmpOf, StrongOf, WeakOf, LocalStates
<1>4. careless' \in BOOLEAN BY <1>1, ParcelFacts
<1> QED BY <1>1, <1>2, <1>3, <1>4, QuietParcelStep

LEMMA FailStep ==
    ASSUME IInv, NEW x \in Parcels, Fail(x) PROVE IInv'
<1> DEFINE v == [parcel[x] EXCEPT !.st = "undo"]
<1>1. /\ parcel[x].st = "built" /\ parcel' = [parcel EXCEPT ![x] = v]
      /\ UNCHANGED <<node, ref, locked, call, ack, prc, mgr, careless>>
  BY ParcelFacts DEF Fail
<1>2. /\ v \in Parcel /\ v.st = "undo" /\ v.local = parcel[x].local
      /\ v.to = parcel[x].to /\ v.strong = parcel[x].strong
  BY ParcelFacts DEF Parcel, ParcelStates
<1> HIDE DEF v
<1>3. /\ v.local => v.to = Server
      /\ v.st # "idle" => v.to # None
      /\ TmpOf(v) = TmpOf(parcel[x]) /\ StrongOf(v) = StrongOf(parcel[x])
      /\ WeakOf(v) = WeakOf(parcel[x])
  BY <1>1, <1>2, ParcelFacts, ActorAssumption
  DEF Procs, TmpOf, StrongOf, WeakOf, LocalStates
<1>4. careless' \in BOOLEAN BY <1>1, ParcelFacts
<1> QED BY <1>1, <1>2, <1>3, <1>4, QuietParcelStep

LEMMA FreeBufferStep ==
    ASSUME IInv, NEW x \in Parcels, NEW th \in Threads \union {None},
           FreeBuffer(x, th)
    PROVE  IInv'
<1> DEFINE v == [parcel[x] EXCEPT !.st = "undo", !.by = parcel[x].to, !.th = th]
<1>1. /\ parcel[x].st = "held" /\ parcel' = [parcel EXCEPT ![x] = v]
      /\ UNCHANGED <<node, ref, locked, call, ack, prc, mgr, careless>>
  BY ParcelFacts DEF FreeBuffer
<1>2. /\ v \in Parcel /\ v.st = "undo" /\ v.local = parcel[x].local
      /\ v.to = parcel[x].to /\ v.strong = parcel[x].strong
  BY ParcelFacts DEF Parcel, ParcelStates
<1> HIDE DEF v
<1>3. /\ v.local => v.to = Server
      /\ v.st # "idle" => v.to # None
      /\ TmpOf(v) = TmpOf(parcel[x]) /\ StrongOf(v) = StrongOf(parcel[x])
      /\ WeakOf(v) = WeakOf(parcel[x])
  BY <1>1, <1>2, ParcelFacts, ActorAssumption
  DEF Procs, TmpOf, StrongOf, WeakOf, LocalStates
<1>4. careless' \in BOOLEAN BY <1>1, ParcelFacts
<1> QED BY <1>1, <1>2, <1>3, <1>4, QuietParcelStep

LEMMA TranslateNoMemStep ==
    ASSUME IInv, NEW x \in Parcels, TranslateNoMem(x) PROVE IInv'
<1> DEFINE v == [parcel[x] EXCEPT !.st = "failed"]
<1>1. /\ parcel[x].st = "looked" /\ parcel' = [parcel EXCEPT ![x] = v]
      /\ UNCHANGED <<node, ref, locked, call, ack, prc, mgr, careless>>
  BY ParcelFacts DEF TranslateNoMem
<1>2. /\ v \in Parcel /\ v.st = "failed" /\ v.local = parcel[x].local
      /\ v.to = parcel[x].to /\ v.strong = parcel[x].strong
  BY ParcelFacts DEF Parcel, ParcelStates
<1> HIDE DEF v
<1>3. /\ v.local => v.to = Server
      /\ v.st # "idle" => v.to # None
      /\ TmpOf(v) = TmpOf(parcel[x]) /\ StrongOf(v) = StrongOf(parcel[x])
      /\ WeakOf(v) = WeakOf(parcel[x])
  BY <1>1, <1>2, ParcelFacts, ActorAssumption
  DEF Procs, TmpOf, StrongOf, WeakOf, LocalStates
<1>4. careless' \in BOOLEAN BY <1>1, ParcelFacts
<1> QED BY <1>1, <1>2, <1>3, <1>4, QuietParcelStep

LEMMA ReleaseBinderStep ==
    ASSUME IInv, NEW x \in Parcels, ReleaseBinder(x) PROVE IInv'
<1>1. /\ parcel[x].st = "undo" /\ parcel[x].local
      /\ UNCHANGED <<ref, locked, call, ack, prc, mgr, careless>>
  BY DEF ReleaseBinder
<1>2. careless' \in BOOLEAN BY <1>1, ParcelFacts
<1>3. CASE node.tree
  <2> DEFINE v == [parcel[x] EXCEPT !.st = "found"]
  <2>1. parcel' = [parcel EXCEPT ![x] = v] /\ node' = Tmp(node)
    BY <1>3 DEF ReleaseBinder
  <2>2. /\ v \in Parcel /\ v.st = "found" /\ v.local = parcel[x].local
        /\ v.to = parcel[x].to /\ v.strong = parcel[x].strong
    BY ParcelFacts DEF Parcel, ParcelStates
  <2> HIDE DEF v
  <2>3. /\ v.local => v.to = Server
        /\ v.st # "idle" => v.to # None
        /\ TmpOf(v) = 1 /\ TmpOf(parcel[x]) = 0
        /\ StrongOf(v) = StrongOf(parcel[x]) /\ WeakOf(v) = WeakOf(parcel[x])
        /\ StrongOf(v) \in Nat /\ WeakOf(v) \in Nat
    BY <1>1, <2>2, ParcelFacts, ActorAssumption
    DEF Procs, TmpOf, StrongOf, WeakOf, LocalStates
  <2>4. /\ Others' /\ Linked' = Linked /\ Internal' = Internal
        /\ Holders' = Holders + TmpOf(v) - TmpOf(parcel[x])
        /\ LocalStrong' = LocalStrong + StrongOf(v) - StrongOf(parcel[x])
        /\ LocalWeak' = LocalWeak + WeakOf(v) - WeakOf(parcel[x])
        /\ mgr' = mgr /\ Open' = Open
    BY <1>1, <1>2, <2>1, <2>2, <2>3, ParcelOthers
  <2>5. Holders' = Holders + 1 /\ LocalStrong' = LocalStrong /\ LocalWeak' = LocalWeak
    BY <2>3, <2>4, Facts
  <2>6. node.exists BY <1>3, Facts DEF Placed, NoNode
  <2> QED BY <2>1, <2>4, <2>5, <2>6, AfterTmp
<1>4. CASE ~node.tree
  <2> DEFINE v == NoParcel
  <2>1. parcel' = [parcel EXCEPT ![x] = v] /\ node' = node
    BY <1>4 DEF ReleaseBinder
  <2>2. v \in Parcel /\ v.st = "idle" /\ ~v.local
    BY DEF NoParcel, Parcel, ParcelStates
  <2> HIDE DEF v
  <2>3. /\ TmpOf(v) = 0 /\ TmpOf(parcel[x]) = 0 /\ StrongOf(v) = 0 /\ WeakOf(v) = 0
        /\ StrongOf(parcel[x]) + WeakOf(parcel[x]) = 1
        /\ StrongOf(parcel[x]) \in Nat /\ WeakOf(parcel[x]) \in Nat
    BY <1>1, <2>2, ParcelFacts DEF Parcel, TmpOf, StrongOf, WeakOf, LocalStates
  <2>4. /\ Others' /\ Linked' = Linked /\ Internal' = Internal
        /\ Holders' = Holders + TmpOf(v) - TmpOf(parcel[x])
        /\ LocalStrong' = LocalStrong + StrongOf(v) - StrongOf(parcel[x])
        /\ LocalWeak' = LocalWeak + WeakOf(v) - WeakOf(parcel[x])
        /\ mgr' = mgr /\ Open' = Open
    BY <1>1, <1>2, <2>1, <2>2, ParcelOthers
  <2>5. LocalStrong > 0 \/ LocalWeak > 0
    BY <2>3, <2>4, Facts, CountTypesNext
  <2>6. ~Open
    <3>1. Open => ~node.exists BY <1>4, Facts DEF Placed
    <3>2. ~node.exists => node.localStrong = 0 /\ node.localWeak = 0
      BY Facts DEF Placed, NoNode
    <3> QED BY <2>5, <3>1, <3>2, Facts DEF Counts
  <2>7. Holders' = Holders BY <2>3, <2>4, Facts
  <2> QED BY <2>1, <2>4, <2>6, <2>7, AfterSame
<1> QED BY <1>3, <1>4

LEMMA ReleaseBinderDecStep ==
    ASSUME IInv, NEW x \in Parcels, ReleaseBinderDec(x) PROVE IInv'
<1> DEFINE v == [parcel[x] EXCEPT !.st = "put"]
<1>1. /\ parcel[x].st = "found" /\ parcel' = [parcel EXCEPT ![x] = v]
      /\ node' = Dec(node, parcel[x].strong, FALSE, Linked)
      /\ UNCHANGED <<ref, locked, call, ack, prc, mgr, careless>>
  BY ParcelFacts DEF ReleaseBinderDec
<1>2. /\ v \in Parcel /\ v.st = "put" /\ v.local = parcel[x].local
      /\ v.to = parcel[x].to /\ v.strong = parcel[x].strong
  BY ParcelFacts DEF Parcel, ParcelStates
<1> HIDE DEF v
<1>3. /\ v.local => v.to = Server
      /\ v.st # "idle" => v.to # None
      /\ TmpOf(v) = 1 /\ TmpOf(parcel[x]) = 1 /\ StrongOf(v) = 0 /\ WeakOf(v) = 0
  BY <1>1, <1>2, ParcelFacts, ActorAssumption
  DEF Procs, TmpOf, StrongOf, WeakOf, LocalStates
<1>4. careless' \in BOOLEAN BY <1>1, ParcelFacts
<1>5. /\ Others' /\ Linked' = Linked /\ Internal' = Internal
      /\ Holders' = Holders + TmpOf(v) - TmpOf(parcel[x])
      /\ LocalStrong' = LocalStrong + StrongOf(v) - StrongOf(parcel[x])
      /\ LocalWeak' = LocalWeak + WeakOf(v) - WeakOf(parcel[x])
      /\ mgr' = mgr /\ Open' = Open
  BY <1>1, <1>2, <1>3, <1>4, ParcelOthers
<1>6. Holders' = Holders /\ node.exists BY <1>3, <1>5, ParcelFacts, Facts
<1>7. CASE parcel[x].strong
  <2>1. StrongOf(parcel[x]) = 1 /\ WeakOf(parcel[x]) = 0
    BY <1>1, <1>7, ParcelFacts DEF StrongOf, WeakOf, LocalStates
  <2>2. LocalStrong' = LocalStrong - 1 /\ LocalWeak' = LocalWeak
    BY <1>3, <1>5, <2>1, Facts
  <2>3. parcel[x].strong = TRUE BY <1>7, ParcelFacts DEF Parcel
  <2>4. node' = DropStrong(node, Linked) BY <1>1, <2>3, Zenon DEF DropStrong
  <2> QED BY <1>5, <1>6, <2>2, <2>4, AfterDropStrong
<1>8. CASE ~parcel[x].strong
  <2>1. StrongOf(parcel[x]) = 0 /\ WeakOf(parcel[x]) = 1
    BY <1>1, <1>8, ParcelFacts DEF StrongOf, WeakOf, LocalStates
  <2>2. LocalStrong' = LocalStrong /\ LocalWeak' = LocalWeak - 1
    BY <1>3, <1>5, <2>1, Facts
  <2>3. parcel[x].strong = FALSE BY <1>8, ParcelFacts DEF Parcel
  <2>4. node' = DropWeak(node, Linked) BY <1>1, <2>3, Zenon DEF DropWeak
  <2> QED BY <1>5, <1>6, <2>2, <2>4, AfterDropWeak
<1> QED BY <1>7, <1>8

\* A reference is taken: by the server or a call, which cannot fail, or weakly
\* by the server.
HoldStrong(n) == Inc(n, TRUE, FALSE, None)
HoldWeak(n) == Inc(n, FALSE, FALSE, None)

LEMMA HoldStrongSound ==
    ASSUME NEW n \in Node, n.exists, NEW linked,
           NEW h \in Nat, NEW i \in Nat, NEW s \in Nat, NEW w \in Nat,
           NEW g \in BOOLEAN, NEW open \in BOOLEAN,
           Sound(n, linked, h, i, s, w, g, open)
    PROVE  /\ HoldStrong(n) \in Node /\ HoldStrong(n).exists
           /\ Sound(HoldStrong(n), linked, h, i, s + 1, w, g, open)
<1> DEFINE st == TRUE
           in == FALSE
           m == Inc(n, st, in, None)
<1>1. /\ st \in BOOLEAN /\ in \in BOOLEAN
      /\ 0 = (IF st /\ in /\ ~(st /\ IncFails(n, st, in, None)) THEN 1 ELSE 0)
      /\ 1 = (IF st /\ ~in THEN 1 ELSE 0) /\ 0 = (IF ~st /\ ~in THEN 1 ELSE 0)
      /\ i + 0 = i /\ w + 0 = w /\ None \in Threads \union {None}
  OBVIOUS
<1>2. HoldStrong(n) = m BY DEF HoldStrong
<1> HIDE DEF st, in
<1>3. /\ m \in Node /\ m.exists /\ Similar(m, n)
      /\ Counts(m, h, i + 0, s + 1, w + 0, g, open)
  BY <1>1, IncSound
<1> HIDE DEF m
<1>4. Sound(m, linked, h, i, s + 1, w, g, open)
  BY <1>1, <1>3 DEF Sound, Placed, Similar
<1> QED BY <1>2, <1>3, <1>4

LEMMA HoldWeakSound ==
    ASSUME NEW n \in Node, n.exists, NEW linked,
           NEW h \in Nat, NEW i \in Nat, NEW s \in Nat, NEW w \in Nat,
           NEW g \in BOOLEAN, NEW open \in BOOLEAN,
           Sound(n, linked, h, i, s, w, g, open)
    PROVE  /\ HoldWeak(n) \in Node /\ HoldWeak(n).exists
           /\ Sound(HoldWeak(n), linked, h, i, s, w + 1, g, open)
<1> DEFINE st == FALSE
           in == FALSE
           m == Inc(n, st, in, None)
<1>1. /\ st \in BOOLEAN /\ in \in BOOLEAN
      /\ 0 = (IF st /\ in /\ ~(st /\ IncFails(n, st, in, None)) THEN 1 ELSE 0)
      /\ 0 = (IF st /\ ~in THEN 1 ELSE 0) /\ 1 = (IF ~st /\ ~in THEN 1 ELSE 0)
      /\ i + 0 = i /\ s + 0 = s /\ None \in Threads \union {None}
  OBVIOUS
<1>2. HoldWeak(n) = m BY DEF HoldWeak
<1> HIDE DEF st, in
<1>3. /\ m \in Node /\ m.exists /\ Similar(m, n)
      /\ Counts(m, h, i + 0, s + 0, w + 1, g, open)
  BY <1>1, IncSound
<1> HIDE DEF m
<1>4. Sound(m, linked, h, i, s, w + 1, g, open)
  BY <1>1, <1>3 DEF Sound, Placed, Similar
<1> QED BY <1>2, <1>3, <1>4

LEMMA TranslateHomeStep ==
    ASSUME IInv, NEW x \in Parcels, TranslateHome(x) PROVE IInv'
<1> DEFINE v == [parcel[x] EXCEPT !.st = "counted", !.local = TRUE]
<1>1. /\ parcel[x].st = "looked" /\ parcel[x].to = Server
      /\ parcel' = [parcel EXCEPT ![x] = v]
      /\ node' = Inc(node, parcel[x].strong, FALSE, None)
      /\ UNCHANGED <<ref, locked, call, ack, prc, mgr, careless>>
  BY ParcelFacts DEF TranslateHome
<1>2. /\ v \in Parcel /\ v.st = "counted" /\ v.local
      /\ v.to = parcel[x].to /\ v.strong = parcel[x].strong
  BY ParcelFacts DEF Parcel, ParcelStates
<1> HIDE DEF v
<1>3. /\ v.to = Server /\ v.to # None
      /\ TmpOf(v) = 1 /\ TmpOf(parcel[x]) = 1
      /\ StrongOf(parcel[x]) = 0 /\ WeakOf(parcel[x]) = 0
  BY <1>1, <1>2, ActorAssumption DEF TmpOf, StrongOf, WeakOf, LocalStates
<1>4. careless' \in BOOLEAN BY <1>1, ParcelFacts
<1>5. /\ Others' /\ Linked' = Linked /\ Internal' = Internal
      /\ Holders' = Holders + TmpOf(v) - TmpOf(parcel[x])
      /\ LocalStrong' = LocalStrong + StrongOf(v) - StrongOf(parcel[x])
      /\ LocalWeak' = LocalWeak + WeakOf(v) - WeakOf(parcel[x])
      /\ mgr' = mgr /\ Open' = Open
  BY <1>1, <1>2, <1>3, <1>4, ParcelOthers
<1>6. /\ Holders' = Holders /\ node.exists /\ node \in Node
      /\ Sound(node, Linked, Holders, Internal, LocalStrong, LocalWeak, mgr, Open)
  BY <1>3, <1>5, ParcelFacts, Facts DEF Sound
<1>7. CASE parcel[x].strong
  <2>1. StrongOf(v) = 1 /\ WeakOf(v) = 0
    BY <1>2, <1>7 DEF StrongOf, WeakOf, LocalStates
  <2>2. LocalStrong' = LocalStrong + 1 /\ LocalWeak' = LocalWeak
    BY <1>3, <1>5, <2>1, Facts
  <2>3. parcel[x].strong = TRUE BY <1>7, ParcelFacts DEF Parcel
  <2>4. node' = HoldStrong(node) BY <1>1, <2>3, Zenon DEF HoldStrong
  <2>5. Sound(HoldStrong(node), Linked, Holders, Internal, LocalStrong + 1,
              LocalWeak, mgr, Open)
    BY <1>6, Facts, HoldStrongSound
  <2> QED BY <1>5, <1>6, <2>2, <2>4, <2>5, SortedNext
<1>8. CASE ~parcel[x].strong
  <2>1. StrongOf(v) = 0 /\ WeakOf(v) = 1
    BY <1>2, <1>8, ParcelFacts DEF Parcel, StrongOf, WeakOf, LocalStates
  <2>2. LocalStrong' = LocalStrong /\ LocalWeak' = LocalWeak + 1
    BY <1>3, <1>5, <2>1, Facts
  <2>3. parcel[x].strong = FALSE BY <1>8, ParcelFacts DEF Parcel
  <2>4. node' = HoldWeak(node) BY <1>1, <2>3, Zenon DEF HoldWeak
  <2>5. Sound(HoldWeak(node), Linked, Holders, Internal, LocalStrong,
              LocalWeak + 1, mgr, Open)
    BY <1>6, Facts, HoldWeakSound
  <2> QED BY <1>5, <1>6, <2>2, <2>4, <2>5, SortedNext
<1> QED BY <1>7, <1>8

-----------------------------------------------------------------------------
(* Refs: taking a reference, giving it back, and cleaning up. *)

\* The node m after a reference has been taken on n.
Taken(m, n, h, i, s, w, g, open) ==
    m \in Node /\ m.exists /\ Similar(m, n) /\ Counts(m, h, i, s, w, g, open)

TakeStrong(n, list) == Inc(n, TRUE, TRUE, list)
TakeWeak(n, list) == Inc(n, FALSE, TRUE, list)
Refused(n, list) == IncFails(n, TRUE, TRUE, list)
Accepted(n, list) == ~Refused(n, list)

LEMMA TakeStrongSound ==
    ASSUME NEW n \in Node, n.exists, NEW linked,
           NEW list \in Threads \union {None}, Accepted(n, list),
           NEW h \in Nat, NEW i \in Nat, NEW s \in Nat, NEW w \in Nat,
           NEW g \in BOOLEAN, NEW open \in BOOLEAN,
           Sound(n, linked, h, i, s, w, g, open)
    PROVE  Taken(TakeStrong(n, list), n, h, i + 1, s, w, g, open)
<1> DEFINE st == TRUE
           in == TRUE
           m == Inc(n, st, in, list)
<1>1. /\ st \in BOOLEAN /\ in \in BOOLEAN
      /\ 1 = (IF st /\ in /\ ~(st /\ IncFails(n, st, in, list)) THEN 1 ELSE 0)
      /\ 0 = (IF st /\ ~in THEN 1 ELSE 0) /\ 0 = (IF ~st /\ ~in THEN 1 ELSE 0)
      /\ s + 0 = s /\ w + 0 = w
  BY DEF Accepted, Refused
<1>2. TakeStrong(n, list) = m BY DEF TakeStrong
<1> HIDE DEF st, in
<1>3. /\ m \in Node /\ m.exists /\ Similar(m, n)
      /\ Counts(m, h, i + 1, s + 0, w + 0, g, open)
  BY <1>1, IncSound
<1> HIDE DEF m
<1> QED BY <1>1, <1>2, <1>3 DEF Taken

LEMMA TakeWeakSound ==
    ASSUME NEW n \in Node, n.exists, NEW linked,
           NEW list \in Threads \union {None},
           NEW h \in Nat, NEW i \in Nat, NEW s \in Nat, NEW w \in Nat,
           NEW g \in BOOLEAN, NEW open \in BOOLEAN,
           Sound(n, linked, h, i, s, w, g, open)
    PROVE  Taken(TakeWeak(n, list), n, h, i, s, w, g, open)
<1> DEFINE st == FALSE
           in == TRUE
           m == Inc(n, st, in, list)
<1>1. /\ st \in BOOLEAN /\ in \in BOOLEAN
      /\ 0 = (IF st /\ in /\ ~(st /\ IncFails(n, st, in, list)) THEN 1 ELSE 0)
      /\ 0 = (IF st /\ ~in THEN 1 ELSE 0) /\ 0 = (IF ~st /\ ~in THEN 1 ELSE 0)
      /\ i + 0 = i /\ s + 0 = s /\ w + 0 = w
  OBVIOUS
<1>2. TakeWeak(n, list) = m BY DEF TakeWeak
<1> HIDE DEF st, in
<1>3. /\ m \in Node /\ m.exists /\ Similar(m, n)
      /\ Counts(m, h, i + 0, s + 0, w + 0, g, open)
  BY <1>1, IncSound
<1> HIDE DEF m
<1> QED BY <1>1, <1>2, <1>3 DEF Taken

\* RefShape when one ref changes: n is the new set of locked processes.
LEMMA RefShapeNext ==
    ASSUME Others, NEW p \in Procs, NEW v \in Ref, ref' = [ref EXCEPT ![p] = v],
           ~v.on => v = NoRef, locked' \subseteq locked \union {p},
           p \in locked' => v = [on |-> TRUE, strong |-> 0, weak |-> 0]
    PROVE  RefShape' /\ locked' \subseteq Procs
<1>1. ref \in [Procs -> Ref] /\ locked \subseteq Procs /\ RefShape BY DEF Others
<1>2. ASSUME NEW q \in Procs
      PROVE  /\ ~ref'[q].on => ref'[q] = NoRef
             /\ q \in locked' => ref'[q] = [on |-> TRUE, strong |-> 0, weak |-> 0]
  <2>1. CASE q = p BY <1>1, <2>1
  <2>2. CASE q # p
    <3>1. ref'[q] = ref[q] /\ (q \in locked' => q \in locked) BY <1>1, <2>2
    <3> QED BY <1>1, <3>1 DEF RefShape
  <2> QED BY <2>1, <2>2
<1> QED BY <1>1, <1>2 DEF RefShape

LEMMA IncRefSound ==
    ASSUME IInv, node.exists, NEW p \in Procs, NEW strong \in BOOLEAN,
           NEW list \in Threads \union {None}, IncRef(p, strong, list),
           UNCHANGED locked
    PROVE  /\ ref' \in [Procs -> Ref] /\ RefShape' /\ Internal' \in Nat
           /\ Sound(node', Linked', Holders, Internal', LocalStrong, LocalWeak,
                    mgr, Open)
<1> DEFINE e == [ref[p] EXCEPT !.on = TRUE]
           v == ref'[p]
           new == Counts(node', Holders, Internal', LocalStrong, LocalWeak, mgr, Open)
<1>1. Others /\ ref \in [Procs -> Ref] /\ ref[p] \in Ref BY Facts DEF Others
<1>2. /\ e \in Ref /\ e.on /\ e.strong = ref[p].strong /\ e.weak = ref[p].weak
  BY <1>1 DEF Ref
<1>3. /\ node \in Node
      /\ Sound(node, Linked, Holders, Internal, LocalStrong, LocalWeak, mgr, Open)
      /\ Counts(node, Holders, Internal, LocalStrong, LocalWeak, mgr, Open)
  BY Facts DEF Sound
<1>4. ASSUME v \in Ref, v.on, ref' = [ref EXCEPT ![p] = v]
      PROVE  /\ ref' \in [Procs -> Ref] /\ RefShape' /\ Internal' \in Nat
             /\ Internal' = Internal + RefOf(v) - RefOf(ref[p])
             /\ Linked' = Linked \union {p}
  <2>1. p \notin locked BY DEF IncRef
  <2> HIDE DEF v
  <2>2. RefShape' BY <1>1, <1>4, <2>1, RefShapeNext
  <2> QED BY <1>1, <1>4, <2>2, RefUpdate
<1>5. ASSUME v \in Ref, v.on, ref' = [ref EXCEPT ![p] = v],
             node' \in Node, node'.exists, Similar(node', node), new
      PROVE  /\ ref' \in [Procs -> Ref] /\ RefShape' /\ Internal' \in Nat
             /\ Sound(node', Linked', Holders, Internal', LocalStrong, LocalWeak,
                      mgr, Open)
  BY <1>3, <1>4, <1>5 DEF Sound, Placed, Similar
<1>6. CASE strong /\ ref[p].strong = 0 /\ Refused(node, list)
  <2>1. /\ RefFails(p, TRUE, list) /\ Inc(node, TRUE, TRUE, list) = node
        /\ Count(ref[p], TRUE) = 0 /\ IncRef(p, TRUE, list)
    BY <1>6, Zenon DEF RefFails, Refused, Count, Inc
  <2>2. ref' = [ref EXCEPT ![p] = e] /\ node' = node
    BY <2>1, Zenon DEF IncRef
  <2>3. v = e BY <1>1, <2>2
  <2> HIDE DEF e, v
  <2>4. RefOf(v) = RefOf(ref[p]) /\ RefOf(v) \in Nat BY <1>2, <2>3 DEF RefOf
  <2>5. Internal' = Internal BY <1>2, <1>4, <2>2, <2>3, <2>4, Facts
  <2> QED BY <1>2, <1>3, <1>5, <2>2, <2>3, <2>5 DEF Similar
<1>7. CASE strong /\ ref[p].strong = 0 /\ ~Refused(node, list)
  <2>1. /\ ~RefFails(p, TRUE, list)
        /\ Count(ref[p], TRUE) = 0 /\ IncRef(p, TRUE, list)
    BY <1>7, Zenon DEF RefFails, Refused, Count
  <2>2. ref' = [ref EXCEPT ![p] = Counted(e, TRUE, 1)] /\ node' = TakeStrong(node, list)
    BY <2>1, Zenon DEF IncRef, TakeStrong
  <2>3. ref' = [ref EXCEPT ![p] = [e EXCEPT !.strong = @ + 1]]
    BY <2>2 DEF Counted
  <2>4. v = [e EXCEPT !.strong = @ + 1] BY <1>1, <2>3
  <2> HIDE DEF e, v, new
  <2>5. v \in Ref /\ v.on /\ v.strong = 1 BY <1>2, <1>7, <2>4 DEF Ref
  <2>6. RefOf(v) = 1 /\ RefOf(ref[p]) = 0 BY <1>7, <2>5 DEF RefOf
  <2>7. ref' = [ref EXCEPT ![p] = v] BY <2>3, <2>4
  <2>8. Internal' = Internal + 1 BY <1>4, <2>5, <2>6, <2>7, Facts
  <2>9. /\ node' \in Node /\ node'.exists /\ Similar(node', node)
        /\ Counts(node', Holders, Internal', LocalStrong, LocalWeak, mgr, Open)
    <3>1. /\ Holders \in Nat /\ Internal \in Nat /\ LocalStrong \in Nat
          /\ LocalWeak \in Nat /\ mgr \in BOOLEAN /\ Open \in BOOLEAN
      BY Facts
    <3>2. node' = TakeStrong(node, list) /\ ~Refused(node, list) BY <1>7, <2>2
    <3>4. /\ node \in Node /\ list \in Threads \union {None} /\ node.exists
          /\ Sound(node, Linked, Holders, Internal, LocalStrong, LocalWeak, mgr, Open)
      BY <1>3
    <3>3. Accepted(node, list) BY <3>2 DEF Accepted
    <3>5. Taken(TakeStrong(node, list), node, Holders, Internal + 1, LocalStrong,
                LocalWeak, mgr, Open)
      BY <3>1, <3>3, <3>4, TakeStrongSound
    <3> QED BY <2>8, <3>2, <3>5 DEF Taken
  <2>10. new BY <2>9 DEF new
  <2> QED BY <1>5, <2>5, <2>7, <2>9, <2>10
<1>8. CASE strong /\ ref[p].strong # 0
  <2>1. /\ ~RefFails(p, TRUE, list)
        /\ Count(ref[p], TRUE) # 0 /\ IncRef(p, TRUE, list)
    BY <1>8, Zenon DEF RefFails, Count
  <2>2. ref' = [ref EXCEPT ![p] = Counted(e, TRUE, 1)] /\ node' = node
    BY <2>1, Zenon DEF IncRef
  <2>3. ref' = [ref EXCEPT ![p] = [e EXCEPT !.strong = @ + 1]]
    BY <2>2 DEF Counted
  <2>4. v = [e EXCEPT !.strong = @ + 1] BY <1>1, <2>3
  <2> HIDE DEF e, v
  <2>5. v \in Ref /\ v.on /\ v.strong = ref[p].strong + 1
    BY <1>1, <1>2, <2>4 DEF Ref
  <2>6. RefOf(v) = 1 /\ RefOf(ref[p]) = 1 BY <1>1, <1>8, <2>5 DEF RefOf, Ref
  <2>7. ref' = [ref EXCEPT ![p] = v] BY <2>3, <2>4
  <2>8. Internal' = Internal BY <1>4, <2>5, <2>6, <2>7, Facts
  <2> QED BY <1>3, <1>5, <2>2, <2>5, <2>7, <2>8 DEF Similar
<1>9. CASE ~strong
  <2> DEFINE r == [e EXCEPT !.weak = @ + 1]
  <2>1. strong = FALSE /\ IncRef(p, FALSE, list) BY <1>9, Zenon
  <2>2. /\ node' = IF ref[p].weak = 0 THEN TakeWeak(node, list) ELSE node
        /\ ref' = [ref EXCEPT ![p] = IF RefFails(p, FALSE, list) THEN e
                                     ELSE Counted(e, FALSE, 1)]
    BY <2>1 DEF IncRef, Count, TakeWeak
  <2>3. Counted(e, FALSE, 1) = r BY DEF Counted
  <2>5. v \in {e, r} /\ ref' = [ref EXCEPT ![p] = v] BY <1>1, <2>2, <2>3
  <2> HIDE DEF e
  <2>4. r \in Ref /\ r.on /\ r.strong = e.strong BY <1>2 DEF Ref
  <2> HIDE DEF v, r, new
  <2>6. v \in Ref /\ v.on /\ v.strong = ref[p].strong BY <1>2, <2>4, <2>5
  <2>7. RefOf(v) = RefOf(ref[p]) /\ RefOf(v) \in Nat BY <2>6 DEF RefOf
  <2>8. Internal' = Internal BY <1>4, <2>5, <2>6, <2>7, Facts
  <2>9. /\ node' \in Node /\ node'.exists /\ Similar(node', node)
        /\ Counts(node', Holders, Internal, LocalStrong, LocalWeak, mgr, Open)
    <3>1. Taken(TakeWeak(node, list), node, Holders, Internal, LocalStrong,
                LocalWeak, mgr, Open)
      BY <1>3, Facts, TakeWeakSound
    <3> QED BY <1>3, <2>2, <3>1 DEF Taken, Similar
  <2>10. new BY <2>8, <2>9 DEF new
  <2> QED BY <1>5, <2>5, <2>6, <2>9, <2>10
<1> QED BY <1>6, <1>7, <1>8, <1>9

LEMMA TranslateStep ==
    ASSUME IInv, NEW x \in Parcels, Translate(x) PROVE IInv'
<1> DEFINE p == parcel[x].to
           v == [parcel[x] EXCEPT !.st = IF RefFails(p, parcel[x].strong, parcel[x].th)
                                         THEN "failed" ELSE "counted"]
<1>1. /\ parcel[x].st = "looked" /\ parcel' = [parcel EXCEPT ![x] = v]
      /\ IncRef(p, parcel[x].strong, parcel[x].th)
      /\ UNCHANGED <<locked, call, ack, prc, mgr, careless>>
  BY ParcelFacts DEF Translate
<1>2. /\ v \in Parcel /\ v.st \in {"failed", "counted"} /\ ~v.local
      /\ v.to = parcel[x].to /\ v.strong = parcel[x].strong
  BY <1>1, ParcelFacts DEF Parcel, ParcelStates
<1>3. /\ p \in Procs /\ parcel[x].strong \in BOOLEAN
      /\ parcel[x].th \in Threads \union {None}
  BY <1>1, ParcelFacts DEF Parcel
<1> HIDE DEF v
<1>4. /\ v.to # None
      /\ TmpOf(v) = 1 /\ TmpOf(parcel[x]) = 1 /\ StrongOf(v) = 0 /\ WeakOf(v) = 0
      /\ StrongOf(parcel[x]) = 0 /\ WeakOf(parcel[x]) = 0
  BY <1>1, <1>2, <1>3, ActorAssumption DEF Procs, TmpOf, StrongOf, WeakOf, LocalStates
<1>5. node.exists BY <1>4, ParcelFacts, Facts
<1>6. /\ ref' \in [Procs -> Ref] /\ RefShape' /\ Internal' \in Nat
      /\ Sound(node', Linked', Holders, Internal', LocalStrong, LocalWeak, mgr, Open)
  BY <1>1, <1>3, <1>5, IncRefSound
<1>7. Others BY Facts
<1>8. /\ parcel' \in [Parcels -> Parcel] /\ ParcelShape'
      /\ Holders' = Holders + TmpOf(v) - TmpOf(parcel[x])
      /\ LocalStrong' = LocalStrong + StrongOf(v) - StrongOf(parcel[x])
      /\ LocalWeak' = LocalWeak + WeakOf(v) - WeakOf(parcel[x])
      /\ Open' = Open
  BY <1>1, <1>2, <1>4, <1>7, ParcelStep
<1>9. Others' BY <1>1, <1>6, <1>7, <1>8 DEF Others
<1>10. /\ Holders' = Holders /\ LocalStrong' = LocalStrong /\ LocalWeak' = LocalWeak
       /\ mgr' = mgr
  BY <1>1, <1>4, <1>8, Facts
<1> QED BY <1>6, <1>8, <1>9, <1>10, SortedNext

\* Only refs, locks and the node change.
LEMMA AfterRef ==
    ASSUME IInv, ref' \in [Procs -> Ref], RefShape', locked' \subseteq Procs,
           Sound(node', Linked', Holders, Internal', LocalStrong, LocalWeak, mgr,
                 Open),
           UNCHANGED <<parcel, call, ack, prc, mgr>>, careless' \in BOOLEAN
    PROVE  IInv'
<1>1. Others BY Facts
<1>2. /\ Holders' = Holders /\ LocalStrong' = LocalStrong
      /\ LocalWeak' = LocalWeak /\ Open' = Open
  BY OthersSame
<1>3. Others' BY <1>1, <1>2 DEF Others, ParcelShape
<1> QED BY <1>2, <1>3, SortedNext

LEMMA TakeRefStep ==
    ASSUME IInv, NEW p \in Clients, NEW strong \in BOOLEAN, TakeRef(p, strong)
    PROVE  IInv'
<1>1. /\ mgr \/ Finds(p, strong)
      /\ IncRef(p, strong, None)
      /\ UNCHANGED <<locked, parcel, call, ack, prc, mgr, careless>>
  BY DEF TakeRef
<1>2. p \in Procs /\ None \in Threads \union {None} BY DEF Procs
<1>3. Finds(p, strong) => p \in Linked BY <1>2 DEF Finds, Linked
<1>4. node.exists BY <1>1, <1>3, Facts
<1>5. /\ ref' \in [Procs -> Ref] /\ RefShape'
      /\ Sound(node', Linked', Holders, Internal', LocalStrong, LocalWeak, mgr, Open)
  BY <1>1, <1>2, <1>4, IncRefSound
<1>6. locked' \subseteq Procs /\ careless' \in BOOLEAN BY <1>1, Facts DEF Others
<1> QED BY <1>1, <1>5, <1>6, AfterRef

LEMMA DecRefSound ==
    ASSUME IInv, NEW p \in Procs, NEW strong \in BOOLEAN, DecRef(p, strong)
    PROVE  /\ ref' \in [Procs -> Ref] /\ RefShape' /\ locked' \subseteq Procs
           /\ Sound(node', Linked', Holders, Internal', LocalStrong, LocalWeak,
                    mgr, Open)
<1> DEFINE v == ref'[p]
           r == ref[p]
<1>1. /\ Others /\ ref \in [Procs -> Ref] /\ r \in Ref /\ locked \subseteq Procs
      /\ RefShape
  BY Facts DEF Others
<1>2. /\ node \in Node
      /\ Sound(node, Linked, Holders, Internal, LocalStrong, LocalWeak, mgr, Open)
      /\ Counts(node, Holders, Internal, LocalStrong, LocalWeak, mgr, Open)
  BY Facts DEF Sound
<1>3. CASE ~Drops(p, strong)
  <2>1. UNCHANGED <<ref, node, locked>> BY <1>3 DEF DecRef
  <2>2. Internal' = Internal /\ Linked' = Linked BY <2>1, RefSame
  <2>3. RefShape' BY <1>1, <2>1 DEF RefShape
  <2> QED BY <1>1, <1>2, <2>1, <2>2, <2>3
<1>4. CASE Drops(p, strong)
  <2>1. /\ ref' = [ref EXCEPT ![p] = Counted(r, strong, -1)]
        /\ node' = IF strong /\ r.strong = 1 THEN Dec(node, TRUE, TRUE, Linked)
                   ELSE node
        /\ locked' = IF Empties(p, strong) THEN locked \union {p} ELSE locked
        /\ p \notin locked
    BY <1>4 DEF DecRef
  <2>2. v = Counted(r, strong, -1) BY <1>1, <2>1
  <2>3. r.on /\ Count(r, strong) > 0 BY <1>4 DEF Drops, Finds
  <2>4. /\ v \in Ref /\ v.on
        /\ v.strong = (IF strong THEN r.strong - 1 ELSE r.strong)
        /\ v.weak = (IF strong THEN r.weak ELSE r.weak - 1)
        /\ strong => r.strong > 0
    BY <1>1, <2>2, <2>3 DEF Counted, Count, Ref
  <2>5. Empties(p, strong) => v = [on |-> TRUE, strong |-> 0, weak |-> 0]
    <3> HIDE DEF v
    <3>1. Empties(p, strong) => v.strong = 0 /\ v.weak = 0
      BY <1>1, <2>4 DEF Empties, Count, Ref
    <3>2. v = [on |-> v.on, strong |-> v.strong, weak |-> v.weak] /\ v.on = TRUE
      BY <2>4 DEF Ref
    <3> QED BY <3>1, <3>2
  <2>6. ref' = [ref EXCEPT ![p] = v] BY <2>1, <2>2
  <2>7. locked' \subseteq locked \union {p} /\ (p \in locked' => Empties(p, strong))
    BY <2>1
  <2> HIDE DEF v, r
  <2>8. RefShape' /\ locked' \subseteq Procs
    BY <1>1, <2>4, <2>5, <2>6, <2>7, RefShapeNext
  <2>9. /\ ref' \in [Procs -> Ref] /\ Internal' \in Nat
        /\ Internal' = Internal + RefOf(v) - RefOf(ref[p])
        /\ Linked' = Linked \union {p}
    BY <1>1, <2>4, <2>6, RefUpdate
  <2>10. p \in Linked /\ Linked' = Linked BY <2>3, <2>9 DEF Linked, r
  <2>11. CASE strong /\ r.strong = 1
    <3>1. node' = GiveStrong(node, Linked) BY <2>1, <2>11 DEF GiveStrong
    <3>2. RefOf(v) = 0 /\ RefOf(ref[p]) = 1 BY <2>4, <2>11 DEF RefOf, r
    <3>3. Internal = Internal' + 1 BY <2>9, <3>2, Facts
    <3>4. node.exists BY <2>10, Facts
    <3>5. /\ Counts(node, Holders, Internal' + 1, LocalStrong, LocalWeak, mgr, Open)
          /\ Placed(node, Linked, Open) /\ (Linked = {} => Internal' = 0)
      BY <1>2, <2>10, <3>3, Facts
    <3>6. Sound(GiveStrong(node, Linked), Linked, Holders, Internal', LocalStrong,
                LocalWeak, mgr, Open)
      BY SMTT(30), <1>2, <2>9, <3>4, <3>5, Facts, GiveStrongSound
    <3> QED BY <2>8, <2>9, <2>10, <3>1, <3>6
  <2>12. CASE ~(strong /\ r.strong = 1)
    <3>1. node' = node BY <2>1, <2>12
    <3>2. RefOf(v) = RefOf(ref[p]) /\ RefOf(v) \in Nat
      BY <1>1, <2>4, <2>12 DEF RefOf, r, Ref
    <3>3. Internal' = Internal BY <2>9, <3>2, Facts
    <3> QED BY <1>2, <2>8, <2>9, <2>10, <3>1, <3>3
  <2> QED BY <2>11, <2>12
<1> QED BY <1>3, <1>4

LEMMA DropRefStep ==
    ASSUME IInv, NEW p \in Clients, NEW strong \in BOOLEAN, DropRef(p, strong)
    PROVE  IInv'
<1>1. /\ DecRef(p, strong) /\ UNCHANGED <<parcel, call, ack, prc, mgr>>
      /\ careless' \in BOOLEAN
  BY DEF DropRef
<1>2. p \in Procs BY DEF Procs
<1>3. /\ ref' \in [Procs -> Ref] /\ RefShape' /\ locked' \subseteq Procs
      /\ Sound(node', Linked', Holders, Internal', LocalStrong, LocalWeak, mgr, Open)
  BY <1>1, <1>2, DecRefSound
<1> QED BY <1>1, <1>3, AfterRef

LEMMA ReleaseHandleStep ==
    ASSUME IInv, NEW x \in Parcels, ReleaseHandle(x) PROVE IInv'
<1> DEFINE p == parcel[x].to
           v == IF p \in locked' THEN [parcel[x] EXCEPT !.st = "cleanup"]
                ELSE NoParcel
<1>1. /\ parcel[x].st = "undo" /\ ~parcel[x].local
      /\ parcel' = [parcel EXCEPT ![x] = v]
      /\ DecRef(p, parcel[x].strong)
      /\ UNCHANGED <<call, ack, prc, mgr>> /\ careless' \in BOOLEAN
  BY ParcelFacts DEF ReleaseHandle
<1>2. p \in Procs /\ parcel[x].strong \in BOOLEAN
  BY <1>1, ParcelFacts DEF Parcel
<1>3. v \in Parcel /\ ~v.local /\ v.st \in {"cleanup", "idle"}
      /\ (v.st # "idle" => v.to = p)
  BY <1>1, ParcelFacts DEF Parcel, ParcelStates, NoParcel
<1> HIDE DEF v
<1>4. /\ TmpOf(v) = 0 /\ StrongOf(v) = 0 /\ WeakOf(v) = 0
      /\ TmpOf(parcel[x]) = 0 /\ StrongOf(parcel[x]) = 0 /\ WeakOf(parcel[x]) = 0
  BY <1>1, <1>3 DEF TmpOf, StrongOf, WeakOf, LocalStates
<1>5. /\ ref' \in [Procs -> Ref] /\ RefShape' /\ locked' \subseteq Procs
      /\ Sound(node', Linked', Holders, Internal', LocalStrong, LocalWeak, mgr, Open)
  BY <1>1, <1>2, DecRefSound
<1>6. Others BY Facts
<1>7. v.st # "idle" => v.to # None BY <1>2, <1>3, ActorAssumption DEF Procs
<1>8. /\ parcel' \in [Parcels -> Parcel] /\ ParcelShape'
      /\ Holders' = Holders + TmpOf(v) - TmpOf(parcel[x])
      /\ LocalStrong' = LocalStrong + StrongOf(v) - StrongOf(parcel[x])
      /\ LocalWeak' = LocalWeak + WeakOf(v) - WeakOf(parcel[x])
      /\ Open' = Open
  BY <1>1, <1>3, <1>6, <1>7, ParcelStep
<1>9. Others' BY <1>1, <1>5, <1>6, <1>8 DEF Others
<1>10. /\ Holders' = Holders /\ LocalStrong' = LocalStrong /\ LocalWeak' = LocalWeak
       /\ mgr' = mgr
  BY <1>1, <1>4, <1>8, Facts
<1> QED BY <1>5, <1>8, <1>9, <1>10, SortedNext

\* The ref goes, and what it still counts for is given back first.
LEMMA CleanupSound ==
    ASSUME IInv, NEW p \in Procs, ref[p].on, CleanupRef(p),
           locked' = locked \ {p}
    PROVE  /\ ref' \in [Procs -> Ref] /\ RefShape' /\ locked' \subseteq Procs
           /\ Sound(node', Linked', Holders, Internal', LocalStrong, LocalWeak,
                    mgr, Open)
<1> DEFINE n == IF ref[p].strong > 0 THEN GiveStrong(node, Linked) ELSE node
<1>1. Others /\ ref \in [Procs -> Ref] /\ ref[p] \in Ref /\ locked \subseteq Procs
  BY Facts DEF Others
<1>2. /\ node \in Node
      /\ Sound(node, Linked, Holders, Internal, LocalStrong, LocalWeak, mgr, Open)
      /\ Counts(node, Holders, Internal, LocalStrong, LocalWeak, mgr, Open)
      /\ Placed(node, Linked, Open)
  BY Facts DEF Sound
<1>3. /\ ref' = [ref EXCEPT ![p] = NoRef]
      /\ node' = GiveWeak(n, Linked \ {p})
  BY DEF CleanupRef, GiveStrong, GiveWeak
<1>4. NoRef \in Ref /\ ~NoRef.on /\ RefOf(NoRef) = 0 BY DEF NoRef, Ref, RefOf
<1>5. p \notin locked' /\ locked' \subseteq locked \union {p} OBVIOUS
<1>6. RefShape' /\ locked' \subseteq Procs BY <1>1, <1>3, <1>4, <1>5, RefShapeNext
<1>7. /\ ref' \in [Procs -> Ref] /\ Internal' \in Nat
      /\ Internal' = Internal + RefOf(NoRef) - RefOf(ref[p])
      /\ Linked' = Linked \ {p}
  BY <1>1, <1>3, <1>4, RefUpdate
<1>8. p \in Linked /\ node.exists
  <2>1. p \in Linked BY DEF Linked
  <2> QED BY <2>1, Facts
<1>9. Sound(n, Linked, Holders, Internal', LocalStrong, LocalWeak, mgr, Open)
  <2>1. CASE ref[p].strong > 0
    <3>1. Internal = Internal' + 1 BY <1>4, <1>7, <2>1, Facts DEF RefOf
    <3>2. /\ Counts(node, Holders, Internal' + 1, LocalStrong, LocalWeak, mgr, Open)
          /\ (Linked = {} => Internal' = 0)
      BY <1>2, <1>8, <3>1
    <3>3. Sound(GiveStrong(node, Linked), Linked, Holders, Internal', LocalStrong,
                LocalWeak, mgr, Open)
      BY <1>2, <1>7, <1>8, <3>2, Facts, GiveStrongSound
    <3> QED BY <2>1, <3>3
  <2>2. CASE ~(ref[p].strong > 0)
    <3>1. Internal' = Internal BY <1>4, <1>7, <2>2, Facts DEF RefOf
    <3> QED BY <1>2, <2>2, <3>1
  <2> QED BY <2>1, <2>2
<1> HIDE DEF n
<1>10. n \in Node /\ n.exists
  BY <1>8, <1>9 DEF Sound, Placed
<1>11. /\ Counts(n, Holders, Internal', LocalStrong, LocalWeak, mgr, Open)
       /\ Placed(n, Linked', Open)
  BY <1>9, <1>10 DEF Sound, Placed
<1>12. Linked' = {} => Internal' = 0 BY <1>6, UnlinkedNext
<1>13. Sound(GiveWeak(n, Linked'), Linked', Holders, Internal', LocalStrong,
             LocalWeak, mgr, Open)
  <2>1. /\ Holders \in Nat /\ Internal' \in Nat /\ LocalStrong \in Nat
        /\ LocalWeak \in Nat /\ mgr \in BOOLEAN /\ Open \in BOOLEAN
    BY <1>7, Facts
  <2> QED BY <1>10, <1>11, <1>12, <2>1, GiveWeakSound
<1> QED BY <1>3, <1>6, <1>7, <1>13

LEMMA ReleaseRefStep ==
    ASSUME IInv, NEW p \in Procs, ReleaseRef(p) PROVE IInv'
<1>1. /\ ref[p].on /\ p \notin locked /\ CleanupRef(p)
      /\ UNCHANGED <<locked, parcel, call, ack, prc, mgr, careless>>
  BY DEF ReleaseRef
<1>2. locked' = locked \ {p} BY <1>1
<1>3. careless' \in BOOLEAN BY <1>1, Facts DEF Others
<1>4. /\ ref' \in [Procs -> Ref] /\ RefShape' /\ locked' \subseteq Procs
      /\ Sound(node', Linked', Holders, Internal', LocalStrong, LocalWeak, mgr, Open)
  BY <1>1, <1>2, CleanupSound
<1> QED BY <1>1, <1>3, <1>4, AfterRef

LEMMA FinishDecRefStep ==
    ASSUME IInv, NEW p \in Procs, FinishDecRef(p) PROVE IInv'
<1>1. /\ p \in locked /\ CleanupRef(p) /\ locked' = locked \ {p}
      /\ parcel' = [x \in Parcels |->
                      IF parcel[x].st = "cleanup" /\ parcel[x].to = p THEN NoParcel
                      ELSE parcel[x]]
      /\ UNCHANGED <<call, ack, prc, mgr, careless>>
  BY DEF FinishDecRef
<1>2. Others BY Facts
<1>3. ref[p].on BY <1>1, <1>2 DEF Others, RefShape
<1>4. /\ ref' \in [Procs -> Ref] /\ RefShape' /\ locked' \subseteq Procs
      /\ Sound(node', Linked', Holders, Internal', LocalStrong, LocalWeak, mgr, Open)
  BY <1>1, <1>3, CleanupSound
<1>5. parcel \in [Parcels -> Parcel] /\ ParcelShape BY <1>2 DEF Others
<1>6. NoParcel \in Parcel /\ ~NoParcel.local /\ NoParcel.st = "idle"
  BY DEF NoParcel, Parcel, ParcelStates
<1>7. parcel' \in [Parcels -> Parcel] /\ ParcelShape'
  BY <1>1, <1>5, <1>6 DEF ParcelShape
<1>8. /\ TmpParcels' = TmpParcels /\ StrongParcels' = StrongParcels
      /\ WeakParcels' = WeakParcels
  BY <1>1, <1>5, <1>6 DEF TmpParcels, StrongParcels, WeakParcels, LocalParcels
<1>9. /\ TmpCalls' = TmpCalls /\ TmpAcks' = TmpAcks /\ LocalCalls' = LocalCalls
  BY <1>1 DEF TmpCalls, TmpAcks, LocalCalls
<1>10. /\ Holders' = Holders /\ LocalStrong' = LocalStrong
       /\ LocalWeak' = LocalWeak /\ Open' = Open /\ mgr' = mgr
  BY <1>1, <1>8, <1>9 DEF Holders, LocalStrong, LocalWeak, Open
<1>11. Others' BY <1>1, <1>2, <1>4, <1>7, <1>10 DEF Others
<1> QED BY <1>4, <1>10, <1>11, SortedNext

-----------------------------------------------------------------------------
(* Calls. *)

LEMMA CallOthers ==
    ASSUME IInv, NEW c \in Calls, NEW v \in Call,
           call' = [call EXCEPT ![c] = v],
           UNCHANGED <<ref, locked, parcel, ack, prc, mgr, careless>>
    PROVE  /\ Others' /\ Linked' = Linked /\ Internal' = Internal
           /\ Holders' = Holders + CallTmpOf(v) - CallTmpOf(call[c])
           /\ LocalStrong' = LocalStrong + CallLocalOf(v) - CallLocalOf(call[c])
           /\ LocalWeak' = LocalWeak
           /\ mgr' = mgr /\ Open' = Open
<1>1. Others BY Facts
<1>2. /\ call' \in [Calls -> Call]
      /\ Holders' = Holders + CallTmpOf(v) - CallTmpOf(call[c])
      /\ LocalStrong' = LocalStrong + CallLocalOf(v) - CallLocalOf(call[c])
      /\ LocalWeak' = LocalWeak /\ Open' = Open
  BY <1>1, CallStep
<1>3. Linked' = Linked /\ Internal' = Internal BY RefSame
<1>4. Others' BY <1>1, <1>2 DEF Others, RefShape, ParcelShape
<1> QED BY <1>2, <1>3, <1>4

LEMMA CallFacts ==
    ASSUME IInv, NEW c \in Calls
    PROVE  /\ call \in [Calls -> Call] /\ call[c] \in Call
           /\ CallTmpOf(call[c]) = 1 => node.exists
           /\ CallLocalOf(call[c]) = 1 /\ Open => node.exists
<1>1. Others BY Facts
<1>2. call \in [Calls -> Call] /\ call[c] \in Call BY <1>1 DEF Others
<1>3. IsFiniteSet(TmpCalls) /\ IsFiniteSet(LocalCalls)
  BY FiniteAssumption, FS_Subset DEF TmpCalls, LocalCalls
<1>4. /\ Cardinality(TmpParcels) \in Nat /\ Cardinality(TmpCalls) \in Nat
      /\ Cardinality(TmpAcks) \in Nat /\ Cardinality(LocalCalls) \in Nat
      /\ Cardinality(StrongParcels) \in Nat
  BY <1>1, CountTypes
<1>5. ASSUME CallTmpOf(call[c]) = 1 PROVE node.exists
  <2>1. c \in TmpCalls BY <1>5 DEF CallTmpOf, TmpCalls
  <2>2. Cardinality(TmpCalls) > 0 BY <1>3, <1>4, <2>1, FS_EmptySet
  <2>3. Holders > 0 BY <1>4, <2>2 DEF Holders
  <2> QED BY <2>3, Facts
<1>6. ASSUME CallLocalOf(call[c]) = 1, Open PROVE node.exists
  <2>1. c \in LocalCalls BY <1>6 DEF CallLocalOf, LocalCalls
  <2>2. Cardinality(LocalCalls) > 0 BY <1>3, <1>4, <2>1, FS_EmptySet
  <2>3. LocalStrong > 0 BY <1>4, <2>2 DEF LocalStrong
  <2>4. ~node.exists => node.localStrong = 0
    BY Facts DEF Placed, NoNode
  <2> QED BY <1>6, <2>3, <2>4, Facts DEF Counts
<1> QED BY <1>2, <1>5, <1>6

LEMMA GetNodeRefsForTxnStep ==
    ASSUME IInv, NEW c \in Calls, NEW p \in Clients, GetNodeRefsForTxn(c, p)
    PROVE  IInv'
<1> DEFINE v == [st |-> "built", by |-> p]
<1>1. /\ call[c].st = "idle" /\ node.proc
      /\ node' = Tmp(HoldStrong(node))
      /\ call' = [call EXCEPT ![c] = v]
      /\ UNCHANGED <<ref, locked, parcel, ack, prc, mgr, careless>>
  BY DEF GetNodeRefsForTxn, HoldStrong
<1>2. v \in Call /\ v.st = "built" BY DEF Call, CallStates
<1> HIDE DEF v
<1>3. /\ CallTmpOf(v) = 1 /\ CallLocalOf(v) = 1
      /\ CallTmpOf(call[c]) = 0 /\ CallLocalOf(call[c]) = 0
  BY <1>1, <1>2 DEF CallTmpOf, CallLocalOf
<1>4. /\ Others' /\ Linked' = Linked /\ Internal' = Internal
      /\ Holders' = Holders + CallTmpOf(v) - CallTmpOf(call[c])
      /\ LocalStrong' = LocalStrong + CallLocalOf(v) - CallLocalOf(call[c])
      /\ LocalWeak' = LocalWeak /\ mgr' = mgr /\ Open' = Open
  BY <1>1, <1>2, CallOthers
<1>5. Holders' = Holders + 1 /\ LocalStrong' = LocalStrong + 1
  BY <1>3, <1>4, Facts
<1>6. /\ node \in Node /\ node.exists
      /\ Sound(node, Linked, Holders, Internal, LocalStrong, LocalWeak, mgr, Open)
  BY <1>1, Facts DEF Sound, Placed, NoNode
<1>7. /\ HoldStrong(node) \in Node /\ HoldStrong(node).exists
      /\ Sound(HoldStrong(node), Linked, Holders, Internal, LocalStrong + 1,
               LocalWeak, mgr, Open)
  BY <1>6, Facts, HoldStrongSound
<1>8. Sound(HoldStrong(node), Linked', Holders, Internal', LocalStrong', LocalWeak',
            mgr', Open')
  BY <1>4, <1>5, <1>7
<1>9. Sound(Tmp(HoldStrong(node)), Linked', Holders + 1, Internal', LocalStrong',
            LocalWeak', mgr', Open')
  BY <1>4, <1>7, <1>8, Facts, CountTypesNext, TmpSound
<1> QED BY <1>1, <1>4, <1>5, <1>9, SortedNext

LEMMA HandCallStep ==
    ASSUME IInv, NEW c \in Calls, HandCall(c) PROVE IInv'
<1> DEFINE v == [call[c] EXCEPT !.st = "accepted"]
<1>1. /\ call[c].st = "built" /\ call' = [call EXCEPT ![c] = v]
      /\ UNCHANGED <<node, ref, locked, parcel, ack, prc, mgr, careless>>
  BY CallFacts DEF HandCall
<1>2. v \in Call /\ v.st = "accepted" BY CallFacts DEF Call, CallStates
<1> HIDE DEF v
<1>3. /\ CallTmpOf(v) = 1 /\ CallLocalOf(v) = 1
      /\ CallTmpOf(call[c]) = 1 /\ CallLocalOf(call[c]) = 1
  BY <1>1, <1>2 DEF CallTmpOf, CallLocalOf
<1>4. /\ Others' /\ Linked' = Linked /\ Internal' = Internal
      /\ Holders' = Holders + CallTmpOf(v) - CallTmpOf(call[c])
      /\ LocalStrong' = LocalStrong + CallLocalOf(v) - CallLocalOf(call[c])
      /\ LocalWeak' = LocalWeak /\ mgr' = mgr /\ Open' = Open
  BY <1>1, <1>2, CallOthers
<1>5. Holders' = Holders /\ LocalStrong' = LocalStrong BY <1>3, <1>4, Facts
<1> QED BY <1>1, <1>4, <1>5, AfterSame

LEMMA ReleaseTargetStep ==
    ASSUME IInv, NEW c \in Calls, ReleaseTarget(c) PROVE IInv'
<1> DEFINE v == IF call[c].st = "held" THEN NoCall ELSE [call[c] EXCEPT !.st = "done"]
<1>1. /\ \/ call[c].st = "built"
         \/ call[c].st \in {"accepted", "held"} /\ Open
      /\ call' = [call EXCEPT ![c] = v] /\ node' = DropStrong(node, Linked)
      /\ UNCHANGED <<ref, locked, parcel, ack, prc, mgr, careless>>
  BY CallFacts DEF ReleaseTarget, DropStrong, Open
<1>2. v \in Call /\ v.st = (IF call[c].st = "held" THEN "idle" ELSE "done")
  BY CallFacts DEF Call, CallStates, NoCall
<1> HIDE DEF v
<1>3. /\ CallTmpOf(v) = CallTmpOf(call[c]) /\ CallTmpOf(v) \in Nat
      /\ CallLocalOf(v) = 0 /\ CallLocalOf(call[c]) = 1
  BY <1>1, <1>2 DEF CallTmpOf, CallLocalOf
<1>4. /\ Others' /\ Linked' = Linked /\ Internal' = Internal
      /\ Holders' = Holders + CallTmpOf(v) - CallTmpOf(call[c])
      /\ LocalStrong' = LocalStrong + CallLocalOf(v) - CallLocalOf(call[c])
      /\ LocalWeak' = LocalWeak /\ mgr' = mgr /\ Open' = Open
  BY <1>1, <1>2, CallOthers
<1>5. Holders' = Holders /\ LocalStrong' = LocalStrong - 1 BY <1>3, <1>4, Facts
<1>6. node.exists
  <2>1. CASE call[c].st = "built"
    <3>1. CallTmpOf(call[c]) = 1 BY <2>1 DEF CallTmpOf
    <3> QED BY <3>1, CallFacts
  <2>2. CASE Open BY <1>3, <2>2, CallFacts
  <2> QED BY <1>1, <2>1, <2>2
<1> QED BY <1>1, <1>4, <1>5, <1>6, AfterDropStrong

LEMMA PutTargetStep ==
    ASSUME IInv, NEW c \in Calls, PutTarget(c) PROVE IInv'
<1> DEFINE v == IF call[c].st = "done" THEN NoCall ELSE [st |-> "held", by |-> None]
<1>1. /\ call[c].st \in {"accepted", "done"}
      /\ call' = [call EXCEPT ![c] = v] /\ node' = Put(node, Linked)
      /\ UNCHANGED <<ref, locked, parcel, ack, prc, mgr, careless>>
  BY CallFacts DEF PutTarget
<1>2. v \in Call /\ v.st = (IF call[c].st = "done" THEN "idle" ELSE "held")
  BY DEF Call, CallStates, NoCall
<1> HIDE DEF v
<1>3. /\ CallTmpOf(v) = 0 /\ CallTmpOf(call[c]) = 1
      /\ CallLocalOf(v) = CallLocalOf(call[c]) /\ CallLocalOf(v) \in Nat
  BY <1>1, <1>2 DEF CallTmpOf, CallLocalOf
<1>4. /\ Others' /\ Linked' = Linked /\ Internal' = Internal
      /\ Holders' = Holders + CallTmpOf(v) - CallTmpOf(call[c])
      /\ LocalStrong' = LocalStrong + CallLocalOf(v) - CallLocalOf(call[c])
      /\ LocalWeak' = LocalWeak /\ mgr' = mgr /\ Open' = Open
  BY <1>1, <1>2, CallOthers
<1>5. Holders' = Holders - 1 /\ LocalStrong' = LocalStrong BY <1>3, <1>4, Facts
<1> QED BY <1>1, <1>4, <1>5, AfterPut

-----------------------------------------------------------------------------
(* The server. *)

LEMMA AckOthers ==
    ASSUME IInv, NEW th \in Threads, NEW v \in AckStates,
           ack' = [ack EXCEPT ![th] = v],
           UNCHANGED <<ref, locked, parcel, call, prc, mgr, careless>>
    PROVE  /\ Others' /\ Linked' = Linked /\ Internal' = Internal
           /\ Holders' = Holders + AckOf(v) - AckOf(ack[th])
           /\ LocalStrong' = LocalStrong /\ LocalWeak' = LocalWeak
           /\ mgr' = mgr /\ Open' = Open
<1>1. Others BY Facts
<1>2. /\ ack' \in [Threads -> AckStates]
      /\ Holders' = Holders + AckOf(v) - AckOf(ack[th])
      /\ LocalStrong' = LocalStrong /\ LocalWeak' = LocalWeak /\ Open' = Open
  BY <1>1, AckStep
<1>3. Linked' = Linked /\ Internal' = Internal BY RefSame
<1>4. Others' BY <1>1, <1>2 DEF Others, RefShape, ParcelShape
<1> QED BY <1>2, <1>3, <1>4

LEMMA AckFacts ==
    ASSUME IInv, NEW th \in Threads, ack[th] # "none"
    PROVE  node.exists
<1>1. Others BY Facts
<1>2. th \in TmpAcks /\ IsFiniteSet(TmpAcks)
  BY FiniteAssumption, FS_Subset DEF TmpAcks
<1>3. /\ Cardinality(TmpParcels) \in Nat /\ Cardinality(TmpCalls) \in Nat
      /\ Cardinality(TmpAcks) \in Nat
  BY <1>1, CountTypes
<1>4. Cardinality(TmpAcks) > 0 BY <1>2, <1>3, FS_EmptySet
<1>5. Holders > 0 BY <1>3, <1>4 DEF Holders
<1> QED BY <1>5, Facts

LEMMA DoneStep ==
    ASSUME IInv, NEW th \in Threads, NEW strong \in BOOLEAN, Done(th, strong)
    PROVE  IInv'
<1> DEFINE v == IF strong THEN "strong" ELSE "weak"
<1>1. /\ ack[th] = "none" /\ node.tree /\ node' = Tmp(node)
      /\ ack' = [ack EXCEPT ![th] = v]
      /\ UNCHANGED <<ref, locked, parcel, call, prc, mgr, careless>>
  BY DEF Done, FreeThread
<1>2. v \in AckStates /\ v # "none" BY DEF AckStates
<1> HIDE DEF v
<1>3. AckOf(v) = 1 /\ AckOf(ack[th]) = 0 BY <1>1, <1>2 DEF AckOf
<1>4. /\ Others' /\ Linked' = Linked /\ Internal' = Internal
      /\ Holders' = Holders + AckOf(v) - AckOf(ack[th])
      /\ LocalStrong' = LocalStrong /\ LocalWeak' = LocalWeak
      /\ mgr' = mgr /\ Open' = Open
  BY <1>1, <1>2, AckOthers
<1>5. Holders' = Holders + 1 BY <1>3, <1>4, Facts
<1>6. node.exists BY <1>1, Facts DEF Placed, NoNode
<1> QED BY <1>1, <1>4, <1>5, <1>6, AfterTmp

LEMMA DonePutStep ==
    ASSUME IInv, NEW th \in Threads, DonePut(th) PROVE IInv'
<1>1. /\ ack[th] = "put" /\ node' = Put(node, Linked)
      /\ ack' = [ack EXCEPT ![th] = "none"]
      /\ UNCHANGED <<ref, locked, parcel, call, prc, mgr, careless>>
  BY DEF DonePut
<1>2. "none" \in AckStates /\ AckOf("none") = 0 /\ AckOf(ack[th]) = 1
  BY <1>1 DEF AckStates, AckOf
<1>3. /\ Others' /\ Linked' = Linked /\ Internal' = Internal
      /\ Holders' = Holders + AckOf("none") - AckOf(ack[th])
      /\ LocalStrong' = LocalStrong /\ LocalWeak' = LocalWeak
      /\ mgr' = mgr /\ Open' = Open
  BY <1>1, <1>2, AckOthers
<1>4. Holders' = Holders - 1 BY <1>2, <1>3, Facts
<1> QED BY <1>1, <1>3, <1>4, AfterPut

\* The server has answered: the count it was told of is no longer promised to it.
AnsweredStrong(n) == [n EXCEPT !.pendingStrong = FALSE]
AnsweredWeak(n) == [n EXCEPT !.pendingWeak = FALSE]

LEMMA AnsweredStrongSound ==
    ASSUME NEW n \in Node, n.exists, n.pendingStrong, NEW linked,
           NEW h \in Nat, NEW i \in Nat, NEW s \in Nat, NEW w \in Nat,
           NEW g \in BOOLEAN, NEW open \in BOOLEAN,
           Counts(n, h, i, s, w, g, open), Placed(n, linked, open),
           linked = {} => i = 0
    PROVE  Sound(DropStrong(AnsweredStrong(n), linked), linked, h, i, s, w, g, open)
<1> DEFINE m == AnsweredStrong(n)
<1>1. /\ m \in Node /\ m.exists /\ m.tmp = n.tmp /\ m.internal = n.internal
      /\ m.localStrong = n.localStrong /\ m.localWeak = n.localWeak
      /\ m.pendingWeak = n.pendingWeak /\ m.pendingStrong = FALSE
      /\ m.hasStrong = n.hasStrong /\ m.hasWeak = n.hasWeak
      /\ m.tree = n.tree /\ m.proc = n.proc
  BY DEF Node, AnsweredStrong
<1> HIDE DEF m
<1>2. Counts(m, h, i, s + 1, w, g, open)
  <2>1. open => n.localStrong = s + 1 + (IF g THEN 1 ELSE 0) BY DEF Counts
  <2> QED BY <1>1, <2>1 DEF Counts
<1>3. Placed(m, linked, open) BY <1>1 DEF Placed
<1>4. Sound(DropStrong(m, linked), linked, h, i, s, w, g, open)
  BY <1>1, <1>2, <1>3, DropStrongSound
<1> QED BY <1>4 DEF m

LEMMA AnsweredWeakSound ==
    ASSUME NEW n \in Node, n.exists, n.pendingWeak, NEW linked,
           NEW h \in Nat, NEW i \in Nat, NEW s \in Nat, NEW w \in Nat,
           NEW g \in BOOLEAN, NEW open \in BOOLEAN,
           Counts(n, h, i, s, w, g, open), Placed(n, linked, open),
           linked = {} => i = 0
    PROVE  Sound(DropWeak(AnsweredWeak(n), linked), linked, h, i, s, w, g, open)
<1> DEFINE m == AnsweredWeak(n)
<1>1. /\ m \in Node /\ m.exists /\ m.tmp = n.tmp /\ m.internal = n.internal
      /\ m.localStrong = n.localStrong /\ m.localWeak = n.localWeak
      /\ m.pendingStrong = n.pendingStrong /\ m.pendingWeak = FALSE
      /\ m.hasStrong = n.hasStrong /\ m.hasWeak = n.hasWeak
      /\ m.tree = n.tree /\ m.proc = n.proc
  BY DEF Node, AnsweredWeak
<1> HIDE DEF m
<1>2. Counts(m, h, i, s, w + 1, g, open)
  <2>1. open => n.localWeak = w + 1 + (IF g THEN 1 ELSE 0) BY DEF Counts
  <2> QED BY <1>1, <2>1 DEF Counts
<1>3. Placed(m, linked, open) BY <1>1 DEF Placed
<1>4. Sound(DropWeak(m, linked), linked, h, i, s, w, g, open)
  BY <1>1, <1>2, <1>3, DropWeakSound
<1> QED BY <1>4 DEF m

LEMMA DoneDecStep ==
    ASSUME IInv, NEW th \in Threads, DoneDec(th) PROVE IInv'
<1>1. /\ ack[th] \in {"strong", "weak"}
      /\ ack' = [ack EXCEPT ![th] = "put"]
      /\ UNCHANGED <<ref, locked, parcel, call, prc, mgr, careless>>
  BY DEF DoneDec
<1>2. /\ \/ node.pendingStrong /\ node' = DropStrong(AnsweredStrong(node), Linked)
         \/ node.pendingWeak /\ node' = DropWeak(AnsweredWeak(node), Linked)
         \/ node' = node
  BY Zenon DEF DoneDec, DropStrong, DropWeak, AnsweredStrong, AnsweredWeak
<1>3. "put" \in AckStates /\ AckOf("put") = 1 /\ AckOf(ack[th]) = 1
  BY <1>1 DEF AckStates, AckOf
<1>4. /\ Others' /\ Linked' = Linked /\ Internal' = Internal
      /\ Holders' = Holders + AckOf("put") - AckOf(ack[th])
      /\ LocalStrong' = LocalStrong /\ LocalWeak' = LocalWeak
      /\ mgr' = mgr /\ Open' = Open
  BY <1>1, <1>3, AckOthers
<1>5. Holders' = Holders BY <1>3, <1>4, Facts
<1>6. node.exists BY <1>1, AckFacts
<1>7. Sound(node', Linked, Holders, Internal, LocalStrong, LocalWeak, mgr, Open)
  <2>1. CASE node.pendingStrong /\ node' = DropStrong(AnsweredStrong(node), Linked)
    <3>1. Sound(DropStrong(AnsweredStrong(node), Linked), Linked, Holders, Internal,
                LocalStrong, LocalWeak, mgr, Open)
      BY <1>6, <2>1, Facts, AnsweredStrongSound
    <3> QED BY <2>1, <3>1
  <2>2. CASE node.pendingWeak /\ node' = DropWeak(AnsweredWeak(node), Linked)
    <3>1. Sound(DropWeak(AnsweredWeak(node), Linked), Linked, Holders, Internal,
                LocalStrong, LocalWeak, mgr, Open)
      BY <1>6, <2>2, Facts, AnsweredWeakSound
    <3> QED BY <2>2, <3>1
  <2>3. CASE node' = node BY <2>3, Facts DEF Sound
  <2> QED BY <1>2, <2>1, <2>2, <2>3
<1> QED BY <1>4, <1>5, <1>7, SortedNext

\* Nothing but the node changes, and mgr.
LEMMA AfterNode ==
    ASSUME IInv, UNCHANGED <<ref, locked, parcel, call, ack, prc>>,
           mgr' \in BOOLEAN, mgr' => Open, careless' \in BOOLEAN,
           Sound(node', Linked, Holders, Internal, LocalStrong, LocalWeak, mgr', Open)
    PROVE  IInv'
<1>1. Others BY Facts
<1>2. Linked' = Linked /\ Internal' = Internal BY RefSame
<1>3. /\ Holders' = Holders /\ LocalStrong' = LocalStrong
      /\ LocalWeak' = LocalWeak /\ Open' = Open
  BY OthersSame
<1>4. Others' BY <1>1, <1>3 DEF Others, RefShape, ParcelShape
<1> QED BY <1>2, <1>3, <1>4, SortedNext

\* The node of a context manager counts for itself.
ManagerNode ==
    [exists |-> TRUE, tree |-> TRUE, proc |-> TRUE,
     internal |-> 0, localStrong |-> 1, localWeak |-> 1, tmp |-> 0,
     hasStrong |-> TRUE, pendingStrong |-> FALSE,
     hasWeak |-> TRUE, pendingWeak |-> FALSE, work |-> None]

LEMMA ManagerNodeSound ==
    ASSUME NEW linked, NEW open \in BOOLEAN, NEW g \in BOOLEAN, g
    PROVE  Sound(ManagerNode, linked, 0, 0, 0, 0, g, open)
<1>1. ManagerNode \in Node BY DEF ManagerNode, Node
<1>2. Counts(ManagerNode, 0, 0, 0, 0, g, open) BY DEF Counts, ManagerNode
<1>3. Placed(ManagerNode, linked, open) BY DEF Placed, ManagerNode
<1> QED BY <1>1, <1>2, <1>3 DEF Sound

LEMMA SetCtxMgrStep == ASSUME IInv, SetCtxMgr PROVE IInv'
<1>1. /\ Open /\ ~node.exists /\ mgr'
      /\ UNCHANGED <<ref, locked, parcel, call, ack, prc, careless>>
  BY DEF SetCtxMgr, Open
<1>2. mgr' \in BOOLEAN BY DEF SetCtxMgr
<1>3. node' = ManagerNode BY DEF SetCtxMgr, NoNode, ManagerNode
<1>4. node = NoNode /\ Holders = 0 BY <1>1, Facts DEF Placed
<1>5. Internal = 0 /\ LocalStrong = 0 /\ LocalWeak = 0
  BY <1>1, <1>4, Facts DEF Counts, NoNode
<1>6. Sound(ManagerNode, Linked, 0, 0, 0, 0, mgr', Open)
  BY <1>1, <1>2, Facts, ManagerNodeSound
<1>7. careless' \in BOOLEAN BY <1>1, Facts DEF Others
<1> QED BY <1>1, <1>2, <1>3, <1>4, <1>5, <1>6, <1>7, AfterNode

\* What the server is told it holds until it has answered.
LEMMA ToldSound ==
    ASSUME NEW n \in Node, n.exists, NEW linked,
           NEW h \in Nat, NEW i \in Nat, NEW s \in Nat, NEW w \in Nat,
           NEW g \in BOOLEAN, NEW open \in BOOLEAN,
           n.pendingStrong => n.hasStrong, n.pendingWeak => n.hasWeak,
           Counts(n, h, i, s, w, g, open), Placed(n, linked, open),
           linked = {} => i = 0
    PROVE  Sound(Told(n, linked), linked, h, i, s, w, g, open)
<1> DEFINE strong == InUseStrong(n)
           more == IF strong /\ ~n.hasStrong THEN 1 ELSE 0
           moreWeak == IF n.hasWeak THEN 0 ELSE 1
           s1 == n.localStrong + more
           w1 == n.localWeak + moreWeak
           ps == n.pendingStrong \/ (strong /\ ~n.hasStrong)
           pw == n.pendingWeak \/ ~n.hasWeak
           m == [n EXCEPT !.work = None, !.hasWeak = TRUE, !.pendingWeak = pw,
                          !.localWeak = w1, !.hasStrong = strong,
                          !.pendingStrong = ps, !.localStrong = s1]
           r == Told(n, linked)
<1>1. CASE ~InUseWeak(n, linked)
  <2>1. r = NoNode BY <1>1, Zenon DEF Told
  <2>2. Unused(n, linked) BY <1>1 DEF InUseWeak, InUseStrong, Unused
  <2>3. Settled(r, n, linked) BY <2>1, <2>2 DEF Settled
  <2> HIDE DEF r
  <2>4. Sound(r, linked, h, i, s, w, g, open) BY <2>3, SettledSound
  <2> QED BY <2>4 DEF r
<1>2. CASE InUseWeak(n, linked)
  <2>1. r = m BY <1>2, Zenon DEF Told
  <2>2. /\ s1 \in Int /\ w1 \in Int /\ ps \in BOOLEAN /\ pw \in BOOLEAN
        /\ strong \in BOOLEAN
    BY DEF Node, InUseStrong
  <2>3. open =>
          /\ n.localStrong = s + (IF n.pendingStrong THEN 1 ELSE 0) + (IF g THEN 1 ELSE 0)
          /\ n.localWeak = w + (IF n.pendingWeak THEN 1 ELSE 0) + (IF g THEN 1 ELSE 0)
          /\ n.tree /\ n.proc
    BY DEF Counts, Placed
  <2>4. open =>
          /\ s1 = s + (IF ps THEN 1 ELSE 0) + (IF g THEN 1 ELSE 0)
          /\ w1 = w + (IF pw THEN 1 ELSE 0) + (IF g THEN 1 ELSE 0)
    BY <2>3
  <2>5. open => (ps => strong)
    BY <2>3 DEF InUseStrong
  <2> HIDE DEF strong, more, moreWeak, s1, w1, ps, pw
  <2>6. /\ m \in Node /\ m.exists = n.exists /\ m.tmp = n.tmp
        /\ m.internal = n.internal /\ m.localStrong = s1 /\ m.localWeak = w1
        /\ m.pendingStrong = ps /\ m.pendingWeak = pw
        /\ m.hasStrong = strong /\ m.hasWeak = TRUE
        /\ m.tree = n.tree /\ m.proc = n.proc
    BY ZenonT(60), <2>2 DEF Node
  <2> HIDE DEF m, r
  <2>7. Counts(m, h, i, s, w, g, open) BY <2>4, <2>6 DEF Counts
  <2>8. Placed(m, linked, open) BY <2>3, <2>5, <2>6 DEF Placed
  <2>9. Sound(r, linked, h, i, s, w, g, open) BY <2>1, <2>6, <2>7, <2>8 DEF Sound
  <2> QED BY <2>9 DEF r
<1> QED BY <1>1, <1>2

LEMMA ReadNodeStep ==
    ASSUME IInv, NEW th \in Threads, ReadNode(th) PROVE IInv'
<1>1. /\ Open /\ node.work \in {th, "proc"} /\ node' = Told(node, Linked)
      /\ UNCHANGED <<ref, locked, parcel, call, ack, prc, mgr, careless>>
  BY DEF ReadNode, Open
<1>2. node.exists
  <2>1. ~node.exists => node.work = None BY Facts DEF Placed, NoNode
  <2> QED BY <1>1, <2>1, ActorAssumption
<1>3. Sound(Told(node, Linked), Linked, Holders, Internal, LocalStrong, LocalWeak,
            mgr, Open)
  <2>1. /\ node.pendingStrong => node.hasStrong
        /\ node.pendingWeak => node.hasWeak
    BY <1>1, <1>2, Facts DEF Placed
  <2> QED BY <1>2, <2>1, Facts, ToldSound
<1>4. mgr' \in BOOLEAN /\ (mgr' => Open) /\ careless' \in BOOLEAN
  BY <1>1, Facts DEF Others
<1> QED BY <1>1, <1>3, <1>4, AfterNode

LEMMA ThreadExitStep ==
    ASSUME IInv, NEW th \in Threads, ThreadExit(th) PROVE IInv'
<1>1. /\ Open /\ node.work = th /\ node' = [node EXCEPT !.work = None]
      /\ UNCHANGED <<ref, locked, parcel, call, ack, prc, mgr>> /\ careless' = TRUE
  BY DEF ThreadExit, Open
<1>2. node.exists
  <2>1. ~node.exists => node.work = None BY Facts DEF Placed, NoNode
  <2>2. node.work = th BY <1>1
  <2> QED BY <2>1, <2>2, ActorAssumption
<1>3. node \in Node BY Facts
<1>4. /\ node' \in Node /\ node'.exists /\ node'.tmp = node.tmp
      /\ node'.internal = node.internal
      /\ node'.localStrong = node.localStrong /\ node'.localWeak = node.localWeak
      /\ Similar(node', node)
  BY <1>1, <1>2, <1>3 DEF Node, Similar
<1>5. Sound(node', Linked, Holders, Internal, LocalStrong, LocalWeak, mgr, Open)
  BY <1>2, <1>4, Facts DEF Sound, Counts, Placed, Similar
<1>6. mgr' \in BOOLEAN /\ (mgr' => Open) /\ careless' \in BOOLEAN
  BY <1>1, Facts
<1> QED BY <1>1, <1>5, <1>6, AfterNode

-----------------------------------------------------------------------------
(* The release of a process. *)

PrcOf(s) == IF s \in {"erased", "put"} THEN 1 ELSE 0
Stages == {"open", "dead", "erased", "put", "refs", "released"}

\* One process moves on in its release.
LEMMA PrcStep ==
    ASSUME IInv, NEW p \in Procs, NEW s \in Stages, prc' = [prc EXCEPT ![p] = s],
           UNCHANGED <<ref, locked, parcel, call, ack, mgr, careless>>,
           prc[p] # "open", s # "open"
    PROVE  /\ Others' /\ Linked' = Linked /\ Internal' = Internal
           /\ p = Server => Holders' = Holders + PrcOf(s) - PrcOf(prc[p])
           /\ p # Server => Holders' = Holders
           /\ LocalStrong' = LocalStrong /\ LocalWeak' = LocalWeak
           /\ mgr' = mgr /\ Open' = Open /\ (p = Server => ~Open)
<1>1. Others BY Facts
<1>2. prc \in [Procs -> Stages] /\ Server \in Procs
  BY <1>1 DEF Others, Stages, Procs
<1>3. prc' \in [Procs -> Stages] BY <1>2
<1>4. prc'[Server] = IF p = Server THEN s ELSE prc[Server] BY <1>2
<1>5. Open' = Open /\ (p = Server => ~Open) BY <1>4 DEF Open
<1>6. Linked' = Linked /\ Internal' = Internal BY RefSame
<1>7. /\ TmpParcels' = TmpParcels /\ TmpCalls' = TmpCalls /\ TmpAcks' = TmpAcks
      /\ LocalCalls' = LocalCalls
      /\ StrongParcels' = StrongParcels /\ WeakParcels' = WeakParcels
  BY DEF TmpParcels, LocalParcels, TmpCalls, LocalCalls, TmpAcks, StrongParcels,
         WeakParcels
<1>8. LocalStrong' = LocalStrong /\ LocalWeak' = LocalWeak
  BY <1>7 DEF LocalStrong, LocalWeak
<1>9. /\ Cardinality(TmpParcels) \in Nat /\ Cardinality(TmpCalls) \in Nat
      /\ Cardinality(TmpAcks) \in Nat
  BY <1>1, CountTypes
<1>10. /\ Holders = Cardinality(TmpParcels) + Cardinality(TmpCalls)
                      + Cardinality(TmpAcks) + PrcOf(prc[Server])
       /\ Holders' = Cardinality(TmpParcels) + Cardinality(TmpCalls)
                      + Cardinality(TmpAcks) + PrcOf(prc'[Server])
  BY <1>7 DEF Holders, PrcOf
<1>11. PrcOf(prc[Server]) \in Nat /\ PrcOf(prc'[Server]) \in Nat BY DEF PrcOf
<1>12. /\ p = Server => Holders' = Holders + PrcOf(s) - PrcOf(prc[p])
       /\ p # Server => Holders' = Holders
  BY <1>4, <1>9, <1>10, <1>11
<1>13. Others' BY <1>1, <1>3, <1>5 DEF Others, Stages, RefShape, ParcelShape
<1> QED BY <1>5, <1>6, <1>8, <1>12, <1>13

LEMMA ReleaseDoneStep ==
    ASSUME IInv, NEW p \in Procs, ReleaseDone(p) PROVE IInv'
<1>1. /\ prc[p] = "refs" /\ prc' = [prc EXCEPT ![p] = "released"]
      /\ UNCHANGED <<node, ref, locked, parcel, call, ack, mgr, careless>>
  BY DEF ReleaseDone
<1>2. "released" \in Stages /\ PrcOf("released") = 0 /\ PrcOf(prc[p]) = 0
  BY <1>1 DEF Stages, PrcOf
<1>3. /\ Others' /\ Linked' = Linked /\ Internal' = Internal
      /\ p = Server => Holders' = Holders + PrcOf("released") - PrcOf(prc[p])
      /\ p # Server => Holders' = Holders
      /\ LocalStrong' = LocalStrong /\ LocalWeak' = LocalWeak
      /\ mgr' = mgr /\ Open' = Open
  BY <1>1, <1>2, PrcStep
<1>4. Holders' = Holders BY <1>2, <1>3, Facts
<1> QED BY <1>1, <1>3, <1>4, AfterSame

LEMMA NodeReleasePutStep == ASSUME IInv, NodeReleasePut PROVE IInv'
<1>1. /\ prc[Server] = "put" /\ prc' = [prc EXCEPT ![Server] = "refs"]
      /\ node' = Put(node, Linked)
      /\ UNCHANGED <<ref, locked, parcel, call, ack, mgr, careless>>
  BY DEF NodeReleasePut
<1>2. /\ "refs" \in Stages /\ PrcOf("refs") = 0 /\ PrcOf(prc[Server]) = 1
      /\ Server \in Procs
  BY <1>1 DEF Stages, PrcOf, Procs
<1>3. /\ Others' /\ Linked' = Linked /\ Internal' = Internal
      /\ Holders' = Holders + PrcOf("refs") - PrcOf(prc[Server])
      /\ LocalStrong' = LocalStrong /\ LocalWeak' = LocalWeak
      /\ mgr' = mgr /\ Open' = Open
  BY <1>1, <1>2, PrcStep
<1>4. Holders' = Holders - 1 BY <1>2, <1>3, Facts
<1> QED BY <1>1, <1>3, <1>4, AfterPut

LEMMA EraseNodeStep == ASSUME IInv, EraseNode PROVE IInv'
<1> DEFINE s == IF node.exists THEN "erased" ELSE "refs"
           m == Tmp(node)
           e == [m EXCEPT !.tree = FALSE]
<1>1. /\ prc[Server] = "dead" /\ prc' = [prc EXCEPT ![Server] = s]
      /\ node' = IF node.exists THEN e ELSE node
      /\ UNCHANGED <<ref, locked, parcel, call, ack, mgr, careless>>
  BY DEF EraseNode
<1>2. /\ s \in Stages /\ s # "open" /\ PrcOf(prc[Server]) = 0 /\ Server \in Procs
      /\ PrcOf(s) = (IF node.exists THEN 1 ELSE 0)
  BY <1>1 DEF Stages, PrcOf, Procs
<1> HIDE DEF s
<1>3. /\ Others' /\ Linked' = Linked /\ Internal' = Internal
      /\ Holders' = Holders + PrcOf(s) - PrcOf(prc[Server])
      /\ LocalStrong' = LocalStrong /\ LocalWeak' = LocalWeak
      /\ mgr' = mgr /\ Open' = Open /\ ~Open
  BY <1>1, <1>2, PrcStep
<1>4. CASE ~node.exists
  <2>1. Holders' = Holders /\ node' = node BY <1>1, <1>2, <1>3, <1>4, Facts
  <2> QED BY <1>3, <2>1, AfterSame
<1>5. CASE node.exists
  <2>1. Holders' = Holders + 1 /\ node' = e BY <1>1, <1>2, <1>3, <1>5, Facts
  <2>2. /\ node \in Node
        /\ Sound(node, Linked, Holders, Internal, LocalStrong, LocalWeak, mgr, Open)
    BY Facts DEF Sound
  <2>3. /\ Sound(m, Linked, Holders + 1, Internal, LocalStrong, LocalWeak, mgr, Open)
        /\ m.exists
    BY <1>5, <2>2, Facts, TmpSound
  <2> HIDE DEF m
  <2>4. e \in Node /\ e.exists /\ e.tmp = m.tmp /\ e.internal = m.internal
    BY <2>3 DEF Sound, Node
  <2>5. Sound(e, Linked, Holders + 1, Internal, LocalStrong, LocalWeak, mgr, Open)
    BY <1>3, <2>3, <2>4 DEF Sound, Counts, Placed
  <2> QED BY <1>3, <2>1, <2>5, SortedNext
<1> QED BY <1>4, <1>5

LEMMA NodeReleaseStep == ASSUME IInv, NodeRelease PROVE IInv'
<1>1. prc[Server] = "erased" /\ Server \in Procs BY DEF NodeRelease, Procs
<1>2. PrcOf(prc[Server]) = 1 BY <1>1 DEF PrcOf
<1>3. CASE Linked = {} /\ node.tmp = 1
  <2>1. /\ node' = NoNode /\ prc' = [prc EXCEPT ![Server] = "refs"]
        /\ UNCHANGED <<ref, locked, parcel, call, ack, mgr, careless>>
    BY <1>3 DEF NodeRelease
  <2>2. "refs" \in Stages /\ PrcOf("refs") = 0 BY DEF Stages, PrcOf
  <2>3. /\ Others' /\ Linked' = Linked /\ Internal' = Internal
        /\ Holders' = Holders + PrcOf("refs") - PrcOf(prc[Server])
        /\ Open' = Open /\ ~Open
    BY <1>1, <2>1, <2>2, PrcStep
  <2>4. Holders = 1 /\ Internal = 0 BY <1>3, Facts DEF Counts
  <2>5. Holders' = 0 /\ Internal' = 0 /\ ~Open' /\ Linked' = {}
    BY <1>2, <1>3, <2>2, <2>3, <2>4
  <2>6. NoNode \in Node BY DEF NoNode, Node
  <2>7. Counts(NoNode, Holders', Internal', LocalStrong', LocalWeak', mgr', Open')
    BY <2>5 DEF Counts, NoNode
  <2>8. Placed(NoNode, Linked', Open') BY <2>5 DEF Placed, NoNode
  <2>9. Sound(node', Linked', Holders', Internal', LocalStrong', LocalWeak', mgr',
              Open')
    BY <2>1, <2>6, <2>7, <2>8 DEF Sound
  <2> QED BY <2>3, <2>9, SortedNext
<1>4. CASE ~(Linked = {} /\ node.tmp = 1)
  <2>1. /\ node' = [node EXCEPT !.proc = FALSE, !.work = None,
                                !.localStrong = 0, !.localWeak = 0]
        /\ prc' = [prc EXCEPT ![Server] = "put"]
        /\ UNCHANGED <<ref, locked, parcel, call, ack, mgr, careless>>
    BY <1>4 DEF NodeRelease
  <2>2. "put" \in Stages /\ PrcOf("put") = 1 BY DEF Stages, PrcOf
  <2>3. /\ Others' /\ Linked' = Linked /\ Internal' = Internal
        /\ Holders' = Holders + PrcOf("put") - PrcOf(prc[Server])
        /\ Open' = Open /\ ~Open
    BY <1>1, <2>1, <2>2, PrcStep
  <2>4. Holders' = Holders BY <1>2, <2>2, <2>3, Facts
  <2>5. node.exists
    <3>1. Others BY Facts
    <3>2. /\ Cardinality(TmpParcels) \in Nat /\ Cardinality(TmpCalls) \in Nat
          /\ Cardinality(TmpAcks) \in Nat
      BY <3>1, CountTypes
    <3>3. Holders > 0 BY <1>1, <3>2 DEF Holders
    <3> QED BY <3>3, Facts
  <2>6. /\ node' \in Node /\ node'.exists /\ node'.tmp = node.tmp
        /\ node'.internal = node.internal
    <3> DEFINE no == FALSE
               zero == 0
               list == None
               m == [node EXCEPT !.proc = no, !.work = list,
                                 !.localStrong = zero, !.localWeak = zero]
    <3>1. node' = m BY <2>1
    <3>2. /\ node \in Node /\ no \in BOOLEAN /\ zero \in Int
          /\ list \in Threads \union {"proc", None}
      BY Facts
    <3> HIDE DEF no, zero, list
    <3>3. /\ m \in Node /\ m.exists = node.exists /\ m.tmp = node.tmp
          /\ m.internal = node.internal
      BY <3>2 DEF Node
    <3> QED BY <2>5, <3>1, <3>3
  <2>7. Sound(node', Linked', Holders', Internal', LocalStrong', LocalWeak', mgr',
              Open')
    BY <2>3, <2>4, <2>6, Facts DEF Sound, Counts, Placed
  <2> QED BY <2>3, <2>7, SortedNext
<1> QED BY <1>3, <1>4

LEMMA CloseStep == ASSUME IInv, NEW p \in Procs, Close(p) PROVE IInv'
<1> DEFINE s == IF p = Server /\ node.exists THEN "dead" ELSE "refs"
<1>1. /\ prc[p] = "open" /\ prc' = [prc EXCEPT ![p] = s]
      /\ parcel' = [x \in Parcels |->
                      IF parcel[x].st = "held" /\ parcel[x].to = p THEN NoParcel
                      ELSE parcel[x]]
      /\ UNCHANGED <<ref, locked, ack, careless>>
  BY DEF Close
<1>2. s \in Stages /\ s \notin {"open", "erased", "put"} BY DEF Stages
<1> HIDE DEF s
<1>3. Others /\ Server \in Procs BY Facts DEF Procs
<1>4. prc' \in [Procs -> Stages] BY <1>1, <1>2, <1>3 DEF Others, Stages
<1>5. parcel \in [Parcels -> Parcel] /\ ParcelShape BY <1>3 DEF Others
<1>6. NoParcel \in Parcel /\ ~NoParcel.local /\ NoParcel.st = "idle"
  BY DEF NoParcel, Parcel, ParcelStates
<1>7. parcel' \in [Parcels -> Parcel] /\ ParcelShape'
  BY <1>1, <1>5, <1>6 DEF ParcelShape
<1>8. TmpParcels' = TmpParcels
  BY <1>1, <1>5, <1>6 DEF TmpParcels
<1>9. TmpAcks' = TmpAcks BY <1>1 DEF TmpAcks
<1>10. Linked' = Linked /\ Internal' = Internal BY <1>1, RefSame
<1>11. PrcOf(prc'[Server]) = PrcOf(prc[Server])
  BY <1>1, <1>2, <1>3, <1>4 DEF Others, Stages, PrcOf
<1>12. CASE p = Server
  <2>1. /\ node' = [node EXCEPT !.work = IF @ \in Threads THEN None ELSE @]
        /\ call' = [c \in Calls |->
                      CASE call[c].st = "held" -> NoCall
                        [] call[c].st = "accepted" -> [call[c] EXCEPT !.st = "done"]
                        [] OTHER -> call[c]]
        /\ mgr' = FALSE
    BY <1>12 DEF Close
  <2>2. call \in [Calls -> Call] BY <1>3 DEF Others
  <2>3. ASSUME NEW c \in Calls
        PROVE  /\ call'[c] \in Call
               /\ call'[c].st \in {"built", "accepted", "done"}
                    <=> call[c].st \in {"built", "accepted", "done"}
    <3>1. call[c] \in Call BY <2>2
    <3>2. CASE call[c].st = "held"
      <4>1. call'[c] = NoCall BY <2>1, <3>2
      <4> QED BY <3>2, <4>1 DEF NoCall, Call, CallStates
    <3>3. CASE call[c].st = "accepted"
      <4>1. call'[c] = [call[c] EXCEPT !.st = "done"] BY <2>1, <3>3
      <4> QED BY <3>1, <3>3, <4>1 DEF Call, CallStates
    <3>4. CASE call[c].st \notin {"held", "accepted"}
      <4>1. call'[c] = call[c] BY <2>1, <3>4
      <4> QED BY <3>1, <4>1
    <3> QED BY <3>2, <3>3, <3>4
  <2>4. call' \in [Calls -> Call]
    <3>1. call' = [c \in Calls |-> call'[c]] BY <2>1
    <3> QED BY <2>3, <3>1
  <2>5. TmpCalls' = TmpCalls BY <2>3 DEF TmpCalls
  <2>6. Holders' = Holders
    BY <1>8, <1>9, <1>11, <2>5 DEF Holders, PrcOf
  <2>7. ~Open' BY <1>1, <1>2, <1>3, <1>12 DEF Open, Others
  <2>8. Others' BY <1>1, <1>3, <1>4, <1>7, <2>1, <2>4 DEF Others, Stages, RefShape
  <2>9. /\ node' \in Node /\ node'.exists = node.exists /\ node'.tmp = node.tmp
        /\ node'.internal = node.internal
    BY <2>1, Facts DEF Node
  <2>10. ~node.exists => node' = NoNode /\ Linked = {}
    <3>1. ~node.exists => node = NoNode /\ Linked = {} BY Facts DEF Placed
    <3>2. NoNode.work \notin Threads BY ActorAssumption DEF NoNode
    <3>3. node = NoNode => node' = NoNode BY <2>1, <3>2 DEF NoNode
    <3> QED BY <3>1, <3>3
  <2>11. Counts(node', Holders', Internal', LocalStrong', LocalWeak', mgr', Open')
    BY <1>10, <2>6, <2>7, <2>9, Facts DEF Counts
  <2>12. Placed(node', Linked', Open')
    BY <1>10, <2>7, <2>9, <2>10 DEF Placed
  <2> QED BY <2>8, <2>9, <2>11, <2>12, SortedNext DEF Sound
<1>13. CASE p # Server
  <2>1. UNCHANGED <<node, call, mgr>> BY <1>13 DEF Close
  <2>2. StrongParcels' = StrongParcels /\ WeakParcels' = WeakParcels
    BY <1>1, <1>5, <1>6, <1>13
    DEF StrongParcels, WeakParcels, LocalParcels, ParcelShape
  <2>3. TmpCalls' = TmpCalls /\ LocalCalls' = LocalCalls
    BY <2>1 DEF TmpCalls, LocalCalls
  <2>4. Holders' = Holders BY <1>8, <1>9, <1>11, <2>3 DEF Holders, PrcOf
  <2>5. LocalStrong' = LocalStrong /\ LocalWeak' = LocalWeak
    BY <2>2, <2>3 DEF LocalStrong, LocalWeak
  <2>6. Open' = Open BY <1>1, <1>3, <1>13 DEF Open, Others
  <2>7. Others'
    BY <1>1, <1>3, <1>4, <1>7, <2>1, <2>6 DEF Others, Stages, RefShape
  <2> QED BY <1>10, <2>1, <2>4, <2>5, <2>6, <2>7, AfterSame
<1> QED BY <1>12, <1>13

-----------------------------------------------------------------------------
(* The specification. *)

LEMMA InitIInv == Init => IInv
<1> SUFFICES ASSUME Init PROVE IInv
  OBVIOUS
<1>1. /\ node = NoNode /\ ref = [p \in Procs |-> NoRef] /\ locked = {}
      /\ parcel = [x \in Parcels |-> NoParcel]
      /\ call = [c \in Calls |-> NoCall]
      /\ ack = [th \in Threads |-> "none"]
      /\ prc = [p \in Procs |-> "open"] /\ mgr = FALSE /\ careless = FALSE
  BY DEF Init
<1>2. Server \in Procs BY DEF Procs
<1>3. /\ NoNode \in Node /\ NoRef \in Ref /\ NoParcel \in Parcel /\ NoCall \in Call
      /\ "none" \in AckStates
  BY DEF NoNode, Node, NoRef, Ref, NoParcel, Parcel, ParcelStates, NoCall, Call,
         CallStates, AckStates
<1>4. RefShape BY <1>1 DEF RefShape, NoRef
<1>5. ParcelShape BY <1>1 DEF ParcelShape, NoParcel
<1>6. Others BY <1>1, <1>3, <1>4, <1>5 DEF Others
<1>7. /\ StrongRefs = {} /\ TmpParcels = {} /\ TmpCalls = {} /\ TmpAcks = {}
      /\ LocalCalls = {} /\ StrongParcels = {} /\ WeakParcels = {} /\ Linked = {}
  BY <1>1 DEF StrongRefs, TmpParcels, TmpCalls, TmpAcks, LocalCalls, StrongParcels,
              WeakParcels, LocalParcels, Linked, NoRef, NoParcel, NoCall
<1>8. Holders = 0 /\ Internal = 0 /\ LocalStrong = 0 /\ LocalWeak = 0
  BY <1>1, <1>2, <1>7, FS_EmptySet
  DEF Holders, Internal, LocalStrong, LocalWeak
<1>9. Counts(node, Holders, Internal, LocalStrong, LocalWeak, mgr, Open)
  BY <1>1, <1>8 DEF Counts, NoNode
<1>10. Placed(node, Linked, Open) BY <1>1, <1>7 DEF Placed, NoNode
<1> QED BY <1>1, <1>3, <1>6, <1>9, <1>10, Sorted DEF Sound

LEMMA StutterIInv == ASSUME IInv, UNCHANGED vars PROVE IInv'
<1>1. UNCHANGED <<node, ref, locked, parcel, call, ack, prc, mgr, careless>>
  BY DEF vars
<1>2. Linked' = Linked /\ Internal' = Internal BY <1>1, RefSame
<1>3. /\ Holders' = Holders /\ LocalStrong' = LocalStrong
      /\ LocalWeak' = LocalWeak /\ Open' = Open
  BY <1>1, OthersSame
<1>4. Others' BY <1>1, <1>3, Facts DEF Others, RefShape, ParcelShape
<1> QED BY <1>1, <1>2, <1>3, <1>4, AfterSame

LEMMA ObjectsIInv == ASSUME IInv, Objects PROVE IInv'
<1>1. PICK x \in Parcels :
        \/ \E strong \in BOOLEAN, p \in Procs :
             \/ \E th \in Threads : SendBinder(x, th, p, strong)
             \/ \E q \in Clients : SendHandle(x, q, p, strong)
        \/ TranslateHome(x) \/ Translate(x) \/ TranslateNoMem(x)
        \/ Hand(x) \/ Fail(x)
        \/ \E th \in Threads \union {None} : FreeBuffer(x, th)
        \/ ReleaseHandle(x) \/ ReleaseBinder(x) \/ ReleaseBinderDec(x)
        \/ PutParcelNode(x)
  BY DEF Objects
<1>2. ASSUME NEW strong \in BOOLEAN, NEW p \in Procs, NEW th \in Threads,
             SendBinder(x, th, p, strong)
      PROVE  IInv'
  BY <1>2, SendBinderStep
<1>3. ASSUME NEW strong \in BOOLEAN, NEW p \in Procs, NEW q \in Clients,
             SendHandle(x, q, p, strong)
      PROVE  IInv'
  BY <1>3, SendHandleStep
<1>4. ASSUME NEW th \in Threads \union {None}, FreeBuffer(x, th) PROVE IInv'
  BY <1>4, FreeBufferStep
<1>5. CASE TranslateHome(x) \/ Translate(x) \/ TranslateNoMem(x)
  BY <1>5, TranslateHomeStep, TranslateStep, TranslateNoMemStep
<1>6. CASE Hand(x) \/ Fail(x) BY <1>6, HandStep, FailStep
<1>7. CASE ReleaseHandle(x) \/ ReleaseBinder(x) \/ ReleaseBinderDec(x)
             \/ PutParcelNode(x)
  BY <1>7, ReleaseHandleStep, ReleaseBinderStep, ReleaseBinderDecStep,
     PutParcelNodeStep
<1> QED BY <1>1, <1>2, <1>3, <1>4, <1>5, <1>6, <1>7

LEMMA NextIInv == ASSUME IInv, Next PROVE IInv'
<1>1. CASE Objects BY <1>1, ObjectsIInv
<1>2. ASSUME NEW p \in Procs, FinishDecRef(p) PROVE IInv'
  BY <1>2, FinishDecRefStep
<1>3. ASSUME NEW p \in Clients, NEW strong \in BOOLEAN,
             TakeRef(p, strong) \/ DropRef(p, strong)
      PROVE  IInv'
  BY <1>3, TakeRefStep, DropRefStep
<1>4. ASSUME NEW c \in Calls, NEW p \in Clients, GetNodeRefsForTxn(c, p)
      PROVE  IInv'
  BY <1>4, GetNodeRefsForTxnStep
<1>5. ASSUME NEW c \in Calls, HandCall(c) \/ ReleaseTarget(c) \/ PutTarget(c)
      PROVE  IInv'
  BY <1>5, HandCallStep, ReleaseTargetStep, PutTargetStep
<1>6. CASE SetCtxMgr BY <1>6, SetCtxMgrStep
<1>7. ASSUME NEW th \in Threads, ServerThread(th) PROVE IInv'
  <2>1. ASSUME NEW strong \in BOOLEAN, Done(th, strong) PROVE IInv'
    BY <2>1, DoneStep
  <2>2. CASE ReadNode(th) \/ ThreadExit(th) BY <2>2, ReadNodeStep, ThreadExitStep
  <2>3. CASE DoneDec(th) \/ DonePut(th) BY <2>3, DoneDecStep, DonePutStep
  <2> QED BY <1>7, <2>1, <2>2, <2>3 DEF ServerThread
<1>8. ASSUME NEW p \in Procs, Close(p) \/ ReleaseRef(p) \/ ReleaseDone(p)
      PROVE  IInv'
  BY <1>8, CloseStep, ReleaseRefStep, ReleaseDoneStep
<1>9. CASE EraseNode \/ NodeRelease \/ NodeReleasePut
  BY <1>9, EraseNodeStep, NodeReleaseStep, NodeReleasePutStep
<1> QED BY <1>1, <1>2, <1>3, <1>4, <1>5, <1>6, <1>7, <1>8, <1>9 DEF Next

\* The counts and the places that refer to a node are one inductive whole, for
\* any number of processes, threads, objects and calls.
THEOREM Invariance == Spec => []IInv
<1>1. Init => IInv BY InitIInv
<1>2. IInv /\ [Next]_vars => IInv' BY NextIInv, StutterIInv
<1> QED BY <1>1, <1>2, PTL DEF Spec

\* The state has the types it is declared with.
THEOREM TypeCorrect == Spec => []TypeOK
<1>1. IInv => TypeOK BY DEF IInv
<1> QED BY <1>1, Invariance, PTL

\* A node is not freed under anyone who has a pointer to it: its tmp_refs are
\* those between two locks, and a freed node has no ref, holder or work.
THEOREM NoUseAfterFreeHolds == Spec => []NoUseAfterFree
<1>1. IInv => NoUseAfterFree BY DEF IInv
<1> QED BY <1>1, Invariance, PTL

\* internal_strong_refs is the number of refs with a strong count.
THEOREM InternalCountsHold == Spec => []InternalCounts
<1>1. IInv => InternalCounts BY DEF IInv
<1> QED BY <1>1, Invariance, PTL

\* While the server lives its local counts are what it has in its hands.
THEOREM LocalCountsHold == Spec => []LocalCounts
<1>1. IInv => LocalCounts BY DEF IInv
<1> QED BY <1>1, Invariance, PTL

-----------------------------------------------------------------------------
(***************************************************************************)
(* A node and its refs are freed when nobody uses them, the server of the  *)
(* node knows or is told of each change, and a handle in a buffer lasts as *)
(* long as the buffer.                                                     *)
(*                                                                         *)
(* That the server can be told depends on what clients may still rely on:  *)
(* an increment for which there is no list to put the news on succeeds     *)
(* because the sender of the object holds a count of its own.  So all of   *)
(* it is one induction (LInv), on top of the counts (IInv).  Its first     *)
(* part is about one node, the second about the objects under way, the     *)
(* third puts them together, action by action.                             *)
(***************************************************************************)

\* The server lives, and nobody was careless.
Careful == Open /\ ~careless
Erased == prc[Server] = "erased"

\* The server knows of a first reference of each kind, or is told.
Announces(n, linked) ==
    /\ InUseStrong(n) /\ ~n.hasStrong => n.work # None
    /\ (linked # {} \/ n.localWeak # 0) /\ ~n.hasWeak => n.work # None

\* And of the last one.
Knows(n, linked) ==
    /\ n.hasStrong /\ ~InUseStrong(n) => n.work # None
    /\ n.hasWeak /\ ~InUseWeak(n, linked) => n.work # None
    /\ Announces(n, linked)

Left(n, linked) ==
    n.exists /\ n.tree /\ Unused(n, linked) => n.hasStrong \/ n.hasWeak

News(n, linked, careful, erased, g) ==
    /\ Left(n, linked)
    /\ careful => Knows(n, linked)
    /\ n.hasStrong => n.hasWeak
    /\ g => n.hasStrong
    /\ erased => ~n.tree

RefCounted(p) == ref[p].on => ref[p].strong > 0 \/ ref[p].weak > 0
RefsCounted == Careful => \A p \in Procs \ locked : RefCounted(p)

\* The inductive invariant, sorted for the proof.
LEMMA LSorted ==
    LInv <=> /\ News(node, Linked, Careful, Erased, mgr) /\ RefsCounted
             /\ HandsShape /\ Lending
BY DEF LInv, News, Left, Knows, Announces, Careful, Open, Erased, RefsCounted,
       RefCounted, NewsShape, FreedWhenUnused, ServerKnows

LEMMA LSortedNext ==
    LInv' <=> /\ News(node', Linked', Careful', Erased', mgr') /\ RefsCounted'
              /\ HandsShape' /\ Lending'
BY DEF LInv, News, Left, Knows, Announces, Careful, Open, Erased, RefsCounted,
       RefCounted, NewsShape, FreedWhenUnused, ServerKnows, InUseStrong, InUseWeak,
       Unused

-----------------------------------------------------------------------------
(* Operations on a node. *)

\* After Settle the server knows of the last reference of its kind, or the node
\* has been freed.
LEMMA SettleNews ==
    ASSUME NEW m \in Node, NEW strong \in BOOLEAN, NEW linked,
           NEW careful, NEW erased, NEW g,
           linked = {} => m.internal = 0,
           careful => m.proc /\ Announces(m, linked),
           careful /\ ~strong /\ m.hasStrong /\ ~InUseStrong(m) => m.work # None,
           m.hasStrong => m.hasWeak, g => m.hasStrong /\ m.proc,
           erased => ~m.tree
    PROVE  News(Settle(m, strong, linked), linked, careful, erased, g)
<1> DEFINE r == Settle(m, strong, linked)
           q == [m EXCEPT !.work = IF @ = None THEN "proc" ELSE @]
<1>1. CASE Remains(m, strong, linked)
  <2>1. r = m BY <1>1 DEF Settle
  <2>2. ~Unused(m, linked) BY <1>1 DEF Remains, Unused
  <2>3. InUseWeak(m, linked)
    BY <1>1 DEF Remains, InUseWeak, InUseStrong
  <2>4. strong => InUseStrong(m) BY <1>1 DEF Remains, InUseStrong
  <2> QED BY <2>1, <2>2, <2>3, <2>4 DEF News, Left, Knows
<1>2. CASE ~Remains(m, strong, linked) /\ m.proc /\ (m.hasStrong \/ m.hasWeak)
  <2>1. r = q BY <1>2 DEF Settle
  <2> HIDE DEF r
  <2>2. /\ q.exists = m.exists /\ q.tree = m.tree /\ q.internal = m.internal
        /\ q.localStrong = m.localStrong /\ q.localWeak = m.localWeak
        /\ q.tmp = m.tmp /\ q.hasStrong = m.hasStrong /\ q.hasWeak = m.hasWeak
        /\ q.work = IF m.work = None THEN "proc" ELSE m.work
    BY DEF Node
  <2>3. q.work # None BY <2>2, ActorAssumption
  <2> HIDE DEF q
  <2>4. News(q, linked, careful, erased, g)
    BY <1>2, <2>2, <2>3 DEF News, Left, Knows, Announces
  <2> QED BY <2>1, <2>4 DEF r
<1>3. CASE ~Remains(m, strong, linked) /\ ~(m.proc /\ (m.hasStrong \/ m.hasWeak))
  <2>1. CASE Unused(m, linked)
    <3>1. r = NoNode BY <1>3, <2>1 DEF Settle
    <3>2. linked = {} BY <2>1 DEF Unused
    <3>3. ~g BY <1>3
    <3> HIDE DEF r
    <3>4. /\ ~NoNode.exists /\ ~NoNode.tree /\ ~NoNode.hasStrong /\ ~NoNode.hasWeak
          /\ NoNode.internal = 0 /\ NoNode.localStrong = 0 /\ NoNode.localWeak = 0
      BY DEF NoNode
    <3>5. News(NoNode, linked, careful, erased, g)
      BY <3>2, <3>3, <3>4 DEF News, Left, Knows, Announces, InUseStrong
    <3> QED BY <3>1, <3>5 DEF r
  <2>2. CASE ~Unused(m, linked)
    <3>1. r = m BY <1>3, <2>2 DEF Settle
    <3>2. careful => ~m.hasStrong /\ ~m.hasWeak BY <1>3
    <3> QED BY <2>2, <3>1, <3>2 DEF News, Left, Knows
  <2> QED BY <2>1, <2>2
<1> QED BY <1>1, <1>2, <1>3

\* A holder makes the node used.
LEMMA TmpNews ==
    ASSUME NEW n \in Node, n.tmp \in Nat, NEW linked,
           NEW careful, NEW erased, NEW g, News(n, linked, careful, erased, g)
    PROVE  News(Tmp(n), linked, careful, erased, g)
<1> DEFINE m == Tmp(n)
<1>1. /\ m.tmp = n.tmp + 1 /\ m.internal = n.internal
      /\ m.localStrong = n.localStrong /\ m.localWeak = n.localWeak
      /\ m.work = n.work /\ m.hasStrong = n.hasStrong /\ m.hasWeak = n.hasWeak
      /\ m.tree = n.tree
  BY DEF Tmp, Node
<1>2. m.tmp # 0 BY <1>1
<1> HIDE DEF m
<1>3. News(m, linked, careful, erased, g)
  BY <1>1, <1>2 DEF News, Left, Knows, Announces, Unused, InUseWeak, InUseStrong
<1> QED BY <1>3 DEF m

LEMMA PutNews ==
    ASSUME NEW n \in Node, NEW linked,
           NEW careful, NEW erased, NEW g,
           News(n, linked, careful, erased, g),
           linked = {} => n.internal = 0, careful \/ g => n.proc
    PROVE  News(Put(n, linked), linked, careful, erased, g)
<1> DEFINE m == [n EXCEPT !.tmp = @ - 1]
           no == FALSE
<1>1. /\ m \in Node /\ m.internal = n.internal /\ m.proc = n.proc
      /\ m.localStrong = n.localStrong /\ m.localWeak = n.localWeak
      /\ m.work = n.work /\ m.hasStrong = n.hasStrong /\ m.hasWeak = n.hasWeak
      /\ m.tree = n.tree
  BY DEF Node
<1>2. Put(n, linked) = Settle(m, no, linked) BY DEF Put
<1>3. no \in BOOLEAN OBVIOUS
<1> HIDE DEF m, no
<1>4. careful => m.proc /\ Announces(m, linked)
  BY <1>1 DEF News, Knows, Announces, InUseStrong
<1>5. careful /\ m.hasStrong /\ ~InUseStrong(m) => m.work # None
  BY <1>1 DEF News, Knows, InUseStrong
<1>6. News(Settle(m, no, linked), linked, careful, erased, g)
  BY ZenonT(60), <1>1, <1>3, <1>4, <1>5, SettleNews DEF News
<1> QED BY <1>2, <1>6

\* A reference is given back, of which there was one; refs may go with it.
LEMMA DecNews ==
    ASSUME NEW n \in Node, NEW strong \in BOOLEAN, NEW internal \in BOOLEAN,
           NEW linked0, NEW linked, linked # {} => linked0 # {},
           NEW careful, NEW erased, NEW g,
           News(n, linked0, careful, erased, g), careful \/ g => n.proc,
           n.internal \in Nat,
           linked = {} => n.internal = IF strong /\ internal THEN 1 ELSE 0,
           strong /\ internal => n.internal > 0,
           careful /\ strong /\ ~internal => n.localStrong > 0,
           careful /\ ~strong /\ ~internal => n.localWeak > 0
    PROVE  News(Dec(n, strong, internal, linked), linked, careful, erased, g)
<1> DEFINE a == IF strong /\ internal THEN 1 ELSE 0
           b == IF strong /\ ~internal THEN 1 ELSE 0
           c == IF ~strong /\ ~internal THEN 1 ELSE 0
           i == n.internal - a
           s == n.localStrong - b
           w == n.localWeak - c
           m == [n EXCEPT !.internal = i, !.localStrong = s, !.localWeak = w]
<1>1. Less(n, strong, internal) = m BY DEF Less, Node
<1>2. /\ n.internal \in Int /\ n.localStrong \in Int /\ n.localWeak \in Int
      /\ a \in Int /\ b \in Int /\ c \in Int
  BY DEF Node
<1>3. i \in Int /\ s \in Int /\ w \in Int BY <1>2
<1>4. /\ i = 0 \/ n.internal # 0
      /\ linked = {} => i = 0
      /\ careful => (s = 0 \/ n.localStrong # 0) /\ (w = 0 \/ n.localWeak # 0)
      /\ ~strong => i = n.internal /\ s = n.localStrong
  BY <1>2
<1> HIDE DEF a, b, c, i, s, w
<1>5. /\ m \in Node /\ m.internal = i /\ m.proc = n.proc
      /\ m.localStrong = s /\ m.localWeak = w
      /\ m.work = n.work /\ m.hasStrong = n.hasStrong /\ m.hasWeak = n.hasWeak
      /\ m.tree = n.tree
  BY <1>3 DEF Node
<1> HIDE DEF m
<1>6. careful => m.proc /\ Announces(m, linked)
  BY <1>4, <1>5 DEF News, Knows, Announces, InUseStrong
<1>7. careful /\ ~strong /\ m.hasStrong /\ ~InUseStrong(m) => m.work # None
  BY <1>4, <1>5 DEF News, Knows, InUseStrong
<1>8. News(Settle(m, strong, linked), linked, careful, erased, g)
  BY ZenonT(60), <1>4, <1>5, <1>6, <1>7, SettleNews DEF News
<1> QED BY <1>1, <1>8 DEF Dec

\* A reference is taken.  If there is no list for the news, none is needed: the
\* one who takes it relies on another.
LEMMA IncNews ==
    ASSUME NEW n \in Node, NEW strong \in BOOLEAN, NEW internal \in BOOLEAN,
           NEW list \in Threads \union {None},
           NEW linked0, NEW linked, linked0 # {} => linked # {},
           NEW careful, NEW erased, NEW g,
           News(n, linked0, careful, erased, g),
           \/ n.tmp # 0 \/ linked # {}
           \/ strong /\ ~internal /\ n.localStrong \in Nat,
           n.internal \in Nat, careful => n.localStrong \in Nat /\ n.localWeak \in Nat,
           careful /\ list = None =>
             IF strong THEN n.hasStrong \/ InUseStrong(n)
             ELSE n.hasWeak \/ n.work # None
    PROVE  News(Inc(n, strong, internal, list), linked, careful, erased, g)
<1> DEFINE failed == strong /\ IncFails(n, strong, internal, list)
           i == n.internal + IF strong /\ internal THEN 1 ELSE 0
           s == n.localStrong + IF strong /\ ~internal THEN 1 ELSE 0
           w == n.localWeak + IF ~strong /\ ~internal THEN 1 ELSE 0
           to == Announced(n, strong, list)
           m == [n EXCEPT !.internal = i, !.localStrong = s, !.localWeak = w,
                          !.work = to]
<1>1. failed => list = None /\ internal BY DEF IncFails
<1>2. /\ n.internal # 0 => i # 0
      /\ careful /\ n.localStrong # 0 => s # 0
      /\ careful /\ n.localWeak # 0 => w # 0
      /\ ~strong => i = n.internal /\ s = n.localStrong
      /\ strong => w = n.localWeak
  BY DEF Node
<1>5. strong /\ ~internal /\ n.localStrong \in Nat => s # 0 OBVIOUS
<1>3. CASE failed
  <2>1. Inc(n, strong, internal, list) = n BY <1>3 DEF Inc
  <2>2. careful => Announces(n, linked)
    BY <1>1, <1>3 DEF News, Knows, Announces
  <2>3. News(n, linked, careful, erased, g)
    BY <1>1, <1>3, <2>2 DEF News, Left, Knows, Unused, InUseWeak
  <2> QED BY <2>1, <2>3
<1>4. CASE ~failed
  <2>1. Inc(n, strong, internal, list) = m
    <3>1. CASE strong /\ ~IncFails(n, strong, internal, list)
      BY <3>1 DEF Inc, Node
    <3>2. CASE ~strong BY <3>2 DEF Inc, Node
    <3> QED BY <1>4, <3>1, <3>2
  <2>2. careful /\ ~n.hasWeak => ~n.hasStrong BY DEF News
  <2>11. /\ list = None => to = n.work
         /\ list # None /\ strong /\ ~n.hasStrong => to = list
         /\ list # None /\ ~strong /\ ~n.hasWeak /\ n.work = None => to = list
         /\ to \in {list, n.work} /\ (list # None /\ n.work # None => to # None)
    BY DEF Announced, Node
  <2> HIDE DEF to
  <2>3. careful /\ (i # 0 \/ s # 0) /\ ~n.hasStrong => to # None
    BY <1>2, <2>11 DEF News, Knows, Announces, InUseStrong
  <2>4. careful /\ (linked # {} \/ w # 0) /\ ~n.hasWeak => to # None
    BY <1>2, <2>2, <2>11 DEF News, Knows, Announces, InUseStrong
  <2>5. careful /\ n.work # None => to # None BY <2>11
  <2> HIDE DEF failed, i, s, w, to
  <2>6. /\ m.internal = i /\ m.localStrong = s /\ m.localWeak = w /\ m.work = to
        /\ m.hasStrong = n.hasStrong /\ m.hasWeak = n.hasWeak
        /\ m.tree = n.tree /\ m.tmp = n.tmp
    BY DEF Node
  <2> HIDE DEF m
  <2>7. careful => Announces(m, linked)
    BY <2>3, <2>4, <2>6 DEF Announces, InUseStrong
  <2>8. InUseWeak(m, linked) /\ ~Unused(m, linked)
    BY <1>5, <2>6 DEF InUseWeak, InUseStrong, Unused
  <2>9. careful /\ m.hasStrong /\ ~InUseStrong(m) => m.work # None
    BY <1>2, <2>5, <2>6 DEF News, Knows, InUseStrong
  <2>10. News(m, linked, careful, erased, g)
    BY <2>6, <2>7, <2>8, <2>9 DEF News, Left, Knows
  <2> QED BY <2>1, <2>10
<1> QED BY <1>3, <1>4

\* The server has been told.
LEMMA ToldNews ==
    ASSUME NEW n \in Node, NEW linked,
           NEW careful, NEW erased, NEW g,
           News(n, linked, careful, erased, g),
           careful => n.localStrong \in Nat /\ n.localWeak \in Nat,
           g => n.localStrong # 0
    PROVE  News(Told(n, linked), linked, careful, erased, g)
<1> DEFINE strong == InUseStrong(n)
           first == strong /\ ~n.hasStrong
           pw == n.pendingWeak \/ ~n.hasWeak
           ps == n.pendingStrong \/ first
           s == n.localStrong + IF first THEN 1 ELSE 0
           w == n.localWeak + IF n.hasWeak THEN 0 ELSE 1
           m == [n EXCEPT !.work = None, !.hasWeak = TRUE, !.pendingWeak = pw,
                          !.localWeak = w, !.hasStrong = strong,
                          !.pendingStrong = ps, !.localStrong = s]
<1>1. CASE ~InUseWeak(n, linked)
  <2>1. Told(n, linked) = NoNode BY <1>1 DEF Told
  <2>2. linked = {} /\ ~g BY <1>1 DEF InUseWeak, InUseStrong
  <2>3. /\ ~NoNode.exists /\ ~NoNode.tree /\ ~NoNode.hasStrong /\ ~NoNode.hasWeak
        /\ NoNode.internal = 0 /\ NoNode.localStrong = 0 /\ NoNode.localWeak = 0
    BY DEF NoNode
  <2>4. News(NoNode, linked, careful, erased, g)
    BY <2>2, <2>3 DEF News, Left, Knows, Announces, InUseStrong
  <2> QED BY <2>1, <2>4
<1>2. CASE InUseWeak(n, linked)
  <2>1. Told(n, linked) = m BY <1>2 DEF Told, Node
  <2>2. /\ careful /\ (n.internal # 0 \/ n.localStrong # 0) =>
             n.internal # 0 \/ s # 0
        /\ careful /\ n.localWeak # 0 => w # 0
        /\ ~strong => s = n.localStrong
        /\ strong <=> n.internal # 0 \/ n.localStrong # 0
        /\ strong \in BOOLEAN
    BY DEF InUseStrong, Node
  <2> HIDE DEF strong, s, w
  <2>3. /\ m.internal = n.internal /\ m.localStrong = s /\ m.localWeak = w
        /\ m.hasStrong = strong /\ m.hasWeak /\ m.tree = n.tree /\ m.tmp = n.tmp
    BY DEF Node
  <2> HIDE DEF m
  <2>4. careful => Announces(m, linked)
    BY <2>2, <2>3 DEF Announces, InUseStrong
  <2>5. careful /\ m.hasStrong => InUseStrong(m)
    BY <2>2, <2>3 DEF InUseStrong
  <2>6. careful => InUseWeak(m, linked)
    BY <1>2, <2>2, <2>3 DEF InUseWeak, InUseStrong
  <2>7. News(m, linked, careful, erased, g)
    BY <2>2, <2>3, <2>4, <2>5, <2>6 DEF News, Left, Knows
  <2> QED BY <2>1, <2>7
<1> QED BY <1>1, <1>2

-----------------------------------------------------------------------------
(* What the counts of a ref stand for. *)

LentStates == {"counted", "built", "held", "undo"}
LentOf(v, p, strong) ==
    IF v.to = p /\ v.strong = strong /\ v.st \in LentStates /\ ~v.local THEN 1 ELSE 0
AwayOf(v, p, strong) == IF v.by \in {p, None} THEN 0 ELSE LentOf(v, p, strong)

LentParcels(p, strong) == {x \in Parcels : LentOf(parcel[x], p, strong) = 1}
AwayParcels(p, strong) == {x \in Parcels : AwayOf(parcel[x], p, strong) = 1}

\* The counts of p that another still has the object of.
Away(p, strong) == Cardinality(AwayParcels(p, strong))

\* What p has of its own that an object it sends may lean on.
Has(p, strong) == Held(p, TRUE) + (IF strong THEN 0 ELSE Held(p, FALSE))

LEMMA LentIs ==
    ASSUME NEW p, NEW s
    PROVE  /\ Lent(p, s) = Cardinality(LentParcels(p, s))
           /\ Held(p, s) = Count(ref[p], s) - Away(p, s)
<1>1. {x \in Parcels : /\ parcel[x].to = p /\ parcel[x].strong = s
                      /\ parcel[x].st \in {"counted", "built", "held", "undo"}
                      /\ ~parcel[x].local} = LentParcels(p, s)
  BY DEF LentParcels, LentOf, LentStates
<1>2. {x \in {y \in Parcels : parcel[y].by \notin {p, None}} :
                      /\ parcel[x].to = p /\ parcel[x].strong = s
                      /\ parcel[x].st \in {"counted", "built", "held", "undo"}
                      /\ ~parcel[x].local} = AwayParcels(p, s)
  BY DEF AwayParcels, AwayOf, LentOf, LentStates
<1> QED BY <1>1, <1>2 DEF Lent, LentBy, Held, Away

LEMMA LentIsNext ==
    ASSUME NEW p, NEW s
    PROVE  /\ Lent(p, s)' = Cardinality(LentParcels(p, s)')
           /\ Held(p, s)' = Count(ref'[p], s) - Away(p, s)'
<1>1. {x \in Parcels : /\ parcel'[x].to = p /\ parcel'[x].strong = s
                      /\ parcel'[x].st \in {"counted", "built", "held", "undo"}
                      /\ ~parcel'[x].local} = LentParcels(p, s)'
  BY DEF LentParcels, LentOf, LentStates
<1>2. {x \in {y \in Parcels : parcel'[y].by \notin {p, None}} :
                      /\ parcel'[x].to = p /\ parcel'[x].strong = s
                      /\ parcel'[x].st \in {"counted", "built", "held", "undo"}
                      /\ ~parcel'[x].local} = AwayParcels(p, s)'
  BY DEF AwayParcels, AwayOf, LentOf, LentStates
<1> QED BY <1>1, <1>2 DEF Lent, LentBy, Held, Away, Count

LEMMA LendUpdate ==
    ASSUME Others, NEW x \in Parcels, NEW v \in Parcel,
           parcel' = [parcel EXCEPT ![x] = v], NEW p, NEW s
    PROVE  /\ Lent(p, s)' = Lent(p, s) + LentOf(v, p, s) - LentOf(parcel[x], p, s)
           /\ Away(p, s)' = Away(p, s) + AwayOf(v, p, s) - AwayOf(parcel[x], p, s)
<1>0. IsFiniteSet(Parcels) BY FiniteAssumption
<1>1. parcel \in [Parcels -> Parcel] /\ parcel' \in [Parcels -> Parcel]
  BY DEF Others
<1>2. /\ LentParcels(p, s) \in SUBSET Parcels
      /\ LentParcels(p, s)' \in SUBSET Parcels
      /\ LentParcels(p, s) \ {x} = LentParcels(p, s)' \ {x}
      /\ LentOf(parcel[x], p, s) \in {0, 1} /\ LentOf(v, p, s) \in {0, 1}
      /\ x \in LentParcels(p, s) <=> LentOf(parcel[x], p, s) = 1
      /\ x \in LentParcels(p, s)' <=> LentOf(v, p, s) = 1
  BY <1>1 DEF LentParcels, LentOf
<1>3. /\ AwayParcels(p, s) \in SUBSET Parcels
      /\ AwayParcels(p, s)' \in SUBSET Parcels
      /\ AwayParcels(p, s) \ {x} = AwayParcels(p, s)' \ {x}
      /\ AwayOf(parcel[x], p, s) \in {0, 1} /\ AwayOf(v, p, s) \in {0, 1}
      /\ x \in AwayParcels(p, s) <=> AwayOf(parcel[x], p, s) = 1
      /\ x \in AwayParcels(p, s)' <=> AwayOf(v, p, s) = 1
  BY <1>1 DEF AwayParcels, AwayOf, LentOf
<1>4. Cardinality(LentParcels(p, s)')
        = Cardinality(LentParcels(p, s)) + LentOf(v, p, s) - LentOf(parcel[x], p, s)
  BY <1>0, <1>2, CountedUpdate
<1>5. Cardinality(AwayParcels(p, s)')
        = Cardinality(AwayParcels(p, s)) + AwayOf(v, p, s) - AwayOf(parcel[x], p, s)
  BY <1>0, <1>3, CountedUpdate
<1> QED BY <1>4, <1>5, LentIs, LentIsNext DEF Away

LEMMA LendTypes ==
    ASSUME NEW p, NEW s
    PROVE  Lent(p, s) \in Nat /\ Away(p, s) \in Nat /\ Away(p, s) <= Lent(p, s)
<1>1. IsFiniteSet(LentParcels(p, s))
  BY FiniteAssumption, FS_Subset DEF LentParcels
<1>2. AwayParcels(p, s) \subseteq LentParcels(p, s)
  BY DEF LentParcels, AwayParcels, AwayOf
<1>3. /\ IsFiniteSet(AwayParcels(p, s))
      /\ Cardinality(AwayParcels(p, s)) <= Cardinality(LentParcels(p, s))
  BY <1>1, <1>2, FS_Subset
<1>4. /\ Cardinality(AwayParcels(p, s)) \in Nat
      /\ Cardinality(LentParcels(p, s)) \in Nat
  BY <1>1, <1>3, FS_CardinalityType
<1> QED BY <1>3, <1>4, LentIs DEF Away

LEMMA LendTypesNext ==
    ASSUME NEW p, NEW s
    PROVE  Lent(p, s)' \in Nat /\ Away(p, s)' \in Nat
<1>1. /\ IsFiniteSet(LentParcels(p, s)') /\ IsFiniteSet(AwayParcels(p, s)')
  BY FiniteAssumption, FS_Subset DEF LentParcels, AwayParcels
<1> QED BY <1>1, LentIsNext, FS_CardinalityType DEF Away

LEMMA CountTypeOf ==
    ASSUME Others, NEW p \in Procs, NEW s \in BOOLEAN
    PROVE  Count(ref[p], s) \in Nat
BY DEF Others, Count, Ref

LEMMA HeldType ==
    ASSUME Others, NEW p \in Procs, NEW s \in BOOLEAN PROVE Held(p, s) \in Int
<1>1. Count(ref[p], s) \in Nat BY CountTypeOf
<1> QED BY <1>1, LentIs, LendTypes

\* The two halves of Lending.
Covered(p) ==
    prc[p] = "open" => \A s \in BOOLEAN : Count(ref[p], s) >= Lent(p, s)
Leans(x) ==
    parcel[x].st = "looked" /\ parcel[x].by \in Clients =>
      Has(parcel[x].by, parcel[x].strong) > 0

LEMMA LendingIs ==
    Lending <=> (~careless => /\ \A p \in Procs : Covered(p)
                              /\ \A x \in Parcels : Leans(x))
<1>1. ASSUME NEW p
      PROVE  (\A s \in BOOLEAN : Count(ref[p], s) >= Lent(p, s)) <=>
               ref[p].strong >= Lent(p, TRUE) /\ ref[p].weak >= Lent(p, FALSE)
  BY DEF Count
<1> QED BY <1>1 DEF Lending, Covered, Leans, Has

LEMMA LendingIsNext ==
    Lending' <=> (~careless' => /\ \A p \in Procs : Covered(p)'
                                /\ \A x \in Parcels : Leans(x)')
<1>1. ASSUME NEW p
      PROVE  (\A s \in BOOLEAN : Count(ref'[p], s) >= Lent(p, s)') <=>
               ref'[p].strong >= Lent(p, TRUE)' /\ ref'[p].weak >= Lent(p, FALSE)'
  BY DEF Count
<1> QED BY <1>1 DEF Lending, Covered, Leans, Has, Count

\* Lending is kept if no ref loses more than is taken out of the buffers, and no
\* process that another object leans on loses what it has of its own.
LEMMA LendingStep ==
    ASSUME Others, Lending, careless => careless',
           \A p \in Procs : prc'[p] = "open" => prc[p] = "open",
           ~careless' => \A p \in Procs, s \in BOOLEAN :
             prc'[p] = "open" =>
               Count(ref'[p], s) - Lent(p, s)' >= Count(ref[p], s) - Lent(p, s),
           ~careless' => \A y \in Parcels : Leans(y) => Leans(y)',
           \A p \in Procs, s \in BOOLEAN : Count(ref'[p], s) \in Nat /\ Lent(p, s)' \in Nat
    PROVE  Lending'
<1> SUFFICES ASSUME ~careless'
             PROVE  /\ \A p \in Procs : Covered(p)'
                    /\ \A x \in Parcels : Leans(x)'
  BY LendingIsNext
<1>1. /\ \A p \in Procs : Covered(p)
      /\ \A x \in Parcels : Leans(x)
  BY LendingIs
<1>2. ASSUME NEW p \in Procs, prc'[p] = "open", NEW s \in BOOLEAN
      PROVE  Count(ref'[p], s) >= Lent(p, s)'
  <2>1. Count(ref[p], s) >= Lent(p, s) BY <1>1, <1>2 DEF Covered
  <2>2. Count(ref'[p], s) - Lent(p, s)' >= Count(ref[p], s) - Lent(p, s)
    BY <1>2
  <2>3. Count(ref'[p], s) \in Nat /\ Lent(p, s)' \in Nat OBVIOUS
  <2>4. Count(ref[p], s) \in Nat /\ Lent(p, s) \in Nat
    BY CountTypeOf, LendTypes
  <2> QED BY <2>1, <2>2, <2>3, <2>4
<1>3. ASSUME NEW p \in Procs PROVE Covered(p)'
  BY <1>2 DEF Covered, Count
<1> QED BY <1>1, <1>3

LEMMA HasIs ==
    ASSUME NEW p, NEW s \in BOOLEAN
    PROVE  /\ Has(p, s) = Held(p, TRUE) + (IF s THEN 0 ELSE Held(p, FALSE))
           /\ Has(p, s)' = Held(p, TRUE)' + (IF s THEN 0 ELSE Held(p, FALSE)')
BY Zenon DEF Has

LEMMA HasGrows ==
    ASSUME NEW p, NEW s \in BOOLEAN, Has(p, s) > 0,
           \A t \in BOOLEAN : /\ Held(p, t)' >= Held(p, t)
                             /\ Held(p, t)' \in Int /\ Held(p, t) \in Int
    PROVE  Has(p, s)' > 0
<1> DEFINE a == Held(p, TRUE)
           b == Held(p, FALSE)
           a1 == Held(p, TRUE)'
           b1 == Held(p, FALSE)'
<1>2. /\ Has(p, s) = a + (IF s THEN 0 ELSE b)
      /\ Has(p, s)' = a1 + (IF s THEN 0 ELSE b1)
  BY Zenon DEF Has
<1>3. a + (IF s THEN 0 ELSE b) > 0 BY <1>2, Zenon
<1>4. a1 >= a /\ b1 >= b /\ a \in Int /\ b \in Int /\ a1 \in Int /\ b1 \in Int
  OBVIOUS
<1> HIDE DEF a, b, a1, b1
<1>5. a1 + (IF s THEN 0 ELSE b1) > 0 BY <1>3, <1>4
<1> QED BY <1>2, <1>5, Zenon

\* One object changes and no ref does.
LEMMA LendingParcel ==
    ASSUME IInv, Lending, NEW x \in Parcels, NEW v \in Parcel,
           parcel' = [parcel EXCEPT ![x] = v], UNCHANGED <<ref, prc>>,
           careless => careless',
           \A p \in Procs, s \in BOOLEAN :
             /\ LentOf(v, p, s) <= LentOf(parcel[x], p, s)
             /\ AwayOf(v, p, s) <= AwayOf(parcel[x], p, s),
           v.st = "looked" /\ v.by \in Clients /\ ~careless' =>
             Has(v.by, v.strong) > 0
    PROVE  Lending'
<1>1. Others BY Facts
<1>2. ASSUME NEW p \in Procs, NEW s \in BOOLEAN
      PROVE  /\ Lent(p, s)' <= Lent(p, s) /\ Away(p, s)' <= Away(p, s)
             /\ Lent(p, s)' \in Nat /\ Away(p, s)' \in Nat
             /\ Held(p, s)' >= Held(p, s) /\ Held(p, s)' \in Int
             /\ Held(p, s) \in Int
             /\ Count(ref'[p], s) - Lent(p, s)' >= Count(ref[p], s) - Lent(p, s)
             /\ Count(ref'[p], s) \in Nat
  <2>1. /\ Lent(p, s)' = Lent(p, s) + LentOf(v, p, s) - LentOf(parcel[x], p, s)
        /\ Away(p, s)' = Away(p, s) + AwayOf(v, p, s) - AwayOf(parcel[x], p, s)
    BY ZenonT(60), <1>1, LendUpdate
  <2>2. Lent(p, s) \in Nat /\ Away(p, s) \in Nat BY LendTypes
  <2>3. Lent(p, s)' \in Nat /\ Away(p, s)' \in Nat BY LendTypesNext
  <2>4. /\ LentOf(v, p, s) \in Int /\ LentOf(parcel[x], p, s) \in Int
        /\ AwayOf(v, p, s) \in Int /\ AwayOf(parcel[x], p, s) \in Int
    BY DEF LentOf, AwayOf
  <2>5. Count(ref[p], s) \in Nat /\ Count(ref'[p], s) = Count(ref[p], s)
    BY <1>1, CountTypeOf
  <2>6. /\ Held(p, s) = Count(ref[p], s) - Away(p, s)
        /\ Held(p, s)' = Count(ref'[p], s) - Away(p, s)'
    BY LentIs, LentIsNext
  <2>7. Lent(p, s)' <= Lent(p, s) /\ Away(p, s)' <= Away(p, s)
    BY <2>1, <2>2, <2>3, <2>4
  <2> QED BY <2>2, <2>3, <2>5, <2>6, <2>7
<1>3. ASSUME NEW p \in Procs, NEW s \in BOOLEAN, Has(p, s) > 0 PROVE Has(p, s)' > 0
  BY <1>2, <1>3, HasGrows
<1>4. ASSUME NEW y \in Parcels, ~careless', Leans(y) PROVE Leans(y)'
  <2>1. CASE y = x
    <3>1. parcel'[y] = v BY <1>1, <2>1 DEF Others
    <3>2. v.by \in Clients => v.by \in Procs BY DEF Procs
    <3>3. v.strong \in BOOLEAN BY DEF Parcel
    <3>4. v.st = "looked" /\ v.by \in Clients => Has(v.by, v.strong)' > 0
      BY <1>3, <1>4, <3>2, <3>3
    <3> QED BY <3>1, <3>4 DEF Leans, Has
  <2>2. CASE y # x
    <3>1. parcel'[y] = parcel[y] /\ parcel[y] \in Parcel BY <1>1, <2>2 DEF Others
    <3>2. parcel[y].by \in Clients => parcel[y].by \in Procs BY DEF Procs
    <3>3. parcel[y].strong \in BOOLEAN BY <3>1 DEF Parcel
    <3>4. /\ parcel[y].st = "looked" /\ parcel[y].by \in Clients =>
               Has(parcel[y].by, parcel[y].strong) > 0
      BY <1>4 DEF Leans
    <3> DEFINE q == parcel[y].by
               t == parcel[y].strong
    <3> HIDE DEF q, t
    <3> QED BY <1>3, <3>1, <3>2, <3>3, <3>4 DEF Leans, Has
  <2> QED BY <2>1, <2>2
<1> QED BY <1>1, <1>2, <1>4, LendingStep

\* Objects leave buffers, and no ref of a process that stays loses a count.
LEMMA LendingOther ==
    ASSUME IInv, IInv', Lending, HandsShape', careless => careless',
           \A p \in Procs : prc'[p] = "open" => prc[p] = "open",
           \A p \in Procs, s \in BOOLEAN : prc'[p] = "open" =>
             Count(ref'[p], s) >= Count(ref[p], s),
           \A y \in Parcels :
             \/ parcel'[y] = parcel[y]
             \/ /\ parcel'[y].st # "looked"
                /\ \A p \in Procs, s \in BOOLEAN : prc'[p] = "open" =>
                     /\ LentOf(parcel'[y], p, s) <= LentOf(parcel[y], p, s)
                     /\ AwayOf(parcel'[y], p, s) <= AwayOf(parcel[y], p, s)
    PROVE  Lending'
<1>1. Others /\ Others' BY Facts, Sorted, SortedNext
<1>2. ASSUME NEW p \in Procs, NEW s \in BOOLEAN, prc'[p] = "open"
      PROVE  /\ Lent(p, s)' <= Lent(p, s) /\ Away(p, s)' <= Away(p, s)
             /\ Held(p, s)' >= Held(p, s) /\ Held(p, s)' \in Int
             /\ Held(p, s) \in Int
             /\ Count(ref'[p], s) - Lent(p, s)' >= Count(ref[p], s) - Lent(p, s)
  <2>1. ASSUME NEW y \in Parcels
        PROVE  /\ LentOf(parcel'[y], p, s) = 1 => LentOf(parcel[y], p, s) = 1
               /\ AwayOf(parcel'[y], p, s) = 1 => AwayOf(parcel[y], p, s) = 1
    <3>1. LentOf(parcel[y], p, s) \in {0, 1} /\ AwayOf(parcel[y], p, s) \in {0, 1}
      BY DEF LentOf, AwayOf
    <3>2. CASE parcel'[y] = parcel[y] BY <3>2
    <3>3. CASE parcel'[y] # parcel[y]
      <4>1. /\ LentOf(parcel'[y], p, s) <= LentOf(parcel[y], p, s)
            /\ AwayOf(parcel'[y], p, s) <= AwayOf(parcel[y], p, s)
        BY <1>2, <3>3
      <4> QED BY <3>1, <4>1
    <3> QED BY <3>2, <3>3
  <2>2. /\ LentParcels(p, s)' \subseteq LentParcels(p, s)
        /\ AwayParcels(p, s)' \subseteq AwayParcels(p, s)
    BY <2>1 DEF LentParcels, AwayParcels
  <2>3. IsFiniteSet(LentParcels(p, s)) /\ IsFiniteSet(AwayParcels(p, s))
    BY FiniteAssumption, FS_Subset DEF LentParcels, AwayParcels
  <2>4. Lent(p, s)' <= Lent(p, s) /\ Away(p, s)' <= Away(p, s)
    BY <2>2, <2>3, FS_Subset, LentIs, LentIsNext DEF Away
  <2>5. Lent(p, s) \in Nat /\ Away(p, s) \in Nat BY LendTypes
  <2>6. Lent(p, s)' \in Nat /\ Away(p, s)' \in Nat BY LendTypesNext
  <2>7. Count(ref[p], s) \in Nat /\ Count(ref'[p], s) \in Nat
    BY <1>1, CountTypeOf DEF Others, Count, Ref
  <2>8. /\ Held(p, s) = Count(ref[p], s) - Away(p, s)
        /\ Held(p, s)' = Count(ref'[p], s) - Away(p, s)'
    BY LentIs, LentIsNext
  <2>9. Count(ref'[p], s) >= Count(ref[p], s) BY <1>2
  <2> QED BY <2>4, <2>5, <2>6, <2>7, <2>8, <2>9
<1>3. ASSUME NEW p \in Procs, NEW s \in BOOLEAN, Has(p, s) > 0, prc'[p] = "open"
      PROVE  Has(p, s)' > 0
  BY <1>2, <1>3, HasGrows
<1>4. ASSUME NEW y \in Parcels, Leans(y) PROVE Leans(y)'
  <2>1. CASE parcel'[y] # parcel[y] BY <2>1 DEF Leans
  <2>2. CASE parcel'[y] = parcel[y]
    <3>1. parcel[y] \in Parcel BY <1>1 DEF Others
    <3>2. parcel[y].by \in Clients => parcel[y].by \in Procs BY DEF Procs
    <3>3. parcel[y].strong \in BOOLEAN BY <3>1 DEF Parcel
    <3>4. parcel[y].by \in Clients => prc'[parcel[y].by] = "open"
      BY <2>2, ActorAssumption DEF HandsShape, Procs
    <3>5. parcel[y].st = "looked" /\ parcel[y].by \in Clients =>
            Has(parcel[y].by, parcel[y].strong) > 0
      BY <1>4 DEF Leans
    <3> DEFINE q == parcel[y].by
               t == parcel[y].strong
    <3> HIDE DEF q, t
    <3> QED BY <1>3, <2>2, <3>2, <3>3, <3>4, <3>5 DEF Leans, Has
  <2> QED BY <2>1, <2>2
<1>5. ASSUME NEW p \in Procs, NEW s \in BOOLEAN
      PROVE  Count(ref'[p], s) \in Nat /\ Lent(p, s)' \in Nat
  BY <1>1, LendTypesNext DEF Others, Count, Ref
<1> QED BY <1>1, <1>2, <1>4, <1>5, LendingStep

LEMMA CountedCount ==
    ASSUME NEW r \in Ref, NEW s \in BOOLEAN, NEW t \in BOOLEAN, NEW d \in Int
    PROVE  Count(Counted(r, s, d), t) = Count(r, t) + (IF s = t THEN d ELSE 0)
BY DEF Count, Counted, Ref

\* A count that no object under way leans on alone may go.
LEMMA LostOne ==
    ASSUME NEW p \in Clients, NEW s \in BOOLEAN, NEW y \in Parcels,
           NEW u \in BOOLEAN, parcel[y].by = p, parcel[y].st = "looked",
           parcel[y].strong = u, ~Undermines(p, s), Has(p, u) > 0,
           \A t \in BOOLEAN : /\ Held(p, t)' >= Held(p, t) - (IF s = t THEN 1 ELSE 0)
                             /\ Held(p, t)' \in Int /\ Held(p, t) \in Int
    PROVE  Has(p, u)' > 0
<1> DEFINE a == Held(p, TRUE)
           b == Held(p, FALSE)
           a1 == Held(p, TRUE)'
           b1 == Held(p, FALSE)'
<1>1. ~(IF u THEN s /\ a <= 1 ELSE a + b <= 1) BY DEF Undermines
<1>2. Has(p, u) = a + (IF u THEN 0 ELSE b) BY Zenon DEF Has
<1>3. Has(p, u)' = a1 + (IF u THEN 0 ELSE b1) BY Zenon DEF Has
<1>4. /\ a \in Int /\ b \in Int /\ a1 \in Int /\ b1 \in Int
      /\ a1 >= a - (IF s THEN 1 ELSE 0) /\ b1 >= b - (IF s THEN 0 ELSE 1)
  OBVIOUS
<1>5. a + (IF u THEN 0 ELSE b) > 0 BY <1>2, Zenon
<1> HIDE DEF a, b, a1, b1
<1>6. a1 + (IF u THEN 0 ELSE b1) > 0 BY <1>1, <1>4, <1>5
<1> QED BY <1>3, <1>6, Zenon

\* A ref changes to u, and no object does.
LEMMA LendRef ==
    ASSUME IInv, IInv', parcel' = parcel, NEW p \in Procs, NEW s \in BOOLEAN
    PROVE  /\ Lent(p, s)' = Lent(p, s) /\ Lent(p, s)' \in Nat
           /\ Held(p, s)' = Held(p, s) + Count(ref'[p], s) - Count(ref[p], s)
           /\ Held(p, s)' \in Int /\ Held(p, s) \in Int
           /\ Count(ref'[p], s) \in Nat /\ Count(ref[p], s) \in Nat
<1>1. Others /\ Others' BY Facts, Sorted, SortedNext
<1>2. LentParcels(p, s)' = LentParcels(p, s) /\ AwayParcels(p, s)' = AwayParcels(p, s)
  BY DEF LentParcels, AwayParcels
<1>3. Lent(p, s)' = Lent(p, s) /\ Away(p, s)' = Away(p, s)
  BY <1>2, LentIs, LentIsNext DEF Away
<1>4. Count(ref[p], s) \in Nat /\ Count(ref'[p], s) \in Nat
  BY <1>1, CountTypeOf DEF Others, Count, Ref
<1>5. /\ Held(p, s) = Count(ref[p], s) - Away(p, s)
      /\ Held(p, s)' = Count(ref'[p], s) - Away(p, s)'
  BY LentIs, LentIsNext
<1>6. Lent(p, s) \in Nat /\ Away(p, s) \in Nat BY LendTypes
<1> QED BY <1>3, <1>4, <1>5, <1>6

LEMMA LendingDropRef ==
    ASSUME IInv, IInv', Lending, NEW p \in Clients, NEW strong \in BOOLEAN,
           DropRef(p, strong)
    PROVE  Lending'
<1>1. /\ ref' = [ref EXCEPT ![p] = Counted(ref[p], strong, -1)]
      /\ UNCHANGED <<parcel, prc>>
      /\ careless' = \/ careless \/ Undermines(p, strong)
                     \/ Count(ref[p], strong) <= Lent(p, strong)
  BY DEF DropRef, DecRef
<1>2. Others /\ p \in Procs BY Facts DEF Procs
<1>3. ref \in [Procs -> Ref] /\ -1 \in Int BY <1>2 DEF Others
<1>4. ASSUME NEW q \in Procs, NEW t \in BOOLEAN
      PROVE  Count(ref'[q], t)
               = Count(ref[q], t) - (IF q = p /\ strong = t THEN 1 ELSE 0)
  <2>1. CASE q = p
    <3>1. ref'[q] = Counted(ref[q], strong, -1) BY <1>1, <1>3, <2>1
    <3>2. Count(Counted(ref[q], strong, -1), t)
            = Count(ref[q], t) + (IF strong = t THEN -1 ELSE 0)
      BY <1>3, CountedCount
    <3>3. Count(ref[q], t) \in Nat BY <1>2, CountTypeOf
    <3> QED BY <2>1, <3>1, <3>2, <3>3
  <2>2. CASE q # p
    <3>1. ref'[q] = ref[q] BY <1>1, <1>3, <2>2
    <3>2. Count(ref[q], t) \in Nat BY <1>2, CountTypeOf
    <3> QED BY <2>2, <3>1, <3>2
  <2> QED BY <2>1, <2>2
<1> SUFFICES ASSUME ~careless'
             PROVE  /\ \A q \in Procs : Covered(q)'
                    /\ \A y \in Parcels : Leans(y)'
  BY LendingIsNext
<1>5. /\ \A q \in Procs : Covered(q)
      /\ \A y \in Parcels : Leans(y)
  BY <1>1, LendingIs
<1>6. ASSUME NEW q \in Procs, prc'[q] = "open", NEW t \in BOOLEAN
      PROVE  Count(ref'[q], t) >= Lent(q, t)'
  <2>1. Count(ref[q], t) >= Lent(q, t) BY <1>1, <1>5, <1>6 DEF Covered
  <2>2. q = p /\ strong = t => ~(Count(ref[q], t) <= Lent(q, t)) BY <1>1
  <2>3. Count(ref'[q], t)
          = Count(ref[q], t) - (IF q = p /\ strong = t THEN 1 ELSE 0)
    BY <1>4
  <2>4. Lent(q, t)' = Lent(q, t) /\ Lent(q, t)' \in Nat /\ Count(ref[q], t) \in Nat
    BY <1>1, LendRef
  <2> QED BY <2>1, <2>2, <2>3, <2>4
<1>7. ASSUME NEW y \in Parcels PROVE Leans(y)'
  <2>1. CASE ~(parcel[y].st = "looked" /\ parcel[y].by \in Clients)
    BY <1>1, <2>1 DEF Leans
  <2>2. CASE parcel[y].st = "looked" /\ parcel[y].by \in Clients
    <3>1. PICK q \in Clients, u \in BOOLEAN : q = parcel[y].by /\ u = parcel[y].strong
      BY <1>2, <2>2 DEF Others, Parcel
    <3>2. Has(q, u) > 0 /\ q \in Procs BY <1>5, <2>2, <3>1 DEF Leans, Procs
    <3>3. ASSUME NEW t \in BOOLEAN
          PROVE  /\ Held(q, t)' = Held(q, t) - (IF q = p /\ strong = t THEN 1 ELSE 0)
                 /\ Held(q, t)' \in Int /\ Held(q, t) \in Int
      <4>1. /\ Held(q, t)' = Held(q, t) + Count(ref'[q], t) - Count(ref[q], t)
            /\ Held(q, t)' \in Int /\ Held(q, t) \in Int
            /\ Count(ref'[q], t) \in Nat /\ Count(ref[q], t) \in Nat
        BY <1>1, <3>2, LendRef
      <4> QED BY <1>4, <3>2, <4>1
    <3>4. Has(q, u)' > 0
      <4>1. CASE q = p
        <5>1. ~Undermines(p, strong) BY <1>1
        <5>2. \A t \in BOOLEAN :
                /\ Held(p, t)' >= Held(p, t) - (IF strong = t THEN 1 ELSE 0)
                /\ Held(p, t)' \in Int /\ Held(p, t) \in Int
          BY <3>3, <4>1
        <5>3. Has(p, u)' > 0 BY <2>2, <3>1, <3>2, <4>1, <5>1, <5>2, LostOne
        <5> QED BY <4>1, <5>3
      <4>2. CASE q # p
        <5>1. \A t \in BOOLEAN :
                /\ Held(q, t)' >= Held(q, t)
                /\ Held(q, t)' \in Int /\ Held(q, t) \in Int
          BY <3>3, <4>2
        <5> QED BY <3>2, <5>1, HasGrows
      <4> QED BY <4>1, <4>2
    <3> QED BY <1>1, <3>1, <3>4 DEF Leans, Has
  <2> QED BY <2>1, <2>2
<1>8. ASSUME NEW q \in Procs PROVE Covered(q)'
  BY <1>6 DEF Covered, Count
<1> QED BY <1>7, <1>8

-----------------------------------------------------------------------------
(* Who is at work on an object, and for whom. *)

\* One object changes.
LEMMA HandsParcel ==
    ASSUME IInv, HandsShape, NEW x \in Parcels, NEW v \in Parcel,
           parcel' = [parcel EXCEPT ![x] = v], UNCHANGED prc,
           v.by # None => prc[v.by] = "open",
           v.st \notin {"idle", "held"} => v.by # None,
           v.st = "looked" /\ v.by = Server => v.th # None /\ v.to # Server,
           v.st = "held" => prc[v.to] = "open"
    PROVE  HandsShape'
<1>1. Others BY Facts
<1>2. ASSUME NEW y \in Parcels
      PROVE  parcel'[y] = IF y = x THEN v ELSE parcel[y]
  BY <1>1 DEF Others
<1> QED BY <1>2 DEF HandsShape

\* Objects are given up, and what no object needs may end.
LEMMA HandsOther ==
    ASSUME HandsShape,
           \A y \in Parcels :
             \/ parcel'[y] = NoParcel
             \/ /\ parcel'[y] = parcel[y]
                /\ parcel[y].by # None => prc'[parcel[y].by] = "open"
                /\ parcel[y].st = "held" => prc'[parcel[y].to] = "open"
    PROVE  HandsShape'
BY DEF HandsShape, NoParcel

LEMMA NoParcelType == NoParcel \in Parcel
BY DEF NoParcel, Parcel, ParcelStates

LEMMA HandsObjects ==
    ASSUME IInv, HandsShape, Objects
    PROVE  HandsShape'
<1>1. PICK x \in Parcels :
        \/ \E strong \in BOOLEAN, p \in Procs :
             \/ \E th \in Threads : SendBinder(x, th, p, strong)
             \/ \E q \in Clients : SendHandle(x, q, p, strong)
        \/ TranslateHome(x) \/ Translate(x) \/ TranslateNoMem(x)
        \/ Hand(x) \/ Fail(x)
        \/ \E th \in Threads \union {None} : FreeBuffer(x, th)
        \/ ReleaseHandle(x) \/ ReleaseBinder(x) \/ ReleaseBinderDec(x)
        \/ PutParcelNode(x)
  BY DEF Objects
<1>2. /\ Others /\ parcel[x] \in Parcel
      /\ parcel[x].st # "idle" => parcel[x].to \in Procs
  BY Facts, ParcelFacts
<1>3. /\ parcel[x].by # None => prc[parcel[x].by] = "open"
      /\ parcel[x].st \notin {"idle", "held"} => parcel[x].by # None
  BY DEF HandsShape
<1>4. ASSUME NEW strong \in BOOLEAN, NEW p \in Procs, NEW th \in Threads,
             SendBinder(x, th, p, strong)
      PROVE  HandsShape'
  <2> DEFINE v == [st |-> "looked", by |-> Server, th |-> th, to |-> p,
                   strong |-> strong, local |-> FALSE]
  <2>1. v \in Parcel BY DEF Parcel, ParcelStates, Procs
  <2>2. parcel' = [parcel EXCEPT ![x] = v] /\ UNCHANGED prc /\ prc[Server] = "open"
    BY <1>4 DEF SendBinder
  <2>3. v.st = "looked" /\ v.by = Server /\ v.th = th /\ v.to = p OBVIOUS
  <2>4. th # None /\ p # Server /\ Server # None BY <1>4, ActorAssumption DEF SendBinder
  <2> HIDE DEF v
  <2>5. /\ v.by # None /\ prc[v.by] = "open" /\ v.th # None /\ v.to # Server
        /\ v.st # "held"
    BY <2>2, <2>3, <2>4
  <2> QED BY <2>1, <2>2, <2>5, HandsParcel
<1>5. ASSUME NEW strong \in BOOLEAN, NEW p \in Procs, NEW q \in Clients,
             SendHandle(x, q, p, strong)
      PROVE  HandsShape'
  <2> DEFINE v == [st |-> "looked", by |-> q, th |-> None, to |-> p,
                   strong |-> strong, local |-> FALSE]
  <2>1. v \in Parcel BY DEF Parcel, ParcelStates, Procs
  <2>2. parcel' = [parcel EXCEPT ![x] = v] /\ UNCHANGED prc /\ prc[q] = "open"
    BY <1>5 DEF SendHandle
  <2>3. v.st = "looked" /\ v.by = q OBVIOUS
  <2>4. q # None /\ q # Server BY ActorAssumption
  <2> HIDE DEF v
  <2>5. /\ v.by # None /\ prc[v.by] = "open" /\ v.by # Server /\ v.st # "held"
    BY <2>2, <2>3, <2>4
  <2> QED BY <2>1, <2>2, <2>5, HandsParcel
<1>6. CASE \/ TranslateHome(x) \/ Translate(x) \/ TranslateNoMem(x)
           \/ Fail(x) \/ ReleaseBinderDec(x)
  <2>1. PICK v \in Parcel :
          /\ parcel' = [parcel EXCEPT ![x] = v] /\ UNCHANGED prc
          /\ v.by = parcel[x].by /\ v.by # None
          /\ v.st \notin {"looked", "held"}
    <3>1. CASE TranslateHome(x)
      <4> DEFINE v == [parcel[x] EXCEPT !.st = "counted", !.local = TRUE]
      <4>1. v \in Parcel /\ v.by = parcel[x].by /\ v.st = "counted"
        BY <1>2 DEF Parcel, ParcelStates
      <4>2. parcel' = [parcel EXCEPT ![x] = v] BY <3>1 DEF TranslateHome
      <4> HIDE DEF v
      <4> QED BY <1>3, <3>1, <4>1, <4>2 DEF TranslateHome
    <3>2. ASSUME NEW to \in {"counted", "failed", "undo", "put"},
                 parcel' = [parcel EXCEPT ![x].st = to],
                 parcel[x].st \in {"looked", "built", "found"}, UNCHANGED prc
          PROVE  \E v \in Parcel :
                   /\ parcel' = [parcel EXCEPT ![x] = v] /\ UNCHANGED prc
                   /\ v.by = parcel[x].by /\ v.by # None
                   /\ v.st \notin {"looked", "held"}
      <4> DEFINE v == [parcel[x] EXCEPT !.st = to]
      <4>1. v \in Parcel /\ v.by = parcel[x].by /\ v.st = to
        BY <1>2 DEF Parcel, ParcelStates
      <4>2. parcel' = [parcel EXCEPT ![x] = v] BY <3>2
      <4> HIDE DEF v
      <4> QED BY <1>3, <3>2, <4>1, <4>2
    <3>3. CASE Translate(x) BY <3>2, <3>3 DEF Translate
    <3>4. CASE TranslateNoMem(x) BY <3>2, <3>4 DEF TranslateNoMem
    <3>5. CASE Fail(x) BY <3>2, <3>5 DEF Fail
    <3>6. CASE ReleaseBinderDec(x) BY <3>2, <3>6 DEF ReleaseBinderDec
    <3> QED BY <1>6, <3>1, <3>3, <3>4, <3>5, <3>6
  <2> QED BY <1>3, <2>1, HandsParcel
<1>7. CASE Hand(x)
  <2> DEFINE v == [parcel[x] EXCEPT !.st = "held", !.by = None, !.th = None]
  <2>1. /\ v \in Parcel /\ v.by = None /\ v.st = "held" /\ v.to = parcel[x].to
    BY <1>2 DEF Parcel, ParcelStates
  <2>2. parcel' = [parcel EXCEPT ![x] = v] BY <1>7 DEF Hand
  <2> HIDE DEF v
  <2> QED BY <1>7, <2>1, <2>2, HandsParcel DEF Hand
<1>8. ASSUME NEW th \in Threads \union {None}, FreeBuffer(x, th) PROVE HandsShape'
  <2> DEFINE v == [parcel[x] EXCEPT !.st = "undo", !.by = parcel[x].to, !.th = th]
  <2>1. /\ v \in Parcel /\ v.by = parcel[x].to /\ v.st = "undo"
        /\ v.by \in Procs
    BY <1>2, <1>8 DEF FreeBuffer, Parcel, ParcelStates
  <2>2. parcel' = [parcel EXCEPT ![x] = v] BY <1>8 DEF FreeBuffer
  <2>3. v.by # None BY <2>1, ActorAssumption DEF Procs
  <2> HIDE DEF v
  <2> QED BY ZenonT(60), <1>8, <2>1, <2>2, <2>3, HandsParcel DEF FreeBuffer
<1>9. CASE ReleaseHandle(x) \/ ReleaseBinder(x) \/ PutParcelNode(x)
  <2>1. PICK v \in Parcel :
          /\ parcel' = [parcel EXCEPT ![x] = v] /\ UNCHANGED prc
          /\ \/ v = NoParcel
             \/ /\ v.by = parcel[x].by /\ v.by # None
                /\ v.st \notin {"looked", "held"}
    <3>1. CASE parcel' = [parcel EXCEPT ![x] = NoParcel]
      BY <1>9, <3>1, NoParcelType DEF ReleaseHandle, ReleaseBinder, PutParcelNode
    <3>2. CASE \E to \in {"cleanup", "found", "built"} :
                 parcel' = [parcel EXCEPT ![x] = [parcel[x] EXCEPT !.st = to]]
      <4>1. PICK to \in {"cleanup", "found", "built"} :
              parcel' = [parcel EXCEPT ![x] = [parcel[x] EXCEPT !.st = to]]
        BY <3>2
      <4> DEFINE v == [parcel[x] EXCEPT !.st = to]
      <4>2. v \in Parcel /\ v.by = parcel[x].by /\ v.st = to
        BY <1>2 DEF Parcel, ParcelStates
      <4>3. parcel[x].st \notin {"idle", "held"} /\ UNCHANGED prc
        BY <1>9 DEF ReleaseHandle, ReleaseBinder, PutParcelNode
      <4> HIDE DEF v
      <4> QED BY <1>3, <4>1, <4>2, <4>3 DEF v
    <3> QED BY <1>9, <3>1, <3>2 DEF ReleaseHandle, ReleaseBinder, PutParcelNode
  <2>2. v = NoParcel => v.by = None /\ v.st = "idle" BY DEF NoParcel
  <2> QED BY <1>3, <2>1, <2>2, HandsParcel
<1> QED BY <1>1, <1>4, <1>5, <1>6, <1>7, <1>8, <1>9

LEMMA HandsNext ==
    ASSUME IInv, HandsShape, Next
    PROVE  HandsShape'
<1>0. Others BY Facts
<1>1. CASE Objects BY <1>1, HandsObjects
<1>2. ASSUME UNCHANGED <<parcel, prc>> PROVE HandsShape'
  BY <1>2 DEF HandsShape
<1>3. ASSUME NEW p \in Procs, FinishDecRef(p) PROVE HandsShape'
  <2>1. /\ UNCHANGED prc
        /\ \A y \in Parcels : parcel'[y] = parcel[y] \/ parcel'[y] = NoParcel
    BY <1>3 DEF FinishDecRef
  <2> QED BY <2>1, HandsOther DEF HandsShape
<1>4. ASSUME NEW p \in Procs, Close(p) PROVE HandsShape'
  <2>1. ASSUME NEW y \in Parcels
        PROVE  \/ parcel'[y] = NoParcel
               \/ /\ parcel'[y] = parcel[y]
                  /\ parcel[y].by # None => prc'[parcel[y].by] = "open"
                  /\ parcel[y].st = "held" => prc'[parcel[y].to] = "open"
    <3>1. parcel[y].by # p BY <1>4 DEF Close, Quiet
    <3>2. parcel'[y] = IF parcel[y].st = "held" /\ parcel[y].to = p THEN NoParcel
                       ELSE parcel[y]
      BY <1>4 DEF Close
    <3>3. \A q \in Procs : q # p => prc'[q] = prc[q] BY <1>0, <1>4 DEF Close, Others
    <3>4. /\ parcel[y].by # None => parcel[y].by \in Procs
          /\ parcel[y].st = "held" => parcel[y].to \in Procs
      BY <1>0 DEF Others, Parcel, ParcelShape
    <3> QED BY <3>1, <3>2, <3>3, <3>4 DEF HandsShape
  <2> QED BY <2>1, HandsOther
<1>5. ASSUME NEW p \in Procs, prc[p] # "open", UNCHANGED parcel, NEW s,
             prc' = [prc EXCEPT ![p] = s]
      PROVE  HandsShape'
  <2>1. \A q \in Procs : prc[q] = "open" => prc'[q] = "open" BY <1>0, <1>5 DEF Others
  <2>2. \A y \in Parcels :
          /\ parcel[y].by # None => parcel[y].by \in Procs
          /\ parcel[y].st = "held" => parcel[y].to \in Procs
    BY <1>0 DEF Others, Parcel, ParcelShape
  <2> QED BY <1>5, <2>1, <2>2, HandsOther DEF HandsShape
<1>6. ASSUME NEW p \in Procs, ReleaseDone(p) PROVE HandsShape'
  BY <1>5, <1>6 DEF ReleaseDone
<1>7. CASE EraseNode \/ NodeRelease \/ NodeReleasePut
  BY <1>5, <1>7 DEF EraseNode, NodeRelease, NodeReleasePut, Procs
<1>8. CASE UNCHANGED <<parcel, prc>> BY <1>2, <1>8
<1>9. \/ Objects \/ UNCHANGED <<parcel, prc>>
      \/ \E p \in Procs : FinishDecRef(p) \/ Close(p) \/ ReleaseDone(p)
      \/ EraseNode \/ NodeRelease \/ NodeReleasePut
  BY DEF Next, TakeRef, DropRef, GetNodeRefsForTxn, HandCall, ReleaseTarget,
         PutTarget, SetCtxMgr, ServerThread, ReadNode, ThreadExit, Done, DoneDec,
         DonePut, ReleaseRef
<1> QED BY <1>1, <1>2, <1>3, <1>4, <1>6, <1>7, <1>9

-----------------------------------------------------------------------------
(* Lending, when an object and the ref of its receiver change together. *)

\* One object changes, and the refs follow it.
LEMMA LendBoth ==
    ASSUME IInv, IInv', NEW x \in Parcels, NEW v \in Parcel,
           parcel' = [parcel EXCEPT ![x] = v], NEW p \in Procs, NEW s \in BOOLEAN
    PROVE  /\ Lent(p, s)' = Lent(p, s) + LentOf(v, p, s) - LentOf(parcel[x], p, s)
           /\ Held(p, s)' = Held(p, s) + Count(ref'[p], s) - Count(ref[p], s)
                              + AwayOf(parcel[x], p, s) - AwayOf(v, p, s)
           /\ Lent(p, s) \in Nat /\ Lent(p, s)' \in Nat
           /\ Held(p, s)' \in Int /\ Held(p, s) \in Int
           /\ Count(ref'[p], s) \in Nat /\ Count(ref[p], s) \in Nat
           /\ LentOf(v, p, s) \in {0, 1} /\ LentOf(parcel[x], p, s) \in {0, 1}
           /\ AwayOf(v, p, s) \in {0, 1} /\ AwayOf(parcel[x], p, s) \in {0, 1}
<1>1. Others /\ Others' BY Facts, Sorted, SortedNext
<1>2. /\ Lent(p, s)' = Lent(p, s) + LentOf(v, p, s) - LentOf(parcel[x], p, s)
      /\ Away(p, s)' = Away(p, s) + AwayOf(v, p, s) - AwayOf(parcel[x], p, s)
  BY ZenonT(60), <1>1, LendUpdate
<1>3. Lent(p, s) \in Nat /\ Away(p, s) \in Nat BY LendTypes
<1>4. Lent(p, s)' \in Nat /\ Away(p, s)' \in Nat BY LendTypesNext
<1>5. /\ LentOf(v, p, s) \in {0, 1} /\ LentOf(parcel[x], p, s) \in {0, 1}
      /\ AwayOf(v, p, s) \in {0, 1} /\ AwayOf(parcel[x], p, s) \in {0, 1}
  BY DEF LentOf, AwayOf
<1>6. Count(ref[p], s) \in Nat /\ Count(ref'[p], s) \in Nat
  BY <1>1, CountTypeOf DEF Others, Count, Ref
<1>7. /\ Held(p, s) = Count(ref[p], s) - Away(p, s)
      /\ Held(p, s)' = Count(ref'[p], s) - Away(p, s)'
  BY LentIs, LentIsNext
<1>8. Held(p, s)' = Held(p, s) + Count(ref'[p], s) - Count(ref[p], s)
                      + AwayOf(parcel[x], p, s) - AwayOf(v, p, s)
  BY <1>2, <1>3, <1>4, <1>5, <1>6, <1>7
<1> QED BY <1>2, <1>3, <1>4, <1>5, <1>6, <1>7, <1>8

\* What an object leans on is kept by a process that loses nothing of its own.
LEMMA LeansKept ==
    ASSUME Others, NEW x \in Parcels, NEW v \in Parcel,
           parcel' = [parcel EXCEPT ![x] = v], v.st # "looked",
           NEW y \in Parcels, Leans(y),
           \A q \in Clients, u \in BOOLEAN :
             /\ parcel[y].st = "looked" /\ parcel[y].by = q
             /\ parcel[y].strong = u /\ Has(q, u) > 0
             => Has(q, u)' > 0
    PROVE  Leans(y)'
<1>1. CASE y = x
  <2>1. parcel'[y] = v BY <1>1 DEF Others
  <2> QED BY <2>1 DEF Leans
<1>2. CASE y # x
  <2>1. parcel'[y] = parcel[y] /\ parcel[y] \in Parcel BY <1>2 DEF Others
  <2>2. CASE ~(parcel[y].st = "looked" /\ parcel[y].by \in Clients)
    BY <2>1, <2>2 DEF Leans
  <2>3. CASE parcel[y].st = "looked" /\ parcel[y].by \in Clients
    <3>1. PICK q \in Clients, u \in BOOLEAN : q = parcel[y].by /\ u = parcel[y].strong
      BY <2>1, <2>3 DEF Parcel
    <3>2. Has(q, u) > 0 BY <2>3, <3>1 DEF Leans
    <3>3. Has(q, u)' > 0 BY <2>3, <3>1, <3>2
    <3> QED BY <2>1, <3>1, <3>3 DEF Leans, Has
  <2> QED BY <2>2, <2>3
<1> QED BY <1>1, <1>2

LEMMA LendingBoth ==
    ASSUME IInv, IInv', Lending, NEW x \in Parcels, NEW v \in Parcel,
           parcel' = [parcel EXCEPT ![x] = v], v.st # "looked", UNCHANGED prc,
           careless => careless',
           \A p \in Procs, s \in BOOLEAN :
             /\ LentOf(v, p, s) - LentOf(parcel[x], p, s)
                  <= Count(ref'[p], s) - Count(ref[p], s)
             /\ AwayOf(v, p, s) - AwayOf(parcel[x], p, s)
                  <= Count(ref'[p], s) - Count(ref[p], s)
    PROVE  Lending'
<1>1. Others BY Facts
<1>2. ASSUME NEW p \in Procs, NEW s \in BOOLEAN
      PROVE  /\ Held(p, s)' >= Held(p, s) /\ Held(p, s)' \in Int /\ Held(p, s) \in Int
             /\ Count(ref'[p], s) - Lent(p, s)' >= Count(ref[p], s) - Lent(p, s)
             /\ Count(ref'[p], s) \in Nat /\ Lent(p, s)' \in Nat
  <2>1. /\ LentOf(v, p, s) - LentOf(parcel[x], p, s)
             <= Count(ref'[p], s) - Count(ref[p], s)
        /\ AwayOf(v, p, s) - AwayOf(parcel[x], p, s)
             <= Count(ref'[p], s) - Count(ref[p], s)
    OBVIOUS
  <2>2. /\ Lent(p, s)' = Lent(p, s) + LentOf(v, p, s) - LentOf(parcel[x], p, s)
        /\ Held(p, s)' = Held(p, s) + Count(ref'[p], s) - Count(ref[p], s)
                           + AwayOf(parcel[x], p, s) - AwayOf(v, p, s)
        /\ Lent(p, s) \in Nat /\ Lent(p, s)' \in Nat
        /\ Held(p, s)' \in Int /\ Held(p, s) \in Int
        /\ Count(ref'[p], s) \in Nat /\ Count(ref[p], s) \in Nat
        /\ LentOf(v, p, s) \in {0, 1} /\ LentOf(parcel[x], p, s) \in {0, 1}
        /\ AwayOf(v, p, s) \in {0, 1} /\ AwayOf(parcel[x], p, s) \in {0, 1}
    BY ZenonT(60), LendBoth
  <2> QED BY <2>1, <2>2
<1>3. ASSUME NEW y \in Parcels, Leans(y) PROVE Leans(y)'
  <2>1. ASSUME NEW q \in Clients, NEW u \in BOOLEAN, Has(q, u) > 0
        PROVE  Has(q, u)' > 0
    <3>1. q \in Procs BY DEF Procs
    <3> QED BY <1>2, <2>1, <3>1, HasGrows
  <2> QED BY <1>1, <1>3, <2>1, LeansKept
<1> QED BY <1>1, <1>2, <1>3, LendingStep

LEMMA RefOn ==
    ASSUME NEW r \in Ref
    PROVE  /\ [r EXCEPT !.on = TRUE] \in Ref
           /\ \A s \in BOOLEAN : Count([r EXCEPT !.on = TRUE], s) = Count(r, s)
BY DEF Ref, Count

LEMMA LendingTranslate ==
    ASSUME IInv, IInv', Lending, NEW x \in Parcels, Translate(x)
    PROVE  Lending'
<1> DEFINE m == parcel[x]
           fails == RefFails(m.to, m.strong, m.th)
           v == [m EXCEPT !.st = IF fails THEN "failed" ELSE "counted"]
           r == [ref[m.to] EXCEPT !.on = TRUE]
           w == IF fails THEN r ELSE Counted(r, m.strong, 1)
<1>1. Others BY Facts
<1>2. /\ m \in Parcel /\ m.to \in Procs /\ m.st = "looked" /\ m.strong \in BOOLEAN
  BY ParcelFacts DEF Translate, Parcel
<1>3. /\ v \in Parcel /\ v.st = (IF fails THEN "failed" ELSE "counted")
      /\ v.to = m.to /\ v.strong = m.strong
  BY <1>2 DEF Parcel, ParcelStates
<1>4. /\ parcel' = [parcel EXCEPT ![x] = v] /\ ref' = [ref EXCEPT ![m.to] = w]
      /\ UNCHANGED <<prc, careless>>
  BY DEF Translate, IncRef
<1>5. r \in Ref /\ (\A s \in BOOLEAN : Count(r, s) = Count(ref[m.to], s)) /\ 1 \in Int
  <2>1. ref[m.to] \in Ref BY <1>1, <1>2 DEF Others
  <2> QED BY <2>1, RefOn
<1> HIDE DEF fails, v, r
<1>6. ASSUME NEW p \in Procs, NEW s \in BOOLEAN
      PROVE  /\ LentOf(v, p, s) - LentOf(m, p, s)
                  <= Count(ref'[p], s) - Count(ref[p], s)
             /\ AwayOf(v, p, s) - AwayOf(m, p, s)
                  <= Count(ref'[p], s) - Count(ref[p], s)
  <2>1. LentOf(m, p, s) = 0 /\ AwayOf(m, p, s) = 0
    BY <1>2 DEF LentOf, AwayOf, LentStates
  <2>2. AwayOf(v, p, s) <= LentOf(v, p, s) /\ LentOf(v, p, s) \in {0, 1}
        /\ AwayOf(v, p, s) \in {0, 1}
    BY DEF AwayOf, LentOf
  <2>3. Count(ref[p], s) \in Nat BY <1>1, CountTypeOf
  <2>4. CASE p = m.to /\ ~fails
    <3>1. ref'[p] = Counted(r, m.strong, 1) BY <1>1, <1>4, <2>4 DEF Others
    <3>2. Count(ref'[p], s) = Count(ref[p], s) + (IF m.strong = s THEN 1 ELSE 0)
      BY <1>2, <1>5, <2>4, <3>1, CountedCount
    <3>3. m.strong # s => LentOf(v, p, s) = 0 BY <1>3 DEF LentOf
    <3> HIDE DEF m
    <3> QED BY <2>1, <2>2, <2>3, <3>2, <3>3
  <2>5. CASE p # m.to \/ fails
    <3>1. LentOf(v, p, s) = 0 BY <1>3, <2>5 DEF LentOf, LentStates
    <3>2. Count(ref'[p], s) = Count(ref[p], s)
      <4>1. CASE p # m.to
        <5>1. ref'[p] = ref[p] BY <1>1, <1>4, <4>1 DEF Others
        <5> QED BY <5>1
      <4>2. CASE p = m.to /\ fails
        <5>1. ref'[p] = r BY <1>1, <1>4, <4>2 DEF Others
        <5> QED BY <1>5, <4>2, <5>1
      <4> QED BY <2>5, <4>1, <4>2
    <3> HIDE DEF m
    <3> QED BY <2>1, <2>2, <2>3, <3>1, <3>2
  <2> QED BY <2>4, <2>5
<1> QED BY <1>3, <1>4, <1>6, LendingBoth

LEMMA LendingReleaseHandle ==
    ASSUME IInv, IInv', Lending, HandsShape, NEW x \in Parcels, ReleaseHandle(x)
    PROVE  Lending'
<1> DEFINE m == parcel[x]
           v == parcel'[x]
           t == m.strong
           d == IF Drops(m.to, t) THEN 1 ELSE 0
<1>1. Others /\ Others' BY Facts, Sorted, SortedNext
<1>2. /\ m \in Parcel /\ m.to \in Procs /\ m.st = "undo" /\ t \in BOOLEAN
      /\ ~m.local /\ m.by # None
  BY ParcelFacts DEF ReleaseHandle, Parcel, HandsShape
<1>3. /\ v \in Parcel /\ v.st \in {"cleanup", "idle"}
      /\ parcel' = [parcel EXCEPT ![x] = v]
      /\ UNCHANGED prc /\ (careless => careless')
  BY <1>1 DEF ReleaseHandle, NoParcel, Others
<1>4. ASSUME NEW p \in Procs, NEW s \in BOOLEAN
      PROVE  /\ LentOf(v, p, s) = 0 /\ AwayOf(v, p, s) = 0
             /\ LentOf(m, p, s) = IF p = m.to /\ t = s THEN 1 ELSE 0
             /\ AwayOf(m, p, s) = IF p = m.to /\ t = s /\ m.by # m.to THEN 1 ELSE 0
             /\ Count(ref'[p], s)
                  = Count(ref[p], s) - (IF p = m.to /\ t = s THEN d ELSE 0)
             /\ Count(ref[p], s) \in Nat
  <2>1. LentOf(v, p, s) = 0 /\ AwayOf(v, p, s) = 0
    BY <1>3 DEF LentOf, AwayOf, LentStates
  <2>2. /\ LentOf(m, p, s) = IF p = m.to /\ t = s THEN 1 ELSE 0
        /\ AwayOf(m, p, s) = IF p = m.to /\ t = s /\ m.by # m.to THEN 1 ELSE 0
    BY <1>2 DEF LentOf, AwayOf, LentStates
  <2>3. Count(ref[p], s) \in Nat BY <1>1, CountTypeOf
  <2>4. CASE p = m.to /\ Drops(m.to, t)
    <3>1. ref' = [ref EXCEPT ![m.to] = Counted(@, t, -1)]
      BY <2>4 DEF ReleaseHandle, DecRef
    <3>2. ref'[p] = Counted(ref[p], t, -1) /\ ref[p] \in Ref /\ -1 \in Int
      BY <1>1, <1>2, <2>4, <3>1 DEF Others
    <3>3. Count(ref'[p], s) = Count(ref[p], s) + (IF t = s THEN -1 ELSE 0)
      BY <1>2, <3>2, CountedCount
    <3>4. d = 1 BY <2>4
    <3> HIDE DEF m, t, v, d
    <3> QED BY <2>1, <2>2, <2>3, <2>4, <3>3, <3>4
  <2>5. CASE p # m.to \/ ~Drops(m.to, t)
    <3>1. CASE Drops(m.to, t)
      <4>1. ref' = [ref EXCEPT ![m.to] = Counted(@, t, -1)]
        BY <3>1 DEF ReleaseHandle, DecRef
      <4>2. ref'[p] = ref[p] BY <1>1, <2>5, <3>1, <4>1 DEF Others
      <4> HIDE DEF m, t, v, d
      <4> QED BY <2>1, <2>2, <2>3, <2>5, <3>1, <4>2
    <3>2. CASE ~Drops(m.to, t)
      <4>1. ref' = ref /\ d = 0 BY <3>2 DEF ReleaseHandle, DecRef
      <4> HIDE DEF m, t, v, d
      <4> QED BY <2>1, <2>2, <2>3, <4>1
    <3> QED BY <3>1, <3>2
  <2> QED BY <2>4, <2>5
<1>5. d \in {0, 1} OBVIOUS
<1>6. ~careless' /\ m.by = m.to => ~Undermines(m.to, t) BY DEF ReleaseHandle
<1> HIDE DEF v, d
<1>7. ASSUME NEW p \in Procs, NEW s \in BOOLEAN
      PROVE  /\ Held(p, s)' >= Held(p, s)
                  - (IF p = m.to /\ t = s /\ m.by = m.to THEN 1 ELSE 0)
             /\ Held(p, s)' \in Int /\ Held(p, s) \in Int
             /\ Count(ref'[p], s) - Lent(p, s)' >= Count(ref[p], s) - Lent(p, s)
             /\ Count(ref'[p], s) \in Nat /\ Lent(p, s)' \in Nat
  <2>1. /\ Lent(p, s)' = Lent(p, s) + LentOf(v, p, s) - LentOf(m, p, s)
        /\ Held(p, s)' = Held(p, s) + Count(ref'[p], s) - Count(ref[p], s)
                           + AwayOf(m, p, s) - AwayOf(v, p, s)
        /\ Lent(p, s) \in Nat /\ Lent(p, s)' \in Nat
        /\ Held(p, s)' \in Int /\ Held(p, s) \in Int
        /\ Count(ref'[p], s) \in Nat /\ Count(ref[p], s) \in Nat
    BY <1>3, LendBoth
  <2> HIDE DEF m, t
  <2> QED BY <1>4, <1>5, <2>1
<1>8. ASSUME NEW y \in Parcels, ~careless', Leans(y) PROVE Leans(y)'
  <2>1. ASSUME NEW q \in Clients, NEW u \in BOOLEAN, parcel[y].st = "looked",
               parcel[y].by = q, parcel[y].strong = u, Has(q, u) > 0
        PROVE  Has(q, u)' > 0
    <3>1. q \in Procs BY DEF Procs
    <3>2. CASE q = m.to /\ m.by = m.to
      <4>1. ~Undermines(q, t) BY <1>6, <1>8, <3>2
      <4>2. \A s \in BOOLEAN :
              /\ Held(q, s)' >= Held(q, s) - (IF t = s THEN 1 ELSE 0)
              /\ Held(q, s)' \in Int /\ Held(q, s) \in Int
        BY <1>7, <3>1, <3>2
      <4> HIDE DEF m, t
      <4> QED BY <1>2, <2>1, <4>1, <4>2, LostOne
    <3>3. CASE ~(q = m.to /\ m.by = m.to)
      <4>1. \A s \in BOOLEAN :
              /\ Held(q, s)' >= Held(q, s)
              /\ Held(q, s)' \in Int /\ Held(q, s) \in Int
        <5>1. ASSUME NEW s \in BOOLEAN
              PROVE  /\ Held(q, s)' >= Held(q, s)
                     /\ Held(q, s)' \in Int /\ Held(q, s) \in Int
          <6>1. /\ Held(q, s)' >= Held(q, s)
                     - (IF q = m.to /\ t = s /\ m.by = m.to THEN 1 ELSE 0)
                /\ Held(q, s)' \in Int /\ Held(q, s) \in Int
            BY <1>7, <3>1
          <6> HIDE DEF m, t
          <6> QED BY <3>3, <6>1
        <5> QED BY <5>1
      <4> QED BY <2>1, <3>1, <4>1, HasGrows
    <3> QED BY <3>2, <3>3
  <2>2. v.st # "looked" BY <1>3
  <2> QED BY <1>1, <1>3, <1>8, <2>1, <2>2, LeansKept
<1> HIDE DEF m, t
<1> QED BY <1>1, <1>3, <1>7, <1>8, LendingStep

\* An object goes on its way with the count it stands for, or without one.
LEMMA LendingKept ==
    ASSUME IInv, Lending, NEW x \in Parcels, NEW v \in Parcel,
           parcel' = [parcel EXCEPT ![x] = v], UNCHANGED <<ref, prc, careless>>,
           v.st # "looked",
           \/ v.st \notin LentStates \/ v.local
           \/ /\ v.to = parcel[x].to /\ v.strong = parcel[x].strong
              /\ v.local = parcel[x].local /\ parcel[x].st \in LentStates
              /\ v.by \in {parcel[x].by, None, v.to}
    PROVE  Lending'
<1>1. ASSUME NEW p \in Procs, NEW s \in BOOLEAN
      PROVE  /\ LentOf(v, p, s) <= LentOf(parcel[x], p, s)
             /\ AwayOf(v, p, s) <= AwayOf(parcel[x], p, s)
  <2>1. CASE v.st \notin LentStates \/ v.local
    BY <2>1 DEF LentOf, AwayOf
  <2>2. CASE /\ v.to = parcel[x].to /\ v.strong = parcel[x].strong
             /\ v.local = parcel[x].local /\ parcel[x].st \in LentStates
             /\ v.by \in {parcel[x].by, None, v.to}
    <3>1. LentOf(v, p, s) <= LentOf(parcel[x], p, s) BY <2>2 DEF LentOf
    <3>2. v.by = v.to => AwayOf(v, p, s) = 0 BY DEF AwayOf, LentOf
    <3>3. v.by = None => AwayOf(v, p, s) = 0 BY DEF AwayOf
    <3>4. AwayOf(parcel[x], p, s) \in {0, 1} BY DEF AwayOf, LentOf
    <3>5. v.by = parcel[x].by => AwayOf(v, p, s) <= AwayOf(parcel[x], p, s)
      BY <2>2 DEF AwayOf, LentOf
    <3> QED BY <2>2, <3>1, <3>2, <3>3, <3>4, <3>5
  <2> QED BY <2>1, <2>2
<1> QED BY <1>1, LendingParcel

LEMMA LendingSend ==
    ASSUME IInv, Lending, NEW x \in Parcels, NEW p \in Procs, NEW strong \in BOOLEAN,
           \/ \E th \in Threads : SendBinder(x, th, p, strong)
           \/ \E q \in Clients : SendHandle(x, q, p, strong)
    PROVE  Lending'
<1>1. PICK v \in Parcel :
        /\ parcel' = [parcel EXCEPT ![x] = v] /\ UNCHANGED <<ref, prc>>
        /\ v.st = "looked" /\ (careless => careless')
        /\ v.by \in Clients /\ ~careless' => Has(v.by, v.strong) > 0
  <2>1. ASSUME NEW th \in Threads, SendBinder(x, th, p, strong)
        PROVE  \E v \in Parcel :
                 /\ parcel' = [parcel EXCEPT ![x] = v] /\ UNCHANGED <<ref, prc>>
                 /\ v.st = "looked" /\ (careless => careless')
                 /\ v.by \in Clients /\ ~careless' => Has(v.by, v.strong) > 0
    <3> DEFINE v == [st |-> "looked", by |-> Server, th |-> th, to |-> p,
                     strong |-> strong, local |-> FALSE]
    <3>1. v \in Parcel /\ v.st = "looked" /\ v.by \notin Clients
      BY ActorAssumption DEF Parcel, ParcelStates, Procs
    <3>2. /\ parcel' = [parcel EXCEPT ![x] = v] /\ UNCHANGED <<ref, prc, careless>>
      BY <2>1 DEF SendBinder
    <3> HIDE DEF v
    <3> QED BY <3>1, <3>2
  <2>2. ASSUME NEW q \in Clients, SendHandle(x, q, p, strong)
        PROVE  \E v \in Parcel :
                 /\ parcel' = [parcel EXCEPT ![x] = v] /\ UNCHANGED <<ref, prc>>
                 /\ v.st = "looked" /\ (careless => careless')
                 /\ v.by \in Clients /\ ~careless' => Has(v.by, v.strong) > 0
    <3> DEFINE v == [st |-> "looked", by |-> q, th |-> None, to |-> p,
                     strong |-> strong, local |-> FALSE]
               a == Held(q, TRUE)
               b == Held(q, FALSE)
    <3>1. v \in Parcel /\ v.st = "looked" /\ v.by = q /\ v.strong = strong
      BY DEF Parcel, ParcelStates, Procs
    <3>2. /\ parcel' = [parcel EXCEPT ![x] = v] /\ UNCHANGED <<ref, prc>>
          /\ careless' = \/ careless \/ a + (IF strong THEN 0 ELSE b) <= 0
      BY <2>2 DEF SendHandle
    <3>3. a \in Int /\ b \in Int BY Facts, HeldType DEF Procs
    <3>4. Has(q, strong) = a + (IF strong THEN 0 ELSE b) BY Zenon DEF Has
    <3> HIDE DEF v, a, b
    <3>5. ~careless' => a + (IF strong THEN 0 ELSE b) > 0 BY <3>2, <3>3
    <3>6. ~careless' => Has(q, strong) > 0 BY <3>4, <3>5, Zenon
    <3> QED BY <3>1, <3>2, <3>6
  <2> QED BY <2>1, <2>2
<1>2. ASSUME NEW q \in Procs, NEW s \in BOOLEAN
      PROVE  /\ LentOf(v, q, s) <= LentOf(parcel[x], q, s)
             /\ AwayOf(v, q, s) <= AwayOf(parcel[x], q, s)
  <2>1. LentOf(v, q, s) = 0 /\ AwayOf(v, q, s) = 0
    BY <1>1 DEF LentOf, AwayOf, LentStates
  <2>2. LentOf(parcel[x], q, s) \in {0, 1} /\ AwayOf(parcel[x], q, s) \in {0, 1}
    BY DEF LentOf, AwayOf
  <2> QED BY <2>1, <2>2
<1> QED BY <1>1, <1>2, LendingParcel

LEMMA LendingObjects ==
    ASSUME IInv, IInv', Lending, HandsShape, Objects
    PROVE  Lending'
<1>1. PICK x \in Parcels :
        \/ \E strong \in BOOLEAN, p \in Procs :
             \/ \E th \in Threads : SendBinder(x, th, p, strong)
             \/ \E q \in Clients : SendHandle(x, q, p, strong)
        \/ TranslateHome(x) \/ Translate(x) \/ TranslateNoMem(x)
        \/ Hand(x) \/ Fail(x)
        \/ \E th \in Threads \union {None} : FreeBuffer(x, th)
        \/ ReleaseHandle(x) \/ ReleaseBinder(x) \/ ReleaseBinderDec(x)
        \/ PutParcelNode(x)
  BY DEF Objects
<1>2. /\ Others /\ parcel[x] \in Parcel
      /\ parcel[x].st # "idle" => parcel[x].to \in Procs
      /\ parcel[x].st = "found" => parcel[x].local
  BY Facts, ParcelFacts
<1>3. CASE TranslateHome(x)
  <2> DEFINE v == [parcel[x] EXCEPT !.st = "counted", !.local = TRUE]
  <2>1. v \in Parcel /\ v.st = "counted" /\ v.local
    BY <1>2 DEF Parcel, ParcelStates
  <2>2. parcel' = [parcel EXCEPT ![x] = v] /\ UNCHANGED <<ref, prc, careless>>
    BY <1>3 DEF TranslateHome
  <2> HIDE DEF v
  <2> QED BY <2>1, <2>2, LendingKept
<1>4. CASE TranslateNoMem(x) \/ ReleaseBinderDec(x) \/ Fail(x)
  <2>1. PICK to \in {"failed", "put", "undo"} :
          /\ parcel' = [parcel EXCEPT ![x].st = to]
          /\ UNCHANGED <<ref, prc, careless>>
          /\ to = "undo" => parcel[x].st = "built"
    BY <1>4 DEF TranslateNoMem, ReleaseBinderDec, Fail
  <2> DEFINE v == [parcel[x] EXCEPT !.st = to]
  <2>2. /\ v \in Parcel /\ v.st = to /\ v.to = parcel[x].to /\ v.by = parcel[x].by
        /\ v.strong = parcel[x].strong /\ v.local = parcel[x].local
    BY <1>2 DEF Parcel, ParcelStates
  <2>3. parcel' = [parcel EXCEPT ![x] = v] BY <2>1
  <2>4. /\ v.st = "undo" => parcel[x].st \in LentStates
        /\ v.st # "undo" => v.st \notin LentStates
    BY <2>1, <2>2 DEF LentStates
  <2> HIDE DEF v
  <2> QED BY <2>1, <2>2, <2>3, <2>4, LendingKept
<1>5. CASE Hand(x)
  <2> DEFINE v == [parcel[x] EXCEPT !.st = "held", !.by = None, !.th = None]
  <2>1. /\ v \in Parcel /\ v.by = None /\ v.st = "held" /\ v.to = parcel[x].to
        /\ v.strong = parcel[x].strong /\ v.local = parcel[x].local
    BY <1>2 DEF Parcel, ParcelStates
  <2>2. /\ parcel' = [parcel EXCEPT ![x] = v] /\ UNCHANGED <<ref, prc, careless>>
        /\ parcel[x].st \in LentStates
    BY <1>5 DEF Hand, LentStates
  <2> HIDE DEF v
  <2> QED BY <2>1, <2>2, LendingKept
<1>6. ASSUME NEW th \in Threads \union {None}, FreeBuffer(x, th) PROVE Lending'
  <2> DEFINE v == [parcel[x] EXCEPT !.st = "undo", !.by = parcel[x].to, !.th = th]
  <2>1. /\ v \in Parcel /\ v.by = v.to /\ v.st = "undo" /\ v.to = parcel[x].to
        /\ v.strong = parcel[x].strong /\ v.local = parcel[x].local
    BY <1>2, <1>6 DEF FreeBuffer, Parcel, ParcelStates
  <2>2. /\ parcel' = [parcel EXCEPT ![x] = v] /\ UNCHANGED <<ref, prc, careless>>
        /\ parcel[x].st \in LentStates
    BY <1>6 DEF FreeBuffer, LentStates
  <2> HIDE DEF v
  <2> QED BY <2>1, <2>2, LendingKept
<1>7. CASE ReleaseBinder(x) \/ PutParcelNode(x)
  <2>1. UNCHANGED <<ref, prc, careless>> BY <1>7 DEF ReleaseBinder, PutParcelNode
  <2>2. CASE parcel' = [parcel EXCEPT ![x] = NoParcel]
    BY <2>1, <2>2, NoParcelType, LendingKept DEF NoParcel, LentStates
  <2>3. CASE parcel' = [parcel EXCEPT ![x] = [parcel[x] EXCEPT !.st = "found"]]
    <3> DEFINE v == [parcel[x] EXCEPT !.st = "found"]
    <3>1. v \in Parcel /\ v.st = "found" BY <1>2 DEF Parcel, ParcelStates
    <3>2. v.st \notin LentStates BY <3>1 DEF LentStates
    <3> HIDE DEF v
    <3> QED BY <2>1, <2>3, <3>1, <3>2, LendingKept DEF v
  <2>4. CASE /\ parcel' = [parcel EXCEPT ![x] = [parcel[x] EXCEPT !.st = "built"]]
             /\ parcel[x].st = "counted"
    <3> DEFINE v == [parcel[x] EXCEPT !.st = "built"]
    <3>1. /\ v \in Parcel /\ v.st = "built" /\ v.to = parcel[x].to
          /\ v.by = parcel[x].by
          /\ v.strong = parcel[x].strong /\ v.local = parcel[x].local
      BY <1>2 DEF Parcel, ParcelStates
    <3>2. parcel[x].st \in LentStates BY <2>4 DEF LentStates
    <3> HIDE DEF v
    <3> QED BY <2>1, <2>4, <3>1, <3>2, LendingKept DEF v
  <2> QED BY <1>7, <2>2, <2>3, <2>4 DEF ReleaseBinder, PutParcelNode
<1>8. CASE Translate(x) BY <1>8, LendingTranslate
<1>9. CASE ReleaseHandle(x) BY <1>9, LendingReleaseHandle
<1> QED BY <1>1, <1>3, <1>4, <1>5, <1>6, <1>7, <1>8, <1>9, LendingSend

LEMMA NoParcelLends ==
    ASSUME NEW p, NEW s
    PROVE  LentOf(NoParcel, p, s) = 0 /\ AwayOf(NoParcel, p, s) = 0
BY DEF LentOf, AwayOf, NoParcel, LentStates

LEMMA LendingNext ==
    ASSUME IInv, IInv', Lending, HandsShape, HandsShape', Next
    PROVE  Lending'
<1>1. Others BY Facts
<1>2. ASSUME NEW p \in Procs, NEW s \in BOOLEAN
      PROVE  Count(ref[p], s) \in Nat /\ Count(NoRef, s) = 0
  BY <1>1, CountTypeOf DEF Count, NoRef
<1>3. ASSUME NEW y \in Parcels, NEW p \in Procs, NEW s \in BOOLEAN
      PROVE  LentOf(parcel[y], p, s) \in Nat /\ AwayOf(parcel[y], p, s) \in Nat
  BY DEF LentOf, AwayOf
<1>4. CASE Objects BY <1>4, LendingObjects
<1>5. ASSUME NEW p \in Procs, FinishDecRef(p) PROVE Lending'
  <2>1. /\ ref' = [ref EXCEPT ![p] = NoRef] /\ UNCHANGED <<prc, careless>> /\ p \in locked
        /\ \A y \in Parcels : parcel'[y] = parcel[y] \/ parcel'[y] = NoParcel
    BY <1>5 DEF FinishDecRef, CleanupRef
  <2>2. ASSUME NEW q \in Procs, NEW s \in BOOLEAN
        PROVE  Count(ref'[q], s) >= Count(ref[q], s)
    <3>1. CASE q = p
      <4>1. ref'[q] = NoRef /\ Count(ref[q], s) = 0
        BY <1>1, <2>1, <3>1 DEF Others, RefShape, Count
      <4> QED BY <1>2, <4>1
    <3>2. CASE q # p
      <4>1. ref'[q] = ref[q] BY <1>1, <2>1, <3>2 DEF Others
      <4> QED BY <1>2, <4>1
    <3> QED BY <3>1, <3>2
  <2>3. \A y \in Parcels :
          \/ parcel'[y] = parcel[y]
          \/ /\ parcel'[y].st # "looked"
             /\ \A q \in Procs, s \in BOOLEAN : prc'[q] = "open" =>
                  /\ LentOf(parcel'[y], q, s) <= LentOf(parcel[y], q, s)
                  /\ AwayOf(parcel'[y], q, s) <= AwayOf(parcel[y], q, s)
    <3>1. ASSUME NEW y \in Parcels, parcel'[y] = NoParcel,
                 NEW q \in Procs, NEW s \in BOOLEAN
          PROVE  /\ LentOf(parcel'[y], q, s) <= LentOf(parcel[y], q, s)
                 /\ AwayOf(parcel'[y], q, s) <= AwayOf(parcel[y], q, s)
      <4>1. LentOf(parcel'[y], q, s) = 0 /\ AwayOf(parcel'[y], q, s) = 0
        BY <3>1, NoParcelLends
      <4> QED BY <1>3, <4>1
    <3>2. NoParcel.st # "looked" BY DEF NoParcel
    <3> QED BY <2>1, <3>1, <3>2
  <2> QED BY <2>1, <2>2, <2>3, LendingOther
<1>6. ASSUME NEW p \in Clients, NEW strong \in BOOLEAN, TakeRef(p, strong)
      PROVE  Lending'
  <2> DEFINE r == [ref[p] EXCEPT !.on = TRUE]
  <2>1. /\ UNCHANGED <<parcel, prc, careless>> /\ p \in Procs
        /\ \/ ref' = [ref EXCEPT ![p] = r]
           \/ ref' = [ref EXCEPT ![p] = Counted(r, strong, 1)]
    BY <1>6 DEF TakeRef, IncRef, Procs
  <2>2. r \in Ref /\ (\A s \in BOOLEAN : Count(r, s) = Count(ref[p], s)) /\ 1 \in Int
    <3>1. ref[p] \in Ref BY <1>1, <2>1 DEF Others
    <3> QED BY <3>1, RefOn
  <2> HIDE DEF r
  <2>3. ASSUME NEW q \in Procs, NEW s \in BOOLEAN
        PROVE  Count(ref'[q], s) >= Count(ref[q], s)
    <3>1. CASE q # p
      <4>1. ref'[q] = ref[q] BY <1>1, <2>1, <3>1 DEF Others
      <4> QED BY <1>2, <4>1
    <3>2. CASE q = p
      <4>1. CASE ref'[q] = r BY <1>2, <2>2, <3>2, <4>1
      <4>2. CASE ref'[q] = Counted(r, strong, 1)
        <5>1. Count(ref'[q], s) = Count(r, s) + (IF strong = s THEN 1 ELSE 0)
          BY <2>2, <4>2, CountedCount
        <5> QED BY <1>2, <2>2, <3>2, <5>1
      <4> QED BY <1>1, <2>1, <3>2, <4>1, <4>2 DEF Others
    <3> QED BY <3>1, <3>2
  <2> QED BY <2>1, <2>3, LendingOther
<1>7. ASSUME NEW p \in Clients, NEW strong \in BOOLEAN, DropRef(p, strong)
      PROVE  Lending'
  BY <1>7, LendingDropRef
<1>8. ASSUME NEW p \in Procs, ReleaseRef(p) PROVE Lending'
  <2>1. /\ ref' = [ref EXCEPT ![p] = NoRef] /\ UNCHANGED <<parcel, prc, careless>>
        /\ prc[p] = "refs"
    BY <1>8 DEF ReleaseRef, CleanupRef
  <2>2. ASSUME NEW q \in Procs, NEW s \in BOOLEAN, prc'[q] = "open"
        PROVE  Count(ref'[q], s) >= Count(ref[q], s)
    <3>1. ref'[q] = ref[q] BY <1>1, <2>1, <2>2 DEF Others
    <3> QED BY <1>2, <3>1
  <2> QED BY <2>1, <2>2, LendingOther
<1>9. ASSUME NEW p \in Procs, Close(p) PROVE Lending'
  <2>1. /\ UNCHANGED <<ref, careless>> /\ prc[p] = "open"
        /\ \E s \in {"dead", "refs"} : prc' = [prc EXCEPT ![p] = s]
        /\ \A y \in Parcels : parcel'[y] = parcel[y] \/ parcel'[y] = NoParcel
    BY <1>9 DEF Close
  <2>2. \A q \in Procs : prc'[q] = "open" => prc[q] = "open"
    BY <1>1, <2>1 DEF Others
  <2>3. \A y \in Parcels :
          \/ parcel'[y] = parcel[y]
          \/ /\ parcel'[y].st # "looked"
             /\ \A q \in Procs, s \in BOOLEAN : prc'[q] = "open" =>
                  /\ LentOf(parcel'[y], q, s) <= LentOf(parcel[y], q, s)
                  /\ AwayOf(parcel'[y], q, s) <= AwayOf(parcel[y], q, s)
    <3>1. ASSUME NEW y \in Parcels, parcel'[y] = NoParcel,
                 NEW q \in Procs, NEW s \in BOOLEAN
          PROVE  /\ LentOf(parcel'[y], q, s) <= LentOf(parcel[y], q, s)
                 /\ AwayOf(parcel'[y], q, s) <= AwayOf(parcel[y], q, s)
      <4>1. LentOf(parcel'[y], q, s) = 0 /\ AwayOf(parcel'[y], q, s) = 0
        BY <3>1, NoParcelLends
      <4> QED BY <1>3, <4>1
    <3>2. NoParcel.st # "looked" BY DEF NoParcel
    <3> QED BY <2>1, <3>1, <3>2
  <2>4. \A q \in Procs, s \in BOOLEAN : Count(ref'[q], s) >= Count(ref[q], s)
    BY <1>2, <2>1
  <2> QED BY <2>1, <2>2, <2>3, <2>4, LendingOther
<1>10. ASSUME UNCHANGED <<ref, parcel>>, careless => careless',
              \A p \in Procs : prc'[p] = "open" => prc[p] = "open"
       PROVE  Lending'
  <2>1. \A q \in Procs, s \in BOOLEAN : Count(ref'[q], s) >= Count(ref[q], s)
    BY <1>2, <1>10
  <2> QED BY <1>10, <2>1, LendingOther
<1>11. ASSUME UNCHANGED <<ref, parcel, prc>>, careless => careless'
       PROVE  Lending'
  BY <1>10, <1>11
<1>12. ASSUME UNCHANGED <<ref, parcel, careless>>, NEW p \in Procs, NEW s,
              s # "open", prc' = [prc EXCEPT ![p] = s]
       PROVE  Lending'
  <2>1. \A q \in Procs : prc'[q] = "open" => prc[q] = "open"
    BY <1>1, <1>12 DEF Others
  <2> QED BY <1>10, <1>12, <2>1
<1>13. ASSUME NEW p \in Procs, ReleaseDone(p) PROVE Lending'
  BY <1>12, <1>13 DEF ReleaseDone
<1>14. CASE EraseNode \/ NodeRelease \/ NodeReleasePut
  <2>1. PICK s \in {"erased", "refs", "put"} : prc' = [prc EXCEPT ![Server] = s]
    BY <1>14 DEF EraseNode, NodeRelease, NodeReleasePut
  <2>2. UNCHANGED <<ref, parcel, careless>> /\ Server \in Procs
    BY <1>14 DEF EraseNode, NodeRelease, NodeReleasePut, Procs
  <2> QED BY <1>12, <2>1, <2>2
<1>15. \/ Objects
       \/ \E p \in Procs : \/ FinishDecRef(p) \/ Close(p) \/ ReleaseDone(p)
                           \/ ReleaseRef(p)
       \/ \E p \in Clients, strong \in BOOLEAN : TakeRef(p, strong) \/ DropRef(p, strong)
       \/ EraseNode \/ NodeRelease \/ NodeReleasePut
       \/ UNCHANGED <<ref, parcel, prc>> /\ (careless => careless')
  BY DEF Next, GetNodeRefsForTxn, HandCall, ReleaseTarget,
         PutTarget, SetCtxMgr, ServerThread, ReadNode, ThreadExit, Done, DoneDec,
         DonePut
<1> QED BY <1>4, <1>5, <1>6, <1>7, <1>8, <1>9, <1>11, <1>13, <1>14, <1>15

-----------------------------------------------------------------------------
(* What an object or a command that takes a reference relies on. *)

LEMMA CarefulNext ==
    ASSUME IInv, Next
    PROVE  Careful' => Careful
<1>1. CASE Objects
  <2>1. UNCHANGED prc
    <3>1. PICK x \in Parcels :
            \/ \E strong \in BOOLEAN, p \in Procs :
                 \/ \E th \in Threads : SendBinder(x, th, p, strong)
                 \/ \E q \in Clients : SendHandle(x, q, p, strong)
            \/ TranslateHome(x) \/ Translate(x) \/ TranslateNoMem(x)
            \/ Hand(x) \/ Fail(x)
            \/ \E th \in Threads \union {None} : FreeBuffer(x, th)
            \/ ReleaseHandle(x) \/ ReleaseBinder(x) \/ ReleaseBinderDec(x)
            \/ PutParcelNode(x)
      BY <1>1 DEF Objects
    <3>2. CASE \E strong \in BOOLEAN, p \in Procs :
                 \/ \E th \in Threads : SendBinder(x, th, p, strong)
                 \/ \E q \in Clients : SendHandle(x, q, p, strong)
      BY <3>2 DEF SendBinder, SendHandle
    <3>3. CASE TranslateHome(x) \/ Translate(x) \/ TranslateNoMem(x)
      BY <3>3 DEF TranslateHome, Translate, TranslateNoMem
    <3>4. CASE \/ Hand(x) \/ Fail(x)
               \/ \E th \in Threads \union {None} : FreeBuffer(x, th)
      BY <3>4 DEF Hand, Fail, FreeBuffer
    <3>5. CASE \/ ReleaseHandle(x) \/ ReleaseBinder(x) \/ ReleaseBinderDec(x)
               \/ PutParcelNode(x)
      BY <3>5 DEF ReleaseHandle, ReleaseBinder, ReleaseBinderDec, PutParcelNode
    <3> QED BY <3>1, <3>2, <3>3, <3>4, <3>5
  <2>2. \/ UNCHANGED careless
        \/ \E x \in Parcels :
             \/ ReleaseHandle(x)
             \/ \E q \in Clients, p \in Procs, strong \in BOOLEAN :
                  SendHandle(x, q, p, strong)
    BY ZenonT(60), <1>1 DEF Objects, SendBinder, TranslateHome, Translate, TranslateNoMem,
         Hand, Fail, FreeBuffer, ReleaseBinder, ReleaseBinderDec, PutParcelNode
  <2>3. careless => careless' BY ZenonT(60), <2>2 DEF ReleaseHandle, SendHandle
  <2> QED BY <2>1, <2>3 DEF Careful, Open
<1>2. ASSUME UNCHANGED careless, NEW p \in Procs, NEW s, s # "open",
             prc' = [prc EXCEPT ![p] = s]
      PROVE  Careful' => Careful
  <2>1. prc \in [Procs -> {"open", "dead", "erased", "put", "refs", "released"}]
    BY Facts DEF Others
  <2>2. prc'[Server] = "open" => prc[Server] = "open" BY <1>2, <2>1 DEF Procs
  <2> QED BY <1>2, <2>2 DEF Careful, Open
<1>3. ASSUME UNCHANGED prc, careless => careless' PROVE Careful' => Careful
  BY <1>3 DEF Careful, Open
<1>4. ASSUME NEW p \in Procs, Close(p) PROVE Careful' => Careful
  <2>1. PICK s \in {"dead", "refs"} : prc' = [prc EXCEPT ![p] = s]
    BY <1>4 DEF Close
  <2>2. UNCHANGED careless BY <1>4 DEF Close
  <2> QED BY <1>2, <2>1, <2>2
<1>5. ASSUME NEW p \in Procs, ReleaseDone(p) PROVE Careful' => Careful
  BY <1>2, <1>5 DEF ReleaseDone
<1>6. CASE EraseNode \/ NodeRelease \/ NodeReleasePut
  <2>1. PICK s \in {"erased", "refs", "put"} : prc' = [prc EXCEPT ![Server] = s]
    BY <1>6 DEF EraseNode, NodeRelease, NodeReleasePut
  <2>2. UNCHANGED careless BY <1>6 DEF EraseNode, NodeRelease, NodeReleasePut
  <2> QED BY <1>2, <2>1, <2>2 DEF Procs
<1>7. ASSUME NEW p \in Clients, NEW strong \in BOOLEAN, DropRef(p, strong)
      PROVE  Careful' => Careful
  BY <1>3, <1>7 DEF DropRef
<1>8. ASSUME NEW th \in Threads, ThreadExit(th) PROVE Careful' => Careful
  BY <1>3, <1>8 DEF ThreadExit
<1>9. CASE UNCHANGED <<prc, careless>> BY <1>3, <1>9
<1>10. \/ Objects \/ UNCHANGED <<prc, careless>>
       \/ \E p \in Clients, strong \in BOOLEAN : DropRef(p, strong)
       \/ \E th \in Threads : ThreadExit(th)
       \/ \E p \in Procs : Close(p) \/ ReleaseDone(p)
       \/ EraseNode \/ NodeRelease \/ NodeReleasePut
  BY DEF Next, FinishDecRef, TakeRef, GetNodeRefsForTxn, HandCall,
         ReleaseTarget, PutTarget, SetCtxMgr, ServerThread, ReadNode,
         Done, DoneDec, DonePut, ReleaseRef
<1> QED BY <1>1, <1>4, <1>5, <1>6, <1>7, <1>8, <1>9, <1>10

\* A process that has a count has a ref, which the node counts.
LEMMA CountedRef ==
    ASSUME IInv, NEW p \in Procs
    PROVE  /\ ref[p].strong > 0 => p \in Linked /\ Internal > 0 /\ node.internal > 0
           /\ ref[p].weak > 0 => p \in Linked
           /\ p \in Linked => node.exists
<1>1. /\ Others /\ ref[p] \in Ref /\ node.internal = Internal /\ Internal \in Nat
      /\ (Linked # {} => node.exists)
  BY Facts DEF Others, Counts
<1>2. ~ref[p].on => ref[p].strong = 0 /\ ref[p].weak = 0
  BY <1>1 DEF Others, RefShape, NoRef
<1>3. ref[p].strong > 0 \/ ref[p].weak > 0 => p \in Linked
  BY <1>2 DEF Linked
<1>4. ASSUME ref[p].strong > 0 PROVE Internal > 0
  <2>1. p \in StrongRefs BY <1>4 DEF StrongRefs
  <2>2. IsFiniteSet(StrongRefs)
    BY FiniteAssumption, FS_AddElement, FS_Subset DEF StrongRefs, Procs
  <2>3. Internal # 0 BY <2>1, <2>2, FS_EmptySet DEF Internal
  <2> QED BY <1>1, <2>3
<1> QED BY <1>1, <1>3, <1>4

\* The sender of an object holds a count, strong for a strong object.
LEMMA LeansOn ==
    ASSUME IInv, Lending, ~careless, NEW x \in Parcels, parcel[x].st = "looked",
           parcel[x].by \in Clients
    PROVE  Linked # {} /\ (parcel[x].strong => node.internal > 0)
<1>1. Others /\ parcel[x] \in Parcel BY Facts, ParcelFacts
<1>2. PICK q \in Procs, u \in BOOLEAN : q = parcel[x].by /\ u = parcel[x].strong
  BY <1>1 DEF Parcel, Procs
<1>3. Has(q, u) > 0 BY <1>2, LendingIs DEF Leans
<1> DEFINE a == Held(q, TRUE)
           b == Held(q, FALSE)
           ct == Count(ref[q], TRUE)
           cf == Count(ref[q], FALSE)
           at == Away(q, TRUE)
           af == Away(q, FALSE)
<1>4. /\ a = ct - at /\ b = cf - af /\ ct \in Nat /\ cf \in Nat
      /\ at \in Nat /\ af \in Nat
  BY <1>1, CountTypeOf, LentIs, LendTypes
<1>5. Has(q, u) = a + (IF u THEN 0 ELSE b) BY Zenon DEF Has
<1>6. ct = ref[q].strong /\ cf = ref[q].weak BY DEF Count
<1> HIDE DEF a, b, ct, cf, at, af
<1>7. a + (IF u THEN 0 ELSE b) > 0 BY <1>3, <1>5, Zenon
<1>8. ct > 0 \/ cf > 0 BY <1>4, <1>7
<1>9. u => ct > 0 BY <1>4, <1>7
<1> QED BY <1>2, <1>6, <1>8, <1>9, CountedRef

\* News for the increment of a translation: on the thread of the server that
\* sends its node, or not needed.
LEMMA LookedNews ==
    ASSUME IInv, Lending, HandsShape, News(node, Linked, Careful, Erased, mgr),
           Careful, NEW x \in Parcels, parcel[x].st = "looked",
           parcel[x].th = None \/ parcel[x].to = Server
    PROVE  IF parcel[x].strong THEN node.internal > 0
           ELSE node.hasWeak \/ node.work # None
<1>1. parcel[x].by \in Clients
  BY ParcelFacts DEF HandsShape, Parcel, Procs
<1>2. ~careless BY DEF Careful
<1>3. Linked # {} /\ (parcel[x].strong => node.internal > 0)
  BY <1>1, <1>2, LeansOn
<1>4. node.hasWeak \/ node.work # None BY <1>3 DEF News, Knows, Announces
<1> QED BY <1>3, <1>4

\* The node of a context manager is known to its server.
LEMMA ManagerKnows ==
    ASSUME IInv, News(node, Linked, Careful, Erased, mgr), mgr
    PROVE  /\ node.hasStrong /\ node.hasWeak /\ node.proc /\ node.exists /\ Open
           /\ node.localStrong \in Nat /\ node.localStrong # 0
BY Facts DEF News, Placed, Counts

-----------------------------------------------------------------------------
(* No ref is without a count. *)

LEMMA CountedTranslate ==
    ASSUME IInv, Lending, HandsShape, RefsCounted, Careful,
           News(node, Linked, Careful, Erased, mgr), NEW x \in Parcels, Translate(x)
    PROVE  \A p \in Procs \ locked' : RefCounted(p)'
<1> DEFINE m == parcel[x]
           r == [ref[m.to] EXCEPT !.on = TRUE]
<1>1. /\ Others /\ m \in Parcel /\ m.to \in Procs /\ m.st = "looked"
      /\ UNCHANGED locked /\ ref \in [Procs -> Ref] /\ ref[m.to] \in Ref
  BY Facts, ParcelFacts DEF Translate, Others
<1>2. ~RefFails(m.to, m.strong, m.th)
  <2>1. ASSUME IncFails(node, m.strong, TRUE, m.th) PROVE FALSE
    <3>1. m.th = None BY <2>1 DEF IncFails
    <3>2. IF m.strong THEN node.internal > 0 ELSE node.hasWeak \/ node.work # None
      BY <1>1, <3>1, LookedNews
    <3> QED BY <2>1, <3>2 DEF IncFails
  <2> QED BY <2>1 DEF RefFails
<1>3. ref' = [ref EXCEPT ![m.to] = Counted(r, m.strong, 1)]
  BY <1>2 DEF Translate, IncRef
<1>4. Counted(r, m.strong, 1).strong > 0 \/ Counted(r, m.strong, 1).weak > 0
  BY <1>1 DEF Counted, Ref
<1>5. ASSUME NEW p \in Procs \ locked' PROVE RefCounted(p)'
  <2>1. CASE p = m.to
    <3>1. ref'[p] = Counted(r, m.strong, 1) BY <1>1, <1>3, <2>1
    <3> QED BY <1>4, <3>1 DEF RefCounted
  <2>2. CASE p # m.to
    <3>1. ref'[p] = ref[p] BY <1>1, <1>3, <2>2
    <3> QED BY <1>1, <3>1 DEF RefsCounted, RefCounted
  <2> QED BY <2>1, <2>2
<1> QED BY <1>5

LEMMA CountedTake ==
    ASSUME IInv, RefsCounted, Careful, News(node, Linked, Careful, Erased, mgr),
           NEW q \in Clients, NEW strong \in BOOLEAN, TakeRef(q, strong)
    PROVE  \A p \in Procs \ locked' : RefCounted(p)'
<1> DEFINE r == [ref[q] EXCEPT !.on = TRUE]
<1>1. /\ Others /\ q \in Procs
      /\ UNCHANGED locked /\ ref \in [Procs -> Ref] /\ ref[q] \in Ref
  BY Facts DEF TakeRef, Others, Procs
<1>2. ~RefFails(q, strong, None)
  BY ManagerKnows DEF TakeRef, RefFails, IncFails
<1>3. ref' = [ref EXCEPT ![q] = Counted(r, strong, 1)]
  BY <1>2 DEF TakeRef, IncRef
<1>4. Counted(r, strong, 1).strong > 0 \/ Counted(r, strong, 1).weak > 0
  BY <1>1 DEF Counted, Ref
<1>5. ASSUME NEW p \in Procs \ locked' PROVE RefCounted(p)'
  <2>1. CASE p = q
    <3>1. ref'[p] = Counted(r, strong, 1) BY <1>1, <1>3, <2>1
    <3> QED BY <1>4, <3>1 DEF RefCounted
  <2>2. CASE p # q
    <3>1. ref'[p] = ref[p] BY <1>1, <1>3, <2>2
    <3> QED BY <1>1, <3>1 DEF RefsCounted, RefCounted
  <2> QED BY <2>1, <2>2
<1> QED BY <1>5

LEMMA CountedDec ==
    ASSUME IInv, RefsCounted, Careful, NEW q \in Procs, NEW strong \in BOOLEAN,
           DecRef(q, strong)
    PROVE  \A p \in Procs \ locked' : RefCounted(p)'
<1>1. Others /\ ref \in [Procs -> Ref] /\ ref[q] \in Ref BY Facts DEF Others
<1>2. CASE ~Drops(q, strong)
  <2>1. UNCHANGED <<ref, locked>> BY <1>2 DEF DecRef
  <2> QED BY <2>1 DEF RefsCounted, RefCounted
<1>3. CASE Drops(q, strong)
  <2>1. /\ ref' = [ref EXCEPT ![q] = Counted(@, strong, -1)]
        /\ locked' = IF Empties(q, strong) THEN locked \union {q} ELSE locked
    BY <1>3 DEF DecRef
  <2>2. ASSUME NEW p \in Procs \ locked' PROVE RefCounted(p)'
    <3>1. p \notin locked BY <2>1
    <3>2. CASE p # q
      <4>1. ref'[p] = ref[p] BY <1>1, <2>1, <3>2
      <4> QED BY <3>1, <4>1 DEF RefsCounted, RefCounted
    <3>3. CASE p = q
      <4>1. ~Empties(q, strong) BY <2>1, <3>3
      <4>2. ref'[p] = Counted(ref[q], strong, -1) BY <1>1, <2>1, <3>3
      <4>3. CASE strong
        <5>1. ref[q].strong > 1 \/ (ref[q].strong = 1 /\ ref[q].weak > 0)
          BY <1>1, <1>3, <4>1, <4>3 DEF Empties, Drops, Count, Ref
        <5>2. ref'[p].strong = ref[q].strong - 1 /\ ref'[p].weak = ref[q].weak
          BY <1>1, <4>2, <4>3 DEF Counted, Ref
        <5> QED BY <1>1, <5>1, <5>2 DEF RefCounted, Ref
      <4>4. CASE ~strong
        <5>1. ref[q].weak > 1 \/ (ref[q].weak = 1 /\ ref[q].strong > 0)
          BY <1>1, <1>3, <4>1, <4>4 DEF Empties, Drops, Count, Ref
        <5>2. ref'[p].weak = ref[q].weak - 1 /\ ref'[p].strong = ref[q].strong
          BY <1>1, <4>2, <4>4 DEF Counted, Ref
        <5> QED BY <1>1, <5>1, <5>2 DEF RefCounted, Ref
      <4> QED BY <4>3, <4>4
    <3> QED BY <3>2, <3>3
  <2> QED BY <2>2
<1> QED BY <1>2, <1>3

LEMMA CountedNext ==
    ASSUME IInv, IInv', LInv, Next
    PROVE  RefsCounted'
<1>1. /\ News(node, Linked, Careful, Erased, mgr) /\ RefsCounted
      /\ HandsShape /\ Lending /\ Others
  BY LSorted, Facts
<1> SUFFICES ASSUME Careful'
             PROVE  \A p \in Procs \ locked' : RefCounted(p)'
  BY DEF RefsCounted
<1>2. Careful BY CarefulNext
<1>3. ASSUME UNCHANGED <<ref, locked>>
      PROVE  \A p \in Procs \ locked' : RefCounted(p)'
  BY <1>1, <1>2, <1>3 DEF RefsCounted, RefCounted
<1>4. ASSUME NEW q \in Procs, CleanupRef(q), locked' = locked \ {q}
      PROVE  \A p \in Procs \ locked' : RefCounted(p)'
  <2>1. \A p \in Procs : ref'[p] = IF p = q THEN NoRef ELSE ref[p]
    BY <1>1, <1>4 DEF CleanupRef, Others
  <2>2. ~NoRef.on BY DEF NoRef
  <2> QED BY <1>1, <1>2, <1>4, <2>1, <2>2 DEF RefsCounted, RefCounted
<1>5. CASE Objects
  <2>1. PICK x \in Parcels :
          Translate(x) \/ ReleaseHandle(x) \/ UNCHANGED <<ref, locked>>
    BY ZenonT(60), <1>5 DEF Objects, SendBinder, SendHandle, TranslateHome, TranslateNoMem,
                Hand, Fail, FreeBuffer, ReleaseBinder, ReleaseBinderDec,
                PutParcelNode
  <2>2. CASE ReleaseHandle(x)
    <3>1. parcel[x].to \in Procs /\ parcel[x].strong \in BOOLEAN
          /\ DecRef(parcel[x].to, parcel[x].strong)
      BY <2>2, ParcelFacts DEF ReleaseHandle, Parcel
    <3> QED BY <1>1, <1>2, <3>1, CountedDec
  <2> QED BY <1>1, <1>2, <1>3, <2>1, <2>2, CountedTranslate
<1>6. ASSUME NEW q \in Procs, FinishDecRef(q) \/ ReleaseRef(q)
      PROVE  \A p \in Procs \ locked' : RefCounted(p)'
  BY <1>4, <1>6 DEF FinishDecRef, ReleaseRef
<1>7. ASSUME NEW q \in Clients, NEW strong \in BOOLEAN,
             TakeRef(q, strong) \/ DropRef(q, strong)
      PROVE  \A p \in Procs \ locked' : RefCounted(p)'
  <2>1. q \in Procs BY DEF Procs
  <2> QED BY <1>1, <1>2, <1>7, <2>1, CountedTake, CountedDec DEF DropRef
<1>8. \/ Objects \/ \E q \in Procs : FinishDecRef(q) \/ ReleaseRef(q)
      \/ \E q \in Clients, strong \in BOOLEAN : TakeRef(q, strong) \/ DropRef(q, strong)
      \/ UNCHANGED <<ref, locked>>
  BY DEF Next, GetNodeRefsForTxn, HandCall, ReleaseTarget, PutTarget, SetCtxMgr,
         ServerThread, ReadNode, ThreadExit, Done, DoneDec, DonePut, Close,
         ReleaseDone, EraseNode, NodeRelease, NodeReleasePut
<1> QED BY <1>3, <1>5, <1>6, <1>7, <1>8

-----------------------------------------------------------------------------
(* What the server knows, action by action. *)

LEMMA NewsWeaken ==
    ASSUME NEW n, NEW linked, NEW c, NEW e, NEW g, NEW c1, NEW e1, NEW g1,
           News(n, linked, c, e, g), c1 => c, e1 => e, g1 => g
    PROVE  News(n, linked, c1, e1, g1)
BY DEF News

\* The state as the lemmas about a node need it.
NewsNow == News(node, Linked, Careful, Erased, mgr)
NewsNext == News(node', Linked', Careful', Erased', mgr')

LEMMA NodeFacts ==
    ASSUME IInv
    PROVE  /\ Others /\ node \in Node
           /\ node.tmp = Holders /\ node.tmp \in Nat
           /\ node.internal = Internal /\ node.internal \in Nat
           /\ Linked = {} => node.internal = 0
           /\ Careful \/ mgr => (node.exists => node.proc)
           /\ Careful => node.localStrong \in Nat /\ node.localWeak \in Nat
           /\ Careful \in BOOLEAN /\ Erased \in BOOLEAN /\ mgr \in BOOLEAN
           /\ mgr => Open
<1>1. /\ Others /\ node \in Node
      /\ node.tmp = Holders /\ node.tmp \in Nat
      /\ node.internal = Internal /\ node.internal \in Nat
      /\ Linked = {} => node.internal = 0
      /\ mgr \in BOOLEAN /\ (mgr => Open)
  BY Facts DEF Counts
<1>2. Open => (node.exists => node.proc) BY Facts DEF Placed
<1>3. Open => node.localStrong \in Nat /\ node.localWeak \in Nat
  BY Facts DEF Counts
<1>4. Careful \in BOOLEAN /\ Erased \in BOOLEAN BY DEF Careful, Erased
<1> QED BY <1>1, <1>2, <1>3, <1>4 DEF Careful

LEMMA NewsKept ==
    ASSUME Careful' => Careful, UNCHANGED <<prc, mgr>>,
           News(node', Linked', Careful, Erased, mgr)
    PROVE  NewsNext
<1>1. Erased' => Erased BY DEF Erased
<1>2. mgr' => mgr OBVIOUS
<1> QED BY <1>1, <1>2, NewsWeaken DEF NewsNext

\* The node keeps, gains or loses a holder.
LEMMA NewsSame ==
    ASSUME NewsNow, Careful' => Careful, UNCHANGED <<node, ref, prc, mgr>>
    PROVE  NewsNext
BY RefSame, NewsKept DEF NewsNow

LEMMA NewsTmp ==
    ASSUME IInv, NewsNow, Careful' => Careful, UNCHANGED <<ref, prc, mgr>>,
           node' = Tmp(node)
    PROVE  NewsNext
<1>1. News(Tmp(node), Linked, Careful, Erased, mgr)
  BY NodeFacts, TmpNews DEF NewsNow
<1> QED BY <1>1, RefSame, NewsKept

LEMMA NewsPut ==
    ASSUME IInv, NewsNow, Careful' => Careful, UNCHANGED <<ref, prc, mgr>>,
           node.exists, node' = Put(node, Linked)
    PROVE  NewsNext
<1>1. News(Put(node, Linked), Linked, Careful, Erased, mgr)
  BY NodeFacts, PutNews DEF NewsNow
<1> QED BY <1>1, RefSame, NewsKept

\* The server or a call gives a local reference back.
LEMMA NewsDrop ==
    ASSUME IInv, NEW n \in Node, NEW strong \in BOOLEAN,
           News(n, Linked, Careful, Erased, mgr), Careful \/ mgr => n.proc,
           n.internal = node.internal,
           Careful => IF strong THEN n.localStrong > 0 ELSE n.localWeak > 0,
           Careful' => Careful, UNCHANGED <<ref, prc, mgr>>,
           node' = Dec(n, strong, FALSE, Linked)
    PROVE  NewsNext
<1> DEFINE no == FALSE
<1>1. no \in BOOLEAN /\ ~no /\ node' = Dec(n, strong, no, Linked) OBVIOUS
<1> HIDE DEF no
<1>2. /\ n.internal \in Nat /\ (Linked = {} => n.internal = 0)
      /\ Careful \/ mgr => n.proc
  BY NodeFacts
<1>3. Linked = {} => n.internal = IF strong /\ no THEN 1 ELSE 0 BY <1>1, <1>2
<1>4. News(Dec(n, strong, no, Linked), Linked, Careful, Erased, mgr)
  BY <1>1, <1>2, <1>3, DecNews
<1> QED BY <1>1, <1>4, RefSame, NewsKept

LEMMA NewsSend ==
    ASSUME IInv, NewsNow, Careful' => Careful, NEW x \in Parcels, NEW p \in Procs,
           NEW strong \in BOOLEAN,
           \/ \E th \in Threads : SendBinder(x, th, p, strong)
           \/ \E q \in Clients : SendHandle(x, q, p, strong)
    PROVE  NewsNext
<1>1. ASSUME NEW th \in Threads, SendBinder(x, th, p, strong) PROVE NewsNext
  <2>1. UNCHANGED <<ref, prc, mgr>> BY <1>1 DEF SendBinder
  <2>2. CASE node.exists BY <1>1, <2>1, <2>2, NewsTmp DEF SendBinder
  <2>3. CASE ~node.exists
    <3> DEFINE m == [NoNode EXCEPT !.exists = TRUE, !.tree = TRUE, !.proc = TRUE,
                                   !.tmp = 1]
    <3>1. node' = m BY <1>1, <2>3 DEF SendBinder
    <3>2. /\ ~m.hasStrong /\ ~m.hasWeak /\ m.internal = 0 /\ m.localStrong = 0
          /\ m.localWeak = 0 /\ m.tmp = 1
      BY DEF NoNode
    <3>3. Linked = {} /\ ~mgr BY <2>3, Facts
    <3>4. ~Erased BY <1>1 DEF SendBinder, Erased
    <3> HIDE DEF m
    <3>5. News(m, Linked, Careful, Erased, mgr)
      BY <3>2, <3>3, <3>4
      DEF News, Left, Knows, Announces, Unused, InUseStrong, InUseWeak
    <3> QED BY <2>1, <3>1, <3>5, RefSame, NewsKept
  <2> QED BY <2>2, <2>3
<1>2. ASSUME NEW q \in Clients, SendHandle(x, q, p, strong) PROVE NewsNext
  <2>1. UNCHANGED <<ref, prc, mgr>> /\ node' = Tmp(node) BY <1>2 DEF SendHandle
  <2> QED BY <2>1, NewsTmp
<1> QED BY <1>1, <1>2

LEMMA NewsHome ==
    ASSUME IInv, Lending, HandsShape, NewsNow, Careful' => Careful,
           NEW x \in Parcels, TranslateHome(x)
    PROVE  NewsNext
<1> DEFINE s == parcel[x].strong
           no == FALSE
           list == None
<1>1. /\ parcel[x].st = "looked" /\ parcel[x].to = Server
      /\ UNCHANGED <<ref, prc, mgr>> /\ node' = Inc(node, s, no, list)
  BY DEF TranslateHome
<1>2. Careful => IF s THEN node.internal > 0 ELSE node.hasWeak \/ node.work # None
  BY <1>1, LookedNews DEF NewsNow
<1>3. node.tmp # 0
  <2>1. TmpOf(parcel[x]) = 1 BY <1>1 DEF TmpOf
  <2> QED BY <2>1, ParcelFacts, NodeFacts
<1>4. s \in BOOLEAN /\ no \in BOOLEAN /\ list \in Threads \union {None}
  BY ParcelFacts DEF Parcel
<1> HIDE DEF s, no, list
<1>5. Careful => IF s THEN node.hasStrong \/ InUseStrong(node)
                 ELSE node.hasWeak \/ node.work # None
  BY <1>2, NodeFacts DEF InUseStrong
<1>6. News(Inc(node, s, no, list), Linked, Careful, Erased, mgr)
  BY <1>3, <1>4, <1>5, NodeFacts, IncNews DEF NewsNow
<1> QED BY <1>1, <1>6, RefSame, NewsKept

LEMMA CountedType ==
    ASSUME NEW r \in Ref, NEW s \in BOOLEAN, NEW d \in Int, Count(r, s) + d \in Nat
    PROVE  Counted(r, s, d) \in Ref /\ Counted(r, s, d).on = r.on
<1>1. CASE s
  <2>1. /\ Counted(r, s, d) = [r EXCEPT !.strong = @ + d] /\ r.strong + d \in Nat
    BY <1>1 DEF Counted, Count
  <2> QED BY <2>1 DEF Ref
<1>2. CASE ~s
  <2>1. /\ Counted(r, s, d) = [r EXCEPT !.weak = @ + d] /\ r.weak + d \in Nat
    BY <1>2 DEF Counted, Count
  <2> QED BY <2>1 DEF Ref
<1> QED BY <1>1, <1>2

\* A ref is taken or counted once more.
LEMMA NewsIncRef ==
    ASSUME IInv, NewsNow, Careful' => Careful, UNCHANGED <<prc, mgr>>,
           NEW p \in Procs, NEW strong \in BOOLEAN,
           NEW list \in Threads \union {None}, IncRef(p, strong, list),
           Careful /\ list = None /\ Count(ref[p], strong) = 0 =>
             IF strong THEN node.hasStrong \/ node.internal > 0
             ELSE node.hasWeak \/ node.work # None
    PROVE  NewsNext
<1> DEFINE r == [ref[p] EXCEPT !.on = TRUE]
           yes == TRUE
<1>1. Others /\ ref[p] \in Ref /\ ref \in [Procs -> Ref] BY Facts DEF Others
<1>2. r \in Ref /\ r.on BY <1>1 DEF Ref
<1>3. Counted(r, strong, 1) \in Ref /\ Counted(r, strong, 1).on
  <2>1. Count(r, strong) + 1 \in Nat /\ 1 \in Int BY <1>2 DEF Count, Ref
  <2> HIDE DEF r
  <2> QED BY <1>2, <2>1, CountedType
<1>4. PICK v \in Ref : v.on /\ ref' = [ref EXCEPT ![p] = v]
  BY <1>2, <1>3 DEF IncRef
<1>5. Linked' = Linked \union {p} BY <1>1, <1>4, RefUpdate
<1>6. CASE Count(ref[p], strong) # 0
  <2>1. node' = node BY <1>6 DEF IncRef
  <2>2. ref[p].strong > 0 \/ ref[p].weak > 0 BY <1>1, <1>6 DEF Count, Ref
  <2>3. Linked' = Linked BY <1>5, <2>2, CountedRef
  <2> QED BY <2>1, <2>3, NewsKept DEF NewsNow
<1>7. CASE Count(ref[p], strong) = 0
  <2>1. node' = Inc(node, strong, yes, list) BY <1>7 DEF IncRef
  <2>2. yes \in BOOLEAN OBVIOUS
  <2> HIDE DEF yes
  <2>3. Careful /\ list = None =>
          IF strong THEN node.hasStrong \/ InUseStrong(node)
          ELSE node.hasWeak \/ node.work # None
    BY <1>7, NodeFacts DEF InUseStrong
  <2>4. (Linked # {} => Linked' # {}) /\ Linked' # {} BY <1>5
  <2>5. News(Inc(node, strong, yes, list), Linked', Careful, Erased, mgr)
    BY <2>2, <2>3, <2>4, NodeFacts, IncNews DEF NewsNow
  <2> QED BY <2>1, <2>5, NewsKept
<1> QED BY <1>6, <1>7

LEMMA NewsTranslate ==
    ASSUME IInv, Lending, HandsShape, NewsNow, Careful' => Careful,
           NEW x \in Parcels, Translate(x)
    PROVE  NewsNext
<1>1. /\ parcel[x].st = "looked" /\ UNCHANGED <<prc, mgr>>
      /\ IncRef(parcel[x].to, parcel[x].strong, parcel[x].th)
  BY DEF Translate
<1>2. /\ parcel[x].to \in Procs /\ parcel[x].strong \in BOOLEAN
      /\ parcel[x].th \in Threads \union {None}
  BY <1>1, ParcelFacts DEF Parcel
<1>3. Careful /\ parcel[x].th = None =>
        IF parcel[x].strong THEN node.internal > 0
        ELSE node.hasWeak \/ node.work # None
  BY <1>1, LookedNews DEF NewsNow
<1> QED BY <1>1, <1>2, <1>3, NewsIncRef

LEMMA NewsTake ==
    ASSUME IInv, NewsNow, Careful' => Careful,
           NEW p \in Clients, NEW strong \in BOOLEAN, TakeRef(p, strong)
    PROVE  NewsNext
<1> DEFINE list == None
<1>1. /\ UNCHANGED <<prc, mgr>> /\ IncRef(p, strong, list) /\ p \in Procs
      /\ list \in Threads \union {None}
  BY DEF TakeRef, Procs
<1>2. ASSUME Count(ref[p], strong) = 0
      PROVE  IF strong THEN node.hasStrong \/ node.internal > 0
             ELSE node.hasWeak \/ node.work # None
  <2>1. mgr \/ ~IncFails(node, strong, TRUE, None)
    BY <1>2 DEF TakeRef, RefFails
  <2> QED BY <2>1, ManagerKnows, NodeFacts DEF IncFails, NewsNow
<1> HIDE DEF list
<1> QED BY <1>1, <1>2, NewsIncRef

\* A ref loses a count and stays.
LEMMA NewsDecRef ==
    ASSUME IInv, NewsNow, Careful' => Careful, UNCHANGED <<prc, mgr>>,
           NEW p \in Procs, NEW strong \in BOOLEAN, DecRef(p, strong)
    PROVE  NewsNext
<1>1. Others /\ ref[p] \in Ref /\ ref \in [Procs -> Ref] BY Facts DEF Others
<1>2. CASE ~Drops(p, strong)
  BY <1>2, NewsSame DEF DecRef
<1>3. CASE Drops(p, strong)
  <2>1. ref' = [ref EXCEPT ![p] = Counted(ref[p], strong, -1)]
    BY <1>3 DEF DecRef
  <2>2. ref[p].on /\ Counted(ref[p], strong, -1).on = ref[p].on
        /\ Counted(ref[p], strong, -1) \in Ref
    <3>1. ref[p].on /\ Count(ref[p], strong) \in Nat /\ Count(ref[p], strong) > 0
      BY <1>1, <1>3 DEF Drops, Finds, Count, Ref
    <3>2. Count(ref[p], strong) + -1 \in Nat /\ -1 \in Int BY <3>1
    <3> QED BY <1>1, <3>1, <3>2, CountedType
  <2>3. Linked' = Linked /\ Linked # {}
    <3>1. Linked' = Linked \union {p} BY <1>1, <2>1, <2>2, RefUpdate
    <3>2. p \in Linked BY <2>2 DEF Linked
    <3> QED BY <3>1, <3>2
  <2>4. CASE ~(strong /\ ref[p].strong = 1)
    <3>1. node' = node BY <1>3, <2>4 DEF DecRef
    <3> QED BY <2>3, <3>1, NewsKept DEF NewsNow
  <2>5. CASE strong /\ ref[p].strong = 1
    <3> DEFINE yes == TRUE
               in == TRUE
    <3>1. node' = Dec(node, yes, in, Linked) BY <1>3, <2>5 DEF DecRef
    <3>2. yes \in BOOLEAN /\ in \in BOOLEAN /\ yes /\ in OBVIOUS
    <3> HIDE DEF yes, in
    <3>3. node.internal > 0 /\ node.exists BY <2>3, <2>5, CountedRef, Facts
    <3>4. News(Dec(node, yes, in, Linked), Linked, Careful, Erased, mgr)
      <4>1. /\ node \in Node /\ node.internal \in Nat
            /\ Careful \in BOOLEAN /\ Erased \in BOOLEAN /\ mgr \in BOOLEAN
            /\ Careful \/ mgr => node.proc
            /\ News(node, Linked, Careful, Erased, mgr)
        BY <3>3, NodeFacts DEF NewsNow
      <4>2. Linked = {} => node.internal = IF yes /\ in THEN 1 ELSE 0 BY <2>3
      <4>3. /\ Careful /\ yes /\ ~in => node.localStrong > 0
            /\ Careful /\ ~yes /\ ~in => node.localWeak > 0
        BY <3>2
      <4> QED BY <3>2, <3>3, <4>1, <4>2, <4>3, DecNews
    <3> QED BY <2>3, <3>1, <3>4, NewsKept
  <2> QED BY <2>4, <2>5
<1> QED BY <1>2, <1>3

\* A ref goes, with a strong count it may still have.
LEMMA NewsCleanup ==
    ASSUME IInv, NewsNow, Careful' => Careful, UNCHANGED <<prc, mgr>>,
           NEW p \in Procs, ref[p].on, CleanupRef(p), RefShape'
    PROVE  NewsNext
<1> DEFINE n == IF ref[p].strong > 0 THEN GiveStrong(node, Linked) ELSE node
           yes == TRUE
           no == FALSE
<1>1. Others /\ ref[p] \in Ref /\ ref \in [Procs -> Ref] BY Facts DEF Others
<1>2. ref' = [ref EXCEPT ![p] = NoRef] /\ node' = Dec(n, no, yes, Linked \ {p})
  BY DEF CleanupRef, GiveStrong
<1>3. NoRef \in Ref /\ ~NoRef.on /\ RefOf(NoRef) = 0 BY DEF NoRef, Ref, RefOf
<1>4. /\ Internal' \in Nat /\ Internal' = Internal - RefOf(ref[p])
      /\ Linked' = Linked \ {p}
  <2>1. /\ Internal' = Internal + RefOf(NoRef) - RefOf(ref[p])
        /\ Internal \in Nat /\ Internal' \in Nat
        /\ Linked' = IF NoRef.on THEN Linked \union {p} ELSE Linked \ {p}
    BY <1>1, <1>2, <1>3, RefUpdate
  <2>2. RefOf(ref[p]) \in {0, 1} BY DEF RefOf
  <2> QED BY <1>3, <2>1, <2>2
<1>5. p \in Linked /\ node.exists
  <2>1. p \in Linked BY DEF Linked
  <2> QED BY <2>1, Facts
<1>6. Linked' = {} => Internal' = 0 BY UnlinkedNext
<1>7. yes \in BOOLEAN /\ no \in BOOLEAN /\ yes /\ ~no OBVIOUS
<1>8. /\ News(n, Linked, Careful, Erased, mgr)
      /\ Sound(n, Linked, Holders, Internal', LocalStrong, LocalWeak, mgr, Open)
  <2>1. CASE ref[p].strong > 0
    <3>1. Internal = Internal' + 1 /\ node.internal > 0
      BY <1>4, <2>1, Facts, CountedRef DEF RefOf
    <3>2. /\ Counts(node, Holders, Internal' + 1, LocalStrong, LocalWeak, mgr, Open)
          /\ (Linked = {} => Internal' = 0)
      BY <1>5, <3>1, Facts
    <3>3. Sound(GiveStrong(node, Linked), Linked, Holders, Internal', LocalStrong,
                LocalWeak, mgr, Open)
      BY SMTT(30), <1>4, <1>5, <3>2, Facts, GiveStrongSound
    <3>4. GiveStrong(node, Linked) = Dec(node, yes, yes, Linked) BY DEF GiveStrong
    <3>5. n = GiveStrong(node, Linked) BY <2>1
    <3> HIDE DEF n, yes
    <3>6. News(Dec(node, yes, yes, Linked), Linked, Careful, Erased, mgr)
      <4>1. /\ node \in Node /\ node.internal \in Nat /\ Linked # {}
            /\ Careful \in BOOLEAN /\ Erased \in BOOLEAN /\ mgr \in BOOLEAN
            /\ Careful \/ mgr => node.proc
            /\ News(node, Linked, Careful, Erased, mgr)
        BY <1>5, NodeFacts DEF NewsNow
      <4>2. Linked = {} => node.internal = IF yes /\ yes THEN 1 ELSE 0 BY <4>1
      <4>3. /\ Careful /\ yes /\ ~yes => node.localStrong > 0
            /\ Careful /\ ~yes /\ ~yes => node.localWeak > 0
        BY <1>7
      <4> QED BY <1>7, <3>1, <4>1, <4>2, <4>3, DecNews
    <3> QED BY <3>3, <3>4, <3>5, <3>6
  <2>2. CASE ~(ref[p].strong > 0)
    <3>1. Internal' = Internal /\ n = node BY <1>4, <2>2, Facts DEF RefOf
    <3>2. Sound(node, Linked, Holders, Internal, LocalStrong, LocalWeak, mgr, Open)
      BY Facts DEF Sound
    <3> HIDE DEF n
    <3> QED BY <3>1, <3>2 DEF NewsNow
  <2> QED BY <2>1, <2>2
<1> HIDE DEF n, yes, no
<1>9. n \in Node /\ n.exists /\ n.internal = Internal'
  BY <1>5, <1>8 DEF Sound, Placed, Counts
<1>10. Careful \/ mgr => n.proc
  BY <1>8, <1>9, NodeFacts DEF Sound, Placed, Careful
<1>11. /\ Linked' # {} => Linked # {}
       /\ Linked' = {} => n.internal = IF no /\ yes THEN 1 ELSE 0
       /\ n.internal \in Nat
  BY <1>4, <1>5, <1>6, <1>7, <1>9
<1>12. News(Dec(n, no, yes, Linked'), Linked', Careful, Erased, mgr)
  <2>1. Careful \in BOOLEAN /\ Erased \in BOOLEAN /\ mgr \in BOOLEAN BY NodeFacts
  <2>2. News(n, Linked, Careful, Erased, mgr) BY <1>8
  <2>3. /\ Careful /\ no /\ ~yes => n.localStrong > 0
        /\ Careful /\ ~no /\ ~yes => n.localWeak > 0
        /\ no /\ yes => n.internal > 0
    BY <1>7
  <2> QED BY <1>7, <1>9, <1>10, <1>11, <2>1, <2>2, <2>3, DecNews
<1> QED BY <1>2, <1>4, <1>12, NewsKept

\* A local reference that is about to be given back is there.
LEMMA LocalFacts ==
    ASSUME IInv, Open
    PROVE  /\ \A x \in Parcels : parcel[x].st = "found" =>
                IF parcel[x].strong THEN node.localStrong > 0 ELSE node.localWeak > 0
           /\ \A c \in Calls : call[c].st \in {"built", "accepted", "held"} =>
                node.localStrong > 0
           /\ node.pendingStrong => node.localStrong > 0
           /\ node.pendingWeak => node.localWeak > 0
<1>1. Others BY Facts
<1>2. /\ Cardinality(LocalCalls) \in Nat /\ Cardinality(StrongParcels) \in Nat
      /\ Cardinality(WeakParcels) \in Nat /\ LocalStrong \in Nat /\ LocalWeak \in Nat
  BY <1>1, CountTypes
<1>3. /\ IsFiniteSet(LocalCalls) /\ IsFiniteSet(StrongParcels)
      /\ IsFiniteSet(WeakParcels)
  BY FiniteAssumption, FS_Subset
  DEF LocalCalls, StrongParcels, WeakParcels, LocalParcels
<1>4. /\ node.localStrong >= LocalStrong /\ node.localWeak >= LocalWeak
      /\ node.localStrong \in Nat /\ node.localWeak \in Nat
      /\ node.pendingStrong => node.localStrong > 0
      /\ node.pendingWeak => node.localWeak > 0
  BY <1>2, Facts DEF Counts
<1>5. ASSUME NEW x \in Parcels, parcel[x].st = "found"
      PROVE  IF parcel[x].strong THEN node.localStrong > 0 ELSE node.localWeak > 0
  <2>1. parcel[x].local /\ parcel[x] \in Parcel BY <1>5, ParcelFacts
  <2>2. CASE parcel[x].strong
    <3>1. x \in StrongParcels
      BY <1>5, <2>1, <2>2 DEF StrongParcels, LocalParcels, Parcel
    <3>2. Cardinality(StrongParcels) > 0 BY <1>2, <1>3, <3>1, FS_EmptySet
    <3>3. LocalStrong > 0 BY <1>2, <3>2 DEF LocalStrong
    <3> QED BY <1>2, <1>4, <2>2, <3>3
  <2>3. CASE ~parcel[x].strong
    <3>1. x \in WeakParcels
      BY <1>5, <2>1, <2>3 DEF WeakParcels, LocalParcels, Parcel
    <3>2. Cardinality(WeakParcels) > 0 BY <1>2, <1>3, <3>1, FS_EmptySet
    <3>3. LocalWeak > 0 BY <1>2, <3>2 DEF LocalWeak
    <3> QED BY <1>2, <1>4, <2>3, <3>3
  <2> QED BY <2>2, <2>3
<1>6. ASSUME NEW c \in Calls, call[c].st \in {"built", "accepted", "held"}
      PROVE  node.localStrong > 0
  <2>1. c \in LocalCalls BY <1>6 DEF LocalCalls
  <2>2. Cardinality(LocalCalls) > 0 BY <1>2, <1>3, <2>1, FS_EmptySet
  <2>3. LocalStrong > 0 BY <1>2, <2>2 DEF LocalStrong
  <2> QED BY <1>2, <1>4, <2>3
<1> QED BY <1>4, <1>5, <1>6

LEMMA NewsObjects ==
    ASSUME IInv, Lending, HandsShape, NewsNow, Careful' => Careful, Objects
    PROVE  NewsNext
<1>1. PICK x \in Parcels :
        \/ \E strong \in BOOLEAN, p \in Procs :
             \/ \E th \in Threads : SendBinder(x, th, p, strong)
             \/ \E q \in Clients : SendHandle(x, q, p, strong)
        \/ TranslateHome(x) \/ Translate(x) \/ TranslateNoMem(x)
        \/ Hand(x) \/ Fail(x)
        \/ \E th \in Threads \union {None} : FreeBuffer(x, th)
        \/ ReleaseHandle(x) \/ ReleaseBinder(x) \/ ReleaseBinderDec(x)
        \/ PutParcelNode(x)
  BY DEF Objects
<1>2. CASE TranslateNoMem(x) \/ Hand(x) \/ Fail(x)
  BY <1>2, NewsSame DEF TranslateNoMem, Hand, Fail
<1>3. ASSUME NEW th \in Threads \union {None}, FreeBuffer(x, th) PROVE NewsNext
  BY <1>3, NewsSame DEF FreeBuffer
<1>4. CASE ReleaseHandle(x)
  <2>1. /\ parcel[x].to \in Procs /\ parcel[x].strong \in BOOLEAN
        /\ DecRef(parcel[x].to, parcel[x].strong) /\ UNCHANGED <<prc, mgr>>
    BY <1>4, ParcelFacts DEF ReleaseHandle, Parcel
  <2> QED BY <2>1, NewsDecRef
<1>5. CASE ReleaseBinder(x)
  BY <1>5, NewsSame, NewsTmp DEF ReleaseBinder
<1>6. CASE ReleaseBinderDec(x)
  <2> DEFINE s == parcel[x].strong
  <2>1. /\ node' = Dec(node, s, FALSE, Linked) /\ UNCHANGED <<ref, prc, mgr>>
        /\ parcel[x].st = "found"
    BY <1>6 DEF ReleaseBinderDec
  <2>2. s \in BOOLEAN BY ParcelFacts DEF Parcel
  <2>3. node.exists
    <3>1. TmpOf(parcel[x]) = 1 BY <2>1 DEF TmpOf
    <3> QED BY <3>1, ParcelFacts, Facts
  <2>4. Careful => IF s THEN node.localStrong > 0 ELSE node.localWeak > 0
    BY <2>1, LocalFacts DEF Careful
  <2> HIDE DEF s
  <2>5. Careful \/ mgr => node.proc BY <2>3, NodeFacts
  <2> QED BY <2>1, <2>2, <2>4, <2>5, NodeFacts, NewsDrop DEF NewsNow
<1>7. CASE PutParcelNode(x)
  <2>1. TmpOf(parcel[x]) = 1 BY <1>7 DEF PutParcelNode, TmpOf
  <2>2. node.exists BY <2>1, ParcelFacts, Facts
  <2> QED BY <1>7, <2>2, NewsPut DEF PutParcelNode
<1>8. CASE TranslateHome(x) \/ Translate(x) BY <1>8, NewsHome, NewsTranslate
<1> QED BY <1>1, <1>2, <1>3, <1>4, <1>5, <1>6, <1>7, <1>8, NewsSend

LEMMA NewsCall ==
    ASSUME IInv, NewsNow, Careful' => Careful, NEW c \in Calls,
           \/ \E p \in Clients : GetNodeRefsForTxn(c, p)
           \/ HandCall(c) \/ ReleaseTarget(c) \/ PutTarget(c)
    PROVE  NewsNext
<1>1. ASSUME NEW p \in Clients, GetNodeRefsForTxn(c, p) PROVE NewsNext
  <2> DEFINE yes == TRUE
             no == FALSE
             list == None
             m == Inc(node, yes, no, list)
  <2>1. /\ node' = Tmp(m) /\ UNCHANGED <<ref, prc, mgr>>
        /\ mgr \/ Finds(p, TRUE)
    BY <1>1 DEF GetNodeRefsForTxn
  <2>2. /\ yes \in BOOLEAN /\ no \in BOOLEAN /\ yes /\ ~no
        /\ list \in Threads \union {None}
    OBVIOUS
  <2>3. p \in Procs BY DEF Procs
  <2>4. mgr \/ (Linked # {} /\ node.internal > 0)
    BY <2>1, <2>3, CountedRef DEF Finds
  <2>5. node.hasStrong \/ InUseStrong(node)
    BY <2>4, NodeFacts, ManagerKnows DEF InUseStrong, NewsNow
  <2>6. /\ node.tmp # 0 \/ Linked # {} \/ node.localStrong \in Nat
    BY <2>4, ManagerKnows DEF NewsNow
  <2> HIDE DEF yes, no, list
  <2>7. News(Inc(node, yes, no, list), Linked, Careful, Erased, mgr)
    BY <2>2, <2>5, <2>6, NodeFacts, IncNews DEF NewsNow
  <2>8. m \in Node /\ m.tmp = node.tmp
    <3>1. /\ node \in Node /\ node.exists
          /\ Sound(node, Linked, Holders, Internal, LocalStrong, LocalWeak, mgr, Open)
      BY <1>1, Facts DEF GetNodeRefsForTxn, Sound, Placed, NoNode
    <3>2. /\ HoldStrong(node) \in Node
          /\ Sound(HoldStrong(node), Linked, Holders, Internal, LocalStrong + 1,
                   LocalWeak, mgr, Open)
      BY <3>1, Facts, HoldStrongSound
    <3>3. m = HoldStrong(node) BY Zenon DEF HoldStrong, yes, no, list
    <3> HIDE DEF m
    <3> QED BY <3>2, <3>3, NodeFacts DEF Sound, Counts
  <2> HIDE DEF m
  <2>9. News(Tmp(m), Linked, Careful, Erased, mgr)
    BY <2>7, <2>8, NodeFacts, TmpNews DEF m
  <2> QED BY <2>1, <2>9, RefSame, NewsKept
<1>2. CASE HandCall(c) BY <1>2, NewsSame DEF HandCall
<1>3. CASE ReleaseTarget(c)
  <2> DEFINE yes == TRUE
  <2>1. /\ node' = Dec(node, yes, FALSE, Linked) /\ UNCHANGED <<ref, prc, mgr>>
        /\ call[c].st \in {"built", "accepted", "held"}
    BY <1>3 DEF ReleaseTarget
  <2>2. yes \in BOOLEAN /\ yes OBVIOUS
  <2>3. Careful => node.localStrong > 0 BY <2>1, LocalFacts DEF Careful
  <2>4. Careful \/ mgr => node.exists
    <3>1. CallLocalOf(call[c]) = 1 BY <2>1 DEF CallLocalOf
    <3> QED BY <3>1, CallFacts, NodeFacts DEF Careful
  <2> HIDE DEF yes
  <2>5. Careful \/ mgr => node.proc BY <2>4, NodeFacts
  <2> QED BY <2>1, <2>2, <2>3, <2>5, NodeFacts, NewsDrop DEF NewsNow
<1>4. CASE PutTarget(c)
  <2>1. CallTmpOf(call[c]) = 1 BY <1>4 DEF PutTarget, CallTmpOf
  <2>2. node.exists BY <2>1, CallFacts
  <2> QED BY <1>4, <2>2, NewsPut DEF PutTarget
<1> QED BY <1>1, <1>2, <1>3, <1>4

LEMMA NewsDoneDec ==
    ASSUME IInv, NewsNow, Careful' => Careful, NEW th \in Threads, DoneDec(th)
    PROVE  NewsNext
<1> DEFINE yes == TRUE
           no == FALSE
           a == AnsweredStrong(node)
           b == AnsweredWeak(node)
<1>1. UNCHANGED <<ref, prc, mgr>> /\ ack[th] # "none" BY DEF DoneDec
<1>2. /\ \/ node.pendingStrong /\ node' = Dec(a, yes, FALSE, Linked)
         \/ node.pendingWeak /\ node' = Dec(b, no, FALSE, Linked)
         \/ node' = node
  BY Zenon DEF DoneDec, AnsweredStrong, AnsweredWeak
<1>3. node.exists /\ (Careful \/ mgr => node.proc) BY <1>1, AckFacts, NodeFacts
<1>4. /\ Careful /\ node.pendingStrong => node.localStrong > 0
      /\ Careful /\ node.pendingWeak => node.localWeak > 0
  BY LocalFacts DEF Careful
<1>5. /\ a \in Node /\ a.internal = node.internal /\ a.proc = node.proc
      /\ a.localStrong = node.localStrong /\ a.localWeak = node.localWeak
      /\ a.hasStrong = node.hasStrong /\ a.hasWeak = node.hasWeak
      /\ a.tree = node.tree /\ a.exists = node.exists /\ a.tmp = node.tmp
      /\ a.work = node.work
  BY NodeFacts DEF AnsweredStrong, Node
<1>6. /\ b \in Node /\ b.internal = node.internal /\ b.proc = node.proc
      /\ b.localStrong = node.localStrong /\ b.localWeak = node.localWeak
      /\ b.hasStrong = node.hasStrong /\ b.hasWeak = node.hasWeak
      /\ b.tree = node.tree /\ b.exists = node.exists /\ b.tmp = node.tmp
      /\ b.work = node.work
  BY NodeFacts DEF AnsweredWeak, Node
<1>7. yes \in BOOLEAN /\ no \in BOOLEAN /\ yes /\ ~no OBVIOUS
<1> HIDE DEF yes, no, a, b
<1>8. ASSUME NEW n \in Node, n.internal = node.internal,
             n.localStrong = node.localStrong, n.localWeak = node.localWeak,
             n.hasStrong = node.hasStrong, n.hasWeak = node.hasWeak,
             n.tree = node.tree, n.exists = node.exists, n.tmp = node.tmp,
             n.work = node.work
      PROVE  News(n, Linked, Careful, Erased, mgr)
  BY <1>8 DEF NewsNow, News, Left, Knows, Announces, Unused, InUseStrong, InUseWeak
<1>9. CASE node.pendingStrong /\ node' = Dec(a, yes, FALSE, Linked)
  <2>1. News(a, Linked, Careful, Erased, mgr) BY <1>5, <1>8
  <2>2. Careful => IF yes THEN a.localStrong > 0 ELSE a.localWeak > 0
    BY <1>4, <1>5, <1>7, <1>9
  <2> QED BY <1>1, <1>3, <1>5, <1>7, <1>9, <2>1, <2>2, NewsDrop
<1>10. CASE node.pendingWeak /\ node' = Dec(b, no, FALSE, Linked)
  <2>1. News(b, Linked, Careful, Erased, mgr) BY <1>6, <1>8
  <2>2. Careful => IF no THEN b.localStrong > 0 ELSE b.localWeak > 0
    BY <1>4, <1>6, <1>7, <1>10
  <2> QED BY <1>1, <1>3, <1>6, <1>7, <1>10, <2>1, <2>2, NewsDrop
<1>11. CASE node' = node BY <1>1, <1>11, NewsSame
<1> QED BY <1>2, <1>9, <1>10, <1>11

LEMMA NewsServer ==
    ASSUME IInv, NewsNow, Careful' => Careful, NEW th \in Threads, ServerThread(th)
    PROVE  NewsNext
<1>1. CASE ReadNode(th)
  <2>1. node' = Told(node, Linked) /\ UNCHANGED <<ref, prc, mgr>>
    BY <1>1 DEF ReadNode
  <2>2. mgr => node.localStrong # 0 BY ManagerKnows DEF NewsNow
  <2>3. News(Told(node, Linked), Linked, Careful, Erased, mgr)
    BY <2>2, NodeFacts, ToldNews DEF NewsNow
  <2> QED BY <2>1, <2>3, RefSame, NewsKept
<1>2. CASE ThreadExit(th)
  <2>1. /\ node' = [node EXCEPT !.work = None] /\ UNCHANGED <<ref, prc, mgr>>
        /\ careless'
    BY <1>2 DEF ThreadExit
  <2> DEFINE m == [node EXCEPT !.work = None]
  <2>2. /\ m.exists = node.exists /\ m.tree = node.tree /\ m.tmp = node.tmp
        /\ m.localStrong = node.localStrong /\ m.localWeak = node.localWeak
        /\ m.hasStrong = node.hasStrong /\ m.hasWeak = node.hasWeak
    BY NodeFacts DEF Node
  <2>3. ~Careful' BY <2>1 DEF Careful
  <2>4. (Erased' <=> Erased) /\ Linked' = Linked BY <2>1, RefSame DEF Erased
  <2> HIDE DEF m
  <2>5. News(m, Linked, FALSE, Erased, mgr)
    BY <2>2 DEF NewsNow, News, Left, Unused
  <2>6. News(m, Linked', Careful', Erased', mgr')
    BY <2>1, <2>3, <2>4, <2>5 DEF News
  <2> QED BY <2>1, <2>6 DEF NewsNext, m
<1>3. ASSUME NEW strong \in BOOLEAN, Done(th, strong) PROVE NewsNext
  BY <1>3, NewsTmp DEF Done
<1>4. CASE DonePut(th)
  <2>1. node.exists BY <1>4, AckFacts DEF DonePut
  <2> QED BY <1>4, <2>1, NewsPut DEF DonePut
<1> QED BY <1>1, <1>2, <1>3, <1>4, NewsDoneDec DEF ServerThread

\* Nobody hears of it any more: the server is on its way out.
LEMMA NewsOver ==
    ASSUME ~Careful', ~mgr', Left(node', Linked'),
           node'.hasStrong => node'.hasWeak, Erased' => ~node'.tree
    PROVE  NewsNext
BY DEF NewsNext, News

LEMMA NewsSetCtxMgr ==
    ASSUME IInv, SetCtxMgr
    PROVE  NewsNext
<1> DEFINE m == [NoNode EXCEPT !.exists = TRUE, !.tree = TRUE, !.proc = TRUE,
                   !.localStrong = 1, !.localWeak = 1,
                   !.hasStrong = TRUE, !.hasWeak = TRUE]
<1>1. /\ node' = m /\ prc[Server] = "open" /\ UNCHANGED <<ref, prc>>
  BY DEF SetCtxMgr
<1>2. /\ m.hasStrong /\ m.hasWeak /\ m.localStrong = 1 BY DEF NoNode
<1>3. ~Erased' BY <1>1 DEF Erased
<1> HIDE DEF m
<1>4. InUseStrong(m) /\ InUseWeak(m, Linked') BY <1>2 DEF InUseStrong, InUseWeak
<1>5. News(m, Linked', Careful', Erased', mgr')
  BY <1>2, <1>3, <1>4 DEF News, Left, Knows, Announces
<1> QED BY <1>1, <1>5 DEF NewsNext

LEMMA NewsClose ==
    ASSUME IInv, NewsNow, Careful' => Careful, NEW p \in Procs, Close(p)
    PROVE  NewsNext
<1>1. /\ prc[p] = "open" /\ Linked' = Linked
      /\ \E s \in {"dead", "refs"} : prc' = [prc EXCEPT ![p] = s]
  BY RefSame DEF Close
<1>2. prc \in [Procs -> {"open", "dead", "erased", "put", "refs", "released"}]
  BY Facts DEF Others
<1>3. CASE p = Server
  <2> DEFINE m == [node EXCEPT !.work = IF @ \in Threads THEN None ELSE @]
  <2>1. node' = m /\ ~mgr' BY <1>3 DEF Close
  <2>2. prc'[Server] \in {"dead", "refs"} BY <1>1, <1>2, <1>3
  <2>3. ~Careful' /\ ~Erased' BY <2>2 DEF Careful, Open, Erased
  <2>4. /\ m.exists = node.exists /\ m.tree = node.tree /\ m.tmp = node.tmp
        /\ m.localStrong = node.localStrong /\ m.localWeak = node.localWeak
        /\ m.hasStrong = node.hasStrong /\ m.hasWeak = node.hasWeak
    BY NodeFacts DEF Node
  <2> HIDE DEF m
  <2>5. Left(m, Linked) /\ (m.hasStrong => m.hasWeak)
    BY <2>4 DEF NewsNow, News, Left, Unused
  <2> QED BY <1>1, <2>1, <2>3, <2>5, NewsOver
<1>4. CASE p # Server
  <2>1. UNCHANGED <<node, mgr>> BY <1>4 DEF Close
  <2>2. prc'[Server] = prc[Server] BY <1>1, <1>2, <1>4 DEF Procs
  <2>3. (Erased' <=> Erased) BY <2>2 DEF Erased
  <2> QED BY <1>1, <2>1, <2>3, NewsWeaken DEF NewsNow, NewsNext
<1> QED BY <1>3, <1>4

LEMMA NewsEnd ==
    ASSUME IInv, NewsNow, EraseNode \/ NodeRelease \/ NodeReleasePut
    PROVE  NewsNext
<1>1. /\ prc[Server] # "open" /\ prc'[Server] # "open" /\ UNCHANGED <<ref, mgr>>
  BY Facts DEF EraseNode, NodeRelease, NodeReleasePut, Others, Procs
<1>2. ~Careful' /\ ~mgr' /\ Linked' = Linked /\ node \in Node
  BY <1>1, NodeFacts, RefSame DEF Careful, Open
<1>3. Left(node, Linked) /\ (node.hasStrong => node.hasWeak)
  BY DEF NewsNow, News
<1>4. CASE EraseNode
  <2>1. CASE node.exists
    <3>1. node' = [Tmp(node) EXCEPT !.tree = FALSE] BY <1>4, <2>1 DEF EraseNode
    <3>2. /\ ~node'.tree /\ node'.hasStrong = node.hasStrong
          /\ node'.hasWeak = node.hasWeak
      BY <1>2, <3>1 DEF Tmp, Node
    <3> QED BY <1>2, <1>3, <3>2, NewsOver DEF Left
  <2>2. CASE ~node.exists
    <3>1. node' = node /\ prc'[Server] = "refs"
      BY <1>4, <2>2, Facts DEF EraseNode, Others, Procs
    <3> QED BY <1>2, <1>3, <3>1, NewsOver DEF Erased
  <2> QED BY <2>1, <2>2
<1>5. CASE NodeRelease
  <2>1. Erased /\ ~node.tree BY <1>5 DEF NodeRelease, Erased, NewsNow, News
  <2>2. \/ node' = NoNode
        \/ node' = [node EXCEPT !.proc = FALSE, !.work = None,
                                !.localStrong = 0, !.localWeak = 0]
    BY <1>5 DEF NodeRelease
  <2>3. CASE node' = NoNode
    <3>1. ~node'.tree /\ ~node'.hasStrong BY <2>3 DEF NoNode
    <3> QED BY <1>2, <3>1, NewsOver DEF Left
  <2>4. CASE node' = [node EXCEPT !.proc = FALSE, !.work = None,
                                  !.localStrong = 0, !.localWeak = 0]
    <3>1. /\ node'.tree = node.tree /\ node'.hasStrong = node.hasStrong
          /\ node'.hasWeak = node.hasWeak
      BY <1>2, <2>4 DEF Node
    <3> QED BY <1>2, <1>3, <2>1, <3>1, NewsOver DEF Left
  <2> QED BY <2>2, <2>3, <2>4
<1>6. CASE NodeReleasePut
  <2>1. prc[Server] = "put" /\ node' = Put(node, Linked) BY <1>6 DEF NodeReleasePut
  <2>2. ~Careful /\ ~mgr BY <1>1, NodeFacts DEF Careful, Open
  <2>3. News(Put(node, Linked), Linked, Careful, Erased, mgr)
    BY <2>2, NodeFacts, PutNews DEF NewsNow
  <2>4. prc'[Server] = "refs" BY <1>6, Facts DEF NodeReleasePut, Others, Procs
  <2>5. ~Erased' BY <2>4 DEF Erased
  <2> QED BY <1>2, <2>1, <2>3, <2>5, NewsOver DEF News
<1> QED BY <1>4, <1>5, <1>6

LEMMA NewsStep ==
    ASSUME IInv, IInv', LInv, Next
    PROVE  NewsNext
<1>1. NewsNow /\ HandsShape /\ Lending BY LSorted DEF NewsNow
<1>2. Careful' => Careful BY CarefulNext
<1>3. CASE Objects BY <1>1, <1>2, <1>3, NewsObjects
<1>4. ASSUME NEW p \in Procs, FinishDecRef(p) \/ ReleaseRef(p) PROVE NewsNext
  <2>1. CleanupRef(p) /\ UNCHANGED <<prc, mgr>>
    BY <1>4 DEF FinishDecRef, ReleaseRef
  <2>2. RefShape /\ RefShape' BY DEF IInv
  <2>3. ref[p].on BY <1>4, <2>2 DEF FinishDecRef, ReleaseRef, RefShape
  <2> QED BY <1>1, <1>2, <2>1, <2>2, <2>3, NewsCleanup
<1>5. ASSUME NEW p \in Clients, NEW strong \in BOOLEAN,
             TakeRef(p, strong) \/ DropRef(p, strong)
      PROVE  NewsNext
  <2>1. CASE TakeRef(p, strong) BY <1>1, <1>2, <2>1, NewsTake
  <2>2. CASE DropRef(p, strong)
    <3>1. p \in Procs /\ DecRef(p, strong) /\ UNCHANGED <<prc, mgr>>
      BY <2>2 DEF DropRef, Procs
    <3> QED BY <1>1, <1>2, <3>1, NewsDecRef
  <2> QED BY <1>5, <2>1, <2>2
<1>6. ASSUME NEW c \in Calls,
             \/ \E p \in Clients : GetNodeRefsForTxn(c, p)
             \/ HandCall(c) \/ ReleaseTarget(c) \/ PutTarget(c)
      PROVE  NewsNext
  BY <1>1, <1>2, <1>6, NewsCall
<1>7. CASE SetCtxMgr BY <1>7, NewsSetCtxMgr
<1>8. ASSUME NEW th \in Threads, ServerThread(th) PROVE NewsNext
  BY <1>1, <1>2, <1>8, NewsServer
<1>9. ASSUME NEW p \in Procs, Close(p) PROVE NewsNext
  BY <1>1, <1>2, <1>9, NewsClose
<1>10. ASSUME NEW p \in Procs, ReleaseDone(p) PROVE NewsNext
  <2>1. /\ prc[p] = "refs" /\ UNCHANGED <<node, ref, mgr>>
        /\ prc' = [prc EXCEPT ![p] = "released"]
    BY <1>10 DEF ReleaseDone
  <2>2. Erased' => Erased BY <2>1, Facts DEF Erased, Others, Procs
  <2>3. Linked' = Linked BY <2>1, RefSame
  <2> QED BY <1>1, <1>2, <2>1, <2>2, <2>3, NewsWeaken DEF NewsNow, NewsNext
<1>11. CASE EraseNode \/ NodeRelease \/ NodeReleasePut BY <1>1, <1>11, NewsEnd
<1> QED BY <1>3, <1>4, <1>5, <1>6, <1>7, <1>8, <1>9, <1>10, <1>11 DEF Next

-----------------------------------------------------------------------------
(* The invariant and what follows from it. *)

LEMMA InitLInv == ASSUME Init PROVE LInv
<1>1. /\ ref = [p \in Procs |-> NoRef] /\ node = NoNode /\ ~mgr
      /\ parcel = [x \in Parcels |-> NoParcel] /\ prc = [p \in Procs |-> "open"]
  BY DEF Init
<1>2. Linked = {} BY <1>1 DEF Linked, NoRef
<1>3. NewsShape BY <1>1 DEF NewsShape, NoNode, Procs
<1>4. HandsShape BY <1>1 DEF HandsShape, NoParcel
<1>5. FreedWhenUnused BY <1>1 DEF FreedWhenUnused, NoNode, NoRef
<1>6. ServerKnows BY <1>1, <1>2 DEF ServerKnows, NoNode, InUseStrong, InUseWeak
<1>7. ASSUME NEW p \in Procs, NEW s \in BOOLEAN PROVE Lent(p, s) = 0
  <2>1. {x \in Parcels : /\ parcel[x].to = p /\ parcel[x].strong = s
                         /\ parcel[x].st \in {"counted", "built", "held", "undo"}
                         /\ ~parcel[x].local} = {}
    BY <1>1 DEF NoParcel
  <2> QED BY <2>1, FS_EmptySet DEF Lent, LentBy
<1>8. Lending
  <2>1. \A p \in Procs : ref[p].strong = 0 /\ ref[p].weak = 0 BY <1>1 DEF NoRef
  <2>2. \A p \in Procs : Lent(p, TRUE) = 0 /\ Lent(p, FALSE) = 0 BY <1>7
  <2>3. \A x \in Parcels : parcel[x].st # "looked" BY <1>1 DEF NoParcel
  <2>4. ASSUME NEW p \in Procs
        PROVE  ref[p].strong >= Lent(p, TRUE) /\ ref[p].weak >= Lent(p, FALSE)
    <3>1. 0 >= 0 OBVIOUS
    <3> QED BY <2>1, <2>2, <3>1, Zenon
  <2> QED BY <2>3, <2>4 DEF Lending
<1> QED BY <1>3, <1>4, <1>5, <1>6, <1>8 DEF LInv

LEMMA NextLInv == ASSUME IInv, IInv', LInv, Next PROVE LInv'
<1>1. HandsShape /\ Lending BY LSorted
<1>2. HandsShape' BY <1>1, HandsNext
<1>3. Lending' BY <1>1, <1>2, LendingNext
<1>4. RefsCounted' BY CountedNext
<1>5. News(node', Linked', Careful', Erased', mgr') BY NewsStep DEF NewsNext
<1> QED BY <1>2, <1>3, <1>4, <1>5, LSortedNext

LEMMA StutterLInv == ASSUME LInv, UNCHANGED vars PROVE LInv'
<1>1. UNCHANGED <<node, ref, locked, parcel, call, ack, prc, mgr, careless>>
  BY DEF vars
<1>2. /\ Linked' = Linked /\ (Careful' <=> Careful) /\ (Erased' <=> Erased)
  BY <1>1, RefSame DEF Careful, Open, Erased
<1>3. /\ News(node, Linked, Careful, Erased, mgr) /\ RefsCounted
      /\ HandsShape /\ Lending
  BY LSorted
<1>4. News(node', Linked', Careful', Erased', mgr') BY <1>1, <1>2, <1>3 DEF News
<1>5. RefsCounted' BY <1>1, <1>2, <1>3 DEF RefsCounted, RefCounted
<1>6. HandsShape' BY <1>1, <1>3 DEF HandsShape
<1>7. Lending' BY ZenonT(60), <1>1, <1>3 DEF Lending, Lent, Held, LentBy, Count
<1> QED BY <1>4, <1>5, <1>6, <1>7, LSortedNext

\* The inductive invariant of the node's life: news are on their way, objects
\* have their counts, and nothing is left behind.
THEOREM LifeInvariance == Spec => []LInv
<1>1. Init => LInv BY InitLInv
<1>2. IInv /\ IInv' /\ LInv /\ [Next]_vars => LInv' BY NextLInv, StutterLInv
<1> QED BY <1>1, <1>2, Invariance, PTL DEF Spec

\* A node nobody uses and the server need not be told of has been freed, and a
\* ref without a count too.
THEOREM FreedWhenUnusedHolds == Spec => []FreedWhenUnused
<1>1. LInv => FreedWhenUnused BY DEF LInv
<1> QED BY <1>1, LifeInvariance, PTL

\* The server knows of every first and last reference of a kind, or its news is
\* on a list that one of its threads will read.
THEOREM ServerKnowsHolds == Spec => []ServerKnows
<1>1. LInv => ServerKnows BY DEF LInv
<1> QED BY <1>1, LifeInvariance, PTL

\* The handle that came with a buffer can be used until the buffer is freed.
THEOREM HandleLastsHolds == Spec => []HandleLasts
<1>1. IInv /\ LInv => HandleLasts
  <2> SUFFICES ASSUME IInv, HandsShape, Lending, ~careless, NEW x \in Parcels,
                      parcel[x].st = "held", ~parcel[x].local
               PROVE  Finds(parcel[x].to, parcel[x].strong)
    BY DEF LInv, HandleLasts
  <2> DEFINE p == parcel[x].to
             s == parcel[x].strong
             X == {y \in Parcels : /\ parcel[y].to = p /\ parcel[y].strong = s
                     /\ parcel[y].st \in {"counted", "built", "held", "undo"}
                     /\ ~parcel[y].local}
  <2>1. p \in Procs /\ s \in BOOLEAN /\ prc[p] = "open" /\ ref[p] \in Ref
    BY ParcelFacts, Facts DEF Parcel, HandsShape, Others
  <2>2. x \in X /\ IsFiniteSet(X) BY FiniteAssumption, FS_Subset
  <2>3. Cardinality(X) \in Nat /\ Cardinality(X) > 0
    BY <2>2, FS_CardinalityType, FS_EmptySet
  <2>4. Lent(p, s) = Cardinality(X) BY DEF Lent, LentBy
  <2> HIDE DEF X
  <2>5. Lent(p, s) > 0 BY <2>3, <2>4
  <2> DEFINE a == Lent(p, TRUE)
             b == Lent(p, FALSE)
  <2>6. ref[p].strong >= a /\ ref[p].weak >= b BY <2>1 DEF Lending
  <2> HIDE DEF p, s, a, b
  <2>7. CASE s
    <3>1. s = TRUE BY <2>1, <2>7
    <3>2. a \in Nat /\ a > 0 BY <2>3, <2>4, <2>5, <3>1 DEF a
    <3>3. ref[p].strong > 0
      <4>1. ref[p].strong \in Nat BY <2>1 DEF Ref
      <4> QED BY <2>6, <3>2, <4>1
    <3>4. ref[p].on BY <2>1, <3>3, CountedRef DEF Linked
    <3> QED BY <3>3, <3>4 DEF Finds, p, s
  <2>8. CASE ~s
    <3>1. s = FALSE BY <2>1, <2>8
    <3>2. b \in Nat /\ b > 0 BY <2>3, <2>4, <2>5, <3>1 DEF b
    <3>3. ref[p].weak > 0
      <4>1. ref[p].weak \in Nat BY <2>1 DEF Ref
      <4> QED BY <2>6, <3>2, <4>1
    <3>4. ref[p].on BY <2>1, <3>3, CountedRef DEF Linked
    <3> QED BY <2>8, <3>4 DEF Finds, p, s
  <2> QED BY <2>7, <2>8
<1> QED BY <1>1, Invariance, LifeInvariance, PTL

=============================================================================
