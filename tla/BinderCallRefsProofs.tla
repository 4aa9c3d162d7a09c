------------------------ MODULE BinderCallRefsProofs ------------------------
(***************************************************************************)
(* The temporary references of BinderCall are exactly those who work on a  *)
(* thread or a process, so that neither is freed too early or left behind, *)
(* for any finite sets of processes and threads and any bounds, when       *)
(* threads use the driver as a blocking call.                              *)
(*                                                                         *)
(* On top of what BinderCallProofs shows of the stacks.  The first part is *)
(* about counts as mere data: what taking or dropping one reference does   *)
(* to them.  Each action of the driver is then one or two of these.        *)
(***************************************************************************)
EXTENDS BinderCallProofs

-----------------------------------------------------------------------------
(* The counts. *)

Bit(b) == IF b THEN 1 ELSE 0

\* Who works on a thread, who on a process, and the threads of a process that
\* are released but not freed: each has a reference.
Users(A, th) == {a \in Agents : A[a].tgt = th}
Guests(A, p) == {a \in Agents : A[a].proc = p}
Remains(T, p) == {th \in Threads : Owner[th] = p /\ T[th].dead /\ ~T[th].freed}

\* And so has whoever releases it, until that is done.
Leaving(A, R, x) == R[x].dead /\ A[x].pc # "gone"

Begun == {"off", "threads"}

ThreadCounted(A, T, th) ==
    /\ T[th].ref = Cardinality(Users(A, th)) + Bit(Leaving(A, T, th))
    /\ T[th].freed <=> T[th].dead /\ T[th].ref = 0
    /\ A[th].pc = "gone" => T[th].dead /\ T[th].todo = <<>>

\* A process loses its node once all of its threads are gone.
ProcCounted(A, T, P, p) ==
    /\ P[p].ref = Cardinality(Guests(A, p)) + Cardinality(Remains(T, p))
                    + Bit(Leaving(A, P, p))
    /\ P[p].freed <=> P[p].dead /\ P[p].ref = 0
    /\ P[p].dead <=> A[p].pc # "off"
    /\ A[p].pc \notin Begun =>
         ~P[p].node /\ \A th \in Threads : Owner[th] = p => A[th].pc = "gone"
    /\ A[p].pc = "gone" => P[p].todo = <<>>

Counted(A, T, P) ==
    /\ \A th \in Threads : ThreadCounted(A, T, th)
    /\ \A p \in Procs : ProcCounted(A, T, P, p)

\* The invariant, with Sound.
Referred == Counted(at, thr, prc)

LEMMA CountOne ==
    ASSUME NEW S, IsFiniteSet(S), NEW x \in S,
           NEW X \in SUBSET S, NEW Y \in SUBSET S, X \ {x} = Y \ {x}
    PROVE  /\ Cardinality(X) \in Nat /\ Cardinality(Y) \in Nat
           /\ Cardinality(Y) = Cardinality(X) + Bit(x \in Y) - Bit(x \in X)
<1>1. IsFiniteSet(X) /\ IsFiniteSet(Y) BY FS_Subset
<1>2. Cardinality(X) \in Nat /\ Cardinality(Y) \in Nat BY <1>1, FS_CardinalityType
<1>3. ASSUME NEW Z, IsFiniteSet(Z)
      PROVE  Cardinality(Z \ {x}) = Cardinality(Z) - Bit(x \in Z)
  <2>1. Cardinality(Z) \in Nat BY <1>3, FS_CardinalityType
  <2>2. CASE x \in Z
    <3>1. Cardinality(Z \ {x}) = Cardinality(Z) - 1 BY <1>3, <2>2, FS_RemoveElement
    <3> QED BY <2>2, <3>1 DEF Bit
  <2>3. CASE x \notin Z
    <3>1. Cardinality(Z \ {x}) = Cardinality(Z)
      <4>1. Z \ {x} = Z BY <2>3
      <4> QED BY <4>1
    <3>2. Bit(x \in Z) = 0 BY <2>3 DEF Bit
    <3> QED BY <2>1, <3>1, <3>2
  <2> QED BY <2>2, <2>3
<1>4. Cardinality(X) - Bit(x \in X) = Cardinality(Y) - Bit(x \in Y) BY <1>1, <1>3
<1>5. Bit(x \in X) \in Nat /\ Bit(x \in Y) \in Nat BY DEF Bit
<1> QED BY <1>2, <1>4, <1>5

LEMMA AgentsFinite == IsFiniteSet(Agents) /\ IsFiniteSet(Threads)
BY EventsAssumption, FS_Union DEF Agents

LEMMA UsersChange ==
    ASSUME NEW A, NEW B, NEW a \in Agents,
           \A b \in Agents : b # a => B[b].tgt = A[b].tgt, NEW th
    PROVE  /\ Cardinality(Users(A, th)) \in Nat /\ Cardinality(Users(B, th)) \in Nat
           /\ Cardinality(Users(B, th)) =
                Cardinality(Users(A, th)) + Bit(B[a].tgt = th) - Bit(A[a].tgt = th)
<1>1. /\ Users(A, th) \in SUBSET Agents /\ Users(B, th) \in SUBSET Agents
      /\ Users(A, th) \ {a} = Users(B, th) \ {a}
      /\ a \in Users(A, th) <=> A[a].tgt = th
      /\ a \in Users(B, th) <=> B[a].tgt = th
  BY DEF Users
<1>2. /\ Cardinality(Users(A, th)) \in Nat /\ Cardinality(Users(B, th)) \in Nat
      /\ Cardinality(Users(B, th)) =
           Cardinality(Users(A, th)) + Bit(a \in Users(B, th)) - Bit(a \in Users(A, th))
  BY <1>1, AgentsFinite, CountOne
<1> QED BY <1>1, <1>2 DEF Bit

WorksOn(A, a, p) == A[a].proc = p
OthersWork(A, B, a) == \A b \in Agents : b # a => B[b].proc = A[b].proc

LEMMA GuestsChange ==
    ASSUME NEW A, NEW B, NEW a \in Agents, OthersWork(A, B, a), NEW x
    PROVE  /\ Cardinality(Guests(A, x)) \in Nat /\ Cardinality(Guests(B, x)) \in Nat
           /\ Cardinality(Guests(B, x)) =
                Cardinality(Guests(A, x)) + Bit(WorksOn(B, a, x)) - Bit(WorksOn(A, a, x))
<1>1. /\ Guests(A, x) \in SUBSET Agents /\ Guests(B, x) \in SUBSET Agents
      /\ Guests(A, x) \ {a} = Guests(B, x) \ {a}
      /\ a \in Guests(A, x) <=> WorksOn(A, a, x)
      /\ a \in Guests(B, x) <=> WorksOn(B, a, x)
  BY DEF Guests, OthersWork, WorksOn
<1>2. /\ Cardinality(Guests(A, x)) \in Nat /\ Cardinality(Guests(B, x)) \in Nat
      /\ Cardinality(Guests(B, x)) =
           Cardinality(Guests(A, x)) + Bit(a \in Guests(B, x)) - Bit(a \in Guests(A, x))
  BY <1>1, AgentsFinite, CountOne
<1> QED BY <1>1, <1>2 DEF Bit

Remaining(T, x) == T[x].dead /\ ~T[x].freed

\* Thread x is released, or what remains of it is freed.
LEMMA RemainsChange ==
    ASSUME NEW T, NEW U, NEW x \in Threads,
           \A o \in Threads : o # x => (U[o].dead <=> T[o].dead) /\ (U[o].freed <=> T[o].freed)
    PROVE  /\ \A p : p # Owner[x] => Remains(U, p) = Remains(T, p)
           /\ Cardinality(Remains(T, Owner[x])) \in Nat
           /\ Cardinality(Remains(U, Owner[x])) \in Nat
           /\ Cardinality(Remains(U, Owner[x])) = Cardinality(Remains(T, Owner[x]))
                + Bit(Remaining(U, x)) - Bit(Remaining(T, x))
<1> DEFINE p == Owner[x]
<1>1. /\ Remains(T, p) \in SUBSET Threads /\ Remains(U, p) \in SUBSET Threads
      /\ Remains(T, p) \ {x} = Remains(U, p) \ {x}
      /\ x \in Remains(T, p) <=> Remaining(T, x)
      /\ x \in Remains(U, p) <=> Remaining(U, x)
  BY DEF Remains, Remaining
<1>2. \A q : q # p => Remains(U, q) = Remains(T, q) BY DEF Remains
<1> HIDE DEF p
<1>3. /\ Cardinality(Remains(T, p)) \in Nat /\ Cardinality(Remains(U, p)) \in Nat
      /\ Cardinality(Remains(U, p)) =
           Cardinality(Remains(T, p)) + Bit(x \in Remains(U, p)) - Bit(x \in Remains(T, p))
  BY <1>1, AgentsFinite, CountOne
<1> QED BY <1>1, <1>2, <1>3 DEF Bit, p

-----------------------------------------------------------------------------
(* What a step does to a thread, a process and to where the agents are. *)

Numbers(R, S, o) == /\ S[o].ref = R[o].ref
                    /\ S[o].freed <=> R[o].freed

\* Nothing comes onto the empty list of the dead.
Mortal(R, S, o) == /\ S[o].dead <=> R[o].dead
                   /\ R[o].dead /\ R[o].todo = <<>> => S[o].todo = <<>>
NodeKept(P, Q, p) == Q[p].node => P[p].node

ThreadStill(T, U, o) == Numbers(T, U, o) /\ Mortal(T, U, o)
ProcStill(P, Q, p) == Numbers(P, Q, p) /\ Mortal(P, Q, p) /\ NodeKept(P, Q, p)

ThreadMore(T, U, x) ==
    /\ \A o \in Threads : o # x => ThreadStill(T, U, o)
    /\ Mortal(T, U, x) /\ U[x].ref = T[x].ref + 1 /\ (U[x].freed <=> T[x].freed)

ProcMore(P, Q, p) ==
    /\ \A q \in Procs : q # p => ProcStill(P, Q, q)
    /\ NodeKept(P, Q, p)
    /\ Mortal(P, Q, p) /\ Q[p].ref = P[p].ref + 1 /\ (Q[p].freed <=> P[p].freed)

LastRef(R, x) == R[x].dead /\ R[x].ref = 1

ThreadLess(T, U, x) ==
    /\ \A o \in Threads : o # x => ThreadStill(T, U, o)
    /\ Mortal(T, U, x) /\ U[x].ref = T[x].ref - 1 /\ (U[x].freed <=> LastRef(T, x))

AllDead(T, p) == \A th \in Threads : Owner[th] = p => T[th].dead

ProcLess(T, P, Q, p) ==
    /\ \A q \in Procs : q # p => ProcStill(P, Q, q)
    /\ NodeKept(P, Q, p)
    /\ Mortal(P, Q, p) /\ Q[p].ref = P[p].ref - 1
    /\ Q[p].freed <=> LastRef(P, p) /\ AllDead(T, p)

\* A reference on thread x is dropped; one on its process goes with the last.
GivesUp(T, U, P, Q, x) ==
    /\ ThreadLess(T, U, x)
    /\ LastRef(T, x) => ProcLess(T, P, Q, Owner[x])
    /\ ~LastRef(T, x) => \A p \in Procs : ProcStill(P, Q, p)

SamePhase(A, B, b) ==
    /\ B[b].pc = "gone" <=> A[b].pc = "gone"
    /\ B[b].pc = "off" <=> A[b].pc = "off"
    /\ B[b].pc \in Begun <=> A[b].pc \in Begun

\* Only a moves, from one place inside the driver to another.
Follows(A, B, a) ==
    \A b \in Agents :
      /\ SamePhase(A, B, b)
      /\ b # a => B[b].tgt = A[b].tgt /\ B[b].proc = A[b].proc

LEMMA ThreadStays ==
    ASSUME NEW A, NEW B, NEW T, NEW U, NEW o \in Threads, ThreadCounted(A, T, o),
           Users(B, o) = Users(A, o), ThreadStill(T, U, o),
           B[o].pc = "gone" <=> A[o].pc = "gone"
    PROVE  ThreadCounted(B, U, o)
<1>1. Leaving(B, U, o) <=> Leaving(A, T, o) BY DEF Leaving, ThreadStill, Mortal
<1>2. Bit(Leaving(B, U, o)) = Bit(Leaving(A, T, o)) BY <1>1 DEF Bit
<1> QED BY <1>2 DEF ThreadCounted, ThreadStill, Mortal, Numbers

LEMMA ProcStays ==
    ASSUME NEW A, NEW B, NEW T, NEW U, NEW P, NEW Q, NEW p \in Procs,
           ProcCounted(A, T, P, p), Guests(B, p) = Guests(A, p),
           Remains(U, p) = Remains(T, p), ProcStill(P, Q, p), SamePhase(A, B, p),
           \A o \in Threads : A[o].pc = "gone" => B[o].pc = "gone"
    PROVE  ProcCounted(B, U, Q, p)
<1>1. Leaving(B, Q, p) <=> Leaving(A, P, p) BY DEF Leaving, ProcStill, Mortal, SamePhase
<1>2. Bit(Leaving(B, Q, p)) = Bit(Leaving(A, P, p)) BY <1>1 DEF Bit
<1>3. Q[p].ref = P[p].ref /\ (Q[p].freed <=> P[p].freed) /\ (Q[p].dead <=> P[p].dead)
  BY DEF ProcStill, Mortal, Numbers
<1>4. /\ P[p].ref = Cardinality(Guests(A, p)) + Cardinality(Remains(T, p))
                      + Bit(Leaving(A, P, p))
      /\ P[p].freed <=> P[p].dead /\ P[p].ref = 0
      /\ P[p].dead <=> A[p].pc # "off"
      /\ A[p].pc = "gone" => P[p].todo = <<>>
      /\ A[p].pc \notin Begun => ~P[p].node
  BY DEF ProcCounted
<1>5. B[p].pc \notin Begun => \A th \in Threads : Owner[th] = p => B[th].pc = "gone"
  BY DEF ProcCounted, SamePhase
<1>6. Q[p].ref = Cardinality(Guests(B, p)) + Cardinality(Remains(U, p))
                   + Bit(Leaving(B, Q, p))
  BY <1>2, <1>3, <1>4
<1>7. Q[p].dead <=> B[p].pc # "off" BY <1>3, <1>4 DEF SamePhase
<1>8. B[p].pc \notin Begun => ~Q[p].node
  BY <1>4 DEF SamePhase, ProcStill, NodeKept
<1>9. B[p].pc = "gone" => Q[p].todo = <<>>
  <2> SUFFICES ASSUME B[p].pc = "gone" PROVE Q[p].todo = <<>> OBVIOUS
  <2>1. A[p].pc = "gone" BY DEF SamePhase
  <2>2. P[p].dead /\ P[p].todo = <<>> BY <1>4, <2>1
  <2> QED BY <2>2 DEF ProcStill, Mortal
<1> QED BY <1>3, <1>4, <1>5, <1>6, <1>7, <1>8, <1>9 DEF ProcCounted

LEMMA RemainsStay ==
    ASSUME NEW T, NEW U, \A o \in Threads : ThreadStill(T, U, o), NEW p
    PROVE  Remains(U, p) = Remains(T, p)
BY DEF ThreadStill, Numbers, Mortal, Remains

LEMMA CountsAre ==
    ASSUME NEW A, NEW T, NEW P, NEW x
    PROVE  /\ Cardinality(Users(A, x)) \in Nat /\ Cardinality(Guests(A, x)) \in Nat
           /\ Cardinality(Remains(T, x)) \in Nat
           /\ Cardinality(Users(A, x)) = 0 <=> Users(A, x) = {}
           /\ Cardinality(Guests(A, x)) = 0 <=> Guests(A, x) = {}
           /\ Cardinality(Remains(T, x)) = 0 <=> Remains(T, x) = {}
<1>1. /\ Users(A, x) \subseteq Agents /\ Guests(A, x) \subseteq Agents
      /\ Remains(T, x) \subseteq Threads
  BY DEF Users, Guests, Remains
<1>2. IsFiniteSet(Users(A, x)) /\ IsFiniteSet(Guests(A, x)) /\ IsFiniteSet(Remains(T, x))
  BY <1>1, AgentsFinite, FS_Subset
<1> QED BY <1>2, FS_CardinalityType, FS_EmptySet

\* Nothing happens to any count.
LEMMA CountsStay ==
    ASSUME NEW A, NEW B, NEW T, NEW U, NEW P, NEW Q, Counted(A, T, P),
           NEW a \in Agents, Follows(A, B, a), B[a].tgt = A[a].tgt, B[a].proc = A[a].proc,
           \A o \in Threads : ThreadStill(T, U, o), \A p \in Procs : ProcStill(P, Q, p)
    PROVE  Counted(B, U, Q)
<1>1. \A b \in Agents : SamePhase(A, B, b) /\ B[b].tgt = A[b].tgt /\ B[b].proc = A[b].proc
  BY DEF Follows
<1>2. \A x : Users(B, x) = Users(A, x) /\ Guests(B, x) = Guests(A, x)
  BY <1>1 DEF Users, Guests
<1>3. \A o \in Threads : B[o].pc = "gone" <=> A[o].pc = "gone"
  BY <1>1, OneOfAgents DEF SamePhase
<1>4. \A o \in Threads : ThreadCounted(B, U, o)
  BY <1>2, <1>3, ThreadStays DEF Counted
<1>5. \A p : Remains(U, p) = Remains(T, p) BY RemainsStay
<1>6. \A p \in Procs : ProcCounted(B, U, Q, p)
  BY <1>1, <1>2, <1>3, <1>5, ProcStays, OneOfAgents DEF Counted
<1> QED BY <1>4, <1>6 DEF Counted

\* a takes a reference on the living thread t.
LEMMA CountsTake ==
    ASSUME NEW A, NEW B, NEW T, NEW U, NEW P, NEW Q, Counted(A, T, P),
           NEW a \in Agents, Follows(A, B, a), B[a].proc = A[a].proc,
           NEW t \in Threads, A[a].tgt = None, B[a].tgt = t, ~T[t].dead,
           ThreadMore(T, U, t), \A p \in Procs : ProcStill(P, Q, p)
    PROVE  Counted(B, U, Q)
<1>1. \A b \in Agents : /\ SamePhase(A, B, b) /\ B[b].proc = A[b].proc
                        /\ b # a => B[b].tgt = A[b].tgt
  BY DEF Follows
<1>2. /\ \A x : Guests(B, x) = Guests(A, x)
      /\ \A o \in Threads : o # t => Users(B, o) = Users(A, o)
  BY <1>1, NoneIsNobody DEF Users, Guests
<1>3. \A o \in Threads : B[o].pc = "gone" <=> A[o].pc = "gone"
  BY <1>1, OneOfAgents DEF SamePhase
<1>4. \A o \in Threads : o # t => ThreadCounted(B, U, o)
  BY <1>2, <1>3, ThreadStays DEF Counted, ThreadMore
<1>5. ThreadCounted(B, U, t)
  <2>1. Cardinality(Users(A, t)) \in Nat /\ Cardinality(Users(B, t)) = Cardinality(Users(A, t)) + 1
    <3>1. /\ Cardinality(Users(A, t)) \in Nat
          /\ Cardinality(Users(B, t)) =
               Cardinality(Users(A, t)) + Bit(B[a].tgt = t) - Bit(A[a].tgt = t)
      BY <1>1, UsersChange
    <3>2. Bit(B[a].tgt = t) = 1 /\ Bit(A[a].tgt = t) = 0 BY NoneIsNobody DEF Bit
    <3> QED BY <3>1, <3>2
  <2>2. ThreadCounted(A, T, t) BY DEF Counted
  <2>3. Bit(Leaving(A, T, t)) = 0 /\ Bit(Leaving(B, U, t)) = 0
    BY DEF ThreadMore, Mortal, Leaving, Bit
  <2>4. ~T[t].freed /\ A[t].pc # "gone" BY <2>2 DEF ThreadCounted
  <2>5. T[t].ref = Cardinality(Users(A, t)) BY <2>1, <2>2, <2>3 DEF ThreadCounted
  <2>6. U[t].ref = Cardinality(Users(B, t)) BY <2>1, <2>5 DEF ThreadMore
  <2>7. Cardinality(Users(B, t)) \in Nat BY <2>1
  <2> QED BY <1>3, <2>3, <2>4, <2>6, <2>7 DEF ThreadCounted, ThreadMore, Mortal
<1>6. \A p : Remains(U, p) = Remains(T, p)
  BY DEF ThreadMore, ThreadStill, Numbers, Mortal, Remains
<1>7. \A p \in Procs : ProcCounted(B, U, Q, p)
  BY <1>1, <1>2, <1>3, <1>6, ProcStays, OneOfAgents DEF Counted
<1> QED BY <1>4, <1>5, <1>7 DEF Counted

\* Who drops the last reference on a dead process finds its threads dead: the
\* process has a reference of its own until they all are.
LEMMA LastOut ==
    ASSUME NEW A, NEW T, NEW P, Counted(A, T, P), NEW p \in Procs, LastRef(P, p),
           Guests(A, p) # {} \/ Remains(T, p) # {} \/ A[p].pc \notin Begun
    PROVE  AllDead(T, p)
<1>1. ProcCounted(A, T, P, p) /\ \A o \in Threads : ThreadCounted(A, T, o) BY DEF Counted
<1>2. CASE A[p].pc \notin Begun BY <1>1, <1>2 DEF ProcCounted, ThreadCounted, AllDead
<1>3. CASE A[p].pc \in Begun
  <2>1. Bit(Leaving(A, P, p)) = 1 BY <1>3 DEF Bit, Leaving, LastRef, Begun
  <2>2. Cardinality(Guests(A, p)) + Cardinality(Remains(T, p)) # 0
    BY <1>3, CountsAre
  <2>3. P[p].ref = Cardinality(Guests(A, p)) + Cardinality(Remains(T, p)) + 1
    BY <1>1, <2>1 DEF ProcCounted
  <2> QED BY <2>2, <2>3, CountsAre DEF LastRef
<1> QED BY <1>2, <1>3

\* The process part where one reference on p is dropped: that of a guest, of
\* the remains of a thread, or that of its release.
LEMMA ProcDrops ==
    ASSUME NEW A, NEW B, NEW T, NEW U, NEW P, NEW Q, Counted(A, T, P),
           NEW p \in Procs, ProcLess(T, P, Q, p),
           Guests(A, p) # {} \/ Remains(T, p) # {} \/ A[p].pc \notin Begun,
           Cardinality(Guests(B, p)) + Cardinality(Remains(U, p)) + Bit(Leaving(B, Q, p))
             = Cardinality(Guests(A, p)) + Cardinality(Remains(T, p))
                 + Bit(Leaving(A, P, p)) - 1,
           B[p].pc = "off" <=> A[p].pc = "off", B[p].pc \in Begun <=> A[p].pc \in Begun,
           B[p].pc = "gone" => A[p].pc = "gone" \/ P[p].todo = <<>>,
           \A o \in Threads : A[o].pc = "gone" => B[o].pc = "gone"
    PROVE  ProcCounted(B, U, Q, p)
<1>1. /\ P[p].ref = Cardinality(Guests(A, p)) + Cardinality(Remains(T, p))
                      + Bit(Leaving(A, P, p))
      /\ P[p].freed <=> P[p].dead /\ P[p].ref = 0
      /\ P[p].dead <=> A[p].pc # "off"
      /\ A[p].pc = "gone" => P[p].todo = <<>>
      /\ A[p].pc \notin Begun => ~P[p].node
      /\ A[p].pc \notin Begun => \A th \in Threads : Owner[th] = p => A[th].pc = "gone"
  BY DEF Counted, ProcCounted
<1>2. /\ Q[p].ref = P[p].ref - 1 /\ (Q[p].freed <=> LastRef(P, p) /\ AllDead(T, p))
      /\ Q[p].dead <=> P[p].dead
      /\ P[p].dead /\ P[p].todo = <<>> => Q[p].todo = <<>>
      /\ Q[p].node => P[p].node
  BY DEF ProcLess, Mortal, NodeKept
<1>3. Q[p].ref = Cardinality(Guests(B, p)) + Cardinality(Remains(U, p))
                   + Bit(Leaving(B, Q, p))
  <2>1. Bit(Leaving(B, Q, p)) \in Nat /\ Bit(Leaving(A, P, p)) \in Nat BY DEF Bit
  <2>2. /\ Cardinality(Guests(B, p)) \in Nat /\ Cardinality(Remains(U, p)) \in Nat
        /\ Cardinality(Guests(A, p)) \in Nat /\ Cardinality(Remains(T, p)) \in Nat
    BY CountsAre
  <2> QED BY <1>1, <1>2, <2>1, <2>2
<1>4. P[p].ref \in Nat
  <2>1. Bit(Leaving(A, P, p)) \in Nat BY DEF Bit
  <2>2. Cardinality(Guests(A, p)) \in Nat /\ Cardinality(Remains(T, p)) \in Nat
    BY CountsAre
  <2> QED BY <1>1, <2>1, <2>2
<1>5. Q[p].freed <=> Q[p].dead /\ Q[p].ref = 0
  <2>1. Q[p].freed <=> LastRef(P, p) BY <1>2, LastOut
  <2> QED BY <1>2, <1>4, <2>1 DEF LastRef
<1>6. Q[p].dead <=> B[p].pc # "off" BY <1>1, <1>2
<1>7. B[p].pc \notin Begun =>
        ~Q[p].node /\ \A th \in Threads : Owner[th] = p => B[th].pc = "gone"
  BY <1>1, <1>2
<1>8. B[p].pc = "gone" => Q[p].todo = <<>>
  <2> SUFFICES ASSUME B[p].pc = "gone" PROVE Q[p].todo = <<>> OBVIOUS
  <2>1. A[p].pc # "off" BY DEF Begun
  <2> QED BY <1>1, <1>2, <2>1
<1> QED BY <1>3, <1>5, <1>6, <1>7, <1>8 DEF ProcCounted

\* The remains of thread t are freed, with their reference on its process.
LEMMA RemainsFreed ==
    ASSUME NEW A, NEW B, NEW T, NEW U, NEW P, NEW Q, Counted(A, T, P),
           NEW t \in Threads, LastRef(T, t), ThreadLess(T, U, t),
           ProcLess(T, P, Q, Owner[t]),
           \A x : Guests(B, x) = Guests(A, x), \A p \in Procs : SamePhase(A, B, p),
           \A o \in Threads : A[o].pc = "gone" => B[o].pc = "gone"
    PROVE  \A p \in Procs : ProcCounted(B, U, Q, p)
<1> DEFINE q == Owner[t]
<1>1. q \in Procs BY OwnerAssumption
<1>2. ThreadCounted(A, T, t) /\ \A p \in Procs : ProcCounted(A, T, P, p) BY DEF Counted
<1>3. T[t].dead /\ ~T[t].freed BY <1>2 DEF ThreadCounted, LastRef
<1>4. U[t].freed BY DEF ThreadLess
<1>5. \A o \in Threads : o # t => (U[o].dead <=> T[o].dead) /\ (U[o].freed <=> T[o].freed)
  BY DEF ThreadLess, ThreadStill, Numbers, Mortal
<1>6. /\ \A p : p # q => Remains(U, p) = Remains(T, p)
      /\ Cardinality(Remains(T, q)) \in Nat
      /\ Cardinality(Remains(U, q)) \in Nat
      /\ Cardinality(Remains(U, q)) = Cardinality(Remains(T, q))
           + Bit(Remaining(U, t)) - Bit(Remaining(T, t))
  BY <1>5, RemainsChange
<1>7. Cardinality(Remains(U, q)) = Cardinality(Remains(T, q)) - 1
  <2>1. Bit(Remaining(U, t)) = 0 /\ Bit(Remaining(T, t)) = 1
    BY <1>3, <1>4 DEF Bit, Remaining
  <2> QED BY <1>6, <2>1
<1>8. Remains(T, q) # {} BY <1>3 DEF Remains
<1> HIDE DEF q
<1>9. ProcCounted(B, U, Q, q)
  <2>1. Leaving(B, Q, q) <=> Leaving(A, P, q)
    BY <1>1 DEF Leaving, SamePhase, ProcLess, Mortal, q
  <2>2. Bit(Leaving(B, Q, q)) = Bit(Leaving(A, P, q)) /\ Bit(Leaving(A, P, q)) \in Nat
    BY <2>1 DEF Bit
  <2>3. Cardinality(Guests(B, q)) + Cardinality(Remains(U, q)) + Bit(Leaving(B, Q, q))
          = Cardinality(Guests(A, q)) + Cardinality(Remains(T, q))
              + Bit(Leaving(A, P, q)) - 1
    <3>1. Guests(B, q) = Guests(A, q) /\ Cardinality(Guests(A, q)) \in Nat BY CountsAre
    <3> QED BY <1>6, <1>7, <2>2, <3>1
  <2>4. SamePhase(A, B, q) /\ ProcLess(T, P, Q, q) BY <1>1 DEF q
  <2> QED BY <1>1, <1>8, <2>3, <2>4, ProcDrops DEF SamePhase
<1>10. ASSUME NEW p \in Procs, p # q PROVE ProcCounted(B, U, Q, p)
  <2>1. ProcStill(P, Q, p) BY <1>10 DEF ProcLess, q
  <2> QED BY <1>2, <1>6, <1>10, <2>1, ProcStays
<1> QED BY <1>9, <1>10

\* a drops its reference on thread t.
LEMMA CountsDrop ==
    ASSUME NEW A, NEW B, NEW T, NEW U, NEW P, NEW Q, Counted(A, T, P),
           NEW a \in Agents, Follows(A, B, a), B[a].proc = A[a].proc,
           NEW t \in Threads, A[a].tgt = t, B[a].tgt = None, GivesUp(T, U, P, Q, t)
    PROVE  Counted(B, U, Q)
<1>1. \A b \in Agents : /\ SamePhase(A, B, b) /\ B[b].proc = A[b].proc
                        /\ b # a => B[b].tgt = A[b].tgt
  BY DEF Follows
<1>2. /\ \A x : Guests(B, x) = Guests(A, x)
      /\ \A o \in Threads : o # t => Users(B, o) = Users(A, o)
  BY <1>1, NoneIsNobody DEF Users, Guests
<1>3. /\ \A o \in Threads : B[o].pc = "gone" <=> A[o].pc = "gone"
      /\ \A p \in Procs : SamePhase(A, B, p)
  BY <1>1, OneOfAgents DEF SamePhase
<1>4. ThreadLess(T, U, t) BY DEF GivesUp
<1>5. \A o \in Threads : o # t => ThreadCounted(B, U, o)
  BY <1>2, <1>3, <1>4, ThreadStays DEF Counted, ThreadLess
<1>6. ThreadCounted(B, U, t)
  <2>1. /\ Cardinality(Users(A, t)) \in Nat /\ Cardinality(Users(B, t)) \in Nat
        /\ Cardinality(Users(B, t)) = Cardinality(Users(A, t)) - 1
    <3>1. /\ Cardinality(Users(A, t)) \in Nat /\ Cardinality(Users(B, t)) \in Nat
          /\ Cardinality(Users(B, t)) =
               Cardinality(Users(A, t)) + Bit(B[a].tgt = t) - Bit(A[a].tgt = t)
      BY <1>1, UsersChange
    <3>2. Bit(B[a].tgt = t) = 0 /\ Bit(A[a].tgt = t) = 1 BY NoneIsNobody DEF Bit
    <3> QED BY <3>1, <3>2
  <2>2. /\ T[t].ref = Cardinality(Users(A, t)) + Bit(Leaving(A, T, t))
        /\ A[t].pc = "gone" => T[t].dead /\ T[t].todo = <<>>
    BY DEF Counted, ThreadCounted
  <2>3. /\ U[t].ref = T[t].ref - 1 /\ (U[t].freed <=> LastRef(T, t))
        /\ U[t].dead <=> T[t].dead
        /\ T[t].dead /\ T[t].todo = <<>> => U[t].todo = <<>>
    BY <1>4 DEF ThreadLess, Mortal
  <2>4. Leaving(B, U, t) <=> Leaving(A, T, t) BY <1>3, <2>3 DEF Leaving
  <2>5. Bit(Leaving(B, U, t)) = Bit(Leaving(A, T, t)) /\ Bit(Leaving(A, T, t)) \in Nat
    BY <2>4 DEF Bit
  <2>6. U[t].ref = Cardinality(Users(B, t)) + Bit(Leaving(B, U, t))
    BY <2>1, <2>2, <2>3, <2>5
  <2>7. U[t].freed <=> U[t].dead /\ U[t].ref = 0
    <3>1. T[t].ref \in Nat BY <2>1, <2>2, <2>5
    <3> QED BY <2>3, <3>1 DEF LastRef
  <2>8. B[t].pc = "gone" => U[t].dead /\ U[t].todo = <<>> BY <1>3, <2>2, <2>3
  <2> QED BY <2>6, <2>7, <2>8 DEF ThreadCounted
<1>7. \A p \in Procs : ProcCounted(B, U, Q, p)
  <2>1. CASE LastRef(T, t)
    <3>1. ProcLess(T, P, Q, Owner[t]) BY <2>1 DEF GivesUp
    <3> QED BY <1>2, <1>3, <1>4, <2>1, <3>1, RemainsFreed
  <2>2. CASE ~LastRef(T, t)
    <3>1. \A p \in Procs : ProcStill(P, Q, p) BY <2>2 DEF GivesUp
    <3>2. /\ ~U[t].freed /\ (U[t].dead <=> T[t].dead)
          /\ \A o \in Threads : o # t => (U[o].dead <=> T[o].dead)
                                         /\ (U[o].freed <=> T[o].freed)
      BY <1>4, <2>2 DEF ThreadLess, ThreadStill, Numbers, Mortal
    <3>3. ~T[t].freed
      <4>1. T[t].ref # 0
        <5>1. ThreadCounted(A, T, t) /\ a \in Users(A, t) BY DEF Counted, Users
        <5>2. Cardinality(Users(A, t)) # 0 /\ Cardinality(Users(A, t)) \in Nat
          BY <5>1, CountsAre
        <5>3. Bit(Leaving(A, T, t)) \in Nat BY DEF Bit
        <5> QED BY <5>1, <5>2, <5>3 DEF ThreadCounted
      <4> QED BY <4>1 DEF Counted, ThreadCounted
    <3>4. \A p : Remains(U, p) = Remains(T, p) BY <3>2, <3>3 DEF Remains
    <3> QED BY <1>2, <1>3, <3>1, <3>4, ProcStays DEF Counted
  <2> QED BY <2>1, <2>2
<1> QED BY <1>5, <1>6, <1>7 DEF Counted

\* a takes a reference on process p, whose release has not come to its threads'
\* end.
LEMMA CountsHold ==
    ASSUME NEW A, NEW B, NEW T, NEW U, NEW P, NEW Q, Counted(A, T, P),
           NEW a \in Agents, Follows(A, B, a), B[a].tgt = A[a].tgt,
           NEW p \in Procs, A[a].proc = None, B[a].proc = p, A[p].pc \in Begun,
           ProcMore(P, Q, p), \A o \in Threads : ThreadStill(T, U, o)
    PROVE  Counted(B, U, Q)
<1>1. \A b \in Agents : /\ SamePhase(A, B, b) /\ B[b].tgt = A[b].tgt
                        /\ b # a => B[b].proc = A[b].proc
  BY DEF Follows
<1>2. /\ \A x : Users(B, x) = Users(A, x)
      /\ \A q \in Procs : q # p => Guests(B, q) = Guests(A, q)
  BY <1>1, NoneIsNobody DEF Users, Guests
<1>3. /\ \A o \in Threads : B[o].pc = "gone" <=> A[o].pc = "gone"
      /\ \A q \in Procs : SamePhase(A, B, q)
  BY <1>1, OneOfAgents DEF SamePhase
<1>4. \A o \in Threads : ThreadCounted(B, U, o)
  BY <1>2, <1>3, ThreadStays DEF Counted
<1>5. \A x : Remains(U, x) = Remains(T, x) BY RemainsStay
<1>6. \A q \in Procs : q # p => ProcCounted(B, U, Q, q)
  BY <1>2, <1>3, <1>5, ProcStays DEF Counted, ProcMore
<1>7. ProcCounted(B, U, Q, p)
  <2>1. /\ Cardinality(Guests(A, p)) \in Nat /\ Cardinality(Remains(T, p)) \in Nat
        /\ Cardinality(Guests(B, p)) = Cardinality(Guests(A, p)) + 1
    <3>1. OthersWork(A, B, a) BY <1>1 DEF OthersWork
    <3>2. Bit(WorksOn(B, a, p)) = 1 /\ Bit(WorksOn(A, a, p)) = 0
      BY NoneIsNobody DEF Bit, WorksOn
    <3>3. Cardinality(Guests(B, p)) = Cardinality(Guests(A, p))
            + Bit(WorksOn(B, a, p)) - Bit(WorksOn(A, a, p))
      BY <3>1, GuestsChange
    <3>4. Cardinality(Guests(A, p)) \in Nat /\ Cardinality(Remains(T, p)) \in Nat
      BY CountsAre
    <3> QED BY <3>2, <3>3, <3>4
  <2>2. /\ P[p].ref = Cardinality(Guests(A, p)) + Cardinality(Remains(T, p))
                        + Bit(Leaving(A, P, p))
        /\ P[p].freed <=> P[p].dead /\ P[p].ref = 0
        /\ P[p].dead <=> A[p].pc # "off"
    BY DEF Counted, ProcCounted
  <2>3. /\ Q[p].ref = P[p].ref + 1 /\ (Q[p].freed <=> P[p].freed)
        /\ Q[p].dead <=> P[p].dead
    BY DEF ProcMore, Mortal
  <2>4. SamePhase(A, B, p) BY <1>3
  <2>5. Leaving(B, Q, p) <=> Leaving(A, P, p) BY <2>3, <2>4 DEF Leaving, SamePhase
  <2>6. Bit(Leaving(B, Q, p)) = Bit(Leaving(A, P, p)) /\ Bit(Leaving(A, P, p)) \in Nat
    BY <2>5 DEF Bit
  <2>7. Q[p].ref = Cardinality(Guests(B, p)) + Cardinality(Remains(U, p))
                     + Bit(Leaving(B, Q, p))
    BY <1>5, <2>1, <2>2, <2>3, <2>6
  <2>8. Q[p].freed <=> Q[p].dead /\ Q[p].ref = 0
    <3>1. P[p].ref \in Nat BY <2>1, <2>2, <2>6
    <3>2. P[p].dead => P[p].ref # 0
      <4> SUFFICES ASSUME P[p].dead PROVE P[p].ref # 0 OBVIOUS
      <4>1. Bit(Leaving(A, P, p)) = 1 BY DEF Bit, Leaving, Begun
      <4> QED BY <2>1, <2>2, <4>1
    <3> QED BY <2>2, <2>3, <3>1, <3>2
  <2>9. B[p].pc \in Begun /\ B[p].pc # "gone" BY <2>4 DEF SamePhase, Begun
  <2>10. Q[p].dead <=> B[p].pc # "off" BY <2>2, <2>3, <2>4 DEF SamePhase
  <2> QED BY <2>7, <2>8, <2>9, <2>10 DEF ProcCounted
<1> QED BY <1>4, <1>6, <1>7 DEF Counted

\* a drops its reference on process p.
LEMMA CountsLeave ==
    ASSUME NEW A, NEW B, NEW T, NEW U, NEW P, NEW Q, Counted(A, T, P),
           NEW a \in Agents, Follows(A, B, a), B[a].tgt = A[a].tgt,
           NEW p \in Procs, A[a].proc = p, B[a].proc = None,
           ProcLess(T, P, Q, p), \A o \in Threads : ThreadStill(T, U, o)
    PROVE  Counted(B, U, Q)
<1>1. \A b \in Agents : /\ SamePhase(A, B, b) /\ B[b].tgt = A[b].tgt
                        /\ b # a => B[b].proc = A[b].proc
  BY DEF Follows
<1>2. /\ \A x : Users(B, x) = Users(A, x)
      /\ \A q \in Procs : q # p => Guests(B, q) = Guests(A, q)
  BY <1>1, NoneIsNobody DEF Users, Guests
<1>3. /\ \A o \in Threads : B[o].pc = "gone" <=> A[o].pc = "gone"
      /\ \A q \in Procs : SamePhase(A, B, q)
  BY <1>1, OneOfAgents DEF SamePhase
<1>4. \A o \in Threads : ThreadCounted(B, U, o)
  BY <1>2, <1>3, ThreadStays DEF Counted
<1>5. \A x : Remains(U, x) = Remains(T, x) BY RemainsStay
<1>6. \A q \in Procs : q # p => ProcCounted(B, U, Q, q)
  BY <1>2, <1>3, <1>5, ProcStays DEF Counted, ProcLess
<1>7. ProcCounted(B, U, Q, p)
  <2>1. /\ Cardinality(Guests(A, p)) \in Nat /\ Cardinality(Remains(T, p)) \in Nat
        /\ Cardinality(Guests(B, p)) = Cardinality(Guests(A, p)) - 1
    <3>1. OthersWork(A, B, a) BY <1>1 DEF OthersWork
    <3>2. Bit(WorksOn(B, a, p)) = 0 /\ Bit(WorksOn(A, a, p)) = 1
      BY NoneIsNobody DEF Bit, WorksOn
    <3>3. Cardinality(Guests(B, p)) = Cardinality(Guests(A, p))
            + Bit(WorksOn(B, a, p)) - Bit(WorksOn(A, a, p))
      BY <3>1, GuestsChange
    <3>4. Cardinality(Guests(A, p)) \in Nat /\ Cardinality(Remains(T, p)) \in Nat
      BY CountsAre
    <3> QED BY <3>2, <3>3, <3>4
  <2>2. SamePhase(A, B, p) BY <1>3
  <2>3. Leaving(B, Q, p) <=> Leaving(A, P, p)
    BY <2>2 DEF Leaving, SamePhase, ProcLess, Mortal
  <2>4. Bit(Leaving(B, Q, p)) = Bit(Leaving(A, P, p)) /\ Bit(Leaving(A, P, p)) \in Nat
    BY <2>3 DEF Bit
  <2>5. Cardinality(Guests(B, p)) + Cardinality(Remains(U, p)) + Bit(Leaving(B, Q, p))
          = Cardinality(Guests(A, p)) + Cardinality(Remains(T, p))
              + Bit(Leaving(A, P, p)) - 1
    BY <1>5, <2>1, <2>4
  <2>6. Guests(A, p) # {} BY DEF Guests
  <2>7. \A o \in Threads : A[o].pc = "gone" => B[o].pc = "gone" BY <1>3
  <2>8. /\ B[p].pc = "off" <=> A[p].pc = "off"
        /\ B[p].pc \in Begun <=> A[p].pc \in Begun
        /\ B[p].pc = "gone" => A[p].pc = "gone"
    BY <2>2 DEF SamePhase
  <2> QED BY <2>5, <2>6, <2>7, <2>8, ProcDrops
<1> QED BY <1>4, <1>6, <1>7 DEF Counted

\* Where nobody comes or goes but x moves on in its own release.
Proceeds(A, B, x) ==
    /\ \A b \in Agents : B[b].tgt = A[b].tgt /\ B[b].proc = A[b].proc
    /\ \A b \in Agents : b # x => SamePhase(A, B, b)

LEMMA ProceedsSame ==
    ASSUME NEW A, NEW B, NEW a, Proceeds(A, B, a)
    PROVE  \A x : Users(B, x) = Users(A, x) /\ Guests(B, x) = Guests(A, x)
BY DEF Proceeds, Users, Guests

\* binder_thread_release begins with thread th.
LEMMA CountsDie ==
    ASSUME NEW A, NEW B, NEW T, NEW U, NEW P, NEW Q, Counted(A, T, P),
           NEW th \in Threads, Proceeds(A, B, th), SamePhase(A, B, th),
           ~T[th].dead, U[th].dead, U[th].ref = T[th].ref + 1, U[th].freed <=> T[th].freed,
           \A o \in Threads : o # th => ThreadStill(T, U, o),
           ProcMore(P, Q, Owner[th])
    PROVE  Counted(B, U, Q)
<1> DEFINE p == Owner[th]
<1>0. p \in Procs BY OwnerAssumption
<1>1. \A x : Users(B, x) = Users(A, x) /\ Guests(B, x) = Guests(A, x) BY ProceedsSame
<1>2. /\ \A o \in Threads : B[o].pc = "gone" <=> A[o].pc = "gone"
      /\ \A q \in Procs : SamePhase(A, B, q)
  BY OneOfAgents DEF Proceeds, SamePhase
<1>3. \A o \in Threads : o # th => ThreadCounted(B, U, o)
  BY <1>1, <1>2, ThreadStays DEF Counted
<1>4. /\ T[th].ref = Cardinality(Users(A, th)) + Bit(Leaving(A, T, th))
      /\ ~T[th].freed /\ A[th].pc # "gone" /\ Cardinality(Users(A, th)) \in Nat
  BY CountsAre DEF Counted, ThreadCounted
<1>5. Bit(Leaving(A, T, th)) = 0 /\ Bit(Leaving(B, U, th)) = 1
  BY <1>2, <1>4 DEF Leaving, Bit
<1>6. ThreadCounted(B, U, th)
  <2>1. U[th].ref = Cardinality(Users(B, th)) + Bit(Leaving(B, U, th))
    BY <1>1, <1>4, <1>5
  <2>2. U[th].ref # 0 BY <1>4, <1>5
  <2> QED BY <1>2, <1>4, <2>1, <2>2 DEF ThreadCounted
<1>7. /\ \A q : q # p => Remains(U, q) = Remains(T, q)
      /\ Cardinality(Remains(T, p)) \in Nat
      /\ Cardinality(Remains(U, p)) = Cardinality(Remains(T, p)) + 1
  <2>1. \A o \in Threads : o # th => (U[o].dead <=> T[o].dead) /\ (U[o].freed <=> T[o].freed)
    BY DEF ThreadStill, Numbers, Mortal
  <2>2. /\ \A q : q # p => Remains(U, q) = Remains(T, q)
        /\ Cardinality(Remains(T, p)) \in Nat
        /\ Cardinality(Remains(U, p)) = Cardinality(Remains(T, p))
             + Bit(Remaining(U, th)) - Bit(Remaining(T, th))
    BY <2>1, RemainsChange
  <2>3. Bit(Remaining(U, th)) = 1 /\ Bit(Remaining(T, th)) = 0 BY <1>4 DEF Bit, Remaining
  <2> QED BY <2>2, <2>3
<1>8. ProcMore(P, Q, p) OBVIOUS
<1> HIDE DEF p
<1>9. \A q \in Procs : q # p => ProcCounted(B, U, Q, q)
  BY <1>1, <1>2, <1>7, <1>8, ProcStays DEF Counted, ProcMore
<1>10. ProcCounted(B, U, Q, p)
  <2>1. /\ P[p].ref = Cardinality(Guests(A, p)) + Cardinality(Remains(T, p))
                        + Bit(Leaving(A, P, p))
        /\ P[p].freed <=> P[p].dead /\ P[p].ref = 0
        /\ P[p].dead <=> A[p].pc # "off"
        /\ A[p].pc \in Begun
    BY <1>0, <1>4 DEF Counted, ProcCounted, p
  <2>2. /\ Q[p].ref = P[p].ref + 1 /\ (Q[p].freed <=> P[p].freed)
        /\ Q[p].dead <=> P[p].dead
    BY <1>8 DEF ProcMore, Mortal
  <2>3. SamePhase(A, B, p) BY <1>0, <1>2
  <2>4. Leaving(B, Q, p) <=> Leaving(A, P, p) BY <2>2, <2>3 DEF Leaving, SamePhase
  <2>5. Bit(Leaving(B, Q, p)) = Bit(Leaving(A, P, p)) /\ Bit(Leaving(A, P, p)) \in Nat
    BY <2>4 DEF Bit
  <2>6. Cardinality(Guests(A, p)) \in Nat /\ Guests(B, p) = Guests(A, p)
    BY <1>1, CountsAre
  <2>7. Q[p].ref = Cardinality(Guests(B, p)) + Cardinality(Remains(U, p))
                     + Bit(Leaving(B, Q, p))
    BY <1>7, <2>1, <2>2, <2>5, <2>6
  <2>8. Q[p].freed <=> Q[p].dead /\ Q[p].ref = 0
    <3>1. P[p].ref \in Nat BY <1>7, <2>1, <2>5, <2>6
    <3>2. P[p].dead => P[p].ref # 0
      <4> SUFFICES ASSUME P[p].dead PROVE P[p].ref # 0 OBVIOUS
      <4>1. Bit(Leaving(A, P, p)) = 1 BY <2>1 DEF Bit, Leaving, Begun
      <4> QED BY <1>7, <2>1, <2>6, <4>1
    <3> QED BY <2>1, <2>2, <3>1, <3>2
  <2>9. B[p].pc \in Begun /\ B[p].pc # "gone" BY <2>1, <2>3 DEF SamePhase, Begun
  <2>10. Q[p].dead <=> B[p].pc # "off" BY <2>1, <2>2, <2>3 DEF SamePhase
  <2> QED BY <2>7, <2>8, <2>9, <2>10 DEF ProcCounted
<1> QED BY <1>3, <1>6, <1>9, <1>10 DEF Counted

\* binder_thread_release ends: thread th gives up its own reference.
LEMMA CountsBury ==
    ASSUME NEW A, NEW B, NEW T, NEW U, NEW P, NEW Q, Counted(A, T, P),
           NEW th \in Threads, Proceeds(A, B, th), A[th].pc # "gone", B[th].pc = "gone",
           T[th].dead, T[th].todo = <<>>, GivesUp(T, U, P, Q, th)
    PROVE  Counted(B, U, Q)
<1>1. \A x : Users(B, x) = Users(A, x) /\ Guests(B, x) = Guests(A, x) BY ProceedsSame
<1>2. /\ \A o \in Threads : o # th => (B[o].pc = "gone" <=> A[o].pc = "gone")
      /\ \A q \in Procs : SamePhase(A, B, q)
  BY OneOfAgents, NoneIsNobody DEF Proceeds, SamePhase
<1>3. ThreadLess(T, U, th) BY DEF GivesUp
<1>4. \A o \in Threads : o # th => ThreadCounted(B, U, o)
  BY <1>1, <1>2, <1>3, ThreadStays DEF Counted, ThreadLess
<1>5. \A o \in Threads : A[o].pc = "gone" => B[o].pc = "gone" BY <1>2
<1>6. /\ T[th].ref = Cardinality(Users(A, th)) + Bit(Leaving(A, T, th))
      /\ T[th].freed <=> T[th].dead /\ T[th].ref = 0
      /\ Cardinality(Users(A, th)) \in Nat
  BY CountsAre DEF Counted, ThreadCounted
<1>7. Bit(Leaving(A, T, th)) = 1 /\ Bit(Leaving(B, U, th)) = 0 BY DEF Bit, Leaving
<1>8. /\ U[th].ref = T[th].ref - 1 /\ (U[th].freed <=> LastRef(T, th))
      /\ U[th].dead /\ U[th].todo = <<>>
  BY <1>3 DEF ThreadLess, Mortal
<1>9. ThreadCounted(B, U, th)
  <2>1. U[th].ref = Cardinality(Users(B, th)) + Bit(Leaving(B, U, th))
    BY <1>1, <1>6, <1>7, <1>8
  <2>2. U[th].freed <=> U[th].dead /\ U[th].ref = 0 BY <1>6, <1>7, <1>8 DEF LastRef
  <2> QED BY <1>8, <2>1, <2>2 DEF ThreadCounted
<1>10. \A p \in Procs : ProcCounted(B, U, Q, p)
  <2>1. CASE LastRef(T, th)
    <3>1. ProcLess(T, P, Q, Owner[th]) BY <2>1 DEF GivesUp
    <3> QED BY <1>1, <1>2, <1>3, <1>5, <2>1, <3>1, RemainsFreed
  <2>2. CASE ~LastRef(T, th)
    <3>1. \A p \in Procs : ProcStill(P, Q, p) BY <2>2 DEF GivesUp
    <3>2. ~T[th].freed /\ ~U[th].freed /\ U[th].dead BY <1>6, <1>7, <1>8, <2>2
    <3>3. \A o \in Threads : o # th => (U[o].dead <=> T[o].dead)
                                       /\ (U[o].freed <=> T[o].freed)
      BY <1>3 DEF ThreadLess, ThreadStill, Numbers, Mortal
    <3>4. \A p : Remains(U, p) = Remains(T, p) BY <3>2, <3>3 DEF Remains
    <3> QED BY <1>1, <1>2, <1>5, <3>1, <3>4, ProcStays DEF Counted
  <2> QED BY <2>1, <2>2
<1> QED BY <1>4, <1>9, <1>10 DEF Counted

\* A phase of the release of process p that changes no thread.
LEMMA CountsPhase ==
    ASSUME NEW A, NEW B, NEW T, NEW P, NEW Q, Counted(A, T, P),
           NEW p \in Procs, Proceeds(A, B, p),
           \A q \in Procs : q # p => ProcStill(P, Q, q), ProcCounted(B, T, Q, p)
    PROVE  Counted(B, T, Q)
<1>1. \A x : Users(B, x) = Users(A, x) /\ Guests(B, x) = Guests(A, x) BY ProceedsSame
<1>2. /\ \A o \in Threads : B[o].pc = "gone" <=> A[o].pc = "gone"
      /\ \A q \in Procs : q # p => SamePhase(A, B, q)
  BY OneOfAgents, NoneIsNobody DEF Proceeds, SamePhase
<1>3. \A o \in Threads : ThreadStill(T, T, o) BY DEF ThreadStill, Numbers, Mortal
<1>4. \A o \in Threads : ThreadCounted(B, T, o)
  BY <1>1, <1>2, <1>3, ThreadStays DEF Counted
<1>5. \A q \in Procs : q # p => ProcCounted(B, T, Q, q)
  BY <1>1, <1>2, ProcStays DEF Counted
<1> QED BY <1>4, <1>5 DEF Counted

\* It begins.
LEMMA CountsClose ==
    ASSUME NEW A, NEW B, NEW T, NEW P, NEW Q, Counted(A, T, P),
           NEW p \in Procs, Proceeds(A, B, p), A[p].pc = "off", B[p].pc = "threads",
           \A q \in Procs : q # p => ProcStill(P, Q, q),
           Q[p].dead, Q[p].ref = P[p].ref + 1, Q[p].freed <=> P[p].freed
    PROVE  Counted(B, T, Q)
<1>1. Guests(B, p) = Guests(A, p) BY ProceedsSame
<1>2. /\ P[p].ref = Cardinality(Guests(A, p)) + Cardinality(Remains(T, p))
                      + Bit(Leaving(A, P, p))
      /\ ~P[p].dead /\ ~P[p].freed
  BY DEF Counted, ProcCounted
<1>3. Bit(Leaving(A, P, p)) = 0 /\ Bit(Leaving(B, Q, p)) = 1 BY <1>2 DEF Bit, Leaving
<1>4. Cardinality(Guests(A, p)) \in Nat /\ Cardinality(Remains(T, p)) \in Nat
  BY CountsAre
<1>5. Q[p].ref = Cardinality(Guests(B, p)) + Cardinality(Remains(T, p))
                   + Bit(Leaving(B, Q, p))
  BY <1>1, <1>2, <1>3, <1>4
<1>6. Q[p].ref # 0 /\ ~Q[p].freed BY <1>2, <1>3, <1>4
<1>7. ProcCounted(B, T, Q, p) BY <1>5, <1>6 DEF ProcCounted, Begun
<1> QED BY <1>7, CountsPhase

\* Its threads are gone, and it loses its node.
LEMMA CountsDesert ==
    ASSUME NEW A, NEW B, NEW T, NEW P, NEW Q, Counted(A, T, P),
           NEW p \in Procs, Proceeds(A, B, p), A[p].pc = "threads", B[p].pc = "todo",
           \A th \in Threads : Owner[th] = p => A[th].pc = "gone",
           \A q \in Procs : q # p => ProcStill(P, Q, q),
           Q[p].dead <=> P[p].dead, Q[p].ref = P[p].ref, Q[p].freed <=> P[p].freed,
           ~Q[p].node
    PROVE  Counted(B, T, Q)
<1>1. Guests(B, p) = Guests(A, p) BY ProceedsSame
<1>2. /\ P[p].ref = Cardinality(Guests(A, p)) + Cardinality(Remains(T, p))
                      + Bit(Leaving(A, P, p))
      /\ P[p].dead /\ (P[p].freed <=> P[p].dead /\ P[p].ref = 0)
  BY DEF Counted, ProcCounted
<1>3. Bit(Leaving(A, P, p)) = 1 /\ Bit(Leaving(B, Q, p)) = 1 BY <1>2 DEF Bit, Leaving
<1>4. Q[p].ref = Cardinality(Guests(B, p)) + Cardinality(Remains(T, p))
                   + Bit(Leaving(B, Q, p))
  BY <1>1, <1>2, <1>3
<1>5. \A th \in Threads : Owner[th] = p => B[th].pc = "gone"
  BY OneOfAgents, NoneIsNobody DEF Proceeds, SamePhase
<1>6. ProcCounted(B, T, Q, p) BY <1>2, <1>4, <1>5 DEF ProcCounted, Begun
<1> QED BY <1>6, CountsPhase

\* It ends.
LEMMA CountsRetire ==
    ASSUME NEW A, NEW B, NEW T, NEW P, NEW Q, Counted(A, T, P),
           NEW p \in Procs, Proceeds(A, B, p), A[p].pc = "todo", B[p].pc = "gone",
           P[p].todo = <<>>, ProcLess(T, P, Q, p)
    PROVE  Counted(B, T, Q)
<1>1. Guests(B, p) = Guests(A, p) BY ProceedsSame
<1>2. P[p].dead BY DEF Counted, ProcCounted
<1>3. Bit(Leaving(A, P, p)) = 1 /\ Bit(Leaving(B, Q, p)) = 0 BY <1>2 DEF Bit, Leaving
<1>4. Cardinality(Guests(A, p)) \in Nat /\ Cardinality(Remains(T, p)) \in Nat
  BY CountsAre
<1>5. Cardinality(Guests(B, p)) + Cardinality(Remains(T, p)) + Bit(Leaving(B, Q, p))
        = Cardinality(Guests(A, p)) + Cardinality(Remains(T, p))
            + Bit(Leaving(A, P, p)) - 1
  BY <1>1, <1>3, <1>4
<1>6. \A o \in Threads : A[o].pc = "gone" => B[o].pc = "gone"
  BY OneOfAgents, NoneIsNobody DEF Proceeds, SamePhase
<1>7. A[p].pc \notin Begun /\ B[p].pc \notin Begun BY DEF Begun
<1>8. ProcCounted(B, T, Q, p) BY <1>5, <1>6, <1>7, ProcDrops
<1> QED BY <1>8, CountsPhase DEF ProcLess

-----------------------------------------------------------------------------
(* The operations of the driver on the counts. *)

LEMMA StillItself ==
    ASSUME NEW T, NEW o
    PROVE  ThreadStill(T, T, o) /\ ProcStill(T, T, o)
BY DEF ThreadStill, ProcStill, Numbers, Mortal, NodeKept

LEMMA StillThen ==
    ASSUME NEW T, NEW U, NEW V, NEW o, ThreadStill(T, U, o), ThreadStill(U, V, o)
    PROVE  ThreadStill(T, V, o)
BY DEF ThreadStill, Numbers, Mortal

ThreadsStill(T, U) == \A o \in Threads : ThreadStill(T, U, o)
ProcsStill(P, Q) == \A p \in Procs : ProcStill(P, Q, p)

LEMMA AllStill ==
    ASSUME NEW T PROVE ThreadsStill(T, T) /\ ProcsStill(T, T)
BY StillItself DEF ThreadsStill, ProcsStill

LEMMA AllStillThen ==
    ASSUME NEW T, NEW U, NEW V, ThreadsStill(T, U), ThreadsStill(U, V)
    PROVE  ThreadsStill(T, V)
BY StillThen DEF ThreadsStill

LEMMA EnqueueStill ==
    ASSUME NEW U \in LooseThreads, NEW x \in Threads, ~U[x].dead, NEW w \in Work
    PROVE  ThreadsStill(U, Enqueue(U, x, w))
BY EnqueueIs DEF ThreadsStill, ThreadStill, Numbers, Mortal

LEMMA UnrefProcLess ==
    ASSUME NEW P \in LooseProcesses, NEW p \in Procs
    PROVE  ProcLess(thr, P, UnrefProc(P, p), p)
<1> DEFINE free == P[p].dead /\ P[p].ref = 1 /\ \A th \in Threads : Owner[th] = p => thr[th].dead
           V == UnrefProc(P, p)
<1>1. V = [P EXCEPT ![p].ref = @ - 1, ![p].freed = free] BY DEF UnrefProc
<1>2. free <=> LastRef(P, p) /\ AllDead(thr, p) BY DEF LastRef, AllDead
<1> HIDE DEF V, free
<1>3. \A q \in Procs : /\ q # p => V[q] = P[q]
                       /\ V[q].dead = P[q].dead /\ V[q].todo = P[q].todo
                       /\ V[q].node = P[q].node
  BY <1>1 DEF LooseProcesses, LooseProcess
<1>4. V[p].ref = P[p].ref - 1 /\ V[p].freed = free
  BY <1>1 DEF LooseProcesses, LooseProcess
<1>5. \A q \in Procs : Mortal(P, V, q) /\ NodeKept(P, V, q)
  BY <1>3 DEF Mortal, NodeKept
<1>6. \A q \in Procs : q # p => ProcStill(P, V, q)
  BY <1>3, <1>5 DEF ProcStill, Numbers
<1> QED BY <1>2, <1>4, <1>5, <1>6 DEF ProcLess, V

LEMMA UnrefGivesUp ==
    ASSUME Types, NEW U \in LooseThreads, ThreadsStill(thr, U), NEW x \in Threads
    PROVE  GivesUp(thr, Unref(U, x), prc, AfterUnref(prc, x), x)
<1> DEFINE V == Unref(U, x)
<1>1. V = [U EXCEPT ![x].ref = @ - 1, ![x].freed = Frees(x),
                    ![x].stack = IF Frees(x) THEN None ELSE @,
                    ![x].processTodo = @ /\ ~Frees(x)]
  BY DEF Unref
<1> HIDE DEF V
<1>2. \A o \in Threads : /\ o # x => V[o] = U[o]
                         /\ V[o].dead = U[o].dead /\ V[o].todo = U[o].todo
  BY <1>1 DEF LooseThreads, LooseThread
<1>3. V[x].ref = U[x].ref - 1 /\ V[x].freed = Frees(x)
  BY <1>1 DEF LooseThreads, LooseThread
<1>4. Frees(x) <=> LastRef(thr, x) BY DEF Frees, LastRef
<1>5. \A o \in Threads : Mortal(thr, V, o) BY <1>2 DEF ThreadsStill, ThreadStill, Mortal
<1>6. \A o \in Threads : o # x => ThreadStill(thr, V, o)
  BY <1>2, <1>5 DEF ThreadsStill, ThreadStill, Numbers
<1>7. ThreadLess(thr, V, x)
  BY <1>3, <1>4, <1>5, <1>6 DEF ThreadLess, ThreadsStill, ThreadStill, Numbers
<1>8. LastRef(thr, x) => ProcLess(thr, prc, AfterUnref(prc, x), Owner[x])
  BY <1>4, UnrefProcLess, OwnerAssumption DEF Types, AfterUnref
<1>9. ~LastRef(thr, x) => \A p \in Procs : ProcStill(prc, AfterUnref(prc, x), p)
  BY <1>4, StillItself DEF AfterUnref
<1> QED BY <1>7, <1>8, <1>9 DEF GivesUp, V

LEMMA GivesUpThen ==
    ASSUME NEW T, NEW U, NEW V, NEW P, NEW Q, NEW x \in Threads, GivesUp(T, U, P, Q, x),
           ThreadsStill(U, V)
    PROVE  GivesUp(T, V, P, Q, x)
<1>1. ThreadLess(T, U, x) BY DEF GivesUp
<1>2. \A o \in Threads : o # x => ThreadStill(T, V, o)
  BY <1>1, StillThen DEF ThreadLess, ThreadsStill
<1>3. Mortal(T, V, x) /\ V[x].ref = U[x].ref /\ (V[x].freed <=> U[x].freed)
  BY <1>1 DEF ThreadLess, ThreadsStill, ThreadStill, Mortal, Numbers
<1>4. ThreadLess(T, V, x) BY <1>1, <1>2, <1>3 DEF ThreadLess
<1> QED BY <1>4 DEF GivesUp

LEMMA RefTakes ==
    ASSUME NEW T \in LooseThreads, NEW x \in Threads
    PROVE  ThreadMore(T, [T EXCEPT ![x].ref = @ + 1], x)
<1> DEFINE V == [T EXCEPT ![x].ref = @ + 1]
<1>1. /\ \A o \in Threads : /\ o # x => V[o] = T[o]
                            /\ V[o].dead = T[o].dead /\ V[o].todo = T[o].todo
                            /\ V[o].freed = T[o].freed
      /\ V[x].ref = T[x].ref + 1
  BY DEF LooseThreads, LooseThread
<1> HIDE DEF V
<1>2. ThreadMore(T, V, x) BY <1>1 DEF ThreadMore, ThreadStill, Mortal, Numbers
<1> QED BY <1>2 DEF V

LEMMA RefTakesAfter ==
    ASSUME NEW T, NEW U, NEW V, NEW x \in Threads, ThreadsStill(T, U),
           ThreadMore(U, V, x)
    PROVE  ThreadMore(T, V, x)
<1>1. \A o \in Threads : o # x => ThreadStill(T, V, o)
  BY StillThen DEF ThreadMore, ThreadsStill
<1>2. Mortal(T, V, x) /\ V[x].ref = T[x].ref + 1 /\ (V[x].freed <=> T[x].freed)
  BY DEF ThreadMore, ThreadsStill, ThreadStill, Mortal, Numbers
<1> QED BY <1>1, <1>2 DEF ThreadMore

LEMMA RefHolds ==
    ASSUME NEW P \in LooseProcesses, NEW p \in Procs
    PROVE  ProcMore(P, [P EXCEPT ![p].ref = @ + 1], p)
<1> DEFINE V == [P EXCEPT ![p].ref = @ + 1]
<1>1. /\ \A q \in Procs : /\ q # p => V[q] = P[q]
                          /\ V[q].dead = P[q].dead /\ V[q].todo = P[q].todo
                          /\ V[q].freed = P[q].freed /\ V[q].node = P[q].node
      /\ V[p].ref = P[p].ref + 1
  BY DEF LooseProcesses, LooseProcess
<1> HIDE DEF V
<1>2. ProcMore(P, V, p) BY <1>1 DEF ProcMore, ProcStill, Mortal, Numbers, NodeKept
<1> QED BY <1>2 DEF V

Halted == {"off", "threads", "gone"}

LEMMA FollowsTo ==
    ASSUME Types, NEW a \in Agents, NEW pl, at' = [at EXCEPT ![a] = pl],
           at[a].pc \notin Halted, pl.pc \notin Halted
    PROVE  Follows(at, at', a) /\ at'[a] = pl
<1>1. at'[a] = pl /\ \A b \in Agents : b # a => at'[b] = at[b] BY DEF Types, Places
<1>2. SamePhase(at, at', a) BY <1>1 DEF SamePhase, Halted, Begun
<1>3. \A b \in Agents : b # a => SamePhase(at, at', b) BY <1>1 DEF SamePhase
<1> QED BY <1>1, <1>2, <1>3 DEF Follows

LEMMA FollowsItself ==
    ASSUME NEW A, NEW a PROVE Follows(A, A, a)
BY DEF Follows, SamePhase

\* What a living thread has on its list and its stack is no matter.
LEMMA LivingStill ==
    ASSUME NEW T, NEW U, NEW x, ~T[x].dead,
           \A o \in Threads : o # x => U[o] = T[o],
           U[x].dead = T[x].dead, U[x].ref = T[x].ref, U[x].freed = T[x].freed
    PROVE  ThreadsStill(T, U)
BY DEF ThreadsStill, ThreadStill, Numbers, Mortal

LEMMA ReportStill ==
    ASSUME NEW U \in LooseThreads, NEW x \in Threads, ~U[x].dead
    PROVE  ThreadsStill(U, Report(U, x))
<1>1. Item("return", None) \in Work BY Items
<1> QED BY <1>1, EnqueueStill DEF Report

\* A released thread is at work on its release.
LEMMA LivesAt ==
    ASSUME Sound, NEW th \in Threads, at[th].pc \notin {"work", "gone", "fail", "failfrom"}
    PROVE  ~thr[th].dead
<1>1. Shaped(Gone, th, at[th]) BY Known, OneOfAgents
<1> QED BY <1>1 DEF Shaped, Gone

\* A step of the driver that takes and drops no reference.
LEMMA NoReference ==
    ASSUME Referred, NEW a \in Agents, Follows(at, at', a),
           at'[a].tgt = at[a].tgt, at'[a].proc = at[a].proc,
           ThreadsStill(thr, thr'), ProcsStill(prc, prc')
    PROVE  Referred'
<1>1. Counted(at, thr, prc) BY DEF Referred
<1>2. Counted(at', thr', prc') BY <1>1, CountsStay DEF ThreadsStill, ProcsStill
<1> QED BY <1>2 DEF Referred

LEMMA MovesOn ==
    ASSUME Types, Referred, NEW a \in Agents, NEW pl, at' = [at EXCEPT ![a] = pl],
           at[a].pc \notin Halted, pl.pc \notin Halted,
           pl.tgt = at[a].tgt, pl.proc = at[a].proc,
           ThreadsStill(thr, thr'), ProcsStill(prc, prc')
    PROVE  Referred'
<1>1. Follows(at, at', a) /\ at'[a] = pl BY FollowsTo
<1> QED BY <1>1, NoReference

\* One that takes a reference on a living thread,
LEMMA TakesReference ==
    ASSUME Types, Referred, NEW a \in Agents, NEW pl, at' = [at EXCEPT ![a] = pl],
           at[a].pc \notin Halted, pl.pc \notin Halted, NEW t \in Threads,
           at[a].tgt = None, pl.tgt = t, pl.proc = at[a].proc, ~thr[t].dead,
           ThreadMore(thr, thr', t), ProcsStill(prc, prc')
    PROVE  Referred'
<1>1. Follows(at, at', a) /\ at'[a] = pl BY FollowsTo
<1>2. Counted(at, thr, prc) BY DEF Referred
<1>3. Counted(at', thr', prc') BY <1>1, <1>2, CountsTake DEF ProcsStill
<1> QED BY <1>3 DEF Referred

\* that drops it,
LEMMA DropsReference ==
    ASSUME Types, Referred, NEW a \in Agents, NEW pl, at' = [at EXCEPT ![a] = pl],
           at[a].pc \notin Halted, pl.pc \notin Halted, NEW t \in Threads,
           at[a].tgt = t, pl.tgt = None, pl.proc = at[a].proc,
           GivesUp(thr, thr', prc, prc', t)
    PROVE  Referred'
<1>1. Follows(at, at', a) /\ at'[a] = pl BY FollowsTo
<1>2. Counted(at, thr, prc) BY DEF Referred
<1>3. Counted(at', thr', prc') BY <1>1, <1>2, CountsDrop
<1> QED BY <1>3 DEF Referred

\* or that takes one on a process.
LEMMA HoldsReference ==
    ASSUME Types, Referred, NEW a \in Agents, NEW pl, at' = [at EXCEPT ![a] = pl],
           at[a].pc \notin Halted, pl.pc \notin Halted, NEW p \in Procs,
           at[a].proc = None, pl.proc = p, pl.tgt = at[a].tgt, at[p].pc \in Begun,
           ProcMore(prc, prc', p), ThreadsStill(thr, thr')
    PROVE  Referred'
<1>1. Follows(at, at', a) /\ at'[a] = pl BY FollowsTo
<1>2. Counted(at, thr, prc) BY DEF Referred
<1>3. Counted(at', thr', prc') BY <1>1, <1>2, CountsHold DEF ThreadsStill
<1> QED BY <1>3 DEF Referred

-----------------------------------------------------------------------------
(* Making a call. *)

LEMMA CallFailsCounts ==
    ASSUME Sound, Referred, NEW th \in Threads, CallFails(th) PROVE Referred'
<1> DEFINE pl == [at[th] EXCEPT !.pc = "err"]
<1>1. Types /\ at[th] \in Place /\ th \in Agents BY Known, OneOfAgents
<1>2. /\ at[th].pc = "target" /\ prc' = prc /\ thr' = thr /\ at' = [at EXCEPT ![th] = pl]
  BY DEF CallFails
<1>3. pl.pc = "err" /\ pl.tgt = at[th].tgt /\ pl.proc = at[th].proc BY <1>1 DEF Place
<1> HIDE DEF pl
<1>4. at[th].pc \notin Halted /\ pl.pc \notin Halted BY <1>2, <1>3 DEF Halted
<1> QED BY <1>1, <1>2, <1>3, <1>4, AllStill, MovesOn

LEMMA PushCallCounts ==
    ASSUME Sound, Referred, NEW th \in Threads, PushCall(th) PROVE Referred'
<1>1. Types /\ at[th] \in Place /\ th \in Agents BY Known, OneOfAgents
<1>2. at[th].pc = "target" /\ prc' = prc BY DEF PushCall
<1>3. PICK c \in NextCall :
        /\ thr' = [thr EXCEPT ![th].stack = c, ![th].todo = Append(@, Item("complete", c))]
        /\ at' = [at EXCEPT ![th].pc = "queue", ![th].cur = c]
  BY DEF PushCall
<1> DEFINE pl == [at[th] EXCEPT !.pc = "queue", !.cur = c]
<1>4. at' = [at EXCEPT ![th] = pl] BY <1>1, <1>3 DEF Types, Places
<1>5. pl.pc = "queue" /\ pl.tgt = at[th].tgt /\ pl.proc = at[th].proc BY <1>1 DEF Place
<1> HIDE DEF pl
<1>6. at[th].pc \notin Halted /\ pl.pc \notin Halted BY <1>2, <1>5 DEF Halted
<1>7. ThreadsStill(thr, thr')
  <2>1. ~thr[th].dead BY <1>2, LivesAt
  <2>2. /\ \A o \in Threads : o # th => thr'[o] = thr[o]
        /\ thr'[th].dead = thr[th].dead /\ thr'[th].ref = thr[th].ref
        /\ thr'[th].freed = thr[th].freed
    BY <1>1, <1>3 DEF Types, LooseThreads, LooseThread
  <2> QED BY <2>1, <2>2, LivingStill
<1> QED BY <1>1, <1>2, <1>4, <1>5, <1>6, <1>7, AllStill, MovesOn

LEMMA QueueCallCounts ==
    ASSUME Sound, Referred, NEW th \in Threads, QueueCall(th) PROVE Referred'
<1> DEFINE p == at[th].proc
           to == at[th].tgt
           work == Item("call", at[th].cur)
<1>1. Types /\ at[th] \in Place /\ th \in Agents /\ Shaped(Gone, th, at[th])
  BY Known, OneOfAgents
<1>2. at[th].pc = "queue" BY DEF QueueCall
<1>3. p \in Procs /\ to \in Threads \union {None} /\ work \in Work
  <2>1. at[th].cur \in Calls \union {None} BY <1>1 DEF Place
  <2>2. work \in Work BY <2>1, Items
  <2> QED BY <1>1, <1>2, <2>2 DEF Shaped, Calling, Place
<1>4. PICK pc \in {"undo", "done"} :
        /\ at' = [at EXCEPT ![th].pc = pc]
        /\ pc = "undo" => thr' = thr /\ prc' = prc
        /\ pc = "done" =>
             /\ ~(prc[p].dead \/ (to # None /\ thr[to].dead))
             /\ \/ to # None /\ thr' = Enqueue(thr, to, work) /\ prc' = prc
                \/ /\ prc' = prc
                   /\ \E w \in Listed(p) : thr' = Enqueue(thr, w, work)
                \/ /\ prc' = [prc EXCEPT ![p].todo = Append(@, at[th].cur)]
                   /\ thr' = thr
  BY DEF QueueCall
<1> DEFINE pl == [at[th] EXCEPT !.pc = pc]
<1>5. at' = [at EXCEPT ![th] = pl] BY <1>4
<1>6. pl.pc = pc /\ pl.tgt = at[th].tgt /\ pl.proc = at[th].proc BY <1>1 DEF Place
<1> HIDE DEF pl, p, to, work
<1>7. at[th].pc \notin Halted /\ pl.pc \notin Halted BY <1>2, <1>6 DEF Halted
<1>8. ThreadsStill(thr, thr')
  <2>1. CASE thr' = thr BY <2>1, AllStill
  <2>2. CASE \E x \in Threads : ~thr[x].dead /\ thr' = Enqueue(thr, x, work)
    <3>1. PICK x \in Threads : ~thr[x].dead /\ thr' = Enqueue(thr, x, work) BY <2>2
    <3>2. thr \in LooseThreads BY <1>1 DEF Types
    <3> QED BY <1>3, <3>1, <3>2, EnqueueStill
  <2>3. ASSUME NEW w \in Listed(p) PROVE w \in Threads /\ ~thr[w].dead
    BY LivesAt DEF Listed
  <2> QED BY <1>3, <1>4, <2>1, <2>2, <2>3
<1>9. ProcsStill(prc, prc')
  <2>1. CASE prc' = prc BY <2>1, AllStill
  <2>2. CASE ~prc[p].dead /\ prc' = [prc EXCEPT ![p].todo = Append(@, at[th].cur)]
    <3>1. \A q \in Procs : /\ q # p => prc'[q] = prc[q]
                           /\ prc'[q].dead = prc[q].dead /\ prc'[q].ref = prc[q].ref
                           /\ prc'[q].freed = prc[q].freed /\ prc'[q].node = prc[q].node
      BY <1>1, <1>3, <2>2 DEF Types, LooseProcesses, LooseProcess
    <3> QED BY <2>2, <3>1 DEF ProcsStill, ProcStill, Numbers, Mortal, NodeKept
  <2> QED BY <1>4, <2>1, <2>2
<1> QED BY <1>1, <1>5, <1>6, <1>7, <1>8, <1>9, MovesOn

LEMMA UndoCallCounts ==
    ASSUME Sound, Referred, NEW th \in Threads, UndoCall(th) PROVE Referred'
<1> DEFINE pl == [at[th] EXCEPT !.pc = "err", !.cur = None]
           up == txn[at[th].cur].fromParent
<1>1. Types /\ at[th] \in Place /\ th \in Agents BY Known, OneOfAgents
<1>2. at[th].pc = "undo" /\ prc' = prc BY DEF UndoCall
<1>3. at' = [at EXCEPT ![th] = pl] BY <1>1 DEF UndoCall, Types, Places
<1>4. pl.pc = "err" /\ pl.tgt = at[th].tgt /\ pl.proc = at[th].proc BY <1>1 DEF Place
<1> HIDE DEF pl
<1>5. at[th].pc \notin Halted /\ pl.pc \notin Halted BY <1>2, <1>4 DEF Halted
<1>6. ThreadsStill(thr, thr')
  <2>1. PICK i \in DOMAIN thr[th].todo :
          thr' = [thr EXCEPT ![th].stack = up, ![th].todo = RemoveAt(@, i)]
    BY DEF UndoCall
  <2>2. ~thr[th].dead BY <1>2, LivesAt
  <2>3. /\ \A o \in Threads : o # th => thr'[o] = thr[o]
        /\ thr'[th].dead = thr[th].dead /\ thr'[th].ref = thr[th].ref
        /\ thr'[th].freed = thr[th].freed
    BY <1>1, <2>1 DEF Types, LooseThreads, LooseThread
  <2> QED BY <2>2, <2>3, LivingStill
<1> QED BY <1>1, <1>2, <1>3, <1>4, <1>5, <1>6, AllStill, MovesOn

LEMMA FindTargetCounts ==
    ASSUME Sound, Referred, NEW th \in Threads, FindTarget(th) PROVE Referred'
<1> DEFINE caller == WaitingCaller(th, at[th].proc)
<1>1. /\ Types /\ at[th] \in Place /\ th \in Agents /\ Shaped(Gone, th, at[th])
      /\ Writes(txn, Tops, Gone, th, at[th])
      /\ Core(txn, Tops, Gone, Pendings, Answered)
  BY Known, OneOfAgents DEF Sound
<1>2. at[th].pc = "refs" /\ prc' = prc BY DEF FindTarget
<1>3. /\ at[th].tgt = None /\ th \notin Gone
      /\ at[th].proc \in Procs /\ at[th].proc # Owner[th]
      /\ Tops[th] = None \/ txn[Tops[th]].toThread = th
  BY <1>1, <1>2 DEF Shaped, WithCall, Calling, Sending, Writes, Place
<1>4. Tops[th] = thr[th].stack BY <1>1, <1>3, TopThere
<1>5. CASE caller = None \/ (thr[th].stack # None /\ ~Serving(th))
  <2>1. PICK pc \in {"target", "err"} : at' = [at EXCEPT ![th].pc = pc] /\ thr' = thr
    BY <1>5 DEF FindTarget
  <2> DEFINE pl == [at[th] EXCEPT !.pc = pc]
  <2>2. at' = [at EXCEPT ![th] = pl] BY <2>1
  <2>3. pl.pc = pc /\ pl.tgt = at[th].tgt /\ pl.proc = at[th].proc BY <1>1 DEF Place
  <2> HIDE DEF pl
  <2>4. at[th].pc \notin Halted /\ pl.pc \notin Halted BY <1>2, <2>3 DEF Halted
  <2> QED BY <1>1, <1>2, <2>1, <2>2, <2>3, <2>4, AllStill, MovesOn
<1>6. CASE caller # None /\ ~(thr[th].stack # None /\ ~Serving(th))
  <2>1. caller \in Threads /\ caller \notin Gone
    BY <1>1, <1>3, <1>4, <1>6, CallerWaits
  <2> DEFINE pl == [at[th] EXCEPT !.pc = "target", !.tgt = caller]
  <2>2. pl.pc = "target" /\ pl.tgt = caller /\ pl.proc = at[th].proc BY <1>1 DEF Place
  <2>3. at' = [at EXCEPT ![th] = pl] /\ thr' = [thr EXCEPT ![caller].ref = @ + 1]
    BY <1>1, <1>6 DEF FindTarget, Types, Places
  <2> HIDE DEF pl, caller
  <2>4. at[th].pc \notin Halted /\ pl.pc \notin Halted BY <1>2, <2>2 DEF Halted
  <2>5. ThreadMore(thr, thr', caller) /\ ~thr[caller].dead
    BY <1>1, <2>1, <2>3, RefTakes DEF Types, Gone
  <2> QED BY <1>1, <1>2, <1>3, <2>1, <2>2, <2>3, <2>4, <2>5, AllStill, TakesReference
<1> QED BY <1>5, <1>6

LEMMA BeginCallCounts ==
    ASSUME Sound, Referred, NEW th \in Threads, NEW p \in Procs, BeginCall(th, p)
    PROVE  Referred'
<1>1. Types /\ at[th] \in Place /\ th \in Agents /\ Shaped(Gone, th, at[th])
  BY Known, OneOfAgents
<1>2. at[th].pc = "user" BY DEF BeginCall, CanWrite
<1>3. at[th].tgt = None /\ at[th].proc = None /\ ~thr[th].dead
  BY <1>1, <1>2, LivesAt DEF Shaped, Calling, Sending
<1>4. CASE prc[p].node
  <2> DEFINE pl == [Idle("refs") EXCEPT !.proc = p]
  <2>1. /\ prc' = [prc EXCEPT ![p].ref = @ + 1] /\ at' = [at EXCEPT ![th] = pl]
        /\ thr' = thr
    BY <1>4 DEF BeginCall
  <2>2. pl.pc = "refs" /\ pl.tgt = None /\ pl.proc = p BY DEF Idle
  <2> HIDE DEF pl
  <2>3. at[th].pc \notin Halted /\ pl.pc \notin Halted BY <1>2, <2>2 DEF Halted
  <2>4. at[p].pc \in Begun BY <1>4 DEF Referred, Counted, ProcCounted
  <2>5. ProcMore(prc, prc', p) BY <1>1, <2>1, RefHolds DEF Types
  <2> QED BY <1>1, <1>3, <2>1, <2>2, <2>3, <2>4, <2>5, AllStill, HoldsReference
<1>5. CASE ~prc[p].node
  <2>1. thr' = Report(thr, th) /\ prc' = prc /\ at' = at BY <1>5 DEF BeginCall
  <2>2. ThreadsStill(thr, thr') BY <1>1, <1>3, <2>1, ReportStill DEF Types
  <2> QED BY <1>1, <2>1, <2>2, AllStill, FollowsItself, NoReference
<1> QED BY <1>4, <1>5

\* A reference on a thread, if there is one, then one on its process is dropped.
LEMMA DropsBoth ==
    ASSUME Sound, Referred, NEW th \in Threads, NEW pl, at' = [at EXCEPT ![th] = pl],
           at[th].pc \notin Halted, pl.pc \notin Halted, pl.tgt = None, pl.proc = None,
           NEW p \in Procs, at[th].proc = p, NEW T, NEW P,
           \/ at[th].tgt = None /\ T = thr /\ P = prc
           \/ at[th].tgt # None /\ T = Unref(thr, at[th].tgt) /\ P = AfterUnref(prc, at[th].tgt),
           ThreadsStill(T, thr'), prc' = UnrefProc(P, p)
    PROVE  Referred'
<1> DEFINE rest == [at[th] EXCEPT !.tgt = None]
           A == [at EXCEPT ![th] = rest]
           to == at[th].tgt
<1>1. Types /\ Tidied /\ at[th] \in Place /\ th \in Agents BY Known, OneOfAgents
<1>2. rest.pc = at[th].pc /\ rest.tgt = None /\ rest.proc = p BY <1>1 DEF Place
<1>3. A[th] = rest /\ \A b \in Agents : b # th => A[b] = at[b]
  BY <1>1 DEF Types, Places
<1>4. at'[th] = pl /\ \A b \in Agents : b # th => at'[b] = at[b]
  BY <1>1 DEF Types, Places
<1>5. to \in Threads \union {None} BY <1>1 DEF Place
<1> HIDE DEF rest, A, to
<1>6. Follows(at, A, th) BY <1>2, <1>3 DEF Follows, SamePhase
<1>7. Follows(A, at', th)
  <2>1. SamePhase(A, at', th) BY <1>2, <1>3, <1>4 DEF SamePhase, Halted, Begun
  <2>2. \A b \in Agents : b # th => SamePhase(A, at', b) BY <1>3, <1>4 DEF SamePhase
  <2> QED BY <1>3, <1>4, <2>1, <2>2 DEF Follows
<1>8. Alike(thr, thr) /\ AlikeProcs(prc, prc) BY <1>1, AlikeHere
<1>9. P \in LooseProcesses
  <2>1. AlikeProcs(prc, AfterUnref(prc, to)) BY <1>8, AlikeAfterUnref
  <2> QED BY <1>8, <2>1 DEF AlikeProcs, to
<1>10. Counted(A, T, P) /\ \A o \in Threads : T[o].dead <=> thr[o].dead
  <2>1. CASE to = None
    <3>1. T = thr /\ P = prc BY <2>1 DEF to
    <3>2. Referred /\ A[th].tgt = at[th].tgt /\ A[th].proc = at[th].proc
      BY <1>2, <1>3, <2>1 DEF to
    <3> QED BY <1>1, <1>6, <3>1, <3>2, AllStill, CountsStay
         DEF Referred, ThreadsStill, ProcsStill
  <2>2. CASE to # None
    <3>1. T = Unref(thr, to) /\ P = AfterUnref(prc, to) /\ to \in Threads
      BY <1>5, <2>2 DEF to
    <3>2. thr \in LooseThreads /\ ThreadsStill(thr, thr) BY <1>1, AllStill DEF Types
    <3>3. GivesUp(thr, T, prc, P, to) BY <1>1, <3>1, <3>2, UnrefGivesUp
    <3>4. Counted(at, thr, prc) /\ A[th].proc = at[th].proc /\ A[th].tgt = None
      BY <1>2, <1>3 DEF Referred
    <3>5. Counted(A, T, P) BY <1>1, <1>6, <3>1, <3>3, <3>4, CountsDrop DEF to
    <3>6. \A o \in Threads : T[o].dead <=> thr[o].dead
      BY <3>3 DEF GivesUp, ThreadLess, ThreadStill, Mortal
    <3> QED BY <3>5, <3>6
  <2> QED BY <2>1, <2>2
<1>11. ProcLess(T, P, prc', p)
  <2>1. ProcLess(thr, P, prc', p) BY <1>9, UnrefProcLess
  <2>2. AllDead(T, p) <=> AllDead(thr, p) BY <1>10 DEF AllDead
  <2> QED BY <2>1, <2>2 DEF ProcLess
<1>12. A[th].proc = p /\ at'[th].proc = None /\ at'[th].tgt = A[th].tgt
  BY <1>2, <1>3, <1>4
<1>13. Counted(at', thr', prc')
  BY <1>1, <1>7, <1>10, <1>11, <1>12, CountsLeave DEF ThreadsStill
<1> QED BY <1>13 DEF Referred

LEMMA EndCallCounts ==
    ASSUME Sound, Referred, NEW th \in Threads, EndCall(th) PROVE Referred'
<1> DEFINE to == at[th].tgt
           p == at[th].proc
           T == IF to = None THEN thr ELSE Unref(thr, to)
           P == IF to = None THEN prc ELSE AfterUnref(prc, to)
           pl == Idle("user")
<1>1. Types /\ Tidied /\ at[th] \in Place /\ Shaped(Gone, th, at[th])
  BY Known, OneOfAgents
<1>2. at[th].pc \in {"done", "err"} /\ at' = [at EXCEPT ![th] = pl] BY DEF EndCall
<1>3. /\ thr' = (IF at[th].pc = "err" THEN Report(T, th) ELSE T)
      /\ prc' = UnrefProc(P, p)
  BY DEF EndCall
<1>4. to \in Threads \union {None} /\ p \in Procs
  BY <1>1, <1>2 DEF Shaped, Calling, Place
<1>5. pl.pc = "user" /\ pl.tgt = None /\ pl.proc = None BY DEF Idle
<1>6. \/ to = None /\ T = thr /\ P = prc
      \/ to # None /\ T = Unref(thr, to) /\ P = AfterUnref(prc, to)
  OBVIOUS
<1>7. Alike(thr, T)
  <2>1. Alike(thr, thr) BY <1>1, AlikeHere
  <2> QED BY <1>4, <2>1, AlikeUnref
<1> HIDE DEF T, P, pl
<1>8. at[th].pc \notin Halted /\ pl.pc \notin Halted BY <1>2, <1>5 DEF Halted
<1>9. ThreadsStill(T, thr')
  <2>1. ~T[th].dead /\ T \in LooseThreads BY <1>2, <1>7, LivesAt DEF Alike
  <2> QED BY <1>3, <2>1, AllStill, ReportStill
<1> QED BY <1>2, <1>3, <1>4, <1>5, <1>6, <1>8, <1>9, DropsBoth

-----------------------------------------------------------------------------
(* Answering. *)

LEMMA BeginReplyCounts ==
    ASSUME Sound, Referred, NEW th \in Threads, BeginReply(th) PROVE Referred'
<1>1. Types /\ at[th] \in Place /\ th \in Agents /\ Shaped(Gone, th, at[th])
  BY Known, OneOfAgents
<1>2. at[th].pc = "user" /\ prc' = prc BY DEF BeginReply, CanWrite
<1>3. at[th].tgt = None /\ at[th].proc = None /\ ~thr[th].dead
  BY <1>1, <1>2, LivesAt DEF Shaped, Calling, Sending
<1>4. CASE Serving(th)
  <2> DEFINE pl == [Idle("popped") EXCEPT !.cur = thr[th].stack]
  <2>1. /\ at' = [at EXCEPT ![th] = pl]
        /\ thr' = [thr EXCEPT ![th].stack = txn[@].toParent]
    BY <1>4 DEF BeginReply
  <2>2. pl.pc = "popped" /\ pl.tgt = None /\ pl.proc = None BY DEF Idle
  <2> HIDE DEF pl
  <2>3. at[th].pc \notin Halted /\ pl.pc \notin Halted BY <1>2, <2>2 DEF Halted
  <2>4. /\ \A o \in Threads : o # th => thr'[o] = thr[o]
        /\ thr'[th].dead = thr[th].dead /\ thr'[th].ref = thr[th].ref
        /\ thr'[th].freed = thr[th].freed
    BY <1>1, <2>1 DEF Types, LooseThreads, LooseThread
  <2>5. ThreadsStill(thr, thr') BY <1>3, <2>4, LivingStill
  <2> QED BY <1>1, <1>2, <1>3, <2>1, <2>2, <2>3, <2>5, AllStill, MovesOn
<1>5. CASE ~Serving(th)
  <2>1. thr' = Report(thr, th) /\ at' = at BY <1>5 DEF BeginReply
  <2>2. ThreadsStill(thr, thr') BY <1>1, <1>3, <2>1, ReportStill DEF Types
  <2> QED BY <1>1, <1>2, <2>1, <2>2, AllStill, FollowsItself, NoReference
<1> QED BY <1>4, <1>5

\* Nothing is left of the calls of a released thread.
LEMMA CallerLives ==
    ASSUME Sound, NEW c \in Calls, txn[c].from # None
    PROVE  txn[c].from \in Threads /\ ~thr[txn[c].from].dead
<1>1. Types /\ Absent(txn, Gone, Pendings) BY DEF Sound, Core
<1>2. txn[c].from \in Threads BY <1>1, FieldTypes DEF Types
<1>3. c \in On(txn, Pendings, txn[c].from) BY DEF On, Made
<1> QED BY <1>1, <1>2, <1>3 DEF Absent, Gone

LEMMA ReplyFromCounts ==
    ASSUME Sound, Referred, NEW th \in Threads, ReplyFrom(th) PROVE Referred'
<1> DEFINE c == at[th].cur
           caller == txn[c].from
<1>1. Types /\ at[th] \in Place /\ th \in Agents /\ Shaped(Gone, th, at[th])
  BY Known, OneOfAgents
<1>2. at[th].pc = "popped" /\ prc' = prc BY DEF ReplyFrom
<1>3. c \in Calls /\ at[th].tgt = None /\ at[th].proc = None
  BY <1>1, <1>2, InHand DEF WithCall, Shaped, Calling, Sending
<1>4. CASE caller = None
  <2> DEFINE pl == [at[th] EXCEPT !.pc = "unsent"]
  <2>1. at' = [at EXCEPT ![th] = pl] /\ thr' = thr BY <1>4 DEF ReplyFrom
  <2>2. pl.pc = "unsent" /\ pl.tgt = at[th].tgt /\ pl.proc = at[th].proc
    BY <1>1 DEF Place
  <2> HIDE DEF pl
  <2>3. at[th].pc \notin Halted /\ pl.pc \notin Halted BY <1>2, <2>2 DEF Halted
  <2> QED BY <1>1, <1>2, <2>1, <2>2, <2>3, AllStill, MovesOn
<1>5. CASE caller # None
  <2> DEFINE pl == [at[th] EXCEPT !.pc = "from", !.tgt = caller]
  <2>1. at' = [at EXCEPT ![th] = pl] /\ thr' = [thr EXCEPT ![caller].ref = @ + 1]
    BY <1>1, <1>5 DEF ReplyFrom, Types, Places
  <2>2. pl.pc = "from" /\ pl.tgt = caller /\ pl.proc = at[th].proc
    BY <1>1 DEF Place
  <2>3. caller \in Threads /\ ~thr[caller].dead BY <1>3, <1>5, CallerLives
  <2> HIDE DEF pl, caller
  <2>4. at[th].pc \notin Halted /\ pl.pc \notin Halted BY <1>2, <2>2 DEF Halted
  <2>5. ThreadMore(thr, thr', caller) BY <1>1, <2>1, <2>3, RefTakes DEF Types
  <2> QED BY <1>1, <1>2, <1>3, <2>1, <2>2, <2>3, <2>4, <2>5, AllStill, TakesReference
<1> QED BY <1>4, <1>5

\* The process of a living thread has a reference of its own or is not released.
LEMMA OwnerBegun ==
    ASSUME Referred, NEW t \in Threads, ~thr[t].dead
    PROVE  Owner[t] \in Procs /\ at[Owner[t]].pc \in Begun
<1>1. at[t].pc # "gone" BY DEF Referred, Counted, ThreadCounted
<1>2. Owner[t] \in Procs BY OwnerAssumption
<1> QED BY <1>1, <1>2 DEF Referred, Counted, ProcCounted

LEMMA ReplyAcquireCounts ==
    ASSUME Sound, Referred, NEW th \in Threads, ReplyAcquire(th) PROVE Referred'
<1> DEFINE c == at[th].cur
           caller == at[th].tgt
<1>1. Types /\ at[th] \in Place /\ th \in Agents /\ Shaped(Gone, th, at[th])
  BY Known, OneOfAgents
<1>2. at[th].pc = "from" BY DEF ReplyAcquire
<1>3. caller \in Threads /\ at[th].proc = None
  BY <1>1, <1>2 DEF Shaped, Calling, Sending, Place
<1>4. thr \in LooseThreads /\ prc \in LooseProcesses BY <1>1 DEF Types
<1>5. CASE txn[c].from = None
  <2> DEFINE pl == [at[th] EXCEPT !.pc = "unsent", !.tgt = None]
  <2>1. /\ at' = [at EXCEPT ![th] = pl] /\ thr' = Unref(thr, caller)
        /\ prc' = AfterUnref(prc, caller)
    BY <1>1, <1>5 DEF ReplyAcquire, Types, Places
  <2>2. pl.pc = "unsent" /\ pl.tgt = None /\ pl.proc = at[th].proc BY <1>1 DEF Place
  <2> HIDE DEF pl
  <2>3. at[th].pc \notin Halted /\ pl.pc \notin Halted BY <1>2, <2>2 DEF Halted
  <2>4. GivesUp(thr, thr', prc, prc', caller)
    BY <1>1, <1>3, <1>4, <2>1, AllStill, UnrefGivesUp
  <2> QED BY <1>1, <1>3, <2>1, <2>2, <2>3, <2>4, DropsReference
<1>6. CASE txn[c].from # None
  <2>0. thr[caller].stack = c /\ ~thr[caller].dead
    BY <1>1, <1>2, <1>6, CallerOnTop DEF Gone
  <2> DEFINE p == Owner[caller]
             pl == [at[th] EXCEPT !.pc = "acquired", !.proc = p]
  <2>1. /\ at' = [at EXCEPT ![th] = pl] /\ thr' = thr
        /\ prc' = [prc EXCEPT ![p].ref = @ + 1]
    BY <1>1, <1>6, <2>0 DEF ReplyAcquire, Types, Places
  <2>2. pl.pc = "acquired" /\ pl.tgt = at[th].tgt /\ pl.proc = p BY <1>1 DEF Place
  <2>3. p \in Procs /\ at[p].pc \in Begun BY <1>3, <2>0, OwnerBegun
  <2> HIDE DEF pl, p
  <2>4. at[th].pc \notin Halted /\ pl.pc \notin Halted BY <1>2, <2>2 DEF Halted
  <2>5. ProcMore(prc, prc', p) BY <1>4, <2>1, <2>3, RefHolds
  <2> QED BY <1>1, <1>3, <2>1, <2>2, <2>3, <2>4, <2>5, AllStill, HoldsReference
<1> QED BY <1>5, <1>6

LEMMA BuildReplyCounts ==
    ASSUME Sound, Referred, NEW th \in Threads, NEW pc \in {"built", "refused"},
           BuildReply(th, pc)
    PROVE  Referred'
<1> DEFINE pl == [at[th] EXCEPT !.pc = pc]
<1>1. Types /\ at[th] \in Place /\ th \in Agents BY Known, OneOfAgents
<1>2. /\ at[th].pc = "acquired" /\ prc' = prc /\ thr' = thr
      /\ at' = [at EXCEPT ![th] = pl]
  BY DEF BuildReply
<1>3. pl.pc = pc /\ pl.tgt = at[th].tgt /\ pl.proc = at[th].proc BY <1>1 DEF Place
<1> HIDE DEF pl
<1>4. at[th].pc \notin Halted /\ pl.pc \notin Halted BY <1>2, <1>3 DEF Halted
<1> QED BY <1>1, <1>2, <1>3, <1>4, AllStill, MovesOn

LEMMA QueueReplyCounts ==
    ASSUME Sound, Referred, NEW th \in Threads, QueueReply(th) PROVE Referred'
<1> DEFINE c == at[th].cur
           caller == at[th].tgt
           W == Enqueue(thr, th, Item("complete", c))
           U == Enqueue(W, caller, Item("reply", c))
<1>1. Types /\ at[th] \in Place /\ th \in Agents /\ Shaped(Gone, th, at[th])
  BY Known, OneOfAgents
<1>2. at[th].pc = "built" /\ prc' = prc BY DEF QueueReply
<1>3. c \in Calls /\ caller \in Threads /\ thr \in LooseThreads /\ ~thr[th].dead
  BY <1>1, <1>2, InHand, LivesAt DEF WithCall, Shaped, Sending, Place, Types
<1>4. PICK pc \in {"refused", "replied"} :
        /\ at' = [at EXCEPT ![th].pc = pc]
        /\ \/ thr' = thr
           \/ /\ ~thr[caller].dead
              /\ thr' = [U EXCEPT ![caller].stack = txn[c].fromParent]
  BY DEF QueueReply
<1> DEFINE pl == [at[th] EXCEPT !.pc = pc]
<1>5. at' = [at EXCEPT ![th] = pl] BY <1>4
<1>6. pl.pc = pc /\ pl.tgt = at[th].tgt /\ pl.proc = at[th].proc BY <1>1 DEF Place
<1> HIDE DEF pl
<1>7. at[th].pc \notin Halted /\ pl.pc \notin Halted BY <1>2, <1>6 DEF Halted
<1>8. CASE thr' = thr
  <2> QED BY <1>1, <1>2, <1>5, <1>6, <1>7, <1>8, AllStill, MovesOn
<1>9. CASE /\ ~thr[caller].dead
           /\ thr' = [U EXCEPT ![caller].stack = txn[c].fromParent]
  <2>1. Item("complete", c) \in Work /\ Item("reply", c) \in Work BY <1>3, Items
  <2>2. W \in LooseThreads /\ ThreadsStill(thr, W) /\ W[caller].dead = thr[caller].dead
    BY <1>3, <2>1, EnqueueIs, EnqueueStill
  <2> HIDE DEF W, caller
  <2>3. U \in LooseThreads /\ ThreadsStill(W, U) /\ U[caller].dead = W[caller].dead
    <3>1. ~W[caller].dead BY <1>9, <2>2
    <3>2. ThreadsStill(W, U) BY <1>3, <2>1, <2>2, <3>1, EnqueueStill
    <3> QED BY <1>3, <2>1, <2>2, <3>2, EnqueueIs
  <2> HIDE DEF U
  <2>4. /\ \A o \in Threads : o # caller => thr'[o] = U[o]
        /\ thr'[caller].dead = U[caller].dead /\ thr'[caller].ref = U[caller].ref
        /\ thr'[caller].freed = U[caller].freed
    BY <1>3, <1>9, <2>3 DEF LooseThreads, LooseThread
  <2>5. ~U[caller].dead BY <1>9, <2>2, <2>3
  <2>6. ThreadsStill(U, thr') BY <2>4, <2>5, LivingStill
  <2>7. ThreadsStill(thr, thr') BY <2>2, <2>3, <2>6, AllStillThen
  <2> QED BY <1>1, <1>2, <1>5, <1>6, <1>7, <2>7, AllStill, MovesOn
<1> QED BY <1>4, <1>8, <1>9

LEMMA EndReplyCounts ==
    ASSUME Sound, Referred, NEW th \in Threads, EndReply(th) PROVE Referred'
<1> DEFINE caller == at[th].tgt
           p == at[th].proc
           T == Unref(thr, caller)
           P == AfterUnref(prc, caller)
<1>1. Types /\ at[th] \in Place /\ Shaped(Gone, th, at[th]) BY Known, OneOfAgents
<1>2. at[th].pc \in {"replied", "refused"} /\ thr' = T /\ prc' = UnrefProc(P, p)
  BY DEF EndReply
<1>3. caller # None /\ p \in Procs BY <1>1, <1>2 DEF Shaped, Sending, Place
<1>4. PICK pl \in {Idle("user"), [Idle("unsent") EXCEPT !.cur = at[th].cur]} :
        at' = [at EXCEPT ![th] = pl]
  BY DEF EndReply
<1>5. pl.pc \in {"user", "unsent"} /\ pl.tgt = None /\ pl.proc = None BY DEF Idle
<1>6. at[th].pc \notin Halted /\ pl.pc \notin Halted BY <1>2, <1>5 DEF Halted
<1> HIDE DEF T, P
<1>7. /\ caller # None /\ T = Unref(thr, caller) /\ P = AfterUnref(prc, caller)
      /\ ThreadsStill(T, thr')
  BY <1>2, <1>3, AllStill DEF T, P
<1> QED BY <1>2, <1>3, <1>4, <1>5, <1>6, <1>7, DropsBoth

LEMMA ReplyFailsCounts ==
    ASSUME Sound, Referred, NEW th \in Threads, ReplyFails(th) PROVE Referred'
<1> DEFINE pl == [at[th] EXCEPT !.pc = "fail"]
<1>1. Types /\ at[th] \in Place /\ th \in Agents BY Known, OneOfAgents
<1>2. /\ at[th].pc = "unsent" /\ prc' = prc /\ thr' = Report(thr, th)
      /\ at' = [at EXCEPT ![th] = pl]
  BY DEF ReplyFails
<1>3. pl.pc = "fail" /\ pl.tgt = at[th].tgt /\ pl.proc = at[th].proc BY <1>1 DEF Place
<1> HIDE DEF pl
<1>4. at[th].pc \notin Halted /\ pl.pc \notin Halted BY <1>2, <1>3 DEF Halted
<1>5. ThreadsStill(thr, thr') BY <1>1, <1>2, LivesAt, ReportStill DEF Types
<1> QED BY <1>1, <1>2, <1>3, <1>4, <1>5, AllStill, MovesOn

-----------------------------------------------------------------------------
(* Failing a call. *)

LEMMA FailFromCounts ==
    ASSUME Sound, Referred, NEW a \in Agents, FailFrom(a) PROVE Referred'
<1> DEFINE c == at[a].cur
           caller == txn[c].from
<1>1. Types /\ at[a] \in Place /\ Shaped(Gone, a, at[a]) BY Known
<1>2. at[a].pc = "fail" /\ prc' = prc BY DEF FailFrom
<1>3. c \in Calls /\ at[a].tgt = None /\ at[a].proc = None
  BY <1>1, <1>2, InHand DEF WithCall, Shaped, Calling, Sending
<1>4. CASE caller = None
  <2>1. FailNext(a) /\ thr' = thr BY <1>4 DEF FailFrom
  <2>2. PICK pl \in {Resumed(a), [Idle("fail") EXCEPT !.cur = txn[c].fromParent]} :
          at' = [at EXCEPT ![a] = pl]
    BY <2>1 DEF FailNext
  <2>3. pl.pc \in {"todo", "work", "user", "fail"} /\ pl.tgt = None /\ pl.proc = None
    BY <1>1, ResumedFits DEF Idle
  <2>4. at[a].pc \notin Halted /\ pl.pc \notin Halted BY <1>2, <2>3 DEF Halted
  <2> QED BY <1>1, <1>2, <1>3, <2>1, <2>2, <2>3, <2>4, AllStill, MovesOn
<1>5. CASE caller # None
  <2> DEFINE pl == [at[a] EXCEPT !.pc = "failfrom", !.tgt = caller]
  <2>1. at' = [at EXCEPT ![a] = pl] /\ thr' = [thr EXCEPT ![caller].ref = @ + 1]
    BY <1>1, <1>5 DEF FailFrom, Types, Places
  <2>2. pl.pc = "failfrom" /\ pl.tgt = caller /\ pl.proc = at[a].proc
    BY <1>1 DEF Place
  <2>3. caller \in Threads /\ ~thr[caller].dead BY <1>3, <1>5, CallerLives
  <2> HIDE DEF pl, caller
  <2>4. at[a].pc \notin Halted /\ pl.pc \notin Halted BY <1>2, <2>2 DEF Halted
  <2>5. ThreadMore(thr, thr', caller) BY <1>1, <2>1, <2>3, RefTakes DEF Types
  <2> QED BY <1>1, <1>2, <1>3, <2>1, <2>2, <2>3, <2>4, <2>5, AllStill, TakesReference
<1> QED BY <1>4, <1>5

\* A reference is dropped on a living thread whose stack changes, too.
LEMMA UnrefThenStill ==
    ASSUME Types, NEW U \in LooseThreads, ThreadsStill(thr, U), NEW x \in Threads,
           NEW y \in Threads, ~thr[y].dead, NEW s
    PROVE  GivesUp(thr, [Unref(U, x) EXCEPT ![y].stack = s], prc, AfterUnref(prc, x), x)
<1> DEFINE W == Unref(U, x)
           V == [W EXCEPT ![y].stack = s]
<1>1. GivesUp(thr, W, prc, AfterUnref(prc, x), x) BY UnrefGivesUp
<1>2. ~W[y].dead BY <1>1 DEF GivesUp, ThreadLess, ThreadStill, Mortal
<1>3. W = [U EXCEPT ![x].ref = @ - 1, ![x].freed = Frees(x),
                    ![x].stack = IF Frees(x) THEN None ELSE @,
                    ![x].processTodo = @ /\ ~Frees(x)]
  BY DEF Unref
<1> HIDE DEF W
<1>4. /\ \A o \in Threads : o # y => V[o] = W[o]
      /\ V[y].dead = W[y].dead /\ V[y].ref = W[y].ref /\ V[y].freed = W[y].freed
  <2>1. DOMAIN W = Threads BY <1>3 DEF LooseThreads
  <2>2. V[y] = [W[y] EXCEPT !.stack = s] /\ \A o \in Threads : o # y => V[o] = W[o]
    BY <2>1
  <2>3. {"dead", "ref", "freed"} \subseteq DOMAIN W[y]
    <3>1. DOMAIN U[y] = {"stack", "todo", "processTodo", "dead", "ref", "freed"}
      BY DEF LooseThreads, LooseThread
    <3>2. DOMAIN W[y] = DOMAIN U[y] BY <1>3 DEF LooseThreads, LooseThread
    <3> QED BY <3>1, <3>2
  <2> QED BY <2>2, <2>3
<1> HIDE DEF V
<1>5. ThreadsStill(W, V) BY <1>2, <1>4, LivingStill
<1>6. GivesUp(thr, V, prc, AfterUnref(prc, x), x) BY <1>1, <1>5, GivesUpThen
<1> QED BY <1>6 DEF V, W

LEMMA FailAcquireCounts ==
    ASSUME Sound, Referred, NEW a \in Agents, FailAcquire(a) PROVE Referred'
<1> DEFINE c == at[a].cur
           caller == at[a].tgt
           T == IF Has(caller, "error") THEN thr ELSE Enqueue(thr, caller, Item("error", c))
<1>1. Types /\ at[a] \in Place /\ Shaped(Gone, a, at[a]) BY Known
<1>2. at[a].pc = "failfrom" /\ prc' = AfterUnref(prc, caller) BY DEF FailAcquire
<1>3. c \in Calls /\ caller \in Threads /\ at[a].proc = None /\ thr \in LooseThreads
  BY <1>1, <1>2, InHand DEF WithCall, Shaped, Calling, Sending, Place, Types
<1>4. PICK pl \in {Resumed(a), [Idle("fail") EXCEPT !.cur = txn[c].fromParent]} :
        at' = [at EXCEPT ![a] = pl]
  BY DEF FailAcquire, FailNext
<1>5. pl.pc \in {"todo", "work", "user", "fail"} /\ pl.tgt = None /\ pl.proc = None
  BY <1>1, ResumedFits DEF Idle
<1>6. at[a].pc \notin Halted /\ pl.pc \notin Halted BY <1>2, <1>5 DEF Halted
<1>7. GivesUp(thr, thr', prc, prc', caller)
  <2>1. CASE txn[c].from = None
    <3>1. thr' = Unref(thr, caller) BY <2>1 DEF FailAcquire
    <3> QED BY <1>1, <1>2, <1>3, <3>1, AllStill, UnrefGivesUp
  <2>2. CASE txn[c].from # None
    <3>1. thr' = [Unref(T, caller) EXCEPT ![caller].stack = txn[c].fromParent]
      BY <2>2 DEF FailAcquire
    <3>2. ~thr[caller].dead BY <1>2, <1>3, <2>2, CallerOnTop DEF Gone
    <3>3. T \in LooseThreads /\ ThreadsStill(thr, T)
      <4>1. Item("error", c) \in Work BY <1>3, Items
      <4> QED BY <1>3, <3>2, <4>1, AllStill, EnqueueIs, EnqueueStill
    <3> HIDE DEF T, caller, c
    <3> QED BY <1>1, <1>2, <1>3, <3>1, <3>2, <3>3, UnrefThenStill
  <2> QED BY <2>1, <2>2
<1> QED BY <1>1, <1>3, <1>4, <1>5, <1>6, <1>7, DropsReference

-----------------------------------------------------------------------------
(* Reading. *)

LEMMA ReadBeginCounts ==
    ASSUME Sound, Referred, NEW th \in Threads, ReadBegin(th) \/ Interrupted(th)
    PROVE  Referred'
<1>1. Types /\ th \in Agents /\ Shaped(Gone, th, at[th]) BY Known, OneOfAgents
<1>2. at[th].pc \in {"user", "wait"} /\ thr' = thr /\ prc' = prc
  BY DEF ReadBegin, Interrupted
<1>3. PICK pl \in {Idle("user"), Idle("wait")} : at' = [at EXCEPT ![th] = pl]
  BY DEF ReadBegin, Interrupted
<1>4. pl.pc \in {"user", "wait"} /\ pl.tgt = at[th].tgt /\ pl.proc = at[th].proc
  BY <1>1, <1>2, IdleIs DEF Shaped, Calling, Sending
<1>5. at[th].pc \notin Halted /\ pl.pc \notin Halted BY <1>2, <1>4 DEF Halted
<1> QED BY <1>1, <1>2, <1>3, <1>4, <1>5, AllStill, MovesOn

LEMMA TakeCallCounts ==
    ASSUME Sound, Referred, NEW th \in Threads, at[th].pc = "wait", NEW c \in Calls,
           NEW T \in LooseThreads, ThreadsStill(thr, T), TakeCall(T, th, c),
           ProcsStill(prc, prc')
    PROVE  Referred'
<1> DEFINE caller == txn[c].from
           pl == [Idle("deliver") EXCEPT !.cur = c, !.tgt = caller]
<1>1. Types /\ th \in Agents /\ Shaped(Gone, th, at[th]) BY Known, OneOfAgents
<1>2. at[th].tgt = None /\ at[th].proc = None BY <1>1 DEF Shaped, Calling, Sending
<1>3. /\ at' = [at EXCEPT ![th] = pl]
      /\ thr' = IF caller = None THEN T ELSE [T EXCEPT ![caller].ref = @ + 1]
  BY DEF TakeCall
<1>4. pl.pc = "deliver" /\ pl.tgt = caller /\ pl.proc = None BY DEF Idle
<1>5. caller # None => caller \in Threads /\ ~thr[caller].dead BY CallerLives
<1> HIDE DEF pl, caller
<1>6. at[th].pc \notin Halted /\ pl.pc \notin Halted BY <1>4 DEF Halted
<1>7. CASE caller = None BY <1>1, <1>2, <1>3, <1>4, <1>6, <1>7, MovesOn
<1>8. CASE caller # None
  <2>1. ThreadMore(thr, thr', caller) BY <1>3, <1>5, <1>8, RefTakes, RefTakesAfter
  <2> QED BY <1>1, <1>2, <1>3, <1>4, <1>5, <1>6, <1>8, <2>1, TakesReference
<1> QED BY <1>7, <1>8

LEMMA ReadThreadCounts ==
    ASSUME Sound, Referred, NEW th \in Threads, ReadThread(th) PROVE Referred'
<1> DEFINE item == Head(thr[th].todo)
           T == HeadOff(th)
<1>1. Types /\ Tidied /\ th \in Agents /\ Shaped(Gone, th, at[th]) BY Known, OneOfAgents
<1>2. /\ at[th].pc = "wait" /\ prc' = prc /\ thr[th].todo # <<>>
      /\ IF item.kind = "call"
         THEN TakeCall(T, th, item.call)
         ELSE thr' = T /\ at' = [at EXCEPT ![th] = Idle("user")]
  BY DEF ReadThread, HeadOff
<1>3. T \in LooseThreads /\ thr[th].todo \in Seq(Work) /\ Tidy(thr[th].todo)
  BY <1>1, <1>2, HeadRead DEF Shorter
<1>4. ThreadsStill(thr, T)
  <2>1. ~thr[th].dead BY <1>2, LivesAt
  <2>2. /\ \A o \in Threads : o # th => T[o] = thr[o]
        /\ T[th].dead = thr[th].dead /\ T[th].ref = thr[th].ref
        /\ T[th].freed = thr[th].freed
    BY <1>1 DEF HeadOff, Types, LooseThreads, LooseThread
  <2> QED BY <2>1, <2>2, LivingStill
<1> HIDE DEF T
<1>5. CASE item.kind = "call"
  <2>1. item.call \in Calls BY <1>2, <1>3, <1>5, NamesTail DEF Names
  <2>2. TakeCall(T, th, item.call) /\ ProcsStill(prc, prc') BY <1>2, <1>5, AllStill
  <2> HIDE DEF item
  <2> QED BY <1>2, <1>3, <1>4, <2>1, <2>2, TakeCallCounts
<1>6. CASE item.kind # "call"
  <2> DEFINE pl == Idle("user")
  <2>1. at' = [at EXCEPT ![th] = pl] /\ thr' = T BY <1>2, <1>6
  <2>2. pl.pc = "user" /\ pl.tgt = at[th].tgt /\ pl.proc = at[th].proc
    BY <1>1, <1>2, IdleIs DEF Shaped, Calling, Sending
  <2> HIDE DEF pl
  <2>3. at[th].pc \notin Halted /\ pl.pc \notin Halted BY <1>2, <2>2 DEF Halted
  <2> QED BY <1>1, <1>2, <1>4, <2>1, <2>2, <2>3, AllStill, MovesOn
<1> QED BY <1>5, <1>6

\* A call leaves the list of a process.
LEMMA TodoStill ==
    ASSUME Types, NEW p \in Procs, prc[p].todo # <<>>,
           prc' = [prc EXCEPT ![p].todo = Tail(@)]
    PROVE  ProcsStill(prc, prc')
<1>1. \A q \in Procs : /\ q # p => prc'[q] = prc[q]
                       /\ prc'[q].dead = prc[q].dead /\ prc'[q].ref = prc[q].ref
                       /\ prc'[q].freed = prc[q].freed /\ prc'[q].node = prc[q].node
  BY DEF Types, LooseProcesses, LooseProcess
<1> QED BY <1>1 DEF ProcsStill, ProcStill, Numbers, Mortal, NodeKept

LEMMA ReadProcCounts ==
    ASSUME Sound, Referred, NEW th \in Threads, ReadProc(th) PROVE Referred'
<1> DEFINE p == Owner[th]
           c == Head(prc[p].todo)
           T == [thr EXCEPT ![th].processTodo = FALSE]
<1>1. Types BY DEF Sound
<1>2. /\ at[th].pc = "wait" /\ prc[p].todo # <<>> /\ TakeCall(T, th, c)
      /\ prc' = [prc EXCEPT ![p].todo = Tail(@)]
  BY DEF ReadProc
<1>3. p \in Procs BY OwnerAssumption
<1>4. T \in LooseThreads
  <2>1. [thr[th] EXCEPT !.processTodo = FALSE] \in LooseThread
    BY <1>1 DEF Types, LooseThreads, LooseThread
  <2> QED BY <1>1, <2>1 DEF Types, LooseThreads
<1>5. ThreadsStill(thr, T)
  <2>1. ~thr[th].dead BY <1>2, LivesAt
  <2>2. /\ \A o \in Threads : o # th => T[o] = thr[o]
        /\ T[th].dead = thr[th].dead /\ T[th].ref = thr[th].ref
        /\ T[th].freed = thr[th].freed
    BY <1>1 DEF Types, LooseThreads, LooseThread
  <2> HIDE DEF T
  <2> QED BY <2>1, <2>2, LivingStill
<1>6. c \in Calls
  <2>1. prc[p].todo \in Seq(Calls) BY <1>1, <1>3 DEF Types, LooseProcesses, LooseProcess
  <2> QED BY <1>2, <2>1
<1> HIDE DEF T, c, p
<1>7. ProcsStill(prc, prc') BY <1>1, <1>2, <1>3, TodoStill
<1> QED BY <1>2, <1>4, <1>5, <1>6, <1>7, TakeCallCounts

LEMMA DeliverCounts ==
    ASSUME Sound, Referred, NEW th \in Threads, Deliver(th) \/ DeliverFault(th)
    PROVE  Referred'
<1> DEFINE c == at[th].cur
           caller == at[th].tgt
           T == IF caller = None THEN thr ELSE Unref(thr, caller)
<1>1. Types /\ at[th] \in Place /\ th \in Agents /\ Shaped(Gone, th, at[th])
  BY Known, OneOfAgents
<1>2. /\ at[th].pc = "deliver"
      /\ prc' = IF caller = None THEN prc ELSE AfterUnref(prc, caller)
      /\ thr' = T \/ thr' = [T EXCEPT ![th].stack = c]
  BY DEF Deliver, DeliverFault, DropCaller
<1>3. PICK pl \in {Idle("user"), [Idle("fail") EXCEPT !.cur = at[th].cur]} :
        at' = [at EXCEPT ![th] = pl]
  BY DEF Deliver, DeliverFault
<1>4. pl.pc \in {"user", "fail"} /\ pl.tgt = None /\ pl.proc = None BY DEF Idle
<1>5. /\ at[th].proc = None /\ caller \in Threads \union {None} /\ ~thr[th].dead
      /\ thr \in LooseThreads
  BY <1>1, <1>2, LivesAt DEF Shaped, Calling, Sending, Place, Types
<1>6. at[th].pc \notin Halted /\ pl.pc \notin Halted BY <1>2, <1>4 DEF Halted
<1>7. CASE caller = None
  <2>1. prc' = prc /\ (thr' = thr \/ thr' = [thr EXCEPT ![th].stack = c])
    BY <1>2, <1>7
  <2>2. /\ \A o \in Threads : o # th => thr'[o] = thr[o]
        /\ thr'[th].dead = thr[th].dead /\ thr'[th].ref = thr[th].ref
        /\ thr'[th].freed = thr[th].freed
    BY <1>5, <2>1 DEF LooseThreads, LooseThread
  <2>3. ThreadsStill(thr, thr') BY <1>5, <2>2, LivingStill
  <2> QED BY <1>1, <1>3, <1>4, <1>5, <1>6, <1>7, <2>1, <2>3, AllStill, MovesOn
<1>8. CASE caller # None
  <2>1. /\ prc' = AfterUnref(prc, caller)
        /\ \/ thr' = Unref(thr, caller)
           \/ thr' = [Unref(thr, caller) EXCEPT ![th].stack = c]
    BY <1>2, <1>8
  <2>2. caller \in Threads BY <1>5, <1>8
  <2> HIDE DEF caller, c
  <2>3. GivesUp(thr, thr', prc, prc', caller)
    BY <1>1, <1>5, <2>1, <2>2, AllStill, UnrefGivesUp, UnrefThenStill
  <2> QED BY <1>1, <1>3, <1>4, <1>5, <1>6, <2>2, <2>3, DropsReference DEF caller
<1> QED BY <1>7, <1>8

-----------------------------------------------------------------------------
(* Threads and processes going away. *)

LEMMA ReleaseThreadCounts ==
    ASSUME Sound, Referred, NEW th \in Threads, at[th].pc = "user", ReleaseThread(th)
    PROVE  Referred'
<1> DEFINE p == Owner[th]
<1>1. Types /\ th \in Agents /\ Shaped(Gone, th, at[th]) BY Known, OneOfAgents
<1>2. /\ thr' = [thr EXCEPT ![th].dead = TRUE, ![th].ref = @ + 1]
      /\ prc' = [prc EXCEPT ![p].ref = @ + 1]
  BY DEF ReleaseThread
<1>3. PICK pl \in {Idle("work"), [Idle("fail") EXCEPT !.cur = thr[th].stack]} :
        at' = [at EXCEPT ![th] = pl]
  BY DEF ReleaseThread
<1>4. pl.pc \in {"work", "fail"} /\ pl.tgt = None /\ pl.proc = None BY DEF Idle
<1>5. at[th].pc = "user" /\ at[th].tgt = None /\ at[th].proc = None
  BY <1>1 DEF Shaped, Calling, Sending
<1>6. at[th].pc \notin Halted /\ pl.pc \notin Halted BY <1>4 DEF Halted
<1>7. Follows(at, at', th) /\ at'[th] = pl BY <1>1, <1>3, <1>6, FollowsTo
<1>8. Proceeds(at, at', th) /\ SamePhase(at, at', th)
  BY <1>1, <1>4, <1>5, <1>7 DEF Follows, Proceeds
<1>9. ~thr[th].dead BY LivesAt
<1>10. /\ thr'[th].dead /\ thr'[th].ref = thr[th].ref + 1 /\ (thr'[th].freed <=> thr[th].freed)
       /\ \A o \in Threads : o # th => thr'[o] = thr[o]
  BY <1>1, <1>2 DEF Types, LooseThreads, LooseThread
<1>11. \A o \in Threads : o # th => ThreadStill(thr, thr', o)
  BY <1>10 DEF ThreadStill, Numbers, Mortal
<1>12. ProcMore(prc, prc', p) BY <1>1, <1>2, OwnerAssumption, RefHolds DEF Types
<1>13. Counted(at, thr, prc) BY DEF Referred
<1>14. Counted(at', thr', prc')
  BY <1>8, <1>9, <1>10, <1>11, <1>12, <1>13, CountsDie
<1> QED BY <1>14 DEF Referred

LEMMA ReleaseWorkCounts ==
    ASSUME Sound, Referred, NEW th \in Threads, ReleaseWork(th) PROVE Referred'
<1> DEFINE item == Head(thr[th].todo)
           pl == [Idle("fail") EXCEPT !.cur = item.call]
<1>1. Types /\ th \in Agents /\ Shaped(Gone, th, at[th]) BY Known, OneOfAgents
<1>2. /\ at[th].pc = "work" /\ prc' = prc /\ thr[th].todo # <<>>
      /\ thr' = [thr EXCEPT ![th].todo = Tail(@)]
      /\ at' = IF item.kind = "call" THEN [at EXCEPT ![th] = pl] ELSE at
  BY DEF ReleaseWork
<1>3. at[th].tgt = None /\ at[th].proc = None BY <1>1, <1>2 DEF Shaped, Calling, Sending
<1>4. pl.pc = "fail" /\ pl.tgt = None /\ pl.proc = None BY DEF Idle
<1>5. at' = at \/ at' = [at EXCEPT ![th] = pl] BY <1>2
<1> HIDE DEF pl, item
<1>6. at[th].pc \notin Halted /\ pl.pc \notin Halted BY <1>2, <1>4 DEF Halted
<1>7. ThreadsStill(thr, thr')
  <2>1. /\ \A o \in Threads : o # th => thr'[o] = thr[o]
        /\ thr'[th].dead = thr[th].dead /\ thr'[th].ref = thr[th].ref
        /\ thr'[th].freed = thr[th].freed
    BY <1>1, <1>2 DEF Types, LooseThreads, LooseThread
  <2> QED BY <1>2, <2>1 DEF ThreadsStill, ThreadStill, Numbers, Mortal
<1>8. CASE at' = at BY <1>1, <1>2, <1>7, <1>8, AllStill, FollowsItself, NoReference
<1>9. CASE at' = [at EXCEPT ![th] = pl]
  BY <1>1, <1>2, <1>3, <1>4, <1>6, <1>7, <1>9, AllStill, MovesOn
<1> QED BY <1>5, <1>8, <1>9

LEMMA ThreadReleasedCounts ==
    ASSUME Sound, Referred, NEW th \in Threads, ThreadReleased(th) PROVE Referred'
<1> DEFINE pl == Idle("gone")
<1>1. Types /\ th \in Agents /\ Shaped(Gone, th, at[th]) BY Known, OneOfAgents
<1>2. /\ at[th].pc = "work" /\ thr[th].todo = <<>> /\ thr' = Unref(thr, th)
      /\ prc' = AfterUnref(prc, th) /\ at' = [at EXCEPT ![th] = pl]
  BY DEF ThreadReleased
<1>3. pl.pc = "gone" /\ pl.tgt = None /\ pl.proc = None BY IdleIs
<1>4. at[th].tgt = None /\ at[th].proc = None /\ thr[th].dead
  BY <1>1, <1>2 DEF Shaped, Calling, Sending, Gone
<1> HIDE DEF pl
<1>5. at'[th] = pl /\ \A b \in Agents : b # th => at'[b] = at[b]
  BY <1>1, <1>2 DEF Types, Places
<1>6. Proceeds(at, at', th) BY <1>3, <1>4, <1>5 DEF Proceeds, SamePhase
<1>7. GivesUp(thr, thr', prc, prc', th)
  <2>1. thr \in LooseThreads BY <1>1 DEF Types
  <2> QED BY <1>1, <1>2, <2>1, AllStill, UnrefGivesUp
<1>8. Counted(at, thr, prc) /\ at[th].pc # "gone" /\ at'[th].pc = "gone"
  BY <1>2, <1>3, <1>5 DEF Referred
<1>9. Counted(at', thr', prc') BY <1>2, <1>4, <1>6, <1>7, <1>8, CountsBury
<1> QED BY <1>9 DEF Referred

LEMMA ReleaseProcCounts ==
    ASSUME Sound, Referred, NEW p \in Procs, ReleaseProc(p) PROVE Referred'
<1>1. Types /\ p \in Agents BY OneOfAgents DEF Sound
<1>2. /\ at[p].pc = "off" /\ thr' = thr
      /\ prc' = [prc EXCEPT ![p].dead = TRUE, ![p].ref = @ + 1]
      /\ at' = [a \in DOMAIN at |->
           CASE a = p -> Idle("threads")
             [] a \in Threads /\ Owner[a] = p /\ at[a].pc = "wait" -> Idle("user")
             [] OTHER -> at[a]]
  BY DEF ReleaseProc
<1>3. \A b \in Agents : \/ b = p /\ at'[b] = Idle("threads")
                        \/ b # p /\ b \in Threads /\ at[b].pc = "wait" /\ at'[b] = Idle("user")
                        \/ b # p /\ at'[b] = at[b]
  BY <1>1, <1>2, NoneIsNobody DEF Types, Places
<1>4. at[p].tgt = None /\ at[p].proc = None BY <1>2, ProcessKnows
<1>5. Proceeds(at, at', p)
  <2>1. ASSUME NEW b \in Agents
        PROVE  /\ at'[b].tgt = at[b].tgt /\ at'[b].proc = at[b].proc
               /\ b # p => SamePhase(at, at', b)
    <3>1. CASE b = p BY <1>3, <1>4, <3>1, IdleIs
    <3>2. CASE b # p /\ at'[b] = at[b] BY <3>2 DEF SamePhase
    <3>3. CASE b # p /\ b \in Threads /\ at[b].pc = "wait" /\ at'[b] = Idle("user")
      <4>1. at[b].tgt = None /\ at[b].proc = None
        BY <3>3, Known DEF Shaped, Calling, Sending
      <4>2. at'[b].pc = "user" /\ at'[b].tgt = None /\ at'[b].proc = None BY <3>3, IdleIs
      <4> QED BY <3>3, <4>1, <4>2 DEF SamePhase, Begun
    <3> QED BY <1>3, <3>1, <3>2, <3>3
  <2> QED BY <2>1 DEF Proceeds
<1>6. at'[p].pc = "threads" BY <1>1, <1>3, IdleIs
<1>7. /\ prc'[p].dead /\ prc'[p].ref = prc[p].ref + 1 /\ (prc'[p].freed <=> prc[p].freed)
      /\ \A q \in Procs : q # p => prc'[q] = prc[q]
  BY <1>1, <1>2 DEF Types, LooseProcesses, LooseProcess
<1>8. \A q \in Procs : q # p => ProcStill(prc, prc', q)
  BY <1>7 DEF ProcStill, Numbers, Mortal, NodeKept
<1>9. Counted(at, thr, prc) BY DEF Referred
<1>10. Counted(at', thr, prc') BY <1>2, <1>5, <1>6, <1>7, <1>8, <1>9, CountsClose
<1> QED BY <1>2, <1>10 DEF Referred

\* Where process p goes on with its release.
LEMMA ProcessProceeds ==
    ASSUME Sound, NEW p \in Procs, at[p].pc \in {"threads", "todo"}, NEW pc,
           at' = [at EXCEPT ![p] = Idle(pc)]
    PROVE  Proceeds(at, at', p) /\ at'[p].pc = pc
<1>1. Types /\ p \in Agents BY OneOfAgents DEF Sound
<1>2. at[p].tgt = None /\ at[p].proc = None BY ProcessKnows
<1>3. at'[p] = Idle(pc) /\ \A b \in Agents : b # p => at'[b] = at[b]
  BY <1>1 DEF Types, Places
<1>4. at'[p].pc = pc /\ at'[p].tgt = None /\ at'[p].proc = None BY <1>3, IdleIs
<1> QED BY <1>2, <1>3, <1>4 DEF Proceeds, SamePhase

LEMMA ReleaseNodeCounts ==
    ASSUME Sound, Referred, NEW p \in Procs, ReleaseNode(p) PROVE Referred'
<1>1. Types BY DEF Sound
<1>2. /\ at[p].pc = "threads" /\ Deserted(p) /\ thr' = thr
      /\ prc' = [prc EXCEPT ![p].node = FALSE] /\ at' = [at EXCEPT ![p] = Idle("todo")]
  BY DEF ReleaseNode
<1>3. Proceeds(at, at', p) /\ at'[p].pc = "todo" BY <1>2, ProcessProceeds
<1>4. /\ (prc'[p].dead <=> prc[p].dead) /\ prc'[p].ref = prc[p].ref
      /\ (prc'[p].freed <=> prc[p].freed) /\ ~prc'[p].node
      /\ \A q \in Procs : q # p => prc'[q] = prc[q]
  BY <1>1, <1>2 DEF Types, LooseProcesses, LooseProcess
<1>5. \A q \in Procs : q # p => ProcStill(prc, prc', q)
  BY <1>4 DEF ProcStill, Numbers, Mortal, NodeKept
<1>6. \A th \in Threads : Owner[th] = p => at[th].pc = "gone" BY <1>2 DEF Deserted
<1>7. Counted(at, thr, prc) BY DEF Referred
<1>8. at[p].pc = "threads" /\ Proceeds(at, at', p) /\ at'[p].pc = "todo" BY <1>2, <1>3
<1>9. Counted(at', thr, prc')
  <2> DEFINE B == at'
             Q == prc'
  <2>1. /\ Q[p].dead <=> prc[p].dead
        /\ Q[p].ref = prc[p].ref
        /\ Q[p].freed <=> prc[p].freed
        /\ ~Q[p].node
    BY <1>4
  <2>2. \A q \in Procs : q # p => ProcStill(prc, Q, q) BY <1>5
  <2>3. Proceeds(at, B, p) /\ B[p].pc = "todo" BY <1>8
  <2> HIDE DEF B, Q
  <2>4. Counted(B, thr, Q) BY <1>6, <1>7, <1>8, <2>1, <2>2, <2>3, CountsDesert
  <2> QED BY <2>4 DEF B, Q
<1> QED BY <1>2, <1>9 DEF Referred

LEMMA ReleaseTodoCounts ==
    ASSUME Sound, Referred, NEW p \in Procs, ReleaseTodo(p) PROVE Referred'
<1> DEFINE pl == [Idle("fail") EXCEPT !.cur = Head(prc[p].todo)]
<1>1. Types /\ p \in Agents BY OneOfAgents DEF Sound
<1>2. /\ at[p].pc = "todo" /\ prc[p].todo # <<>> /\ thr' = thr
      /\ prc' = [prc EXCEPT ![p].todo = Tail(@)] /\ at' = [at EXCEPT ![p] = pl]
  BY DEF ReleaseTodo
<1>3. pl.pc = "fail" /\ pl.tgt = None /\ pl.proc = None BY DEF Idle
<1>4. at[p].tgt = None /\ at[p].proc = None BY <1>2, ProcessKnows
<1> HIDE DEF pl
<1>5. at[p].pc \notin Halted /\ pl.pc \notin Halted BY <1>2, <1>3 DEF Halted
<1>6. ProcsStill(prc, prc') BY <1>1, <1>2, TodoStill
<1> QED BY <1>1, <1>2, <1>3, <1>4, <1>5, <1>6, AllStill, MovesOn

LEMMA ProcReleasedCounts ==
    ASSUME Sound, Referred, NEW p \in Procs, ProcReleased(p) PROVE Referred'
<1>1. Types BY DEF Sound
<1>2. /\ at[p].pc = "todo" /\ prc[p].todo = <<>> /\ thr' = thr
      /\ prc' = UnrefProc(prc, p) /\ at' = [at EXCEPT ![p] = Idle("gone")]
  BY DEF ProcReleased
<1>3. Proceeds(at, at', p) /\ at'[p].pc = "gone" BY <1>2, ProcessProceeds
<1>4. ProcLess(thr, prc, prc', p) BY <1>1, <1>2, UnrefProcLess DEF Types
<1>5. Counted(at, thr, prc) BY DEF Referred
<1>6. Counted(at', thr, prc') BY <1>2, <1>3, <1>4, <1>5, CountsRetire
<1> QED BY <1>2, <1>6 DEF Referred

-----------------------------------------------------------------------------
(* The invariant. *)

LEMMA InitReferred == Init => Referred
<1> SUFFICES ASSUME Init PROVE Referred OBVIOUS
<1>1. /\ \A p \in Procs : /\ ~prc[p].dead /\ prc[p].ref = 0 /\ ~prc[p].freed
                          /\ prc[p].todo = <<>>
      /\ \A th \in Threads : ~thr[th].dead /\ thr[th].ref = 0 /\ ~thr[th].freed
  BY DEF Init
<1>2. \A a \in Agents : /\ at[a].tgt = None /\ at[a].proc = None
                        /\ at[a].pc = IF a \in Procs THEN "off" ELSE "user"
  BY InitIs
<1>3. \A x : x # None => Users(at, x) = {} /\ Guests(at, x) = {}
  BY <1>2 DEF Users, Guests
<1>4. \A p : Remains(thr, p) = {} BY <1>1 DEF Remains
<1>5. ASSUME NEW th \in Threads PROVE ThreadCounted(at, thr, th)
  <2>1. Cardinality(Users(at, th)) = 0 BY <1>3, NoneIsNobody, CountsAre
  <2>2. at[th].pc = "user" BY <1>2, OneOfAgents, NoneIsNobody
  <2>3. Bit(Leaving(at, thr, th)) = 0 BY <1>1 DEF Leaving, Bit
  <2> QED BY <1>1, <2>1, <2>2, <2>3 DEF ThreadCounted
<1>6. ASSUME NEW p \in Procs PROVE ProcCounted(at, thr, prc, p)
  <2>1. Cardinality(Guests(at, p)) = 0 /\ Cardinality(Remains(thr, p)) = 0
    BY <1>3, <1>4, NoneIsNobody, CountsAre
  <2>2. at[p].pc = "off" BY <1>2, OneOfAgents
  <2>3. Bit(Leaving(at, prc, p)) = 0 BY <1>1 DEF Leaving, Bit
  <2> QED BY <1>1, <2>1, <2>2, <2>3 DEF ProcCounted, Begun
<1> QED BY <1>5, <1>6 DEF Referred, Counted

LEMMA ThreadNextCounts ==
    ASSUME Sound, Referred, NEW th \in Threads, ThreadNext(th) PROVE Referred'
<1>1. CASE \E p \in Procs : BeginCall(th, p) BY <1>1, BeginCallCounts
<1>2. CASE BeginReply(th) BY <1>2, BeginReplyCounts
<1>3. CASE ReadBegin(th) \/ Interrupted(th) BY <1>3, ReadBeginCounts
<1>4. CASE ThreadExit(th) BY <1>4, ReleaseThreadCounts DEF ThreadExit
<1>5. CASE Reads(th) BY <1>5, ReadThreadCounts, ReadProcCounts DEF Reads
<1>6. CASE InDriver(th)
  <2>1. CASE FindTarget(th) \/ CallFails(th) \/ PushCall(th) \/ QueueCall(th)
    BY <2>1, FindTargetCounts, CallFailsCounts, PushCallCounts, QueueCallCounts
  <2>2. CASE UndoCall(th) \/ EndCall(th) BY <2>2, UndoCallCounts, EndCallCounts
  <2>3. CASE ReplyFrom(th) \/ ReplyAcquire(th)
    BY <2>3, ReplyFromCounts, ReplyAcquireCounts
  <2>4. CASE BuildReply(th, "built") \/ BuildReply(th, "refused")
    BY <2>4, BuildReplyCounts
  <2>5. CASE QueueReply(th) \/ EndReply(th) \/ ReplyFails(th)
    BY <2>5, QueueReplyCounts, EndReplyCounts, ReplyFailsCounts
  <2>6. CASE FailFrom(th) \/ FailAcquire(th)
    BY <2>6, OneOfAgents, FailFromCounts, FailAcquireCounts
  <2>7. CASE Deliver(th) \/ DeliverFault(th) BY <2>7, DeliverCounts
  <2>8. CASE ReleaseWork(th) \/ ThreadReleased(th)
    BY <2>8, ReleaseWorkCounts, ThreadReleasedCounts
  <2> QED BY <1>6, <2>1, <2>2, <2>3, <2>4, <2>5, <2>6, <2>7, <2>8 DEF InDriver
<1> QED BY <1>1, <1>2, <1>3, <1>4, <1>5, <1>6 DEF ThreadNext, Answers, Waits

LEMMA ReleasingCounts ==
    ASSUME Sound, Referred, NEW p \in Procs, ReleaseProc(p) \/ Releasing(p)
    PROVE  Referred'
<1>1. CASE ReleaseProc(p) BY <1>1, ReleaseProcCounts
<1>2. CASE ReleaseNode(p) BY <1>2, ReleaseNodeCounts
<1>3. CASE ReleaseTodo(p) BY <1>3, ReleaseTodoCounts
<1>4. CASE ProcReleased(p) BY <1>4, ProcReleasedCounts
<1>5. CASE FailFrom(p) \/ FailAcquire(p)
  BY <1>5, OneOfAgents, FailFromCounts, FailAcquireCounts
<1>6. CASE \E th \in Threads : ReleaseProcThread(p, th)
  BY <1>6, ReleaseThreadCounts DEF ReleaseProcThread
<1> QED BY <1>1, <1>2, <1>3, <1>4, <1>5, <1>6 DEF Releasing

LEMMA NextCounts == Sound /\ Referred /\ [Next]_vars => Referred'
<1> SUFFICES ASSUME Sound, Referred, [Next]_vars PROVE Referred' OBVIOUS
<1>1. CASE \E th \in Threads : ThreadNext(th) BY <1>1, ThreadNextCounts
<1>2. CASE \E p \in Procs : ReleaseProc(p) \/ Releasing(p) BY <1>2, ReleasingCounts
<1>3. CASE UNCHANGED vars BY <1>3 DEF vars, Referred
<1> QED BY <1>1, <1>2, <1>3 DEF Next

\* The temporary references on a thread are those of the agents that work on
\* it, and its own while it is released; those on a process are those of the
\* agents that work on it, one for each of its threads that is released but
\* not freed, and its own while it is released.
THEOREM ReferredAlways == Blocking => (Spec => []Referred)
<1>1. Init => Referred BY InitReferred
<1>2. Sound /\ Referred /\ [Next]_vars => Referred' BY NextCounts
<1>3. ASSUME Blocking PROVE Spec => []Referred
  BY <1>1, <1>2, <1>3, SoundAlways, PTL DEF Spec
<1> QED BY <1>3

-----------------------------------------------------------------------------
(* What follows from it. *)

LEMMA HeldPending ==
    ASSUME Types, NEW c \in Calls, Queued(c) \/ InHands(c)
    PROVE  c \in Pendings
<1>1. CASE InHands(c)
  <2>1. PICK a \in DOMAIN at : at[a].cur = c /\ at[a].pc # "done" BY <1>1 DEF InHands
  <2>2. a \in Agents BY DEF Types, Places
  <2>3. Hands[a] = c BY <2>1, <2>2 DEF Hands, HandAt
  <2> QED BY <2>2, <2>3 DEF Pendings, HeldIn
<1>2. ASSUME NEW p \in Procs, c \in Range(prc[p].todo) PROVE c \in Pendings
  <2>1. c \in Lists[p] /\ p \in Agents
    BY <1>2, OneOfAgents, NoneIsNobody DEF Lists
  <2> QED BY <2>1 DEF Pendings, HeldIn
<1>3. ASSUME NEW th \in Threads, Item("call", c) \in Range(thr[th].todo)
      PROVE  c \in Pendings
  <2>1. c \in Names(thr[th].todo) BY <1>3 DEF Names, Range
  <2>2. c \in Lists[th] /\ th \in Agents BY <2>1, OneOfAgents DEF Lists
  <2> QED BY <2>2 DEF Pendings, HeldIn
<1> QED BY <1>1, <1>2, <1>3 DEF Queued

LEMMA ReferredThread ==
    ASSUME Referred, NEW th \in Threads
    PROVE  /\ thr[th].freed <=> at[th].pc = "gone" /\ Users(at, th) = {}
           /\ thr[th].freed => thr[th].todo = <<>>
           /\ thr[th].ref \in Nat
<1>1. /\ thr[th].ref = Cardinality(Users(at, th)) + Bit(Leaving(at, thr, th))
      /\ thr[th].freed <=> thr[th].dead /\ thr[th].ref = 0
      /\ at[th].pc = "gone" => thr[th].dead /\ thr[th].todo = <<>>
  BY DEF Referred, Counted, ThreadCounted
<1>2. /\ Cardinality(Users(at, th)) \in Nat
      /\ Cardinality(Users(at, th)) = 0 <=> Users(at, th) = {}
  BY CountsAre
<1>3. /\ Bit(Leaving(at, thr, th)) \in Nat
      /\ Bit(Leaving(at, thr, th)) = 0 <=> ~(thr[th].dead /\ at[th].pc # "gone")
  BY DEF Bit, Leaving
<1>4. thr[th].ref = 0 <=> Users(at, th) = {} /\ ~(thr[th].dead /\ at[th].pc # "gone")
  BY <1>1, <1>2, <1>3
<1> QED BY <1>1, <1>2, <1>3, <1>4

LEMMA ReferredProc ==
    ASSUME Referred, NEW p \in Procs
    PROVE  /\ prc[p].freed <=> /\ at[p].pc = "gone" /\ Guests(at, p) = {}
                               /\ \A th \in Threads : Owner[th] = p => thr[th].freed
           /\ prc[p].freed => prc[p].todo = <<>>
           /\ prc[p].ref \in Nat
<1> DEFINE r == prc[p].ref
           g == Cardinality(Guests(at, p))
           m == Cardinality(Remains(thr, p))
           l == Bit(Leaving(at, prc, p))
<1>1. /\ r = g + m + l
      /\ prc[p].freed <=> prc[p].dead /\ r = 0
      /\ prc[p].dead <=> at[p].pc # "off"
      /\ at[p].pc = "gone" => prc[p].todo = <<>>
      /\ at[p].pc \notin Begun => \A th \in Threads : Owner[th] = p => at[th].pc = "gone"
  BY DEF Referred, Counted, ProcCounted
<1>2. /\ g \in Nat /\ m \in Nat
      /\ g = 0 <=> Guests(at, p) = {}
      /\ m = 0 <=> Remains(thr, p) = {}
  BY CountsAre
<1>3. /\ l \in Nat
      /\ l = 0 <=> ~(prc[p].dead /\ at[p].pc # "gone")
  BY DEF Bit, Leaving
<1> HIDE DEF r, g, m, l
<1>4. r \in Nat /\ (r = 0 <=> g = 0 /\ m = 0 /\ l = 0) BY <1>1, <1>2, <1>3
<1>5. ASSUME at[p].pc = "gone"
      PROVE  Remains(thr, p) = {} <=> \A th \in Threads : Owner[th] = p => thr[th].freed
  <2>1. \A th \in Threads : Owner[th] = p => at[th].pc = "gone"
    BY <1>1, <1>5 DEF Begun
  <2>2. \A th \in Threads : Owner[th] = p => thr[th].dead
    BY <2>1 DEF Referred, Counted, ThreadCounted
  <2> QED BY <2>2 DEF Remains
<1>6. prc[p].freed <=> at[p].pc = "gone" /\ Guests(at, p) = {} /\ Remains(thr, p) = {}
  BY <1>1, <1>2, <1>3, <1>4
<1>7. r = prc[p].ref BY DEF r
<1> QED BY <1>1, <1>4, <1>5, <1>6, <1>7

LEMMA SafeUse == Sound /\ Referred => NoUseAfterFree
<1> SUFFICES ASSUME Sound, Referred PROVE NoUseAfterFree OBVIOUS
<1>1. /\ Types /\ Marked(txn, Pendings, Answered) /\ Kids(txn, Pendings, Answered)
      /\ Blank(txn) /\ DOMAIN at = Agents /\ txn \in Transactions
  BY DEF Sound, Core, Types, Places
<1>2. \A c \in Calls : c \in LiveIn(txn) <=> Live(c) BY DEF LiveIn, Live
<1>3. \A c \in Calls : Queued(c) \/ InHands(c) => Live(c)
  BY <1>1, <1>2, HeldPending DEF Marked
<1>4. ASSUME NEW th \in Threads, ~thr[th].dead, NEW c \in Frames(th) PROVE Live(c)
  <2>1. c \in On(txn, Pendings, th) BY <1>4, FramesOn
  <2>2. c \in Calls BY <2>1 DEF On, Made, Srv, LiveIn
  <2>3. c \in LiveIn(txn)
    BY <1>1, <2>1, <2>2, NoneIsNobody DEF On, Made, Srv, Blank
  <2> QED BY <1>2, <2>2, <2>3
<1>5. ASSUME NEW c \in Calls, Live(c), txn[c].fromParent # None,
             \A a \in DOMAIN at : at[a].cur = c => at[a].pc # "replied"
      PROVE  Live(txn[c].fromParent)
  <2>1. c \notin Answered BY <1>1, <1>5 DEF Answered
  <2>2. txn[c].fromParent \in Calls BY <1>1, <1>5, FieldTypes
  <2>3. Kid(txn, Answered, c, txn[c].fromParent) BY <1>2, <1>5, <2>1 DEF Kid
  <2>4. txn[c].fromParent \in LiveIn(txn) BY <1>1, <2>2, <2>3 DEF Kids
  <2> QED BY <1>2, <2>2, <2>4
<1>6. \A c \in Calls : Open(c) => ~thr[txn[c].from].dead BY CallerLives DEF Open
<1>7. ASSUME NEW a \in DOMAIN at, at[a].tgt # None PROVE ~thr[at[a].tgt].freed
  <2>1. at[a].tgt \in Threads /\ a \in Agents BY <1>1, <1>7 DEF Types, Places, Place
  <2>2. a \in Users(at, at[a].tgt) BY <2>1 DEF Users
  <2> QED BY <2>1, <2>2, ReferredThread
<1>8. ASSUME NEW a \in DOMAIN at, at[a].proc # None PROVE ~prc[at[a].proc].freed
  <2>1. at[a].proc \in Procs /\ a \in Agents BY <1>1, <1>8 DEF Types, Places, Place
  <2>2. a \in Guests(at, at[a].proc) BY <2>1 DEF Guests
  <2> QED BY <2>1, <2>2, ReferredProc
<1> QED BY <1>3, <1>4, <1>5, <1>6, <1>7, <1>8 DEF NoUseAfterFree

LEMMA SafeFree == Sound /\ Referred => FreedWhenUnused
<1> SUFFICES ASSUME Sound, Referred PROVE FreedWhenUnused OBVIOUS
<1>1. DOMAIN at = Agents BY DEF Sound, Types, Places
<1>2. \A x : /\ Users(at, x) = {} <=> \A a \in DOMAIN at : at[a].tgt # x
             /\ Guests(at, x) = {} <=> \A a \in DOMAIN at : at[a].proc # x
  BY <1>1 DEF Users, Guests
<1>3. ASSUME NEW th \in Threads
      PROVE  /\ thr[th].freed <=>
                  at[th].pc = "gone" /\ \A a \in DOMAIN at : at[a].tgt # th
             /\ thr[th].freed => thr[th].todo = <<>>
  BY <1>2, ReferredThread
<1>4. ASSUME NEW p \in Procs
      PROVE  /\ prc[p].freed <=>
                  /\ at[p].pc = "gone" /\ \A a \in DOMAIN at : at[a].proc # p
                  /\ \A th \in Threads : Owner[th] = p => thr[th].freed
             /\ prc[p].freed => prc[p].todo = <<>>
  <2>1. /\ prc[p].freed <=> /\ at[p].pc = "gone" /\ Guests(at, p) = {}
                            /\ \A th \in Threads : Owner[th] = p => thr[th].freed
        /\ prc[p].freed => prc[p].todo = <<>>
    BY ReferredProc
  <2>2. Guests(at, p) = {} <=> \A a \in DOMAIN at : at[a].proc # p BY <1>2
  <2> QED BY <2>1, <2>2
<1> QED BY <1>3, <1>4 DEF FreedWhenUnused

LEMMA CountsTyped == Sound /\ Referred => TypeOK
<1> SUFFICES ASSUME Sound, Referred PROVE TypeOK OBVIOUS
<1>1. Types BY DEF Sound
<1>2. ASSUME NEW p \in Procs PROVE prc[p] \in Process
  <2>1. prc[p] \in LooseProcess BY <1>1 DEF Types, LooseProcesses
  <2>2. prc[p].ref \in Nat BY ReferredProc
  <2> QED BY <2>1, <2>2 DEF LooseProcess, Process
<1>3. ASSUME NEW th \in Threads PROVE thr[th] \in Thread
  <2>1. thr[th] \in LooseThread BY <1>1 DEF Types, LooseThreads
  <2>2. thr[th].ref \in Nat BY ReferredThread
  <2> QED BY <2>1, <2>2 DEF LooseThread, Thread
<1>4. prc \in [Procs -> Process] BY <1>1, <1>2 DEF Types, LooseProcesses
<1>5. thr \in [Threads -> Thread] BY <1>1, <1>3 DEF Types, LooseThreads
<1>6. txn \in [Calls -> Transaction] /\ at \in [Threads \union Procs -> Place]
  BY <1>1 DEF Types, Transactions, Places, Agents
<1> QED BY <1>4, <1>5, <1>6 DEF TypeOK

-----------------------------------------------------------------------------
(* The theorems about the runs' properties. *)

\* The types of the driver's state hold; in particular no temporary reference
\* is dropped that was not taken, so that no count goes below 0.
THEOREM TypesAlways == Blocking => (Spec => []TypeOK)
<1>1. Sound /\ Referred => TypeOK BY CountsTyped
<1>2. ASSUME Blocking PROVE Spec => []TypeOK
  BY <1>1, <1>2, SoundAlways, ReferredAlways, PTL
<1> QED BY <1>2

\* What the driver goes on to look at is not freed: neither a transaction in
\* hand, on a list, on a stack or up the chain of callers, nor the thread a
\* call came from, nor the thread or process somebody works on without its lock.
THEOREM NothingUsedAfterFree == Blocking => (Spec => []NoUseAfterFree)
<1>1. Sound /\ Referred => NoUseAfterFree BY SafeUse
<1>2. ASSUME Blocking PROVE Spec => []NoUseAfterFree
  BY <1>1, <1>2, SoundAlways, ReferredAlways, PTL
<1> QED BY <1>2

\* A released thread or process is freed by whoever is the last to drop a
\* reference on it, and by nobody before, with nothing left on its list: also
\* when the release of the process, its threads' references on it and the
\* senders that work on it end in any order.
THEOREM FreedInTime == Blocking => (Spec => []FreedWhenUnused)
<1>1. Sound /\ Referred => FreedWhenUnused BY SafeFree
<1>2. ASSUME Blocking PROVE Spec => []FreedWhenUnused
  BY <1>1, <1>2, SoundAlways, ReferredAlways, PTL
<1> QED BY <1>2
=============================================================================
