------------------------- MODULE BinderDeathProofs -------------------------
(***************************************************************************)
(* Theorems about BinderDeath, for every number of threads, nodes and      *)
(* notifications and every limit of the pool.  The inductive invariant     *)
(* IInv has a part about the threads, kept by every step of BinderPool,    *)
(* and a part about the notifications, which those steps do not touch.     *)
(***************************************************************************)
EXTENDS BinderDeath, TLAPS

-----------------------------------------------------------------------------
(* The two parts of the invariant. *)

PoolInv == PoolTypeOK /\ ThreadShape /\ SpawnBounded /\ NoLostWakeup /\ ReturnsWhenTold

DeathTypeOK ==
    /\ alive \in [Nodes -> BOOLEAN] /\ ref \in [Nodes -> BOOLEAN]
    /\ death \in [Nodes -> Deaths \cup {None}]
    /\ type \in [Deaths -> Types]
    /\ cookie \in [Deaths -> Cookies \cup {None}]
    /\ told \in SUBSET Deaths /\ cleared \in SUBSET Deaths
    /\ acked \in SUBSET Deaths
    /\ phase \in Phases

DeathInv ==
    /\ DeathTypeOK /\ DeathShape /\ AliveIsQuiet /\ DeathsAccounted
    /\ ClearIsAnswered

\* The parts of DeathsAccounted.
Owned ==
    /\ \A n \in Nodes : death[n] # None =>
           ref[n] /\ place[death[n]] \in {"off", "proc", "delivered"}
    /\ \A n, m \in Nodes : death[n] # None /\ death[n] = death[m] => n = m
Placed ==
    \A d \in Deaths : /\ place[d] # "corrupt"
                      /\ place[d] = "off" => \E n \in Nodes : death[n] = d
ListedCleared ==
    \A d \in Deaths : OnList(d) /\ d \in cleared => \A n \in Nodes : death[n] # d
ListedOwned ==
    \A d \in Deaths : OnList(d) /\ d \notin cleared => \E n \in Nodes : death[n] = d
NoneLeft ==
    phase = "freed" => \A d \in Deaths : place[d] \in {"unused", "freed", "dropped"}

LEMMA AccountedParts ==
  DeathsAccounted <=> Owned /\ Placed /\ ListedCleared /\ ListedOwned /\ NoneLeft
BY DEF DeathsAccounted, Owned, Placed, ListedCleared, ListedOwned, NoneLeft

LEMMA TwoParts == IInv <=> PoolInv /\ DeathInv /\ PhaseShape
BY DEF IInv, PoolInv, DeathInv, DeathTypeOK, TypeOK

\* A list of a thread is none of the other places.
LEMMA ListNames ==
  /\ "unused" \notin Threads /\ "off" \notin Threads /\ "proc" \notin Threads
  /\ "delivered" \notin Threads /\ "freed" \notin Threads
  /\ "dropped" \notin Threads /\ "corrupt" \notin Threads
BY PoolAssumption DEF OffThread

-----------------------------------------------------------------------------
(* Steps of the pool.  Each moves one thread and leaves the lists alone. *)

LEMMA GetThreadKeeps == ASSUME PoolInv, NEW th \in Threads, GetThread(th) PROVE PoolInv'
<1> USE DEF PoolInv, GetThread, PoolTypeOK, threadVars, poolVars
<1>1. PoolTypeOK'
  BY DEF ThreadStates, Flags
<1>2. ThreadShape'
  BY <1>1 DEF ThreadShape, Todo, HasWork, Available, IsLooper, ProcTodo
<1>3. SpawnBounded'
  BY DEF SpawnBounded
<1>4. NoLostWakeup'
  BY DEF NoLostWakeup, WillLook, HasWork, Available, IsLooper, Todo, ProcTodo, ThreadShape
<1>5. ReturnsWhenTold'
  BY DEF ReturnsWhenTold, HasWork
<1> QED
  BY <1>1, <1>2, <1>3, <1>4, <1>5

LEMMA IoctlEndKeeps == ASSUME PoolInv, NEW th \in Threads, IoctlEnd(th) PROVE PoolInv'
<1> USE DEF PoolInv, IoctlEnd, PoolTypeOK, threadVars, poolVars
<1>1. PoolTypeOK'
  BY DEF ThreadStates, Flags
<1>2. ThreadShape'
  BY <1>1 DEF ThreadShape, Todo, HasWork, Available, IsLooper, ProcTodo
<1>3. SpawnBounded'
  BY DEF SpawnBounded
<1>4. NoLostWakeup'
  BY DEF NoLostWakeup, WillLook, HasWork, Available, IsLooper, Todo, ProcTodo, ThreadShape
<1>5. ReturnsWhenTold'
  BY DEF ReturnsWhenTold, HasWork
<1> QED
  BY <1>1, <1>2, <1>3, <1>4, <1>5

LEMMA RegisterLooperKeeps == ASSUME PoolInv, NEW th \in Threads, RegisterLooper(th) PROVE PoolInv'
<1> USE DEF PoolInv, RegisterLooper, PoolTypeOK, threadVars, poolVars
<1>1. PoolTypeOK'
  BY DEF ThreadStates, Flags
<1>2. ThreadShape'
  BY <1>1 DEF ThreadShape, Todo, HasWork, Available, IsLooper, ProcTodo
<1>3. SpawnBounded'
  BY DEF SpawnBounded
<1>4. NoLostWakeup'
  BY DEF NoLostWakeup, WillLook, HasWork, Available, IsLooper, Todo, ProcTodo, ThreadShape
<1>5. ReturnsWhenTold'
  BY DEF ReturnsWhenTold, HasWork
<1> QED
  BY <1>1, <1>2, <1>3, <1>4, <1>5

LEMMA EnterLooperKeeps == ASSUME PoolInv, NEW th \in Threads, EnterLooper(th) PROVE PoolInv'
<1> USE DEF PoolInv, EnterLooper, PoolTypeOK, threadVars, poolVars
<1>1. PoolTypeOK'
  BY DEF ThreadStates, Flags
<1>2. ThreadShape'
  BY <1>1 DEF ThreadShape, Todo, HasWork, Available, IsLooper, ProcTodo
<1>3. SpawnBounded'
  BY DEF SpawnBounded
<1>4. NoLostWakeup'
  BY DEF NoLostWakeup, WillLook, HasWork, Available, IsLooper, Todo, ProcTodo, ThreadShape
<1>5. ReturnsWhenTold'
  BY DEF ReturnsWhenTold, HasWork
<1> QED
  BY <1>1, <1>2, <1>3, <1>4, <1>5

LEMMA ReadBeginKeeps == ASSUME PoolInv, NEW th \in Threads, ReadBegin(th) PROVE PoolInv'
<1> USE DEF PoolInv, ReadBegin, StartWait, PoolTypeOK, threadVars, poolVars
<1>a. Available(th) \in BOOLEAN
  BY DEF Available
<1>1. PoolTypeOK'
  BY <1>a DEF ThreadStates, Flags
<1>2. ThreadShape'
  BY <1>1 DEF ThreadShape, Todo, HasWork, Available, IsLooper, ProcTodo
<1>3. SpawnBounded'
  BY DEF SpawnBounded
<1>4. NoLostWakeup'
  BY DEF NoLostWakeup, WillLook, HasWork, Available, IsLooper, Todo, ProcTodo, ThreadShape
<1>5. ReturnsWhenTold'
  BY DEF ReturnsWhenTold, HasWork
<1> QED
  BY <1>1, <1>2, <1>3, <1>4, <1>5

LEMMA WaitForWorkKeeps == ASSUME PoolInv, NEW th \in Threads, WaitForWork(th) PROVE PoolInv'
<1> USE DEF PoolInv, WaitForWork, PoolTypeOK, threadVars, poolVars
<1>1. PoolTypeOK'
  <2>1. CASE HasWork(th)
    BY <2>1 DEF ThreadStates
  <2>2. CASE ~HasWork(th)
    BY ZenonT(60), <2>2 DEF ThreadStates
  <2> QED BY <2>1, <2>2
<1>2. ThreadShape'
  BY <1>1 DEF ThreadShape, Todo, HasWork, Available, IsLooper, ProcTodo
<1>3. SpawnBounded'
  BY DEF SpawnBounded
<1>4. NoLostWakeup'
  BY DEF NoLostWakeup, WillLook, HasWork, Available, IsLooper, Todo, ProcTodo, ThreadShape
<1>5. ReturnsWhenTold'
  BY DEF ReturnsWhenTold, HasWork
<1> QED
  BY <1>1, <1>2, <1>3, <1>4, <1>5

LEMMA WouldBlockKeeps == ASSUME PoolInv, NEW th \in Threads, WouldBlock(th) PROVE PoolInv'
<1> USE DEF PoolInv, WouldBlock, PoolTypeOK, threadVars, poolVars
<1>1. PoolTypeOK'
  BY DEF ThreadStates, Flags
<1>2. ThreadShape'
  BY <1>1 DEF ThreadShape, Todo, HasWork, Available, IsLooper, ProcTodo
<1>3. SpawnBounded'
  BY DEF SpawnBounded
<1>4. NoLostWakeup'
  BY DEF NoLostWakeup, WillLook, HasWork, Available, IsLooper, Todo, ProcTodo, ThreadShape
<1>5. ReturnsWhenTold'
  BY DEF ReturnsWhenTold, HasWork
<1> QED
  BY <1>1, <1>2, <1>3, <1>4, <1>5

LEMMA WakeKeeps == ASSUME PoolInv, NEW th \in Threads, Wake(th) PROVE PoolInv'
<1> USE DEF PoolInv, Wake, PoolTypeOK, threadVars, poolVars
<1>1. PoolTypeOK'
  BY DEF ThreadStates, Flags
<1>2. ThreadShape'
  BY <1>1 DEF ThreadShape, Todo, HasWork, Available, IsLooper, ProcTodo
<1>3. SpawnBounded'
  BY DEF SpawnBounded
<1>4. NoLostWakeup'
  BY DEF NoLostWakeup, WillLook, HasWork, Available, IsLooper, Todo, ProcTodo, ThreadShape
<1>5. ReturnsWhenTold'
  BY DEF ReturnsWhenTold, HasWork
<1> QED
  BY <1>1, <1>2, <1>3, <1>4, <1>5

LEMMA InterruptedKeeps == ASSUME PoolInv, NEW th \in Threads, Interrupted(th) PROVE PoolInv'
<1> USE DEF PoolInv, Interrupted, PoolTypeOK, threadVars, poolVars
<1>1. PoolTypeOK'
  BY DEF ThreadStates, Flags
<1>2. ThreadShape'
  BY <1>1 DEF ThreadShape, Todo, HasWork, Available, IsLooper, ProcTodo
<1>3. SpawnBounded'
  BY DEF SpawnBounded
<1>4. NoLostWakeup'
  BY DEF NoLostWakeup, WillLook, HasWork, Available, IsLooper, Todo, ProcTodo, ThreadShape
<1>5. ReturnsWhenTold'
  BY DEF ReturnsWhenTold, HasWork
<1> QED
  BY <1>1, <1>2, <1>3, <1>4, <1>5

LEMMA NothingLeftKeeps == ASSUME PoolInv, NEW th \in Threads, NothingLeft(th) PROVE PoolInv'
<1> USE DEF PoolInv, NothingLeft, StartWait, NextList, PoolTypeOK, threadVars, poolVars
<1>a. Available(th) \in BOOLEAN
  BY DEF Available
<1>1. PoolTypeOK'
  BY <1>a DEF ThreadStates, Flags
<1>2. ThreadShape'
  BY <1>1 DEF ThreadShape, Todo, HasWork, Available, IsLooper, ProcTodo
<1>3. SpawnBounded'
  BY DEF SpawnBounded
<1>4. NoLostWakeup'
  BY DEF NoLostWakeup, WillLook, HasWork, Available, IsLooper, Todo, ProcTodo, ThreadShape
<1>5. ReturnsWhenTold'
  BY DEF ReturnsWhenTold, HasWork
<1> QED
  BY <1>1, <1>2, <1>3, <1>4, <1>5

LEMMA ShortBufferKeeps == ASSUME PoolInv, NEW th \in Threads, ShortBuffer(th) PROVE PoolInv'
<1> USE DEF PoolInv, ShortBuffer, PoolTypeOK, threadVars, poolVars
<1>1. PoolTypeOK'
  BY DEF ThreadStates, Flags
<1>2. ThreadShape'
  BY <1>1 DEF ThreadShape, Todo, HasWork, Available, IsLooper, ProcTodo
<1>3. SpawnBounded'
  BY DEF SpawnBounded
<1>4. NoLostWakeup'
  BY DEF NoLostWakeup, WillLook, HasWork, Available, IsLooper, Todo, ProcTodo, ThreadShape
<1>5. ReturnsWhenTold'
  BY DEF ReturnsWhenTold, HasWork
<1> QED
  BY <1>1, <1>2, <1>3, <1>4, <1>5

LEMMA SpawnLooperKeeps == ASSUME PoolInv, NEW th \in Threads, SpawnLooper(th) PROVE PoolInv'
<1> USE DEF PoolInv, SpawnLooper, NeedsLooper, PoolTypeOK, threadVars, poolVars
<1>1. PoolTypeOK'
  BY DEF ThreadStates, Flags
<1>2. ThreadShape'
  BY <1>1 DEF ThreadShape, Todo, HasWork, Available, IsLooper, ProcTodo
<1>3. SpawnBounded'
  <2>1. CASE NeedsLooper(th)
    <3>1. requested' + started' <= maxThreads /\ requested' <= 1
      BY <2>1, PoolAssumption
    <3> QED BY <3>1 DEF SpawnBounded
  <2>2. CASE ~NeedsLooper(th)
    BY <2>2 DEF SpawnBounded
  <2> QED BY <2>1, <2>2
<1>4. NoLostWakeup'
  BY DEF NoLostWakeup, WillLook, HasWork, Available, IsLooper, Todo, ProcTodo, ThreadShape
<1>5. ReturnsWhenTold'
  BY DEF ReturnsWhenTold, HasWork
<1> QED
  BY <1>1, <1>2, <1>3, <1>4, <1>5

LEMMA ReadExitKeeps == ASSUME PoolInv, NEW th \in Threads, ReadExit(th) PROVE PoolInv'
<1> USE DEF PoolInv, ReadExit, WakeupProc, PoolTypeOK, threadVars, poolVars
<1>1. PoolTypeOK'
  BY DEF ThreadStates, Flags
<1>2. ThreadShape'
  BY <1>1 DEF ThreadShape, Todo, HasWork, Available, IsLooper, ProcTodo
<1>3. SpawnBounded'
  BY DEF SpawnBounded
<1>4. NoLostWakeup'
  BY DEF NoLostWakeup, WillLook, HasWork, Available, IsLooper, Todo, ProcTodo, ThreadShape
<1>5. ReturnsWhenTold'
  BY DEF ReturnsWhenTold, HasWork
<1> QED
  BY <1>1, <1>2, <1>3, <1>4, <1>5

LEMMA PollBeginKeeps == ASSUME PoolInv, NEW th \in Threads, PollBegin(th) PROVE PoolInv'
<1> USE DEF PoolInv, PollBegin, PoolTypeOK, threadVars, poolVars
<1>a. Available(th) \in BOOLEAN
  BY DEF Available
<1>1. PoolTypeOK'
  BY <1>a DEF ThreadStates, Flags
<1>2. ThreadShape'
  <2>1. \A u \in Threads : Todo(u)' = Todo(u)
    BY DEF Todo
  <2>2. \A u \in Threads : u # th => Available(u)' = Available(u)
    BY <2>1 DEF Available, IsLooper
  <2>3. Available(th)' => Available(th)
    BY <2>1 DEF Available, IsLooper
  <2> QED BY <1>a, <2>1, <2>2, <2>3 DEF ThreadShape
<1>3. SpawnBounded'
  BY DEF SpawnBounded
<1>4. NoLostWakeup'
  BY DEF NoLostWakeup, WillLook, HasWork, Available, IsLooper, Todo, ProcTodo, ThreadShape
<1>5. ReturnsWhenTold'
  BY DEF ReturnsWhenTold, HasWork
<1> QED
  BY <1>1, <1>2, <1>3, <1>4, <1>5

LEMMA PollCheckKeeps == ASSUME PoolInv, NEW th \in Threads, PollCheck(th) PROVE PoolInv'
<1> USE DEF PoolInv, PollCheck, PoolTypeOK, threadVars, poolVars
<1>1. PoolTypeOK'
  BY DEF ThreadStates, Flags
<1>2. ThreadShape'
  BY <1>1 DEF ThreadShape, Todo, HasWork, Available, IsLooper, ProcTodo
<1>3. SpawnBounded'
  BY DEF SpawnBounded
<1>4. NoLostWakeup'
  BY DEF NoLostWakeup, WillLook, HasWork, Available, IsLooper, Todo, ProcTodo, ThreadShape
<1>5. ReturnsWhenTold'
  BY DEF ReturnsWhenTold, HasWork
<1> QED
  BY <1>1, <1>2, <1>3, <1>4, <1>5

LEMMA PollTimeoutKeeps == ASSUME PoolInv, NEW th \in Threads, PollTimeout(th) PROVE PoolInv'
<1> USE DEF PoolInv, PollTimeout, PoolTypeOK, threadVars, poolVars
<1>1. PoolTypeOK'
  BY DEF ThreadStates, Flags
<1>2. ThreadShape'
  BY <1>1 DEF ThreadShape, Todo, HasWork, Available, IsLooper, ProcTodo
<1>3. SpawnBounded'
  BY DEF SpawnBounded
<1>4. NoLostWakeup'
  BY DEF NoLostWakeup, WillLook, HasWork, Available, IsLooper, Todo, ProcTodo, ThreadShape
<1>5. ReturnsWhenTold'
  BY DEF ReturnsWhenTold, HasWork
<1> QED
  BY <1>1, <1>2, <1>3, <1>4, <1>5

LEMMA SetMaxThreadsKeeps == ASSUME PoolInv, NEW th \in Threads, NEW n \in Limits, SetMaxThreads(th, n) PROVE PoolInv'
<1> USE DEF PoolInv, SetMaxThreads, PoolTypeOK, threadVars, poolVars
<1>1. PoolTypeOK'
  OBVIOUS
<1>2. ThreadShape'
  BY DEF ThreadShape, Todo, Available, IsLooper
<1>3. SpawnBounded'
  BY DEF SpawnBounded
<1>4. NoLostWakeup'
  BY DEF NoLostWakeup, WillLook, HasWork, Available, IsLooper, Todo, ProcTodo
<1>5. ReturnsWhenTold'
  BY DEF ReturnsWhenTold
<1> QED
  BY <1>1, <1>2, <1>3, <1>4, <1>5

LEMMA DeferredFlushKeeps == ASSUME PoolInv, DeferredFlush PROVE PoolInv'
<1> USE DEF PoolInv, DeferredFlush, PoolTypeOK, threadVars, poolVars
<1>1. PoolTypeOK'
  OBVIOUS
<1>2. ThreadShape'
  BY DEF ThreadShape, Todo, Available, IsLooper
<1>3. SpawnBounded'
  BY DEF SpawnBounded
<1>4. NoLostWakeup'
  BY DEF NoLostWakeup, WillLook, HasWork, Available, IsLooper, Todo, ProcTodo
<1>5. ReturnsWhenTold'
  BY DEF ReturnsWhenTold
<1> QED
  BY <1>1, <1>2, <1>3, <1>4, <1>5

LEMMA FlushKeeps == ASSUME PoolInv, Flush PROVE PoolInv'
<1> USE DEF PoolInv, Flush, PoolTypeOK, threadVars, poolVars
<1>1. PoolTypeOK'
  OBVIOUS
<1>2. ThreadShape'
  BY DEF ThreadShape, Todo, Available, IsLooper
<1>3. SpawnBounded'
  BY DEF SpawnBounded
<1>4. NoLostWakeup'
  BY DEF NoLostWakeup, WillLook, HasWork, Available, IsLooper, Todo, ProcTodo
<1>5. ReturnsWhenTold'
  BY DEF ReturnsWhenTold
<1> QED
  BY <1>1, <1>2, <1>3, <1>4, <1>5

-----------------------------------------------------------------------------
(* The pool under steps that move notifications: no thread loses the last    *)
(* item of its own list, and one that is not there gets none.                *)

TodoKept ==
    \A th \in Threads : /\ Todo(th) # {} => Todo(th)' # {}
                        /\ pc[th] = "out" => Todo(th)' = {}

ThreadsKept ==
    /\ UNCHANGED <<pc, looper, needReturn, doProc, got, poolVars, flush>>
    /\ place' \in [Work -> OffThread \cup Threads]

LEMMA WakeupKeeps ==
  ASSUME PoolInv, ThreadsKept, TodoKept, WakeupProc
  PROVE  PoolInv'
<1> USE DEF PoolInv, ThreadsKept, TodoKept, WakeupProc, PoolTypeOK, poolVars
<1>1. PoolTypeOK'
  OBVIOUS
<1>2. \A th \in Threads : Available(th)' => Available(th)
  BY DEF Available, IsLooper
<1>3. ThreadShape'
  BY <1>2 DEF ThreadShape
<1>4. SpawnBounded'
  BY DEF SpawnBounded
<1>5. NoLostWakeup'
  <2>1. CASE waiting # {}
    <3>1. PICK th \in waiting : waiting' = waiting \ {th} /\ woken'[th]
      BY <2>1
    <3>2. th \in Threads /\ pc'[th] = "asleep" /\ doProc'[th]
      BY DEF ThreadShape
    <3> QED BY <3>1, <3>2 DEF NoLostWakeup, WillLook, HasWork
  <2>2. CASE waiting = {}
    BY <1>2, <2>2 DEF NoLostWakeup, ThreadShape
  <2> QED BY <2>1, <2>2
<1>6. ReturnsWhenTold'
  BY DEF ReturnsWhenTold
<1> QED
  BY <1>1, <1>3, <1>4, <1>5, <1>6

LEMMA QuietKeeps ==
  ASSUME PoolInv, ThreadsKept, TodoKept, UNCHANGED <<waiting, woken>>,
         ProcTodo = {} => ProcTodo' = {}
  PROVE  PoolInv'
<1> USE DEF PoolInv, ThreadsKept, TodoKept, PoolTypeOK, poolVars
<1>1. PoolTypeOK'
  OBVIOUS
<1>2. \A th \in Threads : Available(th)' => Available(th)
  BY DEF Available, IsLooper
<1>3. ThreadShape'
  BY <1>2 DEF ThreadShape
<1>4. SpawnBounded'
  BY DEF SpawnBounded
<1>5. NoLostWakeup'
  <2>1. \A th \in Threads : ProcTodo' # {} /\ WillLook(th) => WillLook(th)'
    BY DEF WillLook, HasWork
  <2> QED BY <1>2, <2>1 DEF NoLostWakeup
<1>6. ReturnsWhenTold'
  BY DEF ReturnsWhenTold
<1> QED
  BY <1>1, <1>3, <1>4, <1>5, <1>6

\* A notification that is on no thread's list goes somewhere.
LEMMA MoveKeeps ==
  ASSUME PoolInv, NEW d \in Work, NEW x \in OffThread \cup Threads,
         place[d] \notin Threads, x \in Threads => pc[x] # "out",
         place' = [place EXCEPT ![d] = x]
  PROVE  /\ place' \in [Work -> OffThread \cup Threads]
         /\ TodoKept
         /\ x # "proc" /\ ProcTodo = {} => ProcTodo' = {}
<1>1. \A w \in Work : place'[w] = IF w = d THEN x ELSE place[w]
  BY DEF PoolInv, PoolTypeOK
<1>2. place' \in [Work -> OffThread \cup Threads]
  BY DEF PoolInv, PoolTypeOK
<1>3. TodoKept
  BY <1>1 DEF TodoKept, Todo, PoolInv, ThreadShape
<1>4. x # "proc" /\ ProcTodo = {} => ProcTodo' = {}
  BY <1>1 DEF ProcTodo
<1> QED
  BY <1>2, <1>3, <1>4

-----------------------------------------------------------------------------
(* Steps of the notifications, and what they do to the pool. *)

\* A notification that a ref points to is on no thread's list; while the node
\* lives it is on no list at all.
LEMMA DeathOfRef ==
  ASSUME DeathInv, NEW n \in Nodes, death[n] # None
  PROVE  /\ death[n] \in Deaths /\ ref[n]
         /\ place[death[n]] \in {"off", "proc", "delivered"}
         /\ place[death[n]] \notin Threads
         /\ death[n] \notin cleared
         /\ alive[n] => place[death[n]] = "off"
<1>1. /\ death[n] \in Deaths /\ ref[n]
      /\ place[death[n]] \in {"off", "proc", "delivered"}
  BY DEF DeathInv, DeathTypeOK, DeathsAccounted
<1>2. type[death[n]] \in {"none", "DEAD_BINDER"}
  BY DEF DeathInv, DeathTypeOK, AliveIsQuiet
<1>3. death[n] \notin cleared
  BY <1>1, <1>2 DEF DeathInv, DeathShape
<1>4. alive[n] => place[death[n]] = "off"
  BY <1>1 DEF DeathInv, DeathShape, AliveIsQuiet
<1> QED
  BY <1>1, <1>3, <1>4, ListNames

LEMMA GetRefPool ==
  ASSUME PoolInv, NEW n \in Nodes, GetRef(n)
  PROVE  PoolInv'
<1>1. UNCHANGED <<threadVars, waiting, poolVars, flush, place>>
  BY DEF GetRef
<1> QED
  BY <1>1, QuietKeeps DEF ThreadsKept, TodoKept, PoolInv, PoolTypeOK,
     threadVars, poolVars, Todo, ProcTodo, ThreadShape

LEMMA CleanupRefPool ==
  ASSUME PoolInv, DeathInv, NEW n \in Nodes, CleanupRef(n)
  PROVE  PoolInv'
<1>1. UNCHANGED <<threadVars, waiting, poolVars, flush>>
  BY DEF CleanupRef
<1>2. CASE death[n] = None
  BY <1>1, <1>2, QuietKeeps DEF CleanupRef, ThreadsKept, TodoKept, PoolInv, PoolTypeOK,
     threadVars, poolVars, Todo, ProcTodo, ThreadShape
<1>3. CASE death[n] # None
  <2>1. place' = [place EXCEPT ![death[n]] = "freed"]
    BY <1>3 DEF CleanupRef, Free
  <2>2. "freed" \in OffThread \cup Threads /\ "freed" \notin Threads
    BY ListNames DEF OffThread
  <2>3. death[n] \in Work /\ place[death[n]] \notin Threads
    BY <1>3, DeathOfRef DEF Deaths
  <2>4. /\ place' \in [Work -> OffThread \cup Threads] /\ TodoKept
        /\ ProcTodo = {} => ProcTodo' = {}
    BY <2>1, <2>2, <2>3, MoveKeeps
  <2> QED
    BY <1>1, <2>4, QuietKeeps DEF ThreadsKept, threadVars, poolVars
<1> QED
  BY <1>2, <1>3

LEMMA NodeReleasePool ==
  ASSUME PoolInv, DeathInv, NEW n \in Nodes, NodeRelease(n)
  PROVE  PoolInv'
<1>1. UNCHANGED <<pc, looper, needReturn, doProc, got, poolVars, flush>> /\ alive[n]
  BY DEF NodeRelease
<1>2. CASE death[n] = None
  BY <1>1, <1>2, QuietKeeps DEF NodeRelease, ThreadsKept, TodoKept, PoolInv, PoolTypeOK,
     threadVars, poolVars, Todo, ProcTodo, ThreadShape
<1>3. CASE death[n] # None
  <2>1. place' = [place EXCEPT ![death[n]] = "proc"] /\ WakeupProc
    BY <1>1, <1>3, DeathOfRef DEF NodeRelease, Queued
  <2>2. "proc" \in OffThread \cup Threads /\ "proc" \notin Threads
    BY ListNames DEF OffThread
  <2>3. death[n] \in Work /\ place[death[n]] \notin Threads
    BY <1>3, DeathOfRef DEF Deaths
  <2>4. place' \in [Work -> OffThread \cup Threads] /\ TodoKept
    BY <2>1, <2>2, <2>3, MoveKeeps
  <2> QED
    BY <1>1, <2>1, <2>4, WakeupKeeps DEF ThreadsKept
<1> QED
  BY <1>2, <1>3

LEMMA RequestDeathPool ==
  ASSUME PoolInv, NEW th \in Threads, NEW n \in Nodes, NEW d \in Deaths,
         NEW c \in Cookies, RequestDeath(th, n, d, c)
  PROVE  PoolInv'
<1>1. UNCHANGED <<pc, looper, needReturn, doProc, got, poolVars, flush>>
  BY DEF RequestDeath
<1>2. d \in Work /\ place[d] \notin Threads
  BY ListNames DEF RequestDeath, Deaths
<1>3. CASE alive[n]
  <2>1. place' = [place EXCEPT ![d] = "off"] /\ UNCHANGED <<waiting, woken>>
    BY <1>3 DEF RequestDeath
  <2>2. "off" \in OffThread \cup Threads /\ "off" \notin Threads
    BY ListNames DEF OffThread
  <2>3. /\ place' \in [Work -> OffThread \cup Threads] /\ TodoKept
        /\ ProcTodo = {} => ProcTodo' = {}
    BY <1>2, <2>1, <2>2, MoveKeeps
  <2> QED
    BY <1>1, <2>1, <2>3, QuietKeeps DEF ThreadsKept
<1>4. CASE ~alive[n]
  <2>1. place' = [place EXCEPT ![d] = "proc"] /\ WakeupProc
    BY <1>4 DEF RequestDeath
  <2>2. "proc" \in OffThread \cup Threads /\ "proc" \notin Threads
    BY ListNames DEF OffThread
  <2>3. /\ place' \in [Work -> OffThread \cup Threads] /\ TodoKept
    BY <1>2, <2>1, <2>2, MoveKeeps
  <2> QED
    BY <1>1, <2>1, <2>3, WakeupKeeps DEF ThreadsKept
<1> QED
  BY <1>3, <1>4

LEMMA QueueClearPool ==
  ASSUME PoolInv, NEW th \in Threads, NEW d \in Deaths, pc[th] = "user",
         place[d] \notin Threads, QueueClear(th, d),
         UNCHANGED <<pc, looper, needReturn, doProc, got, poolVars, flush>>
  PROVE  PoolInv'
<1>1. CASE IsLooper(th)
  <2>1. place' = [place EXCEPT ![d] = th] /\ UNCHANGED <<waiting, woken>>
    BY <1>1 DEF QueueClear
  <2>2. th # "proc" /\ pc[th] # "out"
    BY ListNames
  <2>3. /\ place' \in [Work -> OffThread \cup Threads] /\ TodoKept
        /\ ProcTodo = {} => ProcTodo' = {}
    BY <2>1, <2>2, MoveKeeps DEF Deaths
  <2> QED
    BY <2>1, <2>3, QuietKeeps DEF ThreadsKept
<1>2. CASE ~IsLooper(th)
  <2>1. place' = [place EXCEPT ![d] = "proc"] /\ WakeupProc
    BY <1>2 DEF QueueClear
  <2>2. "proc" \in OffThread \cup Threads /\ "proc" \notin Threads
    BY ListNames DEF OffThread
  <2>3. /\ place' \in [Work -> OffThread \cup Threads] /\ TodoKept
    BY <2>1, <2>2, MoveKeeps DEF Deaths
  <2> QED
    BY <2>1, <2>3, WakeupKeeps DEF ThreadsKept
<1> QED
  BY <1>1, <1>2

LEMMA ClearDeathPool ==
  ASSUME PoolInv, DeathInv, NEW th \in Threads, NEW n \in Nodes,
         NEW c \in Cookies, ClearDeath(th, n, c)
  PROVE  PoolInv'
<1>1. /\ UNCHANGED <<pc, looper, needReturn, doProc, got, poolVars, flush>>
      /\ pc[th] = "user" /\ death[n] # None
  BY DEF ClearDeath
<1>2. CASE place[death[n]] = "off"
  BY <1>1, <1>2, DeathOfRef, QueueClearPool DEF ClearDeath
<1>3. CASE place[death[n]] # "off"
  BY <1>1, <1>3, QuietKeeps DEF ClearDeath, ThreadsKept, TodoKept, PoolInv, PoolTypeOK,
     Todo, ProcTodo, ThreadShape
<1> QED
  BY <1>2, <1>3

LEMMA DeadBinderDonePool ==
  ASSUME PoolInv, NEW th \in Threads, NEW d \in Deaths, DeadBinderDone(th, d)
  PROVE  PoolInv'
<1>1. /\ UNCHANGED <<pc, looper, needReturn, doProc, got, poolVars, flush>>
      /\ pc[th] = "user" /\ place[d] = "delivered"
  BY DEF DeadBinderDone
<1>2. CASE type[d] = "DEAD_BINDER_AND_CLEAR"
  BY <1>1, <1>2, ListNames, QueueClearPool DEF DeadBinderDone
<1>3. CASE type[d] # "DEAD_BINDER_AND_CLEAR"
  <2>1. place' = [place EXCEPT ![d] = "off"] /\ UNCHANGED <<waiting, woken>>
    BY <1>3 DEF DeadBinderDone
  <2>2. /\ "off" \in OffThread \cup Threads /\ "off" \notin Threads
        /\ place[d] \notin Threads
    BY <1>1, ListNames DEF OffThread
  <2>3. /\ place' \in [Work -> OffThread \cup Threads] /\ TodoKept
        /\ ProcTodo = {} => ProcTodo' = {}
    BY <2>1, <2>2, MoveKeeps DEF Deaths
  <2> QED
    BY <1>1, <2>1, <2>3, QuietKeeps DEF ThreadsKept
<1> QED
  BY <1>2, <1>3

LEMMA TakePool ==
  ASSUME PoolInv, NEW th \in Threads, NEW d \in Deaths, NEW s \in {"loop", "done", "exit"},
         NEW x \in {"freed", "delivered"}, pc[th] = "loop",
         place' = [place EXCEPT ![d] = x], pc' = [pc EXCEPT ![th] = s],
         got' = [got EXCEPT ![th] = TRUE],
         d \in NextList(th),
         UNCHANGED <<looper, needReturn, doProc, woken, waiting, poolVars, flush>>
  PROVE  PoolInv'
<1> USE DEF PoolInv, PoolTypeOK, poolVars, Deaths
<1>1. PoolTypeOK'
  <2>1. x \in OffThread /\ s \in ThreadStates
    BY DEF OffThread, ThreadStates
  <2> QED BY <2>1
<1>2. /\ \A u \in Threads : u # th => Todo(u)' = Todo(u)
      /\ Todo(th)' \subseteq Todo(th)
  BY ListNames DEF Todo, ProcTodo, NextList
<1>3. \A u \in Threads : u # th => Available(u)' = Available(u)
  BY <1>2 DEF Available, IsLooper
<1>4. ThreadShape'
  BY <1>2, <1>3 DEF ThreadShape
<1>5. SpawnBounded'
  BY DEF SpawnBounded
<1>6. NoLostWakeup'
  BY DEF NoLostWakeup, WillLook
<1>7. ReturnsWhenTold'
  BY DEF ReturnsWhenTold
<1> QED
  BY <1>1, <1>4, <1>5, <1>6, <1>7

LEMMA ThreadExitPool ==
  ASSUME PoolInv, NEW th \in Threads, ThreadExit(th)
  PROVE  PoolInv'
<1> USE DEF PoolInv, PoolTypeOK, poolVars, ThreadExit, ThreadRelease
<1>1. PoolTypeOK'
  BY DEF ThreadStates, OffThread
<1>2. /\ \A u \in Threads : u # th => Todo(u)' = Todo(u)
      /\ Todo(th)' = {} /\ ProcTodo' = ProcTodo
  BY ListNames DEF Todo, ProcTodo
<1>3. \A u \in Threads : u # th => Available(u)' = Available(u) /\ HasWork(u)' = HasWork(u)
  BY <1>2 DEF Available, IsLooper, HasWork
<1>4. ThreadShape'
  BY <1>2, <1>3 DEF ThreadShape
<1>5. SpawnBounded'
  BY DEF SpawnBounded
<1>6. NoLostWakeup'
  BY <1>2, <1>3 DEF NoLostWakeup, WillLook
<1>7. ReturnsWhenTold'
  BY DEF ReturnsWhenTold
<1> QED
  BY <1>1, <1>4, <1>5, <1>6, <1>7

LEMMA ReleaseWorkPool ==
  ASSUME PoolInv, NEW d \in Deaths, ReleaseWork(d)
  PROVE  PoolInv'
<1>1. UNCHANGED <<threadVars, waiting, poolVars, flush>>
  BY DEF ReleaseWork
<1>2. PICK x \in {"off", "freed"} : place' = [place EXCEPT ![d] = x]
  BY DEF ReleaseWork, Free
<1>3. x \in OffThread /\ x \notin Threads /\ x # "proc" /\ place[d] \notin Threads
  BY ListNames DEF OffThread, ReleaseWork
<1>4. /\ place' \in [Work -> OffThread \cup Threads] /\ TodoKept
      /\ ProcTodo = {} => ProcTodo' = {}
  BY <1>2, <1>3, MoveKeeps DEF Deaths
<1> QED
  BY <1>1, <1>4, QuietKeeps DEF ThreadsKept, threadVars

-----------------------------------------------------------------------------
(* The notifications. *)

LEMMA QuietDeaths ==
  ASSUME DeathInv, UNCHANGED <<place, deathVars, userVars, phase>>
  PROVE  DeathInv'
BY DEF DeathInv, DeathTypeOK, DeathShape, AliveIsQuiet, DeathsAccounted,
       ClearIsAnswered, OnList, deathVars, userVars

LEMMA GetRefDeaths ==
  ASSUME DeathInv, NEW n \in Nodes, GetRef(n)
  PROVE  DeathInv'
BY DEF DeathInv, DeathTypeOK, DeathShape, AliveIsQuiet, DeathsAccounted,
       ClearIsAnswered, OnList, userVars, GetRef

LEMMA CleanupRefDeaths ==
  ASSUME DeathInv, PoolTypeOK, NEW n \in Nodes, CleanupRef(n)
  PROVE  DeathInv'
<1> USE ListNames DEF DeathTypeOK
<1>1. CASE death[n] = None
  <2>1. /\ UNCHANGED <<place, type, cookie, told, alive, cleared, acked, phase>>
        /\ \A m \in Nodes : death'[m] = death[m] /\ (m # n => ref'[m] = ref[m])
    BY <1>1 DEF CleanupRef, DeathInv
  <2>2. DeathTypeOK'
    BY <1>1 DEF CleanupRef, DeathInv
  <2> QED
    BY <1>1, <2>1, <2>2 DEF DeathInv, DeathShape, AliveIsQuiet, DeathsAccounted,
       ClearIsAnswered, OnList
<1>2. CASE death[n] # None
  <2> DEFINE d == death[n]
  <2>1. /\ d = death[n] /\ d \in Deaths /\ d # None /\ d \notin cleared
        /\ place[d] \in {"off", "proc", "delivered"}
        /\ \A m \in Nodes : m # n => death[m] # d
    BY <1>2, DeathOfRef DEF DeathInv, DeathsAccounted
  <2>2. /\ UNCHANGED <<alive, cleared, acked, phase>> /\ told' = told \ {d}
        /\ place'[d] = "freed" /\ type'[d] = "none"
        /\ \A w \in Deaths : w # d => place'[w] = place[w] /\ type'[w] = type[w]
        /\ death'[n] = None
        /\ \A m \in Nodes : m # n => death'[m] = death[m] /\ ref'[m] = ref[m]
    BY <1>2, <2>1 DEF CleanupRef, Free, DeathInv, PoolTypeOK, Deaths
  <2>5. DeathTypeOK'
    BY <1>2, <2>1 DEF CleanupRef, Free, DeathInv, Types
  <2> HIDE DEF d
  <2>6. DeathShape'
    BY <2>1, <2>2 DEF DeathInv, DeathShape
  <2>7. AliveIsQuiet'
    BY <2>1, <2>2 DEF DeathInv, AliveIsQuiet
  <2>8. DeathsAccounted'
    <3>1. Owned'
      BY <2>1, <2>2, AccountedParts, DeathAssumption DEF DeathInv, Owned
    <3>2. Placed'
      BY <2>1, <2>2, AccountedParts, DeathAssumption DEF DeathInv, Placed
    <3>3. ListedCleared'
      BY <2>1, <2>2, AccountedParts, DeathAssumption DEF DeathInv, Owned, ListedCleared, OnList
    <3>4. ListedOwned'
      BY <2>1, <2>2, AccountedParts, DeathAssumption DEF DeathInv, ListedOwned, OnList, Placed
    <3>5. NoneLeft'
      BY <2>1, <2>2, AccountedParts, DeathAssumption DEF DeathInv, NoneLeft
    <3> QED
      BY <3>1, <3>2, <3>3, <3>4, <3>5 DEF DeathsAccounted, Owned, Placed,
       ListedCleared, ListedOwned, NoneLeft
  <2>9. ClearIsAnswered'
    BY <2>1, <2>2 DEF DeathInv, ClearIsAnswered, OnList
  <2> QED
    BY <2>5, <2>6, <2>7, <2>8, <2>9 DEF DeathInv
<1> QED
  BY <1>1, <1>2

LEMMA NodeReleaseDeaths ==
  ASSUME DeathInv, PoolTypeOK, NEW n \in Nodes, NodeRelease(n)
  PROVE  DeathInv'
<1> USE ListNames DEF DeathTypeOK
<1>1. CASE death[n] = None
  <2>1. /\ UNCHANGED <<place, type, cookie, ref, death, userVars, phase>>
        /\ \A m \in Nodes : m # n => alive'[m] = alive[m]
    BY <1>1 DEF NodeRelease, DeathInv
  <2>2. DeathTypeOK'
    BY <1>1 DEF NodeRelease, DeathInv, userVars
  <2> QED
    BY <1>1, <2>1, <2>2 DEF DeathInv, DeathShape, AliveIsQuiet, DeathsAccounted,
       ClearIsAnswered, OnList, userVars
<1>2. CASE death[n] # None
  <2> DEFINE d == death[n]
  <2>1. /\ d = death[n] /\ d \in Deaths /\ d # None /\ d \notin cleared /\ d \notin told
        /\ place[d] = "off" /\ type[d] = "none"
        /\ \A m \in Nodes : m # n => death[m] # d
    <3>1. alive[n]
      BY DEF NodeRelease
    <3>2. d \in Deaths /\ d \notin cleared /\ place[d] = "off"
      BY <1>2, <3>1, DeathOfRef
    <3>3. type[d] = "none" /\ \A m \in Nodes : m # n => death[m] # d
      BY <1>2, <3>1 DEF DeathInv, DeathsAccounted, AliveIsQuiet
    <3>4. d \notin told
      BY <3>2, <3>3 DEF DeathInv, DeathShape
    <3> QED BY <1>2, <3>2, <3>3, <3>4
  <2>2. /\ UNCHANGED <<ref, death, told, cleared, acked, phase>>
        /\ place'[d] = "proc" /\ type'[d] = "DEAD_BINDER"
        /\ \A w \in Deaths : w # d => place'[w] = place[w] /\ type'[w] = type[w]
        /\ ~alive'[n]
        /\ \A m \in Nodes : m # n => alive'[m] = alive[m]
    BY <1>2, <2>1 DEF NodeRelease, Queued, DeathInv, PoolTypeOK, Deaths, userVars
  <2>5. DeathTypeOK'
    BY <1>2, <2>1 DEF NodeRelease, DeathInv, Types, userVars
  <2> HIDE DEF d
  <2>6. DeathShape'
    BY <2>1, <2>2 DEF DeathInv, DeathShape
  <2>7. AliveIsQuiet'
    BY <2>1, <2>2 DEF DeathInv, AliveIsQuiet
  <2>8. DeathsAccounted'
    BY <2>1, <2>2 DEF DeathInv, DeathsAccounted, OnList
  <2>9. ClearIsAnswered'
    BY <2>1, <2>2 DEF DeathInv, ClearIsAnswered, OnList
  <2> QED
    BY <2>5, <2>6, <2>7, <2>8, <2>9 DEF DeathInv
<1> QED
  BY <1>1, <1>2

LEMMA RequestDeathDeaths ==
  ASSUME DeathInv, PoolTypeOK, NEW th \in Threads, NEW n \in Nodes, NEW d \in Deaths,
         NEW c \in Cookies, RequestDeath(th, n, d, c), phase = "open"
  PROVE  DeathInv'
<1> USE ListNames DEF DeathTypeOK
<1>1. /\ d # None /\ place[d] = "unused" /\ type[d] = "none"
      /\ d \notin told /\ d \notin cleared /\ d \notin acked
      /\ ref[n] /\ death[n] = None /\ phase = "open"
      /\ \A m \in Nodes : death[m] # d
  <2>1. place[d] = "unused" /\ ref[n] /\ death[n] = None /\ d # None /\ phase = "open"
    BY DeathAssumption DEF RequestDeath, Deaths
  <2>2. type[d] = "none" /\ d \notin told \cup cleared \cup acked
    BY <2>1 DEF DeathInv, DeathShape
  <2>3. \A m \in Nodes : death[m] # d
    BY <2>1 DEF DeathInv, DeathsAccounted
  <2> QED BY <2>1, <2>2, <2>3
<1>2. /\ UNCHANGED <<ref, alive, told, cleared, acked, phase>>
      /\ place'[d] = IF alive[n] THEN "off" ELSE "proc"
      /\ type'[d] = IF alive[n] THEN "none" ELSE "DEAD_BINDER"
      /\ \A w \in Deaths : w # d => place'[w] = place[w] /\ type'[w] = type[w]
      /\ death'[n] = d
      /\ \A m \in Nodes : m # n => death'[m] = death[m]
  BY <1>1 DEF RequestDeath, DeathInv, PoolTypeOK, Deaths, userVars
<1>5. DeathTypeOK'
  BY DEF RequestDeath, DeathInv, Types, userVars
<1>6. DeathShape'
  BY <1>1, <1>2 DEF DeathInv, DeathShape
<1>7. AliveIsQuiet'
  BY <1>1, <1>2 DEF DeathInv, AliveIsQuiet
<1>8. DeathsAccounted'
  <2>1. Owned'
    BY <1>1, <1>2, AccountedParts, DeathAssumption DEF DeathInv, Owned
  <2>2. Placed'
    BY <1>1, <1>2, AccountedParts, DeathAssumption DEF DeathInv, Placed
  <2>3. ListedCleared'
    BY <1>1, <1>2, AccountedParts, DeathAssumption DEF DeathInv, Owned, ListedCleared, OnList
  <2>4. ListedOwned'
    BY <1>1, <1>2, AccountedParts, DeathAssumption DEF DeathInv, ListedOwned, OnList, Placed
  <2>5. NoneLeft'
    BY <1>1, <1>2, AccountedParts, DeathAssumption DEF DeathInv, NoneLeft
  <2> QED
    BY <2>1, <2>2, <2>3, <2>4, <2>5 DEF DeathsAccounted, Owned, Placed,
       ListedCleared, ListedOwned, NoneLeft
<1>9. ClearIsAnswered'
  BY <1>1, <1>2 DEF DeathInv, ClearIsAnswered, OnList
<1> QED
  BY <1>5, <1>6, <1>7, <1>8, <1>9 DEF DeathInv

LEMMA ClearDeathDeaths ==
  ASSUME DeathInv, PoolTypeOK, NEW th \in Threads, NEW n \in Nodes,
         NEW c \in Cookies, ClearDeath(th, n, c)
  PROVE  DeathInv'
<1> USE ListNames DEF DeathTypeOK
<1> DEFINE d == death[n]
<1>1. /\ d = death[n] /\ d \in Deaths /\ d # None /\ d \notin cleared
      /\ place[d] \in {"off", "proc", "delivered"}
      /\ \A m \in Nodes : m # n => death[m] # d
  BY DeathOfRef DEF DeathInv, DeathsAccounted, ClearDeath
<1>2. /\ UNCHANGED <<ref, alive, told, acked, phase>> /\ cleared' = cleared \cup {d}
      /\ place'[d] \in (IF place[d] = "off" THEN {"proc", th} ELSE {place[d]})
      /\ type'[d] = IF place[d] = "off" THEN "CLEAR_DEATH_NOTIFICATION"
                                        ELSE "DEAD_BINDER_AND_CLEAR"
      /\ \A w \in Deaths : w # d => place'[w] = place[w] /\ type'[w] = type[w]
      /\ death'[n] = None
      /\ \A m \in Nodes : m # n => death'[m] = death[m]
  BY <1>1 DEF ClearDeath, QueueClear, DeathInv, PoolTypeOK, Deaths
<1>5. DeathTypeOK'
  BY <1>1 DEF ClearDeath, QueueClear, DeathInv, Types
<1> HIDE DEF d
<1>6. DeathShape'
  BY <1>1, <1>2 DEF DeathInv, DeathShape
<1>7. AliveIsQuiet'
  BY <1>1, <1>2 DEF DeathInv, AliveIsQuiet
<1>8. DeathsAccounted'
  <2>1. Owned'
    BY <1>1, <1>2, AccountedParts, DeathAssumption DEF DeathInv, Owned
  <2>2. Placed'
    BY <1>1, <1>2, AccountedParts, DeathAssumption DEF DeathInv, Placed
  <2>3. ListedCleared'
    BY <1>1, <1>2, AccountedParts, DeathAssumption DEF DeathInv, Owned, ListedCleared, OnList
  <2>4. ListedOwned'
    BY <1>1, <1>2, AccountedParts, DeathAssumption DEF DeathInv, ListedOwned, OnList, Placed
  <2>5. NoneLeft'
    BY <1>1, <1>2, AccountedParts, DeathAssumption DEF DeathInv, NoneLeft
  <2> QED
    BY <2>1, <2>2, <2>3, <2>4, <2>5 DEF DeathsAccounted, Owned, Placed,
       ListedCleared, ListedOwned, NoneLeft
<1>9. ClearIsAnswered'
  BY <1>1, <1>2 DEF DeathInv, ClearIsAnswered, OnList
<1> QED
  BY <1>5, <1>6, <1>7, <1>8, <1>9 DEF DeathInv

LEMMA DeadBinderDoneDeaths ==
  ASSUME DeathInv, PoolTypeOK, NEW th \in Threads, NEW d \in Deaths, DeadBinderDone(th, d)
  PROVE  DeathInv'
<1> USE ListNames DEF DeathInv, DeathTypeOK, userVars, PoolTypeOK, Deaths, DeadBinderDone, QueueClear
<1>1. DeathTypeOK'
  BY DEF Types
<1>2. DeathShape'
  BY DEF DeathShape
<1>3. AliveIsQuiet'
  BY DEF AliveIsQuiet
<1>4. DeathsAccounted'
  BY DEF DeathsAccounted, OnList, DeathShape
<1>5. ClearIsAnswered'
  BY DEF ClearIsAnswered, OnList, DeathShape
<1> QED
  BY <1>1, <1>2, <1>3, <1>4, <1>5

LEMMA TakeClearDeaths ==
  ASSUME DeathInv, PoolTypeOK, NEW th \in Threads, NEW d \in Deaths, NEW fault \in BOOLEAN,
         TakeClear(th, d, fault)
  PROVE  DeathInv'
<1> USE ListNames DEF DeathInv, DeathTypeOK, userVars, PoolTypeOK, Deaths, TakeClear, Free, NextList, Todo, ProcTodo
<1>1. DeathTypeOK'
  BY DEF Types
<1>2. DeathShape'
  BY DEF DeathShape
<1>3. AliveIsQuiet'
  BY DEF AliveIsQuiet
<1>4. DeathsAccounted'
  BY DEF DeathsAccounted, OnList, DeathShape
<1>5. ClearIsAnswered'
  BY DEF ClearIsAnswered, OnList, DeathShape
<1> QED
  BY <1>1, <1>2, <1>3, <1>4, <1>5

LEMMA TakeDeathDeaths ==
  ASSUME DeathInv, PoolTypeOK, NEW th \in Threads, NEW d \in Deaths, NEW fault \in BOOLEAN,
         TakeDeath(th, d, fault)
  PROVE  DeathInv'
<1> USE ListNames DEF DeathInv, DeathTypeOK, userVars, PoolTypeOK, Deaths, TakeDeath, deathVars, NextList, Todo, ProcTodo
<1>1. DeathTypeOK'
  BY DEF Types
<1>2. DeathShape'
  <2>1. place[d] = "proc" /\ type[d] \in {"DEAD_BINDER", "DEAD_BINDER_AND_CLEAR"}
    BY DEF DeathShape, Types
  <2>2. /\ UNCHANGED <<type, cleared, acked>> /\ told' = told \cup {d}
        /\ place'[d] = "delivered"
        /\ \A w \in Deaths : w # d => place'[w] = place[w]
    OBVIOUS
  <2> QED
    BY <2>1, <2>2 DEF DeathShape
<1>3. AliveIsQuiet'
  BY DEF AliveIsQuiet
<1>4. DeathsAccounted'
  BY DEF DeathsAccounted, OnList, DeathShape
<1>5. ClearIsAnswered'
  BY DEF ClearIsAnswered, OnList, DeathShape
<1> QED
  BY <1>1, <1>2, <1>3, <1>4, <1>5

LEMMA ThreadExitDeaths ==
  ASSUME DeathInv, PoolTypeOK, NEW th \in Threads, ThreadExit(th)
  PROVE  DeathInv'
<1> USE ListNames DEF DeathInv, DeathTypeOK, userVars, PoolTypeOK, Deaths, ThreadExit, ThreadRelease, Todo
<1>1. DeathTypeOK'
  BY DEF Types
<1>2. DeathShape'
  BY DEF DeathShape
<1>3. AliveIsQuiet'
  <2>1. \A n \in Nodes : death[n] # None =>
            death[n] \in Work /\ place[death[n]] \notin Threads
    BY DeathOfRef
  <2> QED
    BY <2>1 DEF AliveIsQuiet
<1>4. DeathsAccounted'
  BY DEF DeathsAccounted, OnList, DeathShape
<1>5. ClearIsAnswered'
  BY DEF ClearIsAnswered, OnList, DeathShape
<1> QED
  BY <1>1, <1>2, <1>3, <1>4, <1>5

LEMMA ReleaseWorkDeaths ==
  ASSUME DeathInv, PoolTypeOK, PhaseShape, NEW d \in Deaths, ReleaseWork(d)
  PROVE  DeathInv'
<1> USE ListNames DEF DeathInv, DeathTypeOK, userVars, PoolTypeOK, Deaths, ReleaseWork, Free, PhaseShape
<1>1. DeathTypeOK'
  BY DEF Types
<1>2. DeathShape'
  <2>1. type[d] # "DEAD_BINDER"
    <3>1. \A n \in Nodes : death[n] # d
      BY DeathAssumption DEF DeathsAccounted
    <3> QED
      BY <3>1 DEF DeathShape, DeathsAccounted, OnList
  <2>2. /\ UNCHANGED <<cleared, acked>> /\ told' = told \ {d}
        /\ place'[d] = "freed" /\ type'[d] = "none"
        /\ \A w \in Deaths : w # d => place'[w] = place[w] /\ type'[w] = type[w]
    BY <2>1
  <2> QED
    BY <2>1, <2>2 DEF DeathShape
<1>3. AliveIsQuiet'
  BY DEF AliveIsQuiet
<1>4. DeathsAccounted'
  BY DEF DeathsAccounted, OnList, DeathShape
<1>5. ClearIsAnswered'
  BY DEF ClearIsAnswered, OnList, DeathShape
<1> QED
  BY <1>1, <1>2, <1>3, <1>4, <1>5

-----------------------------------------------------------------------------
(* The process ends: phases. *)

LEMMA ReleaseStep == ASSUME IInv, Release PROVE IInv'
<1>1. /\ UNCHANGED <<threadVars, waiting, poolVars, flush, place, deathVars, userVars>>
      /\ phase = "open" /\ phase' = "closing"
  BY DEF Release
<1>2. PoolInv'
  BY <1>1, TwoParts, QuietKeeps DEF ThreadsKept, TodoKept, PoolInv, PoolTypeOK,
     threadVars, poolVars, Todo, ProcTodo, ThreadShape
<1>3. DeathInv'
  BY <1>1, TwoParts DEF DeathInv, DeathTypeOK, DeathShape, AliveIsQuiet, DeathsAccounted,
     ClearIsAnswered, OnList, deathVars, userVars, Phases
<1>4. PhaseShape'
  BY <1>1, TwoParts DEF Release, PhaseShape, threadVars
<1> QED
  BY <1>2, <1>3, <1>4 DEF IInv, PoolInv, DeathInv, DeathTypeOK, TypeOK

LEMMA DeferredReleaseStep == ASSUME IInv, DeferredRelease PROVE IInv'
<1>1. /\ UNCHANGED <<threadVars, waiting, poolVars, flush, place, deathVars, userVars>>
      /\ phase = "closing" /\ phase' = "threads"
  BY DEF DeferredRelease
<1>2. PoolInv'
  BY <1>1, TwoParts, QuietKeeps DEF ThreadsKept, TodoKept, PoolInv, PoolTypeOK,
     threadVars, poolVars, Todo, ProcTodo, ThreadShape
<1>3. DeathInv'
  BY <1>1, TwoParts DEF DeathInv, DeathTypeOK, DeathShape, AliveIsQuiet, DeathsAccounted,
     ClearIsAnswered, OnList, deathVars, userVars, Phases
<1>4. PhaseShape'
  BY <1>1, TwoParts DEF DeferredRelease, PhaseShape, threadVars, deathVars
<1> QED
  BY <1>2, <1>3, <1>4 DEF IInv, PoolInv, DeathInv, DeathTypeOK, TypeOK

LEMMA ThreadsReleasedStep == ASSUME IInv, ThreadsReleased PROVE IInv'
<1>1. /\ UNCHANGED <<threadVars, waiting, poolVars, flush, place, deathVars, userVars>>
      /\ phase = "threads" /\ phase' = "refs"
  BY DEF ThreadsReleased
<1>2. PoolInv'
  BY <1>1, TwoParts, QuietKeeps DEF ThreadsKept, TodoKept, PoolInv, PoolTypeOK,
     threadVars, poolVars, Todo, ProcTodo, ThreadShape
<1>3. DeathInv'
  BY <1>1, TwoParts DEF DeathInv, DeathTypeOK, DeathShape, AliveIsQuiet, DeathsAccounted,
     ClearIsAnswered, OnList, deathVars, userVars, Phases
<1>4. PhaseShape'
  BY <1>1, TwoParts DEF ThreadsReleased, PhaseShape, threadVars, deathVars
<1> QED
  BY <1>2, <1>3, <1>4 DEF IInv, PoolInv, DeathInv, DeathTypeOK, TypeOK

LEMMA RefsReleasedStep == ASSUME IInv, RefsReleased PROVE IInv'
<1>1. /\ UNCHANGED <<threadVars, waiting, poolVars, flush, place, deathVars, userVars>>
      /\ phase = "refs" /\ phase' = "work"
  BY DEF RefsReleased
<1>2. PoolInv'
  BY <1>1, TwoParts, QuietKeeps DEF ThreadsKept, TodoKept, PoolInv, PoolTypeOK,
     threadVars, poolVars, Todo, ProcTodo, ThreadShape
<1>3. DeathInv'
  BY <1>1, TwoParts DEF DeathInv, DeathTypeOK, DeathShape, AliveIsQuiet, DeathsAccounted,
     ClearIsAnswered, OnList, deathVars, userVars, Phases
<1>4. PhaseShape'
  BY <1>1, TwoParts DEF RefsReleased, PhaseShape, threadVars, deathVars
<1> QED
  BY <1>2, <1>3, <1>4 DEF IInv, PoolInv, DeathInv, DeathTypeOK, TypeOK

LEMMA FreeProcStep == ASSUME IInv, FreeProc PROVE IInv'
<1>1. /\ UNCHANGED <<threadVars, waiting, poolVars, flush, place, deathVars, userVars>>
      /\ phase = "work" /\ phase' = "freed"
  BY DEF FreeProc
<1>2. PoolInv'
  BY <1>1, TwoParts, QuietKeeps DEF ThreadsKept, TodoKept, PoolInv, PoolTypeOK,
     threadVars, poolVars, Todo, ProcTodo, ThreadShape
<1>3. DeathInv'
  <2>1. \A d \in Deaths : place[d] \notin Threads /\ place[d] \notin {"off", "corrupt", "proc", "delivered"}
    <3>1. \A n \in Nodes : death[n] \notin Deaths
      BY <1>1, TwoParts, DeathAssumption DEF PhaseShape, DeathInv, DeathsAccounted
    <3>2. \A d \in Deaths : place[d] \notin Threads
      BY <1>1, TwoParts DEF PhaseShape, PoolInv, ThreadShape, Todo, Deaths
    <3>3. \A d \in Deaths : place[d] \notin {"off", "corrupt"}
      BY <3>1, TwoParts DEF DeathInv, DeathsAccounted
    <3> QED
      BY <3>2, <3>3 DEF FreeProc
  <2>2. \A d \in Deaths : place[d] \in {"unused", "freed", "dropped"}
    BY <2>1, TwoParts DEF PoolInv, PoolTypeOK, OffThread, Deaths
  <2> QED
    BY <1>1, <2>2, TwoParts DEF DeathInv, DeathTypeOK, DeathShape, AliveIsQuiet, DeathsAccounted,
       ClearIsAnswered, OnList, deathVars, userVars, Phases
<1>4. PhaseShape'
  BY <1>1, TwoParts DEF FreeProc, PhaseShape, threadVars, deathVars
<1> QED
  BY <1>2, <1>3, <1>4 DEF IInv, PoolInv, DeathInv, DeathTypeOK, TypeOK

LEMMA AllParts ==
  ASSUME PoolInv', DeathInv', PhaseShape'
  PROVE  IInv'
BY DEF IInv, PoolInv, DeathInv, DeathTypeOK, TypeOK

-----------------------------------------------------------------------------
(* Every step. *)

LEMMA PoolStepStep == ASSUME IInv, NEW th \in Threads, PoolStep(th) PROVE IInv'
<1>1. PoolInv /\ DeathInv /\ PhaseShape
  BY TwoParts
<1>2. UNCHANGED <<deathVars, userVars, phase>> /\ phase = "open"
  BY DEF PoolStep
<1>3. PoolInv' /\ UNCHANGED place
  <2>1. CASE GetThread(th)
    BY <1>1, <2>1, GetThreadKeeps DEF GetThread
  <2>2. CASE IoctlEnd(th)
    BY <1>1, <2>2, IoctlEndKeeps DEF IoctlEnd
  <2>3. CASE RegisterLooper(th)
    BY <1>1, <2>3, RegisterLooperKeeps DEF RegisterLooper
  <2>4. CASE EnterLooper(th)
    BY <1>1, <2>4, EnterLooperKeeps DEF EnterLooper
  <2>5. CASE ReadBegin(th)
    BY <1>1, <2>5, ReadBeginKeeps DEF ReadBegin
  <2>6. CASE WaitForWork(th)
    BY <1>1, <2>6, WaitForWorkKeeps DEF WaitForWork
  <2>7. CASE WouldBlock(th)
    BY <1>1, <2>7, WouldBlockKeeps DEF WouldBlock
  <2>8. CASE Wake(th)
    BY <1>1, <2>8, WakeKeeps DEF Wake
  <2>9. CASE Interrupted(th)
    BY <1>1, <2>9, InterruptedKeeps DEF Interrupted
  <2>10. CASE NothingLeft(th)
    BY <1>1, <2>10, NothingLeftKeeps DEF NothingLeft
  <2>11. CASE ShortBuffer(th)
    BY <1>1, <2>11, ShortBufferKeeps DEF ShortBuffer
  <2>12. CASE SpawnLooper(th)
    BY <1>1, <2>12, SpawnLooperKeeps DEF SpawnLooper
  <2>13. CASE ReadExit(th)
    BY <1>1, <2>13, ReadExitKeeps DEF ReadExit
  <2>14. CASE PollBegin(th)
    BY <1>1, <2>14, PollBeginKeeps DEF PollBegin
  <2>15. CASE PollCheck(th)
    BY <1>1, <2>15, PollCheckKeeps DEF PollCheck
  <2>16. CASE PollTimeout(th)
    BY <1>1, <2>16, PollTimeoutKeeps DEF PollTimeout
  <2>17. ASSUME NEW n \in Limits, SetMaxThreads(th, n) PROVE PoolInv' /\ UNCHANGED place
    BY <1>1, <2>17, SetMaxThreadsKeeps DEF SetMaxThreads
  <2>18. CASE Flush
    BY <1>1, <2>18, FlushKeeps DEF Flush
  <2> QED
    BY <2>1, <2>2, <2>3, <2>4, <2>5, <2>6, <2>7, <2>8, <2>9, <2>10, <2>11, <2>12, <2>13, <2>14, <2>15, <2>16, <2>17, <2>18 DEF PoolStep
<1>4. DeathInv'
  BY <1>1, <1>2, <1>3, QuietDeaths
<1>5. PhaseShape'
  BY <1>2 DEF PhaseShape
<1> QED
  BY <1>3, <1>4, <1>5, AllParts

LEMMA DeferredFlushStep ==
  ASSUME IInv, DeferredFlush, UNCHANGED <<deathVars, userVars, phase>>
  PROVE  IInv'
<1>1. PoolInv /\ DeathInv /\ PhaseShape
  BY TwoParts
<1>2. PoolInv' /\ UNCHANGED <<place, pc>>
  BY <1>1, DeferredFlushKeeps DEF DeferredFlush
<1>3. DeathInv'
  BY <1>1, <1>2, QuietDeaths
<1>4. PhaseShape'
  BY <1>1, <1>2 DEF PhaseShape, deathVars
<1> QED
  BY <1>2, <1>3, <1>4, AllParts

LEMMA CommandStep == ASSUME IInv, NEW th \in Threads, Command(th) PROVE IInv'
<1>1. PoolInv /\ DeathInv /\ PhaseShape /\ PoolTypeOK
  BY TwoParts DEF PoolInv
<1>2. phase = "open"
  BY DEF Command
<1>3. ASSUME NEW n \in Nodes, DropRef(th, n) PROVE IInv'
  <2>1. CleanupRef(n) /\ phase' = "open"
    BY <1>2, <1>3 DEF DropRef, CleanupRef
  <2>2. PhaseShape'
    BY <2>1 DEF PhaseShape
  <2> QED
    BY <1>1, <2>1, <2>2, CleanupRefPool, CleanupRefDeaths, AllParts
<1>4. ASSUME NEW n \in Nodes, NEW d \in Deaths, NEW c \in Cookies,
             RequestDeath(th, n, d, c)
      PROVE  IInv'
  <2>1. PhaseShape'
    BY <1>2, <1>4 DEF PhaseShape, RequestDeath
  <2> QED
    BY <1>1, <1>2, <1>4, <2>1, RequestDeathPool, RequestDeathDeaths, AllParts
<1>5. ASSUME NEW n \in Nodes, NEW c \in Cookies, ClearDeath(th, n, c) PROVE IInv'
  <2>1. PhaseShape'
    BY <1>2, <1>5 DEF PhaseShape, ClearDeath
  <2> QED
    BY <1>1, <1>5, <2>1, ClearDeathPool, ClearDeathDeaths, AllParts
<1>6. ASSUME NEW d \in Deaths, DeadBinderDone(th, d) PROVE IInv'
  <2>1. PhaseShape'
    BY <1>2, <1>6 DEF PhaseShape, DeadBinderDone
  <2> QED
    BY <1>1, <1>6, <2>1, DeadBinderDonePool, DeadBinderDoneDeaths, AllParts
<1> QED
  BY <1>3, <1>4, <1>5, <1>6 DEF Command

LEMMA TakeStep ==
  ASSUME IInv, NEW th \in Threads, NEW d \in Deaths, NEW fault \in BOOLEAN,
         TakeClear(th, d, fault) \/ TakeDeath(th, d, fault)
  PROVE  IInv'
<1>1. PoolInv /\ DeathInv /\ PhaseShape /\ PoolTypeOK
  BY TwoParts DEF PoolInv
<1>2. pc[th] = "loop" /\ phase' = phase
  BY DEF TakeClear, TakeDeath
<1>3. phase = "open"
  BY <1>1, <1>2 DEF PhaseShape
<1>4. PhaseShape'
  BY <1>2, <1>3 DEF PhaseShape
<1>5. CASE TakeClear(th, d, fault)
  <2>1. PICK s \in {"loop", "done", "exit"} : pc' = [pc EXCEPT ![th] = s]
    BY <1>5 DEF TakeClear
  <2>2. PoolInv'
    BY <1>1, <1>5, <2>1, TakePool DEF TakeClear, Free
  <2> QED
    BY <1>1, <1>4, <1>5, <2>2, TakeClearDeaths, AllParts
<1>6. CASE TakeDeath(th, d, fault)
  <2>1. PICK s \in {"loop", "done", "exit"} : pc' = [pc EXCEPT ![th] = s]
    BY <1>6 DEF TakeDeath
  <2>2. PoolInv'
    BY <1>1, <1>6, <2>1, TakePool DEF TakeDeath
  <2> QED
    BY <1>1, <1>4, <1>6, <2>2, TakeDeathDeaths, AllParts
<1> QED
  BY <1>5, <1>6

LEMMA ThreadExitStep == ASSUME IInv, NEW th \in Threads, ThreadExit(th) PROVE IInv'
<1>1. PoolInv /\ DeathInv /\ PhaseShape /\ PoolTypeOK
  BY TwoParts DEF PoolInv
<1>2. PhaseShape'
  BY <1>1 DEF PhaseShape, ThreadExit, ThreadRelease, PoolTypeOK
<1> QED
  BY <1>1, <1>2, ThreadExitPool, ThreadExitDeaths, AllParts

LEMMA NodeStep ==
  ASSUME IInv, NEW n \in Nodes, GetRef(n) \/ NodeRelease(n) \/ ReleaseRef(n)
  PROVE  IInv'
<1>1. PoolInv /\ DeathInv /\ PhaseShape /\ PoolTypeOK
  BY TwoParts DEF PoolInv
<1>2. CASE GetRef(n)
  <2>1. PhaseShape'
    BY <1>2 DEF PhaseShape, GetRef
  <2> QED
    BY <1>1, <1>2, <2>1, GetRefPool, GetRefDeaths, AllParts
<1>3. CASE NodeRelease(n)
  <2>1. UNCHANGED <<pc, ref, phase>>
    BY <1>3 DEF NodeRelease
  <2>2. phase = "freed" => death[n] = None
    BY <1>1, DeathOfRef DEF PhaseShape
  <2>3. phase = "freed" => place' = place
    BY <1>3, <2>2 DEF NodeRelease
  <2>4. PhaseShape'
    BY <1>1, <2>1, <2>3 DEF PhaseShape
  <2> QED
    BY <1>1, <1>3, <2>4, NodeReleasePool, NodeReleaseDeaths, AllParts
<1>4. CASE ReleaseRef(n)
  <2>1. CleanupRef(n) /\ phase = "refs" /\ UNCHANGED <<pc, phase>>
    BY <1>4 DEF ReleaseRef, CleanupRef, threadVars
  <2>2. PhaseShape'
    BY <1>1, <2>1 DEF PhaseShape
  <2> QED
    BY <1>1, <2>1, <2>2, CleanupRefPool, CleanupRefDeaths, AllParts
<1> QED
  BY <1>2, <1>3, <1>4

LEMMA ReleaseWorkStep == ASSUME IInv, NEW d \in Deaths, ReleaseWork(d) PROVE IInv'
<1>1. PoolInv /\ DeathInv /\ PhaseShape /\ PoolTypeOK
  BY TwoParts DEF PoolInv
<1>2. PhaseShape'
  BY <1>1 DEF PhaseShape, ReleaseWork, threadVars
<1> QED
  BY <1>1, <1>2, ReleaseWorkPool, ReleaseWorkDeaths, AllParts

LEMMA InitIInv == Init => IInv
<1> SUFFICES ASSUME Init PROVE IInv
  OBVIOUS
<1> USE DEF Init, PoolInit
<1>1. TypeOK
  BY PoolAssumption, DeathAssumption DEF TypeOK, PoolTypeOK, ThreadStates, Flags, OffThread,
     Types, Phases, Deaths
<1>2. ThreadShape /\ NoLostWakeup /\ ReturnsWhenTold
  BY ListNames DEF ThreadShape, NoLostWakeup, ReturnsWhenTold, Todo, ProcTodo
<1>3. SpawnBounded
  <2>1. 0 \in Limits \cup {0} /\ 0 + 0 <= 0
    OBVIOUS
  <2> QED BY SMTT(30), <2>1 DEF SpawnBounded
<1>4. DeathShape /\ AliveIsQuiet /\ PhaseShape /\ DeathsAccounted /\ ClearIsAnswered
  BY ListNames DEF DeathShape, AliveIsQuiet, PhaseShape, DeathsAccounted, ClearIsAnswered,
     OnList, Deaths
<1> QED
  BY <1>1, <1>2, <1>3, <1>4 DEF IInv

LEMMA NextIInv == ASSUME IInv, [Next]_vars PROVE IInv'
<1>1. CASE UNCHANGED vars
  <2>1. UNCHANGED <<threadVars, waiting, poolVars, flush, place, deathVars, userVars, phase>>
    BY <1>1 DEF vars
  <2>2. PoolInv'
    BY <2>1, TwoParts, QuietKeeps DEF ThreadsKept, TodoKept, PoolInv, PoolTypeOK,
       threadVars, poolVars, Todo, ProcTodo, ThreadShape
  <2>3. DeathInv'
    BY <2>1, TwoParts, QuietDeaths
  <2>4. PhaseShape'
    BY <2>1, TwoParts DEF PhaseShape, threadVars, deathVars
  <2> QED
    BY <2>2, <2>3, <2>4, AllParts
<1>2. CASE Next
  <2>1. ASSUME NEW th \in Threads, PoolStep(th) PROVE IInv'
    BY <2>1, PoolStepStep
  <2>2. ASSUME NEW th \in Threads, Command(th) PROVE IInv'
    BY <2>2, CommandStep
  <2>3. ASSUME NEW th \in Threads, NEW d \in Deaths, NEW fault \in BOOLEAN,
               TakeClear(th, d, fault) \/ TakeDeath(th, d, fault)
        PROVE  IInv'
    BY <2>3, TakeStep
  <2>4. ASSUME NEW th \in Threads, ThreadExit(th) PROVE IInv'
    BY <2>4, ThreadExitStep
  <2>5. ASSUME NEW n \in Nodes, GetRef(n) \/ NodeRelease(n) \/ ReleaseRef(n) PROVE IInv'
    BY <2>5, NodeStep
  <2>6. ASSUME NEW d \in Deaths, ReleaseWork(d) PROVE IInv'
    BY <2>6, ReleaseWorkStep
  <2>7. CASE DeferredFlush /\ UNCHANGED <<deathVars, userVars, phase>>
    BY <2>7, DeferredFlushStep
  <2>8. CASE Release \/ DeferredRelease \/ ThreadsReleased \/ RefsReleased \/ FreeProc
    BY <2>8, ReleaseStep, DeferredReleaseStep, ThreadsReleasedStep, RefsReleasedStep,
       FreeProcStep
  <2> QED
    BY <1>2, <2>1, <2>2, <2>3, <2>4, <2>5, <2>6, <2>7, <2>8 DEF Next
<1> QED
  BY <1>1, <1>2

-----------------------------------------------------------------------------
(* The theorems. *)

\* The inductive invariant holds in every reachable state.
THEOREM Invariance == Spec => []IInv
<1>1. IInv /\ [Next]_vars => IInv'
  BY NextIInv
<1> QED
  BY InitIInv, <1>1, PTL DEF Spec

\* binder_wakeup_proc_ilocked and the wake-up after a read: work of the process
\* is never left to sleepers.
THEOREM WakeupsKept == Spec => []NoLostWakeup
<1>1. IInv => NoLostWakeup
  BY DEF IInv
<1> QED
  BY Invariance, <1>1, PTL

\* binder_deferred_flush: a thread that was told to return does not sleep on in a
\* read.
THEOREM ReturnsHold == Spec => []ReturnsWhenTold
<1>1. IInv => ReturnsWhenTold
  BY DEF IInv
<1> QED
  BY Invariance, <1>1, PTL

\* BR_SPAWN_LOOPER: at most one looper is asked for at a time, and never more are
\* asked for and started than the highest limit.
THEOREM SpawnsBounded == Spec => []SpawnBounded
<1>1. IInv => SpawnBounded
  BY DEF IInv
<1> QED
  BY Invariance, <1>1, PTL

\* Every notification in memory is reached in exactly one way, and none is left
\* when the process is freed.
THEOREM DeathsHeld == Spec => []DeathsAccounted
<1>1. IInv => DeathsAccounted
  BY DEF IInv
<1> QED
  BY Invariance, <1>1, PTL

\* BC_CLEAR_DEATH_NOTIFICATION, once accepted, is answered.
THEOREM ClearsAnswered == Spec => []ClearIsAnswered
<1>1. IInv => ClearIsAnswered
  BY DEF IInv
<1> QED
  BY Invariance, <1>1, PTL

\* A request for a death notification and the death of the node never miss each
\* other.
THEOREM DeathsTold == Spec => []NoDeathMissed
<1>1. IInv => NoDeathMissed
  <2> SUFFICES ASSUME IInv, NEW n \in Nodes, ~alive[n], death[n] # None
               PROVE  \/ place[death[n]] = "proc" /\ type[death[n]] = "DEAD_BINDER"
                      \/ death[n] \in told
    BY DEF NoDeathMissed
  <2>1. /\ death[n] \in Deaths /\ type[death[n]] = "DEAD_BINDER"
        /\ place[death[n]] \in {"off", "proc", "delivered"}
    BY DEF IInv, TypeOK, AliveIsQuiet, DeathsAccounted
  <2> QED
    BY <2>1 DEF IInv, DeathShape
<1> QED
  BY Invariance, <1>1, PTL

\* BR_DEAD_BINDER is read once for a notification.
THEOREM DeathsToldOnce == Spec => []ToldOnce
<1>1. IInv => ToldOnce
  BY DEF IInv, DeathShape, ToldOnce
<1> QED
  BY Invariance, <1>1, PTL
====
