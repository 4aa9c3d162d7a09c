------------------------- MODULE BinderOnewayProofs -------------------------
(***************************************************************************)
(* Theorems about BinderOneway, for every number of nodes, threads,        *)
(* transactions and buffers.  The work is in the inductive invariant       *)
(* IInv: where each transaction is, and who holds its buffer and its gate. *)
(*                                                                         *)
(* Relative to it: no wakeup is lost, every closed gate has a transaction  *)
(* behind it, the async space adds up, and the process is freed exactly    *)
(* when its last user has gone.  At the end, that the driver implements    *)
(* OnewayQueue: a step of it accepts a call, starts one, gives one back,   *)
(* ends the process, or leaves the queue as it is.                         *)
(***************************************************************************)
EXTENDS BinderOneway, SequenceTheorems, FiniteSetTheorems, TLAPS

-----------------------------------------------------------------------------
(* Lists: what append, removing the head, and removing an element keep. *)

LEMMA AppendElements ==
  ASSUME NEW S, NEW s \in Seq(S), NEW e \in S
  PROVE  /\ Append(s, e) \in Seq(S)
         /\ ToSet(Append(s, e)) = ToSet(s) \union {e}
         /\ IsInjective(s) /\ e \notin ToSet(s) => IsInjective(Append(s, e))
<1>1. /\ Append(s, e) \in Seq(S)
      /\ Len(Append(s, e)) = Len(s) + 1
      /\ \A i \in 1 .. Len(s) : Append(s, e)[i] = s[i]
      /\ Append(s, e)[Len(s) + 1] = e
  BY AppendProperties
<1>2. /\ DOMAIN s = 1 .. Len(s) /\ Len(s) \in Nat
      /\ DOMAIN Append(s, e) = 1 .. Len(s) + 1
  BY <1>1, LenProperties
<1> QED
  BY <1>1, <1>2 DEF ToSet, IsInjective

LEMMA TailElements ==
  ASSUME NEW S, NEW s \in Seq(S), s # <<>>
  PROVE  /\ Head(s) \in S /\ Head(s) \in ToSet(s)
         /\ Tail(s) \in Seq(S)
         /\ ToSet(Tail(s)) \subseteq ToSet(s)
         /\ IsInjective(s) =>
              IsInjective(Tail(s)) /\ Head(s) \notin ToSet(Tail(s))
<1>1. /\ Head(s) \in S /\ Tail(s) \in Seq(S)
      /\ Len(Tail(s)) = Len(s) - 1
      /\ \A i \in 1 .. Len(Tail(s)) : Tail(s)[i] = s[i + 1]
  BY HeadTailProperties
<1>2. /\ DOMAIN s = 1 .. Len(s) /\ Len(s) \in Nat /\ Len(s) > 0
      /\ DOMAIN Tail(s) = 1 .. Len(s) - 1
  BY <1>1, LenProperties, EmptySeq
<1>3. Head(s) = s[1]
  OBVIOUS
<1> QED
  BY <1>1, <1>2, <1>3 DEF ToSet, IsInjective

LEMMA RemoveAtElements ==
  ASSUME NEW S, NEW s \in Seq(S), NEW i \in DOMAIN s
  PROVE  /\ RemoveAt(s, i) \in Seq(S)
         /\ ToSet(RemoveAt(s, i)) \subseteq ToSet(s)
         /\ IsInjective(s) =>
              IsInjective(RemoveAt(s, i)) /\ s[i] \notin ToSet(RemoveAt(s, i))
<1> DEFINE a == SubSeq(s, 1, i - 1)
           b == SubSeq(s, i + 1, Len(s))
<1>1. DOMAIN s = 1 .. Len(s) /\ Len(s) \in Nat /\ \A j \in DOMAIN s : s[j] \in S
  BY LenProperties, ElementOfSeq
<1>2. /\ a \in Seq(S) /\ Len(a) = i - 1
      /\ \A j \in 1 .. i - 1 : a[j] = s[j]
  <2>1. 1 \in Int /\ i - 1 \in Int /\ \A j \in 1 .. i - 1 : s[j] \in S
    BY <1>1
  <2>2. /\ a \in Seq(S) /\ Len(a) = IF 1 <= i - 1 THEN i - 1 - 1 + 1 ELSE 0
        /\ \A j \in 1 .. i - 1 - 1 + 1 : a[j] = s[1 + j - 1]
    BY <2>1, SubSeqProperties
  <2> QED BY <1>1, <2>2
<1>3. /\ b \in Seq(S) /\ Len(b) = Len(s) - i
      /\ \A j \in 1 .. Len(s) - i : b[j] = s[i + j]
  <2>1. i + 1 \in Int /\ Len(s) \in Int /\ \A j \in i + 1 .. Len(s) : s[j] \in S
    BY <1>1
  <2>2. /\ b \in Seq(S)
        /\ Len(b) = IF i + 1 <= Len(s) THEN Len(s) - (i + 1) + 1 ELSE 0
        /\ \A j \in 1 .. Len(s) - (i + 1) + 1 : b[j] = s[i + 1 + j - 1]
    BY <2>1, SubSeqProperties
  <2> QED BY <1>1, <2>2
<1>4. RemoveAt(s, i) = a \o b
  BY DEF RemoveAt
<1>5. /\ a \o b \in Seq(S) /\ Len(a \o b) = Len(a) + Len(b)
      /\ \A j \in 1 .. Len(a) + Len(b) :
           (a \o b)[j] = IF j <= Len(a) THEN a[j] ELSE b[j - Len(a)]
  <2>1. a \in Seq(S) /\ b \in Seq(S)
    BY <1>2, <1>3
  <2> HIDE DEF a, b
  <2> QED BY <2>1, ConcatProperties, Zenon
<1> DEFINE c == RemoveAt(s, i)
<1>6. c \in Seq(S) /\ Len(c) = Len(s) - 1
  <2> HIDE DEF a, b, c
  <2>1. c \in Seq(S) /\ Len(c) = Len(a) + Len(b)
    BY <1>4, <1>5, Zenon DEF c
  <2>2. Len(a) + Len(b) = Len(s) - 1
    BY <1>1, <1>2, <1>3
  <2> QED BY <2>1, <2>2, Zenon
<1>7. DOMAIN c = 1 .. Len(s) - 1
  BY <1>6, LenProperties
<1>8. \A j \in 1 .. Len(s) - 1 : c[j] = IF j < i THEN s[j] ELSE s[j + 1]
  <2> TAKE j \in 1 .. Len(s) - 1
  <2> HIDE DEF a, b
  <2>1. c[j] = IF j <= i - 1 THEN a[j] ELSE b[j - (i - 1)]
    <3>1. j \in 1 .. Len(a) + Len(b)
      BY <1>1, <1>2, <1>3
    <3> QED BY <1>2, <1>4, <1>5, <3>1
  <2>2. CASE j < i
    BY <1>1, <1>2, <2>1, <2>2
  <2>3. CASE ~(j < i)
    <3>1. j - (i - 1) \in 1 .. Len(s) - i /\ i + (j - (i - 1)) = j + 1
      BY <1>1, <2>3
    <3>2. b[j - (i - 1)] = s[j + 1]
      BY <1>3, <3>1
    <3>3. ~(j <= i - 1)
      BY <1>1, <2>3
    <3> QED BY <2>1, <2>3, <3>2, <3>3, Zenon
  <2> QED BY <2>2, <2>3
<1> HIDE DEF c
<1>9. ToSet(c) \subseteq ToSet(s)
  BY <1>1, <1>7, <1>8 DEF ToSet
<1>10. IsInjective(s) => IsInjective(c)
  BY SMTT(30), <1>1, <1>7, <1>8 DEF IsInjective
<1>11. IsInjective(s) => s[i] \notin ToSet(c)
  BY <1>1, <1>7, <1>8 DEF IsInjective, ToSet
<1> QED
  BY <1>6, <1>9, <1>10, <1>11 DEF c

-----------------------------------------------------------------------------
(* Type correctness. *)

LEMMA InitType == Init => TypeOK
<1> SUFFICES ASSUME Init PROVE TypeOK
  OBVIOUS
<1>1. <<>> \in Seq(Txns) /\ <<>> \in Seq(Threads)
  BY EmptySeq
<1>2. asyncFree \in Int
  BY AsyncAssumption DEF Init
<1>3. /\ hasAsync \in [Nodes -> BOOLEAN] /\ nodeProc \in [Nodes -> BOOLEAN]
      /\ processTodo \in [Threads -> BOOLEAN] /\ doProc \in [Threads -> BOOLEAN]
      /\ awake \in [Threads -> BOOLEAN] /\ isDead \in BOOLEAN /\ freed \in BOOLEAN
  BY DEF Init
<1>4. /\ asyncTodo \in [Nodes -> Seq(Txns)] /\ procTodo \in Seq(Txns)
      /\ waiting \in Seq(Threads) /\ todo \in [Threads -> Seq(Txns)]
  BY <1>1 DEF Init
<1>5. /\ pc \in [Threads -> ThreadStates] /\ cur \in [Threads -> Txns \union {None}]
      /\ \A th \in Threads :
           pc[th] \in {"deliver", "gate", "free"} => cur[th] \in Txns
      /\ relPhase \in RelPhases /\ tmpRef \in Int
  BY DEF Init, ThreadStates, RelPhases
<1>6. /\ sender \in [Txns -> SenderStates] /\ buffer \in [Txns -> BufferStates]
      /\ target \in [Txns -> Nodes]
  BY DEF Init, SenderStates, BufferStates
<1> QED
  BY <1>2, <1>3, <1>4, <1>5, <1>6 DEF TypeOK

LEMMA WakeupType ==
  ASSUME TypeOK, WakeupProc
  PROVE  waiting' \in Seq(Threads) /\ awake' \in [Threads -> BOOLEAN]
<1>1. CASE waiting = <<>>
  BY <1>1 DEF TypeOK, WakeupProc
<1>2. CASE waiting # <<>>
  <2>1. Head(waiting) \in Threads /\ Tail(waiting) \in Seq(Threads)
    BY <1>2, TailElements DEF TypeOK
  <2> QED BY <1>2, <2>1 DEF TypeOK, WakeupProc
<1> QED BY <1>1, <1>2

LEMMA QueueType ==
  ASSUME TypeOK, NEW t \in Txns, QueueForDelivery(t)
  PROVE  /\ procTodo' \in Seq(Txns) /\ waiting' \in Seq(Threads)
         /\ todo' \in [Threads -> Seq(Txns)]
         /\ processTodo' \in [Threads -> BOOLEAN]
         /\ awake' \in [Threads -> BOOLEAN]
<1>1. CASE waiting = <<>>
  <2>1. Append(procTodo, t) \in Seq(Txns)
    BY AppendElements DEF TypeOK
  <2> QED BY <1>1, <2>1 DEF TypeOK, QueueForDelivery
<1>2. CASE waiting # <<>>
  <2>1. Head(waiting) \in Threads
    BY <1>2, TailElements DEF TypeOK
  <2>2. Append(todo[Head(waiting)], t) \in Seq(Txns)
    BY <2>1, AppendElements DEF TypeOK
  <2> QED
    BY <1>2, <2>1, <2>2, WakeupType DEF TypeOK, QueueForDelivery
<1> QED BY <1>1, <1>2

LEMMA SenderType ==
  ASSUME TypeOK, NEW t \in Txns, SenderNext(t)
  PROVE  TypeOK'
<1> USE DEF TypeOK, SenderStates, BufferStates
<1>1. CASE GetNodeRefs(t)
  <2>1. sender' \in [Txns -> SenderStates]
    BY ZenonT(60), <1>1 DEF GetNodeRefs
  <2>2. tmpRef' \in Int
    BY <1>1 DEF GetNodeRefs
  <2> HIDE DEF SenderStates, BufferStates
  <2> QED BY <1>1, <2>1, <2>2 DEF GetNodeRefs, nodeVars, listVars, threadVars
<1>2. CASE NewAsyncBuf(t)
  <2>1. /\ sender' \in [Txns -> SenderStates]
        /\ buffer' \in [Txns -> BufferStates] /\ asyncFree' \in Int
    <3>1. asyncFree - 1 \in Int
      OBVIOUS
    <3> QED BY <1>2, <3>1 DEF NewAsyncBuf
  <2>2. UNCHANGED <<procVars, nodeVars, listVars, threadVars, target>>
    BY <1>2 DEF NewAsyncBuf, procVars, nodeVars, listVars, threadVars
  <2> HIDE DEF SenderStates, BufferStates
  <2> QED BY <2>1, <2>2 DEF procVars, nodeVars, listVars, threadVars
<1>3. CASE ReleaseTxnBuf(t)
  BY <1>3 DEF ReleaseTxnBuf, procVars, nodeVars, listVars, threadVars
<1>4. CASE ProcTransaction(t)
  <2>1. /\ sender' \in [Txns -> SenderStates]
        /\ hasAsync' \in [Nodes -> BOOLEAN]
    BY <1>4 DEF ProcTransaction
  <2>2. asyncTodo' \in [Nodes -> Seq(Txns)]
    <3>1. Append(asyncTodo[target[t]], t) \in Seq(Txns)
      BY AppendElements
    <3> QED BY <1>4, <3>1 DEF ProcTransaction
  <2>3. /\ procTodo' \in Seq(Txns) /\ waiting' \in Seq(Threads)
        /\ todo' \in [Threads -> Seq(Txns)]
        /\ processTodo' \in [Threads -> BOOLEAN]
        /\ awake' \in [Threads -> BOOLEAN]
    BY <1>4, QueueType DEF ProcTransaction, listVars
  <2> QED BY <1>4, <2>1, <2>2, <2>3 DEF ProcTransaction, procVars
<1>5. CASE DropRefs(t)
  BY <1>5 DEF DropRefs, ProcDecTmpref, nodeVars, listVars, threadVars
<1> QED BY <1>1, <1>2, <1>3, <1>4, <1>5 DEF SenderNext

LEMMA ThreadType ==
  ASSUME TypeOK, NEW th \in Threads, ThreadNext(th)
  PROVE  TypeOK'
<1> USE DEF TypeOK, ThreadStates, BufferStates, GoTo
<1>1. CASE ReadBegin(th)
  BY <1>1 DEF ReadBegin, procVars, nodeVars, listVars, txnVars
<1>2. CASE WaitForWork(th)
  <2>1. waiting' \in Seq(Threads)
    <3>1. <<th>> \in Seq(Threads)
      OBVIOUS
    <3>2. <<th>> \o waiting \in Seq(Threads)
      BY <3>1, ConcatProperties
    <3> QED BY <1>2, <3>2 DEF WaitForWork
  <2> QED BY ZenonT(60), <1>2, <2>1 DEF WaitForWork, procVars, nodeVars, txnVars
<1>3. CASE WouldBlock(th)
  BY <1>3 DEF WouldBlock, procVars, nodeVars, listVars, txnVars
<1>4. ASSUME NEW where \in {"wait", "exit"}, Resume(th, where)
      PROVE  TypeOK'
  <2>1. waiting' \in Seq(Threads)
    BY <1>4, RemoveAtElements DEF Resume, Unlist
  <2> QED BY <1>4, <2>1 DEF Resume, procVars, nodeVars, txnVars
<1>5. CASE Wake(th) \/ Interrupted(th)
  BY <1>4, <1>5 DEF Wake, Interrupted
<1>6. CASE Dequeue(th)
  <2>1. /\ todo[th] # <<>> => Head(todo[th]) \in Txns /\ Tail(todo[th]) \in Seq(Txns)
        /\ procTodo # <<>> => Head(procTodo) \in Txns /\ Tail(procTodo) \in Seq(Txns)
    BY TailElements
  <2> QED BY ZenonT(60), <1>6, <2>1 DEF Dequeue, procVars, nodeVars, txnVars
<1>7. CASE ShortBuffer(th)
  BY <1>7 DEF ShortBuffer, procVars, nodeVars, listVars, txnVars
<1>8. CASE Deliver(th)
  BY <1>8 DEF Deliver, procVars, nodeVars, listVars
<1>9. CASE DeliverFault(th)
  BY <1>9 DEF DeliverFault, procVars, nodeVars, listVars, txnVars
<1>10. CASE ReadExit(th)
  <2>1. waiting' \in Seq(Threads) /\ awake' \in [Threads -> BOOLEAN]
    BY <1>10, WakeupType DEF ReadExit
  <2> QED BY <1>10, <2>1 DEF ReadExit, procVars, nodeVars, txnVars
<1>11. ASSUME NEW t \in Txns, PrepareToFree(th, t)
       PROVE  TypeOK'
  BY <1>11 DEF PrepareToFree, procVars, nodeVars, listVars
<1>12. CASE OpenGate(th)
  <2>1. target[cur[th]] \in Nodes
    BY <1>12 DEF OpenGate
  <2>2. /\ asyncTodo' \in [Nodes -> Seq(Txns)] /\ procTodo' \in Seq(Txns)
        /\ waiting' \in Seq(Threads) /\ awake' \in [Threads -> BOOLEAN]
    <3> DEFINE s == asyncTodo[target[cur[th]]]
    <3>1. CASE s = <<>>
      BY <1>12, <3>1 DEF OpenGate
    <3>2. CASE s # <<>>
      <4>1. Head(s) \in Txns /\ Tail(s) \in Seq(Txns)
        BY <2>1, <3>2, TailElements
      <4>2. Append(procTodo, Head(s)) \in Seq(Txns)
        BY <4>1, AppendElements
      <4> QED BY <1>12, <2>1, <3>2, <4>1, <4>2, WakeupType DEF OpenGate
    <3> QED BY <3>1, <3>2
  <2> QED BY <1>12, <2>2 DEF OpenGate, procVars, txnVars
<1>13. CASE FreeBuf(th)
  BY <1>13 DEF FreeBuf, procVars, nodeVars, listVars
<1>14. CASE ThreadExit(th)
  BY <1>14, EmptySeq
     DEF ThreadExit, ReleaseThread, procVars, nodeVars, txnVars
<1> QED
  BY <1>1, <1>2, <1>3, <1>5, <1>6, <1>7, <1>8, <1>9, <1>10, <1>11, <1>12,
     <1>13, <1>14 DEF ThreadNext

LEMMA ReleaseType ==
  ASSUME TypeOK, ReleaseNext
  PROVE  TypeOK'
<1> USE DEF TypeOK, RelPhases, ThreadStates
<1>1. CASE ReleaseProc
  BY <1>1 DEF ReleaseProc, nodeVars, listVars, threadVars, txnVars
<1>2. CASE ThreadsReleased
  BY <1>2 DEF ThreadsReleased, nodeVars, listVars, threadVars, txnVars
<1>3. CASE ReleaseTodo
  BY <1>3, EmptySeq DEF ReleaseTodo, nodeVars, threadVars, txnVars
<1>4. CASE ReleaseDone
  BY <1>4 DEF ReleaseDone, ProcDecTmpref, nodeVars, listVars, threadVars, txnVars
<1>5. ASSUME NEW th \in Threads, ReleaseProcThread(th)
      PROVE  TypeOK'
  BY <1>5, EmptySeq
     DEF ReleaseProcThread, ReleaseThread, procVars, nodeVars, txnVars
<1>6. ASSUME NEW n \in Nodes, ReleaseNode(n)
      PROVE  TypeOK'
  BY <1>6, EmptySeq DEF ReleaseNode, procVars, listVars, threadVars, txnVars
<1> QED BY <1>1, <1>2, <1>3, <1>4, <1>5, <1>6 DEF ReleaseNext

LEMMA NextType == TypeOK /\ [Next]_vars => TypeOK'
<1> SUFFICES ASSUME TypeOK, [Next]_vars PROVE TypeOK'
  OBVIOUS
<1>1. CASE Next
  BY <1>1, SenderType, ThreadType, ReleaseType DEF Next
<1>2. CASE UNCHANGED vars
  BY <1>2 DEF TypeOK, vars, procVars, nodeVars, listVars, threadVars, txnVars
<1> QED BY <1>1, <1>2

\* Every variable always has its type; in particular a thread that delivers a
\* transaction or frees a buffer always has one in its hands.
THEOREM TypeCorrect == Spec => []TypeOK
<1>1. Init => TypeOK
  BY InitType
<1>2. TypeOK /\ [Next]_vars => TypeOK'
  BY NextType
<1> QED BY <1>1, <1>2, PTL DEF Spec

-----------------------------------------------------------------------------
(* The threads on waiting_threads are asleep, each once. *)

LEMMA WakeupListed ==
  ASSUME TypeOK, ThreadListed, WakeupProc
  PROVE  IsInjective(waiting') /\ ToSet(waiting') \subseteq ToSet(waiting)
<1>1. CASE waiting = <<>>
  BY <1>1 DEF WakeupProc, ThreadListed
<1>2. CASE waiting # <<>>
  BY ZenonT(60), <1>2, TailElements DEF WakeupProc, ThreadListed, TypeOK
<1> QED BY <1>1, <1>2

\* Most actions leave waiting_threads alone or shorten it, and move a thread
\* that is not asleep.
LEMMA ListedStep ==
  ASSUME ThreadListed, IsInjective(waiting'), ToSet(waiting') \subseteq ToSet(waiting),
         \A th \in Threads : pc[th] = "asleep" => pc'[th] = "asleep",
         TypeOK
  PROVE  ThreadListed'
<1>1. ToSet(waiting) \subseteq Threads
  BY ElementOfSeq, LenProperties DEF TypeOK, ToSet
<1> QED BY <1>1 DEF ThreadListed

LEMMA ThreadListedThread ==
  ASSUME TypeOK, ThreadListed, NEW th \in Threads, ThreadNext(th)
  PROVE  ThreadListed'
<1>0. UNCHANGED waiting => IsInjective(waiting') /\ ToSet(waiting') \subseteq ToSet(waiting)
  BY DEF ThreadListed
<1>1. CASE WaitForWork(th)
  <2>1. CASE HasWork(th) \/ ~doProc[th]
    <3>1. UNCHANGED waiting /\ \A x \in Threads : pc[x] = "asleep" => pc'[x] = "asleep"
      BY <1>1, <2>1 DEF WaitForWork, GoTo, TypeOK
    <3> QED BY <1>0, <3>1, ListedStep
  <2>2. CASE ~HasWork(th) /\ doProc[th]
    <3>1. waiting' = <<th>> \o waiting /\ pc' = [pc EXCEPT ![th] = "asleep"]
      BY <1>1, <2>2 DEF WaitForWork, GoTo
    <3>2. th \notin ToSet(waiting)
      BY <1>1 DEF ThreadListed, WaitForWork
    <3>3. /\ Len(waiting') = Len(waiting) + 1 /\ waiting' \in Seq(Threads)
          /\ waiting'[1] = th
          /\ \A i \in 2 .. Len(waiting) + 1 : waiting'[i] = waiting[i - 1]
      <4> DEFINE one == <<th>>
      <4>1. one \in Seq(Threads) /\ Len(one) = 1 /\ one[1] = th
        OBVIOUS
      <4>2. waiting \in Seq(Threads) /\ Len(waiting) \in Nat
        BY LenProperties DEF TypeOK
      <4>3. waiting' = one \o waiting
        BY <3>1
      <4> HIDE DEF one
      <4>4. /\ waiting' \in Seq(Threads) /\ Len(waiting') = Len(one) + Len(waiting)
            /\ \A i \in 1 .. Len(one) + Len(waiting) :
                 waiting'[i] = IF i <= Len(one) THEN one[i] ELSE waiting[i - Len(one)]
        BY <4>1, <4>2, <4>3, ConcatProperties, Zenon
      <4>5. Len(waiting') = Len(waiting) + 1 /\ waiting'[1] = th
        BY <4>1, <4>2, <4>4
      <4>6. ASSUME NEW i \in 2 .. Len(waiting) + 1
            PROVE  waiting'[i] = waiting[i - 1]
        <5>1. i \in 1 .. 1 + Len(waiting) /\ ~(i <= 1)
          BY <4>2
        <5> QED BY <4>1, <4>4, <5>1
      <4> QED BY <4>4, <4>5, <4>6, Zenon
    <3>4. /\ DOMAIN waiting = 1 .. Len(waiting) /\ Len(waiting) \in Nat
          /\ DOMAIN waiting' = 1 .. Len(waiting) + 1
      BY <3>3, LenProperties DEF TypeOK
    <3>5. ToSet(waiting') \subseteq ToSet(waiting) \union {th}
      BY <3>3, <3>4 DEF ToSet
    <3>6. IsInjective(waiting')
      <4>1. \A i, j \in 1 .. Len(waiting) : waiting[i] = waiting[j] => i = j
        BY <3>4 DEF ThreadListed, IsInjective
      <4>2. \A i \in 1 .. Len(waiting) : waiting[i] # th
        BY <3>2, <3>4 DEF ToSet
      <4>3. ASSUME NEW a \in 1 .. Len(waiting) + 1, NEW b \in 1 .. Len(waiting) + 1,
                   waiting'[a] = waiting'[b]
            PROVE  a = b
        <5>1. \A k \in 1 .. Len(waiting) + 1 : k # 1 =>
                /\ k \in 2 .. Len(waiting) + 1
                /\ k - 1 \in 1 .. Len(waiting)
          BY <3>4
        <5>2. CASE a = 1 \/ b = 1
          BY <3>3, <4>2, <4>3, <5>1, <5>2
        <5>3. CASE a # 1 /\ b # 1
          <6>1. a - 1 = b - 1
            BY <3>3, <4>1, <4>3, <5>1, <5>3
          <6> QED BY <3>4, <6>1
        <5> QED BY <5>2, <5>3
      <4> QED BY <3>4, <4>3 DEF IsInjective
    <3>7. ToSet(waiting) \subseteq Threads
      BY ElementOfSeq, <3>4 DEF TypeOK, ToSet
    <3> QED BY <3>1, <3>5, <3>6, <3>7 DEF ThreadListed, TypeOK
  <2> QED BY <2>1, <2>2
<1>2. ASSUME NEW where \in {"wait", "exit"}, Resume(th, where)
      PROVE  ThreadListed'
  <2>1. /\ IsInjective(waiting') /\ th \notin ToSet(waiting')
        /\ ToSet(waiting') \subseteq ToSet(waiting)
    BY <1>2, RemoveAtElements DEF Resume, Unlist, ThreadListed, TypeOK
  <2>2. ToSet(waiting) \subseteq Threads
    BY ElementOfSeq, LenProperties DEF TypeOK, ToSet
  <2> QED BY <1>2, <2>1, <2>2 DEF Resume, GoTo, ThreadListed, TypeOK
<1>3. CASE ReadExit(th) \/ OpenGate(th)
  <2>1. /\ WakeupProc \/ UNCHANGED waiting
        /\ \A x \in Threads : pc[x] = "asleep" => pc'[x] = "asleep"
    BY <1>3 DEF ReadExit, OpenGate, GoTo, TypeOK
  <2> QED BY <1>0, <2>1, WakeupListed, ListedStep
<1>4. CASE \/ ReadBegin(th) \/ WouldBlock(th) \/ Dequeue(th) \/ ShortBuffer(th)
           \/ Deliver(th) \/ DeliverFault(th) \/ FreeBuf(th) \/ ThreadExit(th)
           \/ \E t \in Txns : PrepareToFree(th, t)
  <2>1. UNCHANGED waiting /\ \A x \in Threads : pc[x] = "asleep" => pc'[x] = "asleep"
    BY <1>4 DEF ReadBegin, WouldBlock, Dequeue, ShortBuffer, Deliver,
                DeliverFault, FreeBuf, ThreadExit, ReleaseThread,
                PrepareToFree, listVars, GoTo, TypeOK
  <2> QED BY <1>0, <2>1, ListedStep
<1> QED BY <1>1, <1>2, <1>3, <1>4 DEF ThreadNext, Wake, Interrupted

LEMMA NextListed == TypeOK /\ ThreadListed /\ [Next]_vars => ThreadListed'
<1> SUFFICES ASSUME TypeOK, ThreadListed, [Next]_vars PROVE ThreadListed'
  OBVIOUS
<1>0. UNCHANGED waiting => IsInjective(waiting') /\ ToSet(waiting') \subseteq ToSet(waiting)
  BY DEF ThreadListed
<1>1. ASSUME NEW t \in Txns, SenderNext(t)
      PROVE  ThreadListed'
  <2>1. UNCHANGED waiting \/ WakeupProc
    BY <1>1 DEF SenderNext, GetNodeRefs, NewAsyncBuf, ReleaseTxnBuf,
                ProcTransaction, QueueForDelivery, DropRefs, listVars
  <2>2. UNCHANGED pc
    BY <1>1 DEF SenderNext, GetNodeRefs, NewAsyncBuf, ReleaseTxnBuf,
                ProcTransaction, DropRefs, threadVars
  <2> QED BY <1>0, <2>1, <2>2, WakeupListed, ListedStep
<1>2. ASSUME NEW th \in Threads, ThreadNext(th)
      PROVE  ThreadListed'
  BY <1>2, ThreadListedThread
<1>3. CASE ReleaseNext
  <2>1. UNCHANGED waiting
    BY <1>3 DEF ReleaseNext, ReleaseProc, ThreadsReleased, ReleaseTodo, ReleaseDone,
                ReleaseProcThread, ReleaseThread, ReleaseNode, listVars
  <2>2. \A x \in Threads : pc[x] = "asleep" => pc'[x] = "asleep"
    BY <1>3 DEF ReleaseNext, ReleaseProc, ThreadsReleased, ReleaseTodo, ReleaseDone,
                ReleaseProcThread, ReleaseThread, ReleaseNode, threadVars, TypeOK
  <2> QED BY <1>0, <2>1, <2>2, ListedStep
<1>4. CASE UNCHANGED vars
  BY <1>4 DEF vars, listVars, threadVars, ThreadListed
<1> QED BY <1>1, <1>2, <1>3, <1>4 DEF Next

-----------------------------------------------------------------------------
(* The phases of the release of the process. *)

LEMMA NextPhases == TypeOK /\ Phases /\ [Next]_vars => Phases'
<1> SUFFICES ASSUME TypeOK, Phases, [Next]_vars PROVE Phases'
  OBVIOUS
<1>1. ASSUME NEW t \in Txns, SenderNext(t)
      PROVE  Phases'
  <2>1. UNCHANGED <<isDead, relPhase, pc, nodeProc>>
    BY <1>1 DEF SenderNext, GetNodeRefs, NewAsyncBuf, ReleaseTxnBuf,
                ProcTransaction, DropRefs, threadVars, nodeVars, procVars
  <2> QED BY <2>1 DEF Phases
<1>2. ASSUME NEW th \in Threads, ThreadNext(th)
      PROVE  Phases'
  <2>1. UNCHANGED <<isDead, relPhase, nodeProc>>
    BY <1>2 DEF ThreadNext, ReadBegin, WaitForWork, WouldBlock, Wake, Interrupted,
                Resume, Dequeue, ShortBuffer, Deliver, DeliverFault, ReadExit,
                PrepareToFree, OpenGate, FreeBuf, ThreadExit, ReleaseThread,
                nodeVars, procVars
  <2>2. relPhase = "no"
    BY <1>2 DEF ThreadNext, ReadBegin, WaitForWork, WouldBlock, Wake, Interrupted,
                Resume, Dequeue, ShortBuffer, Deliver, DeliverFault, ReadExit,
                PrepareToFree, OpenGate, FreeBuf, ThreadExit, Phases
  <2> QED BY <2>1, <2>2 DEF Phases
<1>3. CASE ReleaseNext
  <2>1. CASE ReleaseProc
    BY <2>1 DEF ReleaseProc, Phases, TypeOK, Live, nodeVars, threadVars
  <2>2. CASE ThreadsReleased \/ ReleaseTodo \/ ReleaseDone
    BY <2>2 DEF ThreadsReleased, ReleaseTodo, ReleaseDone, Phases, nodeVars,
                threadVars, TypeOK, RelPhases
  <2>3. ASSUME NEW th \in Threads, ReleaseProcThread(th)
        PROVE  Phases'
    BY <2>3 DEF ReleaseProcThread, ReleaseThread, Phases, TypeOK, nodeVars, procVars
  <2>4. ASSUME NEW n \in Nodes, ReleaseNode(n)
        PROVE  Phases'
    BY <2>4 DEF ReleaseNode, Phases, procVars, threadVars
  <2> QED BY <1>3, <2>1, <2>2, <2>3, <2>4 DEF ReleaseNext
<1>4. CASE UNCHANGED vars
  BY <1>4 DEF vars, procVars, nodeVars, threadVars, Phases
<1> QED BY <1>1, <1>2, <1>3, <1>4 DEF Next

-----------------------------------------------------------------------------
(* The gate. *)

Gate == TxnOnOneList /\ Located /\ OneInProgress /\ GateClosed

Hands == {"deliver", "gate", "free"}

LEMMA ListedAreTxns ==
  ASSUME TypeOK
  PROVE  /\ ToSet(procTodo) \subseteq Txns
         /\ \A th \in Threads : ToSet(todo[th]) \subseteq Txns
         /\ \A n \in Nodes : ToSet(asyncTodo[n]) \subseteq Txns
<1>1. \A s \in Seq(Txns) : ToSet(s) \subseteq Txns
  BY ElementOfSeq, LenProperties DEF ToSet
<1> QED BY <1>1 DEF TypeOK

\* Steps that keep the lists or empty some of them, keep the buffers and the
\* gates, and put nothing new in the hands of a thread.
LEMMA QuietStep ==
  ASSUME TypeOK, Gate,
         procTodo' \in {procTodo, <<>>},
         \A th \in Threads : todo'[th] \in {todo[th], <<>>},
         \A n \in Nodes : asyncTodo'[n] \in {asyncTodo[n], <<>>},
         UNCHANGED <<hasAsync, target, buffer>>,
         \A t \in Txns :
           /\ Accepted(t) => Accepted(t)'
           /\ sender'[t] \in {"idle", "refs"} => sender[t] \in {"idle", "refs"}
           /\ sender'[t] \in {"built", "undo"} => sender[t] \in {"built", "undo"},
         \A th \in Threads : pc'[th] \in Hands =>
           /\ pc'[th] = pc[th] /\ cur'[th] = cur[th]
           /\ pc[th] = "gate" => nodeProc'[target[cur[th]]]
  PROVE  Gate'
<1>0. ToSet(<<>>) = {} /\ IsInjective(<<>>)
  BY DEF ToSet, IsInjective
<1>1. \A t \in Txns : Queued(t)' => Queued(t)
  BY <1>0 DEF Queued
<1>2. \A t \in Txns : Waiting(t)' => Waiting(t)
  BY <1>0 DEF Waiting, TypeOK
<1>3. \A t \in Txns : InHands(t)' => InHands(t)
  BY DEF InHands, Hands
<1>4. \A t \in Txns : InProgress(t)' => InProgress(t)
  BY <1>1, <1>3 DEF InProgress
<1>5. TxnOnOneList'
  <2>1. \A n \in Nodes : \A t \in ToSet(asyncTodo'[n]) : ~Queued(t)'
    BY <1>0, <1>1, ListedAreTxns DEF TxnOnOneList, Gate
  <2>2. /\ IsInjective(procTodo')
        /\ \A n \in Nodes : IsInjective(asyncTodo'[n])
        /\ \A th \in Threads : IsInjective(todo'[th])
    BY <1>0 DEF TxnOnOneList, Gate
  <2>3. /\ ToSet(procTodo') \subseteq ToSet(procTodo)
        /\ \A th \in Threads : ToSet(todo'[th]) \subseteq ToSet(todo[th])
    BY <1>0
  <2>4. /\ \A x, y \in Threads : x # y => ToSet(todo'[x]) \cap ToSet(todo'[y]) = {}
        /\ \A th \in Threads : ToSet(todo'[th]) \cap ToSet(procTodo') = {}
    BY ZenonT(60), <2>3 DEF TxnOnOneList, Gate
  <2> QED BY <2>1, <2>2, <2>4 DEF TxnOnOneList
<1>6. Located'
  <2>1. \A t \in Txns : Queued(t)' => Accepted(t)' /\ buffer'[t] = "kernel"
    BY <1>1 DEF Located, Gate
  <2>2. \A n \in Nodes : \A t \in ToSet(asyncTodo'[n]) :
          target'[t] = n /\ Accepted(t)' /\ buffer'[t] = "kernel"
    BY <1>0, ListedAreTxns DEF Located, Gate
  <2>3. ASSUME NEW th \in Threads, NEW t \in Txns, pc'[th] = "deliver", cur'[th] = t
        PROVE  Accepted(t)' /\ buffer'[t] = "kernel" /\ ~Queued(t)' /\ ~Waiting(t)'
    <3>1. pc[th] = "deliver" /\ cur[th] = t
      BY <2>3 DEF Hands
    <3>2. Accepted(t) /\ buffer[t] = "kernel" /\ ~Queued(t) /\ ~Waiting(t)
      BY <3>1 DEF Located, Gate
    <3> QED BY <1>1, <1>2, <3>2
  <2>4. /\ \A th \in Threads :
             pc'[th] \in {"gate", "free"} => buffer'[cur'[th]] = "freeing"
        /\ \A x, y \in Threads :
             /\ pc'[x] \in {"deliver", "gate", "free"}
             /\ pc'[y] \in {"deliver", "gate", "free"}
             /\ cur'[x] = cur'[y]
             => x = y
    BY DEF Located, Gate, Hands
  <2>5. \A t \in Txns :
          /\ sender'[t] \in {"idle", "refs"} => buffer'[t] = "none"
          /\ sender'[t] \in {"built", "undo"} => buffer'[t] = "kernel"
    BY DEF Located, Gate
  <2> QED BY <2>1, <2>2, <2>3, <2>4, <2>5 DEF Located
<1>7. OneInProgress'
  BY <1>4 DEF OneInProgress, Gate
<1>8. GateClosed'
  BY <1>2, <1>4 DEF GateClosed, Gate, Hands
<1> QED BY <1>5, <1>6, <1>7, <1>8 DEF Gate

\* A transaction that is not accepted is on no list and in no thread's hands.
LEMMA NotAccepted ==
  ASSUME TypeOK, Gate, NEW t \in Txns,
         sender[t] \in {"idle", "refs", "built", "undo"}
  PROVE  /\ buffer[t] \in {"none", "kernel"} /\ ~Accepted(t)
         /\ ~Queued(t) /\ ~InProgress(t)
         /\ \A n \in Nodes : t \notin ToSet(asyncTodo[n])
         /\ \A th \in Threads : pc[th] \in Hands => cur[th] # t
<1>1. buffer[t] \in {"none", "kernel"} /\ ~Accepted(t)
  BY DEF Gate, Located, Accepted
<1>2. ~Queued(t) /\ \A n \in Nodes : t \notin ToSet(asyncTodo[n])
  BY <1>1 DEF Gate, Located
<1>3. \A th \in Threads : pc[th] \in Hands => cur[th] # t
  BY <1>1 DEF Gate, Located, Hands
<1>4. ~InProgress(t)
  BY <1>1, <1>2, <1>3 DEF InProgress, InHands, Hands
<1> QED BY <1>1, <1>2, <1>3, <1>4

\* The steps of a sender before its transaction is accepted.
LEMMA SenderStep ==
  ASSUME TypeOK, Gate, NEW t \in Txns,
         sender[t] \in {"idle", "refs", "built", "undo"},
         NEW v \in {"refs", "built", "undo", "err", "failed"},
         NEW b \in {"none", "kernel", "freed"},
         v = "refs" => b = "none",
         v \in {"built", "undo"} => b = "kernel",
         sender' = [sender EXCEPT ![t] = v],
         buffer' = [buffer EXCEPT ![t] = b],
         \A n \in Nodes : hasAsync[n] => hasAsync'[n],
         UNCHANGED <<procTodo, todo, asyncTodo, nodeProc, target, pc, cur>>
  PROVE  Gate'
<1>1. /\ \A u \in Txns : u # t => sender'[u] = sender[u] /\ buffer'[u] = buffer[u]
      /\ sender'[t] = v /\ buffer'[t] = b
  BY DEF TypeOK
<1>2. \A u \in Txns : /\ Queued(u)' <=> Queued(u)
                      /\ Waiting(u)' <=> Waiting(u)
                      /\ InHands(u)' <=> InHands(u)
  BY DEF Queued, Waiting, InHands
<1>3. \A u \in Txns : InProgress(u)' => InProgress(u)
  BY <1>1, <1>2 DEF InProgress
<1>4. \A u \in Txns : u # t => (Accepted(u)' <=> Accepted(u))
  BY <1>1 DEF Accepted
<1>5. TxnOnOneList'
  BY <1>2, ListedAreTxns DEF TxnOnOneList, Gate
<1>6. Located'
  <2>1. \A u \in Txns : Queued(u)' => Accepted(u)' /\ buffer'[u] = "kernel"
    BY <1>1, <1>2, <1>4, NotAccepted DEF Gate, Located
  <2>2. \A n \in Nodes : \A u \in ToSet(asyncTodo'[n]) :
          target'[u] = n /\ Accepted(u)' /\ buffer'[u] = "kernel"
    BY <1>1, <1>4, NotAccepted, ListedAreTxns DEF Gate, Located
  <2>3. \A th \in Threads, u \in Txns : pc'[th] = "deliver" /\ cur'[th] = u =>
          Accepted(u)' /\ buffer'[u] = "kernel" /\ ~Queued(u)' /\ ~Waiting(u)'
    BY <1>1, <1>2, <1>4, NotAccepted DEF Gate, Located, Hands
  <2>4. \A th \in Threads : pc'[th] \in {"gate", "free"} => buffer'[cur'[th]] = "freeing"
    BY <1>1, NotAccepted DEF Gate, Located, Hands, TypeOK
  <2>5. \A u \in Txns : /\ sender'[u] \in {"idle", "refs"} => buffer'[u] = "none"
                        /\ sender'[u] \in {"built", "undo"} => buffer'[u] = "kernel"
    BY <1>1 DEF Gate, Located
  <2>6. \A x, y \in Threads : /\ pc'[x] \in {"deliver", "gate", "free"}
                              /\ pc'[y] \in {"deliver", "gate", "free"}
                              /\ cur'[x] = cur'[y]
                              => x = y
    BY DEF Gate, Located
  <2> QED BY <2>1, <2>2, <2>3, <2>4, <2>5, <2>6 DEF Located
<1>7. OneInProgress'
  BY <1>3 DEF OneInProgress, Gate
<1>8. GateClosed'
  BY <1>2, <1>3 DEF GateClosed, Gate, TypeOK
<1> QED BY <1>5, <1>6, <1>7, <1>8 DEF Gate

\* An accepted transaction waits on its node, or goes on a delivery list.
LEMMA AcceptStep ==
  ASSUME TypeOK, Gate, NEW t \in Txns, sender[t] = "built",
         sender' = [sender EXCEPT ![t] = "ok"],
         hasAsync' = [hasAsync EXCEPT ![target[t]] = TRUE],
         UNCHANGED <<buffer, target, nodeProc, pc, cur>>,
         \/ /\ hasAsync[target[t]]
            /\ asyncTodo' = [asyncTodo EXCEPT ![target[t]] = Append(@, t)]
            /\ UNCHANGED <<procTodo, todo>>
         \/ /\ ~hasAsync[target[t]]
            /\ procTodo' = Append(procTodo, t)
            /\ UNCHANGED <<asyncTodo, todo>>
         \/ /\ ~hasAsync[target[t]]
            /\ \E th \in Threads : todo' = [todo EXCEPT ![th] = Append(@, t)]
            /\ UNCHANGED <<asyncTodo, procTodo>>
  PROVE  Gate'
<1> DEFINE n0 == target[t]
<1>1. /\ ~Accepted(t) /\ ~Queued(t) /\ ~InProgress(t) /\ n0 \in Nodes
      /\ \A n \in Nodes : t \notin ToSet(asyncTodo[n])
      /\ \A th \in Threads : pc[th] \in Hands => cur[th] # t
  BY NotAccepted DEF TypeOK
<1>2. /\ Accepted(t)' /\ buffer'[t] = "kernel"
      /\ \A u \in Txns : u # t => (Accepted(u)' <=> Accepted(u)) /\ sender'[u] = sender[u]
      /\ sender'[t] = "ok"
  BY DEF Accepted, TypeOK, Gate, Located
<1>a. /\ procTodo' \in {procTodo, Append(procTodo, t)}
      /\ \A th \in Threads : todo'[th] \in {todo[th], Append(todo[th], t)}
      /\ \A n \in Nodes : asyncTodo'[n] \in {asyncTodo[n], Append(asyncTodo[n], t)}
  BY DEF TypeOK
<1>b. /\ ToSet(Append(procTodo, t)) = ToSet(procTodo) \union {t}
      /\ \A th \in Threads : ToSet(Append(todo[th], t)) = ToSet(todo[th]) \union {t}
      /\ \A n \in Nodes : ToSet(Append(asyncTodo[n], t)) = ToSet(asyncTodo[n]) \union {t}
  BY AppendElements DEF TypeOK
<1>3. /\ ToSet(procTodo') \subseteq ToSet(procTodo) \union {t}
      /\ \A th \in Threads : ToSet(todo'[th]) \subseteq ToSet(todo[th]) \union {t}
      /\ \A n \in Nodes : ToSet(asyncTodo'[n]) \subseteq ToSet(asyncTodo[n]) \union {t}
  BY <1>a, <1>b
<1>4. \A u \in Txns : u # t => /\ Queued(u)' => Queued(u)
                               /\ Waiting(u)' => Waiting(u)
                               /\ InHands(u)' => InHands(u)
                               /\ InProgress(u)' => InProgress(u)
  BY <1>3 DEF Queued, Waiting, InHands, InProgress, TypeOK
<1>5. /\ hasAsync[n0] => /\ UNCHANGED <<procTodo, todo>>
                         /\ ~Queued(t)' /\ ~InProgress(t)'
      /\ ~hasAsync[n0] => UNCHANGED asyncTodo
  BY <1>1 DEF Queued, InHands, InProgress, Hands
<1>6. /\ IsInjective(procTodo')
      /\ \A th \in Threads : IsInjective(todo'[th])
      /\ \A n \in Nodes : IsInjective(asyncTodo'[n])
  <2>1. /\ IsInjective(Append(procTodo, t))
        /\ \A th \in Threads : IsInjective(Append(todo[th], t))
        /\ \A n \in Nodes : IsInjective(Append(asyncTodo[n], t))
    BY <1>1, AppendElements DEF TypeOK, Gate, TxnOnOneList, Queued
  <2> QED BY <1>a, <2>1 DEF Gate, TxnOnOneList
<1>7. TxnOnOneList'
  <2>1. /\ \A x, y \in Threads : x # y => ToSet(todo'[x]) \cap ToSet(todo'[y]) = {}
        /\ \A th \in Threads : ToSet(todo'[th]) \cap ToSet(procTodo') = {}
    <3>1. CASE UNCHANGED todo
      BY SMTT(30), <1>1, <1>3, <3>1 DEF Gate, TxnOnOneList, Queued
    <3>2. CASE /\ UNCHANGED procTodo
               /\ \E th \in Threads : todo' = [todo EXCEPT ![th] = Append(@, t)]
      <4>1. PICK th \in Threads : todo' = [todo EXCEPT ![th] = Append(@, t)]
        BY <3>2
      <4>2. \A x \in Threads : x # th => todo'[x] = todo[x]
        BY <4>1 DEF TypeOK
      <4>3. /\ t \notin ToSet(procTodo)
            /\ \A x \in Threads : t \notin ToSet(todo[x])
        BY <1>1 DEF Queued
      <4>4. /\ \A x, y \in Threads : x # y => ToSet(todo[x]) \cap ToSet(todo[y]) = {}
            /\ \A x \in Threads : ToSet(todo[x]) \cap ToSet(procTodo) = {}
        BY DEF Gate, TxnOnOneList
      <4>5. ToSet(todo'[th]) \subseteq ToSet(todo[th]) \union {t}
        BY <1>3
      <4>6. ASSUME NEW x \in Threads, NEW y \in Threads, x # y
            PROVE  ToSet(todo'[x]) \cap ToSet(todo'[y]) = {}
        <5>1. CASE x = th
          BY <4>2, <4>3, <4>4, <4>5, <4>6, <5>1
        <5>2. CASE y = th
          BY <4>2, <4>3, <4>4, <4>5, <4>6, <5>2
        <5>3. CASE x # th /\ y # th
          BY <4>2, <4>4, <4>6, <5>3
        <5> QED BY <5>1, <5>2, <5>3
      <4>7. \A x \in Threads : ToSet(todo'[x]) \cap ToSet(procTodo') = {}
        BY <3>2, <4>2, <4>3, <4>4, <4>5
      <4> QED BY <4>6, <4>7
    <3> QED BY <3>1, <3>2
  <2>2. \A n \in Nodes : \A u \in ToSet(asyncTodo'[n]) : ~Queued(u)'
    BY SMTT(30), <1>1, <1>3, <1>4, <1>5, ListedAreTxns DEF Gate, TxnOnOneList
  <2> QED BY <1>6, <2>1, <2>2 DEF TxnOnOneList
<1>8. Located'
  <2>1. \A u \in Txns : Queued(u)' => Accepted(u)' /\ buffer'[u] = "kernel"
    BY <1>2, <1>4 DEF Gate, Located
  <2>2. ASSUME NEW n \in Nodes, NEW u \in ToSet(asyncTodo'[n])
        PROVE  target'[u] = n /\ Accepted(u)' /\ buffer'[u] = "kernel"
    <3>1. CASE u = t
      BY <1>1, <1>2, <2>2, <3>1 DEF TypeOK
    <3>2. CASE u # t
      BY <1>2, <1>3, <2>2, <3>2, ListedAreTxns DEF Gate, Located
    <3> QED BY <3>1, <3>2
  <2>3. \A th \in Threads, u \in Txns : pc'[th] = "deliver" /\ cur'[th] = u =>
          Accepted(u)' /\ buffer'[u] = "kernel" /\ ~Queued(u)' /\ ~Waiting(u)'
    BY <1>1, <1>2, <1>4 DEF Gate, Located, Hands
  <2>4. /\ \A th \in Threads : pc'[th] \in {"gate", "free"} => buffer'[cur'[th]] = "freeing"
        /\ \A x, y \in Threads : /\ pc'[x] \in {"deliver", "gate", "free"}
                                 /\ pc'[y] \in {"deliver", "gate", "free"}
                                 /\ cur'[x] = cur'[y]
                                 => x = y
    BY DEF Gate, Located
  <2>5. \A u \in Txns : /\ sender'[u] \in {"idle", "refs"} => buffer'[u] = "none"
                        /\ sender'[u] \in {"built", "undo"} => buffer'[u] = "kernel"
    BY <1>2 DEF Gate, Located
  <2> QED BY <2>1, <2>2, <2>3, <2>4, <2>5 DEF Located
<1>9. OneInProgress'
  <2>1. \A u \in Txns : InProgress(u) /\ target[u] = n0 => hasAsync[n0]
    BY DEF Gate, GateClosed
  <2> QED BY <1>4, <1>5, <2>1 DEF Gate, OneInProgress
<1>10. GateClosed'
  <2>1. \A n \in Nodes : hasAsync[n] => hasAsync'[n]
    BY DEF TypeOK
  <2>2. hasAsync'[n0]
    BY <1>1 DEF TypeOK
  <2> QED BY <1>4, <2>1, <2>2 DEF Gate, GateClosed, TypeOK
<1> QED BY <1>7, <1>8, <1>9, <1>10 DEF Gate

LEMMA SenderGate ==
  ASSUME TypeOK, Gate, NEW t \in Txns, SenderNext(t)
  PROVE  Gate'
<1>1. CASE GetNodeRefs(t)
  <2>1. buffer[t] = "none"
    BY <1>1 DEF GetNodeRefs, Gate, Located
  <2>2. \E v \in {"refs", "failed"} : sender' = [sender EXCEPT ![t] = v]
    BY <1>1 DEF GetNodeRefs
  <2>3. /\ UNCHANGED <<hasAsync, procTodo, todo, asyncTodo, nodeProc, target, pc, cur>>
        /\ buffer' = [buffer EXCEPT ![t] = "none"]
        /\ sender[t] = "idle"
    BY <1>1, <2>1 DEF GetNodeRefs, nodeVars, listVars, threadVars, TypeOK
  <2> QED BY <2>2, <2>3, SenderStep
<1>2. CASE NewAsyncBuf(t)
  <2>1. buffer[t] = "none" /\ sender[t] = "refs"
    BY <1>2 DEF NewAsyncBuf, Gate, Located
  <2>2. \/ /\ sender' = [sender EXCEPT ![t] = "built"]
           /\ buffer' = [buffer EXCEPT ![t] = "kernel"]
        \/ /\ sender' = [sender EXCEPT ![t] = "err"]
           /\ buffer' = [buffer EXCEPT ![t] = "none"]
    <3>1. buffer = [buffer EXCEPT ![t] = "none"]
      BY <2>1 DEF TypeOK
    <3> QED BY <1>2, <3>1, Zenon DEF NewAsyncBuf
  <2>3. UNCHANGED <<hasAsync, procTodo, todo, asyncTodo, nodeProc, target, pc, cur>>
    BY <1>2 DEF NewAsyncBuf, nodeVars, listVars, threadVars
  <2> QED BY <2>1, <2>2, <2>3, SenderStep
<1>3. CASE ReleaseTxnBuf(t)
  <2>1. /\ UNCHANGED <<hasAsync, procTodo, todo, asyncTodo, nodeProc, target, pc, cur>>
        /\ sender[t] \in {"built", "undo"}
        /\ sender' = [sender EXCEPT ![t] = "err"]
        /\ buffer' = [buffer EXCEPT ![t] = "freed"]
    BY <1>3 DEF ReleaseTxnBuf, nodeVars, listVars, threadVars
  <2> QED BY <2>1, SenderStep
<1>4. CASE ProcTransaction(t)
  <2>1. /\ sender[t] = "built" /\ buffer[t] = "kernel"
        /\ hasAsync' = [hasAsync EXCEPT ![target[t]] = TRUE]
        /\ UNCHANGED <<nodeProc, target, buffer, pc, cur>>
        /\ buffer' = [buffer EXCEPT ![t] = "kernel"]
    BY <1>4 DEF ProcTransaction, Gate, Located, TypeOK
  <2>2. \A n \in Nodes : hasAsync[n] => hasAsync'[n]
    BY <2>1 DEF TypeOK
  <2>3. CASE isDead
    <3>1. /\ sender' = [sender EXCEPT ![t] = "undo"]
          /\ UNCHANGED <<asyncTodo, procTodo, todo>>
      BY <1>4, <2>3 DEF ProcTransaction, listVars
    <3> QED BY <2>1, <2>2, <3>1, SenderStep
  <2>4. CASE ~isDead
    <3>1. sender' = [sender EXCEPT ![t] = "ok"]
      BY <1>4, <2>4 DEF ProcTransaction
    <3>2. CASE hasAsync[target[t]]
      <4>1. /\ asyncTodo' = [asyncTodo EXCEPT ![target[t]] = Append(@, t)]
            /\ UNCHANGED <<procTodo, todo>>
        BY <1>4, <2>4, <3>2 DEF ProcTransaction, listVars
      <4> QED BY <2>1, <3>1, <3>2, <4>1, AcceptStep
    <3>3. CASE ~hasAsync[target[t]]
      <4>1. QueueForDelivery(t) /\ UNCHANGED asyncTodo
        BY <1>4, <2>4, <3>3 DEF ProcTransaction
      <4>2. CASE waiting = <<>>
        BY <2>1, <3>1, <3>3, <4>1, <4>2, AcceptStep DEF QueueForDelivery
      <4>3. CASE waiting # <<>>
        <5>1. Head(waiting) \in Threads
          BY <4>3, TailElements DEF TypeOK
        <5>2. /\ UNCHANGED procTodo
              /\ \E th \in Threads : todo' = [todo EXCEPT ![th] = Append(@, t)]
          BY <4>1, <4>3, <5>1 DEF QueueForDelivery
        <5> QED BY <2>1, <3>1, <3>3, <4>1, <5>2, AcceptStep
      <4> QED BY <4>2, <4>3
    <3> QED BY <3>2, <3>3
  <2> QED BY <2>3, <2>4
<1>5. CASE DropRefs(t)
  <2>1. /\ UNCHANGED <<hasAsync, procTodo, todo, asyncTodo, nodeProc, target, pc,
                       cur, buffer>>
        /\ sender[t] \in {"ok", "err"}
        /\ sender' = [sender EXCEPT ![t] = IF @ = "ok" THEN "sent" ELSE "failed"]
    BY <1>5 DEF DropRefs, nodeVars, listVars, threadVars
  <2>2. \A u \in Txns :
          /\ Accepted(u) => Accepted(u)'
          /\ sender'[u] \in {"idle", "refs"} => sender[u] \in {"idle", "refs"}
          /\ sender'[u] \in {"built", "undo"} => sender[u] \in {"built", "undo"}
    BY <2>1 DEF Accepted, TypeOK
  <2>3. \A th \in Threads : pc[th] = "gate" => nodeProc[target[cur[th]]]
    BY DEF Gate, GateClosed
  <2> QED BY <2>1, <2>2, <2>3, QuietStep
<1> QED BY <1>1, <1>2, <1>3, <1>4, <1>5 DEF SenderNext

\* A thread takes a transaction off a delivery list.
LEMMA DequeueGate ==
  ASSUME TypeOK, Gate, NEW th \in Threads, Dequeue(th)
  PROVE  Gate'
<1>1. /\ pc[th] = "loop"
      /\ UNCHANGED <<asyncTodo, hasAsync, nodeProc, target, sender, buffer>>
  BY DEF Dequeue, nodeVars, txnVars
<1>2. CASE pc' = [pc EXCEPT ![th] = "retry"] /\ UNCHANGED <<cur, todo, procTodo>>
  <2>1. \A x \in Threads : pc'[x] \in Hands =>
          pc'[x] = pc[x] /\ (pc[x] = "gate" => nodeProc'[target[cur[x]]])
    BY <1>1, <1>2 DEF Hands, TypeOK, Gate, GateClosed
  <2>2. \A t \in Txns : Accepted(t)' <=> Accepted(t)
    BY <1>1 DEF Accepted
  <2> QED BY <1>1, <1>2, <2>1, <2>2, QuietStep
<1>3. ASSUME NEW h \in Txns, Queued(h), ~Queued(h)',
             pc' = [pc EXCEPT ![th] = "deliver"],
             cur' = [cur EXCEPT ![th] = h],
             ToSet(procTodo') \subseteq ToSet(procTodo), IsInjective(procTodo'),
             \A x \in Threads : /\ ToSet(todo'[x]) \subseteq ToSet(todo[x])
                                /\ IsInjective(todo'[x])
      PROVE  Gate'
  <2>1. \A t \in Txns : /\ Queued(t)' => Queued(t)
                        /\ Waiting(t)' <=> Waiting(t)
                        /\ Accepted(t)' <=> Accepted(t)
    BY <1>1, <1>3 DEF Queued, Waiting, Accepted
  <2>2. /\ Accepted(h) /\ buffer[h] = "kernel" /\ ~Waiting(h)
        /\ \A x \in Threads : pc[x] \in Hands => cur[x] # h
    BY <1>3, ListedAreTxns DEF Gate, Located, TxnOnOneList, Hands, Waiting, TypeOK
  <2>3. /\ pc'[th] = "deliver" /\ cur'[th] = h
        /\ \A x \in Threads : x # th => pc'[x] = pc[x] /\ cur'[x] = cur[x]
    BY <1>3 DEF TypeOK
  <2>4. \A t \in Txns : InProgress(t)' => InProgress(t)
    BY <1>1, <1>3, <2>1, <2>3 DEF InProgress, InHands
  <2>5. TxnOnOneList'
    BY <1>1, <1>3, <2>1, ListedAreTxns DEF Gate, TxnOnOneList
  <2>6. Located'
    <3>1. /\ \A t \in Txns : Queued(t)' => Accepted(t)' /\ buffer'[t] = "kernel"
          /\ \A n \in Nodes : \A t \in ToSet(asyncTodo'[n]) :
               target'[t] = n /\ Accepted(t)' /\ buffer'[t] = "kernel"
      BY <1>1, <2>1, ListedAreTxns DEF Gate, Located
    <3>2. ASSUME NEW x \in Threads, NEW t \in Txns, pc'[x] = "deliver", cur'[x] = t
          PROVE  Accepted(t)' /\ buffer'[t] = "kernel" /\ ~Queued(t)' /\ ~Waiting(t)'
      <4>1. CASE x = th
        BY <1>1, <1>3, <2>1, <2>2, <2>3, <3>2, <4>1
      <4>2. CASE x # th
        BY <1>1, <2>1, <2>3, <3>2, <4>2 DEF Gate, Located
      <4> QED BY <4>1, <4>2
    <3>3. \A x \in Threads : pc'[x] \in {"gate", "free"} => buffer'[cur'[x]] = "freeing"
      BY <1>1, <2>3 DEF Gate, Located
    <3>4. \A x, y \in Threads : /\ pc'[x] \in {"deliver", "gate", "free"}
                                /\ pc'[y] \in {"deliver", "gate", "free"}
                                /\ cur'[x] = cur'[y]
                                => x = y
      BY <2>2, <2>3 DEF Gate, Located, Hands
    <3>5. \A t \in Txns : /\ sender'[t] \in {"idle", "refs"} => buffer'[t] = "none"
                          /\ sender'[t] \in {"built", "undo"} => buffer'[t] = "kernel"
      BY <1>1 DEF Gate, Located
    <3> QED BY <3>1, <3>2, <3>3, <3>4, <3>5 DEF Located
  <2>7. OneInProgress'
    BY <1>1, <2>4 DEF Gate, OneInProgress
  <2>8. GateClosed'
    BY <1>1, <2>1, <2>3, <2>4 DEF Gate, GateClosed
  <2> QED BY <2>5, <2>6, <2>7, <2>8 DEF Gate
<1>4. CASE todo[th] # <<>>
  <2>0. PICK h \in Txns : h = Head(todo[th])
    BY <1>4, TailElements DEF TypeOK
  <2>1. /\ h \in ToSet(todo[th]) /\ h \notin ToSet(Tail(todo[th]))
        /\ ToSet(Tail(todo[th])) \subseteq ToSet(todo[th])
        /\ IsInjective(Tail(todo[th]))
    BY <1>4, <2>0, TailElements DEF Gate, TxnOnOneList, TypeOK
  <2>2. /\ cur' = [cur EXCEPT ![th] = h] /\ todo' = [todo EXCEPT ![th] = Tail(@)]
        /\ UNCHANGED procTodo /\ pc' = [pc EXCEPT ![th] = "deliver"]
    BY <1>4, <2>0 DEF Dequeue, GoTo
  <2>3. todo'[th] = Tail(todo[th]) /\ \A x \in Threads : x # th => todo'[x] = todo[x]
    BY <2>2 DEF TypeOK
  <2>4. Queued(h) /\ ~Queued(h)'
    BY <2>1, <2>2, <2>3 DEF Queued, Gate, TxnOnOneList
  <2>5. /\ IsInjective(procTodo')
        /\ \A x \in Threads : /\ ToSet(todo'[x]) \subseteq ToSet(todo[x])
                              /\ IsInjective(todo'[x])
    BY <2>1, <2>2, <2>3 DEF Gate, TxnOnOneList
  <2> QED BY <1>3, <2>1, <2>2, <2>4, <2>5
<1>5. CASE todo[th] = <<>> /\ procTodo # <<>> /\ doProc[th]
  <2>0. PICK h \in Txns : h = Head(procTodo)
    BY <1>5, TailElements DEF TypeOK
  <2>1. /\ h \in ToSet(procTodo) /\ h \notin ToSet(Tail(procTodo))
        /\ ToSet(Tail(procTodo)) \subseteq ToSet(procTodo)
        /\ IsInjective(Tail(procTodo))
    BY <1>5, <2>0, TailElements DEF Gate, TxnOnOneList, TypeOK
  <2>2. /\ cur' = [cur EXCEPT ![th] = h] /\ procTodo' = Tail(procTodo)
        /\ UNCHANGED todo /\ pc' = [pc EXCEPT ![th] = "deliver"]
    BY <1>5, <2>0 DEF Dequeue, GoTo
  <2>3. Queued(h) /\ ~Queued(h)'
    BY <2>1, <2>2 DEF Queued, Gate, TxnOnOneList
  <2>4. \A x \in Threads : IsInjective(todo'[x])
    BY <2>2 DEF Gate, TxnOnOneList
  <2> QED BY <1>3, <2>1, <2>2, <2>3, <2>4
<1>6. CASE ~(todo[th] # <<>>) /\ ~(todo[th] = <<>> /\ procTodo # <<>> /\ doProc[th])
  BY <1>2, <1>6 DEF Dequeue, GoTo
<1> QED BY <1>4, <1>5, <1>6

\* A thread moves on with the buffer of c, which is on no list, in its hands.
LEMMA BufferStep ==
  ASSUME TypeOK, Gate, NEW th \in Threads, NEW c \in Txns,
         NEW b \in {"user", "freeing", "freed"},
         sender[c] \notin {"idle", "refs", "built", "undo"},
         ~Queued(c), \A n \in Nodes : c \notin ToSet(asyncTodo[n]),
         \A x \in Threads : x # th /\ pc[x] \in Hands => cur[x] # c,
         UNCHANGED <<procTodo, todo, asyncTodo, hasAsync, nodeProc, target, sender>>,
         buffer' = [buffer EXCEPT ![c] = b],
         \A x \in Threads : x # th => pc'[x] = pc[x] /\ cur'[x] = cur[x],
         \/ pc'[th] \notin Hands
         \/ pc'[th] = "gate" /\ cur'[th] = c /\ b = "freeing" /\ nodeProc[target[c]],
         InProgress(c)' => InProgress(c)
  PROVE  Gate'
<1>1. buffer'[c] = b /\ \A t \in Txns : t # c => buffer'[t] = buffer[t]
  BY DEF TypeOK
<1>2. \A t \in Txns : /\ Queued(t)' <=> Queued(t)
                      /\ Waiting(t)' <=> Waiting(t)
                      /\ Accepted(t)' <=> Accepted(t)
  BY DEF Queued, Waiting, Accepted
<1>3. ASSUME NEW t \in Txns, InProgress(t)'
      PROVE  InProgress(t)
  <2>1. CASE t = c
    BY <1>3, <2>1
  <2>2. CASE t # c
    <3>1. InHands(t)' => InHands(t)
      BY <2>2 DEF InHands, Hands
    <3> QED BY <1>1, <1>2, <1>3, <2>2, <3>1 DEF InProgress
  <2> QED BY <2>1, <2>2
<1>4. TxnOnOneList'
  BY <1>2, ListedAreTxns DEF Gate, TxnOnOneList
<1>5. Located'
  <2>1. \A t \in Txns : Queued(t)' => Accepted(t)' /\ buffer'[t] = "kernel"
    BY <1>1, <1>2 DEF Gate, Located
  <2>2. \A n \in Nodes : \A t \in ToSet(asyncTodo'[n]) :
          target'[t] = n /\ Accepted(t)' /\ buffer'[t] = "kernel"
    BY <1>1, <1>2, ListedAreTxns DEF Gate, Located
  <2>3. ASSUME NEW x \in Threads, NEW t \in Txns, pc'[x] = "deliver", cur'[x] = t
        PROVE  Accepted(t)' /\ buffer'[t] = "kernel" /\ ~Queued(t)' /\ ~Waiting(t)'
    <3>1. x # th
      BY <2>3 DEF Hands
    <3>2. pc[x] = "deliver" /\ cur[x] = t /\ t # c
      BY <2>3, <3>1 DEF Hands
    <3>3. Accepted(t) /\ buffer[t] = "kernel" /\ ~Queued(t) /\ ~Waiting(t)
      BY <3>2 DEF Gate, Located
    <3> QED BY <1>1, <1>2, <3>2, <3>3
  <2>4. ASSUME NEW x \in Threads, pc'[x] \in {"gate", "free"}
        PROVE  buffer'[cur'[x]] = "freeing"
    <3>1. CASE x = th
      BY <1>1, <2>4, <3>1 DEF Hands
    <3>2. CASE x # th
      <4>1. /\ pc[x] \in {"gate", "free"} /\ cur'[x] = cur[x]
            /\ cur[x] \in Txns /\ cur[x] # c
        BY <2>4, <3>2 DEF Hands, TypeOK
      <4> QED BY <1>1, <4>1 DEF Gate, Located
    <3> QED BY <3>1, <3>2
  <2>5. \A x, y \in Threads : /\ pc'[x] \in {"deliver", "gate", "free"}
                              /\ pc'[y] \in {"deliver", "gate", "free"}
                              /\ cur'[x] = cur'[y]
                              => x = y
    BY DEF Gate, Located, Hands
  <2>6. \A t \in Txns : /\ sender'[t] \in {"idle", "refs"} => buffer'[t] = "none"
                        /\ sender'[t] \in {"built", "undo"} => buffer'[t] = "kernel"
    BY <1>1 DEF Gate, Located
  <2> QED BY <2>1, <2>2, <2>3, <2>4, <2>5, <2>6 DEF Located
<1>6. OneInProgress'
  BY <1>3 DEF OneInProgress, Gate
<1>7. GateClosed'
  <2>1. \A t \in Txns : InProgress(t)' \/ Waiting(t)' => hasAsync'[target'[t]]
    BY <1>2, <1>3 DEF Gate, GateClosed
  <2>2. ASSUME NEW x \in Threads, pc'[x] = "gate"
        PROVE  hasAsync'[target'[cur'[x]]] /\ nodeProc'[target'[cur'[x]]]
    <3>1. CASE x = th
      <4>1. cur'[x] = c /\ nodeProc[target[c]]
        BY <2>2, <3>1 DEF Hands
      <4>2. InProgress(c)'
        BY <2>2, <4>1 DEF InProgress, InHands
      <4> QED BY <2>1, <4>1, <4>2
    <3>2. CASE x # th
      BY <2>2, <3>2 DEF Gate, GateClosed
    <3> QED BY <3>1, <3>2
  <2> QED BY <2>1, <2>2 DEF GateClosed
<1> QED BY <1>4, <1>5, <1>6, <1>7 DEF Gate

LEMMA DeliverGate ==
  ASSUME TypeOK, Gate, NEW th \in Threads, Deliver(th)
  PROVE  Gate'
<1>1. PICK c \in Txns : c = cur[th]
  BY DEF Deliver, TypeOK
<1>2. /\ pc[th] = "deliver" /\ pc' = [pc EXCEPT ![th] = "exit"]
      /\ buffer' = [buffer EXCEPT ![c] = "user"]
      /\ UNCHANGED <<procTodo, todo, asyncTodo, hasAsync, nodeProc, target, sender, cur>>
  BY <1>1 DEF Deliver, GoTo, nodeVars, listVars
<1>3. Accepted(c) /\ ~Queued(c) /\ ~Waiting(c)
  BY <1>1, <1>2 DEF Gate, Located
<1>4. \A n \in Nodes : c \notin ToSet(asyncTodo[n])
  BY <1>3 DEF Gate, Located, Waiting
<1>5. \A x \in Threads : x # th /\ pc[x] \in Hands => cur[x] # c
  BY <1>1, <1>2 DEF Gate, Located, Hands
<1>6. InProgress(c)
  BY <1>1, <1>2 DEF InProgress, InHands
<1>7. sender[c] \notin {"idle", "refs", "built", "undo"}
  BY <1>3 DEF Accepted
<1>8. /\ pc'[th] \notin Hands
      /\ \A x \in Threads : x # th => pc'[x] = pc[x] /\ cur'[x] = cur[x]
  BY <1>2 DEF Hands, TypeOK
<1> QED BY <1>2, <1>3, <1>4, <1>5, <1>6, <1>7, <1>8, BufferStep

LEMMA PrepareToFreeGate ==
  ASSUME TypeOK, Gate, Phases, NEW th \in Threads, NEW t \in Txns, PrepareToFree(th, t)
  PROVE  Gate'
<1>1. /\ pc[th] = "user" /\ relPhase = "no" /\ buffer[t] = "user"
      /\ pc' = [pc EXCEPT ![th] = "gate"] /\ cur' = [cur EXCEPT ![th] = t]
      /\ buffer' = [buffer EXCEPT ![t] = "freeing"]
      /\ UNCHANGED <<procTodo, todo, asyncTodo, hasAsync, nodeProc, target, sender>>
  BY DEF PrepareToFree, GoTo, nodeVars, listVars
<1>2. /\ ~Queued(t) /\ \A n \in Nodes : t \notin ToSet(asyncTodo[n])
      /\ sender[t] \notin {"idle", "refs", "built", "undo"}
      /\ \A x \in Threads : pc[x] \in Hands => cur[x] # t
  BY <1>1 DEF Gate, Located, Hands
<1>3. InProgress(t)
  BY <1>1 DEF InProgress
<1>4. nodeProc[target[t]]
  BY <1>1 DEF Phases, TypeOK
<1>5. /\ pc'[th] = "gate" /\ cur'[th] = t
      /\ \A x \in Threads : x # th => pc'[x] = pc[x] /\ cur'[x] = cur[x]
  BY <1>1 DEF TypeOK
<1> QED BY <1>1, <1>2, <1>3, <1>4, <1>5, BufferStep

LEMMA FreeBufGate ==
  ASSUME TypeOK, Gate, NEW th \in Threads, FreeBuf(th)
  PROVE  Gate'
<1>1. PICK c \in Txns : c = cur[th]
  BY DEF FreeBuf, TypeOK
<1>2. /\ pc[th] = "free" /\ pc' = [pc EXCEPT ![th] = "user"]
      /\ cur' = [cur EXCEPT ![th] = None]
      /\ buffer' = [buffer EXCEPT ![c] = "freed"]
      /\ UNCHANGED <<procTodo, todo, asyncTodo, hasAsync, nodeProc, target, sender>>
  BY <1>1 DEF FreeBuf, GoTo, nodeVars, listVars
<1>3. buffer[c] = "freeing"
  BY <1>1, <1>2 DEF Gate, Located
<1>4. /\ ~Queued(c) /\ \A n \in Nodes : c \notin ToSet(asyncTodo[n])
      /\ sender[c] \notin {"idle", "refs", "built", "undo"}
  BY <1>3 DEF Gate, Located
<1>5. \A x \in Threads : x # th /\ pc[x] \in Hands => cur[x] # c
  BY <1>1, <1>2 DEF Gate, Located, Hands
<1>6. /\ pc'[th] \notin Hands
      /\ \A x \in Threads : x # th => pc'[x] = pc[x] /\ cur'[x] = cur[x]
  BY <1>2 DEF Hands, TypeOK
<1>7. ~InProgress(c)'
  <2>1. buffer'[c] # "user" /\ ~Queued(c)'
    BY <1>2, <1>4 DEF Queued, TypeOK
  <2>2. ~InHands(c)'
    BY <1>5, <1>6 DEF InHands, Hands
  <2> QED BY <2>1, <2>2 DEF InProgress
<1> QED BY <1>2, <1>4, <1>5, <1>6, <1>7, BufferStep

\* The buffer in progress is freed: the next transaction of its node starts,
\* or the gate opens because nothing of the node is in progress any more.
LEMMA OpenGateGate ==
  ASSUME TypeOK, Gate, NEW th \in Threads, OpenGate(th)
  PROVE  Gate'
<1>1. PICK c \in Txns : c = cur[th]
  BY DEF OpenGate, TypeOK
<1>2. PICK n \in Nodes : n = target[c]
  BY DEF TypeOK
<1>3. /\ pc[th] = "gate" /\ pc' = [pc EXCEPT ![th] = "free"]
      /\ UNCHANGED <<todo, nodeProc, target, sender, buffer, cur>>
  BY DEF OpenGate, GoTo, txnVars
<1>4. /\ pc'[th] = "free" /\ \A x \in Threads : x # th => pc'[x] = pc[x]
  BY <1>3 DEF TypeOK
<1>5. /\ buffer[c] = "freeing" /\ InProgress(c) /\ ~Queued(c)
      /\ \A x \in Threads : pc[x] \in Hands /\ cur[x] = c => x = th
      /\ \A m \in Nodes : c \notin ToSet(asyncTodo[m])
  <2>1. buffer[c] = "freeing"
    BY <1>1, <1>3 DEF Gate, Located
  <2>2. InProgress(c)
    BY <1>1, <1>3 DEF InProgress, InHands
  <2>3. /\ ~Queued(c) /\ \A m \in Nodes : c \notin ToSet(asyncTodo[m])
        /\ \A x \in Threads : pc[x] \in Hands /\ cur[x] = c => x = th
    BY <1>1, <1>3, <2>1 DEF Gate, Located, Hands
  <2> QED BY <2>1, <2>2, <2>3
<1>6. \A t \in Txns : InHands(t)' => InHands(t) /\ t # c
  BY <1>3, <1>4, <1>5 DEF InHands, Hands
<1>7. \A t \in Txns : InProgress(t) /\ target[t] = n => t = c
  BY <1>2, <1>5 DEF Gate, OneInProgress
<1>8. \A x \in Threads : /\ pc'[x] \in Hands <=> pc[x] \in Hands
                         /\ pc'[x] \in {"gate", "free"} <=> pc[x] \in {"gate", "free"}
                         /\ pc'[x] \in {"deliver", "gate"} => pc'[x] = pc[x]
  BY <1>3, <1>4 DEF Hands
<1>9. /\ \A x \in Threads : pc'[x] \in {"gate", "free"} => buffer'[cur'[x]] = "freeing"
      /\ \A x, y \in Threads : /\ pc'[x] \in {"deliver", "gate", "free"}
                               /\ pc'[y] \in {"deliver", "gate", "free"}
                               /\ cur'[x] = cur'[y]
                               => x = y
      /\ \A t \in Txns : /\ sender'[t] \in {"idle", "refs"} => buffer'[t] = "none"
                         /\ sender'[t] \in {"built", "undo"} => buffer'[t] = "kernel"
  BY <1>3, <1>8 DEF Gate, Located, Hands
<1>10. \A t \in Txns : Accepted(t)' <=> Accepted(t)
  BY <1>3 DEF Accepted
<1>11. CASE asyncTodo[n] = <<>>
  <2>1. /\ hasAsync' = [hasAsync EXCEPT ![n] = FALSE]
        /\ UNCHANGED <<asyncTodo, procTodo>>
    BY <1>1, <1>2, <1>11 DEF OpenGate
  <2>2. \A t \in Txns : /\ Queued(t)' <=> Queued(t)
                        /\ Waiting(t)' <=> Waiting(t)
    BY <1>3, <2>1 DEF Queued, Waiting
  <2>3. \A t \in Txns : InProgress(t)' => InProgress(t) /\ t # c
    BY <1>3, <1>5, <1>6, <2>2 DEF InProgress
  <2>4. TxnOnOneList'
    BY <1>3, <2>1, <2>2, ListedAreTxns DEF Gate, TxnOnOneList
  <2>5. Located'
    <3>1. /\ \A t \in Txns : Queued(t)' => Accepted(t)' /\ buffer'[t] = "kernel"
          /\ \A m \in Nodes : \A t \in ToSet(asyncTodo'[m]) :
               target'[t] = m /\ Accepted(t)' /\ buffer'[t] = "kernel"
      BY <1>3, <1>10, <2>1, <2>2, ListedAreTxns DEF Gate, Located
    <3>2. \A x \in Threads, t \in Txns : pc'[x] = "deliver" /\ cur'[x] = t =>
            Accepted(t)' /\ buffer'[t] = "kernel" /\ ~Queued(t)' /\ ~Waiting(t)'
      BY <1>3, <1>8, <1>10, <2>2 DEF Gate, Located
    <3> QED BY <1>9, <3>1, <3>2 DEF Located
  <2>6. OneInProgress'
    BY <1>3, <2>3 DEF Gate, OneInProgress
  <2>7. GateClosed'
    <3>1. ASSUME NEW t \in Txns, InProgress(t)' \/ Waiting(t)'
          PROVE  hasAsync'[target'[t]]
      <4>1. target[t] # n
        <5>1. CASE InProgress(t)'
          BY <1>7, <2>3, <5>1
        <5>2. CASE Waiting(t)'
          BY <1>11, <2>2, <5>2 DEF Waiting, ToSet
        <5> QED BY <3>1, <5>1, <5>2
      <4>2. hasAsync[target[t]]
        BY <2>2, <2>3, <3>1 DEF Gate, GateClosed
      <4> QED BY <1>3, <2>1, <4>1, <4>2 DEF TypeOK
    <3>2. ASSUME NEW x \in Threads, pc'[x] = "gate"
          PROVE  hasAsync'[target'[cur'[x]]] /\ nodeProc'[target'[cur'[x]]]
      <4>1. pc[x] = "gate" /\ x # th /\ cur[x] \in Txns
        BY <1>4, <3>2 DEF TypeOK
      <4>2. InProgress(cur[x])' /\ nodeProc[target[cur[x]]]
        BY <1>3, <3>2, <4>1 DEF InProgress, InHands, Gate, GateClosed
      <4> QED BY <1>3, <3>1, <4>1, <4>2
    <3> QED BY <3>1, <3>2 DEF GateClosed
  <2> QED BY <2>4, <2>5, <2>6, <2>7 DEF Gate
<1>12. CASE asyncTodo[n] # <<>>
  <2>1. PICK h \in Txns : h = Head(asyncTodo[n])
    BY <1>12, TailElements DEF TypeOK
  <2>2. /\ h \in ToSet(asyncTodo[n]) /\ h \notin ToSet(Tail(asyncTodo[n]))
        /\ ToSet(Tail(asyncTodo[n])) \subseteq ToSet(asyncTodo[n])
        /\ IsInjective(Tail(asyncTodo[n]))
    BY <1>12, <2>1, TailElements DEF Gate, TxnOnOneList, TypeOK
  <2>3. /\ asyncTodo' = [asyncTodo EXCEPT ![n] = Tail(@)]
        /\ procTodo' = Append(procTodo, h) /\ hasAsync' = hasAsync
    BY <1>1, <1>2, <1>12, <2>1 DEF OpenGate
  <2>4. /\ Accepted(h) /\ buffer[h] = "kernel" /\ target[h] = n /\ ~Queued(h)
        /\ \A m \in Nodes : m # n => h \notin ToSet(asyncTodo[m])
        /\ \A x \in Threads : pc[x] \in Hands => cur[x] # h
    BY <2>2 DEF Gate, Located, TxnOnOneList, Hands, Waiting
  <2>5. /\ asyncTodo'[n] = Tail(asyncTodo[n])
        /\ \A m \in Nodes : m # n => asyncTodo'[m] = asyncTodo[m]
        /\ ToSet(procTodo') = ToSet(procTodo) \union {h}
        /\ IsInjective(procTodo')
    BY <2>3, <2>4, AppendElements DEF TypeOK, Gate, TxnOnOneList, Queued
  <2>6. /\ \A m \in Nodes : /\ ToSet(asyncTodo'[m]) \subseteq ToSet(asyncTodo[m])
                            /\ IsInjective(asyncTodo'[m])
                            /\ h \notin ToSet(asyncTodo'[m])
    BY <2>2, <2>4, <2>5 DEF Gate, TxnOnOneList
  <2>7. \A t \in Txns : /\ Queued(t)' <=> Queued(t) \/ t = h
                        /\ Waiting(t)' => Waiting(t) /\ t # h
    <3>1. \A t \in Txns : Queued(t)' <=> Queued(t) \/ t = h
      BY <1>3, <2>5 DEF Queued
    <3>2. \A t \in Txns : target[t] \in Nodes
      BY DEF TypeOK
    <3>3. \A t \in Txns : Waiting(t)' => Waiting(t) /\ t # h
      BY <1>3, <2>6, <3>2 DEF Waiting
    <3> QED BY <3>1, <3>3
  <2>8. \A t \in Txns : InProgress(t)' => t = h \/ (InProgress(t) /\ t # c)
    BY <1>3, <1>5, <1>6, <2>7 DEF InProgress
  <2>9. TxnOnOneList'
    <3>1. /\ \A x \in Threads : IsInjective(todo'[x])
          /\ \A x, y \in Threads : x # y => ToSet(todo'[x]) \cap ToSet(todo'[y]) = {}
      BY <1>3 DEF Gate, TxnOnOneList
    <3>2. \A x \in Threads : ToSet(todo'[x]) \cap ToSet(procTodo') = {}
      BY <1>3, <2>4, <2>5 DEF Gate, TxnOnOneList, Queued
    <3>3. \A m \in Nodes : \A t \in ToSet(asyncTodo'[m]) : ~Queued(t)'
      BY <2>6, <2>7, ListedAreTxns DEF Gate, TxnOnOneList
    <3> QED BY <2>5, <2>6, <3>1, <3>2, <3>3 DEF TxnOnOneList
  <2>10. Located'
    <3>1. /\ \A t \in Txns : Queued(t)' => Accepted(t)' /\ buffer'[t] = "kernel"
          /\ \A m \in Nodes : \A t \in ToSet(asyncTodo'[m]) :
               target'[t] = m /\ Accepted(t)' /\ buffer'[t] = "kernel"
      BY <1>3, <1>10, <2>4, <2>6, <2>7, ListedAreTxns DEF Gate, Located
    <3>2. \A x \in Threads, t \in Txns : pc'[x] = "deliver" /\ cur'[x] = t =>
            Accepted(t)' /\ buffer'[t] = "kernel" /\ ~Queued(t)' /\ ~Waiting(t)'
      BY <1>3, <1>8, <1>10, <2>4, <2>7 DEF Gate, Located, Hands
    <3> QED BY <1>9, <3>1, <3>2 DEF Located
  <2>11. OneInProgress'
    BY <1>3, <1>7, <2>4, <2>8 DEF Gate, OneInProgress
  <2>12. GateClosed'
    <3>1. hasAsync[n]
      BY <1>2, <1>5 DEF Gate, GateClosed
    <3>2. \A t \in Txns : InProgress(t)' \/ Waiting(t)' => hasAsync'[target'[t]]
      BY <1>3, <2>3, <2>4, <2>7, <2>8, <3>1 DEF Gate, GateClosed
    <3>3. \A x \in Threads : pc'[x] = "gate" =>
            hasAsync'[target'[cur'[x]]] /\ nodeProc'[target'[cur'[x]]]
      BY <1>3, <1>8, <2>3 DEF Gate, GateClosed
    <3> QED BY <3>2, <3>3 DEF GateClosed
  <2> QED BY <2>9, <2>10, <2>11, <2>12 DEF Gate
<1> QED BY <1>11, <1>12

LEMMA ThreadGate ==
  ASSUME TypeOK, Gate, Phases, NEW th \in Threads, ThreadNext(th)
  PROVE  Gate'
<1>1. CASE \/ ReadBegin(th) \/ WaitForWork(th) \/ WouldBlock(th) \/ Wake(th)
           \/ Interrupted(th) \/ ShortBuffer(th) \/ DeliverFault(th)
           \/ ReadExit(th) \/ ThreadExit(th)
  <2>1. /\ UNCHANGED <<procTodo, asyncTodo, hasAsync, nodeProc, target, buffer, sender>>
        /\ todo' \in {todo, [todo EXCEPT ![th] = <<>>]}
    BY <1>1 DEF ReadBegin, WaitForWork, WouldBlock, Wake, Interrupted, Resume,
                ShortBuffer, DeliverFault, ReadExit, ThreadExit, ReleaseThread,
                listVars, nodeVars, txnVars
  <2>2. \E where \in ThreadStates \ Hands : pc' = [pc EXCEPT ![th] = where]
    BY <1>1 DEF ReadBegin, WaitForWork, WouldBlock, Wake, Interrupted, Resume,
                ShortBuffer, DeliverFault, ReadExit, ThreadExit, ReleaseThread,
                GoTo, ThreadStates, Hands
  <2>3. \A x \in Threads : x # th => cur'[x] = cur[x]
    BY <1>1 DEF ReadBegin, WaitForWork, WouldBlock, Wake, Interrupted, Resume,
                ShortBuffer, DeliverFault, ReadExit, ThreadExit, ReleaseThread, TypeOK
  <2>4. \A x \in Threads : pc'[x] \in Hands =>
          /\ pc'[x] = pc[x] /\ cur'[x] = cur[x]
          /\ pc[x] = "gate" => nodeProc'[target[cur[x]]]
    BY <2>1, <2>2, <2>3 DEF TypeOK, Gate, GateClosed
  <2>5. \A t \in Txns : Accepted(t) => Accepted(t)'
    BY <2>1 DEF Accepted
  <2>6. \A x \in Threads : todo'[x] \in {todo[x], <<>>}
    BY <2>1 DEF TypeOK
  <2> QED BY <2>1, <2>4, <2>5, <2>6, QuietStep
<1> QED
  BY <1>1, DequeueGate, DeliverGate, PrepareToFreeGate, OpenGateGate, FreeBufGate
     DEF ThreadNext

LEMMA ReleaseGate ==
  ASSUME TypeOK, Gate, Phases, ReleaseNext
  PROVE  Gate'
<1>1. UNCHANGED <<hasAsync, target, buffer, sender, cur>>
  BY DEF ReleaseNext, ReleaseProc, ThreadsReleased, ReleaseTodo, ReleaseDone,
         ReleaseProcThread, ReleaseThread, ReleaseNode, nodeVars, threadVars, txnVars
<1>2. \A x \in Threads : pc'[x] \notin Hands
  <2>1. \A x \in Threads : pc[x] \in {"user", "dead"}
    BY DEF ReleaseNext, ReleaseProc, ThreadsReleased, ReleaseTodo, ReleaseDone,
           ReleaseProcThread, ReleaseNode, Phases, Live
  <2>2. UNCHANGED pc \/ \E th \in Threads : pc' = [pc EXCEPT ![th] = "dead"]
    BY DEF ReleaseNext, ReleaseProc, ThreadsReleased, ReleaseTodo, ReleaseDone,
           ReleaseProcThread, ReleaseThread, ReleaseNode, threadVars
  <2> QED BY <2>1, <2>2 DEF Hands, TypeOK
<1>3. procTodo' \in {procTodo, <<>>}
  BY DEF ReleaseNext, ReleaseProc, ThreadsReleased, ReleaseTodo, ReleaseDone,
         ReleaseProcThread, ReleaseThread, ReleaseNode, listVars
<1>4. \A x \in Threads : todo'[x] \in {todo[x], <<>>}
  BY DEF ReleaseNext, ReleaseProc, ThreadsReleased, ReleaseTodo, ReleaseDone,
         ReleaseProcThread, ReleaseThread, ReleaseNode, listVars, TypeOK
<1>5. \A n \in Nodes : asyncTodo'[n] \in {asyncTodo[n], <<>>}
  BY DEF ReleaseNext, ReleaseProc, ThreadsReleased, ReleaseTodo, ReleaseDone,
         ReleaseProcThread, ReleaseThread, ReleaseNode, nodeVars, TypeOK
<1>6. \A t \in Txns : Accepted(t) => Accepted(t)'
  BY <1>1 DEF Accepted
<1> QED BY <1>1, <1>2, <1>3, <1>4, <1>5, <1>6, QuietStep

LEMMA NextGate == TypeOK /\ Gate /\ Phases /\ [Next]_vars => Gate'
<1> SUFFICES ASSUME TypeOK, Gate, Phases, [Next]_vars PROVE Gate'
  OBVIOUS
<1>1. CASE UNCHANGED vars
  <2>1. UNCHANGED <<procTodo, todo, asyncTodo, hasAsync, nodeProc, target, buffer,
                    sender, pc, cur>>
    BY <1>1 DEF vars, nodeVars, listVars, threadVars, txnVars
  <2>2. \A t \in Txns : Accepted(t) => Accepted(t)'
    BY <2>1 DEF Accepted
  <2>3. \A x \in Threads : pc[x] = "gate" => nodeProc[target[cur[x]]]
    BY DEF Gate, GateClosed
  <2> QED BY <2>1, <2>2, <2>3, QuietStep
<1> QED BY <1>1, SenderGate, ThreadGate, ReleaseGate DEF Next

LEMMA InitInvariant == Init => IInv
<1> SUFFICES ASSUME Init PROVE IInv
  OBVIOUS
<1>1. ToSet(<<>>) = {} /\ IsInjective(<<>>)
  BY DEF ToSet, IsInjective
<1>2. TypeOK
  BY InitType
<1>3. /\ procTodo = <<>> /\ waiting = <<>>
      /\ \A th \in Threads : todo[th] = <<>> /\ pc[th] = "user" /\ cur[th] = None
      /\ \A n \in Nodes : asyncTodo[n] = <<>> /\ nodeProc[n]
      /\ \A t \in Txns : sender[t] = "idle" /\ buffer[t] = "none"
      /\ isDead = FALSE /\ relPhase = "no"
  BY DEF Init
<1>4. \A t \in Txns : ~Queued(t) /\ ~InProgress(t) /\ ~Waiting(t)
  BY <1>1, <1>2, <1>3 DEF Queued, InProgress, InHands, Waiting, TypeOK
<1>5. TxnOnOneList /\ ThreadListed
  BY <1>1, <1>3 DEF TxnOnOneList, ThreadListed
<1>6. Located
  BY <1>1, <1>3, <1>4 DEF Located
<1>7. Phases /\ OneInProgress /\ GateClosed
  BY <1>3, <1>4 DEF Phases, OneInProgress, GateClosed
<1> QED BY <1>2, <1>5, <1>6, <1>7 DEF IInv

-----------------------------------------------------------------------------
\* The inductive invariant: where each transaction, its buffer and its gate
\* are relative to one another, in every reachable state.
THEOREM InductiveInvariant == Spec => []IInv
<1>1. Init => IInv
  BY InitInvariant
<1>2. IInv /\ [Next]_vars => IInv'
  <2> SUFFICES ASSUME IInv, [Next]_vars PROVE IInv'
    OBVIOUS
  <2>1. TypeOK /\ ThreadListed /\ Phases /\ Gate
    BY DEF IInv, Gate
  <2>2. TypeOK' /\ ThreadListed' /\ Phases' /\ Gate'
    BY <2>1, NextType, NextListed, NextPhases, NextGate
  <2> QED BY <2>2 DEF IInv, Gate
<1> QED BY <1>1, <1>2, PTL DEF Spec

\* binder_proc_transaction and BC_FREE_BUFFER together never let two
\* transactions of one node be in progress at once.
THEOREM GateIsExclusive == Spec => []OneInProgress
<1>1. IInv => OneInProgress
  BY DEF IInv
<1> QED BY <1>1, InductiveInvariant, PTL

\* The gate is closed while anything of its node is in progress or waiting,
\* so that neither BUG_ON of BC_FREE_BUFFER can fire.
THEOREM GateStaysClosed == Spec => []GateClosed
<1>1. IInv => GateClosed
  BY DEF IInv
<1> QED BY <1>1, InductiveInvariant, PTL

\* A transaction's work item is at most once on at most one list, whatever
\* senders, readers, frees and the release of the process do to the lists.
THEOREM WorkOnOneList == Spec => []TxnOnOneList
<1>1. IInv => TxnOnOneList
  BY DEF IInv
<1> QED BY <1>1, InductiveInvariant, PTL

\* waiting_threads holds sleeping threads only, each once: a thread that
\* binder_select_thread_ilocked picks can be woken.
THEOREM WaitersSleep == Spec => []ThreadListed
<1>1. IInv => ThreadListed
  BY DEF IInv
<1> QED BY <1>1, InductiveInvariant, PTL

-----------------------------------------------------------------------------
(* Wakeups.                                                                *)

\* A thread that will look at the process's list before it sleeps.
OnTheWay(th) ==
    \/ pc[th] \in {"deliver", "exit"}
    \/ doProc[th] /\ pc[th] \in {"wait", "loop"}
    \/ doProc[th] /\ pc[th] = "asleep" /\ awake[th]

SomeoneLooks ==
    procTodo # <<>> /\ waiting # <<>> => \E th \in Threads : OnTheWay(th)

\* Who is on waiting_threads reads for the process, work on a thread's own
\* list is announced to it, and wakes it.
OwnWork ==
    /\ \A th \in ToSet(waiting) : doProc[th]
    /\ \A th \in Threads : todo[th] # <<>> => processTodo[th]
    /\ \A th \in Threads : pc[th] = "asleep" /\ todo[th] # <<>> => awake[th]

Wakeups == SomeoneLooks /\ OwnWork

LEMMA WaitingAreThreads ==
  ASSUME TypeOK
  PROVE  ToSet(waiting) \subseteq Threads
BY ElementOfSeq, LenProperties DEF TypeOK, ToSet

LEMMA ConsElements ==
  ASSUME NEW S, NEW s \in Seq(S), NEW e \in S
  PROVE  ToSet(<<e>> \o s) = ToSet(s) \union {e}
<1> DEFINE one == <<e>>
<1>1. one \in Seq(S) /\ Len(one) = 1 /\ one[1] = e
  OBVIOUS
<1>2. Len(s) \in Nat /\ DOMAIN s = 1 .. Len(s)
  BY LenProperties
<1> HIDE DEF one
<1>3. /\ one \o s \in Seq(S) /\ Len(one \o s) = Len(one) + Len(s)
      /\ \A i \in 1 .. Len(one) + Len(s) :
           (one \o s)[i] = IF i <= Len(one) THEN one[i] ELSE s[i - Len(one)]
  BY <1>1, ConcatProperties, Zenon
<1>4. DOMAIN (one \o s) = 1 .. 1 + Len(s)
  BY <1>1, <1>3, LenProperties
<1>5. (one \o s)[1] = e /\ \A i \in 1 .. Len(s) : (one \o s)[i + 1] = s[i]
  BY <1>1, <1>2, <1>3
<1>6. \A i \in 2 .. 1 + Len(s) : i - 1 \in 1 .. Len(s) /\ (one \o s)[i] = s[i - 1]
  BY <1>1, <1>2, <1>3
<1>7. \A i \in 1 .. Len(s) : i + 1 \in 1 .. 1 + Len(s)
  BY <1>2
<1>8. ToSet(one \o s) = ToSet(s) \union {e}
  <2> DEFINE c == one \o s
  <2>1. DOMAIN c = 1 .. 1 + Len(s)
    BY <1>4
  <2> HIDE DEF c
  <2>2. ASSUME NEW i \in DOMAIN c
        PROVE  c[i] \in ToSet(s) \union {e}
    <3>1. CASE i = 1
      BY <1>5, <3>1 DEF c
    <3>2. CASE i # 1
      <4>1. i \in 2 .. 1 + Len(s)
        BY <1>2, <2>1, <3>2
      <4> QED BY <1>2, <1>6, <4>1 DEF c, ToSet
    <3> QED BY <3>1, <3>2
  <2>3. e \in ToSet(c)
    <3>1. 1 \in DOMAIN c /\ c[1] = e
      BY <1>2, <1>5, <2>1 DEF c
    <3> QED BY <3>1 DEF ToSet
  <2>4. ASSUME NEW i \in DOMAIN s
        PROVE  s[i] \in ToSet(c)
    <3>1. i + 1 \in DOMAIN c /\ c[i + 1] = s[i]
      BY <1>2, <1>5, <1>7, <2>1 DEF c
    <3> QED BY <3>1 DEF ToSet
  <2>5. ToSet(c) = ToSet(s) \union {e}
    BY <2>2, <2>3, <2>4 DEF ToSet
  <2> QED BY <2>5 DEF c
<1> QED BY <1>8 DEF one

\* Who wakes a waiting thread leaves one on its way.
LEMMA WakeupLooks ==
  ASSUME TypeOK, ThreadListed, OwnWork, WakeupProc, UNCHANGED doProc,
         \A x \in ToSet(waiting) : pc'[x] = pc[x]
  PROVE  /\ SomeoneLooks'
         /\ ToSet(waiting') \subseteq ToSet(waiting)
         /\ \A x \in Threads : awake[x] => awake'[x]
<1>1. ToSet(waiting') \subseteq ToSet(waiting)
  BY WakeupListed
<1>2. CASE waiting = <<>>
  BY <1>1, <1>2 DEF WakeupProc, SomeoneLooks
<1>3. CASE waiting # <<>>
  <2>1. PICK h \in Threads : h = Head(waiting) /\ h \in ToSet(waiting)
    BY <1>3, TailElements DEF TypeOK
  <2>2. awake' = [awake EXCEPT ![h] = TRUE]
    BY <1>3, <2>1 DEF WakeupProc
  <2>3. awake'[h] /\ \A x \in Threads : awake[x] => awake'[x]
    BY <2>1, <2>2 DEF TypeOK
  <2>4. pc'[h] = "asleep" /\ doProc'[h]
    BY <2>1 DEF ThreadListed, OwnWork
  <2>5. OnTheWay(h)'
    BY <2>3, <2>4 DEF OnTheWay
  <2> QED BY <1>1, <2>1, <2>3, <2>5 DEF SomeoneLooks
<1> QED BY <1>2, <1>3

\* Steps after which whoever was on the way still is.
LEMMA StillLooks ==
  ASSUME TypeOK, SomeoneLooks,
         procTodo' # <<>> /\ waiting' # <<>> => procTodo # <<>> /\ waiting # <<>>,
         procTodo' # <<>> =>
           \A x \in Threads : OnTheWay(x) => OnTheWay(x)'
  PROVE  SomeoneLooks'
BY DEF SomeoneLooks

\* What a step keeps of OwnWork when it gives no thread new work.
LEMMA StillOwn ==
  ASSUME TypeOK, OwnWork,
         ToSet(waiting') \subseteq ToSet(waiting),
         \A x \in ToSet(waiting') : doProc'[x] = doProc[x],
         \A x \in Threads : todo'[x] # <<>> =>
           /\ todo[x] # <<>> /\ (processTodo[x] => processTodo'[x])
           /\ pc'[x] = "asleep" => pc[x] = "asleep" /\ (awake[x] => awake'[x])
  PROVE  OwnWork'
BY DEF OwnWork

LEMMA SenderWakeups ==
  ASSUME TypeOK, ThreadListed, Wakeups, NEW t \in Txns, SenderNext(t)
  PROVE  Wakeups'
<1>0. UNCHANGED <<pc, doProc>>
  BY DEF SenderNext, GetNodeRefs, NewAsyncBuf, ReleaseTxnBuf, ProcTransaction,
         DropRefs, threadVars
<1>1. CASE UNCHANGED <<procTodo, waiting, awake, todo, processTodo>>
  BY <1>0, <1>1 DEF Wakeups, SomeoneLooks, OnTheWay, OwnWork
<1>2. CASE QueueForDelivery(t)
  <2>1. CASE waiting = <<>>
    <3>1. UNCHANGED <<todo, processTodo, waiting, awake>>
      BY <1>2, <2>1 DEF QueueForDelivery
    <3> QED BY <1>0, <2>1, <3>1 DEF Wakeups, SomeoneLooks, OwnWork
  <2>2. CASE waiting # <<>>
    <3> DEFINE h == Head(waiting)
    <3>1. /\ todo' = [todo EXCEPT ![h] = Append(@, t)]
          /\ processTodo' = [processTodo EXCEPT ![h] = TRUE]
          /\ awake' = [awake EXCEPT ![h] = TRUE]
          /\ WakeupProc /\ UNCHANGED procTodo
      BY <1>2, <2>2 DEF QueueForDelivery, WakeupProc
    <3>2. h \in Threads
      BY <2>2, TailElements DEF TypeOK
    <3>3. /\ processTodo'[h] /\ awake'[h]
          /\ \A x \in Threads : x # h =>
               todo'[x] = todo[x] /\ processTodo'[x] = processTodo[x] /\ awake'[x] = awake[x]
      BY <3>1, <3>2 DEF TypeOK
    <3>4. SomeoneLooks' /\ ToSet(waiting') \subseteq ToSet(waiting)
      BY <1>0, <3>1, WakeupLooks DEF Wakeups
    <3>5. OwnWork'
      BY <1>0, <3>3, <3>4 DEF Wakeups, OwnWork
    <3> QED BY <3>4, <3>5 DEF Wakeups
  <2> QED BY <2>1, <2>2
<1> QED
  BY <1>1, <1>2 DEF SenderNext, GetNodeRefs, NewAsyncBuf, ReleaseTxnBuf,
     ProcTransaction, DropRefs, listVars, threadVars

LEMMA ThreadWakeups ==
  ASSUME TypeOK, ThreadListed, Wakeups, NEW th \in Threads, ThreadNext(th)
  PROVE  Wakeups'
<1> USE DEF GoTo
<1>0. ToSet(waiting) \subseteq Threads
  BY WaitingAreThreads
<1>a. \A x \in Threads : x # th => pc'[x] = pc[x] /\ doProc'[x] = doProc[x]
  BY DEF ThreadNext, ReadBegin, WaitForWork, WouldBlock, Wake, Interrupted, Resume,
         Dequeue, ShortBuffer, Deliver, DeliverFault, ReadExit, PrepareToFree,
         OpenGate, FreeBuf, ThreadExit, ReleaseThread, TypeOK
<1>1. CASE ReadBegin(th)
  <2>1. /\ pc[th] \in {"user", "retry"} /\ pc'[th] = "wait"
        /\ UNCHANGED <<procTodo, waiting, todo, processTodo, awake>>
    BY <1>1 DEF ReadBegin, listVars, TypeOK
  <2>2. \A x \in Threads : OnTheWay(x) => OnTheWay(x)'
    BY <1>a, <2>1 DEF OnTheWay
  <2>3. th \notin ToSet(waiting)
    BY <2>1 DEF ThreadListed
  <2>4. OwnWork'
    BY <1>0, <1>a, <2>1, <2>3, StillOwn DEF Wakeups
  <2> QED BY <2>1, <2>2, <2>4, StillLooks DEF Wakeups
<1>2. CASE WaitForWork(th)
  <2>1. /\ pc[th] = "wait" /\ UNCHANGED <<procTodo, todo, processTodo, doProc>>
    BY <1>2 DEF WaitForWork
  <2>2. CASE HasWork(th)
    <3>1. pc'[th] = "loop" /\ UNCHANGED <<waiting, awake>>
      BY <1>2, <2>2 DEF WaitForWork, TypeOK
    <3>2. \A x \in Threads : OnTheWay(x) => OnTheWay(x)'
      BY <1>a, <2>1, <3>1 DEF OnTheWay
    <3>3. OwnWork'
      BY <1>0, <1>a, <2>1, <3>1, StillOwn DEF Wakeups
    <3> QED BY <2>1, <3>1, <3>2, <3>3, StillLooks DEF Wakeups
  <2>3. CASE ~HasWork(th)
    <3>1. /\ pc'[th] = "asleep" /\ \A x \in Threads : x # th => awake'[x] = awake[x]
          /\ waiting' = IF doProc[th] THEN <<th>> \o waiting ELSE waiting
      BY <1>2, <2>3 DEF WaitForWork, TypeOK
    <3>2. todo[th] = <<>> /\ (doProc[th] => procTodo = <<>>)
      BY <2>3 DEF HasWork, Wakeups, OwnWork
    <3>3. ~doProc[th] => \A x \in Threads : OnTheWay(x) => OnTheWay(x)'
      BY <1>a, <2>1, <3>1 DEF OnTheWay
    <3>4. SomeoneLooks'
      BY <2>1, <3>1, <3>2, <3>3, StillLooks DEF Wakeups, SomeoneLooks
    <3>5. \A x \in ToSet(waiting') : x \in ToSet(waiting) \/ (x = th /\ doProc[th])
      <4>1. CASE doProc[th]
        BY <3>1, <4>1, ConsElements DEF TypeOK
      <4>2. CASE ~doProc[th]
        BY <3>1, <4>2
      <4> QED BY <4>1, <4>2
    <3>6. OwnWork'
      BY <1>0, <1>a, <2>1, <3>1, <3>2, <3>5 DEF Wakeups, OwnWork
    <3> QED BY <3>4, <3>6 DEF Wakeups
  <2> QED BY <2>2, <2>3
<1>3. ASSUME NEW where \in {"wait", "exit"}, Resume(th, where)
      PROVE  Wakeups'
  <2>1. /\ pc[th] = "asleep" /\ pc'[th] = where
        /\ UNCHANGED <<procTodo, todo, processTodo, doProc, awake>>
    BY <1>3 DEF Resume, TypeOK
  <2>2. /\ ToSet(waiting') \subseteq ToSet(waiting)
        /\ waiting' # <<>> => waiting # <<>>
    BY <1>3, RemoveAtElements DEF Resume, Unlist, TypeOK
  <2>3. \A x \in Threads : OnTheWay(x) => OnTheWay(x)'
    BY <1>a, <2>1 DEF OnTheWay
  <2>4. OwnWork'
    BY <1>0, <1>a, <2>1, <2>2, StillOwn DEF Wakeups
  <2> QED BY <2>1, <2>2, <2>3, <2>4, StillLooks DEF Wakeups
<1>4. CASE Dequeue(th)
  <2>1. /\ pc[th] = "loop" /\ UNCHANGED <<waiting, doProc, awake>>
        /\ \A x \in Threads : x # th => todo'[x] = todo[x] /\ processTodo'[x] = processTodo[x]
    BY <1>4 DEF Dequeue, TypeOK
  <2>2. \/ pc'[th] = "deliver"
        \/ /\ pc'[th] = "retry" /\ UNCHANGED <<todo, procTodo>>
           /\ todo[th] = <<>> /\ (doProc[th] => procTodo = <<>>)
    BY <1>4 DEF Dequeue, TypeOK
  <2>3. procTodo' # <<>> => procTodo # <<>>
    BY <1>4 DEF Dequeue
  <2>4. procTodo' # <<>> => \A x \in Threads : OnTheWay(x) => OnTheWay(x)'
    BY <1>a, <2>1, <2>2 DEF OnTheWay
  <2>5. todo'[th] # <<>> => todo[th] # <<>> /\ (processTodo[th] => processTodo'[th])
    BY <1>4 DEF Dequeue, TypeOK
  <2>6. OwnWork'
    BY <1>0, <1>a, <2>1, <2>2, <2>5, StillOwn DEF Wakeups
  <2> QED BY <2>1, <2>3, <2>4, <2>6, StillLooks DEF Wakeups
<1>5. CASE ReadExit(th)
  <2>1. /\ pc[th] = "exit" /\ pc'[th] = "user"
        /\ UNCHANGED <<procTodo, todo, processTodo, doProc>>
    BY <1>5 DEF ReadExit, TypeOK
  <2>2. th \notin ToSet(waiting)
    BY <2>1 DEF ThreadListed
  <2>3. CASE procTodo = <<>>
    <3>1. UNCHANGED <<waiting, awake>>
      BY <1>5, <2>3 DEF ReadExit
    <3>2. OwnWork'
      BY <1>0, <1>a, <2>1, <3>1, StillOwn DEF Wakeups
    <3> QED BY <2>1, <2>3, <3>2 DEF Wakeups, SomeoneLooks
  <2>4. CASE procTodo # <<>>
    <3>1. WakeupProc
      BY <1>5, <2>4 DEF ReadExit
    <3>2. /\ SomeoneLooks' /\ ToSet(waiting') \subseteq ToSet(waiting)
          /\ \A x \in Threads : awake[x] => awake'[x]
      BY <1>0, <1>a, <2>1, <2>2, <3>1, WakeupLooks DEF Wakeups
    <3>3. OwnWork'
      BY <1>0, <1>a, <2>1, <3>2, StillOwn DEF Wakeups
    <3> QED BY <3>2, <3>3 DEF Wakeups
  <2> QED BY <2>3, <2>4
<1>6. CASE OpenGate(th)
  <2>1. /\ pc[th] = "gate" /\ pc'[th] = "free" /\ UNCHANGED <<todo, processTodo, doProc>>
    BY <1>6 DEF OpenGate, TypeOK
  <2>2. th \notin ToSet(waiting)
    BY <2>1 DEF ThreadListed
  <2>3. \A x \in ToSet(waiting) : pc'[x] = pc[x]
    BY <1>0, <1>a, <2>2
  <2>4. CASE UNCHANGED <<procTodo, waiting, awake>>
    <3>1. \A x \in Threads : OnTheWay(x) => OnTheWay(x)'
      BY <1>a, <2>1, <2>4 DEF OnTheWay
    <3>2. OwnWork'
      BY <1>0, <1>a, <2>1, <2>4, StillOwn DEF Wakeups
    <3> QED BY <2>4, <3>1, <3>2, StillLooks DEF Wakeups
  <2>5. CASE WakeupProc
    <3>1. /\ SomeoneLooks' /\ ToSet(waiting') \subseteq ToSet(waiting)
          /\ \A x \in Threads : awake[x] => awake'[x]
      BY <2>1, <2>3, <2>5, WakeupLooks DEF Wakeups
    <3>2. OwnWork'
      BY <1>0, <1>a, <2>1, <3>1, StillOwn DEF Wakeups
    <3> QED BY <3>1, <3>2 DEF Wakeups
  <2> QED BY <1>6, <2>4, <2>5 DEF OpenGate
<1>7. CASE \/ WouldBlock(th) \/ ShortBuffer(th) \/ Deliver(th) \/ DeliverFault(th)
           \/ FreeBuf(th) \/ ThreadExit(th) \/ \E t \in Txns : PrepareToFree(th, t)
  <2>1. /\ pc'[th] = "exit" \/ (pc[th] \in {"user", "free"} /\ pc'[th] # "asleep")
        /\ UNCHANGED <<procTodo, waiting, processTodo, doProc, awake>>
        /\ \A x \in Threads : todo'[x] \in {todo[x], <<>>}
    BY <1>7 DEF WouldBlock, ShortBuffer, Deliver, DeliverFault, FreeBuf, ThreadExit,
                ReleaseThread, PrepareToFree, listVars, TypeOK
  <2>2. \A x \in Threads : OnTheWay(x) => OnTheWay(x)'
    BY <1>a, <2>1 DEF OnTheWay
  <2>3. OwnWork'
    BY <1>0, <1>a, <2>1, StillOwn DEF Wakeups
  <2> QED BY <2>1, <2>2, <2>3, StillLooks DEF Wakeups
<1> QED BY <1>1, <1>2, <1>3, <1>4, <1>5, <1>6, <1>7 DEF ThreadNext, Wake, Interrupted

LEMMA NextWakeups ==
  ASSUME TypeOK, ThreadListed, Wakeups, [Next]_vars
  PROVE  Wakeups'
<1>1. CASE ReleaseNext
  <2>1. /\ UNCHANGED <<waiting, processTodo, doProc, awake>>
        /\ procTodo' \in {procTodo, <<>>}
        /\ \A x \in Threads : todo'[x] \in {todo[x], <<>>}
    BY <1>1 DEF ReleaseNext, ReleaseProc, ThreadsReleased, ReleaseTodo, ReleaseDone,
                ReleaseProcThread, ReleaseThread, ReleaseNode, listVars, threadVars,
                TypeOK
  <2>2. \A x \in Threads : pc'[x] = pc[x] \/ (pc[x] = "user" /\ pc'[x] = "dead")
    <3>1. \/ UNCHANGED pc
          \/ \E th \in Threads : pc[th] = "user" /\ pc' = [pc EXCEPT ![th] = "dead"]
      BY <1>1 DEF ReleaseNext, ReleaseProc, ThreadsReleased, ReleaseTodo, ReleaseDone,
                  ReleaseProcThread, ReleaseThread, ReleaseNode, threadVars
    <3> QED BY <3>1 DEF TypeOK
  <2>3. \A x \in Threads : OnTheWay(x) => OnTheWay(x)'
    BY <2>1, <2>2 DEF OnTheWay
  <2>4. OwnWork'
    BY <2>1, <2>2, StillOwn DEF Wakeups
  <2> QED BY <2>1, <2>3, <2>4, StillLooks DEF Wakeups
<1>2. CASE UNCHANGED vars
  BY <1>2 DEF vars, listVars, threadVars, Wakeups, SomeoneLooks, OnTheWay, OwnWork
<1> QED BY <1>1, <1>2, SenderWakeups, ThreadWakeups DEF Next

\* No wakeup is lost: while a thread waits for work of the process and there
\* is some, another thread is on its way to look at the list, and a thread
\* with work of its own has been woken; whatever binder_wakeup_thread_ilocked,
\* signals, and threads that leave do in between.
THEOREM WakeupsKept == Spec => []NoLostWakeup
<1>1. Init => Wakeups
  <2>1. ToSet(<<>>) = {}
    BY DEF ToSet
  <2> QED BY <2>1 DEF Init, Wakeups, SomeoneLooks, OwnWork
<1>2. IInv /\ Wakeups /\ [Next]_vars => Wakeups'
  BY NextWakeups DEF IInv
<1>3. Wakeups => NoLostWakeup
  BY DEF Wakeups, SomeoneLooks, OwnWork, OnTheWay, NoLostWakeup
<1> QED BY <1>1, <1>2, <1>3, InductiveInvariant, PTL DEF Spec

-----------------------------------------------------------------------------
(* The holder of a closed gate.                                            *)

\* A transaction that keeps the gate of its node closed: on its way to the
\* user, with the user, being freed, or lost with its buffer.
Held(t) ==
    \/ buffer[t] = "user"
    \/ \E th \in Threads : pc[th] = "gate" /\ cur[th] = t
    \/ Accepted(t) /\ buffer[t] = "kernel" /\ ~Waiting(t)

HeldGate ==
    ~isDead =>
      \A n \in Nodes : hasAsync[n] => \E t \in Txns : target[t] = n /\ Held(t)

\* Steps that close no gate and let go of no transaction.
LEMMA HeldKept ==
  ASSUME TypeOK, HeldGate, isDead => isDead', UNCHANGED target,
         \A n \in Nodes : hasAsync'[n] => hasAsync[n],
         \A t \in Txns : Held(t) => Held(t)'
  PROVE  HeldGate'
BY DEF HeldGate

LEMMA SenderHeld ==
  ASSUME TypeOK, Gate, HeldGate, NEW t \in Txns, SenderNext(t)
  PROVE  HeldGate'
<1>1. UNCHANGED <<isDead, target, pc, cur>>
  BY DEF SenderNext, GetNodeRefs, NewAsyncBuf, ReleaseTxnBuf, ProcTransaction,
         DropRefs, threadVars, procVars
<1>2. \A u \in Txns : u # t => sender'[u] = sender[u] /\ buffer'[u] = buffer[u]
  BY DEF SenderNext, GetNodeRefs, NewAsyncBuf, ReleaseTxnBuf, ProcTransaction,
         DropRefs, TypeOK
<1>3. CASE sender[t] \in {"idle", "refs", "built", "undo"}
  <2>1. /\ buffer[t] # "user" /\ ~Accepted(t)
        /\ \A th \in Threads : pc[th] = "gate" => cur[th] # t
    BY <1>3, NotAccepted DEF Hands
  <2>2. ~Held(t)
    BY <2>1 DEF Held
  <2>3. \A u \in Txns : u # t => (Waiting(u)' => Waiting(u))
    <3>1. \A n \in Nodes : ToSet(asyncTodo'[n]) \subseteq ToSet(asyncTodo[n]) \union {t}
      <4>1. \A n \in Nodes : asyncTodo'[n] \in {asyncTodo[n], Append(asyncTodo[n], t)}
        BY DEF SenderNext, GetNodeRefs, NewAsyncBuf, ReleaseTxnBuf, ProcTransaction,
               DropRefs, nodeVars, TypeOK
      <4>2. \A n \in Nodes : ToSet(Append(asyncTodo[n], t)) = ToSet(asyncTodo[n]) \union {t}
        BY AppendElements DEF TypeOK
      <4> QED BY <4>1, <4>2
    <3> QED BY <1>1, <3>1 DEF Waiting, TypeOK
  <2>4. \A u \in Txns : Held(u) => Held(u)'
    BY <1>1, <1>2, <2>2, <2>3 DEF Held, Accepted
  <2>5. CASE UNCHANGED hasAsync
    BY <1>1, <2>4, <2>5, HeldKept
  <2>6. CASE ProcTransaction(t)
    <3>1. hasAsync' = [hasAsync EXCEPT ![target[t]] = TRUE]
      BY <2>6 DEF ProcTransaction
    <3>2. CASE isDead
      BY <1>1, <3>2 DEF HeldGate
    <3>3. CASE ~isDead /\ hasAsync[target[t]]
      <4>1. \A n \in Nodes : hasAsync'[n] => hasAsync[n]
        BY <3>1, <3>3 DEF TypeOK
      <4> QED BY <1>1, <2>4, <4>1, HeldKept
    <3>4. CASE ~isDead /\ ~hasAsync[target[t]]
      <4>1. /\ UNCHANGED <<asyncTodo, buffer>> /\ sender'[t] = "ok" /\ sender[t] = "built"
        BY <2>6, <3>4 DEF ProcTransaction, TypeOK
      <4>2. Accepted(t)' /\ buffer'[t] = "kernel"
        BY <4>1 DEF Accepted, Gate, Located
      <4>3. \A n \in Nodes : t \notin ToSet(asyncTodo[n])
        BY <1>3, NotAccepted
      <4>4. ~Waiting(t)'
        BY <1>1, <4>1, <4>3 DEF Waiting, TypeOK
      <4>5. Held(t)'
        BY <4>2, <4>4 DEF Held
      <4>6. \A n \in Nodes : n # target[t] => hasAsync'[n] = hasAsync[n]
        BY <3>1 DEF TypeOK
      <4> QED BY <1>1, <2>4, <4>5, <4>6 DEF HeldGate
    <3> QED BY <3>2, <3>3, <3>4
  <2> QED BY <2>5, <2>6 DEF SenderNext, GetNodeRefs, NewAsyncBuf, ReleaseTxnBuf,
             DropRefs, nodeVars
<1>4. CASE DropRefs(t)
  <2>1. /\ UNCHANGED <<asyncTodo, hasAsync, buffer>>
        /\ Accepted(t) => Accepted(t)'
    BY <1>4 DEF DropRefs, nodeVars, Accepted, TypeOK
  <2>2. \A u \in Txns : Accepted(u) => Accepted(u)'
    BY <1>2, <2>1 DEF Accepted
  <2>3. \A u \in Txns : Held(u) => Held(u)'
    BY <1>1, <2>1, <2>2 DEF Held, Waiting
  <2> QED BY <1>1, <2>1, <2>3, HeldKept
<1> QED BY <1>3, <1>4 DEF SenderNext, GetNodeRefs, NewAsyncBuf, ReleaseTxnBuf,
           ProcTransaction

\* BC_FREE_BUFFER: the next transaction takes over the gate, or it opens.
LEMMA OpenGateHeld ==
  ASSUME TypeOK, Gate, HeldGate, NEW th \in Threads, OpenGate(th)
  PROVE  HeldGate'
<1>1. PICK c \in Txns : c = cur[th]
  BY DEF OpenGate, TypeOK
<1>2. PICK n \in Nodes : n = target[c]
  BY DEF TypeOK
<1>3. /\ pc[th] = "gate" /\ UNCHANGED <<isDead, target, sender, buffer, cur>>
      /\ \A x \in Threads : x # th => pc'[x] = pc[x]
  BY DEF OpenGate, GoTo, procVars, txnVars, TypeOK
<1>4. \A m \in Nodes : ToSet(asyncTodo'[m]) \subseteq ToSet(asyncTodo[m])
  <2>1. \A m \in Nodes : \/ asyncTodo'[m] = asyncTodo[m]
                         \/ asyncTodo[m] # <<>> /\ asyncTodo'[m] = Tail(asyncTodo[m])
    BY <1>1, <1>2 DEF OpenGate, TypeOK
  <2> QED BY <2>1, TailElements DEF TypeOK
<1>5. \A t \in Txns : t # c /\ Held(t) => Held(t)'
  <2>1. \A t \in Txns : Waiting(t)' => Waiting(t)
    BY <1>3, <1>4 DEF Waiting, TypeOK
  <2>2. \A t \in Txns : Accepted(t) => Accepted(t)'
    BY <1>3 DEF Accepted
  <2> QED BY <1>1, <1>3, <2>1, <2>2 DEF Held
<1>6. CASE asyncTodo[n] = <<>>
  <2>1. ~hasAsync'[n] /\ \A m \in Nodes : m # n => hasAsync'[m] = hasAsync[m]
    BY <1>1, <1>2, <1>6 DEF OpenGate, TypeOK
  <2> QED BY <1>2, <1>3, <1>5, <2>1 DEF HeldGate
<1>7. CASE asyncTodo[n] # <<>>
  <2>1. UNCHANGED hasAsync /\ asyncTodo'[n] = Tail(asyncTodo[n])
    BY <1>1, <1>2, <1>7 DEF OpenGate, TypeOK
  <2>2. PICK h \in Txns : /\ h \in ToSet(asyncTodo[n])
                          /\ h \notin ToSet(Tail(asyncTodo[n]))
    BY <1>7, TailElements DEF TypeOK, Gate, TxnOnOneList
  <2>3. target[h] = n /\ Accepted(h) /\ buffer[h] = "kernel"
    BY <2>2 DEF Gate, Located
  <2>4. Held(h)'
    BY <1>3, <2>1, <2>2, <2>3 DEF Held, Waiting, Accepted
  <2> QED BY <1>2, <1>3, <1>5, <2>1, <2>3, <2>4 DEF HeldGate
<1> QED BY <1>6, <1>7

LEMMA ThreadHeld ==
  ASSUME TypeOK, Gate, HeldGate, NEW th \in Threads, ThreadNext(th)
  PROVE  HeldGate'
<1> USE DEF GoTo
<1>1. CASE \/ ReadBegin(th) \/ WaitForWork(th) \/ WouldBlock(th) \/ Wake(th)
           \/ Interrupted(th) \/ Dequeue(th) \/ ShortBuffer(th) \/ DeliverFault(th)
           \/ ReadExit(th) \/ ThreadExit(th)
  <2>1. /\ UNCHANGED <<isDead, asyncTodo, hasAsync, target, buffer, sender>>
        /\ pc[th] # "gate"
    BY <1>1 DEF ReadBegin, WaitForWork, WouldBlock, Wake, Interrupted, Resume, Dequeue,
                ShortBuffer, DeliverFault, ReadExit, ThreadExit, ReleaseThread,
                procVars, nodeVars, txnVars
  <2>2. \A x \in Threads : x # th => pc'[x] = pc[x] /\ cur'[x] = cur[x]
    BY <1>1 DEF ReadBegin, WaitForWork, WouldBlock, Wake, Interrupted, Resume, Dequeue,
                ShortBuffer, DeliverFault, ReadExit, ThreadExit, ReleaseThread, TypeOK
  <2>3. \A t \in Txns : Held(t) => Held(t)'
    BY <2>1, <2>2 DEF Held, Waiting, Accepted
  <2> QED BY <2>1, <2>3, HeldKept
<1>2. CASE Deliver(th)
  <2>1. /\ pc[th] = "deliver" /\ UNCHANGED <<isDead, asyncTodo, hasAsync, target, sender, cur>>
        /\ \A x \in Threads : x # th => pc'[x] = pc[x]
        /\ \A t \in Txns : buffer'[t] = buffer[t] \/ buffer'[t] = "user"
    BY <1>2 DEF Deliver, procVars, nodeVars, TypeOK
  <2>2. \A t \in Txns : Held(t) => Held(t)'
    BY <2>1 DEF Held, Waiting, Accepted
  <2> QED BY <2>1, <2>2, HeldKept
<1>3. ASSUME NEW c \in Txns, PrepareToFree(th, c)
      PROVE  HeldGate'
  <2>1. /\ pc[th] = "user" /\ pc'[th] = "gate" /\ cur'[th] = c
        /\ UNCHANGED <<isDead, asyncTodo, hasAsync, target, sender>>
        /\ \A x \in Threads : x # th => pc'[x] = pc[x] /\ cur'[x] = cur[x]
        /\ \A t \in Txns : t # c => buffer'[t] = buffer[t]
    BY <1>3 DEF PrepareToFree, procVars, nodeVars, TypeOK
  <2>2. \A t \in Txns : Held(t) => Held(t)'
    BY <2>1 DEF Held, Waiting, Accepted
  <2> QED BY <2>1, <2>2, HeldKept
<1>4. CASE FreeBuf(th)
  <2>1. PICK c \in Txns : c = cur[th]
    BY <1>4 DEF FreeBuf, TypeOK
  <2>2. /\ pc[th] = "free" /\ UNCHANGED <<isDead, asyncTodo, hasAsync, target, sender>>
        /\ \A x \in Threads : x # th => pc'[x] = pc[x] /\ cur'[x] = cur[x]
        /\ \A t \in Txns : t # c => buffer'[t] = buffer[t]
    BY <1>4, <2>1 DEF FreeBuf, procVars, nodeVars, TypeOK
  <2>3. buffer[c] = "freeing" /\ \A x \in Threads : pc[x] = "gate" => cur[x] # c
    BY <2>1, <2>2 DEF Gate, Located
  <2>4. \A t \in Txns : Held(t) => Held(t)'
    BY <2>2, <2>3 DEF Held, Waiting, Accepted
  <2> QED BY <2>2, <2>4, HeldKept
<1> QED BY <1>1, <1>2, <1>3, <1>4, OpenGateHeld DEF ThreadNext

LEMMA NextHeld ==
  ASSUME TypeOK, Phases, Gate, HeldGate, [Next]_vars
  PROVE  HeldGate'
<1>1. CASE ReleaseNext
  <2>1. isDead'
    BY <1>1 DEF ReleaseNext, ReleaseProc, ThreadsReleased, ReleaseTodo, ReleaseDone,
                ReleaseProcThread, ReleaseThread, ReleaseNode, procVars, Phases
  <2> QED BY <2>1 DEF HeldGate
<1>2. CASE UNCHANGED vars
  BY <1>2 DEF vars, procVars, nodeVars, listVars, threadVars, txnVars, HeldGate, Held,
              Waiting, Accepted
<1> QED BY <1>1, <1>2, SenderHeld, ThreadHeld DEF Next

\* While the process lives, a gate is closed only because of a transaction
\* that is in progress or was stranded: no failed sender and no freed buffer
\* leaves one closed behind it.
THEOREM GatesHaveHolders == Spec => []GateHasHolder
<1>1. Init => HeldGate
  BY DEF Init, HeldGate
<1>2. IInv /\ HeldGate /\ [Next]_vars => HeldGate'
  BY NextHeld DEF IInv, Gate
<1>3. TypeOK /\ HeldGate => GateHasHolder
  <2>1. \A t \in Txns : Held(t) => InProgress(t) \/ Stranded(t)
    BY DEF Held, InProgress, InHands, Stranded
  <2> QED BY <2>1 DEF HeldGate, GateHasHolder
<1>4. IInv => TypeOK
  BY DEF IInv
<1> QED BY <1>1, <1>2, <1>3, <1>4, InductiveInvariant, PTL DEF Spec

-----------------------------------------------------------------------------
(* Counting: the async space, and the references on the process.           *)

\* Adding an element to a finite set, or taking it away.
LEMMA CardStep ==
  ASSUME NEW T, IsFiniteSet(T), NEW A \in SUBSET T, NEW B \in SUBSET T, NEW x \in T,
         \A y \in T : y # x => (y \in A <=> y \in B)
  PROVE  /\ Cardinality(A) \in Nat /\ Cardinality(B) \in Nat
         /\ (x \in A <=> x \in B) => Cardinality(B) = Cardinality(A)
         /\ x \notin A /\ x \in B => Cardinality(B) = Cardinality(A) + 1
         /\ x \in A /\ x \notin B => Cardinality(B) = Cardinality(A) - 1
<1>1. IsFiniteSet(A) /\ IsFiniteSet(B)
  BY FS_Subset
<1>2. Cardinality(A) \in Nat /\ Cardinality(B) \in Nat
  BY <1>1, FS_CardinalityType
<1>3. CASE x \in A <=> x \in B
  <2>1. A = B
    BY <1>3
  <2> QED BY <1>2, <1>3, <2>1
<1>4. CASE x \notin A /\ x \in B
  <2>1. B = A \union {x}
    BY <1>4
  <2>2. Cardinality(A \union {x}) = Cardinality(A) + 1
    BY <1>1, <1>4, FS_AddElement
  <2> QED BY <1>2, <1>4, <2>1, <2>2
<1>5. CASE x \in A /\ x \notin B
  <2>1. A = B \union {x}
    BY <1>5
  <2>2. Cardinality(B \union {x}) = Cardinality(B) + 1
    BY <1>1, <1>5, FS_AddElement
  <2>3. Cardinality(A) = Cardinality(B) + 1
    BY <2>1, <2>2
  <2> QED BY <1>2, <1>5, <2>3
<1> QED BY <1>3, <1>4, <1>5

LiveBuffers == {t \in Txns : buffer[t] \in {"kernel", "user", "freeing"}}

SpaceAddsUp == asyncFree = AsyncSpace - Cardinality(LiveBuffers)

\* One buffer is allocated, passed on or freed.
LEMMA SpaceStep ==
  ASSUME TypeOK, SpaceAddsUp, NEW t \in Txns, NEW b \in BufferStates,
         buffer' = [buffer EXCEPT ![t] = b],
         asyncFree' =
           CASE buffer[t] \notin {"kernel", "user", "freeing"}
                  /\ b \in {"kernel", "user", "freeing"} -> asyncFree - 1
             [] buffer[t] \in {"kernel", "user", "freeing"}
                  /\ b \notin {"kernel", "user", "freeing"} -> asyncFree + 1
             [] OTHER -> asyncFree
  PROVE  SpaceAddsUp'
<1> DEFINE A == LiveBuffers
           B == LiveBuffers'
<1>1. A \in SUBSET Txns /\ B \in SUBSET Txns
  BY DEF LiveBuffers
<1>2. /\ \A y \in Txns : y # t => (y \in A <=> y \in B)
      /\ t \in A <=> buffer[t] \in {"kernel", "user", "freeing"}
      /\ t \in B <=> b \in {"kernel", "user", "freeing"}
  BY DEF LiveBuffers, TypeOK
<1>3. asyncFree = AsyncSpace - Cardinality(A) /\ AsyncSpace \in Nat
  BY AsyncAssumption DEF SpaceAddsUp
<1> HIDE DEF A, B
<1>4. /\ Cardinality(A) \in Nat /\ Cardinality(B) \in Nat
      /\ (t \in A <=> t \in B) => Cardinality(B) = Cardinality(A)
      /\ t \notin A /\ t \in B => Cardinality(B) = Cardinality(A) + 1
      /\ t \in A /\ t \notin B => Cardinality(B) = Cardinality(A) - 1
  BY <1>1, <1>2, FiniteAssumption, CardStep
<1>5. asyncFree' = AsyncSpace - Cardinality(B)
  BY <1>2, <1>3, <1>4
<1> QED BY <1>5 DEF SpaceAddsUp, B

LEMMA NextSpace ==
  ASSUME TypeOK, Gate, SpaceAddsUp, [Next]_vars
  PROVE  SpaceAddsUp'
<1> USE DEF BufferStates
<1>1. CASE UNCHANGED <<buffer, asyncFree>>
  BY <1>1 DEF SpaceAddsUp, LiveBuffers
<1>2. ASSUME NEW t \in Txns, SenderNext(t)
      PROVE  SpaceAddsUp'
  <2>1. CASE NewAsyncBuf(t)
    <3>1. buffer[t] = "none"
      BY <2>1 DEF NewAsyncBuf, Gate, Located
    <3>2. \/ UNCHANGED <<buffer, asyncFree>>
          \/ buffer' = [buffer EXCEPT ![t] = "kernel"] /\ asyncFree' = asyncFree - 1
      BY <2>1 DEF NewAsyncBuf
    <3> QED BY <1>1, <3>1, <3>2, SpaceStep
  <2>2. CASE ReleaseTxnBuf(t)
    <3>1. buffer[t] = "kernel"
      BY <2>2 DEF ReleaseTxnBuf, Gate, Located
    <3>2. buffer' = [buffer EXCEPT ![t] = "freed"] /\ asyncFree' = asyncFree + 1
      BY <2>2 DEF ReleaseTxnBuf
    <3> QED BY <3>1, <3>2, SpaceStep
  <2> QED BY <1>1, <1>2, <2>1, <2>2 DEF SenderNext, GetNodeRefs, ProcTransaction, DropRefs
<1>3. ASSUME NEW th \in Threads, ThreadNext(th)
      PROVE  SpaceAddsUp'
  <2>1. CASE Deliver(th)
    <3>1. PICK c \in Txns : c = cur[th]
      BY <2>1 DEF Deliver, TypeOK
    <3>2. buffer[c] = "kernel"
      BY <2>1, <3>1 DEF Deliver, Gate, Located
    <3>3. buffer' = [buffer EXCEPT ![c] = "user"] /\ asyncFree' = asyncFree
      BY <2>1, <3>1 DEF Deliver
    <3> QED BY <3>2, <3>3, SpaceStep
  <2>2. ASSUME NEW c \in Txns, PrepareToFree(th, c)
        PROVE  SpaceAddsUp'
    <3>1. buffer[c] = "user" /\ buffer' = [buffer EXCEPT ![c] = "freeing"]
          /\ asyncFree' = asyncFree
      BY <2>2 DEF PrepareToFree
    <3> QED BY <3>1, SpaceStep
  <2>3. CASE FreeBuf(th)
    <3>1. PICK c \in Txns : c = cur[th]
      BY <2>3 DEF FreeBuf, TypeOK
    <3>2. buffer[c] = "freeing"
      BY <2>3, <3>1 DEF FreeBuf, Gate, Located
    <3>3. buffer' = [buffer EXCEPT ![c] = "freed"] /\ asyncFree' = asyncFree + 1
      BY <2>3, <3>1 DEF FreeBuf
    <3> QED BY <3>2, <3>3, SpaceStep
  <2>4. CASE \/ ReadBegin(th) \/ WaitForWork(th) \/ WouldBlock(th) \/ Wake(th)
             \/ Interrupted(th) \/ Dequeue(th) \/ ShortBuffer(th) \/ DeliverFault(th)
             \/ ReadExit(th) \/ OpenGate(th) \/ ThreadExit(th)
    <3>1. UNCHANGED <<buffer, asyncFree>>
      BY <2>4 DEF ReadBegin, WaitForWork, WouldBlock, Wake, Interrupted, Resume, Dequeue,
                  ShortBuffer, DeliverFault, ReadExit, OpenGate, ThreadExit,
                  ReleaseThread, txnVars
    <3> QED BY <1>1, <3>1
  <2> QED BY <1>3, <2>1, <2>2, <2>3, <2>4 DEF ThreadNext
<1>4. CASE ReleaseNext
  BY <1>1, <1>4 DEF ReleaseNext, ReleaseProc, ThreadsReleased, ReleaseTodo, ReleaseDone,
     ReleaseProcThread, ReleaseThread, ReleaseNode, txnVars
<1>5. CASE UNCHANGED vars
  BY <1>1, <1>5 DEF vars, txnVars
<1> QED BY <1>2, <1>3, <1>4, <1>5 DEF Next

\* A buffer stays as long as its transaction is queued, waits or is being
\* delivered, and the async space is always what the buffers in use leave of
\* it: no path through binder_transaction, BC_FREE_BUFFER and the error paths
\* frees one twice or forgets to give its space back.
THEOREM BuffersLast == Spec => []BufferOutlivesTransaction
<1>1. Init => SpaceAddsUp
  <2> SUFFICES ASSUME Init PROVE SpaceAddsUp
    OBVIOUS
  <2>1. LiveBuffers = {}
    BY DEF Init, LiveBuffers
  <2>2. Cardinality(LiveBuffers) = 0
    BY <2>1, FS_EmptySet
  <2> QED BY <2>2, AsyncAssumption DEF Init, SpaceAddsUp
<1>2. IInv /\ SpaceAddsUp /\ [Next]_vars => SpaceAddsUp'
  BY NextSpace DEF IInv, Gate
<1>3. IInv /\ SpaceAddsUp => BufferOutlivesTransaction
  <2> SUFFICES ASSUME IInv, SpaceAddsUp PROVE BufferOutlivesTransaction
    OBVIOUS
  <2>1. \A t \in Txns : Queued(t) \/ Waiting(t) => buffer[t] = "kernel"
    BY DEF IInv, Located, Waiting, TypeOK
  <2>2. \A th \in Threads : pc[th] = "deliver" => buffer[cur[th]] = "kernel"
    BY DEF IInv, Located, TypeOK
  <2> QED BY <2>1, <2>2 DEF BufferOutlivesTransaction, SpaceAddsUp, LiveBuffers
<1> QED BY <1>1, <1>2, <1>3, InductiveInvariant, PTL DEF Spec

-----------------------------------------------------------------------------
(* The last reference on the process.                                      *)

\* The senders that hold a reference on the process.
Users == {t \in Txns : sender[t] \in {"refs", "built", "undo", "ok", "err"}}

\* binder_deferred_release holds one of its own.
Releasing == IF relPhase \in {"threads", "nodes", "todo"} THEN 1 ELSE 0

RefsCounted == tmpRef = Cardinality(Users) + Releasing

\* What is gone stays gone: after the threads no thread, after the nodes no
\* work on a list.
Emptied ==
    /\ relPhase \in {"nodes", "todo", "done"} => Live = {}
    /\ relPhase \in {"todo", "done"} =>
         procTodo = <<>> /\ \A n \in Nodes : ~nodeProc[n]
    /\ \A n \in Nodes : ~nodeProc[n] => asyncTodo[n] = <<>>

FreedAtLast == freed <=> relPhase = "done" /\ tmpRef = 0

LEMMA NextEmptied ==
  ASSUME TypeOK, Phases, Emptied, [Next]_vars
  PROVE  Emptied'
<1>1. ASSUME NEW t \in Txns, SenderNext(t)
      PROVE  Emptied'
  <2>1. UNCHANGED <<relPhase, nodeProc, pc>>
    BY <1>1 DEF SenderNext, GetNodeRefs, NewAsyncBuf, ReleaseTxnBuf, ProcTransaction,
                DropRefs, procVars, nodeVars, threadVars
  <2>2. CASE isDead
    <3>1. UNCHANGED <<procTodo, asyncTodo>>
      BY <1>1, <2>2 DEF SenderNext, GetNodeRefs, NewAsyncBuf, ReleaseTxnBuf,
                        ProcTransaction, DropRefs, listVars, nodeVars
    <3> QED BY <2>1, <3>1 DEF Emptied, Live
  <2>3. CASE ~isDead
    BY <2>1, <2>3 DEF Emptied, Phases
  <2> QED BY <2>2, <2>3
<1>2. ASSUME NEW th \in Threads, ThreadNext(th)
      PROVE  Emptied'
  <2>1. UNCHANGED <<relPhase, nodeProc>>
    BY <1>2 DEF ThreadNext, ReadBegin, WaitForWork, WouldBlock, Wake, Interrupted,
                Resume, Dequeue, ShortBuffer, Deliver, DeliverFault, ReadExit,
                PrepareToFree, OpenGate, FreeBuf, ThreadExit, ReleaseThread,
                nodeVars, procVars
  <2>2. relPhase = "no"
    BY <1>2 DEF ThreadNext, ReadBegin, WaitForWork, WouldBlock, Wake, Interrupted,
                Resume, Dequeue, ShortBuffer, Deliver, DeliverFault, ReadExit,
                PrepareToFree, OpenGate, FreeBuf, ThreadExit, Phases
  <2> QED BY <2>1, <2>2 DEF Emptied, Phases
<1>3. CASE ReleaseNext
  <2>1. CASE ReleaseProc \/ ThreadsReleased \/ ReleaseTodo \/ ReleaseDone
    BY <2>1 DEF ReleaseProc, ThreadsReleased, ReleaseTodo, ReleaseDone, Emptied, Live,
                nodeVars, threadVars, listVars
  <2>2. ASSUME NEW th \in Threads, ReleaseProcThread(th)
        PROVE  Emptied'
    BY <2>2 DEF ReleaseProcThread, ReleaseThread, Emptied, procVars, nodeVars
  <2>3. ASSUME NEW n \in Nodes, ReleaseNode(n)
        PROVE  Emptied'
    <3>1. /\ relPhase = "nodes" /\ UNCHANGED <<relPhase, procTodo, pc>>
          /\ asyncTodo'[n] = <<>>
          /\ \A m \in Nodes : m # n => /\ nodeProc'[m] = nodeProc[m]
                                       /\ asyncTodo'[m] = asyncTodo[m]
      BY <2>3 DEF ReleaseNode, procVars, listVars, threadVars, TypeOK
    <3> QED BY <3>1 DEF Emptied, Live
  <2> QED BY <1>3, <2>1, <2>2, <2>3 DEF ReleaseNext
<1>4. CASE UNCHANGED vars
  BY <1>4 DEF vars, procVars, nodeVars, listVars, threadVars, Emptied, Live
<1> QED BY <1>1, <1>2, <1>3, <1>4 DEF Next

\* A sender comes or goes.
LEMMA UsersStep ==
  ASSUME TypeOK, NEW t \in Txns, NEW v \in SenderStates,
         sender' = [sender EXCEPT ![t] = v]
  PROVE  /\ Cardinality(Users) \in Nat /\ Cardinality(Users') \in Nat
         /\ (t \in Users <=> v \in {"refs", "built", "undo", "ok", "err"}) =>
              Cardinality(Users') = Cardinality(Users)
         /\ t \notin Users /\ v \in {"refs", "built", "undo", "ok", "err"} =>
              Cardinality(Users') = Cardinality(Users) + 1
         /\ t \in Users /\ v \notin {"refs", "built", "undo", "ok", "err"} =>
              Cardinality(Users') = Cardinality(Users) - 1
<1> DEFINE A == Users
           B == Users'
<1>1. /\ A \in SUBSET Txns /\ B \in SUBSET Txns
      /\ \A y \in Txns : y # t => (y \in A <=> y \in B)
      /\ t \in B <=> v \in {"refs", "built", "undo", "ok", "err"}
  BY DEF Users, TypeOK
<1> HIDE DEF A, B
<1>2. /\ Cardinality(A) \in Nat /\ Cardinality(B) \in Nat
      /\ (t \in A <=> t \in B) => Cardinality(B) = Cardinality(A)
      /\ t \notin A /\ t \in B => Cardinality(B) = Cardinality(A) + 1
      /\ t \in A /\ t \notin B => Cardinality(B) = Cardinality(A) - 1
  BY <1>1, FiniteAssumption, CardStep
<1> QED BY <1>1, <1>2 DEF A, B

Refs == RefsCounted /\ FreedAtLast

LEMMA UsersNat == Cardinality(Users) \in Nat
<1>1. Users \in SUBSET Txns
  BY DEF Users
<1> QED BY <1>1, FiniteAssumption, FS_Subset, FS_CardinalityType

LEMMA SenderRefs ==
  ASSUME TypeOK, Phases, Emptied, Refs, NEW t \in Txns, SenderNext(t)
  PROVE  Refs'
<1>0. UNCHANGED <<isDead, relPhase, pc>> /\ Cardinality(Users) \in Nat
  BY UsersNat DEF SenderNext, GetNodeRefs, NewAsyncBuf, ReleaseTxnBuf, ProcTransaction,
         DropRefs, procVars, threadVars
<1>1. Releasing' = Releasing /\ Releasing \in {0, 1}
  BY <1>0 DEF Releasing
<1>2. CASE GetNodeRefs(t)
  <2>1. CASE nodeProc[target[t]]
    <3>1. /\ sender' = [sender EXCEPT ![t] = "refs"] /\ tmpRef' = tmpRef + 1
          /\ UNCHANGED freed /\ t \notin Users
      BY <1>2, <2>1 DEF GetNodeRefs, Users
    <3>2. Cardinality(Users') = Cardinality(Users) + 1
      BY <3>1, UsersStep DEF SenderStates
    <3>3. relPhase # "done"
      BY <2>1 DEF Emptied, TypeOK
    <3> QED BY <1>0, <1>1, <3>1, <3>2, <3>3 DEF Refs, RefsCounted, FreedAtLast
  <2>2. CASE ~nodeProc[target[t]]
    <3>1. /\ sender' = [sender EXCEPT ![t] = "failed"] /\ UNCHANGED <<tmpRef, freed>>
          /\ t \notin Users
      BY <1>2, <2>2 DEF GetNodeRefs, Users
    <3>2. Cardinality(Users') = Cardinality(Users)
      BY <3>1, UsersStep DEF SenderStates
    <3> QED BY <1>0, <1>1, <3>1, <3>2 DEF Refs, RefsCounted, FreedAtLast
  <2> QED BY <2>1, <2>2
<1>3. CASE NewAsyncBuf(t) \/ ReleaseTxnBuf(t) \/ ProcTransaction(t)
  <2>1. /\ \E v \in {"refs", "built", "undo", "ok", "err"} : sender' = [sender EXCEPT ![t] = v]
        /\ UNCHANGED <<tmpRef, freed>> /\ t \in Users
    BY <1>3 DEF NewAsyncBuf, ReleaseTxnBuf, ProcTransaction, Users, procVars
  <2>2. Cardinality(Users') = Cardinality(Users)
    BY <2>1, UsersStep DEF SenderStates
  <2> QED BY <1>0, <1>1, <2>1, <2>2 DEF Refs, RefsCounted, FreedAtLast
<1>4. CASE DropRefs(t)
  <2>1. /\ \E v \in {"sent", "failed"} : sender' = [sender EXCEPT ![t] = v]
        /\ ProcDecTmpref /\ t \in Users
    BY <1>4 DEF DropRefs, Users
  <2>2. /\ Cardinality(Users') = Cardinality(Users) - 1
        /\ Cardinality(Users') \in Nat
    BY <2>1, UsersStep DEF SenderStates
  <2>3. RefsCounted'
    BY <1>0, <1>1, <2>1, <2>2 DEF Refs, RefsCounted, ProcDecTmpref
  <2>4. freed' <=> isDead /\ Live = {} /\ tmpRef' = 0
    BY <2>1 DEF ProcDecTmpref
  <2>5. tmpRef' = 0 => relPhase \in {"no", "done"}
    BY <1>0, <1>1, <2>2, <2>3 DEF RefsCounted, Releasing, TypeOK, RelPhases
  <2>6. relPhase = "done" => Live = {} /\ isDead
    BY DEF Emptied, Phases
  <2>7. relPhase = "no" => ~isDead
    BY DEF Phases
  <2>8. FreedAtLast'
    BY <1>0, <2>4, <2>5, <2>6, <2>7 DEF FreedAtLast
  <2> QED BY <2>3, <2>8 DEF Refs
<1> QED BY <1>2, <1>3, <1>4 DEF SenderNext

LEMMA NextRefs ==
  ASSUME TypeOK, Phases, Emptied, Refs, [Next]_vars
  PROVE  Refs'
<1>0. Cardinality(Users) \in Nat
  BY UsersNat
<1>1. CASE UNCHANGED <<relPhase, tmpRef, freed, sender>>
  BY <1>1 DEF Refs, RefsCounted, FreedAtLast, Users, Releasing
<1>2. ASSUME NEW th \in Threads, ThreadNext(th)
      PROVE  Refs'
  BY <1>1, <1>2 DEF ThreadNext, ReadBegin, WaitForWork, WouldBlock, Wake, Interrupted,
     Resume, Dequeue, ShortBuffer, Deliver, DeliverFault, ReadExit, PrepareToFree,
     OpenGate, FreeBuf, ThreadExit, ReleaseThread, procVars, txnVars
<1>3. CASE ReleaseNext
  <2>1. CASE ReleaseProc
    <3>1. /\ relPhase = "no" /\ relPhase' = "threads" /\ tmpRef' = tmpRef + 1
          /\ UNCHANGED <<freed, sender>>
      BY <2>1 DEF ReleaseProc, txnVars
    <3>2. Users' = Users /\ Releasing = 0 /\ Releasing' = 1
      BY <3>1 DEF Users, Releasing
    <3> QED BY <1>0, <3>1, <3>2 DEF Refs, RefsCounted, FreedAtLast
  <2>2. CASE ThreadsReleased \/ ReleaseTodo
    <3>1. /\ relPhase \in {"threads", "nodes"} /\ relPhase' \in {"nodes", "todo"}
          /\ UNCHANGED <<tmpRef, freed, sender>>
      BY <2>2 DEF ThreadsReleased, ReleaseTodo, txnVars
    <3>2. Users' = Users /\ Releasing = 1 /\ Releasing' = 1
      BY <3>1 DEF Users, Releasing
    <3> QED BY <1>0, <3>1, <3>2 DEF Refs, RefsCounted, FreedAtLast
  <2>3. CASE ReleaseDone
    <3>1. /\ relPhase = "todo" /\ relPhase' = "done" /\ tmpRef' = tmpRef - 1
          /\ freed' <=> isDead /\ Live = {} /\ tmpRef' = 0
          /\ UNCHANGED sender
      BY <2>3 DEF ReleaseDone, ProcDecTmpref, txnVars
    <3>2. Users' = Users /\ Releasing = 1 /\ Releasing' = 0
      BY <3>1 DEF Users, Releasing
    <3>3. isDead /\ Live = {}
      BY <3>1 DEF Phases, Emptied
    <3>4. RefsCounted'
      BY <1>0, <3>1, <3>2 DEF Refs, RefsCounted
    <3> QED BY <3>1, <3>3, <3>4 DEF Refs, FreedAtLast
  <2>4. CASE \/ \E th \in Threads : ReleaseProcThread(th)
             \/ \E n \in Nodes : ReleaseNode(n)
    BY <1>1, <2>4 DEF ReleaseProcThread, ReleaseThread, ReleaseNode, procVars, txnVars
  <2> QED BY <1>3, <2>1, <2>2, <2>3, <2>4 DEF ReleaseNext
<1>4. CASE UNCHANGED vars
  BY <1>1, <1>4 DEF vars, procVars, txnVars
<1> QED BY <1>2, <1>3, <1>4, SenderRefs DEF Next

\* What the theorem below rests on: tmp_ref counts the senders and the
\* release itself, and the process is freed when the count ends.
LEMMA RefsInvariant == Spec => [](IInv /\ Emptied /\ Refs)
<1>1. Init => Emptied /\ Refs
  <2> SUFFICES ASSUME Init PROVE Emptied /\ Refs
    OBVIOUS
  <2>1. Users = {} /\ Releasing = 0
    BY DEF Init, Users, Releasing
  <2>2. Cardinality(Users) = 0
    BY <2>1, FS_EmptySet
  <2> QED BY <2>1, <2>2 DEF Init, Emptied, Refs, RefsCounted, FreedAtLast
<1>2. IInv /\ Emptied /\ Refs /\ [Next]_vars => Emptied' /\ Refs'
  BY NextEmptied, NextRefs DEF IInv
<1> QED BY <1>1, <1>2, InductiveInvariant, PTL DEF Spec

LEMMA NoUserLeft ==
  Cardinality(Users) = 0 <=> \A t \in Txns : t \notin Users
<1>1. Users \in SUBSET Txns
  BY DEF Users
<1>2. IsFiniteSet(Users)
  BY <1>1, FiniteAssumption, FS_Subset
<1>3. Cardinality(Users) = 0 <=> Users = {}
  BY <1>2, FS_EmptySet
<1> QED BY <1>1, <1>3

\* A process that is gone is freed by whoever gives back the last reference,
\* once the release is done and no sender uses it: binder_free_proc finds the
\* lists of the process and of its nodes empty.
THEOREM FreedByTheLast == Spec => []FreedWhenDone
<1>1. IInv /\ Emptied /\ Refs => FreedWhenDone
  <2> SUFFICES ASSUME IInv, Emptied, Refs PROVE FreedWhenDone
    OBVIOUS
  <2>1. \A t \in Txns : t \notin Users <=> sender[t] \in {"idle", "sent", "failed"}
    BY DEF Users, IInv, TypeOK, SenderStates
  <2>2. Cardinality(Users) = 0 <=> \A t \in Txns : sender[t] \in {"idle", "sent", "failed"}
    BY <2>1, NoUserLeft
  <2>3. relPhase = "done" => Releasing = 0
    BY DEF Releasing
  <2>4. relPhase = "done" => (tmpRef = 0 <=> Cardinality(Users) = 0)
    BY <2>3, UsersNat DEF Refs, RefsCounted
  <2>5. freed => procTodo = <<>> /\ \A n \in Nodes : asyncTodo[n] = <<>>
    BY DEF Refs, FreedAtLast, Emptied
  <2> QED BY <2>2, <2>4, <2>5 DEF Refs, FreedAtLast, FreedWhenDone
<1> QED BY <1>1, RefsInvariant, PTL

-----------------------------------------------------------------------------
(* Sequences of one element, and what is put before and after another.     *)

LEMMA SeqOfNone == SetToSeq({}) = <<>>
<1>1. Cardinality({}) = 0
  BY FS_EmptySet
<1>2. 1 .. 0 = {}
  OBVIOUS
<1> DEFINE F == [1 .. 0 -> {}]
<1>3. <<>> \in F /\ IsInjective(<<>>)
  BY DEF IsInjective
<1>4. \A f \in F : f = <<>>
  OBVIOUS
<1>5. (CHOOSE f \in F : IsInjective(f)) \in F
  BY <1>3
<1> QED BY <1>1, <1>4, <1>5 DEF SetToSeq

LEMMA SeqOfOne ==
  ASSUME NEW x
  PROVE  SetToSeq({x}) = <<x>>
<1>1. Cardinality({x}) = 1
  BY FS_Singleton
<1> DEFINE F == [1 .. 1 -> {x}]
<1>2. <<x>> \in F /\ IsInjective(<<x>>)
  BY DEF IsInjective
<1>3. \A f \in F : f = <<x>>
  OBVIOUS
<1>4. (CHOOSE f \in F : IsInjective(f)) \in F
  BY <1>2
<1> QED BY <1>1, <1>3, <1>4 DEF SetToSeq

LEMMA FirstThenRest ==
  ASSUME NEW S, NEW s \in Seq(S), NEW e \in S
  PROVE  /\ <<e>> \o s \in Seq(S) /\ <<e>> \o s # <<>>
         /\ Head(<<e>> \o s) = e /\ Tail(<<e>> \o s) = s
<1> DEFINE one == <<e>>
           c == one \o s
<1>1. one \in Seq(S) /\ Len(one) = 1 /\ one[1] = e
  OBVIOUS
<1>2. Len(s) \in Nat /\ DOMAIN s = 1 .. Len(s)
  BY LenProperties
<1> HIDE DEF one
<1>a. /\ c \in Seq(S) /\ Len(c) = Len(one) + Len(s)
      /\ \A i \in 1 .. Len(one) + Len(s) :
           c[i] = IF i <= Len(one) THEN one[i] ELSE s[i - Len(one)]
  BY <1>1, ConcatProperties, Zenon
<1>3. /\ c \in Seq(S) /\ Len(c) = 1 + Len(s)
      /\ \A i \in 1 .. 1 + Len(s) : c[i] = IF i <= 1 THEN one[i] ELSE s[i - 1]
  BY <1>1, <1>a
<1> HIDE DEF c
<1>4. c # <<>> /\ Head(c) = e
  <2>1. c # <<>>
    BY <1>2, <1>3, EmptySeq
  <2>2. Head(c) = c[1]
    BY <1>3, <2>1
  <2> QED BY <1>1, <1>2, <1>3, <2>1, <2>2
<1>5. /\ Tail(c) \in Seq(S) /\ Len(Tail(c)) = Len(s)
      /\ \A i \in 1 .. Len(s) : Tail(c)[i] = s[i]
  <2>1. /\ Tail(c) \in Seq(S) /\ Len(Tail(c)) = Len(c) - 1
        /\ \A i \in 1 .. Len(Tail(c)) : Tail(c)[i] = c[i + 1]
    BY <1>3, <1>4, HeadTailProperties
  <2>2. Len(Tail(c)) = Len(s)
    BY <1>2, <1>3, <2>1
  <2>3. ASSUME NEW i \in 1 .. Len(s)
        PROVE  Tail(c)[i] = s[i]
    <3>1. i + 1 \in 1 .. 1 + Len(s) /\ ~(i + 1 <= 1) /\ (i + 1) - 1 = i
      BY <1>2
    <3> QED BY <1>3, <2>1, <2>2, <3>1
  <2> QED BY <2>1, <2>2, <2>3
<1>6. Tail(c) = s
  BY <1>2, <1>5, SeqEqual
<1> QED BY <1>3, <1>4, <1>6 DEF c, one

LEMMA HeadThenTail ==
  ASSUME NEW S, NEW s \in Seq(S), s # <<>>
  PROVE  <<Head(s)>> \o Tail(s) = s
<1> DEFINE one == <<Head(s)>>
           r == Tail(s)
<1>1. /\ Head(s) \in S /\ Head(s) = s[1] /\ r \in Seq(S) /\ Len(r) = Len(s) - 1
      /\ \A i \in 1 .. Len(r) : r[i] = s[i + 1]
  BY HeadTailProperties
<1>2. Len(s) \in Nat /\ Len(s) # 0
  BY EmptySeq, LenProperties
<1>3. one \in Seq(S) /\ Len(one) = 1 /\ one[1] = s[1]
  BY <1>1
<1> HIDE DEF one, r
<1>a. one \in Seq(S) /\ r \in Seq(S)
  BY <1>1, <1>3
<1>4. /\ one \o r \in Seq(S) /\ Len(one \o r) = Len(one) + Len(r)
      /\ \A i \in 1 .. Len(one) + Len(r) :
           (one \o r)[i] = IF i <= Len(one) THEN one[i] ELSE r[i - Len(one)]
  BY <1>a, ConcatProperties, Zenon
<1>5. Len(one \o r) = Len(s)
  BY <1>1, <1>2, <1>3, <1>4
<1>6. ASSUME NEW i \in 1 .. Len(s)
      PROVE  (one \o r)[i] = s[i]
  <2>1. i \in 1 .. 1 + Len(r)
    BY <1>1, <1>2
  <2>2. CASE i = 1
    BY <1>3, <1>4, <2>1, <2>2
  <2>3. CASE i # 1
    <3>1. i - 1 \in 1 .. Len(r) /\ (i - 1) + 1 = i /\ ~(i <= 1)
      BY <1>1, <1>2, <2>3
    <3> QED BY <1>1, <1>3, <1>4, <2>1, <3>1
  <2> QED BY <2>2, <2>3
<1>7. one \o r = s
  BY <1>4, <1>5, <1>6, SeqEqual
<1> QED BY <1>7 DEF one, r

LEMMA TailAndHead ==
  ASSUME NEW S, NEW s \in Seq(S), s # <<>>
  PROVE  Head(s) \in S /\ ToSet(s) \subseteq ToSet(Tail(s)) \union {Head(s)}
<1> DEFINE r == Tail(s)
<1>1. /\ Head(s) \in S /\ Head(s) = s[1] /\ r \in Seq(S) /\ Len(r) = Len(s) - 1
      /\ \A i \in 1 .. Len(r) : r[i] = s[i + 1]
  BY HeadTailProperties
<1>2. /\ Len(s) \in Nat /\ DOMAIN s = 1 .. Len(s)
      /\ DOMAIN r = 1 .. Len(r)
  BY <1>1, LenProperties
<1> HIDE DEF r
<1>3. ASSUME NEW i \in DOMAIN s
      PROVE  s[i] \in ToSet(r) \union {Head(s)}
  <2>1. CASE i = 1
    BY <1>1, <2>1
  <2>2. CASE i # 1
    <3>1. i - 1 \in DOMAIN r /\ i - 1 \in 1 .. Len(r) /\ (i - 1) + 1 = i
      BY <1>1, <1>2, <2>2
    <3>2. r[i - 1] = s[i]
      BY <1>1, <3>1
    <3> QED BY <3>1, <3>2 DEF ToSet
  <2> QED BY <2>1, <2>2
<1>4. ToSet(s) \subseteq ToSet(r) \union {Head(s)}
  BY <1>3 DEF ToSet
<1> QED BY <1>1, <1>4 DEF r

-----------------------------------------------------------------------------
(* Two more invariants: one transaction holds a gate, and a thread's own   *)
(* list is never longer than one.                                          *)

OneHeld ==
    ~isDead =>
      /\ \A t \in Txns : Held(t) => hasAsync[target[t]]
      /\ \A t, u \in Txns : Held(t) /\ Held(u) /\ target[t] = target[u] => t = u

OneOwn ==
    \A th \in Threads :
      todo[th] # <<>> => Len(todo[th]) = 1 /\ th \notin ToSet(waiting)

\* Steps that open no gate and after which nobody else holds one.
LEMMA OneHeldKept ==
  ASSUME TypeOK, OneHeld, isDead => isDead', UNCHANGED target,
         \A n \in Nodes : hasAsync[n] => hasAsync'[n],
         \A t \in Txns : Held(t)' => Held(t)
  PROVE  OneHeld'
BY DEF OneHeld, TypeOK

LEMMA SenderOneHeld ==
  ASSUME TypeOK, Gate, OneHeld, NEW t \in Txns, SenderNext(t)
  PROVE  OneHeld'
<1>1. /\ UNCHANGED <<isDead, target, pc, cur>>
      /\ \A n \in Nodes : hasAsync[n] => hasAsync'[n]
  BY DEF SenderNext, GetNodeRefs, NewAsyncBuf, ReleaseTxnBuf, ProcTransaction,
         DropRefs, nodeVars, threadVars, procVars, TypeOK
<1>2. \A u \in Txns : u # t => sender'[u] = sender[u] /\ buffer'[u] = buffer[u]
  BY DEF SenderNext, GetNodeRefs, NewAsyncBuf, ReleaseTxnBuf, ProcTransaction,
         DropRefs, TypeOK
<1>3. CASE DropRefs(t)
  <2>1. /\ UNCHANGED <<asyncTodo, hasAsync, buffer>>
        /\ Accepted(t) <=> Accepted(t)'
    BY <1>3 DEF DropRefs, nodeVars, Accepted, TypeOK
  <2>2. \A u \in Txns : Accepted(u) <=> Accepted(u)'
    BY <1>2, <2>1 DEF Accepted
  <2>3. \A u \in Txns : Held(u)' => Held(u)
    BY <1>1, <2>1, <2>2 DEF Held, Waiting
  <2> QED BY <1>1, <2>3, OneHeldKept
<1>4. CASE sender[t] \in {"idle", "refs", "built", "undo"} /\ ~isDead
  <2>1. \A u \in Txns : u # t => (Accepted(u)' <=> Accepted(u))
    BY <1>2 DEF Accepted
  <2>2. \A n \in Nodes : ToSet(asyncTodo[n]) \subseteq ToSet(asyncTodo'[n])
    <3>1. \A n \in Nodes : asyncTodo'[n] \in {asyncTodo[n], Append(asyncTodo[n], t)}
      BY DEF SenderNext, GetNodeRefs, NewAsyncBuf, ReleaseTxnBuf, ProcTransaction,
             DropRefs, nodeVars, TypeOK
    <3>2. \A n \in Nodes : ToSet(Append(asyncTodo[n], t)) = ToSet(asyncTodo[n]) \union {t}
      BY AppendElements DEF TypeOK
    <3> QED BY <3>1, <3>2
  <2>3. \A u \in Txns : u # t /\ Held(u)' => Held(u)
    BY <1>1, <1>2, <2>1, <2>2 DEF Held, Waiting, TypeOK
  <2>4. \A th \in Threads : pc[th] = "gate" => cur[th] # t
    BY <1>4, NotAccepted DEF Hands
  <2>5. CASE ~ProcTransaction(t) \/ hasAsync[target[t]]
    <3>1. buffer'[t] # "user"
      BY <1>4, NotAccepted DEF SenderNext, GetNodeRefs, NewAsyncBuf, ReleaseTxnBuf,
             ProcTransaction, DropRefs, TypeOK
    <3>2. Accepted(t)' => Waiting(t)'
      <4>1. CASE ProcTransaction(t) /\ hasAsync[target[t]]
        <5>1. asyncTodo'[target[t]] = Append(asyncTodo[target[t]], t)
          BY <1>4, <4>1 DEF ProcTransaction, TypeOK
        <5>2. t \in ToSet(Append(asyncTodo[target[t]], t))
          BY AppendElements DEF TypeOK
        <5> QED BY <1>1, <5>1, <5>2 DEF Waiting
      <4>2. CASE ~ProcTransaction(t)
        BY <1>4, <4>2 DEF SenderNext, GetNodeRefs, NewAsyncBuf, ReleaseTxnBuf, DropRefs,
               Accepted, TypeOK
      <4> QED BY <2>5, <4>1, <4>2
    <3>3. ~Held(t)'
      BY <1>1, <2>4, <3>1, <3>2 DEF Held
    <3> QED BY <1>1, <2>3, <3>3, OneHeldKept
  <2>6. CASE ProcTransaction(t) /\ ~hasAsync[target[t]]
    <3>1. hasAsync'[target[t]]
      BY <2>6 DEF ProcTransaction, TypeOK
    <3>2. \A u \in Txns : Held(u) => target[u] # target[t]
      BY <1>4, <2>6 DEF OneHeld
    <3> QED BY <1>1, <1>4, <2>3, <3>1, <3>2 DEF OneHeld, TypeOK
  <2> QED BY <2>5, <2>6
<1>5. CASE isDead
  BY <1>1, <1>5 DEF OneHeld
<1> QED BY <1>3, <1>4, <1>5 DEF SenderNext, GetNodeRefs, NewAsyncBuf, ReleaseTxnBuf,
           ProcTransaction

LEMMA OpenGateOneHeld ==
  ASSUME TypeOK, Gate, OneHeld, ~isDead, NEW th \in Threads, OpenGate(th)
  PROVE  OneHeld'
<1>1. PICK c \in Txns : c = cur[th]
  BY DEF OpenGate, TypeOK
<1>2. PICK n \in Nodes : n = target[c]
  BY DEF TypeOK
<1>3. /\ pc[th] = "gate" /\ pc'[th] = "free"
      /\ UNCHANGED <<isDead, target, sender, buffer, cur>>
      /\ \A x \in Threads : x # th => pc'[x] = pc[x]
  BY DEF OpenGate, GoTo, procVars, txnVars, TypeOK
<1>4. Held(c) /\ buffer[c] = "freeing" /\ \A x \in Threads : pc[x] = "gate" /\ cur[x] = c => x = th
  BY <1>1, <1>3 DEF Held, Gate, Located
<1>5. ~Held(c)'
  BY <1>3, <1>4 DEF Held
<1>6. \A t \in Txns : Held(t) /\ target[t] = n => t = c
  BY <1>2, <1>4 DEF OneHeld
<1>7. CASE asyncTodo[n] = <<>>
  <2>1. /\ UNCHANGED asyncTodo
        /\ \A m \in Nodes : m # n => hasAsync'[m] = hasAsync[m]
    BY <1>1, <1>2, <1>7 DEF OpenGate, TypeOK
  <2>2. \A t \in Txns : Held(t)' => Held(t)
    BY <1>3, <2>1 DEF Held, Waiting, Accepted
  <2> QED BY <1>3, <1>5, <1>6, <2>1, <2>2 DEF OneHeld, TypeOK
<1>8. CASE asyncTodo[n] # <<>>
  <2>1. /\ UNCHANGED hasAsync /\ asyncTodo'[n] = Tail(asyncTodo[n])
        /\ \A m \in Nodes : m # n => asyncTodo'[m] = asyncTodo[m]
    BY <1>1, <1>2, <1>8 DEF OpenGate, TypeOK
  <2>2. PICK h \in Txns : ToSet(asyncTodo[n]) \subseteq ToSet(Tail(asyncTodo[n])) \union {h}
    BY <1>8, TailAndHead DEF TypeOK
  <2>3. \A t \in Txns : Held(t)' => Held(t) \/ (t = h /\ target[t] = n)
    <3>1. \A t \in Txns : Waiting(t) => Waiting(t)' \/ (t = h /\ target[t] = n)
      BY <1>3, <2>1, <2>2 DEF Waiting, TypeOK
    <3>2. \A t \in Txns : Accepted(t)' <=> Accepted(t)
      BY <1>3 DEF Accepted
    <3> QED BY <1>3, <3>1, <3>2 DEF Held
  <2>4. hasAsync[n]
    BY <1>2, <1>4 DEF OneHeld
  <2>5. /\ \A t \in Txns : Held(t)' /\ target[t] = n => t = h
        /\ \A t \in Txns : Held(t)' /\ target[t] # n => Held(t)
    BY <1>5, <1>6, <2>3
  <2>6. \A t \in Txns : Held(t)' => hasAsync'[target'[t]]
    BY <1>3, <2>1, <2>4, <2>5 DEF OneHeld
  <2>7. ASSUME NEW t \in Txns, NEW u \in Txns, Held(t)', Held(u)', target'[t] = target'[u]
        PROVE  t = u
    <3>1. CASE target[t] = n
      BY <1>3, <2>5, <2>7, <3>1
    <3>2. CASE target[t] # n
      BY <1>3, <2>5, <2>7, <3>2 DEF OneHeld
    <3> QED BY <3>1, <3>2
  <2> QED BY <2>6, <2>7 DEF OneHeld
<1> QED BY <1>7, <1>8

LEMMA ThreadOneHeld ==
  ASSUME TypeOK, Phases, Gate, OneHeld, NEW th \in Threads, ThreadNext(th)
  PROVE  OneHeld'
<1> USE DEF GoTo
<1>0. ~isDead
  BY DEF ThreadNext, ReadBegin, WaitForWork, WouldBlock, Wake, Interrupted,
         Resume, Dequeue, ShortBuffer, Deliver, DeliverFault, ReadExit,
         PrepareToFree, OpenGate, FreeBuf, ThreadExit, Phases
<1>1. CASE \/ ReadBegin(th) \/ WaitForWork(th) \/ WouldBlock(th) \/ Wake(th)
           \/ Interrupted(th) \/ Dequeue(th) \/ ShortBuffer(th) \/ DeliverFault(th)
           \/ ReadExit(th) \/ ThreadExit(th)
  <2>1. /\ UNCHANGED <<isDead, asyncTodo, hasAsync, target, buffer, sender>>
        /\ pc'[th] # "gate"
    BY <1>1 DEF ReadBegin, WaitForWork, WouldBlock, Wake, Interrupted, Resume, Dequeue,
                ShortBuffer, DeliverFault, ReadExit, ThreadExit, ReleaseThread,
                procVars, nodeVars, txnVars, TypeOK
  <2>2. \A x \in Threads : x # th => pc'[x] = pc[x] /\ cur'[x] = cur[x]
    BY <1>1 DEF ReadBegin, WaitForWork, WouldBlock, Wake, Interrupted, Resume, Dequeue,
                ShortBuffer, DeliverFault, ReadExit, ThreadExit, ReleaseThread, TypeOK
  <2>3. \A t \in Txns : Held(t)' => Held(t)
    BY <2>1, <2>2 DEF Held, Waiting, Accepted
  <2> QED BY <2>1, <2>3, OneHeldKept
<1>2. CASE Deliver(th)
  <2>1. PICK c \in Txns : c = cur[th]
    BY <1>2 DEF Deliver, TypeOK
  <2>2. /\ pc[th] = "deliver" /\ pc'[th] = "exit"
        /\ UNCHANGED <<isDead, asyncTodo, hasAsync, target, sender, cur>>
        /\ \A x \in Threads : x # th => pc'[x] = pc[x]
        /\ \A t \in Txns : t # c => buffer'[t] = buffer[t]
    BY <1>2, <2>1 DEF Deliver, procVars, nodeVars, TypeOK
  <2>3. Held(c)
    BY <2>1, <2>2 DEF Held, Gate, Located
  <2>4. \A t \in Txns : Held(t)' => Held(t)
    BY <2>2, <2>3 DEF Held, Waiting, Accepted
  <2> QED BY <2>2, <2>4, OneHeldKept
<1>3. ASSUME NEW c \in Txns, PrepareToFree(th, c)
      PROVE  OneHeld'
  <2>1. /\ pc[th] = "user" /\ buffer[c] = "user" /\ cur'[th] = c
        /\ UNCHANGED <<isDead, asyncTodo, hasAsync, target, sender>>
        /\ \A x \in Threads : x # th => pc'[x] = pc[x] /\ cur'[x] = cur[x]
        /\ \A t \in Txns : t # c => buffer'[t] = buffer[t]
    BY <1>3 DEF PrepareToFree, procVars, nodeVars, TypeOK
  <2>2. Held(c)
    BY <2>1 DEF Held
  <2>3. \A t \in Txns : Held(t)' => Held(t)
    BY <2>1, <2>2 DEF Held, Waiting, Accepted
  <2> QED BY <2>1, <2>3, OneHeldKept
<1>4. CASE FreeBuf(th)
  <2>1. PICK c \in Txns : c = cur[th]
    BY <1>4 DEF FreeBuf, TypeOK
  <2>2. /\ pc'[th] = "user" /\ buffer'[c] = "freed"
        /\ UNCHANGED <<isDead, asyncTodo, hasAsync, target, sender>>
        /\ \A x \in Threads : x # th => pc'[x] = pc[x] /\ cur'[x] = cur[x]
        /\ \A t \in Txns : t # c => buffer'[t] = buffer[t]
    BY <1>4, <2>1 DEF FreeBuf, procVars, nodeVars, TypeOK
  <2>3. \A t \in Txns : Held(t)' => Held(t)
    BY <2>2 DEF Held, Waiting, Accepted
  <2> QED BY <2>2, <2>3, OneHeldKept
<1> QED BY <1>0, <1>1, <1>2, <1>3, <1>4, OpenGateOneHeld DEF ThreadNext

LEMMA NextOneHeld ==
  ASSUME TypeOK, Phases, Gate, OneHeld, [Next]_vars
  PROVE  OneHeld'
<1>1. CASE ReleaseNext
  <2>1. isDead'
    BY <1>1 DEF ReleaseNext, ReleaseProc, ThreadsReleased, ReleaseTodo, ReleaseDone,
                ReleaseProcThread, ReleaseThread, ReleaseNode, procVars, Phases
  <2> QED BY <2>1 DEF OneHeld
<1>2. CASE UNCHANGED vars
  BY <1>2 DEF vars, procVars, nodeVars, listVars, threadVars, txnVars, OneHeld, Held,
              Waiting, Accepted
<1> QED BY <1>1, <1>2, SenderOneHeld, ThreadOneHeld DEF Next

LEMMA TailOfOne ==
  ASSUME NEW S, NEW s \in Seq(S), Len(s) = 1
  PROVE  Tail(s) = <<>>
<1>1. s # <<>>
  BY EmptySeq
<1>2. Tail(s) \in Seq(S) /\ Len(Tail(s)) = 0
  BY <1>1, HeadTailProperties
<1> QED BY <1>2, EmptySeq

\* Steps that give no thread work of its own.
LEMMA OneOwnKept ==
  ASSUME TypeOK, OneOwn,
         \A x \in Threads : todo'[x] \in {todo[x], <<>>},
         \A x \in ToSet(waiting') : x \in ToSet(waiting) \/ todo'[x] = <<>>
  PROVE  OneOwn'
BY DEF OneOwn

LEMMA NextOneOwn ==
  ASSUME TypeOK, ThreadListed, OwnWork, OneOwn, [Next]_vars
  PROVE  OneOwn'
<1>0. ASSUME WakeupProc
      PROVE  ToSet(waiting') \subseteq ToSet(waiting)
  BY <1>0, WakeupListed
<1>1. ASSUME NEW t \in Txns, SenderNext(t)
      PROVE  OneOwn'
  <2>1. CASE UNCHANGED <<todo, waiting>>
    BY <2>1, OneOwnKept
  <2>2. CASE QueueForDelivery(t) /\ waiting # <<>>
    <3>1. PICK h \in Threads : h = Head(waiting)
      BY <2>2, TailElements DEF TypeOK
    <3>2. /\ todo' = [todo EXCEPT ![h] = Append(@, t)] /\ waiting' = Tail(waiting)
      BY <2>2, <3>1 DEF QueueForDelivery, WakeupProc
    <3>3. /\ h \in ToSet(waiting) /\ h \notin ToSet(waiting')
          /\ ToSet(waiting') \subseteq ToSet(waiting)
      BY <2>2, <3>1, <3>2, TailElements DEF TypeOK, ThreadListed
    <3>4. todo[h] = <<>>
      BY <3>3 DEF OneOwn
    <3>5. Len(todo'[h]) = 1
      <4>1. todo'[h] = Append(<<>>, t)
        BY <3>2, <3>4 DEF TypeOK
      <4> QED BY <4>1
    <3>6. \A x \in Threads : x # h => todo'[x] = todo[x]
      BY <3>2 DEF TypeOK
    <3> QED BY <3>3, <3>5, <3>6 DEF OneOwn
  <2> QED BY <1>1, <2>1, <2>2 DEF SenderNext, GetNodeRefs, NewAsyncBuf, ReleaseTxnBuf,
             ProcTransaction, DropRefs, QueueForDelivery, listVars
<1>2. ASSUME NEW th \in Threads, ThreadNext(th)
      PROVE  OneOwn'
  <2>1. CASE WaitForWork(th)
    <3>1. UNCHANGED todo
      BY <2>1 DEF WaitForWork
    <3>2. CASE HasWork(th) \/ ~doProc[th]
      BY <2>1, <3>1, <3>2, OneOwnKept DEF WaitForWork
    <3>3. CASE ~HasWork(th) /\ doProc[th]
      <4>1. waiting' = <<th>> \o waiting /\ todo[th] = <<>>
        BY <2>1, <3>3 DEF WaitForWork, HasWork, OwnWork
      <4>2. ToSet(waiting') = ToSet(waiting) \union {th}
        BY <4>1, ConsElements DEF TypeOK
      <4> QED BY <3>1, <4>1, <4>2, OneOwnKept
    <3> QED BY <3>2, <3>3
  <2>2. ASSUME NEW where \in {"wait", "exit"}, Resume(th, where)
        PROVE  OneOwn'
    <3>1. UNCHANGED todo /\ ToSet(waiting') \subseteq ToSet(waiting)
      BY <2>2, RemoveAtElements DEF Resume, Unlist, TypeOK
    <3> QED BY <3>1, OneOwnKept
  <2>3. CASE Dequeue(th)
    <3>1. /\ UNCHANGED waiting /\ \A x \in Threads : x # th => todo'[x] = todo[x]
          /\ todo'[th] = todo[th] \/ (todo[th] # <<>> /\ todo'[th] = Tail(todo[th]))
      BY <2>3 DEF Dequeue, TypeOK
    <3>2. todo[th] # <<>> => Tail(todo[th]) = <<>>
      BY TailOfOne DEF OneOwn, TypeOK
    <3> QED BY <3>1, <3>2, OneOwnKept
  <2>4. CASE ReadExit(th) \/ OpenGate(th)
    <3>1. UNCHANGED todo /\ (WakeupProc \/ UNCHANGED waiting)
      BY <2>4 DEF ReadExit, OpenGate
    <3> QED BY <1>0, <3>1, OneOwnKept
  <2>5. CASE \/ ReadBegin(th) \/ WouldBlock(th) \/ ShortBuffer(th) \/ Deliver(th)
             \/ DeliverFault(th) \/ FreeBuf(th) \/ ThreadExit(th)
             \/ \E t \in Txns : PrepareToFree(th, t)
    <3>1. UNCHANGED waiting /\ \A x \in Threads : todo'[x] \in {todo[x], <<>>}
      BY <2>5 DEF ReadBegin, WouldBlock, ShortBuffer, Deliver, DeliverFault, FreeBuf,
                  ThreadExit, ReleaseThread, PrepareToFree, listVars, TypeOK
    <3> QED BY <3>1, OneOwnKept
  <2> QED BY <1>2, <2>1, <2>2, <2>3, <2>4, <2>5 DEF ThreadNext, Wake, Interrupted
<1>3. CASE ReleaseNext
  <2>1. UNCHANGED waiting /\ \A x \in Threads : todo'[x] \in {todo[x], <<>>}
    BY <1>3 DEF ReleaseNext, ReleaseProc, ThreadsReleased, ReleaseTodo, ReleaseDone,
                ReleaseProcThread, ReleaseThread, ReleaseNode, listVars, TypeOK
  <2> QED BY <2>1, OneOwnKept
<1>4. CASE UNCHANGED vars
  BY <1>4, OneOwnKept DEF vars, listVars
<1> QED BY <1>1, <1>2, <1>3, <1>4 DEF Next

-----------------------------------------------------------------------------
(* The queue a state of the driver stands for. *)

\* The invariant of the refinement.
QInv == IInv /\ Wakeups /\ OneHeld /\ OneOwn

LEMMA QueueInvariant == Spec => []QInv
<1>1. Init => Wakeups /\ OneHeld /\ OneOwn
  <2> SUFFICES ASSUME Init PROVE Wakeups /\ OneHeld /\ OneOwn
    OBVIOUS
  <2>1. ToSet(<<>>) = {}
    BY DEF ToSet
  <2>2. \A t \in Txns : ~Held(t)
    BY DEF Init, Held, Accepted
  <2> QED BY <2>1, <2>2 DEF Init, Wakeups, SomeoneLooks, OwnWork, OneHeld, OneOwn
<1>2. QInv /\ [Next]_vars => Wakeups' /\ OneHeld' /\ OneOwn'
  BY NextWakeups, NextOneHeld, NextOneOwn DEF QInv, IInv, Wakeups, Gate
<1> QED BY <1>1, <1>2, InductiveInvariant, PTL DEF Spec, QInv

\* Of the transactions that hold a gate, some are still to be handed over and
\* the others are with the user or lost.
LEMMA HeldOnce ==
  ASSUME QInv
  PROVE  /\ \A t \in Txns : (Moving(t) \/ Keeping(t) => Held(t)) /\ ~(Moving(t) /\ Keeping(t))
         /\ \A t \in Txns : Moving(t) => Accepted(t) /\ buffer[t] = "kernel" /\ ~Waiting(t)
<1>1. TypeOK /\ Gate
  BY DEF QInv, IInv, Gate
<1>2. \A t \in Txns : Queued(t) => Accepted(t) /\ buffer[t] = "kernel" /\ ~Waiting(t)
  BY <1>1 DEF Gate, Located, TxnOnOneList, Waiting, TypeOK
<1>3. \A t \in Txns : \A th \in Threads : cur[th] = t /\ pc[th] = "deliver" =>
        Accepted(t) /\ buffer[t] = "kernel" /\ ~Waiting(t)
  BY <1>1 DEF Gate, Located
<1>4. \A t \in Txns : Moving(t) => Accepted(t) /\ buffer[t] = "kernel" /\ ~Waiting(t)
  BY <1>2, <1>3 DEF Moving
<1>5. \A t \in Txns : \A th \in Threads : cur[th] = t /\ pc[th] = "gate" =>
        buffer[t] = "freeing"
  BY <1>1 DEF Gate, Located
<1>6. \A t \in Txns : Moving(t) => ~Stranded(t)
  BY DEF Moving, Stranded, InHands
<1>7. \A t \in Txns : ~(Moving(t) /\ Keeping(t))
  BY <1>4, <1>5, <1>6 DEF Keeping
<1>8. \A t \in Txns : Moving(t) \/ Keeping(t) => Held(t)
  BY <1>4 DEF Keeping, Held, Stranded
<1> QED BY <1>4, <1>7, <1>8

\* The node of a transaction that moves or keeps has no other.
LEMMA Alone ==
  ASSUME QInv, ~isDead, NEW c \in Txns, Moving(c) \/ Keeping(c)
  PROVE  /\ MovingAt(target[c]) = IF Moving(c) THEN {c} ELSE {}
         /\ KeepingAt(target[c]) = IF Keeping(c) THEN {c} ELSE {}
<1>1. /\ \A t \in Txns : Moving(t) \/ Keeping(t) => Held(t)
      /\ ~(Moving(c) /\ Keeping(c))
  BY HeldOnce
<1>2. \A t \in Txns : (Moving(t) \/ Keeping(t)) /\ target[t] = target[c] => t = c
  BY <1>1 DEF QInv, OneHeld
<1> QED BY <1>1, <1>2 DEF MovingAt, KeepingAt

\* A step that changes nothing the queue knows of.
LEMMA QueueStutter ==
  ASSUME UNCHANGED <<isDead, target>>,
         \A t \in Txns : Accepted(t)' <=> Accepted(t),
         ~isDead => /\ UNCHANGED asyncTodo
                    /\ \A t \in Txns : /\ Moving(t)' <=> Moving(t)
                                       /\ Keeping(t)' <=> Keeping(t)
                                       /\ Stranded(t)' <=> Stranded(t)
  PROVE  UNCHANGED Queue!vars
<1>1. QueueAccepted' = QueueAccepted
  BY DEF QueueAccepted
<1>2. CASE isDead
  <2>1. QueuePending' = QueuePending /\ QueueCurrent' = QueueCurrent
    BY <1>2 DEF QueuePending, QueueCurrent
  <2>2. QueueStuck' = QueueStuck
    BY <1>2 DEF QueueStuck
  <2> QED BY <1>1, <2>1, <2>2 DEF Queue!vars
<1>3. CASE ~isDead
  <2>1. \A n \in Nodes : MovingAt(n)' = MovingAt(n) /\ KeepingAt(n)' = KeepingAt(n)
    BY <1>3 DEF MovingAt, KeepingAt
  <2>2. \A n \in Nodes : PendingOf(n)' = PendingOf(n) /\ CurrentOf(n)' = CurrentOf(n)
    BY <1>3, <2>1 DEF PendingOf, CurrentOf
  <2>3. QueuePending' = QueuePending /\ QueueCurrent' = QueueCurrent
    BY <1>3, <2>2 DEF QueuePending, QueueCurrent
  <2>4. QueueStuck' = QueueStuck
    BY <1>3 DEF QueueStuck
  <2> QED BY <1>1, <2>3, <2>4 DEF Queue!vars
<1> QED BY <1>2, <1>3

LEMMA OneOfSets ==
  /\ OneOf({}) = None
  /\ \A x : OneOf({x}) = x
BY DEF OneOf

\* The next call of a node is handed over, or lost.
LEMMA QueueStart ==
  ASSUME QInv, ~isDead, NEW c \in Txns, Moving(c), ~Moving(c)', Keeping(c)',
         UNCHANGED <<isDead, target, asyncTodo>>,
         \A t \in Txns : Accepted(t)' <=> Accepted(t),
         \A t \in Txns : t # c => /\ Moving(t)' <=> Moving(t)
                                  /\ Keeping(t)' <=> Keeping(t)
                                  /\ Stranded(t)' <=> Stranded(t)
  PROVE  Queue!Next
<1> DEFINE n == target[c]
<1>0. n \in Nodes /\ asyncTodo[n] \in Seq(Txns)
  BY DEF QInv, IInv, TypeOK
<1>1. MovingAt(n) = {c} /\ KeepingAt(n) = {}
  BY Alone, HeldOnce
<1>2. /\ \A t \in Txns : t # c /\ target[t] = n => ~Moving(t) /\ ~Keeping(t)
      /\ MovingAt(n)' = {} /\ KeepingAt(n)' = {c}
  <2>1. \A t \in Txns : t # c /\ target[t] = n => ~Moving(t) /\ ~Keeping(t)
    BY <1>1 DEF MovingAt, KeepingAt
  <2> QED BY <2>1 DEF MovingAt, KeepingAt
<1>3. \A m \in Nodes : m # n => MovingAt(m)' = MovingAt(m) /\ KeepingAt(m)' = KeepingAt(m)
  BY DEF MovingAt, KeepingAt
<1>4. QueuePending[n] = <<c>> \o asyncTodo[n] /\ QueueCurrent[n] = None
  BY <1>0, <1>1, SeqOfOne, OneOfSets DEF QueuePending, QueueCurrent, PendingOf, CurrentOf
<1>5. /\ QueuePending[n] # <<>> /\ Head(QueuePending[n]) = c
      /\ Tail(QueuePending[n]) = asyncTodo[n]
  BY <1>0, <1>4, FirstThenRest
<1>6. QueuePending' = [QueuePending EXCEPT ![n] = Tail(QueuePending[n])]
  <2>1. QueuePending'[n] = asyncTodo[n]
    BY <1>0, <1>2, SeqOfNone, ConcatEmptySeq DEF QueuePending, PendingOf
  <2>2. \A m \in Nodes : m # n => QueuePending'[m] = QueuePending[m]
    BY <1>3 DEF QueuePending, PendingOf
  <2>3. \A m \in Nodes : QueuePending'[m] =
          IF m = n THEN Tail(QueuePending[n]) ELSE QueuePending[m]
    BY <1>5, <2>1, <2>2
  <2> QED BY <2>3 DEF QueuePending
<1>7. QueueCurrent' = [QueueCurrent EXCEPT ![n] = Head(QueuePending[n])]
  <2>1. QueueCurrent'[n] = c
    BY <1>0, <1>2, OneOfSets DEF QueueCurrent, CurrentOf
  <2>2. \A m \in Nodes : m # n => QueueCurrent'[m] = QueueCurrent[m]
    BY <1>3 DEF QueueCurrent, CurrentOf
  <2>3. \A m \in Nodes : QueueCurrent'[m] =
          IF m = n THEN Head(QueuePending[n]) ELSE QueueCurrent[m]
    BY <1>5, <2>1, <2>2
  <2> QED BY <2>3 DEF QueueCurrent
<1>8. \A lost \in BOOLEAN : (lost <=> Stranded(c)') =>
        QueueStuck' = [QueueStuck EXCEPT ![n] = lost]
  <2> SUFFICES ASSUME NEW lost \in BOOLEAN, lost <=> Stranded(c)'
               PROVE  QueueStuck' = [QueueStuck EXCEPT ![n] = lost]
    OBVIOUS
  <2>1. \A t \in Txns : Stranded(t) => Keeping(t)
    BY DEF Keeping
  <2>2. QueueStuck'[n] <=> lost
    BY <1>0, <1>2, <2>1 DEF QueueStuck
  <2>3. \A m \in Nodes : m # n => (QueueStuck'[m] <=> QueueStuck[m])
    BY DEF QueueStuck
  <2>4. /\ QueueStuck \in [Nodes -> BOOLEAN] /\ QueueStuck' \in [Nodes -> BOOLEAN]
    BY DEF QueueStuck
  <2>5. \A m \in Nodes : QueueStuck'[m] = IF m = n THEN lost ELSE QueueStuck[m]
    BY <2>2, <2>3, <2>4
  <2> QED BY <2>4, <2>5
<1>9. QueueAccepted' = QueueAccepted
  BY DEF QueueAccepted
<1> HIDE DEF n
<1>10. \E lost \in BOOLEAN : lost <=> Stranded(c)'
  OBVIOUS
<1>11. PICK lost \in BOOLEAN : QueueStuck' = [QueueStuck EXCEPT ![n] = lost]
  BY <1>8, <1>10
<1>12. Queue!Start(n, lost)
  BY <1>4, <1>5, <1>6, <1>7, <1>9, <1>11 DEF Queue!Start
<1>13. Queue!Start(n, TRUE) \/ Queue!Start(n, FALSE)
  BY <1>12
<1> QED BY <1>0, <1>13 DEF Queue!Next

\* The call that was kept on a node is kept no longer.
LEMMA QueueFreed ==
  ASSUME TypeOK, ~isDead, NEW c \in Txns, NEW n \in Nodes, n = target[c],
         KeepingAt(n) = {c}, \A t \in Txns : target[t] = n => ~Stranded(t),
         UNCHANGED <<isDead, target, QueuePending, QueueStuck>>,
         \A t \in Txns : Accepted(t)' <=> Accepted(t),
         \A t \in Txns : t # c => (Keeping(t)' <=> Keeping(t)), ~Keeping(c)'
  PROVE  Queue!Next
<1>1. KeepingAt(n)' = {}
  <2>1. \A t \in Txns : t # c /\ target[t] = n => ~Keeping(t)
    BY DEF KeepingAt
  <2> QED BY <2>1 DEF KeepingAt
<1>2. \A m \in Nodes : m # n => KeepingAt(m)' = KeepingAt(m)
  BY DEF KeepingAt
<1>3. QueueCurrent[n] = c /\ c # None
  BY OneOfSets, NoneAssumption DEF QueueCurrent, CurrentOf
<1>4. QueueCurrent'[n] = None
  BY <1>1, OneOfSets DEF QueueCurrent, CurrentOf
<1>5. \A m \in Nodes : m # n => QueueCurrent'[m] = QueueCurrent[m]
  BY <1>2 DEF QueueCurrent, CurrentOf
<1>6. QueueCurrent' = [QueueCurrent EXCEPT ![n] = None]
  <2>1. \A m \in Nodes : QueueCurrent'[m] = IF m = n THEN None ELSE QueueCurrent[m]
    BY <1>4, <1>5
  <2> QED BY <2>1 DEF QueueCurrent
<1>7. ~QueueStuck[n]
  BY DEF QueueStuck
<1>8. QueueAccepted' = QueueAccepted
  BY DEF QueueAccepted
<1>9. Queue!GiveBack(n)
  BY <1>3, <1>6, <1>7, <1>8 DEF Queue!GiveBack
<1> QED BY <1>9 DEF Queue!Next

\* A call is accepted behind those of its node.
LEMMA QueueAccept ==
  ASSUME QInv, NEW t \in Txns, ProcTransaction(t), ~isDead
  PROVE  Queue!Next
<1> DEFINE n == target[t]
<1>0. TypeOK /\ Gate /\ n \in Nodes /\ asyncTodo[n] \in Seq(Txns)
  BY DEF QInv, IInv, Gate, TypeOK
<1>1. /\ sender[t] = "built" /\ sender' = [sender EXCEPT ![t] = "ok"]
      /\ UNCHANGED <<isDead, target, buffer, pc, cur>>
  BY DEF ProcTransaction, procVars
<1>2. /\ ~Accepted(t) /\ Accepted(t)' /\ ~Queued(t)
      /\ \A m \in Nodes : t \notin ToSet(asyncTodo[m])
      /\ \A th \in Threads : pc[th] \in Hands => cur[th] # t
      /\ buffer[t] = "kernel"
  BY <1>0, <1>1, NotAccepted DEF Accepted, Gate, Located, TypeOK
<1>3. \A u \in Txns : u # t => (Accepted(u)' <=> Accepted(u))
  BY <1>0, <1>1 DEF Accepted, TypeOK
<1>4. QueueAccepted' = QueueAccepted \union {t} /\ t \notin QueueAccepted
  BY <1>2, <1>3 DEF QueueAccepted
<1>5. ~Moving(t) /\ ~Keeping(t)
  BY <1>2 DEF Moving, Keeping, Stranded, Hands
<1>6. CASE hasAsync[n]
  <2>1. /\ asyncTodo' = [asyncTodo EXCEPT ![n] = Append(@, t)]
        /\ UNCHANGED <<procTodo, todo>>
    BY <1>6 DEF ProcTransaction, listVars
  <2>2. /\ asyncTodo'[n] = Append(asyncTodo[n], t)
        /\ \A m \in Nodes : m # n => asyncTodo'[m] = asyncTodo[m]
    BY <1>0, <2>1 DEF TypeOK
  <2>3. \A u \in Txns : Queued(u)' <=> Queued(u)
    BY <2>1 DEF Queued
  <2>4. \A u \in Txns : Moving(u)' <=> Moving(u)
    BY <1>1, <2>3 DEF Moving
  <2>5. /\ \A u \in Txns : u # t => (Waiting(u)' <=> Waiting(u))
        /\ Waiting(t)'
    <3>1. ToSet(Append(asyncTodo[n], t)) = ToSet(asyncTodo[n]) \union {t}
      BY <1>0, AppendElements
    <3> QED BY <1>0, <1>1, <2>2, <3>1 DEF Waiting, TypeOK
  <2>6. \A u \in Txns : Stranded(u)' <=> Stranded(u)
    BY <1>1, <1>2, <1>3, <2>3, <2>5 DEF Stranded, InHands
  <2>7. \A u \in Txns : Keeping(u)' <=> Keeping(u)
    BY <1>1, <2>6 DEF Keeping
  <2>8. \A m \in Nodes : MovingAt(m)' = MovingAt(m) /\ KeepingAt(m)' = KeepingAt(m)
    BY <1>1, <2>4, <2>7 DEF MovingAt, KeepingAt
  <2>9. QueueCurrent' = QueueCurrent /\ QueueStuck' = QueueStuck
    BY <1>1, <2>6, <2>8 DEF QueueCurrent, CurrentOf, QueueStuck
  <2>10. SetToSeq(MovingAt(n)) \in Seq(Txns)
    <3>1. MovingAt(n) = {} \/ \E c \in Txns : MovingAt(n) = {c}
      <4>1. ASSUME NEW c \in Txns, c \in MovingAt(n)
            PROVE  MovingAt(n) = {c}
        BY <4>1, Alone, HeldOnce DEF MovingAt
      <4> QED BY <4>1 DEF MovingAt
    <3>2. <<>> \in Seq(Txns) /\ \A c \in Txns : <<c>> \in Seq(Txns)
      OBVIOUS
    <3>3. CASE MovingAt(n) = {}
      <4>1. SetToSeq(MovingAt(n)) = <<>>
        BY <3>3, SeqOfNone
      <4> QED BY <3>2, <4>1
    <3>4. ASSUME NEW c \in Txns, MovingAt(n) = {c}
          PROVE  SetToSeq(MovingAt(n)) \in Seq(Txns)
      <4>1. SetToSeq(MovingAt(n)) = <<c>>
        BY <3>4, SeqOfOne
      <4> QED BY <3>2, <4>1
    <3> QED BY <3>1, <3>3, <3>4
  <2>11. QueuePending'[n] = Append(QueuePending[n], t)
    <3> DEFINE b == SetToSeq(MovingAt(n))
               r == asyncTodo[n]
               one == <<t>>
    <3>1. QueuePending[n] = b \o r /\ QueuePending'[n] = b \o Append(r, t)
      BY <1>0, <1>1, <2>2, <2>8 DEF QueuePending, PendingOf
    <3>2. b \in Seq(Txns) /\ r \in Seq(Txns) /\ one \in Seq(Txns)
      BY <1>0, <2>10
    <3> HIDE DEF b, r
    <3>3. b \o r \in Seq(Txns)
      BY <3>2, ConcatProperties
    <3>4. Append(r, t) = r \o one /\ Append(b \o r, t) = (b \o r) \o one
      BY <3>2, <3>3, AppendIsConcat
    <3> HIDE DEF one
    <3>5. (b \o r) \o one = b \o (r \o one)
      BY <3>2, ConcatAssociative
    <3> QED BY <3>1, <3>4, <3>5
  <2>12. \A m \in Nodes : m # n => QueuePending'[m] = QueuePending[m]
    BY <1>1, <2>2, <2>8 DEF QueuePending, PendingOf
  <2>13. QueuePending' = [QueuePending EXCEPT ![n] = Append(QueuePending[n], t)]
    <3>1. \A m \in Nodes : QueuePending'[m] =
            IF m = n THEN Append(QueuePending[n], t) ELSE QueuePending[m]
      BY <2>11, <2>12
    <3> QED BY <3>1 DEF QueuePending
  <2>14. Queue!Accept(t)
    BY <1>1, <1>4, <2>9, <2>13 DEF Queue!Accept
  <2> QED BY <2>14 DEF Queue!Next
<1>7. CASE ~hasAsync[n]
  <2>1. QueueForDelivery(t) /\ UNCHANGED asyncTodo
    BY <1>7 DEF ProcTransaction
  <2>2. asyncTodo[n] = <<>>
    <3>1. \A u \in Txns : u \notin ToSet(asyncTodo[n])
      BY <1>0, <1>7 DEF Gate, GateClosed, Waiting, Located
    <3>2. asyncTodo[n] # <<>> => Head(asyncTodo[n]) \in Txns /\ Head(asyncTodo[n]) \in ToSet(asyncTodo[n])
      BY <1>0, TailElements
    <3> QED BY <3>1, <3>2
  <2>3. \A u \in Txns : Queued(u)' <=> Queued(u) \/ u = t
    <3>1. CASE waiting = <<>>
      <4>1. procTodo' = Append(procTodo, t) /\ UNCHANGED todo
        BY <2>1, <3>1 DEF QueueForDelivery
      <4>2. ToSet(procTodo') = ToSet(procTodo) \union {t}
        BY <1>0, <4>1, AppendElements DEF TypeOK
      <4> QED BY <4>1, <4>2 DEF Queued
    <3>2. CASE waiting # <<>>
      <4>1. PICK h \in Threads : h = Head(waiting)
        BY <1>0, <3>2, TailElements DEF TypeOK
      <4>2. UNCHANGED procTodo /\ todo' = [todo EXCEPT ![h] = Append(@, t)]
        BY <2>1, <3>2, <4>1 DEF QueueForDelivery
      <4>3. /\ ToSet(todo'[h]) = ToSet(todo[h]) \union {t}
            /\ \A x \in Threads : x # h => todo'[x] = todo[x]
        BY <1>0, <4>2, AppendElements DEF TypeOK
      <4> QED BY <4>2, <4>3 DEF Queued
    <3> QED BY <3>1, <3>2
  <2>4. \A u \in Txns : Moving(u)' <=> Moving(u) \/ u = t
    BY <1>1, <2>3 DEF Moving
  <2>5. \A u \in Txns : Stranded(u)' <=> Stranded(u)
    <3>1. \A u \in Txns : (Waiting(u)' <=> Waiting(u)) /\ (InHands(u)' <=> InHands(u))
      BY <1>1, <2>1 DEF Waiting, InHands
    <3> QED BY <1>1, <1>2, <1>3, <2>3, <3>1 DEF Stranded
  <2>6. \A u \in Txns : Keeping(u)' <=> Keeping(u)
    BY <1>1, <2>5 DEF Keeping
  <2>7. MovingAt(n) = {}
    BY <1>7, HeldOnce DEF MovingAt, QInv, OneHeld
  <2>8. /\ MovingAt(n)' = {t} /\ \A m \in Nodes : m # n => MovingAt(m)' = MovingAt(m)
        /\ \A m \in Nodes : KeepingAt(m)' = KeepingAt(m)
    <3>1. \A m \in Nodes : KeepingAt(m)' = KeepingAt(m)
      BY <1>1, <2>6 DEF KeepingAt
    <3>2. \A m \in Nodes : m # n => MovingAt(m)' = MovingAt(m)
      BY <1>1, <2>4 DEF MovingAt
    <3>3. MovingAt(n)' = {t}
      BY <1>1, <2>4, <2>7 DEF MovingAt
    <3> QED BY <3>1, <3>2, <3>3
  <2>9. QueueCurrent' = QueueCurrent /\ QueueStuck' = QueueStuck
    BY <1>1, <2>5, <2>8 DEF QueueCurrent, CurrentOf, QueueStuck
  <2>10. QueuePending'[n] = Append(QueuePending[n], t)
    <3>1. QueuePending[n] = <<>> \o <<>> /\ QueuePending'[n] = <<t>> \o <<>>
      BY <1>0, <1>1, <2>1, <2>2, <2>7, <2>8, SeqOfNone, SeqOfOne DEF QueuePending, PendingOf
    <3>2. <<>> \o <<>> = <<>>
      OBVIOUS
    <3>3. <<t>> \o <<>> = <<t>>
      OBVIOUS
    <3>4. Append(<<>>, t) = <<t>>
      OBVIOUS
    <3> QED BY <3>1, <3>2, <3>3, <3>4
  <2>11. \A m \in Nodes : m # n => QueuePending'[m] = QueuePending[m]
    BY <1>1, <2>1, <2>8 DEF QueuePending, PendingOf
  <2>12. QueuePending' = [QueuePending EXCEPT ![n] = Append(QueuePending[n], t)]
    <3>1. \A m \in Nodes : QueuePending'[m] =
            IF m = n THEN Append(QueuePending[n], t) ELSE QueuePending[m]
      BY <2>10, <2>11
    <3> QED BY <3>1 DEF QueuePending
  <2>13. Queue!Accept(t)
    BY <1>1, <1>4, <2>9, <2>12 DEF Queue!Accept
  <2> QED BY <2>13 DEF Queue!Next
<1> QED BY <1>6, <1>7

\* BC_FREE_BUFFER gives the call back; the next one was already the first of
\* those pending.
LEMMA QueueGiveBack ==
  ASSUME QInv, ~isDead, NEW th \in Threads, OpenGate(th)
  PROVE  Queue!Next
<1>0. TypeOK /\ Gate
  BY DEF QInv, IInv, Gate
<1>1. PICK c \in Txns : c = cur[th]
  BY <1>0 DEF OpenGate, TypeOK
<1>2. PICK n \in Nodes : n = target[c]
  BY <1>0 DEF TypeOK
<1>3. /\ pc[th] = "gate" /\ pc'[th] = "free"
      /\ UNCHANGED <<isDead, target, sender, buffer, cur, todo>>
      /\ \A x \in Threads : x # th => pc'[x] = pc[x]
  BY <1>0 DEF OpenGate, GoTo, procVars, txnVars, TypeOK
<1>4. /\ Keeping(c) /\ buffer[c] = "freeing" /\ ~Stranded(c)
      /\ \A x \in Threads : pc[x] = "gate" /\ cur[x] = c => x = th
  BY <1>0, <1>1, <1>3 DEF Keeping, Stranded, Gate, Located
<1>5. MovingAt(n) = {} /\ KeepingAt(n) = {c}
  BY <1>2, <1>4, Alone, HeldOnce
<1>6. \A t \in Txns : target[t] = n => ~Moving(t) /\ ~Stranded(t)
  BY <1>4, <1>5 DEF MovingAt, KeepingAt, Keeping
<1>7. \A t \in Txns : Accepted(t)' <=> Accepted(t)
  BY <1>3 DEF Accepted
<1>8. \A x \in Threads : pc'[x] = "deliver" <=> pc[x] = "deliver"
  BY <1>3
<1>9. \A t \in Txns : t # c =>
        ((\E x \in Threads : cur'[x] = t /\ pc'[x] = "gate")
           <=> (\E x \in Threads : cur[x] = t /\ pc[x] = "gate"))
  BY <1>1, <1>3
<1>10. ~ \E x \in Threads : cur'[x] = c /\ pc'[x] = "gate"
  BY <1>3, <1>4
<1>11. CASE asyncTodo[n] = <<>>
  <2>1. UNCHANGED <<asyncTodo, procTodo>>
    BY <1>1, <1>2, <1>11 DEF OpenGate
  <2>2. \A t \in Txns : /\ Queued(t)' <=> Queued(t)
                        /\ Waiting(t)' <=> Waiting(t)
    BY <1>3, <2>1 DEF Queued, Waiting
  <2>3. \A t \in Txns : Moving(t)' <=> Moving(t)
    BY <1>3, <1>8, <2>2 DEF Moving
  <2>4. \A t \in Txns : Stranded(t)' <=> Stranded(t)
    <3>1. \A t \in Txns : t # c => (InHands(t)' <=> InHands(t))
      BY <1>3, <1>8, <1>9 DEF InHands
    <3> QED BY <1>3, <1>4, <1>7, <2>2, <3>1 DEF Stranded
  <2>5. /\ \A t \in Txns : t # c => (Keeping(t)' <=> Keeping(t))
        /\ ~Keeping(c)'
    BY <1>3, <1>4, <1>9, <1>10, <2>4 DEF Keeping
  <2>6. \A m \in Nodes : MovingAt(m)' = MovingAt(m)
    BY <1>3, <2>3 DEF MovingAt
  <2>7. QueuePending' = QueuePending /\ QueueStuck' = QueueStuck
    BY <1>3, <2>1, <2>4, <2>6 DEF QueuePending, PendingOf, QueueStuck
  <2> QED BY <1>0, <1>2, <1>3, <1>4, <1>5, <1>6, <1>7, <2>5, <2>7, QueueFreed
<1>12. CASE asyncTodo[n] # <<>>
  <2>1. PICK h \in Txns : h = Head(asyncTodo[n])
    BY <1>0, <1>12, TailElements DEF TypeOK
  <2>2. /\ h \in ToSet(asyncTodo[n]) /\ h \notin ToSet(Tail(asyncTodo[n]))
        /\ ToSet(Tail(asyncTodo[n])) \subseteq ToSet(asyncTodo[n])
        /\ ToSet(asyncTodo[n]) \subseteq ToSet(Tail(asyncTodo[n])) \union {h}
    BY <1>0, <1>12, <2>1, TailElements, TailAndHead DEF Gate, TxnOnOneList, TypeOK
  <2>3. /\ asyncTodo'[n] = Tail(asyncTodo[n]) /\ procTodo' = Append(procTodo, h)
        /\ \A m \in Nodes : m # n => asyncTodo'[m] = asyncTodo[m]
    BY <1>0, <1>1, <1>2, <1>12, <2>1 DEF OpenGate, TypeOK
  <2>4. target[h] = n /\ h # c /\ ~Queued(h)
    BY <1>0, <1>4, <2>2 DEF Gate, Located, TxnOnOneList
  <2>5. \A t \in Txns : Queued(t)' <=> Queued(t) \/ t = h
    <3>1. ToSet(procTodo') = ToSet(procTodo) \union {h}
      BY <1>0, <2>3, AppendElements DEF TypeOK
    <3> QED BY <1>3, <3>1 DEF Queued
  <2>6. \A t \in Txns : t # h => (Waiting(t)' <=> Waiting(t))
    <3>1. \A t \in Txns : t # h => (t \in ToSet(asyncTodo'[n]) <=> t \in ToSet(asyncTodo[n]))
      BY <2>2, <2>3
    <3>2. \A m \in Nodes : \A t \in Txns :
            t # h => (t \in ToSet(asyncTodo'[m]) <=> t \in ToSet(asyncTodo[m]))
      BY <2>3, <3>1
    <3>3. \A t \in Txns : target'[t] = target[t] /\ target[t] \in Nodes
      BY <1>0, <1>3 DEF TypeOK
    <3> QED BY <3>2, <3>3 DEF Waiting
  <2>7. \A t \in Txns : Moving(t)' <=> Moving(t) \/ t = h
    BY <1>3, <1>8, <2>5 DEF Moving
  <2>8. \A t \in Txns : Stranded(t)' <=> Stranded(t)
    <3>1. \A t \in Txns : t # c => (InHands(t)' <=> InHands(t))
      BY <1>3, <1>8, <1>9 DEF InHands
    <3>2. ~Stranded(h)' /\ ~Stranded(h)
      BY <1>6, <2>4, <2>5 DEF Stranded
    <3>3. \A t \in Txns : t # h /\ t # c => (Stranded(t)' <=> Stranded(t))
      BY <1>3, <1>7, <2>5, <2>6, <3>1 DEF Stranded
    <3>4. ~Stranded(c)' /\ ~Stranded(c)
      BY <1>3, <1>4 DEF Stranded
    <3> QED BY <3>2, <3>3, <3>4
  <2>9. /\ \A t \in Txns : t # c => (Keeping(t)' <=> Keeping(t))
        /\ ~Keeping(c)'
    BY <1>3, <1>4, <1>9, <1>10, <2>8 DEF Keeping
  <2>10. QueueStuck' = QueueStuck
    BY <1>3, <2>8 DEF QueueStuck
  <2>11. /\ MovingAt(n)' = {h}
         /\ \A m \in Nodes : m # n => MovingAt(m)' = MovingAt(m)
    <3>1. MovingAt(n)' = {h}
      BY <1>3, <1>6, <2>4, <2>7 DEF MovingAt
    <3>2. \A m \in Nodes : m # n => MovingAt(m)' = MovingAt(m)
      BY <1>3, <2>4, <2>7 DEF MovingAt
    <3> QED BY <3>1, <3>2
  <2>12. asyncTodo[n] \in Seq(Txns)
    BY <1>0 DEF TypeOK
  <2>13. QueuePending'[n] = QueuePending[n]
    <3>1. QueuePending[n] = asyncTodo[n]
      BY <1>5, <2>12, SeqOfNone, ConcatEmptySeq DEF QueuePending, PendingOf
    <3>2. QueuePending'[n] = <<h>> \o Tail(asyncTodo[n])
      BY <1>3, <2>3, <2>11, SeqOfOne DEF QueuePending, PendingOf
    <3>3. <<h>> \o Tail(asyncTodo[n]) = asyncTodo[n]
      BY <1>12, <2>1, <2>12, HeadThenTail
    <3> QED BY <3>1, <3>2, <3>3
  <2>14. \A m \in Nodes : m # n => QueuePending'[m] = QueuePending[m]
    BY <1>3, <2>3, <2>11 DEF QueuePending, PendingOf
  <2>15. QueuePending' = QueuePending
    <3>1. \A m \in Nodes : QueuePending'[m] = QueuePending[m]
      BY <2>13, <2>14
    <3> QED BY <3>1 DEF QueuePending
  <2> QED BY <1>0, <1>2, <1>3, <1>4, <1>5, <1>6, <1>7, <2>9, <2>10, <2>15, QueueFreed
<1> QED BY <1>11, <1>12

-----------------------------------------------------------------------------
(* The steps of the driver, one kind after the other.                      *)

\* A thread has the buffer of t in its hands and will open the gate behind it.
AtGate(t) == \E th \in Threads : cur[th] = t /\ pc[th] = "gate"

\* A step that moves no call, no buffer of an accepted one and no gate.
LEMMA QuietQueue ==
  ASSUME UNCHANGED <<isDead, target, asyncTodo>>,
         \A t \in Txns : Accepted(t)' <=> Accepted(t),
         \A t \in Txns : Moving(t)' <=> Moving(t),
         \A t \in Txns : AtGate(t)' <=> AtGate(t),
         \A t \in Txns : buffer'[t] = "user" <=> buffer[t] = "user",
         \A t \in Txns : Accepted(t) => (buffer'[t] = "kernel" <=> buffer[t] = "kernel")
  PROVE  UNCHANGED Queue!vars
<1>1. \A t \in Txns : Waiting(t)' <=> Waiting(t)
  BY DEF Waiting
<1>2. /\ \A t \in Txns : Stranded(t) <=>
           Accepted(t) /\ buffer[t] = "kernel" /\ ~Moving(t) /\ ~AtGate(t) /\ ~Waiting(t)
      /\ \A t \in Txns : Stranded(t)' <=>
           Accepted(t)' /\ buffer'[t] = "kernel" /\ ~Moving(t)' /\ ~AtGate(t)' /\ ~Waiting(t)'
  BY DEF Stranded, InHands, Moving, AtGate
<1>3. \A t \in Txns : Stranded(t)' <=> Stranded(t)
  BY <1>1, <1>2
<1>4. \A t \in Txns : Keeping(t)' <=> Keeping(t)
  BY <1>3 DEF Keeping, AtGate
<1> QED BY <1>3, <1>4, QueueStutter

LEMMA SenderQueue ==
  ASSUME QInv, NEW t \in Txns, SenderNext(t)
  PROVE  Queue!Next \/ UNCHANGED Queue!vars
<1>0. TypeOK /\ Gate
  BY DEF QInv, IInv, Gate
<1>1. CASE ProcTransaction(t) /\ ~isDead
  BY <1>1, QueueAccept
<1>2. CASE ProcTransaction(t) /\ isDead
  <2>1. /\ UNCHANGED <<isDead, target, asyncTodo, procTodo, todo, pc, cur, buffer>>
        /\ sender[t] = "built" /\ sender' = [sender EXCEPT ![t] = "undo"]
    BY <1>2 DEF ProcTransaction, procVars, listVars
  <2>2. \A u \in Txns : Accepted(u)' <=> Accepted(u)
    BY <1>0, <2>1 DEF Accepted, TypeOK
  <2>3. \A u \in Txns : /\ Moving(u)' <=> Moving(u)
                        /\ AtGate(u)' <=> AtGate(u)
    BY <2>1 DEF Moving, Queued, AtGate
  <2> QED BY <2>1, <2>2, <2>3, QuietQueue
<1>3. CASE GetNodeRefs(t) \/ NewAsyncBuf(t) \/ ReleaseTxnBuf(t) \/ DropRefs(t)
  <2>1. UNCHANGED <<isDead, target, asyncTodo, procTodo, todo, pc, cur>>
    BY <1>3 DEF GetNodeRefs, NewAsyncBuf, ReleaseTxnBuf, DropRefs, procVars, nodeVars,
                listVars, threadVars
  <2>2. \A u \in Txns : Accepted(u)' <=> Accepted(u)
    BY <1>0, <1>3 DEF GetNodeRefs, NewAsyncBuf, ReleaseTxnBuf, DropRefs, Accepted, TypeOK
  <2>3. \A u \in Txns : /\ Moving(u)' <=> Moving(u)
                        /\ AtGate(u)' <=> AtGate(u)
    BY <2>1 DEF Moving, Queued, AtGate
  <2>4. \A u \in Txns : u # t => buffer'[u] = buffer[u]
    BY <1>0, <1>3 DEF GetNodeRefs, NewAsyncBuf, ReleaseTxnBuf, DropRefs, TypeOK
  <2>5. UNCHANGED buffer \/ (~Accepted(t) /\ buffer[t] # "user" /\ buffer'[t] # "user")
    <3>1. CASE sender[t] \in {"refs", "built", "undo"}
      <4>1. ~Accepted(t) /\ buffer[t] # "user"
        BY <1>0, <3>1, NotAccepted
      <4>2. buffer'[t] # "user"
        BY <1>0, <1>3, <4>1 DEF GetNodeRefs, NewAsyncBuf, ReleaseTxnBuf, DropRefs, TypeOK
      <4> QED BY <4>1, <4>2
    <3>2. CASE sender[t] \notin {"refs", "built", "undo"}
      BY <1>3, <3>2 DEF GetNodeRefs, NewAsyncBuf, ReleaseTxnBuf, DropRefs
    <3> QED BY <3>1, <3>2
  <2>6. /\ \A u \in Txns : buffer'[u] = "user" <=> buffer[u] = "user"
        /\ \A u \in Txns : Accepted(u) => (buffer'[u] = "kernel" <=> buffer[u] = "kernel")
    BY <2>4, <2>5
  <2> QED BY <2>1, <2>2, <2>3, <2>6, QuietQueue
<1> QED BY <1>1, <1>2, <1>3 DEF SenderNext

\* A thread takes a call off a list to deliver it: nothing the queue sees.
LEMMA DequeueQueue ==
  ASSUME QInv, NEW th \in Threads, Dequeue(th)
  PROVE  UNCHANGED Queue!vars
<1>0. TypeOK
  BY DEF QInv, IInv
<1>1. /\ pc[th] = "loop"
      /\ UNCHANGED <<isDead, asyncTodo, target, sender, buffer>>
  BY DEF Dequeue, procVars, nodeVars, txnVars
<1>2. \A t \in Txns : Accepted(t)' <=> Accepted(t)
  BY <1>1 DEF Accepted
<1>3. \A x \in Threads : x # th => pc'[x] = pc[x] /\ cur'[x] = cur[x]
  BY <1>0 DEF Dequeue, GoTo, TypeOK
<1>4. pc'[th] \in {"deliver", "retry"}
  BY <1>0 DEF Dequeue, GoTo, TypeOK
<1>5. \A t \in Txns : AtGate(t)' <=> AtGate(t)
  BY <1>1, <1>3, <1>4 DEF AtGate
<1>6. \A t \in Txns : Moving(t)' <=> Moving(t)
  <2>1. ASSUME NEW h \in Txns, pc'[th] = "deliver", cur'[th] = h,
               \A t \in Txns : Queued(t) <=> Queued(t)' \/ t = h
        PROVE  \A t \in Txns : Moving(t)' <=> Moving(t)
    <3>1. \A t \in Txns : (\E x \in Threads : cur'[x] = t /\ pc'[x] = "deliver")
            <=> (\E x \in Threads : cur[x] = t /\ pc[x] = "deliver") \/ t = h
      BY <1>1, <1>3, <2>1
    <3> QED BY <2>1, <3>1 DEF Moving
  <2>2. CASE todo[th] # <<>>
    <3>1. PICK h \in Txns : h = Head(todo[th])
      BY <1>0, <2>2, TailElements DEF TypeOK
    <3>2. /\ cur' = [cur EXCEPT ![th] = h] /\ todo' = [todo EXCEPT ![th] = Tail(@)]
          /\ UNCHANGED procTodo /\ pc' = [pc EXCEPT ![th] = "deliver"]
      BY <2>2, <3>1 DEF Dequeue, GoTo
    <3>3. /\ cur'[th] = h /\ pc'[th] = "deliver" /\ todo'[th] = Tail(todo[th])
          /\ \A x \in Threads : x # th => todo'[x] = todo[x]
      BY <1>0, <3>2 DEF TypeOK
    <3>4. ToSet(todo[th]) = ToSet(todo'[th]) \union {h}
      BY <1>0, <2>2, <3>1, <3>3, TailElements, TailAndHead DEF TypeOK
    <3>5. \A t \in Txns : Queued(t) <=> Queued(t)' \/ t = h
      BY <3>2, <3>3, <3>4 DEF Queued
    <3> QED BY <2>1, <3>3, <3>5
  <2>3. CASE todo[th] = <<>> /\ procTodo # <<>> /\ doProc[th]
    <3>1. PICK h \in Txns : h = Head(procTodo)
      BY <1>0, <2>3, TailElements DEF TypeOK
    <3>2. /\ cur' = [cur EXCEPT ![th] = h] /\ procTodo' = Tail(procTodo)
          /\ UNCHANGED todo /\ pc' = [pc EXCEPT ![th] = "deliver"]
      BY <2>3, <3>1 DEF Dequeue, GoTo
    <3>3. cur'[th] = h /\ pc'[th] = "deliver"
      BY <1>0, <3>2 DEF TypeOK
    <3>4. ToSet(procTodo) = ToSet(procTodo') \union {h}
      BY <1>0, <2>3, <3>1, <3>2, TailElements, TailAndHead DEF TypeOK
    <3>5. \A t \in Txns : Queued(t) <=> Queued(t)' \/ t = h
      BY <3>2, <3>4 DEF Queued
    <3> QED BY <2>1, <3>3, <3>5
  <2>4. CASE ~(todo[th] # <<>>) /\ ~(todo[th] = <<>> /\ procTodo # <<>> /\ doProc[th])
    <3>1. UNCHANGED <<cur, todo, procTodo>> /\ pc' = [pc EXCEPT ![th] = "retry"]
      BY <2>4 DEF Dequeue, GoTo
    <3>2. pc'[th] = "retry"
      BY <1>0, <3>1 DEF TypeOK
    <3> QED BY <1>1, <1>3, <3>1, <3>2 DEF Moving, Queued
  <2> QED BY <2>2, <2>3, <2>4
<1> QED BY <1>1, <1>2, <1>5, <1>6, QuietQueue

\* A call leaves its thread for the user, or is lost.
LEMMA DeliverQueue ==
  ASSUME QInv, ~isDead, NEW th \in Threads, Deliver(th) \/ DeliverFault(th)
  PROVE  Queue!Next
<1>0. TypeOK /\ Gate
  BY DEF QInv, IInv, Gate
<1>1. pc[th] = "deliver"
  BY DEF Deliver, DeliverFault
<1>2. PICK c \in Txns : c = cur[th]
  BY <1>0, <1>1 DEF TypeOK
<1>3. /\ UNCHANGED <<isDead, target, asyncTodo, procTodo, todo, sender>>
      /\ pc'[th] = "exit"
      /\ \A x \in Threads : x # th => pc'[x] = pc[x] /\ cur'[x] = cur[x]
      /\ \A t \in Txns : t # c => buffer'[t] = buffer[t]
  BY <1>0, <1>2 DEF Deliver, DeliverFault, GoTo, procVars, nodeVars, listVars, txnVars, TypeOK
<1>4. /\ Accepted(c) /\ buffer[c] = "kernel" /\ ~Queued(c) /\ ~Waiting(c)
      /\ \A x \in Threads : pc[x] \in Hands /\ cur[x] = c => x = th
  BY <1>0, <1>1, <1>2 DEF Gate, Located, Hands
<1>5. \A t \in Txns : Accepted(t)' <=> Accepted(t)
  BY <1>3 DEF Accepted
<1>6. \A t \in Txns : /\ Queued(t)' <=> Queued(t)
                      /\ Waiting(t)' <=> Waiting(t)
  BY <1>3 DEF Queued, Waiting
<1>7. Moving(c) /\ ~Moving(c)'
  BY <1>1, <1>2, <1>3, <1>4, <1>6 DEF Moving, Hands
<1>8. Keeping(c)'
  <2>1. CASE Deliver(th)
    <3>1. buffer'[c] = "user"
      BY <1>0, <1>2, <2>1 DEF Deliver, TypeOK
    <3> QED BY <3>1 DEF Keeping
  <2>2. CASE DeliverFault(th)
    <3>1. buffer'[c] = "kernel"
      BY <1>4, <2>2 DEF DeliverFault, txnVars
    <3>2. ~InHands(c)'
      BY <1>3, <1>4 DEF InHands, Hands
    <3> QED BY <1>4, <1>5, <1>6, <3>1, <3>2 DEF Keeping, Stranded
  <2> QED BY <2>1, <2>2
<1>9. \A t \in Txns : t # c => /\ Moving(t)' <=> Moving(t)
                               /\ InHands(t)' <=> InHands(t)
                               /\ AtGate(t)' <=> AtGate(t)
  BY <1>1, <1>2, <1>3, <1>6 DEF Moving, InHands, AtGate
<1>10. \A t \in Txns : t # c => (Stranded(t)' <=> Stranded(t))
  BY <1>3, <1>5, <1>6, <1>9 DEF Stranded
<1>11. \A t \in Txns : t # c => (Keeping(t)' <=> Keeping(t))
  BY <1>3, <1>9, <1>10 DEF Keeping, AtGate
<1> QED BY <1>3, <1>5, <1>7, <1>8, <1>9, <1>10, <1>11, QueueStart

\* A thread that leaves loses the one call it may have on its own list.
LEMMA ThreadExitQueue ==
  ASSUME QInv, ~isDead, NEW th \in Threads, ThreadExit(th)
  PROVE  Queue!Next \/ UNCHANGED Queue!vars
<1>0. TypeOK /\ Gate
  BY DEF QInv, IInv, Gate
<1>1. /\ UNCHANGED <<isDead, target, asyncTodo, procTodo, sender, buffer, cur>>
      /\ pc[th] = "user" /\ pc'[th] = "dead" /\ todo'[th] = <<>>
      /\ \A x \in Threads : x # th => pc'[x] = pc[x] /\ todo'[x] = todo[x]
  BY <1>0 DEF ThreadExit, ReleaseThread, procVars, nodeVars, txnVars, TypeOK
<1>2. \A t \in Txns : Accepted(t)' <=> Accepted(t)
  BY <1>1 DEF Accepted
<1>3. \A t \in Txns : /\ AtGate(t)' <=> AtGate(t)
                      /\ InHands(t)' <=> InHands(t)
                      /\ Waiting(t)' <=> Waiting(t)
                      /\ (\E x \in Threads : cur'[x] = t /\ pc'[x] = "deliver")
                           <=> (\E x \in Threads : cur[x] = t /\ pc[x] = "deliver")
  BY <1>1 DEF AtGate, InHands, Waiting
<1>4. CASE todo[th] = <<>>
  <2>1. \A t \in Txns : Queued(t)' <=> Queued(t)
    BY <1>1, <1>4 DEF Queued
  <2>2. \A t \in Txns : Moving(t)' <=> Moving(t)
    BY <1>3, <2>1 DEF Moving
  <2> QED BY <1>1, <1>2, <1>3, <2>2, QuietQueue
<1>5. CASE todo[th] # <<>>
  <2>1. PICK c \in Txns : c = Head(todo[th])
    BY <1>0, <1>5, TailElements DEF TypeOK
  <2>2. Tail(todo[th]) = <<>>
    BY <1>0, <1>5, TailOfOne DEF QInv, OneOwn, TypeOK
  <2>3. ToSet(<<>>) = {} /\ ToSet(todo'[th]) = {}
    BY <1>1 DEF ToSet
  <2>4. ToSet(todo[th]) = {c}
    <3>1. todo[th] \in Seq(Txns)
      BY <1>0 DEF TypeOK
    <3>2. c \in ToSet(todo[th])
      BY <1>5, <2>1, <3>1, TailElements
    <3>3. ToSet(todo[th]) \subseteq ToSet(Tail(todo[th])) \union {c}
      BY <1>5, <2>1, <3>1, TailAndHead
    <3>4. ToSet(Tail(todo[th])) = {}
      BY <2>2, <2>3
    <3> QED BY <3>2, <3>3, <3>4
  <2>5. /\ Queued(c) /\ ~Queued(c)'
        /\ \A t \in Txns : t # c => (Queued(t)' <=> Queued(t))
    <3>1. c \notin ToSet(procTodo) /\ \A x \in Threads : x # th => c \notin ToSet(todo[x])
      BY <1>0, <2>4 DEF Gate, TxnOnOneList
    <3>2. Queued(c) /\ ~Queued(c)'
      BY <1>1, <2>3, <2>4, <3>1 DEF Queued
    <3>3. \A t \in Txns : t # c => (Queued(t)' <=> Queued(t))
      BY <1>1, <2>3, <2>4 DEF Queued
    <3> QED BY <3>2, <3>3
  <2>6. /\ Accepted(c) /\ buffer[c] = "kernel" /\ ~Waiting(c)
        /\ \A x \in Threads : pc[x] \in Hands => cur[x] # c
    BY <1>0, <2>5, ListedAreTxns DEF Gate, Located, TxnOnOneList, Hands, Waiting, TypeOK
  <2>7. Moving(c) /\ ~Moving(c)'
    BY <1>3, <2>5, <2>6 DEF Moving, Hands
  <2>8. Stranded(c)'
    BY <1>1, <1>2, <1>3, <2>5, <2>6 DEF Stranded, InHands, Hands
  <2>9. \A t \in Txns : t # c => /\ Moving(t)' <=> Moving(t)
                                 /\ Stranded(t)' <=> Stranded(t)
    BY <1>1, <1>2, <1>3, <2>5 DEF Moving, Stranded
  <2>10. \A t \in Txns : t # c => (Keeping(t)' <=> Keeping(t))
    BY <1>1, <1>3, <2>9 DEF Keeping, AtGate
  <2>11. Keeping(c)'
    BY <2>8 DEF Keeping
  <2> QED BY <1>1, <1>2, <2>7, <2>9, <2>10, <2>11, QueueStart
<1> QED BY <1>4, <1>5

LEMMA ThreadQueue ==
  ASSUME QInv, NEW th \in Threads, ThreadNext(th)
  PROVE  Queue!Next \/ UNCHANGED Queue!vars
<1> USE DEF GoTo
<1>0. TypeOK /\ Gate /\ Phases
  BY DEF QInv, IInv, Gate
<1>a. ~isDead
  BY <1>0 DEF ThreadNext, ReadBegin, WaitForWork, WouldBlock, Wake, Interrupted,
         Resume, Dequeue, ShortBuffer, Deliver, DeliverFault, ReadExit,
         PrepareToFree, OpenGate, FreeBuf, ThreadExit, Phases
<1>1. CASE \/ ReadBegin(th) \/ WaitForWork(th) \/ WouldBlock(th) \/ Wake(th)
           \/ Interrupted(th) \/ ShortBuffer(th) \/ ReadExit(th)
  <2>1. UNCHANGED <<isDead, target, asyncTodo, procTodo, todo, sender, buffer>>
    BY <1>1 DEF ReadBegin, WaitForWork, WouldBlock, Wake, Interrupted, Resume,
                ShortBuffer, ReadExit, procVars, nodeVars, listVars, txnVars
  <2>2. /\ pc[th] \notin Hands /\ pc'[th] \notin Hands
        /\ \A x \in Threads : x # th => pc'[x] = pc[x] /\ cur'[x] = cur[x]
    BY <1>0, <1>1 DEF ReadBegin, WaitForWork, WouldBlock, Wake, Interrupted, Resume,
                ShortBuffer, ReadExit, Hands, TypeOK
  <2>3. \A t \in Txns : Accepted(t)' <=> Accepted(t)
    BY <2>1 DEF Accepted
  <2>4. \A t \in Txns : Queued(t)' <=> Queued(t)
    BY <2>1 DEF Queued
  <2>5. \A t \in Txns : /\ Moving(t)' <=> Moving(t)
                        /\ AtGate(t)' <=> AtGate(t)
    BY <2>2, <2>4 DEF Moving, AtGate, Hands
  <2> QED BY <2>1, <2>3, <2>5, QuietQueue
<1>2. ASSUME NEW c \in Txns, PrepareToFree(th, c)
      PROVE  UNCHANGED Queue!vars
  <2>1. /\ UNCHANGED <<isDead, target, asyncTodo, procTodo, todo, sender>>
        /\ pc[th] = "user" /\ pc'[th] = "gate" /\ cur'[th] = c
        /\ buffer[c] = "user" /\ buffer'[c] = "freeing"
        /\ \A x \in Threads : x # th => pc'[x] = pc[x] /\ cur'[x] = cur[x]
        /\ \A t \in Txns : t # c => buffer'[t] = buffer[t]
    BY <1>0, <1>2 DEF PrepareToFree, procVars, nodeVars, listVars, TypeOK
  <2>2. \A t \in Txns : Accepted(t)' <=> Accepted(t)
    BY <2>1 DEF Accepted
  <2>3. \A t \in Txns : /\ Queued(t)' <=> Queued(t)
                        /\ Waiting(t)' <=> Waiting(t)
    BY <2>1 DEF Queued, Waiting
  <2>4. \A t \in Txns : Moving(t)' <=> Moving(t)
    BY <2>1, <2>3 DEF Moving
  <2>5. \A t \in Txns : t # c => /\ InHands(t)' <=> InHands(t)
                                 /\ AtGate(t)' <=> AtGate(t)
    BY <2>1 DEF InHands, AtGate
  <2>6. \A t \in Txns : Stranded(t)' <=> Stranded(t)
    BY <2>1, <2>2, <2>3, <2>5 DEF Stranded
  <2>7. Keeping(c) /\ Keeping(c)'
    BY <2>1 DEF Keeping
  <2>8. \A t \in Txns : Keeping(t)' <=> Keeping(t)
    BY <2>1, <2>5, <2>6, <2>7 DEF Keeping, AtGate
  <2> QED BY <2>1, <2>2, <2>4, <2>6, <2>8, QueueStutter
<1>3. CASE FreeBuf(th)
  <2>1. PICK c \in Txns : c = cur[th]
    BY <1>0, <1>3 DEF FreeBuf, TypeOK
  <2>2. /\ UNCHANGED <<isDead, target, asyncTodo, procTodo, todo, sender>>
        /\ pc[th] = "free" /\ pc'[th] = "user" /\ buffer'[c] = "freed"
        /\ \A x \in Threads : x # th => pc'[x] = pc[x] /\ cur'[x] = cur[x]
        /\ \A t \in Txns : t # c => buffer'[t] = buffer[t]
    BY <1>0, <1>3, <2>1 DEF FreeBuf, procVars, nodeVars, listVars, TypeOK
  <2>3. buffer[c] = "freeing"
    BY <1>0, <2>1, <2>2 DEF Gate, Located
  <2>4. \A t \in Txns : Accepted(t)' <=> Accepted(t)
    BY <2>2 DEF Accepted
  <2>5. \A t \in Txns : Queued(t)' <=> Queued(t)
    BY <2>2 DEF Queued
  <2>6. \A t \in Txns : /\ Moving(t)' <=> Moving(t)
                        /\ AtGate(t)' <=> AtGate(t)
    BY <2>2, <2>5 DEF Moving, AtGate
  <2>7. /\ \A t \in Txns : buffer'[t] = "user" <=> buffer[t] = "user"
        /\ \A t \in Txns : buffer'[t] = "kernel" <=> buffer[t] = "kernel"
    BY <2>2, <2>3
  <2> QED BY <2>2, <2>4, <2>6, <2>7, QuietQueue
<1> QED BY <1>a, <1>1, <1>2, <1>3, DequeueQueue, DeliverQueue, ThreadExitQueue,
           QueueGiveBack DEF ThreadNext

LEMMA ReleaseQueue ==
  ASSUME QInv, ReleaseNext
  PROVE  Queue!Next \/ UNCHANGED Queue!vars
<1>0. TypeOK /\ Phases
  BY DEF QInv, IInv
<1>1. UNCHANGED <<target, sender>>
  BY DEF ReleaseNext, ReleaseProc, ThreadsReleased, ReleaseTodo, ReleaseDone,
         ReleaseProcThread, ReleaseThread, ReleaseNode, txnVars
<1>2. \A t \in Txns : Accepted(t)' <=> Accepted(t)
  BY <1>1 DEF Accepted
<1>3. CASE ReleaseProc
  <2>1. isDead = FALSE /\ isDead' = TRUE
    BY <1>0, <1>3 DEF ReleaseProc, Phases
  <2>2. QueueAccepted' = QueueAccepted
    BY <1>2 DEF QueueAccepted
  <2>3. /\ QueuePending' = [n \in Nodes |-> <<>>]
        /\ QueueCurrent' = [n \in Nodes |-> None]
    BY <2>1 DEF QueuePending, QueueCurrent
  <2>4. QueueStuck' = [n \in Nodes |-> FALSE]
    BY <2>1 DEF QueueStuck
  <2>5. Queue!Die
    BY <1>1, <2>1, <2>2, <2>3, <2>4 DEF Queue!Die
  <2> QED BY <2>5 DEF Queue!Next
<1>4. CASE ~ReleaseProc
  <2>1. isDead /\ UNCHANGED isDead
    BY <1>0, <1>4 DEF ReleaseNext, ThreadsReleased, ReleaseTodo, ReleaseDone,
         ReleaseProcThread, ReleaseThread, ReleaseNode, procVars, Phases
  <2> QED BY <1>1, <1>2, <2>1, QueueStutter
<1> QED BY <1>3, <1>4

LEMMA InitQueue == Init => Queue!Init
<1> SUFFICES ASSUME Init PROVE Queue!Init
  OBVIOUS
<1>1. ToSet(<<>>) = {}
  BY DEF ToSet
<1>2. /\ target \in [Txns -> Nodes] /\ isDead = FALSE
      /\ \A t \in Txns : ~Accepted(t) /\ ~Stranded(t) /\ ~Moving(t) /\ ~Keeping(t)
      /\ \A n \in Nodes : asyncTodo[n] = <<>>
  BY <1>1 DEF Init, Accepted, Stranded, Moving, Keeping, Queued
<1>3. \A n \in Nodes : MovingAt(n) = {} /\ KeepingAt(n) = {}
  BY <1>2 DEF MovingAt, KeepingAt
<1>4. QueueAccepted = {}
  BY <1>2 DEF QueueAccepted
<1>5. QueuePending = [n \in Nodes |-> <<>>]
  <2>1. <<>> \o <<>> = <<>>
    OBVIOUS
  <2>2. \A n \in Nodes : PendingOf(n) = <<>>
    BY <1>2, <1>3, <2>1, SeqOfNone DEF PendingOf
  <2> QED BY <2>2 DEF QueuePending
<1>6. QueueCurrent = [n \in Nodes |-> None]
  BY <1>3, OneOfSets DEF QueueCurrent, CurrentOf
<1>7. QueueStuck = [n \in Nodes |-> FALSE]
  BY <1>2 DEF QueueStuck
<1> QED BY <1>2, <1>4, <1>5, <1>6, <1>7 DEF Queue!Init

\* The driver keeps the promise of OnewayQueue: the calls to a node are handed
\* over one at a time, in the order binder_proc_transaction accepted them, and
\* the next one only after BC_FREE_BUFFER of the one before.
THEOREM DriverImplementsQueue == Spec => ImplementsQueue
<1>1. Init => Queue!Init
  BY InitQueue
<1>2. QInv /\ [Next]_vars => [Queue!Next]_Queue!vars
  <2> SUFFICES ASSUME QInv, [Next]_vars PROVE Queue!Next \/ UNCHANGED Queue!vars
    BY DEF Queue!Next, Queue!vars
  <2>1. CASE UNCHANGED vars
    <3>1. UNCHANGED <<isDead, target, asyncTodo, procTodo, todo, sender, buffer, pc, cur>>
      BY <2>1 DEF vars, procVars, nodeVars, listVars, threadVars, txnVars
    <3>2. \A t \in Txns : /\ Accepted(t)' <=> Accepted(t)
                          /\ Moving(t)' <=> Moving(t)
                          /\ AtGate(t)' <=> AtGate(t)
      BY <3>1 DEF Accepted, Moving, Queued, AtGate
    <3> QED BY <3>1, <3>2, QuietQueue
  <2> QED BY <2>1, SenderQueue, ThreadQueue, ReleaseQueue DEF Next
<1> QED BY <1>1, <1>2, QueueInvariant, PTL DEF Spec, ImplementsQueue, Queue!Spec
=============================================================================
