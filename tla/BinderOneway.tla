---------------------------- MODULE BinderOneway ----------------------------
(***************************************************************************)
(* One-way (asynchronous) transactions of the binder driver, seen from the *)
(* one process that receives them.                                         *)
(*                                                                         *)
(* A sender (a thread of another process, one per transaction) takes a     *)
(* reference on the target node and its process, allocates an async        *)
(* buffer, and queues the transaction under the node lock and the inner    *)
(* lock of the receiver.  node->has_async_transaction is a gate: while it  *)
(* is closed, later transactions to the node wait on node->async_todo, and *)
(* only BC_FREE_BUFFER of the buffer in progress lets the next one out.    *)
(* The threads of the receiver read (sleeping on waiting_threads when      *)
(* there is nothing), free buffers and may leave; the process may die.     *)
(*                                                                         *)
(* One action is one section the code runs under a lock, or one section    *)
(* between two of them.  Source: src/docker/android-4.4-p-binder/binder.c. *)
(***************************************************************************)
EXTENDS Integers, FiniteSets, SequencesExt

CONSTANTS
    Nodes,        \* the nodes (binder_node) of the receiving process
    Threads,      \* its looper threads (binder_thread)
    Txns,         \* the one-way transactions, each with a sender of its own
    AsyncSpace,   \* how many async buffers fit in alloc->free_async_space
    None          \* "no transaction"

ASSUME FiniteAssumption == IsFiniteSet(Txns) /\ IsFiniteSet(Threads)
ASSUME AsyncAssumption == AsyncSpace \in Nat
ASSUME NoneAssumption == None \notin Txns

VARIABLES
    isDead,      \* proc->is_dead
    relPhase,    \* how far binder_deferred_release has come
    tmpRef,      \* proc->tmp_ref
    freed,       \* binder_free_proc has run
    nodeProc,    \* n |-> node->proc # NULL
    hasAsync,    \* n |-> node->has_async_transaction
    asyncTodo,   \* n |-> node->async_todo
    procTodo,    \* proc->todo
    waiting,     \* proc->waiting_threads
    todo,        \* th |-> thread->todo
    processTodo, \* th |-> thread->process_todo
    doProc,      \* th |-> wait_for_proc_work of the current read
    awake,       \* th |-> a wake_up reached the sleeping thread
    pc,          \* th |-> where the thread is in its ioctl
    cur,         \* th |-> the transaction (or buffer) in its hands
    target,      \* t |-> the node the transaction is sent to
    sender,      \* t |-> where its sender is in binder_transaction
    buffer,      \* t |-> the state of t->buffer
    asyncFree    \* alloc->free_async_space, counted in buffers

procVars == <<isDead, relPhase, tmpRef, freed>>
nodeVars == <<nodeProc, hasAsync, asyncTodo>>
listVars == <<procTodo, waiting, todo, processTodo>>
threadVars == <<doProc, awake, pc, cur>>
txnVars == <<target, sender, buffer, asyncFree>>
vars == <<procVars, nodeVars, listVars, threadVars, txnVars>>

RelPhases == {"no", "threads", "nodes", "todo", "done"}
ThreadStates == {"user", "retry", "wait", "asleep", "loop", "deliver",
                 "exit", "gate", "free", "dead"}
SenderStates == {"idle", "refs", "built", "undo", "ok", "err",
                 "sent", "failed"}

\* "kernel" is allocated with allow_user_free = 0, "user" with
\* allow_user_free = 1, "freeing" is between binder_alloc_prepare_to_free
\* and binder_alloc_free_buf.
BufferStates == {"none", "kernel", "user", "freeing", "freed"}

Live == {th \in Threads : pc[th] # "dead"}   \* the rb tree proc->threads

Init ==
    /\ isDead = FALSE /\ relPhase = "no" /\ tmpRef = 0 /\ freed = FALSE
    /\ nodeProc = [n \in Nodes |-> TRUE]
    /\ hasAsync = [n \in Nodes |-> FALSE]
    /\ asyncTodo = [n \in Nodes |-> <<>>]
    /\ procTodo = <<>> /\ waiting = <<>>
    /\ todo = [th \in Threads |-> <<>>]
    /\ processTodo = [th \in Threads |-> FALSE]
    /\ doProc = [th \in Threads |-> FALSE]
    /\ awake = [th \in Threads |-> FALSE]
    /\ pc = [th \in Threads |-> "user"]
    /\ cur = [th \in Threads |-> None]
    /\ target \in [Txns -> Nodes]
    /\ sender = [t \in Txns |-> "idle"]
    /\ buffer = [t \in Txns |-> "none"]
    /\ asyncFree = AsyncSpace

-----------------------------------------------------------------------------
(* Waking a thread, and the last reference on the process. *)

\* binder_select_thread_ilocked takes the first waiting thread off the list;
\* binder_wakeup_thread_ilocked then wakes it.  Nothing when nobody waits.
WakeupProc ==
    IF waiting = <<>>
    THEN UNCHANGED <<waiting, awake>>
    ELSE /\ waiting' = Tail(waiting)
         /\ awake' = [awake EXCEPT ![Head(waiting)] = TRUE]

\* binder_proc_dec_tmpref: the last reference to a dead process without
\* threads frees it.
ProcDecTmpref ==
    /\ tmpRef' = tmpRef - 1
    /\ freed' = (isDead /\ Live = {} /\ tmpRef' = 0)

-----------------------------------------------------------------------------
(* The sender: binder_transaction for a one-way transaction. *)

\* binder_get_node_refs_for_txn: a dead node has lost its process.
GetNodeRefs(t) ==
    /\ sender[t] = "idle"
    /\ IF nodeProc[target[t]]
       THEN /\ sender' = [sender EXCEPT ![t] = "refs"]
            /\ tmpRef' = tmpRef + 1
       ELSE /\ sender' = [sender EXCEPT ![t] = "failed"]
            /\ UNCHANGED tmpRef
    /\ UNCHANGED <<isDead, relPhase, freed, nodeVars, listVars, threadVars,
                   target, buffer, asyncFree>>

\* binder_alloc_new_buf fails when the async half of the space is used up, or
\* when what else is in the mapping leaves no room.
NewAsyncBuf(t) ==
    /\ sender[t] = "refs"
    /\ \/ /\ asyncFree > 0
          /\ sender' = [sender EXCEPT ![t] = "built"]
          /\ buffer' = [buffer EXCEPT ![t] = "kernel"]
          /\ asyncFree' = asyncFree - 1
       \/ /\ sender' = [sender EXCEPT ![t] = "err"]
          /\ UNCHANGED <<buffer, asyncFree>>
    /\ UNCHANGED <<procVars, nodeVars, listVars, threadVars, target>>

\* A payload that cannot be copied or translated (from "built"), or a dead
\* target (from "undo"): the buffer goes back and the sender reports an error.
ReleaseTxnBuf(t) ==
    /\ sender[t] \in {"built", "undo"}
    /\ sender' = [sender EXCEPT ![t] = "err"]
    /\ buffer' = [buffer EXCEPT ![t] = "freed"]
    /\ asyncFree' = asyncFree + 1
    /\ UNCHANGED <<procVars, nodeVars, listVars, threadVars, target>>

\* The transaction finds no transaction in progress on its node: the first
\* waiting thread gets it, or the process's list does.
QueueForDelivery(t) ==
    IF waiting = <<>>
    THEN /\ procTodo' = Append(procTodo, t)
         /\ UNCHANGED <<todo, processTodo, waiting, awake>>
    ELSE /\ todo' = [todo EXCEPT ![Head(waiting)] = Append(@, t)]
         /\ processTodo' = [processTodo EXCEPT ![Head(waiting)] = TRUE]
         /\ WakeupProc
         /\ UNCHANGED procTodo

\* Mutant of ProcTransaction: a transaction in progress does not hold others.
ProcTransactionUngated(t) ==
    /\ sender[t] = "built"
    /\ hasAsync' = [hasAsync EXCEPT ![target[t]] = TRUE]
    /\ IF isDead
       THEN /\ sender' = [sender EXCEPT ![t] = "undo"]
            /\ UNCHANGED <<listVars, awake>>
       ELSE /\ sender' = [sender EXCEPT ![t] = "ok"]
            /\ QueueForDelivery(t)
    /\ UNCHANGED <<procVars, nodeProc, asyncTodo, doProc, pc, cur, target,
                   buffer, asyncFree>>

\* Mutant of ProcTransaction: list_add for list_add_tail on async_todo.
ProcTransactionLifo(t) ==
    LET n == target[t]
    IN  \/ /\ sender[t] = "built" /\ ~isDead /\ hasAsync[n]
           /\ asyncTodo' = [asyncTodo EXCEPT ![n] = <<t>> \o @]
           /\ sender' = [sender EXCEPT ![t] = "ok"]
           /\ UNCHANGED <<procVars, nodeProc, hasAsync, listVars, threadVars,
                          target, buffer, asyncFree>>
        \/ (isDead \/ ~hasAsync[n]) /\ ProcTransactionUngated(t)

\* binder_proc_transaction.  The gate is closed before the death of the
\* process is noticed, and is not opened again when it is.
ProcTransaction(t) ==
    LET n == target[t]
        pending == hasAsync[n]
    IN  /\ sender[t] = "built"
        /\ hasAsync' = [hasAsync EXCEPT ![n] = TRUE]
        /\ IF isDead
           THEN /\ sender' = [sender EXCEPT ![t] = "undo"]
                /\ UNCHANGED <<asyncTodo, listVars, awake>>
           ELSE /\ sender' = [sender EXCEPT ![t] = "ok"]
                /\ IF pending
                   THEN /\ asyncTodo' = [asyncTodo EXCEPT ![n] = Append(@, t)]
                        /\ UNCHANGED <<listVars, awake>>
                   ELSE /\ QueueForDelivery(t)
                        /\ UNCHANGED asyncTodo
        /\ UNCHANGED <<procVars, nodeProc, doProc, pc, cur, target, buffer,
                       asyncFree>>

\* Mutant of DropRefs: an error path that keeps its reference.
DropRefsLeaky(t) ==
    /\ sender[t] \in {"ok", "err"}
    /\ sender' = [sender EXCEPT ![t] = IF @ = "ok" THEN "sent" ELSE "failed"]
    /\ IF sender[t] = "ok" THEN ProcDecTmpref ELSE UNCHANGED <<tmpRef, freed>>
    /\ UNCHANGED <<isDead, relPhase, nodeVars, listVars, threadVars, target,
                   buffer, asyncFree>>

\* The end of binder_transaction, on success and on error.
DropRefs(t) ==
    /\ sender[t] \in {"ok", "err"}
    /\ sender' = [sender EXCEPT ![t] = IF @ = "ok" THEN "sent" ELSE "failed"]
    /\ ProcDecTmpref
    /\ UNCHANGED <<isDead, relPhase, nodeVars, listVars, threadVars, target,
                   buffer, asyncFree>>

-----------------------------------------------------------------------------
(* A looper thread reading: binder_thread_read and binder_wait_for_work.   *)

GoTo(th, where) == pc' = [pc EXCEPT ![th] = where]

\* A thread with work of its own does not look at the process's list.
ReadBegin(th) ==
    /\ pc[th] \in {"user", "retry"}
    /\ relPhase = "no"
    /\ doProc' = [doProc EXCEPT ![th] = (todo[th] = <<>>)]
    /\ cur' = [cur EXCEPT ![th] = None]
    /\ GoTo(th, "wait")
    /\ UNCHANGED <<procVars, nodeVars, listVars, awake, txnVars>>

HasWork(th) == processTodo[th] \/ (doProc[th] /\ procTodo # <<>>)

\* One turn of the loop of binder_wait_for_work, up to schedule().
WaitForWork(th) ==
    /\ pc[th] = "wait"
    /\ IF HasWork(th)
       THEN GoTo(th, "loop") /\ UNCHANGED <<waiting, awake>>
       ELSE /\ GoTo(th, "asleep")
            /\ waiting' = IF doProc[th] THEN <<th>> \o waiting ELSE waiting
            /\ awake' = [awake EXCEPT ![th] = FALSE]
    /\ UNCHANGED <<procVars, nodeVars, procTodo, todo, processTodo, doProc,
                   cur, txnVars>>

\* A non-blocking read without work returns -EAGAIN.
WouldBlock(th) ==
    /\ pc[th] = "wait" /\ ~HasWork(th)
    /\ GoTo(th, "exit")
    /\ UNCHANGED <<procVars, nodeVars, listVars, doProc, awake, cur, txnVars>>

\* list_del_init of the thread's own entry: a no-op when it is on no list.
Unlist(th) ==
    \/ th \notin ToSet(waiting) /\ UNCHANGED waiting
    \/ \E i \in DOMAIN waiting :
         waiting[i] = th /\ waiting' = RemoveAt(waiting, i)

\* After schedule(): the thread takes itself off waiting_threads (a no-op for
\* a thread that was selected) and looks again, or leaves on a signal.
Resume(th, where) ==
    /\ pc[th] = "asleep"
    /\ Unlist(th)
    /\ GoTo(th, where)
    /\ UNCHANGED <<procVars, nodeVars, procTodo, todo, processTodo, doProc,
                   awake, cur, txnVars>>

Wake(th) == awake[th] /\ Resume(th, "wait")
Interrupted(th) == Resume(th, "exit")

\* The thread's own list first, then the process's if this read may; nothing
\* to do means another round.
Dequeue(th) ==
    /\ pc[th] = "loop"
    /\ CASE todo[th] # <<>> ->
              /\ cur' = [cur EXCEPT ![th] = Head(todo[th])]
              /\ todo' = [todo EXCEPT ![th] = Tail(@)]
              /\ UNCHANGED procTodo
              /\ GoTo(th, "deliver")
         [] todo[th] = <<>> /\ procTodo # <<>> /\ doProc[th] ->
              /\ cur' = [cur EXCEPT ![th] = Head(procTodo)]
              /\ procTodo' = Tail(procTodo)
              /\ UNCHANGED todo
              /\ GoTo(th, "deliver")
         [] OTHER ->
              /\ UNCHANGED <<cur, todo, procTodo>>
              /\ GoTo(th, "retry")
    /\ processTodo' =
         IF pc'[th] = "deliver" /\ todo'[th] = <<>>
         THEN [processTodo EXCEPT ![th] = FALSE] ELSE processTodo
    /\ UNCHANGED <<procVars, nodeVars, waiting, doProc, awake, txnVars>>

\* No room for a transaction in the read buffer: return without dequeueing.
ShortBuffer(th) ==
    /\ pc[th] = "loop"
    /\ todo[th] # <<>> \/ (procTodo # <<>> /\ doProc[th])
    /\ GoTo(th, "exit")
    /\ UNCHANGED <<procVars, nodeVars, listVars, doProc, awake, cur, txnVars>>

\* The command reaches user space: the buffer is now the user's to free and
\* the transaction itself is gone.
Deliver(th) ==
    /\ pc[th] = "deliver"
    /\ buffer' = [buffer EXCEPT ![cur[th]] = "user"]
    /\ GoTo(th, "exit")
    /\ UNCHANGED <<procVars, nodeVars, listVars, doProc, awake, cur, target,
                   sender, asyncFree>>

\* put_user or copy_to_user faults: binder_cleanup_transaction frees the
\* transaction, and the buffer stays, never to become the user's.
DeliverFault(th) ==
    /\ pc[th] = "deliver"
    /\ cur' = [cur EXCEPT ![th] = None]
    /\ GoTo(th, "exit")
    /\ UNCHANGED <<procVars, nodeVars, listVars, doProc, awake, txnVars>>

\* The end of the read in binder_ioctl_write_read: what is left on the
\* process's list wakes another thread.
ReadExit(th) ==
    /\ pc[th] = "exit"
    /\ IF procTodo # <<>> THEN WakeupProc ELSE UNCHANGED <<waiting, awake>>
    /\ cur' = [cur EXCEPT ![th] = None]
    /\ GoTo(th, "user")
    /\ UNCHANGED <<procVars, nodeVars, procTodo, todo, processTodo, doProc,
                   txnVars>>

-----------------------------------------------------------------------------
(* BC_FREE_BUFFER. *)

\* Mutant of PrepareToFree: allow_user_free is not looked at.
PrepareToFreeAny(th, t) ==
    /\ pc[th] = "user" /\ relPhase = "no"
    /\ buffer[t] \in {"kernel", "user"}
    /\ buffer' = [buffer EXCEPT ![t] = "freeing"]
    /\ cur' = [cur EXCEPT ![th] = t]
    /\ GoTo(th, "gate")
    /\ UNCHANGED <<procVars, nodeVars, listVars, doProc, awake, target,
                   sender, asyncFree>>

\* binder_alloc_prepare_to_free: a buffer that is not the user's to free is
\* refused, which changes nothing.
PrepareToFree(th, t) ==
    /\ pc[th] = "user" /\ relPhase = "no"
    /\ buffer[t] = "user"
    /\ buffer' = [buffer EXCEPT ![t] = "freeing"]
    /\ cur' = [cur EXCEPT ![th] = t]
    /\ GoTo(th, "gate")
    /\ UNCHANGED <<procVars, nodeVars, listVars, doProc, awake, target,
                   sender, asyncFree>>

\* Mutant of OpenGate: the gate opens although another transaction starts.
OpenGateAlways(th) ==
    LET n == target[cur[th]]
    IN  /\ pc[th] = "gate"
        /\ hasAsync' = [hasAsync EXCEPT ![n] = FALSE]
        /\ IF asyncTodo[n] = <<>>
           THEN UNCHANGED <<asyncTodo, procTodo, waiting, awake>>
           ELSE /\ asyncTodo' = [asyncTodo EXCEPT ![n] = Tail(@)]
                /\ procTodo' = Append(procTodo, Head(asyncTodo[n]))
                /\ WakeupProc
        /\ GoTo(th, "free")
        /\ UNCHANGED <<procVars, nodeProc, todo, processTodo, doProc, cur,
                       txnVars>>

\* Mutant of OpenGate: the gate stays closed when nothing is waiting.
OpenGateNever(th) ==
    /\ pc[th] = "gate"
    /\ IF asyncTodo[target[cur[th]]] = <<>>
       THEN GoTo(th, "free") /\ UNCHANGED <<nodeVars, listVars, awake>>
       ELSE OpenGateAlways(th)
    /\ UNCHANGED <<procVars, doProc, cur, txnVars>>

\* Mutant of OpenGate: no thread is woken for the transaction that starts.
OpenGateSilent(th) ==
    LET n == target[cur[th]]
    IN  /\ pc[th] = "gate"
        /\ hasAsync' = [hasAsync EXCEPT ![n] = (asyncTodo[n] # <<>>)]
        /\ asyncTodo' = [asyncTodo EXCEPT ![n] = IF @ = <<>> THEN @ ELSE Tail(@)]
        /\ procTodo' = IF asyncTodo[n] = <<>> THEN procTodo
                        ELSE Append(procTodo, Head(asyncTodo[n]))
        /\ GoTo(th, "free")
        /\ UNCHANGED <<procVars, nodeProc, waiting, awake, todo, processTodo,
                       doProc, cur, txnVars>>

\* The next transaction of the node starts, or the gate opens.  A started
\* transaction always goes through the process's list.
OpenGate(th) ==
    LET n == target[cur[th]]
    IN  /\ pc[th] = "gate"
        /\ IF asyncTodo[n] = <<>>
           THEN /\ hasAsync' = [hasAsync EXCEPT ![n] = FALSE]
                /\ UNCHANGED <<asyncTodo, procTodo, waiting, awake>>
           ELSE /\ asyncTodo' = [asyncTodo EXCEPT ![n] = Tail(@)]
                /\ procTodo' = Append(procTodo, Head(asyncTodo[n]))
                /\ WakeupProc
                /\ UNCHANGED hasAsync
        /\ GoTo(th, "free")
        /\ UNCHANGED <<procVars, nodeProc, todo, processTodo, doProc, cur,
                       txnVars>>

\* binder_alloc_free_buf.
FreeBuf(th) ==
    /\ pc[th] = "free"
    /\ buffer' = [buffer EXCEPT ![cur[th]] = "freed"]
    /\ asyncFree' = asyncFree + 1
    /\ cur' = [cur EXCEPT ![th] = None]
    /\ GoTo(th, "user")
    /\ UNCHANGED <<procVars, nodeVars, listVars, doProc, awake, target,
                   sender>>

-----------------------------------------------------------------------------
(* Threads and the process going away. *)

\* binder_thread_release: the work on the thread's list is dropped, but the
\* buffers of the dropped transactions stay allocated.
ReleaseThread(th) ==
    /\ pc[th] = "user"
    /\ pc' = [pc EXCEPT ![th] = "dead"]
    /\ todo' = [todo EXCEPT ![th] = <<>>]
    /\ UNCHANGED <<procVars, nodeVars, procTodo, waiting, processTodo,
                   doProc, awake, cur, txnVars>>

\* The BINDER_THREAD_EXIT ioctl.
ThreadExit(th) == relPhase = "no" /\ ReleaseThread(th)

\* binder_deferred_release runs once no thread is inside the driver (the file
\* was closed for the last time); it keeps a reference of its own.
ReleaseProc ==
    /\ relPhase = "no"
    /\ \A th \in Live : pc[th] = "user"
    /\ relPhase' = "threads"
    /\ isDead' = TRUE
    /\ tmpRef' = tmpRef + 1
    /\ UNCHANGED <<freed, nodeVars, listVars, threadVars, txnVars>>

ReleaseProcThread(th) == relPhase = "threads" /\ ReleaseThread(th)

ThreadsReleased ==
    /\ relPhase = "threads" /\ Live = {}
    /\ relPhase' = "nodes"
    /\ UNCHANGED <<isDead, tmpRef, freed, nodeVars, listVars, threadVars,
                   txnVars>>

\* binder_node_release: the waiting transactions are dropped, then the node
\* loses its process.
ReleaseNode(n) ==
    /\ relPhase = "nodes" /\ nodeProc[n]
    /\ asyncTodo' = [asyncTodo EXCEPT ![n] = <<>>]
    /\ nodeProc' = [nodeProc EXCEPT ![n] = FALSE]
    /\ UNCHANGED <<procVars, hasAsync, listVars, threadVars, txnVars>>

\* binder_release_work on proc->todo.
ReleaseTodo ==
    /\ relPhase = "nodes" /\ \A n \in Nodes : ~nodeProc[n]
    /\ relPhase' = "todo"
    /\ procTodo' = <<>>
    /\ UNCHANGED <<isDead, tmpRef, freed, nodeVars, waiting, todo,
                   processTodo, threadVars, txnVars>>

ReleaseDone ==
    /\ relPhase = "todo"
    /\ relPhase' = "done"
    /\ ProcDecTmpref
    /\ UNCHANGED <<isDead, nodeVars, listVars, threadVars, txnVars>>

-----------------------------------------------------------------------------
SenderNext(t) ==
    \/ GetNodeRefs(t) \/ NewAsyncBuf(t) \/ ReleaseTxnBuf(t)
    \/ ProcTransaction(t) \/ DropRefs(t)

ThreadNext(th) ==
    \/ ReadBegin(th) \/ WaitForWork(th) \/ WouldBlock(th) \/ Wake(th)
    \/ Interrupted(th) \/ Dequeue(th) \/ ShortBuffer(th)
    \/ Deliver(th) \/ DeliverFault(th) \/ ReadExit(th)
    \/ \E t \in Txns : PrepareToFree(th, t)
    \/ OpenGate(th) \/ FreeBuf(th) \/ ThreadExit(th)

ReleaseNext ==
    \/ ReleaseProc \/ ThreadsReleased \/ ReleaseTodo \/ ReleaseDone
    \/ \E th \in Threads : ReleaseProcThread(th)
    \/ \E n \in Nodes : ReleaseNode(n)

Next ==
    \/ \E t \in Txns : SenderNext(t)
    \/ \E th \in Threads : ThreadNext(th)
    \/ ReleaseNext

Spec == Init /\ [][Next]_vars

\* A thread inside the driver goes on, and a sender in binder_transaction
\* does; a looper thread comes back to read, with a buffer that is not
\* forever too short.  Freeing a buffer, leaving, and dying stay optional.
Fairness ==
    /\ \A t \in Txns :
         /\ WF_vars(NewAsyncBuf(t))
         /\ WF_vars(ReleaseTxnBuf(t) \/ ProcTransaction(t))
         /\ WF_vars(DropRefs(t))
    /\ \A th \in Threads :
         /\ WF_vars(ReadBegin(th))
         /\ WF_vars(WaitForWork(th)) /\ WF_vars(Wake(th))
         /\ SF_vars(Dequeue(th))
         /\ WF_vars(Deliver(th) \/ DeliverFault(th))
         /\ WF_vars(ReadExit(th))
         /\ WF_vars(OpenGate(th)) /\ WF_vars(FreeBuf(th))

FairSpec == Spec /\ Fairness
-----------------------------------------------------------------------------
(* Where a transaction is. *)

\* On a list from which a thread will take it to deliver it.
Queued(t) ==
    \/ t \in ToSet(procTodo)
    \/ \E th \in Threads : t \in ToSet(todo[th])

\* In the hands of a thread that delivers it, or that opens the gate behind it.
InHands(t) ==
    \E th \in Threads : cur[th] = t /\ pc[th] \in {"deliver", "gate"}

\* Started on its node, and not yet past the gate.
InProgress(t) == Queued(t) \/ InHands(t) \/ buffer[t] = "user"

Waiting(t) == t \in ToSet(asyncTodo[target[t]])

Accepted(t) == sender[t] \in {"ok", "sent"}

\* Lost between being queued and being delivered: binder_cleanup_transaction
\* has freed the transaction, and nobody can free its buffer.
Stranded(t) ==
    /\ Accepted(t) /\ buffer[t] = "kernel"
    /\ ~Queued(t) /\ ~InHands(t) /\ ~Waiting(t)

-----------------------------------------------------------------------------
(* Properties. *)

TypeOK ==
    /\ isDead \in BOOLEAN /\ freed \in BOOLEAN
    /\ relPhase \in RelPhases
    /\ tmpRef \in Int
    /\ nodeProc \in [Nodes -> BOOLEAN]
    /\ hasAsync \in [Nodes -> BOOLEAN]
    /\ asyncTodo \in [Nodes -> Seq(Txns)]
    /\ procTodo \in Seq(Txns)
    /\ waiting \in Seq(Threads)
    /\ todo \in [Threads -> Seq(Txns)]
    /\ processTodo \in [Threads -> BOOLEAN]
    /\ doProc \in [Threads -> BOOLEAN]
    /\ awake \in [Threads -> BOOLEAN]
    /\ pc \in [Threads -> ThreadStates]
    /\ cur \in [Threads -> Txns \union {None}]
    /\ \A th \in Threads :
         pc[th] \in {"deliver", "gate", "free"} => cur[th] \in Txns
    /\ target \in [Txns -> Nodes]
    /\ sender \in [Txns -> SenderStates]
    /\ buffer \in [Txns -> BufferStates]
    /\ asyncFree \in Int

\* At most one transaction of a node is in progress: between being put on a
\* delivery list and BC_FREE_BUFFER of its buffer, no other one of the node
\* is on a delivery list, in a thread's hands or in the user's.
OneInProgress ==
    \A t1, t2 \in Txns :
      InProgress(t1) /\ InProgress(t2) /\ target[t1] = target[t2] => t1 = t2

\* The gate of a node stays closed while a transaction of it is in progress
\* or waiting; opening it finds it closed, on a node that still has its
\* process (the two BUG_ONs of BC_FREE_BUFFER).
GateClosed ==
    /\ \A t \in Txns : InProgress(t) \/ Waiting(t) => hasAsync[target[t]]
    /\ \A th \in Threads :
         pc[th] = "gate" => hasAsync[target[cur[th]]] /\ nodeProc[target[cur[th]]]

\* A gate of a living process is closed for a reason: a transaction in
\* progress, or one that was stranded.  No gate is left closed by a sender
\* that failed, and no waiting transaction by a freed buffer.
GateHasHolder ==
    ~isDead =>
      \A n \in Nodes : hasAsync[n] =>
        \E t \in Txns : target[t] = n /\ (InProgress(t) \/ Stranded(t))

\* What the comment on has_async_transaction says: "async transaction to node
\* in progress".
GateMeansInProgress ==
    ~isDead =>
      \A n \in Nodes : hasAsync[n] =>
        \E t \in Txns : target[t] = n /\ InProgress(t)

\* A transaction is at most once on at most one list (the BUG_ON of
\* binder_enqueue_work_ilocked, and the integrity of the lists).
TxnOnOneList ==
    /\ IsInjective(procTodo)
    /\ \A n \in Nodes : IsInjective(asyncTodo[n])
    /\ \A th \in Threads : IsInjective(todo[th])
    /\ \A x, y \in Threads : x # y => ToSet(todo[x]) \cap ToSet(todo[y]) = {}
    /\ \A th \in Threads : ToSet(todo[th]) \cap ToSet(procTodo) = {}
    /\ \A n \in Nodes : \A t \in ToSet(asyncTodo[n]) : ~Queued(t)

\* A thread is at most once on waiting_threads, and only while it sleeps:
\* binder_select_thread_ilocked never picks a thread that cannot be woken.
ThreadListed ==
    /\ IsInjective(waiting)
    /\ \A th \in ToSet(waiting) : pc[th] = "asleep"

\* A transaction that is queued, waiting or being delivered still has its
\* buffer, which the user cannot free yet (BUG_ON(t->buffer == NULL) in
\* binder_thread_read), and the async space is what the buffers leave.
BufferOutlivesTransaction ==
    /\ \A t \in Txns : Queued(t) \/ Waiting(t) => buffer[t] = "kernel"
    /\ \A th \in Threads : pc[th] = "deliver" => buffer[cur[th]] = "kernel"
    /\ asyncFree = AsyncSpace - Cardinality(
         {t \in Txns : buffer[t] \in {"kernel", "user", "freeing"}})

\* A process is freed when its release is done and no sender uses it any more,
\* neither before nor never; binder_free_proc then finds no work on its list
\* (its BUG_ON) nor on a node's.
FreedWhenDone ==
    /\ freed <=> /\ relPhase = "done"
                 /\ \A t \in Txns : sender[t] \in {"idle", "sent", "failed"}
    /\ freed => procTodo = <<>> /\ \A n \in Nodes : asyncTodo[n] = <<>>

\* While a thread waits for process work and there is some, another thread is
\* on its way to look at it; a thread with work of its own does not sleep
\* unless it has been woken.
NoLostWakeup ==
    /\ procTodo # <<>> /\ waiting # <<>> =>
         \E th \in Threads :
           \/ pc[th] \in {"deliver", "exit"}
           \/ doProc[th] /\ pc[th] \in {"wait", "loop"}
           \/ doProc[th] /\ pc[th] = "asleep" /\ awake[th]
    /\ \A th \in Threads : pc[th] = "asleep" /\ todo[th] # <<>> => awake[th]

\* How far the sender, the buffer and the lists of a transaction have come
\* together: what is on a list was accepted and has its buffer, a waiting
\* transaction waits on its own node, and one buffer is in one thread's hands.
Located ==
    /\ \A t \in Txns : Queued(t) => Accepted(t) /\ buffer[t] = "kernel"
    /\ \A n \in Nodes : \A t \in ToSet(asyncTodo[n]) :
         target[t] = n /\ Accepted(t) /\ buffer[t] = "kernel"
    /\ \A th \in Threads, t \in Txns : pc[th] = "deliver" /\ cur[th] = t =>
         Accepted(t) /\ buffer[t] = "kernel" /\ ~Queued(t) /\ ~Waiting(t)
    /\ \A th \in Threads :
         pc[th] \in {"gate", "free"} => buffer[cur[th]] = "freeing"
    /\ \A x, y \in Threads :
         /\ pc[x] \in {"deliver", "gate", "free"}
         /\ pc[y] \in {"deliver", "gate", "free"}
         /\ cur[x] = cur[y]
         => x = y
    /\ \A t \in Txns :
         /\ sender[t] \in {"idle", "refs"} => buffer[t] = "none"
         /\ sender[t] \in {"built", "undo"} => buffer[t] = "kernel"

\* The phases of binder_deferred_release: no thread is inside the driver, and
\* the nodes lose their process only after the threads are gone.
Phases ==
    /\ isDead = (relPhase # "no")
    /\ relPhase # "no" => \A th \in Threads : pc[th] \in {"user", "dead"}
    /\ relPhase \in {"no", "threads"} => \A n \in Nodes : nodeProc[n]

\* The inductive invariant of the proofs.
IInv ==
    /\ TypeOK /\ TxnOnOneList /\ ThreadListed /\ Located /\ Phases
    /\ OneInProgress /\ GateClosed

\* Moving: accepted and past the gate, but not yet handed over.  Keeping: handed
\* over or lost, with the buffer that must come back before the next one.
Moving(t) ==
    Queued(t) \/ \E th \in Threads : cur[th] = t /\ pc[th] = "deliver"

Keeping(t) ==
    \/ buffer[t] = "user" \/ Stranded(t)
    \/ \E th \in Threads : cur[th] = t /\ pc[th] = "gate"

MovingAt(n) == {t \in Txns : target[t] = n /\ Moving(t)}
KeepingAt(n) == {t \in Txns : target[t] = n /\ Keeping(t)}

\* The transactions of a node in the order they will be handed over.
PendingOf(n) == SetToSeq(MovingAt(n)) \o asyncTodo[n]

OneOf(S) == IF S = {} THEN None ELSE CHOOSE t \in S : TRUE
CurrentOf(n) == OneOf(KeepingAt(n))

\* What OnewayQueue knows of the driver.
QueueAccepted == {t \in Txns : Accepted(t)}
QueuePending == [n \in Nodes |-> IF isDead THEN <<>> ELSE PendingOf(n)]
QueueCurrent == [n \in Nodes |-> IF isDead THEN None ELSE CurrentOf(n)]
QueueStuck == [n \in Nodes |-> ~isDead /\
                 \E t \in Txns : target[t] = n /\ Stranded(t)]

\* The driver implements the promise of OnewayQueue: one at a time, in order,
\* each at most once, the next one only after the buffer of the one before.
Queue == INSTANCE OnewayQueue WITH
    dest <- target, accepted <- QueueAccepted, pending <- QueuePending,
    current <- QueueCurrent, stuck <- QueueStuck, dead <- isDead

ImplementsQueue == Queue!Spec

\* If the users free what they are given, then every accepted transaction is
\* given to a user, unless one before it on its node was stranded (or it was
\* itself), all threads left, or the process died.
UsersFree == \A t \in Txns : buffer[t] = "user" ~> buffer[t] # "user"

HandedOver(t) == buffer[t] \in {"user", "freeing", "freed"}

AcceptedIsHandedOver ==
    UsersFree =>
      \A t \in Txns :
        Accepted(t) ~>
          \/ HandedOver(t)
          \/ \E u \in Txns : target[u] = target[t] /\ Stranded(u)
          \/ Live = {} \/ isDead
=============================================================================
