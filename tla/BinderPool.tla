------------------------------ MODULE BinderPool ------------------------------
(***************************************************************************)
(* The threads of one process that uses the binder driver: how they enter  *)
(* it, sleep in BINDER_WRITE_READ or in poll, are woken for work on the    *)
(* process's list, ask for another looper, are told to return by a flush,  *)
(* and leave.  What the work is, and what a read does with it, is left to  *)
(* the module that extends this one; a work item is in one place at a time.*)
(*                                                                         *)
(* One action is one section the code runs under proc->inner_lock, or one  *)
(* between two of them.  Source: src/docker/android-4.4-p-binder/binder.c. *)
(***************************************************************************)
EXTENDS Naturals, FiniteSets

CONSTANTS
    Threads,   \* the operating-system threads of the process
    Work,      \* the work items (binder_work) that may be queued
    Limits,    \* values given to BINDER_SET_MAX_THREADS
    Registering, Entering, Polling  \* the threads that use BC_REGISTER_LOOPER,
                                    \* BC_ENTER_LOOPER and poll

\* Where a work item is when it is on no thread's list.  "off" is allocated and
\* on no list, "dropped" freed by binder_release_work before anybody read it,
\* "corrupt" what list_add of an item already on a list makes.
OffThread == {"unused", "off", "proc", "delivered", "freed", "dropped",
              "corrupt"}

ASSUME PoolAssumption ==
    /\ IsFiniteSet(Threads) /\ Threads \cap OffThread = {}
    /\ Limits \subseteq Nat

VARIABLES
    pc,          \* th |-> where the thread is; "out" has no binder_thread
    looper,      \* th |-> the flags of thread->looper the driver looks at
    needReturn,  \* th |-> thread->looper_need_return
    doProc,      \* th |-> wait_for_proc_work of the current read or poll
    woken,       \* th |-> a wake_up reached the sleeping thread
    got,         \* th |-> the current read has returned something
    waiting,     \* the set proc->waiting_threads
    requested,   \* proc->requested_threads
    started,     \* proc->requested_threads_started
    maxThreads,  \* proc->max_threads
    flush,       \* BINDER_DEFERRED_FLUSH is set in proc->deferred_work
    place        \* w |-> the list work item w is on

threadVars == <<pc, looper, needReturn, doProc, woken, got>>
poolVars == <<requested, started, maxThreads>>

ThreadStates == {"out", "user", "wait", "asleep", "loop", "done", "exit",
                 "poll", "polling"}
Flags == {"registered", "entered", "poll"}

ProcTodo == {w \in Work : place[w] = "proc"}
Todo(th) == {w \in Work : place[w] = th}

PoolInit ==
    /\ pc = [th \in Threads |-> "out"]
    /\ looper = [th \in Threads |-> {}]
    /\ needReturn = [th \in Threads |-> FALSE]
    /\ doProc = [th \in Threads |-> FALSE]
    /\ woken = [th \in Threads |-> FALSE]
    /\ got = [th \in Threads |-> FALSE]
    /\ waiting = {}
    /\ requested = 0 /\ started = 0 /\ maxThreads = 0
    /\ flush = FALSE
    /\ place = [w \in Work |-> "unused"]

-----------------------------------------------------------------------------
(* Lists and wake-ups. *)

\* A thread whose looper flags say that it may take work of the process.
IsLooper(th) == looper[th] \cap {"registered", "entered"} # {}

\* binder_available_for_proc_work_ilocked
Available(th) == Todo(th) = {} /\ IsLooper(th)

\* binder_has_work_ilocked
HasWork(th) == \/ Todo(th) # {}
               \/ needReturn[th]
               \/ doProc[th] /\ ProcTodo # {}

\* binder_wakeup_proc_ilocked: some waiting thread is taken off the list and
\* woken; when nobody waits, every thread that polled and may take the work.
WakeupProc ==
    \/ \E th \in waiting :
           /\ waiting' = waiting \ {th}
           /\ woken' = [woken EXCEPT ![th] = TRUE]
    \/ /\ waiting = {}
       /\ waiting' = waiting
       /\ woken' = [th \in Threads |->
                        \/ woken[th]
                        \/ /\ pc[th] \in {"polling", "asleep"}
                           /\ "poll" \in looper[th] /\ Available(th)]

\* list_add_tail asserts that the item is on no list; an item that is on one
\* is marked.
Queued(w, list) ==
    [place EXCEPT ![w] = IF place[w] = "off" THEN list ELSE "corrupt"]

-----------------------------------------------------------------------------
(* Entering the driver; the commands that change the pool. *)

\* binder_get_thread, on a thread's first call
GetThread(th) ==
    /\ pc[th] = "out"
    /\ pc' = [pc EXCEPT ![th] = "user"]
    /\ needReturn' = [needReturn EXCEPT ![th] = TRUE]
    /\ UNCHANGED <<looper, doProc, woken, got, waiting, poolVars, flush, place>>

\* The end of binder_ioctl after a call that does not read: several commands
\* may come in one call.
IoctlEnd(th) ==
    /\ pc[th] = "user" /\ needReturn[th]
    /\ needReturn' = [needReturn EXCEPT ![th] = FALSE]
    /\ UNCHANGED <<pc, looper, doProc, woken, got, waiting, poolVars, flush,
                   place>>

\* BC_REGISTER_LOOPER; a thread that breaks the rules is registered all the
\* same, but not counted.
RegisterLooper(th) ==
    /\ pc[th] = "user" /\ th \in Registering
    /\ IF "entered" \in looper[th] \/ requested = 0
       THEN UNCHANGED <<requested, started>>
       ELSE /\ requested' = requested - 1
            /\ started' = started + 1
    /\ looper' = [looper EXCEPT ![th] = @ \cup {"registered"}]
    /\ UNCHANGED <<pc, needReturn, doProc, woken, got, waiting, maxThreads,
                   flush, place>>

\* BC_ENTER_LOOPER
EnterLooper(th) ==
    /\ pc[th] = "user" /\ th \in Entering
    /\ looper' = [looper EXCEPT ![th] = @ \cup {"entered"}]
    /\ UNCHANGED <<pc, needReturn, doProc, woken, got, waiting, poolVars,
                   flush, place>>

\* BINDER_SET_MAX_THREADS
SetMaxThreads(th, n) ==
    /\ pc[th] = "user" /\ n # maxThreads
    /\ maxThreads' = n
    /\ UNCHANGED <<threadVars, waiting, requested, started, flush, place>>

-----------------------------------------------------------------------------
(* binder_thread_read *)

\* The label retry: whether to wait for work of the process is decided once.
StartWait(th) ==
    /\ pc' = [pc EXCEPT ![th] = "wait"]
    /\ doProc' = [doProc EXCEPT ![th] = Available(th)]

ReadBegin(th) ==
    /\ pc[th] = "user"
    /\ StartWait(th)
    /\ got' = [got EXCEPT ![th] = FALSE]
    /\ UNCHANGED <<looper, needReturn, woken, waiting, poolVars, flush, place>>

\* binder_wait_for_work, one turn of its loop
WaitForWork(th) ==
    /\ pc[th] = "wait"
    /\ IF HasWork(th)
       THEN /\ pc' = [pc EXCEPT ![th] = "loop"]
            /\ UNCHANGED <<waiting, woken>>
       ELSE /\ pc' = [pc EXCEPT ![th] = "asleep"]
            /\ waiting' = IF doProc[th] THEN waiting \cup {th} ELSE waiting
            /\ woken' = [woken EXCEPT ![th] = FALSE]
    /\ UNCHANGED <<looper, needReturn, doProc, got, poolVars, flush, place>>

\* A read that must not block returns -EAGAIN.
WouldBlock(th) ==
    /\ pc[th] = "wait" /\ ~HasWork(th)
    /\ pc' = [pc EXCEPT ![th] = "exit"]
    /\ UNCHANGED <<looper, needReturn, doProc, woken, got, waiting, poolVars,
                   flush, place>>

\* schedule() returns because of a wake-up, or because of a signal.
Wake(th) ==
    /\ pc[th] = "asleep" /\ woken[th]
    /\ waiting' = waiting \ {th}
    /\ pc' = [pc EXCEPT ![th] = "wait"]
    /\ woken' = [woken EXCEPT ![th] = FALSE]
    /\ UNCHANGED <<looper, needReturn, doProc, got, poolVars, flush, place>>

Interrupted(th) ==
    /\ pc[th] = "asleep"
    /\ waiting' = waiting \ {th}
    /\ pc' = [pc EXCEPT ![th] = "exit"]
    /\ woken' = [woken EXCEPT ![th] = FALSE]
    /\ UNCHANGED <<looper, needReturn, doProc, got, poolVars, flush, place>>

\* The list the next item is taken from; empty when there is nothing to take.
NextList(th) == IF Todo(th) # {} THEN Todo(th)
                ELSE IF doProc[th] THEN ProcTodo ELSE {}

\* Nothing on the lists: "no data added" starts over, otherwise the read ends.
NothingLeft(th) ==
    /\ pc[th] = "loop" /\ NextList(th) = {}
    /\ IF ~got[th] /\ ~needReturn[th]
       THEN StartWait(th)
       ELSE pc' = [pc EXCEPT ![th] = "done"] /\ UNCHANGED doProc
    /\ UNCHANGED <<looper, needReturn, woken, got, waiting, poolVars, flush,
                   place>>

\* The user's buffer has no room for another item.
ShortBuffer(th) ==
    /\ pc[th] = "loop" /\ NextList(th) # {}
    /\ pc' = [pc EXCEPT ![th] = "done"]
    /\ UNCHANGED <<looper, needReturn, doProc, woken, got, waiting, poolVars,
                   flush, place>>

\* Mutant of NeedsLooper: one looper more than the limit.
NeedsLooperMore(th) ==
    /\ requested = 0 /\ waiting = {} /\ started <= maxThreads
    /\ IsLooper(th)

\* The label done: BR_SPAWN_LOOPER when nobody is left to wait for work.
NeedsLooper(th) ==
    /\ requested = 0 /\ waiting = {} /\ started < maxThreads
    /\ IsLooper(th)

SpawnLooper(th) ==
    /\ pc[th] = "done"
    /\ requested' = IF NeedsLooper(th) THEN requested + 1 ELSE requested
    /\ pc' = [pc EXCEPT ![th] = "exit"]
    /\ UNCHANGED <<looper, needReturn, doProc, woken, got, waiting, started,
                   maxThreads, flush, place>>

\* Mutant of ReadExit: nobody is woken for what is left.
ReadExitSilent(th) ==
    /\ pc[th] = "exit"
    /\ pc' = [pc EXCEPT ![th] = "user"]
    /\ needReturn' = [needReturn EXCEPT ![th] = FALSE]
    /\ doProc' = [doProc EXCEPT ![th] = FALSE]
    /\ got' = [got EXCEPT ![th] = FALSE]
    /\ UNCHANGED <<looper, woken, waiting, poolVars, flush, place>>

\* The end of binder_ioctl_write_read and of binder_ioctl
ReadExit(th) ==
    /\ pc[th] = "exit"
    /\ IF ProcTodo # {} THEN WakeupProc ELSE UNCHANGED <<waiting, woken>>
    /\ pc' = [pc EXCEPT ![th] = "user"]
    /\ needReturn' = [needReturn EXCEPT ![th] = FALSE]
    /\ doProc' = [doProc EXCEPT ![th] = FALSE]
    /\ got' = [got EXCEPT ![th] = FALSE]
    /\ UNCHANGED <<looper, poolVars, flush, place>>

-----------------------------------------------------------------------------
(* binder_poll *)

\* The kernel asks again when the thread is woken.
PollBegin(th) ==
    /\ th \in Polling
    /\ \/ pc[th] = "user"
       \/ pc[th] = "polling" /\ woken[th]
    /\ pc' = [pc EXCEPT ![th] = "poll"]
    /\ looper' = [looper EXCEPT ![th] = @ \cup {"poll"}]
    /\ doProc' = [doProc EXCEPT ![th] = Available(th)]
    /\ woken' = [woken EXCEPT ![th] = FALSE]
    /\ UNCHANGED <<needReturn, got, waiting, poolVars, flush, place>>

PollCheck(th) ==
    /\ pc[th] = "poll"
    /\ pc' = [pc EXCEPT ![th] = IF HasWork(th) THEN "user" ELSE "polling"]
    /\ doProc' = [doProc EXCEPT ![th] = FALSE]
    /\ woken' = [woken EXCEPT ![th] = FALSE]
    /\ UNCHANGED <<looper, needReturn, got, waiting, poolVars, flush, place>>

PollTimeout(th) ==
    /\ pc[th] = "polling"
    /\ pc' = [pc EXCEPT ![th] = "user"]
    /\ woken' = [woken EXCEPT ![th] = FALSE]
    /\ UNCHANGED <<looper, needReturn, doProc, got, waiting, poolVars, flush,
                   place>>

-----------------------------------------------------------------------------
(* Flushing and leaving. *)

\* binder_flush: a descriptor of the process is closed; the work is deferred.
Flush ==
    /\ ~flush
    /\ flush' = TRUE
    /\ UNCHANGED <<threadVars, waiting, poolVars, place>>

\* Mutant of DeferredFlush: only threads on waiting_threads are woken.
DeferredFlushListed ==
    /\ flush
    /\ flush' = FALSE
    /\ needReturn' = [th \in Threads |-> needReturn[th] \/ pc[th] # "out"]
    /\ woken' = [th \in Threads |-> woken[th] \/ th \in waiting]
    /\ UNCHANGED <<pc, looper, doProc, got, waiting, poolVars, place>>

\* binder_deferred_flush: every thread is to return, those that wait are woken.
DeferredFlush ==
    /\ flush
    /\ flush' = FALSE
    /\ needReturn' = [th \in Threads |-> needReturn[th] \/ pc[th] # "out"]
    /\ woken' = [th \in Threads |-> woken[th] \/ pc[th] = "asleep"]
    /\ UNCHANGED <<pc, looper, doProc, got, waiting, poolVars, place>>

\* binder_thread_release, by BINDER_THREAD_EXIT or with the process: the record
\* goes with its flags, what is on its list is freed.
ThreadRelease(th) ==
    /\ pc[th] = "user"
    /\ pc' = [pc EXCEPT ![th] = "out"]
    /\ looper' = [looper EXCEPT ![th] = {}]
    /\ needReturn' = [needReturn EXCEPT ![th] = FALSE]
    /\ place' = [w \in Work |-> IF place[w] = th THEN "dropped" ELSE place[w]]
    /\ UNCHANGED <<doProc, woken, got, waiting, poolVars, flush>>

-----------------------------------------------------------------------------
(* Properties. *)

PoolTypeOK ==
    /\ pc \in [Threads -> ThreadStates]
    /\ looper \in [Threads -> SUBSET Flags]
    /\ needReturn \in [Threads -> BOOLEAN]
    /\ doProc \in [Threads -> BOOLEAN]
    /\ woken \in [Threads -> BOOLEAN]
    /\ got \in [Threads -> BOOLEAN]
    /\ waiting \in SUBSET Threads
    /\ requested \in Nat /\ started \in Nat /\ maxThreads \in Limits \cup {0}
    /\ flush \in BOOLEAN
    /\ place \in [Work -> OffThread \cup Threads]

\* A thread inside the driver that will not go back to sleep before it has
\* looked at the process's list, or woken another for it
\* (binder_ioctl_write_read).
WillLook(th) ==
    \/ pc[th] \in {"loop", "done", "exit"}
    \/ /\ \/ pc[th] = "wait"
          \/ pc[th] = "asleep" /\ woken[th]
       /\ HasWork(th)

\* Work of the process is never left to sleepers: while there is some, a
\* waiting thread was woken or another one is still to pass it on, and if none
\* is, every thread sleeping in poll that may take it was woken
\* (binder_wakeup_proc_ilocked and the wake-up after a read).
NoLostWakeup ==
    ProcTodo # {} =>
        \/ \E th \in Threads : WillLook(th)
        \/ /\ waiting = {}
           /\ \A th \in Threads :
                  pc[th] = "polling" /\ Available(th) => woken[th]

\* A thread that was told to return (looper_need_return) does not go on
\* sleeping in a read: whoever sets the flag wakes it, whoever is about to
\* sleep sees it.  One that sleeps in poll is not woken by a flush.
ReturnsWhenTold ==
    \A th \in Threads : needReturn[th] /\ pc[th] = "asleep" => woken[th]

-----------------------------------------------------------------------------
(* What the proofs need besides. *)

\* waiting_threads holds sleeping threads that wait for work of the process; a
\* thread comes out of its wait for a reason; poll decides with what it may do.
ThreadShape ==
    /\ \A th \in waiting : pc[th] = "asleep" /\ doProc[th]
    /\ \A th \in Threads :
           /\ pc[th] = "out" => looper[th] = {} /\ Todo(th) = {}
           /\ pc[th] = "loop" /\ ~got[th] =>
                  doProc[th] \/ needReturn[th] \/ Todo(th) # {}
           /\ pc[th] \in {"poll", "polling"} => "poll" \in looper[th]
           /\ pc[th] = "poll" /\ Available(th) => doProc[th]
=============================================================================
