----------------------------- MODULE BinderCall -----------------------------
(***************************************************************************)
(* Synchronous transactions of the binder driver: a call, the calls made   *)
(* while it is served, its reply, and what happens when a thread or a      *)
(* process on the way goes away.                                           *)
(*                                                                         *)
(* A transaction is on two stacks at once, that of the thread that made it *)
(* (linked by from_parent) and that of the thread that serves it (linked   *)
(* by to_parent), which belong to different processes and are changed      *)
(* under different locks.  One action is one section the code runs under a *)
(* lock, or the sections between which nobody else can see a difference.   *)
(*                                                                         *)
(* Buffers, nodes, priorities and one-way transactions are left out.       *)
(* Source: src/docker/android-4.4-p-binder/binder.c.                       *)
(***************************************************************************)
EXTENDS Integers, FiniteSets, SequencesExt

CONSTANTS
    Procs,        \* the processes, each with one node it serves
    Threads,      \* all threads
    Owner,        \* th |-> the process of thread th
    MaxCalls,     \* bound on the calls ever made
    MaxEvents,    \* bound on the calls made and the threads gone, together
    Clients,      \* the threads that write commands while they serve no call
    Blocking,     \* threads read what is on their list, and the answer to
                  \* a call they have made, before they write again
    None          \* NULL

ASSUME OwnerAssumption == Owner \in [Threads -> Procs]
ASSUME CallsAssumption == MaxCalls \in Nat \ {0} /\ Blocking \in BOOLEAN
ASSUME EventsAssumption ==
    MaxEvents \in Nat /\ IsFiniteSet(Threads) /\ IsFiniteSet(Procs)
ASSUME ClientAssumption == Clients \subseteq Threads
ASSUME NoneAssumption ==
    /\ None \notin Procs \union Threads \union 1 .. MaxCalls
    /\ Procs \cap Threads = {}

Calls == 1 .. MaxCalls

VARIABLES
    prc,   \* p |-> its binder_proc
    thr,   \* th |-> its binder_thread
    txn,   \* c |-> the binder_transaction of call c
    at     \* a |-> where thread a, or the release of process a, is in the driver

vars == <<prc, thr, txn, at>>

\* A binder_work.  "error" is thread->reply_error and "return" is
\* thread->return_error: their cmd is not BR_OK while they are queued.
Work == [kind : {"call", "reply", "error", "return", "complete"},
         call : Calls \union {None}]
Item(kind, c) == [kind |-> kind, call |-> c]

Process == [dead : BOOLEAN, node : BOOLEAN, todo : Seq(Calls), ref : Nat,
            freed : BOOLEAN]
Thread == [stack : Calls \union {None}, todo : Seq(Work),
           processTodo : BOOLEAN, dead : BOOLEAN, ref : Nat, freed : BOOLEAN]
Transaction == [state : {"new", "live", "freed"},
                from : Threads \union {None}, toThread : Threads \union {None},
                fromParent : Calls \union {None},
                toParent : Calls \union {None}]

\* cur, tgt and proc are the transaction, target_thread and target_proc a
\* function works on.
Place == [pc : {"user", "wait", "deliver",
                "refs", "target", "queue", "undo", "done", "err",
                "popped", "from", "acquired", "built", "replied", "unsent",
                "refused", "fail", "failfrom", "work", "gone",
                "off", "threads", "todo"},
          cur : Calls \union {None}, tgt : Threads \union {None},
          proc : Procs \union {None}]
Idle(pc) == [pc |-> pc, cur |-> None, tgt |-> None, proc |-> None]

\* What is left of a transaction when it is freed.
Freed == [state |-> "freed", from |-> None, toThread |-> None,
          fromParent |-> None, toParent |-> None]

Init ==
    /\ prc = [p \in Procs |-> [dead |-> FALSE, node |-> TRUE, todo |-> <<>>,
                               ref |-> 0, freed |-> FALSE]]
    /\ thr = [th \in Threads |-> [stack |-> None, todo |-> <<>>,
                 processTodo |-> FALSE, dead |-> FALSE, ref |-> 0,
                 freed |-> FALSE]]
    /\ txn = [c \in Calls |-> [state |-> "new", from |-> None,
                 toThread |-> None, fromParent |-> None, toParent |-> None]]
    /\ at = [a \in Threads \union Procs |->
               Idle(IF a \in Procs THEN "off" ELSE "user")]

-----------------------------------------------------------------------------
(* Work lists and reference counts. *)

Has(th, kind) == \E i \in DOMAIN thr[th].todo : thr[th].todo[i].kind = kind

\* binder_enqueue_thread_work_ilocked, on the threads T.
Enqueue(T, th, item) ==
    [T EXCEPT ![th].todo = Append(@, item), ![th].processTodo = TRUE]

\* Mutant of Frees: the references are not looked at.
FreesEarly(th) == thr[th].dead

\* binder_thread_dec_tmpref frees a released thread with its last reference,
\* and the thread's reference on its process goes with it.
Frees(th) == thr[th].dead /\ thr[th].ref = 1

Unref(T, th) ==
    [T EXCEPT ![th].ref = @ - 1, ![th].freed = Frees(th),
              ![th].stack = IF Frees(th) THEN None ELSE @,
              ![th].processTodo = @ /\ ~Frees(th)]

\* binder_proc_dec_tmpref, on the processes P.
UnrefProc(P, p) ==
    [P EXCEPT ![p].ref = @ - 1,
              ![p].freed = /\ P[p].dead /\ P[p].ref = 1
                           /\ \A th \in Threads : Owner[th] = p => thr[th].dead]

\* Mutant of AfterUnref: a thread is freed with its reference on its process.
AfterUnrefKeeps(P, th) == P

AfterUnref(P, th) == IF Frees(th) THEN UnrefProc(P, Owner[th]) ELSE P

-----------------------------------------------------------------------------
(* The transaction stacks. *)

\* The transaction under c on the stack of th.
Below(th, c) ==
    IF txn[c].toThread = th THEN txn[c].toParent ELSE txn[c].fromParent

\* The k-th transaction from the top, or None.
FrameFrom(th) ==
    LET f[k \in 0 .. MaxCalls] ==
          IF k = 0 THEN thr[th].stack
          ELSE LET c == f[k - 1] IN IF c = None THEN None ELSE Below(th, c)
    IN  f

Frames(th) == Range(FrameFrom(th)) \ {None}

\* The calls up the chain of callers from call c, c first.
CallersFrom(c) ==
    LET f[k \in 0 .. MaxCalls] ==
          IF k = 0 THEN c
          ELSE LET d == f[k - 1] IN IF d = None THEN None ELSE txn[d].fromParent
    IN  f

\* Mutant of WaitingCaller: a call back goes to any thread.
WaitingCallerNone(th, p) == None

\* The thread of process p that is nearest up the chain, which waits for it.
WaitingCaller(th, p) ==
    LET f == CallersFrom(thr[th].stack)
        hits == {k \in DOMAIN f : f[k] # None /\ txn[f[k]].from # None
                                   /\ Owner[txn[f[k]].from] = p}
    IN  IF hits = {} THEN None ELSE txn[f[Min(hits)]].from

Serving(th) == thr[th].stack # None /\ txn[thr[th].stack].toThread = th

\* Bound: another call may be made, another thread or process may go.
MayGoOn ==
    Cardinality({c \in Calls : txn[c].state # "new"})
      + Cardinality({th \in Threads : at[th].pc \in {"refs", "target"}})
      + Cardinality({th \in Threads : thr[th].dead \/ prc[Owner[th]].dead})
    < MaxEvents

-----------------------------------------------------------------------------
(* Making a call: binder_transaction, reply = 0. *)

\* A thread in user space that may write a command.
CanWrite(th) ==
    /\ at[th].pc = "user" /\ ~Has(th, "return")
    /\ th \in Clients \/ Serving(th)
    /\ Blocking => thr[th].todo = <<>> /\ (thr[th].stack = None \/ Serving(th))

\* The end of every error path: the caller reads the error.
Report(T, th) == Enqueue(T, th, Item("return", None))

\* The target node and its process.  A thread does not call its own process.
BeginCall(th, p) ==
    /\ CanWrite(th) /\ Owner[th] # p
    /\ MayGoOn /\ \E c \in Calls : txn[c].state = "new"
    /\ IF prc[p].node
       THEN /\ prc' = [prc EXCEPT ![p].ref = @ + 1]
            /\ at' = [at EXCEPT ![th] = [Idle("refs") EXCEPT !.proc = p]]
            /\ UNCHANGED thr
       ELSE thr' = Report(thr, th) /\ UNCHANGED <<prc, at>>
    /\ UNCHANGED txn

\* A thread that serves a call may call back a thread that waits up the chain;
\* one that waits for an answer may not call at all.
FindTarget(th) ==
    LET caller == WaitingCaller(th, at[th].proc) IN
    /\ at[th].pc = "refs"
    /\ CASE thr[th].stack # None /\ ~Serving(th) ->
              at' = [at EXCEPT ![th].pc = "err"] /\ UNCHANGED thr
         [] (thr[th].stack = None \/ Serving(th)) /\ caller = None ->
              at' = [at EXCEPT ![th].pc = "target"] /\ UNCHANGED thr
         [] OTHER ->
              /\ at' = [at EXCEPT ![th].pc = "target", ![th].tgt = caller]
              /\ thr' = [thr EXCEPT ![caller].ref = @ + 1]
    /\ UNCHANGED <<prc, txn>>

\* No memory, no room in the target, or a payload that cannot be copied.
CallFails(th) ==
    /\ at[th].pc = "target"
    /\ at' = [at EXCEPT ![th].pc = "err"]
    /\ UNCHANGED <<prc, thr, txn>>

\* Calls are numbered as they are made.
NextCall == {c \in Calls : \A b \in Calls : txn[b].state = "new" <=> b >= c}

\* The transaction is built and pushed on the caller's stack; its
\* BR_TRANSACTION_COMPLETE is queued without waking the reader.
PushCall(th) ==
    /\ at[th].pc = "target"
    /\ \E c \in NextCall :
         /\ txn' = [txn EXCEPT ![c] = [state |-> "live", from |-> th,
              toThread |-> at[th].tgt, fromParent |-> thr[th].stack,
              toParent |-> None]]
         /\ thr' = [thr EXCEPT ![th].stack = c,
                               ![th].todo = Append(@, Item("complete", c))]
         /\ at' = [at EXCEPT ![th].pc = "queue", ![th].cur = c]
    /\ UNCHANGED prc

\* Threads on proc->waiting_threads: those that have found no work.
Listed(p) ==
    {w \in Threads :
       /\ Owner[w] = p /\ at[w].pc = "wait" /\ prc[p].todo = <<>>
       /\ thr[w].stack = None /\ thr[w].todo = <<>>}

\* binder_proc_transaction: to the thread that waits for it, or to one that
\* waits for any work, or on the list of the process.
QueueCall(th) ==
    LET p == at[th].proc
        to == at[th].tgt
        work == Item("call", at[th].cur)
    IN  /\ at[th].pc = "queue"
        /\ IF prc[p].dead \/ (to # None /\ thr[to].dead)
           THEN at' = [at EXCEPT ![th].pc = "undo"] /\ UNCHANGED <<prc, thr>>
           ELSE /\ at' = [at EXCEPT ![th].pc = "done"]
                /\ \/ /\ to # None
                      /\ thr' = Enqueue(thr, to, work) /\ UNCHANGED prc
                   \/ /\ to = None
                      /\ \E w \in Listed(p) : thr' = Enqueue(thr, w, work)
                      /\ UNCHANGED prc
                   \/ /\ to = None /\ Listed(p) = {}
                      /\ prc' = [prc EXCEPT ![p].todo = Append(@, at[th].cur)]
                      /\ UNCHANGED thr
        /\ UNCHANGED txn

\* The target has died: binder_pop_transaction_ilocked, and the
\* BR_TRANSACTION_COMPLETE is taken off the list again.
UndoCall(th) ==
    LET c == at[th].cur IN
    /\ at[th].pc = "undo"
    /\ \E i \in DOMAIN thr[th].todo :
         /\ thr[th].todo[i] = Item("complete", c)
         /\ thr' = [thr EXCEPT ![th].stack = txn[c].fromParent,
                               ![th].todo = RemoveAt(@, i)]
    /\ txn' = [txn EXCEPT ![c] = Freed]
    /\ at' = [at EXCEPT ![th].pc = "err", ![th].cur = None]
    /\ UNCHANGED prc

\* The references on the target are dropped, and an error is reported.
EndCall(th) ==
    LET to == at[th].tgt
        T == IF to = None THEN thr ELSE Unref(thr, to)
        P == IF to = None THEN prc ELSE AfterUnref(prc, to)
    IN  /\ at[th].pc \in {"done", "err"}
        /\ thr' = IF at[th].pc = "err" THEN Report(T, th) ELSE T
        /\ prc' = UnrefProc(P, at[th].proc)
        /\ at' = [at EXCEPT ![th] = Idle("user")]
        /\ UNCHANGED txn

-----------------------------------------------------------------------------
(* Answering: binder_transaction, reply = 1. *)

\* Mutant of BeginReply: the wrong one of the two links is followed.
BeginReplyFrom(th) ==
    /\ CanWrite(th)
    /\ IF Serving(th)
       THEN /\ at' = [at EXCEPT ![th] =
                        [Idle("popped") EXCEPT !.cur = thr[th].stack]]
            /\ thr' = [thr EXCEPT ![th].stack = txn[@].fromParent]
       ELSE thr' = Report(thr, th) /\ UNCHANGED at
    /\ UNCHANGED <<prc, txn>>

\* The call on top is popped off the server's stack if it is one it serves.
BeginReply(th) ==
    /\ CanWrite(th)
    /\ IF Serving(th)
       THEN /\ at' = [at EXCEPT ![th] =
                        [Idle("popped") EXCEPT !.cur = thr[th].stack]]
            /\ thr' = [thr EXCEPT ![th].stack = txn[@].toParent]
       ELSE thr' = Report(thr, th) /\ UNCHANGED at
    /\ UNCHANGED <<prc, txn>>

\* binder_get_txn_from, under t->lock.
ReplyFrom(th) ==
    LET caller == txn[at[th].cur].from IN
    /\ at[th].pc = "popped"
    /\ IF caller = None
       THEN at' = [at EXCEPT ![th].pc = "unsent"] /\ UNCHANGED thr
       ELSE /\ at' = [at EXCEPT ![th].pc = "from", ![th].tgt = caller]
            /\ thr' = [thr EXCEPT ![caller].ref = @ + 1]
    /\ UNCHANGED <<prc, txn>>

\* The rest of binder_get_txn_from_and_acq_inner, under the inner lock of the
\* caller: it may be gone by now, or busy with another transaction; then
\* nobody answers the call, and the reference on the caller is kept.
ReplyAcquire(th) ==
    LET caller == at[th].tgt IN
    /\ at[th].pc = "from"
    /\ CASE txn[at[th].cur].from = None ->
              /\ thr' = Unref(thr, caller)
              /\ prc' = AfterUnref(prc, caller)
              /\ at' = [at EXCEPT ![th].pc = "unsent", ![th].tgt = None]
         [] txn[at[th].cur].from # None /\ thr[caller].stack # at[th].cur ->
              /\ thr' = Report(thr, th)
              /\ at' = [at EXCEPT ![th] = Idle("user")]
              /\ UNCHANGED prc
         [] OTHER ->
              /\ prc' = [prc EXCEPT ![Owner[caller]].ref = @ + 1]
              /\ at' = [at EXCEPT ![th].pc = "acquired",
                                  ![th].proc = Owner[caller]]
              /\ UNCHANGED thr
    /\ UNCHANGED txn

\* The reply is built, or cannot be.
BuildReply(th, pc) ==
    /\ at[th].pc = "acquired"
    /\ at' = [at EXCEPT ![th].pc = pc]
    /\ UNCHANGED <<prc, thr, txn>>

\* Mutant of QueueReply: the wrong one of the two links is followed.
QueueReplyTo(th) ==
    LET c == at[th].cur
        caller == at[th].tgt
    IN  /\ at[th].pc = "built" /\ ~thr[caller].dead
        /\ thr' = [Enqueue(Enqueue(thr, th, Item("complete", c)),
                           caller, Item("reply", c))
                     EXCEPT ![caller].stack = txn[c].toParent]
        /\ txn' = [txn EXCEPT ![c].from = None]
        /\ at' = [at EXCEPT ![th].pc = "replied"]
        /\ UNCHANGED prc

\* The call is popped off the caller's stack and the reply is its work; if
\* the caller has been released the reply is undone.
QueueReply(th) ==
    LET c == at[th].cur
        caller == at[th].tgt
    IN  /\ at[th].pc = "built"
        /\ IF thr[caller].dead
           THEN /\ at' = [at EXCEPT ![th].pc = "refused"]
                /\ UNCHANGED <<thr, txn>>
           ELSE /\ thr' = [Enqueue(Enqueue(thr, th, Item("complete", c)),
                                   caller, Item("reply", c))
                             EXCEPT ![caller].stack = txn[c].fromParent]
                /\ txn' = [txn EXCEPT ![c].from = None]
                /\ at' = [at EXCEPT ![th].pc = "replied"]
        /\ UNCHANGED prc

\* The references on the caller are dropped; an answered call is freed.
EndReply(th) ==
    LET caller == at[th].tgt IN
    /\ at[th].pc \in {"replied", "refused"}
    /\ thr' = Unref(thr, caller)
    /\ prc' = UnrefProc(AfterUnref(prc, caller), at[th].proc)
    /\ IF at[th].pc = "replied"
       THEN /\ txn' = [txn EXCEPT ![at[th].cur] = Freed]
            /\ at' = [at EXCEPT ![th] = Idle("user")]
       ELSE /\ at' = [at EXCEPT ![th] =
                        [Idle("unsent") EXCEPT !.cur = at[th].cur]]
            /\ UNCHANGED txn

\* A reply that was not sent: the server reads a BR_TRANSACTION_COMPLETE, the
\* caller an error.
ReplyFails(th) ==
    /\ at[th].pc = "unsent"
    /\ thr' = Report(thr, th)
    /\ at' = [at EXCEPT ![th].pc = "fail"]
    /\ UNCHANGED <<prc, txn>>

-----------------------------------------------------------------------------
(* binder_send_failed_reply, by a thread or by the release of a process. *)

\* What follows it, in the release of a process or of a thread or else.
Resumed(a) ==
    Idle(CASE a \in Procs -> "todo"
           [] a \in Threads /\ thr[a].dead -> "work"
           [] OTHER -> "user")

\* The caller of the call is gone: the call is freed, and the one its caller
\* was serving when it made it fails in its place.
FailNext(a) ==
    LET next == txn[at[a].cur].fromParent IN
    /\ txn' = [txn EXCEPT ![at[a].cur] = Freed]
    /\ at' = [at EXCEPT ![a] = IF next = None THEN Resumed(a)
                               ELSE [Idle("fail") EXCEPT !.cur = next]]

\* binder_get_txn_from.
FailFrom(a) ==
    LET caller == txn[at[a].cur].from IN
    /\ at[a].pc = "fail"
    /\ IF caller = None
       THEN FailNext(a) /\ UNCHANGED thr
       ELSE /\ at' = [at EXCEPT ![a].pc = "failfrom", ![a].tgt = caller]
            /\ thr' = [thr EXCEPT ![caller].ref = @ + 1]
            /\ UNCHANGED txn
    /\ UNCHANGED prc

\* Under the inner lock of the caller: the call is popped off its stack and
\* it reads the error, unless it has not read the one before.
FailAcquire(a) ==
    LET c == at[a].cur
        caller == at[a].tgt
        T == IF Has(caller, "error") THEN thr
             ELSE Enqueue(thr, caller, Item("error", c))
    IN  /\ at[a].pc = "failfrom"
        /\ prc' = AfterUnref(prc, caller)
        /\ IF txn[c].from = None
           THEN thr' = Unref(thr, caller) /\ FailNext(a)
           ELSE /\ thr' = [Unref(T, caller)
                             EXCEPT ![caller].stack = txn[c].fromParent]
                /\ txn' = [txn EXCEPT ![c] = Freed]
                /\ at' = [at EXCEPT ![a] = Resumed(a)]

-----------------------------------------------------------------------------
(* Reading: binder_thread_read. *)

\* A thread that has a call to answer does not wait for anything else.
ReadBegin(th) ==
    /\ at[th].pc = "user"
    /\ Blocking => ~Serving(th) \/ thr[th].todo # <<>>
    /\ at' = [at EXCEPT ![th] = Idle("wait")]
    /\ UNCHANGED <<prc, thr, txn>>

\* A signal ends the wait of a thread, or the caller did not ask to read; what
\* is on its list stays unread.
Interrupted(th) ==
    /\ at[th].pc = "wait"
    /\ at' = [at EXCEPT ![th] = Idle("user")]
    /\ UNCHANGED <<prc, thr, txn>>

\* A call is taken off a list to be delivered; a reference on its caller is
\* held meanwhile.
TakeCall(T, th, c) ==
    LET caller == txn[c].from IN
    /\ at' = [at EXCEPT ![th] =
                [Idle("deliver") EXCEPT !.cur = c, !.tgt = caller]]
    /\ thr' = IF caller = None THEN T ELSE [T EXCEPT ![caller].ref = @ + 1]

\* From the thread's own list; anything but a call is read at once.
ReadThread(th) ==
    LET item == Head(thr[th].todo)
        T == [thr EXCEPT ![th].todo = Tail(@),
                ![th].processTodo = @ /\ Len(thr[th].todo) > 1]
    IN  /\ at[th].pc = "wait" /\ thr[th].processTodo /\ thr[th].todo # <<>>
        /\ IF item.kind = "call"
           THEN TakeCall(T, th, item.call)
           ELSE thr' = T /\ at' = [at EXCEPT ![th] = Idle("user")]
        /\ UNCHANGED <<prc, txn>>

\* From the process's list: only a thread with nothing of its own.
ReadProc(th) ==
    LET p == Owner[th] IN
    /\ at[th].pc = "wait" /\ prc[p].todo # <<>>
    /\ thr[th].stack = None /\ thr[th].todo = <<>>
    /\ prc' = [prc EXCEPT ![p].todo = Tail(@)]
    /\ TakeCall([thr EXCEPT ![th].processTodo = FALSE], th, Head(prc[p].todo))
    /\ UNCHANGED txn

DropCaller(th) ==
    LET caller == at[th].tgt IN
    prc' = IF caller = None THEN prc ELSE AfterUnref(prc, caller)

\* The call is copied to user space and pushed on the stack of its server.
Deliver(th) ==
    LET c == at[th].cur
        caller == at[th].tgt
        T == IF caller = None THEN thr ELSE Unref(thr, caller)
    IN  /\ at[th].pc = "deliver"
        /\ txn' = [txn EXCEPT ![c].toParent = thr[th].stack,
                              ![c].toThread = th]
        /\ thr' = [T EXCEPT ![th].stack = c]
        /\ DropCaller(th)
        /\ at' = [at EXCEPT ![th] = Idle("user")]

\* It cannot be copied: binder_cleanup_transaction fails the call.
DeliverFault(th) ==
    LET caller == at[th].tgt IN
    /\ at[th].pc = "deliver"
    /\ thr' = IF caller = None THEN thr ELSE Unref(thr, caller)
    /\ DropCaller(th)
    /\ at' = [at EXCEPT ![th] = [Idle("fail") EXCEPT !.cur = at[th].cur]]
    /\ UNCHANGED txn

-----------------------------------------------------------------------------
(* Threads and processes going away. *)

\* Mutant of FailsTop: a call nobody waits for any more is left to nobody.
FailsTopNever(th) == FALSE

\* Mutant of FailsTop: also a call it made, which another thread may serve.
FailsTopAlways(th) == thr[th].stack # None

\* Only a call it serves: one it made still has a server, that answers it.
FailsTop(th) == Serving(th)

\* binder_thread_release: the whole stack is cut loose under the inner lock;
\* a call on top that the thread was serving fails.
ReleaseThread(th) ==
    /\ thr' = [thr EXCEPT ![th].dead = TRUE, ![th].ref = @ + 1]
    /\ prc' = [prc EXCEPT ![Owner[th]].ref = @ + 1]
    /\ txn' = [c \in Calls |->
         CASE c \in Frames(th) /\ txn[c].toThread = th ->
                [txn[c] EXCEPT !.toThread = None]
           [] c \in Frames(th) /\ txn[c].toThread # th ->
                [txn[c] EXCEPT !.from = None]
           [] OTHER -> txn[c]]
    /\ at' = [at EXCEPT ![th] = IF FailsTop(th)
                                THEN [Idle("fail") EXCEPT !.cur = thr[th].stack]
                                ELSE Idle("work")]

\* The BINDER_THREAD_EXIT ioctl.
ThreadExit(th) ==
    /\ MayGoOn /\ at[th].pc = "user"
    /\ ReleaseThread(th)

\* binder_release_work on the thread's list: calls nobody will take fail.
ReleaseWork(th) ==
    LET item == Head(thr[th].todo) IN
    /\ at[th].pc = "work" /\ thr[th].todo # <<>>
    /\ thr' = [thr EXCEPT ![th].todo = Tail(@)]
    /\ at' = IF item.kind = "call"
             THEN [at EXCEPT ![th] = [Idle("fail") EXCEPT !.cur = item.call]]
             ELSE at
    /\ UNCHANGED <<prc, txn>>

ThreadReleased(th) ==
    /\ at[th].pc = "work" /\ thr[th].todo = <<>>
    /\ thr' = Unref(thr, th)
    /\ prc' = AfterUnref(prc, th)
    /\ at' = [at EXCEPT ![th] = Idle("gone")]
    /\ UNCHANGED txn

Deserted(p) == \A th \in Threads : Owner[th] = p => at[th].pc = "gone"

\* binder_deferred_release, on a workqueue of one thread, once no thread is
\* inside the driver: the file is closed for the last time, or the process was
\* killed and its threads have left their waits.
ReleaseProc(p) ==
    /\ MayGoOn \/ Deserted(p)
    /\ \A q \in Procs : at[q].pc \in {"off", "gone"}
    /\ at[p].pc = "off"
    /\ \A th \in Threads : Owner[th] = p => at[th].pc \in {"user", "wait", "gone"}
    /\ prc' = [prc EXCEPT ![p].dead = TRUE, ![p].ref = @ + 1]
    /\ at' = [a \in DOMAIN at |->
         CASE a = p -> Idle("threads")
           [] a \in Threads /\ Owner[a] = p /\ at[a].pc = "wait" -> Idle("user")
           [] OTHER -> at[a]]
    /\ UNCHANGED <<thr, txn>>

ReleaseProcThread(p, th) ==
    /\ at[p].pc = "threads" /\ Owner[th] = p /\ at[th].pc = "user"
    /\ \A o \in Threads : Owner[o] = p => at[o].pc \in {"user", "gone"}
    /\ ReleaseThread(th)

\* The node loses its process.
ReleaseNode(p) ==
    /\ at[p].pc = "threads"
    /\ Deserted(p)
    /\ prc' = [prc EXCEPT ![p].node = FALSE]
    /\ at' = [at EXCEPT ![p] = Idle("todo")]
    /\ UNCHANGED <<thr, txn>>

\* binder_release_work on the process's list.
ReleaseTodo(p) ==
    /\ at[p].pc = "todo" /\ prc[p].todo # <<>>
    /\ prc' = [prc EXCEPT ![p].todo = Tail(@)]
    /\ at' = [at EXCEPT ![p] = [Idle("fail") EXCEPT !.cur = Head(prc[p].todo)]]
    /\ UNCHANGED <<thr, txn>>

ProcReleased(p) ==
    /\ at[p].pc = "todo" /\ prc[p].todo = <<>>
    /\ prc' = UnrefProc(prc, p)
    /\ at' = [at EXCEPT ![p] = Idle("gone")]
    /\ UNCHANGED <<thr, txn>>

-----------------------------------------------------------------------------
\* A thread of a process whose file is closed writes and reads no more.
Alive(th) == ~prc[Owner[th]].dead

\* What a thread does inside the driver once it has begun.
InDriver(th) ==
    \/ FindTarget(th) \/ CallFails(th) \/ PushCall(th) \/ QueueCall(th)
    \/ UndoCall(th) \/ EndCall(th)
    \/ ReplyFrom(th) \/ ReplyAcquire(th)
    \/ BuildReply(th, "built") \/ BuildReply(th, "refused")
    \/ QueueReply(th) \/ EndReply(th) \/ ReplyFails(th)
    \/ FailFrom(th) \/ FailAcquire(th)
    \/ Deliver(th) \/ DeliverFault(th)
    \/ ReleaseWork(th) \/ ThreadReleased(th)

Answers(th) == Alive(th) /\ BeginReply(th)
Waits(th) == Alive(th) /\ ReadBegin(th)
Reads(th) == ReadThread(th) \/ ReadProc(th)

ThreadNext(th) ==
    \/ \E p \in Procs : Alive(th) /\ BeginCall(th, p)
    \/ Answers(th) \/ Waits(th)
    \/ Alive(th) /\ ThreadExit(th)
    \/ InDriver(th) \/ Interrupted(th) \/ Reads(th)

\* The worker that releases a process.
Releasing(p) ==
    \/ ReleaseNode(p) \/ ReleaseTodo(p) \/ ProcReleased(p)
    \/ FailFrom(p) \/ FailAcquire(p)
    \/ \E th \in Threads : ReleaseProcThread(p, th)

Next ==
    \/ \E th \in Threads : ThreadNext(th)
    \/ \E p \in Procs : ReleaseProc(p) \/ Releasing(p)

Spec == Init /\ [][Next]_vars

\* Nobody stops inside the driver.  Of user space: a thread that has nothing to
\* answer waits for work or for its answer, and is not interrupted for ever; one
\* that has a call to answer answers it; a process without threads ends.
Fairness ==
    /\ \A th \in Threads :
         /\ WF_vars(InDriver(th) \/ Waits(th))
         /\ SF_vars(Reads(th)) /\ SF_vars(Answers(th) /\ Serving(th))
    /\ \A p \in Procs :
         WF_vars(Releasing(p) \/ (Deserted(p) /\ ReleaseProc(p)))

FairSpec == Spec /\ Fairness

-----------------------------------------------------------------------------
(* Who has a call. *)

\* On a list, from which a reader or a release will take it.
Queued(c) ==
    \/ \E p \in Procs : c \in Range(prc[p].todo)
    \/ \E th \in Threads : Item("call", c) \in Range(thr[th].todo)

\* In the hands of somebody inside the driver.
InHands(c) == \E a \in DOMAIN at : at[a].cur = c /\ at[a].pc # "done"

\* On the stack of a thread that has not answered it.
Served(c) ==
    \E th \in Threads :
      ~thr[th].dead /\ c \in Frames(th) /\ txn[c].toThread = th

\* Or all that is left of its server is a call the server had made, which
\* will fail the call in its place.
Charged(c) ==
    \E d \in Calls :
      LET f == CallersFrom(d) IN
      /\ Queued(d) \/ InHands(d) \/ Served(d)
      /\ \E k \in DOMAIN f :
           f[k] = c /\ \A j \in 0 .. k - 1 : txn[f[j]].from = None

Live(c) == txn[c].state = "live"
Open(c) == Live(c) /\ txn[c].from # None

-----------------------------------------------------------------------------
(* Properties. *)

TypeOK ==
    /\ prc \in [Procs -> Process]
    /\ thr \in [Threads -> Thread]
    /\ txn \in [Calls -> Transaction]
    /\ at \in [Threads \union Procs -> Place]

\* Every transaction that is not freed is in somebody's charge: no call is
\* forgotten with its caller waiting, and no transaction is leaked.
TransactionOwned == \A c \in Calls : Live(c) => Charged(c)

\* The stack of a living thread, followed down its two kinds of links, ends,
\* and holds calls the thread serves or has made (binder_thread_release meets
\* no third kind, its BUG()); nobody else serves a call it serves.
StacksSound ==
    \A th \in Threads : ~thr[th].dead =>
      /\ FrameFrom(th)[MaxCalls] = None
      /\ \A c \in Frames(th) : txn[c].toThread = th <=> txn[c].from # th
      /\ \A c \in Frames(th), o \in Threads \ {th} :
           ~thr[o].dead /\ c \in Frames(o) => txn[c].from \in {th, o}

\* The BUG_ONs of binder_pop_transaction_ilocked: who pops a call off its
\* caller's stack finds it on top.
PopsTop ==
    \A a \in DOMAIN at :
      LET c == at[a].cur IN
      /\ at[a].pc = "failfrom" /\ txn[c].from # None =>
           txn[c].from = at[a].tgt /\ thr[at[a].tgt].stack = c
      /\ at[a].pc = "built" /\ ~thr[at[a].tgt].dead =>
           txn[c].from = at[a].tgt /\ thr[at[a].tgt].stack = c
      /\ at[a].pc = "undo" => txn[c].from = a /\ thr[a].stack = c

\* A transaction somebody will look at has not been freed: in hands, on a
\* list, on a stack, or up the chain of callers; nor has a thread or process
\* somebody works on, or that a call came from.
NoUseAfterFree ==
    /\ \A c \in Calls : Queued(c) \/ InHands(c) => Live(c)
    /\ \A th \in Threads : ~thr[th].dead => \A c \in Frames(th) : Live(c)
    /\ \A c \in Calls :
         /\ Live(c) /\ txn[c].fromParent # None
         /\ \A a \in DOMAIN at : at[a].cur = c => at[a].pc # "replied"
         => Live(txn[c].fromParent)
    /\ \A c \in Calls : Open(c) => ~thr[txn[c].from].dead
    /\ \A a \in DOMAIN at :
         /\ at[a].tgt # None => ~thr[at[a].tgt].freed
         /\ at[a].proc # None => ~prc[at[a].proc].freed

\* A released thread or process is freed when the last one who works on it is
\* done, not before, and with nothing left on its list (the BUG_ONs of
\* binder_free_thread and binder_free_proc).
FreedWhenUnused ==
    /\ \A th \in Threads :
         /\ thr[th].freed <=>
              at[th].pc = "gone" /\ \A a \in DOMAIN at : at[a].tgt # th
         /\ thr[th].freed => thr[th].todo = <<>>
    /\ \A p \in Procs :
         /\ prc[p].freed <=>
              /\ at[p].pc = "gone" /\ \A a \in DOMAIN at : at[a].proc # p
              /\ \A th \in Threads : Owner[th] = p => thr[th].freed
         /\ prc[p].freed => prc[p].todo = <<>>

-----------------------------------------------------------------------------
(* What it promises. *)

\* The call is on its way to a server.
Sent(c) ==
    \/ Queued(c)
    \/ \E a \in DOMAIN at : at[a].cur = c /\ at[a].pc \in {"queue", "deliver"}

FrameOf(th, c) ==
    [call |-> c, side |-> IF txn[c].toThread = th THEN "served" ELSE "made"]

\* The stack of a thread; that of a released one is empty.
StackOf(th) ==
    LET f == FrameFrom(th)
        n == Cardinality({k \in DOMAIN f : f[k] # None})
    IN  IF thr[th].dead THEN <<>> ELSE [k \in 1 .. n |-> FrameOf(th, f[k - 1])]

PhaseOf(c) ==
    CASE txn[c].state = "new" -> "new"
      [] txn[c].state = "freed" -> "over"
      [] Live(c) /\ Sent(c) -> "sent"
      [] OTHER -> "taken"

Stacks == INSTANCE CallStacks WITH
    stack <- [th \in Threads |-> StackOf(th)],
    phase <- [c \in Calls |-> PhaseOf(c)],
    parent <- [c \in Calls |-> txn[c].fromParent]

\* The two linked lists of every thread are one stack of calls, used as
\* CallStacks says.
StacksRefined == Stacks!Spec

\* Every call ends, with an answer or an error, though threads and processes on
\* its way go.  A chain of calls that comes back to a process whose only thread
\* waits in it does not wait for itself.
CallsEnd == \A c \in Calls : Open(c) ~> ~Open(c)
=============================================================================
