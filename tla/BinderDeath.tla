----------------------------- MODULE BinderDeath -----------------------------
(***************************************************************************)
(* Death notifications of the binder driver, seen from the process that    *)
(* asks for them, over the threads of BinderPool.                          *)
(*                                                                         *)
(* The process holds handles (binder_ref) on nodes of other processes and  *)
(* asks to be told when a node's process dies.  A notification             *)
(* (binder_ref_death) is queued when the node dies, delivered as           *)
(* BR_DEAD_BINDER, kept on delivered_death until BC_DEAD_BINDER_DONE, and  *)
(* may be cleared at any time, which is answered by                        *)
(* BR_CLEAR_DEATH_NOTIFICATION_DONE through the same work item.  Handles   *)
(* are dropped, threads leave and the process itself may die meanwhile.    *)
(*                                                                         *)
(* One action is one section under ref->proc->outer_lock, the node's lock  *)
(* and proc->inner_lock.  Source: src/docker/android-4.4-p-binder/binder.c.*)
(***************************************************************************)
EXTENDS BinderPool

CONSTANTS
    Nodes,     \* nodes of other processes
    Cookies,   \* the values user space tells notifications apart by
    None       \* "no notification", "no cookie"

Deaths == Work

ASSUME DeathAssumption == None \notin Deaths /\ None \notin Cookies

VARIABLES
    alive,     \* n |-> node->proc # NULL
    ref,       \* n |-> the process has a ref on the node
    death,     \* n |-> ref->death
    type,      \* d |-> d->work.type
    cookie,    \* d |-> d->cookie
    told,      \* deaths, not yet freed, reported as BR_DEAD_BINDER
    cleared,   \* deaths that BC_CLEAR_DEATH_NOTIFICATION was accepted for
    acked,     \* deaths reported as BR_CLEAR_DEATH_NOTIFICATION_DONE
    phase      \* how far binder_deferred_release has come

deathVars == <<alive, ref, death, type, cookie>>
userVars == <<told, cleared, acked>>
vars == <<threadVars, waiting, poolVars, flush, place, deathVars, userVars,
          phase>>

Types == {"none", "DEAD_BINDER", "DEAD_BINDER_AND_CLEAR",
          "CLEAR_DEATH_NOTIFICATION"}
Phases == {"open", "closing", "threads", "refs", "work", "freed"}

Init ==
    /\ PoolInit
    /\ alive = [n \in Nodes |-> TRUE]
    /\ ref = [n \in Nodes |-> FALSE]
    /\ death = [n \in Nodes |-> None]
    /\ type = [d \in Deaths |-> "none"]
    /\ cookie = [d \in Deaths |-> None]
    /\ told = {} /\ cleared = {} /\ acked = {}
    /\ phase = "open"

-----------------------------------------------------------------------------
(* Handles and nodes. *)

\* A handle reaches the process (binder_inc_ref_for_node).
GetRef(n) ==
    /\ phase = "open" /\ ~ref[n]
    /\ ref' = [ref EXCEPT ![n] = TRUE]
    /\ UNCHANGED <<threadVars, waiting, poolVars, flush, place, alive, death,
                   type, cookie, userVars, phase>>

\* kfree of a notification; its contents go too, so that a use of it shows.
Free(d) ==
    /\ place' = [place EXCEPT ![d] = "freed"]
    /\ type' = [type EXCEPT ![d] = "none"]
    /\ cookie' = [cookie EXCEPT ![d] = None]
    /\ told' = told \ {d}

\* Mutant of CleanupRef: the notification stays where it is.
CleanupRefLeaves(n) ==
    /\ ref[n]
    /\ ref' = [ref EXCEPT ![n] = FALSE]
    /\ death' = [death EXCEPT ![n] = None]
    /\ UNCHANGED <<threadVars, waiting, poolVars, flush, place, alive, type,
                   cookie, userVars, phase>>

\* binder_cleanup_ref_olocked and binder_free_ref: the notification leaves
\* whatever list it is on and is freed with the ref.
CleanupRef(n) ==
    /\ ref[n]
    /\ ref' = [ref EXCEPT ![n] = FALSE]
    /\ death' = [death EXCEPT ![n] = None]
    /\ IF death[n] = None THEN UNCHANGED <<place, type, cookie, told>>
                          ELSE Free(death[n])
    /\ UNCHANGED <<threadVars, waiting, poolVars, flush, alive, cleared, acked,
                   phase>>

\* The last count of a handle is given back by a command of a thread.
DropRef(th, n) == pc[th] = "user" /\ CleanupRef(n)

\* binder_node_release, in the process that serves the node: under the node's
\* lock it is marked dead and the notification set on its ref is queued.
NodeRelease(n) ==
    /\ alive[n]
    /\ alive' = [alive EXCEPT ![n] = FALSE]
    /\ IF death[n] # None
       THEN /\ type' = [type EXCEPT ![death[n]] = "DEAD_BINDER"]
            /\ place' = Queued(death[n], "proc")
            /\ WakeupProc
       ELSE UNCHANGED <<type, place, waiting, woken>>
    /\ UNCHANGED <<pc, looper, needReturn, doProc, got, poolVars, flush, ref,
                   death, cookie, userVars, phase>>

-----------------------------------------------------------------------------
(* Commands. *)

\* Mutant of RequestDeath: it counts on the node's death to come.
RequestDeathLate(th, n, d, c) ==
    /\ pc[th] = "user" /\ ref[n] /\ death[n] = None /\ place[d] = "unused"
    /\ death' = [death EXCEPT ![n] = d]
    /\ cookie' = [cookie EXCEPT ![d] = c]
    /\ place' = [place EXCEPT ![d] = "off"]
    /\ UNCHANGED <<threadVars, waiting, poolVars, flush, alive, ref, type,
                   userVars, phase>>

\* BC_REQUEST_DEATH_NOTIFICATION: a handle has one notification at a time; if
\* the node is dead already it is queued at once.
RequestDeath(th, n, d, c) ==
    /\ pc[th] = "user" /\ ref[n] /\ death[n] = None /\ place[d] = "unused"
    /\ death' = [death EXCEPT ![n] = d]
    /\ cookie' = [cookie EXCEPT ![d] = c]
    /\ IF alive[n]
       THEN /\ place' = [place EXCEPT ![d] = "off"]
            /\ UNCHANGED <<type, waiting, woken>>
       ELSE /\ type' = [type EXCEPT ![d] = "DEAD_BINDER"]
            /\ place' = [place EXCEPT ![d] = "proc"]
            /\ WakeupProc
    /\ UNCHANGED <<pc, looper, needReturn, doProc, got, poolVars, flush, alive,
                   ref, userVars, phase>>

\* Mutant of QueueClear: the work keeps its type.
QueueClearAsIs(th, d) ==
    /\ place' = [place EXCEPT ![d] = IF IsLooper(th) THEN th ELSE "proc"]
    /\ UNCHANGED type
    /\ IF IsLooper(th) THEN UNCHANGED <<waiting, woken>> ELSE WakeupProc

\* The answer to a clear goes to the list of the thread that asks when it is a
\* looper, else to the list of the process.
QueueClear(th, d) ==
    /\ type' = [type EXCEPT ![d] = "CLEAR_DEATH_NOTIFICATION"]
    /\ place' = [place EXCEPT ![d] = IF IsLooper(th) THEN th ELSE "proc"]
    /\ IF IsLooper(th) THEN UNCHANGED <<waiting, woken>> ELSE WakeupProc

\* Mutant of ClearDeath: a notification that is on a list is left alone.
ClearDeathSilent(th, n, c) ==
    /\ pc[th] = "user" /\ ref[n] /\ death[n] # None /\ cookie[death[n]] = c
    /\ death' = [death EXCEPT ![n] = None]
    /\ cleared' = cleared \cup {death[n]}
    /\ IF place[death[n]] = "off"
       THEN QueueClear(th, death[n])
       ELSE UNCHANGED <<type, place, waiting, woken>>
    /\ UNCHANGED <<pc, looper, needReturn, doProc, got, poolVars, flush, alive,
                   ref, cookie, told, acked, phase>>

\* BC_CLEAR_DEATH_NOTIFICATION: a notification that is on no list is answered
\* now; one that is queued or was delivered is answered when it comes back.
ClearDeath(th, n, c) ==
    /\ pc[th] = "user" /\ ref[n] /\ death[n] # None /\ cookie[death[n]] = c
    /\ death' = [death EXCEPT ![n] = None]
    /\ cleared' = cleared \cup {death[n]}
    /\ IF place[death[n]] = "off"
       THEN QueueClear(th, death[n])
       ELSE /\ type' = [type EXCEPT ![death[n]] = "DEAD_BINDER_AND_CLEAR"]
            /\ UNCHANGED <<place, waiting, woken>>
    /\ UNCHANGED <<pc, looper, needReturn, doProc, got, poolVars, flush, alive,
                   ref, cookie, told, acked, phase>>

\* BC_DEAD_BINDER_DONE: the notification with this cookie on delivered_death;
\* if it was cleared in between, the clear is answered now.
DeadBinderDone(th, d) ==
    /\ pc[th] = "user" /\ place[d] = "delivered"
    /\ IF type[d] = "DEAD_BINDER_AND_CLEAR"
       THEN QueueClear(th, d)
       ELSE /\ place' = [place EXCEPT ![d] = "off"]
            /\ UNCHANGED <<type, waiting, woken>>
    /\ UNCHANGED <<pc, looper, needReturn, doProc, got, poolVars, flush, alive,
                   ref, death, cookie, userVars, phase>>

-----------------------------------------------------------------------------
(* binder_thread_read of a notification. *)

\* The item is dequeued and handled in one section.  The answer to a clear frees
\* it; copying it to the user may fault.
TakeClear(th, d, fault) ==
    /\ pc[th] = "loop" /\ d \in NextList(th)
    /\ type[d] = "CLEAR_DEATH_NOTIFICATION"
    /\ Free(d)
    /\ acked' = acked \cup {d}
    /\ pc' = [pc EXCEPT ![th] = IF fault THEN "exit" ELSE "loop"]
    /\ got' = [got EXCEPT ![th] = TRUE]
    /\ UNCHANGED <<looper, needReturn, doProc, woken, waiting, poolVars, flush,
                   alive, ref, death, cleared, phase>>

\* A death goes to delivered_death and ends the read ("can cause
\* transactions").
TakeDeath(th, d, fault) ==
    /\ pc[th] = "loop" /\ d \in NextList(th)
    /\ type[d] # "CLEAR_DEATH_NOTIFICATION"
    /\ place' = [place EXCEPT ![d] = "delivered"]
    /\ told' = told \cup {d}
    /\ pc' = [pc EXCEPT ![th] = IF fault THEN "exit" ELSE "done"]
    /\ got' = [got EXCEPT ![th] = TRUE]
    /\ UNCHANGED <<looper, needReturn, doProc, woken, waiting, poolVars, flush,
                   deathVars, cleared, acked, phase>>

-----------------------------------------------------------------------------
(* A thread leaves; the process ends. *)

\* BINDER_THREAD_EXIT, or binder_deferred_release for each thread that is left:
\* what is on its list (answers to clears) is freed unread.
ThreadExit(th) ==
    /\ phase \in {"open", "threads"}
    /\ ThreadRelease(th)
    /\ type' = [d \in Deaths |-> IF d \in Todo(th) THEN "none" ELSE type[d]]
    /\ cookie' = [d \in Deaths |-> IF d \in Todo(th) THEN None ELSE cookie[d]]
    /\ told' = told \ Todo(th)
    /\ UNCHANGED <<alive, ref, death, cleared, acked, phase>>

\* binder_release: the last descriptor is closed; no thread is in the driver.
Release ==
    /\ phase = "open"
    /\ \A th \in Threads : pc[th] \in {"user", "out"}
    /\ phase' = "closing"
    /\ UNCHANGED <<threadVars, waiting, poolVars, flush, place, deathVars,
                   userVars>>

\* binder_deferred_func handles a pending flush before the release.
DeferredRelease ==
    /\ phase = "closing" /\ ~flush
    /\ phase' = "threads"
    /\ UNCHANGED <<threadVars, waiting, poolVars, flush, place, deathVars,
                   userVars>>

ThreadsReleased ==
    /\ phase = "threads"
    /\ \A th \in Threads : pc[th] = "out"
    /\ phase' = "refs"
    /\ UNCHANGED <<threadVars, waiting, poolVars, flush, place, deathVars,
                   userVars>>

ReleaseRef(n) == phase = "refs" /\ CleanupRef(n)

RefsReleased ==
    /\ phase = "refs" /\ \A n \in Nodes : ~ref[n]
    /\ phase' = "work"
    /\ UNCHANGED <<threadVars, waiting, poolVars, flush, place, deathVars,
                   userVars>>

\* binder_release_work of todo and delivered_death: an item of an unexpected
\* type is taken off the list and not freed.
ReleaseWork(d) ==
    /\ phase = "work" /\ place[d] \in {"proc", "delivered"}
    /\ IF type[d] = "DEAD_BINDER"
       THEN place' = [place EXCEPT ![d] = "off"] /\ UNCHANGED <<type, cookie, told>>
       ELSE Free(d)
    /\ UNCHANGED <<threadVars, waiting, poolVars, flush, alive, ref, death,
                   cleared, acked, phase>>

\* binder_free_proc
FreeProc ==
    /\ phase = "work" /\ \A d \in Deaths : place[d] \notin {"proc", "delivered"}
    /\ phase' = "freed"
    /\ UNCHANGED <<threadVars, waiting, poolVars, flush, place, deathVars,
                   userVars>>

-----------------------------------------------------------------------------

\* Only an open process runs threads; the deferred flush may still come.
PoolStep(th) ==
    /\ phase = "open"
    /\ \/ GetThread(th)
       \/ IoctlEnd(th)
       \/ RegisterLooper(th)
       \/ EnterLooper(th)
       \/ \E n \in Limits : SetMaxThreads(th, n)
       \/ ReadBegin(th)
       \/ WaitForWork(th)
       \/ WouldBlock(th)
       \/ Wake(th)
       \/ Interrupted(th)
       \/ NothingLeft(th)
       \/ ShortBuffer(th)
       \/ SpawnLooper(th)
       \/ ReadExit(th)
       \/ PollBegin(th)
       \/ PollCheck(th)
       \/ PollTimeout(th)
       \/ Flush
    /\ UNCHANGED <<deathVars, userVars, phase>>

Command(th) ==
    /\ phase = "open"
    /\ \/ \E n \in Nodes :
              \/ DropRef(th, n)
              \/ \E d \in Deaths, c \in Cookies : RequestDeath(th, n, d, c)
              \/ \E c \in Cookies : ClearDeath(th, n, c)
       \/ \E d \in Deaths : DeadBinderDone(th, d)

Next ==
    \/ \E th \in Threads :
           \/ PoolStep(th)
           \/ Command(th)
           \/ \E d \in Deaths, fault \in BOOLEAN :
                  TakeClear(th, d, fault) \/ TakeDeath(th, d, fault)
           \/ ThreadExit(th)
    \/ \E n \in Nodes : GetRef(n) \/ NodeRelease(n) \/ ReleaseRef(n)
    \/ \E d \in Deaths : ReleaseWork(d)
    \/ DeferredFlush /\ UNCHANGED <<deathVars, userVars, phase>>
    \/ Release \/ DeferredRelease \/ ThreadsReleased \/ RefsReleased \/ FreeProc

Spec == Init /\ [][Next]_vars

-----------------------------------------------------------------------------
(* Properties. *)

TypeOK ==
    /\ PoolTypeOK
    /\ alive \in [Nodes -> BOOLEAN] /\ ref \in [Nodes -> BOOLEAN]
    /\ death \in [Nodes -> Deaths \cup {None}]
    /\ type \in [Deaths -> Types]
    /\ cookie \in [Deaths -> Cookies \cup {None}]
    /\ told \in SUBSET Deaths /\ cleared \in SUBSET Deaths
    /\ acked \in SUBSET Deaths
    /\ phase \in Phases

OnList(d) == place[d] \in {"proc", "delivered"} \cup Threads

\* Every notification in memory is reached in exactly one way: through the ref
\* it was set on, or, once cleared, through one list; what a ref points to is
\* never freed memory, and no work item is put on two lists (the BUG_ONs of
\* binder_enqueue_work_ilocked and binder_node_release).  When the process is
\* gone none is on a list or still allocated.
DeathsAccounted ==
    /\ \A n \in Nodes : death[n] # None =>
           ref[n] /\ place[death[n]] \in {"off", "proc", "delivered"}
    /\ \A n, m \in Nodes : death[n] # None /\ death[n] = death[m] => n = m
    /\ \A d \in Deaths :
           /\ place[d] # "corrupt"
           /\ place[d] = "off" => \E n \in Nodes : death[n] = d
           /\ OnList(d) => (d \in cleared <=> \A n \in Nodes : death[n] # d)
    /\ phase = "freed" =>
           \A d \in Deaths : place[d] \in {"unused", "freed", "dropped"}

\* A handle whose node is dead has its notification on the way, or the user was
\* told: a request and the death of the node never miss each other.
NoDeathMissed ==
    \A n \in Nodes : ~alive[n] /\ death[n] # None =>
        \/ place[death[n]] = "proc" /\ type[death[n]] = "DEAD_BINDER"
        \/ death[n] \in told

\* The user is told of a death once, and only of a notification that is not
\* finished: what waits to be delivered as BR_DEAD_BINDER was not delivered
\* before.
ToldOnce ==
    \A d \in Deaths :
        place[d] \in {"proc"} \cup Threads /\ d \in told =>
            type[d] = "CLEAR_DEATH_NOTIFICATION"

\* A clear that was accepted is answered, unless the process or the thread that
\* was to read the answer went away: until then the notification is on a list
\* with a type that will answer it.  Only what was cleared is answered.
ClearIsAnswered ==
    /\ acked \subseteq cleared
    /\ \A d \in cleared \ acked :
           \/ place[d] = "dropped"
           \/ phase \in {"work", "freed"}
           \/ /\ OnList(d)
              /\ type[d] \in {"DEAD_BINDER_AND_CLEAR",
                              "CLEAR_DEATH_NOTIFICATION"}

\* At most one looper is asked for at a time, and those asked for and started
\* never exceed the highest limit that was set.
SpawnBounded ==
    /\ requested <= 1
    /\ \E n \in Limits \cup {0} : requested + started <= n

-----------------------------------------------------------------------------
(* The inductive invariant of the proofs. *)

\* What the type of a notification says, place by place.
DeathShape ==
    \A d \in Deaths :
        /\ place[d] \in {"unused", "freed", "dropped"} => type[d] = "none"
        /\ place[d] = "unused" => d \notin told \cup cleared \cup acked
        /\ place[d] = "off" => type[d] \in {"none", "DEAD_BINDER"}
        /\ place[d] = "off" => (type[d] = "DEAD_BINDER" <=> d \in told)
        /\ place[d] = "proc" => type[d] # "none"
        /\ place[d] = "proc" /\ d \in told =>
               type[d] = "CLEAR_DEATH_NOTIFICATION"
        /\ place[d] = "delivered" =>
               /\ type[d] \in {"DEAD_BINDER", "DEAD_BINDER_AND_CLEAR"}
               /\ d \in told
        /\ place[d] \in Threads => type[d] = "CLEAR_DEATH_NOTIFICATION"
        /\ place[d] \in {"off", "proc", "delivered"} \cup Threads =>
               (d \in cleared <=> type[d] \in {"DEAD_BINDER_AND_CLEAR",
                                               "CLEAR_DEATH_NOTIFICATION"})

\* A notification is queued when its node dies, not before.
AliveIsQuiet ==
    \A n \in Nodes : death[n] # None =>
        /\ alive[n] => type[death[n]] = "none"
        /\ ~alive[n] => type[death[n]] = "DEAD_BINDER"

\* How far the release of the process has come.
PhaseShape ==
    /\ phase # "open" => \A th \in Threads : pc[th] \in {"user", "out"}
    /\ phase \in {"refs", "work", "freed"} =>
           \A th \in Threads : pc[th] = "out"
    /\ phase \in {"work", "freed"} => \A n \in Nodes : ~ref[n]
    /\ phase = "freed" => \A d \in Deaths : place[d] \notin {"proc", "delivered"}

IInv ==
    /\ TypeOK /\ ThreadShape /\ DeathShape /\ AliveIsQuiet /\ PhaseShape
    /\ DeathsAccounted /\ ClearIsAnswered
    /\ SpawnBounded /\ NoLostWakeup /\ ReturnsWhenTold
=============================================================================
