--------------------------- MODULE BinderNodeRef ---------------------------
(***************************************************************************)
(* The life of a binder node: who counts as a user of it, what its server  *)
(* is told, and when it is freed.                                          *)
(*                                                                         *)
(* One node is modelled, with the process that serves it, the refs         *)
(* (handles) other processes have on it, transactions that carry it as an  *)
(* object (parcels) and calls made to it.  One action is one section under *)
(* node->lock and the server's inner lock.  The holder of the outer lock   *)
(* of a process may be between two such sections; that is locked[p].       *)
(*                                                                         *)
(* Source: src/docker/android-4.4-p-binder/binder.c.                       *)
(***************************************************************************)
EXTENDS Integers, FiniteSets

CONSTANTS
    Server,    \* the process of the node
    Clients,   \* the other processes
    Threads,   \* the threads of the server
    Parcels,   \* objects under way at a time
    Calls,     \* calls to the node under way at a time
    MaxCount,  \* bound on the strong and weak count of a ref a client asks for
    MaxLeft,   \* bound on the local counts left behind while the node is out of
               \* the tree and not yet without a process
    None       \* NULL

ASSUME ActorAssumption ==
    /\ Server \notin Clients /\ None \notin Clients \union {Server}
    /\ None \notin Threads \union {"proc"} /\ "proc" \notin Threads
ASSUME FiniteAssumption ==
    /\ IsFiniteSet(Clients) /\ IsFiniteSet(Threads)
    /\ IsFiniteSet(Parcels) /\ IsFiniteSet(Calls)
    /\ MaxCount \in Nat /\ MaxLeft \in Nat

Procs == Clients \union {Server}

VARIABLES
    node,      \* the binder_node
    ref,       \* p |-> the binder_ref of process p on the node
    locked,    \* processes whose outer lock is held by binder_dec_ref_olocked
    parcel,    \* p |-> an object that stands for the node
    call,      \* c |-> a transaction whose target is the node
    ack,       \* th |-> the BC_INCREFS_DONE or BC_ACQUIRE_DONE it is in
    prc,       \* p |-> how far process p is in its release
    mgr,       \* the node is binder_context_mgr_node
    careless   \* someone has given up what one of his own threads was using

vars == <<node, ref, locked, parcel, call, ack, prc, mgr, careless>>

\* tree: binder_get_node finds it.  proc: node->proc is not NULL.  work: the
\* list its work is on, that of the process or of one of its threads.
Node == [exists : BOOLEAN, tree : BOOLEAN, proc : BOOLEAN,
         internal : Int, localStrong : Int, localWeak : Int, tmp : Int,
         hasStrong : BOOLEAN, pendingStrong : BOOLEAN,
         hasWeak : BOOLEAN, pendingWeak : BOOLEAN,
         work : Threads \union {"proc", None}]

NoNode == [exists |-> FALSE, tree |-> FALSE, proc |-> FALSE,
           internal |-> 0, localStrong |-> 0, localWeak |-> 0, tmp |-> 0,
           hasStrong |-> FALSE, pendingStrong |-> FALSE,
           hasWeak |-> FALSE, pendingWeak |-> FALSE, work |-> None]

Ref == [on : BOOLEAN, strong : Nat, weak : Nat]
NoRef == [on |-> FALSE, strong |-> 0, weak |-> 0]

\* by: the process one of whose threads is at work on the object, and th that
\* thread if it is one of the server.  local: it is a BINDER in the buffer, not
\* a HANDLE, because its receiver is the server itself.
ParcelStates == {"idle", "looked", "counted", "failed", "built", "held",
                 "undo", "found", "put", "cleanup"}
Parcel == [st : ParcelStates, by : Procs \union {None},
           th : Threads \union {None}, to : Procs \union {None},
           strong : BOOLEAN, local : BOOLEAN]
NoParcel == [st |-> "idle", by |-> None, th |-> None, to |-> None,
             strong |-> FALSE, local |-> FALSE]

CallStates == {"idle", "built", "accepted", "held", "done"}
Call == [st : CallStates, by : Clients \union {None}]
NoCall == [st |-> "idle", by |-> None]

AckStates == {"none", "strong", "weak", "put"}

Init ==
    /\ node = NoNode
    /\ ref = [p \in Procs |-> NoRef]
    /\ locked = {}
    /\ parcel = [p \in Parcels |-> NoParcel]
    /\ call = [c \in Calls |-> NoCall]
    /\ ack = [th \in Threads |-> "none"]
    /\ prc = [p \in Procs |-> "open"]
    /\ mgr = FALSE
    /\ careless = FALSE

-----------------------------------------------------------------------------
(* binder_inc_node_nilocked and binder_dec_node_nilocked. *)

Linked == {p \in Procs : ref[p].on}

\* The -EINVAL of binder_inc_node_nilocked: a first reference that cannot be
\* announced to the server.
IncFails(n, strong, internal, list) ==
    /\ list = None
    /\ IF strong THEN internal /\ n.internal = 0 /\ ~(n.proc /\ mgr /\ n.hasStrong)
       ELSE ~n.hasWeak /\ n.work = None

\* Mutant of Announced: a server that knows of a weak reference is not told of
\* a strong one.
AnnouncedOnce(n, strong, list) ==
    IF list # None /\ ~n.hasWeak /\ n.work = None THEN list ELSE n.work

\* The list the node's work is on afterwards: a strong reference the server
\* does not know of moves it to the list of the sending thread.
Announced(n, strong, list) ==
    IF /\ list # None
       /\ IF strong THEN ~n.hasStrong ELSE ~n.hasWeak /\ n.work = None
    THEN list ELSE n.work

\* A failed weak increment has counted a local reference all the same.
Inc(n, strong, internal, list) ==
    IF strong /\ IncFails(n, strong, internal, list) THEN n
    ELSE [n EXCEPT
            !.internal = @ + (IF strong /\ internal THEN 1 ELSE 0),
            !.localStrong = @ + (IF strong /\ ~internal THEN 1 ELSE 0),
            !.localWeak = @ + (IF ~strong /\ ~internal THEN 1 ELSE 0),
            !.work = Announced(n, strong, list)]

Less(n, strong, internal) ==
    [n EXCEPT
       !.internal = @ - (IF strong /\ internal THEN 1 ELSE 0),
       !.localStrong = @ - (IF strong /\ ~internal THEN 1 ELSE 0),
       !.localWeak = @ - (IF ~strong /\ ~internal THEN 1 ELSE 0)]

\* Others of the same kind are left, linked being the processes with a ref.
Remains(n, strong, linked) ==
    IF strong THEN n.localStrong # 0 \/ n.internal # 0
    ELSE n.localWeak # 0 \/ n.tmp # 0 \/ linked # {}

\* Mutant of Unused: somebody may be using the node without counting for long.
UnusedButTmp(n, linked) ==
    linked = {} /\ n.localStrong = 0 /\ n.localWeak = 0

\* Nobody at all is left.
Unused(n, linked) ==
    linked = {} /\ n.localStrong = 0 /\ n.localWeak = 0 /\ n.tmp = 0

\* The last reference of its kind is either reported to the server, which
\* knows of it, or frees the node.
Settle(n, strong, linked) ==
    IF Remains(n, strong, linked) THEN n
    ELSE IF n.proc /\ (n.hasStrong \/ n.hasWeak)
    THEN [n EXCEPT !.work = IF @ = None THEN "proc" ELSE @]
    ELSE IF Unused(n, linked) THEN NoNode ELSE n

Dec(n, strong, internal, linked) ==
    Settle(Less(n, strong, internal), strong, linked)

\* binder_inc_node_tmpref_ilocked.
Tmp(n) == [n EXCEPT !.tmp = @ + 1]

\* Mutant of Put: the counts are not looked at again.
PutOnly(n, linked) == [n EXCEPT !.tmp = @ - 1]

\* binder_dec_node_tmpref, which is binder_put_node.
Put(n, linked) == Settle([n EXCEPT !.tmp = @ - 1], FALSE, linked)

-----------------------------------------------------------------------------
(* Refs: their users hold the outer lock of process p. *)

\* binder_get_ref_olocked finds the ref.
Finds(p, strong) == ref[p].on /\ (strong => ref[p].strong > 0)

Count(r, strong) == IF strong THEN r.strong ELSE r.weak
Counted(r, strong, by) ==
    IF strong THEN [r EXCEPT !.strong = @ + by] ELSE [r EXCEPT !.weak = @ + by]

\* binder_inc_ref_for_node fails, having made the ref if there was none.
RefFails(p, strong, list) ==
    Count(ref[p], strong) = 0 /\ IncFails(node, strong, TRUE, list)

\* binder_inc_ref_for_node: the ref is made if need be, and the first
\* reference of a kind is passed on to the node.
IncRef(p, strong, list) ==
    /\ p \notin locked
    /\ node' = IF Count(ref[p], strong) = 0 THEN Inc(node, strong, TRUE, list)
               ELSE node
    /\ ref' = [ref EXCEPT ![p] =
                 IF RefFails(p, strong, list) THEN [@ EXCEPT !.on = TRUE]
                 ELSE Counted([@ EXCEPT !.on = TRUE], strong, 1)]

\* Mutant of CleanupRef: the strong count is not given back.
CleanupRefOnly(p) ==
    /\ node' = Dec(node, FALSE, TRUE, Linked \ {p})
    /\ ref' = [ref EXCEPT ![p] = NoRef]

\* binder_cleanup_ref_olocked: one section, in which a strong count that is
\* left is given back before the ref leaves the list of the node.
CleanupRef(p) ==
    /\ node' = Dec(IF ref[p].strong > 0 THEN Dec(node, TRUE, TRUE, Linked)
                   ELSE node, FALSE, TRUE, Linked \ {p})
    /\ ref' = [ref EXCEPT ![p] = NoRef]

\* Mutant of Empties: counts of the other kind are forgotten.
EmptiesAlone(p, strong) == Count(ref[p], strong) = 1

\* The ref loses its last count of one kind, and has none of the other.
Empties(p, strong) ==
    Count(ref[p], strong) = 1 /\ Count(ref[p], ~strong) = 0

\* Not an "invalid dec".
Drops(p, strong) == Finds(p, strong) /\ Count(ref[p], strong) > 0

\* binder_dec_ref_olocked up to the first section on the node: the lock is
\* kept if the ref has to be cleaned up as well.
DecRef(p, strong) ==
    /\ p \notin locked
    /\ IF Drops(p, strong)
       THEN /\ ref' = [ref EXCEPT ![p] = Counted(@, strong, -1)]
            /\ node' = IF strong /\ ref[p].strong = 1
                       THEN Dec(node, TRUE, TRUE, Linked) ELSE node
            /\ locked' = IF Empties(p, strong) THEN locked \union {p} ELSE locked
       ELSE UNCHANGED <<ref, node, locked>>

\* The counts of p that stand for objects in buffers, and those of them whose
\* buffers p has not been given.
LentBy(X, p, strong) ==
    Cardinality({x \in X : /\ parcel[x].to = p /\ parcel[x].strong = strong
                           /\ parcel[x].st \in {"counted", "built", "held", "undo"}
                           /\ ~parcel[x].local})
Lent(p, strong) == LentBy(Parcels, p, strong)
Held(p, strong) ==
    Count(ref[p], strong)
      - LentBy({x \in Parcels : parcel[x].by \notin {p, None}}, p, strong)

\* A thread of p sends its handle while another gives back the last count of p
\* that the first relies on.
Undermines(p, strong) ==
    \E x \in Parcels :
      /\ parcel[x].by = p /\ parcel[x].st = "looked"
      /\ IF parcel[x].strong THEN strong /\ Held(p, TRUE) <= 1
         ELSE Held(p, TRUE) + Held(p, FALSE) <= 1

-----------------------------------------------------------------------------
(* An object is sent: binder_translate_binder, binder_translate_handle. *)

FreeThread(th) ==
    ack[th] = "none" /\ \A x \in Parcels : parcel[x].th # th

\* binder_get_node or binder_new_node: the server sends its node.
SendBinder(x, th, p, strong) ==
    /\ parcel[x].st = "idle" /\ FreeThread(th)
    /\ prc[Server] = "open" /\ p \in Clients /\ prc[p] # "released"
    /\ node' = IF node.exists THEN Tmp(node)
               ELSE [NoNode EXCEPT !.exists = TRUE, !.tree = TRUE,
                                   !.proc = TRUE, !.tmp = 1]
    /\ parcel' = [parcel EXCEPT ![x] = [st |-> "looked", by |-> Server,
                    th |-> th, to |-> p, strong |-> strong, local |-> FALSE]]
    /\ UNCHANGED <<ref, locked, call, ack, prc, mgr, careless>>

\* binder_get_node_from_ref: a client sends its handle on, or back.  It is
\* careless to send a handle it has not been given yet.
SendHandle(x, q, p, strong) ==
    /\ parcel[x].st = "idle" /\ q \in Clients /\ q # p
    /\ prc[q] = "open" /\ prc[p] # "released"
    /\ q \notin locked /\ Finds(q, strong)
    /\ node' = Tmp(node)
    /\ parcel' = [parcel EXCEPT ![x] = [st |-> "looked", by |-> q, th |-> None,
                    to |-> p, strong |-> strong, local |-> FALSE]]
    /\ careless' = \/ careless
                   \/ Held(q, TRUE) + (IF strong THEN 0 ELSE Held(q, FALSE)) <= 0
    /\ UNCHANGED <<ref, locked, call, ack, prc, mgr>>

\* A handle comes home and becomes a BINDER.
TranslateHome(x) ==
    LET m == parcel[x] IN
    /\ m.st = "looked" /\ m.to = Server /\ node.proc
    /\ node.tree \/ node.localStrong + node.localWeak < MaxLeft
    /\ node' = Inc(node, m.strong, FALSE, None)
    /\ parcel' = [parcel EXCEPT ![x].st = "counted", ![x].local = TRUE]
    /\ UNCHANGED <<ref, locked, call, ack, prc, mgr, careless>>

\* The receiver gets a reference on the node.
Translate(x) ==
    LET m == parcel[x] IN
    /\ m.st = "looked" /\ ~(m.to = Server /\ node.proc)
    /\ IncRef(m.to, m.strong, m.th)
    /\ parcel' = [parcel EXCEPT ![x].st =
                    IF RefFails(m.to, m.strong, m.th) THEN "failed" ELSE "counted"]
    /\ UNCHANGED <<locked, call, ack, prc, mgr, careless>>

\* No memory for a ref.
TranslateNoMem(x) ==
    /\ parcel[x].st = "looked" /\ ~ref[parcel[x].to].on
    /\ ~(parcel[x].to = Server /\ node.proc) /\ parcel[x].to \notin locked
    /\ parcel' = [parcel EXCEPT ![x].st = "failed"]
    /\ UNCHANGED <<node, ref, locked, call, ack, prc, mgr, careless>>

\* binder_put_node at the end of a translation or of a release.
PutParcelNode(x) ==
    /\ parcel[x].st \in {"counted", "failed", "put"}
    /\ node' = Put(node, Linked)
    /\ parcel' = [parcel EXCEPT ![x] =
                    IF @.st = "counted" THEN [@ EXCEPT !.st = "built"] ELSE NoParcel]
    /\ UNCHANGED <<ref, locked, call, ack, prc, mgr, careless>>

\* The transaction is given to its receiver, or something else of it fails.
Hand(x) ==
    /\ parcel[x].st = "built" /\ prc[parcel[x].to] = "open"
    /\ parcel' = [parcel EXCEPT ![x].st = "held", ![x].by = None, ![x].th = None]
    /\ UNCHANGED <<node, ref, locked, call, ack, prc, mgr, careless>>

Fail(x) ==
    /\ parcel[x].st = "built"
    /\ parcel' = [parcel EXCEPT ![x].st = "undo"]
    /\ UNCHANGED <<node, ref, locked, call, ack, prc, mgr, careless>>

\* BC_FREE_BUFFER in a thread of the receiver.
FreeBuffer(x, th) ==
    LET p == parcel[x].to IN
    /\ parcel[x].st = "held" /\ prc[p] = "open"
    /\ IF p = Server THEN th # None /\ FreeThread(th) ELSE th = None
    /\ parcel' = [parcel EXCEPT ![x].st = "undo", ![x].by = p, ![x].th = th]
    /\ UNCHANGED <<node, ref, locked, call, ack, prc, mgr, careless>>

-----------------------------------------------------------------------------
(* binder_transaction_buffer_release. *)

\* A HANDLE: binder_dec_ref_for_handle.
ReleaseHandle(x) ==
    LET m == parcel[x] IN
    /\ m.st = "undo" /\ ~m.local
    /\ DecRef(m.to, m.strong)
    /\ careless' = (careless \/ (m.by = m.to /\ Undermines(m.to, m.strong)))
    /\ parcel' = [parcel EXCEPT ![x] =
                    IF m.to \in locked' THEN [@ EXCEPT !.st = "cleanup"] ELSE NoParcel]
    /\ UNCHANGED <<call, ack, prc, mgr>>

\* A BINDER: binder_get_node, which may not find it any more.
ReleaseBinder(x) ==
    /\ parcel[x].st = "undo" /\ parcel[x].local
    /\ node' = IF node.tree THEN Tmp(node) ELSE node
    /\ parcel' = [parcel EXCEPT ![x] =
                    IF node.tree THEN [@ EXCEPT !.st = "found"] ELSE NoParcel]
    /\ UNCHANGED <<ref, locked, call, ack, prc, mgr, careless>>

ReleaseBinderDec(x) ==
    /\ parcel[x].st = "found"
    /\ node' = Dec(node, parcel[x].strong, FALSE, Linked)
    /\ parcel' = [parcel EXCEPT ![x].st = "put"]
    /\ UNCHANGED <<ref, locked, call, ack, prc, mgr, careless>>

\* The end of binder_dec_ref_olocked, of a parcel or of a command.
FinishDecRef(p) ==
    /\ p \in locked
    /\ CleanupRef(p)
    /\ locked' = locked \ {p}
    /\ parcel' = [x \in Parcels |->
                    IF parcel[x].st = "cleanup" /\ parcel[x].to = p THEN NoParcel
                    ELSE parcel[x]]
    /\ UNCHANGED <<call, ack, prc, mgr, careless>>

-----------------------------------------------------------------------------
(* Commands of clients: BC_ACQUIRE, BC_INCREFS, BC_RELEASE, BC_DECREFS. *)

\* With handle 0 the ref is made if need be, and otherwise it must be there.
TakeRef(p, strong) ==
    /\ p \in Clients /\ prc[p] = "open" /\ Count(ref[p], strong) < MaxCount
    /\ mgr \/ Finds(p, strong)
    /\ mgr \/ ~RefFails(p, strong, None)
    /\ IncRef(p, strong, None)
    /\ UNCHANGED <<locked, parcel, call, ack, prc, mgr, careless>>

\* A client is careless if it gives back what one of its buffers holds.
DropRef(p, strong) ==
    /\ p \in Clients /\ prc[p] = "open"
    /\ Drops(p, strong)
    /\ DecRef(p, strong)
    /\ careless' = \/ careless \/ Undermines(p, strong)
                   \/ Count(ref[p], strong) <= Lent(p, strong)
    /\ UNCHANGED <<parcel, call, ack, prc, mgr>>

-----------------------------------------------------------------------------
(* Calls: binder_transaction with the node as its target. *)

\* binder_get_node_refs_for_txn, through a strong ref or as handle 0.
GetNodeRefsForTxn(c, p) ==
    /\ call[c].st = "idle" /\ p \in Clients /\ prc[p] = "open"
    /\ mgr \/ (p \notin locked /\ Finds(p, TRUE))
    /\ node.proc
    /\ node' = Tmp(Inc(node, TRUE, FALSE, None))
    /\ call' = [call EXCEPT ![c] = [st |-> "built", by |-> p]]
    /\ UNCHANGED <<ref, locked, parcel, ack, prc, mgr, careless>>

\* The buffer, which holds the strong count, goes to the server.
HandCall(c) ==
    /\ call[c].st = "built" /\ prc[Server] = "open"
    /\ call' = [call EXCEPT ![c].st = "accepted"]
    /\ UNCHANGED <<node, ref, locked, parcel, ack, prc, mgr, careless>>

\* On an error, and when the server frees the buffer: binder_dec_node.
ReleaseTarget(c) ==
    /\ call[c].st = "built" \/ (call[c].st \in {"accepted", "held"} /\ prc[Server] = "open")
    /\ node' = Dec(node, TRUE, FALSE, Linked)
    /\ call' = [call EXCEPT ![c] =
                  IF @.st = "held" THEN NoCall ELSE [@ EXCEPT !.st = "done"]]
    /\ UNCHANGED <<ref, locked, parcel, ack, prc, mgr, careless>>

\* binder_dec_node_tmpref at the end of binder_transaction.
PutTarget(c) ==
    /\ call[c].st \in {"accepted", "done"}
    /\ node' = Put(node, Linked)
    /\ call' = [call EXCEPT ![c] = IF @.st = "done" THEN NoCall
                                   ELSE [st |-> "held", by |-> None]]
    /\ UNCHANGED <<ref, locked, parcel, ack, prc, mgr, careless>>

-----------------------------------------------------------------------------
(* The server: its node as context manager, what it is told, its answers. *)

\* binder_ioctl_set_ctx_mgr, the first thing a context manager does.
SetCtxMgr ==
    /\ prc[Server] = "open" /\ ~node.exists
    /\ node' = [NoNode EXCEPT !.exists = TRUE, !.tree = TRUE, !.proc = TRUE,
                  !.localStrong = 1, !.localWeak = 1,
                  !.hasStrong = TRUE, !.hasWeak = TRUE]
    /\ mgr' = TRUE
    /\ UNCHANGED <<ref, locked, parcel, call, ack, prc, careless>>

InUseStrong(n) == n.internal # 0 \/ n.localStrong # 0
InUseWeak(n, linked) ==
    linked # {} \/ n.localWeak # 0 \/ n.tmp # 0 \/ InUseStrong(n)

\* BINDER_WORK_NODE: the server is told what has changed since it was last
\* told, and an announced reference is held until it has answered.
Told(n, linked) ==
    LET strong == InUseStrong(n)
        weak == InUseWeak(n, linked)
    IN  IF ~weak THEN NoNode
        ELSE [n EXCEPT
                !.work = None,
                !.hasWeak = TRUE,
                !.pendingWeak = @ \/ ~n.hasWeak,
                !.localWeak = @ + (IF n.hasWeak THEN 0 ELSE 1),
                !.hasStrong = strong,
                !.pendingStrong = @ \/ (strong /\ ~n.hasStrong),
                !.localStrong = @ + (IF strong /\ ~n.hasStrong THEN 1 ELSE 0)]

ReadNode(th) ==
    /\ FreeThread(th) /\ prc[Server] = "open"
    /\ node.work \in {th, "proc"}
    /\ node' = Told(node, Linked)
    /\ UNCHANGED <<ref, locked, parcel, call, ack, prc, mgr, careless>>

\* BC_ACQUIRE_DONE, BC_INCREFS_DONE: binder_get_node, the answer, and
\* binder_put_node.
Done(th, strong) ==
    /\ FreeThread(th) /\ prc[Server] = "open" /\ node.tree
    /\ IF strong THEN node.pendingStrong ELSE node.pendingWeak
    /\ node' = Tmp(node)
    /\ ack' = [ack EXCEPT ![th] = IF strong THEN "strong" ELSE "weak"]
    /\ UNCHANGED <<ref, locked, parcel, call, prc, mgr, careless>>

\* Mutant of DoneDec: the pending flag is not looked at.
DoneDecAgain(th) ==
    /\ ack[th] \in {"strong", "weak"}
    /\ node' = IF ack[th] = "strong"
               THEN Dec([node EXCEPT !.pendingStrong = FALSE], TRUE, FALSE, Linked)
               ELSE Dec([node EXCEPT !.pendingWeak = FALSE], FALSE, FALSE, Linked)
    /\ ack' = [ack EXCEPT ![th] = "put"]
    /\ UNCHANGED <<ref, locked, parcel, call, prc, mgr, careless>>

\* Two threads may answer the same announcement: the second is refused.
DoneDec(th) ==
    /\ ack[th] \in {"strong", "weak"}
    /\ node' = IF ack[th] = "strong"
               THEN IF node.pendingStrong
                    THEN Dec([node EXCEPT !.pendingStrong = FALSE], TRUE, FALSE, Linked)
                    ELSE node
               ELSE IF node.pendingWeak
                    THEN Dec([node EXCEPT !.pendingWeak = FALSE], FALSE, FALSE, Linked)
                    ELSE node
    /\ ack' = [ack EXCEPT ![th] = "put"]
    /\ UNCHANGED <<ref, locked, parcel, call, prc, mgr, careless>>

DonePut(th) ==
    /\ ack[th] = "put"
    /\ node' = Put(node, Linked)
    /\ ack' = [ack EXCEPT ![th] = "none"]
    /\ UNCHANGED <<ref, locked, parcel, call, prc, mgr, careless>>

\* BINDER_THREAD_EXIT with the news still unread: binder_release_work drops it.
ThreadExit(th) ==
    /\ FreeThread(th) /\ prc[Server] = "open" /\ node.work = th
    /\ node' = [node EXCEPT !.work = None]
    /\ careless' = TRUE
    /\ UNCHANGED <<ref, locked, parcel, call, ack, prc, mgr>>

-----------------------------------------------------------------------------
(* The release of a process: binder_deferred_release, once none of its      *)
(* threads is in the driver.                                                *)

Quiet(p) ==
    /\ p \notin locked
    /\ \A x \in Parcels : parcel[x].by # p
    /\ \A c \in Calls : call[c].by # p
    /\ p = Server => \A th \in Threads : ack[th] = "none"

\* It is marked dead and loses its threads, with what is on their lists; no
\* buffer of it is freed by its user any more.
Close(p) ==
    /\ prc[p] = "open" /\ Quiet(p)
    /\ prc' = [prc EXCEPT ![p] = IF p = Server /\ node.exists THEN "dead" ELSE "refs"]
    /\ parcel' = [x \in Parcels |->
                    IF parcel[x].st = "held" /\ parcel[x].to = p THEN NoParcel
                    ELSE parcel[x]]
    /\ IF p = Server
       THEN /\ node' = [node EXCEPT !.work = IF @ \in Threads THEN None ELSE @]
            /\ call' = [c \in Calls |->
                          CASE call[c].st = "held" -> NoCall
                            [] call[c].st = "accepted" -> [call[c] EXCEPT !.st = "done"]
                            [] OTHER -> call[c]]
            /\ mgr' = FALSE
       ELSE UNCHANGED <<node, call, mgr>>
    /\ UNCHANGED <<ref, locked, ack, careless>>

\* The worker takes the node out of the tree, holding it.
EraseNode ==
    /\ prc[Server] = "dead"
    /\ node' = IF node.exists THEN [Tmp(node) EXCEPT !.tree = FALSE] ELSE node
    /\ prc' = [prc EXCEPT ![Server] = IF node.exists THEN "erased" ELSE "refs"]
    /\ UNCHANGED <<ref, locked, parcel, call, ack, mgr, careless>>

\* binder_node_release: the node is freed, or lives on without a process.
NodeRelease ==
    /\ prc[Server] = "erased"
    /\ IF Linked = {} /\ node.tmp = 1
       THEN /\ node' = NoNode
            /\ prc' = [prc EXCEPT ![Server] = "refs"]
       ELSE /\ node' = [node EXCEPT !.proc = FALSE, !.work = None,
                                    !.localStrong = 0, !.localWeak = 0]
            /\ prc' = [prc EXCEPT ![Server] = "put"]
    /\ UNCHANGED <<ref, locked, parcel, call, ack, mgr, careless>>

NodeReleasePut ==
    /\ prc[Server] = "put"
    /\ node' = Put(node, Linked)
    /\ prc' = [prc EXCEPT ![Server] = "refs"]
    /\ UNCHANGED <<ref, locked, parcel, call, ack, mgr, careless>>

\* Its own refs are cleaned up until there are none.
ReleaseRef(p) ==
    /\ prc[p] = "refs" /\ p \notin locked /\ ref[p].on
    /\ CleanupRef(p)
    /\ UNCHANGED <<locked, parcel, call, ack, prc, mgr, careless>>

ReleaseDone(p) ==
    /\ prc[p] = "refs" /\ p \notin locked /\ ~ref[p].on
    /\ prc' = [prc EXCEPT ![p] = "released"]
    /\ UNCHANGED <<node, ref, locked, parcel, call, ack, mgr, careless>>

-----------------------------------------------------------------------------
Objects ==
    \E x \in Parcels :
      \/ \E strong \in BOOLEAN, p \in Procs :
           \/ \E th \in Threads : SendBinder(x, th, p, strong)
           \/ \E q \in Clients : SendHandle(x, q, p, strong)
      \/ TranslateHome(x) \/ Translate(x) \/ TranslateNoMem(x)
      \/ Hand(x) \/ Fail(x)
      \/ \E th \in Threads \union {None} : FreeBuffer(x, th)
      \/ ReleaseHandle(x) \/ ReleaseBinder(x) \/ ReleaseBinderDec(x)
      \/ PutParcelNode(x)

ServerThread(th) ==
    \/ ReadNode(th) \/ ThreadExit(th)
    \/ (\E strong \in BOOLEAN : Done(th, strong))
    \/ DoneDec(th) \/ DonePut(th)

Next ==
    \/ Objects
    \/ \E p \in Procs : FinishDecRef(p)
    \/ \E p \in Clients, strong \in BOOLEAN : TakeRef(p, strong) \/ DropRef(p, strong)
    \/ \E c \in Calls :
         \/ \E p \in Clients : GetNodeRefsForTxn(c, p)
         \/ HandCall(c) \/ ReleaseTarget(c) \/ PutTarget(c)
    \/ SetCtxMgr
    \/ \E th \in Threads : ServerThread(th)
    \/ \E p \in Procs : Close(p) \/ ReleaseRef(p) \/ ReleaseDone(p)
    \/ EraseNode \/ NodeRelease \/ NodeReleasePut

Spec == Init /\ [][Next]_vars

-----------------------------------------------------------------------------
(* Properties. *)

TypeOK ==
    /\ node \in Node
    /\ ref \in [Procs -> Ref]
    /\ locked \subseteq Procs
    /\ parcel \in [Parcels -> Parcel]
    /\ call \in [Calls -> Call]
    /\ ack \in [Threads -> AckStates]
    /\ prc \in [Procs -> {"open", "dead", "erased", "put", "refs", "released"}]
    /\ mgr \in BOOLEAN /\ careless \in BOOLEAN

\* Who is between two locks with a pointer to the node.
TmpParcels == {x \in Parcels :
    parcel[x].st \in {"looked", "counted", "failed", "found", "put"}}
TmpCalls == {c \in Calls : call[c].st \in {"built", "accepted", "done"}}
TmpAcks == {th \in Threads : ack[th] # "none"}
Holders ==
    Cardinality(TmpParcels) + Cardinality(TmpCalls) + Cardinality(TmpAcks)
      + (IF prc[Server] \in {"erased", "put"} THEN 1 ELSE 0)

\* Whoever is between two locks with a pointer to the node counts in tmp_refs,
\* and nobody else does (the BUG_ON of binder_dec_node_tmpref); and a node that
\* has been freed has no ref, no such holder and is on no list.
NoUseAfterFree ==
    /\ node.tmp = Holders
    /\ ~node.exists => Linked = {} /\ node = NoNode

StrongRefs == {p \in Procs : ref[p].strong > 0}

\* internal_strong_refs counts the refs that have a strong count, whatever
\* processes come, go or fail on the way.
InternalCounts == node.internal = Cardinality(StrongRefs)

\* What the server has in its hands: objects that came home, and calls.
LocalParcels(strong) == {x \in Parcels :
    /\ parcel[x].local /\ parcel[x].strong = strong
    /\ parcel[x].st \in {"counted", "built", "held", "undo", "found"}}
LocalCalls == {c \in Calls : call[c].st \in {"built", "accepted", "held"}}

\* While the server lives, the local counts are exactly the buffers it has not
\* freed, the announcements it has not answered and what it holds as context
\* manager.
LocalCounts ==
    prc[Server] = "open" =>
      /\ node.localStrong = Cardinality(LocalParcels(TRUE)) + Cardinality(LocalCalls)
           + (IF node.pendingStrong THEN 1 ELSE 0) + (IF mgr THEN 1 ELSE 0)
      /\ node.localWeak = Cardinality(LocalParcels(FALSE))
           + (IF node.pendingWeak THEN 1 ELSE 0) + (IF mgr THEN 1 ELSE 0)

\* Nothing is left behind: a node nobody uses and the server need not be told of
\* has been freed, and, while the server lives, so has a ref without a count,
\* which could never be given back.
FreedWhenUnused ==
    /\ node.exists /\ node.tree /\ Unused(node, Linked) =>
         node.hasStrong \/ node.hasWeak
    /\ prc[Server] = "open" /\ ~careless =>
         \A p \in Procs \ locked : ref[p].on => ref[p].strong > 0 \/ ref[p].weak > 0

\* Unless its thread dropped the news, the server knows of a change or will be
\* told: of the last reference of a kind always, and of a first one as long as
\* clients do not give back what they are using.
ServerKnows ==
    LET told == node.work # None
    IN  prc[Server] = "open" /\ ~careless =>
          /\ node.hasStrong /\ ~InUseStrong(node) => told
          /\ node.hasWeak /\ ~InUseWeak(node, Linked) => told
          /\ InUseStrong(node) /\ ~node.hasStrong => told
          /\ (Linked # {} \/ node.localWeak # 0) /\ ~node.hasWeak => told

\* A process can use the handle a buffer gave it until it frees the buffer.
HandleLasts ==
    ~careless =>
      \A x \in Parcels : LET m == parcel[x] IN
        m.st = "held" /\ ~m.local => Finds(m.to, m.strong)

\* The inductive invariant of BinderNodeRefProofs: a ref that is off its list, or
\* about to be, has no counts; an object has a receiver, which is the server if
\* it is local; only a server that lives is the context manager, and it has been
\* told of what it has yet to answer.
RefShape ==
    \A p \in Procs :
      /\ ~ref[p].on => ref[p] = NoRef
      /\ p \in locked => ref[p] = [on |-> TRUE, strong |-> 0, weak |-> 0]
ParcelShape ==
    \A x \in Parcels : LET m == parcel[x] IN
      /\ m.local => m.to = Server /\ m.st # "looked"
      /\ m.st # "idle" => m.to # None
      /\ m.st = "found" => m.local
ServerShape ==
    /\ mgr => prc[Server] = "open"
    /\ prc[Server] = "open" /\ node.exists =>
         /\ node.tree /\ node.proc
         /\ node.pendingStrong => node.hasStrong
         /\ node.pendingWeak => node.hasWeak
IInv ==
    /\ TypeOK /\ RefShape /\ ParcelShape /\ ServerShape
    /\ NoUseAfterFree /\ InternalCounts /\ LocalCounts

\* What the second part of the proofs adds.  The server knows of weak references
\* whenever it knows of strong ones, and a context manager's node is strong for
\* good.
NewsShape ==
    /\ node.hasStrong => node.hasWeak
    /\ mgr => node.hasStrong
    /\ prc[Server] = "erased" => ~node.tree

\* A process with a thread at work on an object lives, the server sends its node
\* to others only, from a thread that is named, and the receiver of a buffer lives
\* as long as it has it.
HandsShape ==
    \A x \in Parcels : LET m == parcel[x] IN
      /\ m.by # None => prc[m.by] = "open"
      /\ m.st \notin {"idle", "held"} => m.by # None
      /\ m.st = "looked" /\ m.by = Server => m.th # None /\ m.to # Server
      /\ m.st = "held" => prc[m.to] = "open"

\* Every object in a buffer has its count on the receiver's ref, and an object
\* that is looked up leans on a count that its sender has been given.
Lending ==
    ~careless =>
      /\ \A p \in Procs : prc[p] = "open" =>
           ref[p].strong >= Lent(p, TRUE) /\ ref[p].weak >= Lent(p, FALSE)
      /\ \A x \in Parcels : LET m == parcel[x] IN
           m.st = "looked" /\ m.by \in Clients =>
             Held(m.by, TRUE) + (IF m.strong THEN 0 ELSE Held(m.by, FALSE)) > 0

LInv == NewsShape /\ HandsShape /\ Lending /\ FreedWhenUnused /\ ServerKnows

\* A node without a process is freed with its last user: local_strong_refs are
\* "strong user refs from local process" (binder.c:325), which is gone.
DeadNodeHasNoLocalRefs ==
    node.exists /\ ~node.proc => node.localStrong = 0 /\ node.localWeak = 0
=============================================================================
