---------------------------- MODULE BinderAlloc ----------------------------
(***************************************************************************)
(* The buffer allocator of one binder process: the address space of the    *)
(* mmap, cut into free and allocated buffers, and the pages behind it.     *)
(*                                                                         *)
(* Neighbouring buffers may share a page.  A page is taken off the LRU or  *)
(* allocated when a buffer needs it and put on the LRU when no buffer does;*)
(* the shrinker takes pages from the LRU.  alloc->mutex makes one action   *)
(* of each operation; the mmap going away and the shrinker come in between.*)
(*                                                                         *)
(* Source: src/docker/android-4.4-p-binder/binder_alloc.c.                 *)
(***************************************************************************)
EXTENDS BufferSize, FiniteSetsExt

CONSTANTS
    PageSize,      \* PAGE_SIZE
    NPages,        \* pages of the mmap
    Hdr,           \* sizeof(struct binder_buffer)
    Requests,      \* the sizes senders ask for in synchronous transactions
    AsyncRequests  \* and in one-way transactions

ASSUME PageAssumption ==
    /\ PageSize \in Nat \ {0} /\ PageSize % Word = 0
    /\ NPages \in Nat \ {0}
    /\ PageSize * NPages < Limit
ASSUME RequestAssumption ==
    Requests \union AsyncRequests \subseteq Request /\ Hdr \in SizeT

VARIABLES
    mapped,     \* binder_alloc_mmap_handler has run: alloc->buffer # NULL
    vma,        \* alloc->vma # NULL
    mmUsers,    \* alloc->vma_vm_mm->mm_users # 0
    released,   \* binder_alloc_deferred_release has run
    state,      \* a |-> what the binder_buffer whose data is at a is
    request,    \* a |-> its data_size, offsets_size and extra_buffers_size
    async,      \* a |-> its async_transaction
    pages,      \* p |-> the page alloc->pages[p]
    asyncFree   \* alloc->free_async_space

mapVars == <<mapped, vma, mmUsers, released>>
bufVars == <<state, request, async>>
vars == <<mapVars, bufVars, pages, asyncFree>>

Space == PageSize * NPages          \* alloc->buffer_size
Addrs == {a \in 0 .. Space - 1 : a % Word = 0}
PageIdx == 0 .. NPages - 1

\* "kernel": allocated, allow_user_free = 0.  "user": allow_user_free = 1.
\* "freeing": between prepare_to_free and free_buf.  "none": no buffer starts
\* here.
BufferStates == {"none", "free", "kernel", "user", "freeing"}
Allocated == {"kernel", "user", "freeing"}

\* "none": page_ptr = NULL.  "warned" is what a WARN_ON of
\* binder_update_page_range leaves: a page put on the LRU twice, or not found
\* there.
PageStates == {"none", "active", "lru", "warned"}

NoRequest == [data |-> 0, offsets |-> 0, extra |-> 0]

Init ==
    /\ mapped = FALSE /\ vma = FALSE /\ mmUsers = TRUE /\ released = FALSE
    /\ state = [a \in Addrs |-> "none"]
    /\ request = [a \in Addrs |-> NoRequest]
    /\ async = [a \in Addrs |-> FALSE]
    /\ pages = [p \in PageIdx |-> "none"]
    /\ asyncFree = 0

-----------------------------------------------------------------------------
(* The list of buffers, in the order of their addresses. *)

Starts == {a \in Addrs : state[a] # "none"}

\* Where the buffer at a ends: the next one of S, or the end of the mapping.
EndIn(S, a) == Min({b \in S : b > a} \union {Space})
SizeAt(a) == EndIn(Starts, a) - a

FloorPage(x) == x - (x % PageSize)
CeilPage(x) == FloorPage(x + PageSize - 1)

\* The whole pages between two page-aligned addresses.
PageRange(from, to) ==
    {p \in PageIdx : from <= p * PageSize /\ p * PageSize < to}

\* binder_update_page_range, allocate = 1: each page comes off the LRU, or is
\* allocated and mapped.
TakePages(R) ==
    [p \in PageIdx |->
        IF p \notin R THEN pages[p]
        ELSE IF pages[p] = "active" THEN "warned" ELSE "active"]

\* binder_update_page_range, allocate = 0, for each of three disjoint ranges.
PutPages(R1, R2, R3) ==
    [p \in PageIdx |->
        IF p \notin R1 \union R2 \union R3 THEN pages[p]
        ELSE IF \/ pages[p] # "active"
                \/ p \in (R1 \cap R2) \union (R1 \cap R3) \union (R2 \cap R3)
             THEN "warned" ELSE "lru"]

Missing(R) == {p \in R : pages[p] = "none"}

-----------------------------------------------------------------------------
(* The mapping. *)

MmapHandler ==
    /\ ~mapped /\ ~released /\ mmUsers
    /\ mapped' = TRUE /\ vma' = TRUE
    /\ state' = [state EXCEPT ![0] = "free"]
    /\ asyncFree' = Space \div 2
    /\ UNCHANGED <<mmUsers, released, request, async, pages>>

\* The last user of the address space is gone; exit_mmap closes the vma
\* later, as munmap may at any time.
MmExit ==
    /\ mmUsers /\ mmUsers' = FALSE
    /\ UNCHANGED <<mapped, vma, released, bufVars, pages, asyncFree>>

VmaClose ==
    /\ vma /\ vma' = FALSE
    /\ UNCHANGED <<mapped, mmUsers, released, bufVars, pages, asyncFree>>

-----------------------------------------------------------------------------
(* Allocation: binder_alloc_new_buf_locked. *)

\* Mutant of Padded: a 0-size buffer has no address of its own.
PaddedNot(r) == TotalSize(r)

\* 0-size buffers are padded so that they get addresses of their own.
Padded(r) == Max({TotalSize(r), Word})

\* Mutant of Admitted: the binder_buffer is not counted.
AdmittedBare(r, isAsync) ==
    vma /\ ValidSize(r) /\ (isAsync => asyncFree >= TotalSize(r))

\* What is checked before a free buffer is looked for.
Admitted(r, isAsync) ==
    /\ vma
    /\ ValidSize(r)
    /\ isAsync => asyncFree >= (TotalSize(r) + Hdr) % Limit

\* The search of the tree finds a smallest free buffer that fits; which one
\* of several depends on the shape of the tree.
BestFit(size) ==
    LET fits == {a \in Starts : state[a] = "free" /\ SizeAt(a) >= size}
    IN  {a \in fits : \A b \in fits : SizeAt(a) <= SizeAt(b)}

\* The pages the buffer does not share with the buffer before it, nor with
\* the buffer after the free one it is cut from.
PagesFor(a, size) ==
    PageRange(CeilPage(a), Min({CeilPage(a + size), FloorPage(a + SizeAt(a))}))

\* A missing page needs the mm to be alive.
PagesReachable(R) == Missing(R) = {} \/ mmUsers

\* The rest of a free buffer that is larger than needed becomes a free buffer.
NewBuf(r, isAsync) ==
    LET size == Padded(r) IN
    /\ Admitted(r, isAsync)
    /\ \E a \in BestFit(size) :
         /\ PagesReachable(PagesFor(a, size))
         /\ pages' = TakePages(PagesFor(a, size))
         /\ state' = [b \in Addrs |->
              CASE b = a -> "kernel"
                [] b = a + size /\ size # SizeAt(a) -> "free"
                [] OTHER -> state[b]]
         /\ request' = [request EXCEPT ![a] = r]
         /\ async' = [async EXCEPT ![a] = isAsync]
    /\ asyncFree' = IF isAsync THEN (asyncFree - (size + Hdr)) % Limit
                    ELSE asyncFree
    /\ UNCHANGED mapVars

\* A page cannot be allocated or mapped: those taken before it go to the LRU.
NewBufNoPage(r, isAsync) ==
    /\ Admitted(r, isAsync) /\ mmUsers
    /\ \E a \in BestFit(Padded(r)) :
         LET R == PagesFor(a, Padded(r)) IN
         \E p \in Missing(R) :
           pages' = [q \in PageIdx |-> IF q \in R /\ q < p THEN "lru" ELSE pages[q]]
    /\ UNCHANGED <<mapVars, bufVars, asyncFree>>

\* No binder_buffer for the rest: all the pages taken go to the LRU.
NewBufNoStruct(r, isAsync) ==
    /\ Admitted(r, isAsync)
    /\ \E a \in BestFit(Padded(r)) :
         LET R == PagesFor(a, Padded(r)) IN
         /\ Padded(r) # SizeAt(a)
         /\ PagesReachable(R)
         /\ pages' = [q \in PageIdx |-> IF q \in R THEN "lru" ELSE pages[q]]
    /\ UNCHANGED <<mapVars, bufVars, asyncFree>>

-----------------------------------------------------------------------------
(* A buffer's way back. *)

\* binder_thread_read hands the buffer to the user.
AllowUserFree(a) ==
    /\ state[a] = "kernel"
    /\ state' = [state EXCEPT ![a] = "user"]
    /\ UNCHANGED <<mapVars, request, async, pages, asyncFree>>

\* binder_alloc_prepare_to_free: of two threads that free one buffer, one
\* finds allow_user_free cleared.
PrepareToFree(a) ==
    /\ state[a] = "user"
    /\ state' = [state EXCEPT ![a] = "freeing"]
    /\ UNCHANGED <<mapVars, request, async, pages, asyncFree>>

\* Mutant of LastPage: the buffer after it is not looked at.
LastPageBefore(S, b) ==
    LET prev == Max({x \in S : x < b})
    IN  IF FloorPage(prev - 1) = FloorPage(b) \/ b % PageSize = 0
        THEN {} ELSE {b \div PageSize}

\* binder_delete_free_buffer: the page at the start of the free buffer b,
\* when neither the buffer before the one it is merged into nor the one after
\* it is in that page, and b does not start it.  S is the list b is on.
LastPage(S, b) ==
    LET prev == Max({x \in S : x < b})
        next == EndIn(S, b)
    IN  IF \/ FloorPage(prev - 1) = FloorPage(b)
           \/ next # Space /\ FloorPage(next) = FloorPage(b)
           \/ b % PageSize = 0
        THEN {} ELSE {b \div PageSize}

MergesNext(a) ==
    LET next == EndIn(Starts, a) IN next # Space /\ state[next] = "free"

\* Mutant of MergesPrev: only the next buffer is merged.
MergesPrevNever(a) == FALSE

MergesPrev(a) ==
    LET before == {b \in Starts : b < a}
    IN  before # {} /\ state[Max(before)] = "free"

\* The space given back is computed from the three sizes again.
Refund(a) == (asyncFree + TotalSize(request[a]) + Hdr) % Limit

\* binder_free_buf_locked: the whole pages of the buffer and the last page of
\* each entry that goes off the list are put on the LRU, and the buffer and
\* its free neighbours become one free buffer.
FreeBuf(a) ==
    LET next == EndIn(Starts, a)
        list == IF MergesNext(a) THEN Starts \ {next} ELSE Starts
    IN  /\ state[a] \in {"kernel", "freeing"}
        /\ pages' = PutPages(PageRange(CeilPage(a), FloorPage(next)),
                             IF MergesNext(a) THEN LastPage(Starts, next) ELSE {},
                             IF MergesPrev(a) THEN LastPage(list, a) ELSE {})
        /\ state' = [b \in Addrs |->
             CASE b = a -> IF MergesPrev(a) THEN "none" ELSE "free"
               [] b = next /\ MergesNext(a) -> "none"
               [] OTHER -> state[b]]
        /\ request' = [request EXCEPT ![a] = NoRequest]
        /\ async' = [async EXCEPT ![a] = FALSE]
        /\ asyncFree' = IF async[a] THEN Refund(a) ELSE asyncFree
        /\ UNCHANGED mapVars

-----------------------------------------------------------------------------
(* Memory pressure, and the end of the process. *)

\* Mutant of ShrinkPage: any page of the process is taken.
ShrinkPageAny(p) ==
    /\ pages[p] # "none" /\ mmUsers
    /\ pages' = [pages EXCEPT ![p] = "none"]
    /\ UNCHANGED <<mapVars, bufVars, asyncFree>>

\* binder_alloc_free_page: a page on the LRU is unmapped and freed, as long
\* as there is an mm to unmap it from.
ShrinkPage(p) ==
    /\ pages[p] = "lru" /\ mmUsers
    /\ pages' = [pages EXCEPT ![p] = "none"]
    /\ UNCHANGED <<mapVars, bufVars, asyncFree>>

\* binder_alloc_deferred_release, from binder_free_proc: the vma has been
\* closed and no thread is inside the driver.  Every buffer is freed, then
\* the list itself, then every page.
DeferredRelease ==
    /\ ~released /\ ~vma
    /\ \A a \in Addrs : state[a] # "freeing"
    /\ released' = TRUE
    /\ state' = [a \in Addrs |-> "none"]
    /\ request' = [a \in Addrs |-> NoRequest]
    /\ async' = [a \in Addrs |-> FALSE]
    /\ pages' = [p \in PageIdx |-> "none"]
    /\ asyncFree' = (asyncFree + MapThenSumSet(
         LAMBDA a : TotalSize(request[a]) + Hdr, {a \in Addrs : async[a]})) % Limit
    /\ UNCHANGED <<mapped, vma, mmUsers>>

-----------------------------------------------------------------------------
Next ==
    \/ MmapHandler \/ MmExit \/ VmaClose \/ DeferredRelease
    \/ \E r \in Requests \union AsyncRequests, isAsync \in BOOLEAN :
         /\ r \in IF isAsync THEN AsyncRequests ELSE Requests
         /\ \/ NewBuf(r, isAsync)
            \/ NewBufNoPage(r, isAsync)
            \/ NewBufNoStruct(r, isAsync)
    \/ \E a \in Addrs : AllowUserFree(a) \/ PrepareToFree(a) \/ FreeBuf(a)
    \/ \E p \in PageIdx : ShrinkPage(p)

Spec == Init /\ [][Next]_vars

-----------------------------------------------------------------------------
(* Properties. *)

TypeOK ==
    /\ mapped \in BOOLEAN /\ vma \in BOOLEAN
    /\ mmUsers \in BOOLEAN /\ released \in BOOLEAN
    /\ state \in [Addrs -> BufferStates]
    /\ request \in [Addrs -> Requests \union AsyncRequests \union {NoRequest}]
    /\ async \in [Addrs -> BOOLEAN]
    /\ pages \in [PageIdx -> PageStates]
    /\ asyncFree \in SizeT

InUse(a) == state[a] \in Allocated

\* The pages that bytes of the buffer at a are in.
PagesOf(a) == PageRange(FloorPage(a), a + SizeAt(a))

\* A page is there, and off the LRU where the shrinker would take it, exactly
\* when some allocated buffer has bytes in it: no buffer ever loses a page it
\* shares with a buffer that is freed, and no page is kept for nobody.  On the
\* way a page that is taken is on the LRU or missing, and one that is put is not
\* on the LRU yet (the WARN_ONs of binder_update_page_range).
PagesFollowBuffers ==
    \A p \in PageIdx :
      /\ pages[p] = "active" <=> \E a \in Addrs : InUse(a) /\ p \in PagesOf(a)
      /\ pages[p] # "warned"

\* No two free buffers are neighbours, and the list starts at the start of the
\* space: what is freed is one free buffer again, and when nothing is
\* allocated the whole space is (the WARN_ON_ONCE of deferred_release).
Coalesced ==
    /\ mapped /\ ~released => state[0] # "none"
    /\ \A a \in Starts : state[a] = "free" =>
         LET next == EndIn(Starts, a) IN next # Space => InUse(next)

\* An allocated buffer is as large as its three sizes say (the BUG_ON of
\* binder_free_buf_locked), and never empty.
SizeMatchesRequest ==
    \A a \in Addrs : InUse(a) => SizeAt(a) = Padded(request[a])

\* While a buffer stays allocated it stays where it is, as large as it is, and
\* its pages stay there, whatever is allocated, freed or shrunk around it.
BufferUndisturbed ==
    [][\A a \in Addrs :
         InUse(a) /\ InUse(a)' =>
           /\ SizeAt(a)' = SizeAt(a) /\ UNCHANGED <<request[a], async[a]>>
           /\ \A p \in PagesOf(a) : pages'[p] = "active"]_vars

AsyncBuffers == {a \in Addrs : InUse(a) /\ async[a]}

\* What the async buffers take and what is left of their space add up to half
\* of the mapping.
AsyncSpaceAddsUp ==
    mapped /\ ~released =>
      asyncFree + MapThenSumSet(LAMBDA a : SizeAt(a) + Hdr, AsyncBuffers)
        = Space \div 2

\* "VA space available for async buffers", "1/2 the full VA space": async
\* buffers never get more than the half.
AsyncWithinHalf ==
    MapThenSumSet(LAMBDA a : SizeAt(a) + Hdr, AsyncBuffers) <= Space \div 2
=============================================================================
