# A TLA+ model of headless-testing

The repository runs Android without a screen: an Android binder driver patched
to build on a Synology NAS kernel, containers and scripts that start the
emulator, a backend that drives it through `adb`, a web page, and a helper app
that feeds mock locations. Nearly all of the state and all of the concurrency
are in the binder driver (`src/docker/android-4.4-p-binder`), which is the core
of this project; the backend is a set of request handlers over child processes
and sockets. Paths below are relative to `src/`; `binder.c`, `binder_alloc.c`
and `binder_alloc.h` are the files in `docker/android-4.4-p-binder`.

## 1. Inventory

### Binder driver

Objects: a *process* (`binder_proc`, one per open file) has *threads*
(`binder_thread`), *nodes* (`binder_node`, the objects it serves), *refs*
(`binder_ref`, its handles on nodes of others) and an allocator. A
*transaction* carries a *buffer* in the receiver's address space. Locks, from
the outside in: `proc->outer_lock` (refs), `node->lock`, `proc->inner_lock`
(threads, work lists, nodes); `t->lock` guards the two ends of a transaction and
`alloc->mutex` the buffers. Everything that follows is a matter of what may
happen between two of those locks.

| part | state | operations | what makes it correct |
|---|---|---|---|
| one-way transactions | `node->has_async_transaction`, `async_todo`, `proc->todo`, `thread->todo`, `waiting_threads` | `binder_transaction`, `binder_proc_transaction`, `binder_thread_read`, `BC_FREE_BUFFER` | one at a time per node, in order, none lost while the process lives, a wake-up for each |
| allocator | list and trees of buffers, `pages`, LRU, `free_async_space` | `new_buf`, `prepare_to_free`, `free_buf`, mmap, shrinker, release | buffers have their pages, do not overlap, are merged again; async space adds up; sizes do not wrap |
| synchronous transactions | `thread->transaction_stack`, `t->from`, `from_parent`, `to_thread`, `to_parent`, `need_reply` | call, nested call, reply, failed reply, thread and process release | every caller gets exactly one answer; stacks are consistent on both sides |
| nodes and refs | strong, weak, local and temporary counts, `has_*`/`pending_*` flags, descriptors | `BC_INCREFS`..`BC_DECREFS`, `BC_*_DONE`, translation of objects | a node lives exactly as long as somebody refers to it; counts never go below 0 |
| death notifications | `ref->death`, work types, `delivered_death` | request, clear, done, node release | a death is reported once; a cleared one is acknowledged once |
| looper threads | `looper` flags, `requested_threads`, `requested_threads_started` | register, enter, exit, spawn | never more than `max_threads` threads are asked for |
| lifecycle | `is_dead`, `tmp_ref`, deferred work list | open, mmap, flush, release, thread exit | a dead process or thread is freed once and only when unused |
| object translation | fix-ups, offsets, fd tables | `binder_transaction`, `binder_transaction_buffer_release` | references taken by a transaction are dropped with its buffer |
| priorities | `saved_priority`, node minimum | hand-over and reply | a thread's priority is restored |
| printing, statistics, trace | counters | debugfs | (no property) |

The parts interact through shared objects under locks: a sender runs in its own
thread and reaches into the receiver's node, lists and allocator; a reader takes
work off lists it shares with other threads; freeing a buffer starts the next
one-way transaction; death of a process goes through all of them.

Hard behaviours: senders, readers, freeing threads, exiting threads and the
release worker interleave between locks; a process or thread dies in the middle
of anything; a copy to or from user space faults half way; memory runs out half
way; threads sleep and must be woken; sizes come from user space.

### Backend, page, helper, scripts

| part | state | operations | what makes it correct |
|---|---|---|---|
| `backend/lib/adb.js`, `device.js` | one child per command, a timer | run, time out, wait for boot, become root | each command settles once; a late answer after a time-out changes nothing |
| `backend/lib/emu.js` | what was received, sent auth and command flags | data chunks, error, close, time-out | the answer reported is the answer to the command |
| `backend/lib/location.js` | -- | set a location, allow mock locations | a location reported as set was set |
| `backend/routes/scope.js`, page's apply | LSPosed database, device boot state | add, remove, enable, apply (reboot, poll, grant) | after an apply the app-op is granted in the new boot |
| `backend/routes/logcat.js` | a child and a response | chunks, either end closing | the text of the log arrives in order, none of it lost or doubled, and the child does not outlive the request |
| other routes, server, page, helper, scripts | none between requests | one command each | -- |

`PROJECT.json` lists every component with its state in the project and every
hazard with the line where it bites.

## 2. Plan

In order of importance; done parts are described in sections 3 to 6.

1. **BinderOneway** (done): the one-way gate with senders, readers, frees and
   the death of the process; abstract **OnewayQueue** (done), which it
   implements; proofs in **BinderOnewayProofs**, the refinement among
   them (done).
2. **BufferSize**, **BinderAlloc** (done): size computation and allocator;
   proofs of both in the first part of **BinderBuffersProofs** (done).
   **BinderObjects** (done): what a transaction puts into its buffer and into the
   receiver's table of files; **BinderBuffers** puts the two side by side; proofs in
   the second part of **BinderBuffersProofs** (done).
3. **BinderCall** (done): calls, nested calls, replies, failed replies, both
   sides dying; abstract **CallStacks** (done), which it implements; proofs in
   **BinderCallProofs** (done): the stacks, and that no transaction is lost; and in
   **BinderCallRefsProofs** (done): the temporary references on threads and processes;
   and in **BinderCallStacksProofs** (done): the refinement.
4. **BinderNodeRef** (done): the counts of a node, its refs, and what its server
   is told; proofs in **BinderNodeRefProofs** (done): counts are what the refs
   and holders say, and what that means for the life of a node and of a handle.
5. **BinderPool** (done): the threads of a process, their sleep, wake-ups and
   spawning; **BinderDeath** (done), which composes it with death notifications
   as the work of the process; proofs of all their properties in
   **BinderDeathProofs** (done).
6. Backend: **EmuConsole**, **AdbCommand**, **ScopeApply** (which runs over
   AdbCommand), **LogcatStream**; **Backend** puts them side by side;
   proofs of the properties of all three in **BackendProofs** (done).
7. Left out for its size: one composition of all of the driver. The parts meet where one
   promises what another assumes: `NewAsyncBuf` may fail whenever BinderAlloc's
   `NewBuf` does, an allocated buffer is undisturbed, and a node lives while a sender
   holds it.

## 3. Modules and how they correspond to the code

One action is one section the code runs under a lock (or between two locks);
state is named after the C fields. Data that no property distinguishes is left
out: payloads, priorities, statistics, tracing.

**BinderOneway** models one receiving process with its nodes and threads, and
one sender per transaction. `sender[t]` and `pc[th]` are program counters over
those sections:

- sender, `binder_transaction`: `idle` -`GetNodeRefs`-> `refs` -`NewAsyncBuf`->
  `built` -`ProcTransaction`-> `ok` -`DropRefs`-> `sent`; errors go through
  `ReleaseTxnBuf` (`binder_transaction_buffer_release` and
  `binder_alloc_free_buf`) and `err` to `failed`.
- reader, `binder_thread_read`: `user` -`ReadBegin`-> `wait` -`WaitForWork`->
  `asleep` or `loop`; `Wake` and `Interrupted` leave `asleep`; `Dequeue`,
  `ShortBuffer`, `Deliver`, `DeliverFault`; `ReadExit` is the wake-up at the end
  of `binder_ioctl_write_read`. `retry` is the `goto retry` of a thread woken for
  nothing.
- `BC_FREE_BUFFER`: `PrepareToFree`, `OpenGate`, `FreeBuf`.
- `ThreadExit`, `ReleaseProc`, `ReleaseProcThread`, `ThreadsReleased`,
  `ReleaseNode`, `ReleaseTodo`, `ReleaseDone` are `binder_thread_release` and the
  phases of `binder_deferred_release`.

The allocator is reduced to the state of each transaction's buffer and to the
number of async buffers that fit at most; `NewAsyncBuf` may fail below that too, as
a full or fragmented space makes it. `BinderAlloc` is its full model. Senders are
taken to be threads of other processes. A node keeps existing for its senders
(they hold references); its freeing is for BinderNodeRef.

**OnewayQueue** is what a service may rely on: per node, calls are started one
at a time in the order they were accepted, and the next one only after the one
before was given back or the process died. `ImplementsQueue` maps `pending` to
the delivery lists followed by `async_todo`, and `current` to the transaction in
the user's hands.

**BufferSize** is the arithmetic of `binder_alloc_new_buf_locked` in a `size_t`
of `Limit` values with words of `Word` bytes; **BinderAlloc** adds the address
space, the buffers (`state[a]` for the buffer whose data starts at `a`; the
list, the tree of free and the tree of allocated buffers are all derived from
it), the pages and the async space. Requests come from two sets of size triples,
`Requests` for synchronous and `AsyncRequests` for one-way ones. `alloc->mutex`
makes each operation one action. A WARN_ON on a page sets it to `warned`, so that it shows.

**BinderObjects** follows the objects of one transaction. `step` is where it is:
`object` -`TranslatePtr`-> `object`; `object` -`TranslateFd` or `TranslateFdArray`->
`reserve` -`ReserveFd`-> `install` -`InstallFd`-> `reserve` -`FdsDone`-> `object`, with
the section under `files_lock` that each descriptor takes twice; then `Send`, `Give`
and `FreeBuffer` to `release`, where any failure leads too. `mem` is the extra area of
the buffer byte by byte: copied data, an address of object i, a descriptor. The release
reads its descriptors from there. `table` is the receiver's table of files, in which
it opens and closes files of its own at any time; it is taken to close only what it
opened or was given. `closing` are the arguments of the next calls of `task_close_fd`.
**BinderBuffers** lets the allocator or one buffer's contents run: `BufferUndisturbed`
is what makes that enough.

What a reader should know of that code besides: when `BINDER_DEFERRED_PUT_FILES` takes
the table between the two sections, `task_fd_install` (`binder.c:958`) drops nothing and
keeps nothing, and the reference on the file is lost; the descriptors of a transaction
that is dropped unread stay open in the receiver (`binder_free_transaction` does not
release the buffer), which knows nothing of them.

**BinderCall** models synchronous calls between any processes and threads.
`txn[c]` holds the four links of a `binder_transaction` (`from`, `to_thread`,
`from_parent`, `to_parent`), `thr[th]` a `binder_thread` (stack, work list,
`process_todo`, `is_dead`, `tmp_ref`), `prc[p]` a `binder_proc` (list, `is_dead`,
`tmp_ref`, and its node's `proc`). `at[a]` says where a thread, or the worker that
releases a process, is between two locks, with the function's `t`,
`target_thread` and `target_proc`:

- a call, `binder_transaction` with `reply` = 0: `user` -`BeginCall`-> `refs`
  -`FindTarget`-> `target` -`PushCall`-> `queue` -`QueueCall`-> `done` -`EndCall`->
  `user`; `CallFails` and `UndoCall` lead to `err`.
- a reply: `user` -`BeginReply`-> `popped` -`ReplyFrom`-> `from` -`ReplyAcquire`->
  `acquired` -`BuildReply`-> `built` -`QueueReply`-> `replied` -`EndReply`->
  `user`; a reply that cannot be sent goes through `refused`, `unsent` and
  `ReplyFails` to a failed reply.
- `binder_send_failed_reply`, also from a fault at a read and from the release of
  a thread's or a process's list: `fail` -`FailFrom`-> `failfrom` -`FailAcquire`->
  on, or `FailNext` up the chain of callers.
- `binder_thread_read`: `user` -`ReadBegin`-> `wait`, then `ReadThread` or
  `ReadProc`; a call is in `deliver` until `Deliver` or `DeliverFault`.
- `ThreadExit`, `ReleaseProc`, `ReleaseProcThread`, `ReleaseNode`, `ReleaseTodo`,
  `ReleaseWork` are `binder_thread_release` and `binder_deferred_release`.

Abstracted: a process serves one node, and threads do not call their own process
(the driver refuses it); buffers, node counts and priorities; a read returns one
item; a fault while an error code is copied out; the walk of
`binder_thread_release` down a stack is one step, as it holds the inner lock and
the transactions' locks hand over hand; a queued `reply_error` and its `cmd` are
one thing. A freed record loses its links, so that a use of it shows.

**CallStacks** is what a service may rely on: each thread has one stack of calls
made and served; one that waits is given only calls made on behalf of the call
it waits for; a call is served at most once; its caller goes on only when nobody
serves it, nor anything called on its behalf. `StacksRefined` reads the stacks
off the two linked lists (`StackOf`).

**BinderNodeRef** follows one node. `node` is the `binder_node` (counts, flags,
the list its work is on, whether it is in the tree and has a `proc`), `ref[p]` the
`binder_ref` of process p on it, `parcel[x]` a `flat_binder_object` under way,
`call[c]` a transaction to the node, `ack[th]` an answer of a server thread in
progress, `prc[p]` the phase of `binder_deferred_release`, `mgr` the context
manager. One action is one section under `node->lock` and the inner lock:

- `Inc`, `Dec`, `Put` are `binder_inc_node_nilocked`, `binder_dec_node_nilocked`
  and `binder_dec_node_tmpref` with what their callers do on the result.
- an object: `idle` -`SendBinder` or `SendHandle`-> `looked` -`Translate`,
  `TranslateHome`-> `counted` -`PutParcelNode`-> `built` -`Hand`-> `held`
  -`FreeBuffer`-> `undo`; `Fail` and `TranslateNoMem` are the error paths. It is
  undone by `ReleaseHandle` (a HANDLE) or by `ReleaseBinder`, `ReleaseBinderDec`
  and `PutParcelNode` (a BINDER).
- `TakeRef`, `DropRef` are the four reference commands of a client. A ref that loses
  its last count is in `locked` until `FinishDecRef`, as `binder_dec_ref_olocked`
  takes the node's lock a second time.
- a call: `GetNodeRefsForTxn`, `HandCall`, `ReleaseTarget`, `PutTarget`.
- the server: `SetCtxMgr`, `ReadNode` (`BINDER_WORK_NODE`), `Done`, `DoneDec`,
  `DonePut` (`BC_*_DONE`), `ThreadExit`.
- death: `Close`, `EraseNode`, `NodeRelease`, `NodeReleasePut`, `ReleaseRef`,
  `ReleaseDone`.

Abstracted: handle numbers (a ref is named by its process), cookies and checks of
user pointers; an object per parcel; the allocator. `careless` is no state of the
driver: it records that user space gave up a reference one of its own threads or
buffers relied on, or that a thread left with unread news, after which the driver
promises less (`ServerKnows`, `HandleLasts` and the part of `FreedWhenUnused` about
refs are claimed without it).

**BinderPool** is one process and its threads. `pc[th]` is where a thread is:
`out` has no `binder_thread`, `user` is outside the driver;
`ReadBegin`-> `wait` -`WaitForWork`-> `asleep` or `loop` -> `done` -`SpawnLooper`->
`exit` -`ReadExit`-> `user` is `binder_thread_read` with the wake-up at the end of
`binder_ioctl_write_read`; `poll` and `polling` are `binder_poll`. `WakeupProc` is
`binder_wakeup_proc_ilocked`: one thread of `waiting_threads`, or, if there is none,
all that poll. `waiting` is a set, since nothing depends on which thread is chosen.
`place[w]` is the list a work item is on; lists are sets too, so that every order of
delivery is covered. What the work is is left to the module that extends this one.
Left out: `BC_EXIT_LOOPER` and the INVALID flag, which nothing reads.

**BinderDeath** gives the work its meaning: a notification `d` is a
`binder_ref_death` with its `binder_work` (`type[d]`), `death[n]` is `ref->death`, and
`told`, `cleared` and `acked` record what passed between the driver and the user.
`RequestDeath`, `ClearDeath`, `DeadBinderDone` are the commands, `TakeClear` and
`TakeDeath` the cases of `binder_thread_read`, `NodeRelease` the death of the node's
process, `CleanupRef` the end of a handle; `Release` to `FreeProc` are the phases of
`binder_deferred_release`, named by `phase`. Left out: an allocation that fails in a
request, which changes nothing.

What a reader should know of the code besides: a flush wakes readers but not those
that sleep in `poll`; `requested_threads_started` never decreases, so that a pool
whose loopers left is not filled again; when the copy of `BR_SPAWN_LOOPER` faults the
looper counts as requested and no other is asked for; the answer to a clear that
waits on a thread's own list goes with the thread.

**EmuConsole** is one `emuCommand`: the words of the stream in both directions, the
flags on the socket, and the events; `Data(n)` receives the next n words, so that the
banner and the answers may come in any number of chunks. **AdbCommand** is `adb()`:
`child[k]` goes `idle`, `running`, `ended`, `settled`; `Timeout` may find the exit
under way. **ScopeApply** runs `POST /apply` and its job over two such children, with
a device that goes down, boots and restarts its `adbd`. **LogcatStream** is one
`/stream` request. What is in its pipe are bytes: a line is a character of one byte, one
of two, and a newline, and `Chunk(n)` reads any n bytes, decodes them by themselves
(`Decoded`, `d.toString()`) and cuts them at the newlines (`Pieces`); a character whole in
its chunk is shown as its bytes. `ends` is a history variable, the places in the text
where chunks ended. What the child writes to stderr is left out: it goes to the response
as events of another type. **Backend** lets one of the three run at a time, as they share no
state. The console, `adb`, the device and `logcat` are external: they answer in any
way and at any time their protocol allows.

What a reader should know of that code besides. `emu.js:45-51` sends the command on
the first OK, though its comment says "Once OK appears twice", and, unless the
banner says "Hello", that same OK at the end of it resolves the promise as a success
before the command is answered; a KO does not make it a failure (`:63`).
`scope.js:134` may read the `sys.boot_completed` of the boot it has just asked to
end, and then grants the app-op there; the page's poll (`web/app.js:294`) can be
fooled in the same way. The job's `adb root` may leave `adbd` unreachable for the
grant after it, whose result is not looked at. A chunk of logcat that ends within a
line makes two events of it, and one that ends within a character of several bytes
damages it: `logcat.js:50` decodes each chunk by itself, so that what either chunk has of
the character becomes U+FFFD (of a character of three or four bytes a chunk may hold more
of it, with as many U+FFFD as the decoder makes of that). `adb.js` has no handler of the child's "error", so that a
missing `adb` ends the backend.

## 4. What the runs check

| run | instance | shows |
|---|---|---|
| `oneway_safety` | 2 nodes, 2 threads, 3 transactions, 3 async buffers any of which may be refused, symmetric; 2 or 1 senders at a time between two nodes | the gate, the lists, wake-ups and the release of the process; the driver implements OnewayQueue |
| `oneway_live` | 1 node, 2 threads, 2 transactions, with fairness | an accepted call is handed over |
| `oneway_stranded` | 1 node, 2 threads, 2 transactions | *violation*: a gate may stay closed with nothing in progress |
| `alloc_buffers` | 2 pages of 3 words, synchronous requests of every kind, one-way ones not empty; 4 objects, room for 3 copies, 3 descriptors | pages follow buffers, merging, sizes, nothing disturbed, async space adds up; fix-ups stay whole, descriptors are given away or closed once |
| `alloc_wrap` | 3 pages of 2 words, empty one-way requests | *violation*: the async space wraps |
| `call_nested` | 3 processes, one of them with two threads to choose from, one the client; up to 3 calls, 4 events, one of the two threads idle in the fourth | stacks, references, who owns a call, use after free and freeing, with nested calls, calls back and deaths |
| `call_ends` | 3 processes of one thread, 2 calls, 3 events, with fairness | the driver implements CallStacks, and every call ends |
| `call_interrupted` | 2 processes of one thread, 3 calls, threads that write before they read | *violation*: a call can be popped off the middle of a stack |
| `node_counts` | a server of 2 threads, 2 symmetric clients, 1 object, 1 call, each client one count of a kind by command | counts are the users, no use after free, freed when unused, the server knows, a handle lasts as long as its buffer |
| `death_pool` | 2 threads, one that enters and one that registers and polls; 1 node, 2 notifications, 1 cookie, a limit of 1 thread | notifications are neither lost, doubled nor leaked; wake-ups, spawning and flushes of the pool |
| `requests` | one console command, one apply with 2 polls and 2 foreign reboots, one log stream of 3 lines, each with fairness | order of authentication and command; a grant that succeeded holds; the log in order, damaged only in a character that a chunk's end cuts in two; every request settles |
| `node_dead` | a server of 1 thread and 1 client | *violation*: a local count goes below 0 when the server dies during a call |

Bounds. Two nodes show that gates do not interfere; two threads are a reader and
another reader, freer or leaver; three transactions put one in progress and two
on `async_todo`, the least that shows order. `SendersBound` lets two senders race for a gate in
every instance, and all three when they send to one node; `NewAsyncBuf` may refuse any of them,
so that a space that is too small needs no run of its own. A page of three words lets buffers start at, end
at and straddle page borders and lie wholly within a page, and two pages have
an inner border with both outer ends; `Limit` (128 in `alloc_buffers`, 64 in
`alloc_wrap`) is above the mapping and small enough for a wrapping request. Four objects are a buffer, one in it, one in that,
and a fix-up back in the first, which `binder_validate_fixup` finds by walking up; an
area for three copies is full then; a copy has room for one or two fix-ups, at
offsets that touch and overlap; two descriptors let an array fail in its middle, and a
third be closed and opened again meanwhile (`MaxOwn` bounds what the target opens).
Three calls are the least with which a chain
passes a third process before it comes back to a thread that waits two calls up,
and with which the two links of a call differ below it; two calls
already give a dead server whose own call is still served. `MaxCalls` bounds the
calls ever made, `MaxEvents` the calls and the departures together (a call or a
departure under way counts), so that long chains are checked with few deaths and
short ones with many; `PoolBound` keeps one thread of the pool out of the fourth of
these events. `Clients` are the threads that call out of the blue. `Blocking` says that threads use the driver as a blocking call:
what is on their list, and the answer to a call, is read before the next command,
and a thread with a call to answer does not wait for other work. Without it
(`call_interrupted`) a thread may write after any interrupted wait. For a node, two
clients are the least that send a handle on and race for its last reference; two
server threads let an announcement be answered twice and move work between lists;
one object is alive in every phase while commands and calls change the counts around
it. `MaxCount` bounds what a client takes by command (what objects give it comes on
top), so that the passage to and from 0, where the node is involved, is reached in
every order. `MaxLeft` bounds the local counts that handles coming home leave on a
node that is already out of the tree. Two notifications let one be requested while
the last one of the same handle is still being cleared or read, and stand on both
lists; two threads are a reader and one that polls, exits or asks. Two polls let a
job be fooled and then time out, two foreign reboots lie on both sides of the grant;
three lines of four bytes are cut anywhere, in a line and in a character,
so that a chunk has parts of up to three lines and a line comes in up to four chunks. Deadlock is not checked in these runs: all
transactions sent and the process released is a legitimate end, and so is a
released allocator.

Fairness (`oneway_live`). A thread inside the driver makes progress, because
the scheduler runs it and the spinlocks are held briefly (WF). A thread of the
service goes on reading, which is what a looper does. `Dequeue` has strong
fairness: a read buffer that is too short may put off a delivery but not
forever, as a service sets its buffer size once. Freeing is not assumed by
fairness; it is the antecedent `UsersFree`, which is what a service does after a
one-way call. Nothing is assumed of exits, deaths or faults.

Fairness (`call_ends`). Threads inside the driver and the worker
that releases processes make progress (WF). Of user space: a thread with nothing
to answer goes to read (WF on `Waits`) and its reads are not interrupted for ever
(SF on `Reads`); one with a call to answer answers it (SF, as it may read and call
in between); a process all of whose threads have left ends (WF). The last three
are what a service owes its callers; without any of them a call may well hang.
With several clients, processes with one thread each may call each other at the
same time and wait for ever, so this run has one client.

Fairness (`requests`). Node's timers fire (WF on `TimesOut` and `Timeout`). A child
that was killed, or that exited, is reported by "close" (WF on `Close`): its pipes are
taken to end with it. `logcat` ends when it is told to, and its output is read to the
end. Nothing is assumed of the console, the device or an `adb` that was not killed.

Findings, each shown by a violation run:

- `oneway_stranded`: a one-way transaction lost between the list and the reader
  (a fault at `binder.c:4365`, or its thread leaving) leaves the gate of its node
  closed for good: no buffer can be freed any more to open it.
- `call_interrupted`: a thread chosen for a call may, if a signal ends its wait,
  make a call of its own before it reads that one (`binder.c:3037-3070` looks at its
  stack, not at its list). The call it then reads lies on top of its own; when its
  own fails first, `BUG_ON(target_thread->transaction_stack != t)` (`:1987`) fires.
- `node_dead`: `binder_node_release` clears the local counts (`binder.c:5139-5141`)
  while a sender between `binder_get_node_refs_for_txn` and `binder_proc_transaction`
  still holds one; its error path gives it back (`:2362`), the count is -1, and a
  node whose count is not 0 is never freed.
- `alloc_wrap`: an empty one-way transaction is padded to a word
  when its space is taken (`binder_alloc.c:381,479`) but not when it is admitted
  (`:373`) nor when it is given back (`:586`): a word of async space leaks, and
  at exactly one header left the counter wraps.

## 5. What is proved

`BinderOnewayProofs` proves, for any finite sets of threads and transactions,
any set of nodes and any async space, that `TypeOK`, `OneInProgress`,
`GateClosed`, `TxnOnOneList` and `ThreadListed` are invariants. None is inductive
alone. That a sender may put a transaction on a list needs that it is not on
one (`Located`: what is listed was accepted and still has its kernel buffer);
that opening the gate starts nobody's second transaction needs that whoever
stands at the gate holds the only transaction in progress and that its buffer is
in one thread's hands (`Located`, `OneInProgress`); that no thread opens the gate
of a node without a process needs the phases of the release (`Phases`). `IInv` is
their conjunction. Each action has a lemma; lists are handled by a few lemmas on
appending to, taking from and removing from injective sequences.

The module goes on from that invariant. `NoLostWakeup` needs that a
thread listed as waiting sleeps, that one which comes out of its wait looks at the
lists again, and that a thread never waits for the process's work over work of its
own (`OwnWork`). `GateHasHolder` (as `GatesHaveHolders`): the gate is closed only by a
transaction that is on its way, in a buffer that is not yet free, or stranded.
`BufferOutlivesTransaction` (`BuffersLast`) rests on the async space being what the
buffers in use leave (`SpaceAddsUp`), counted one buffer at a time. `FreedWhenDone`
(`FreedByTheLast`): `tmp_ref` is the number of senders between finding and dropping the
process, so that the last of them, or the release, frees it, once and empty.

It proves at the end that the driver implements OnewayQueue
(`DriverImplementsQueue`). The mapping reads `current` off the one transaction that
holds a gate (`OneHeld`) and `pending` off the lists in the order of delivery; a
thread's own list never holds more than one transaction (`OneOwn`), so that its exit loses at
most one call. Each action accepts a call, starts one, gives one back, ends the
process, or leaves the abstract state as it is.

`BinderBuffersProofs` first proves `EveryRequestIsExact` for every width of `size_t` that
the word size divides: the two tests refuse exactly the sums that wrap. The
argument takes the additions one at a time: a sum of two terms below the limit
wraps at most once, and then it is smaller than either term, so a test that
compares it with one of them sees it; the alignment wraps only to 0.

It then proves `PagesFollowBuffers`, `Coalesced`, `SizeMatchesRequest` and
`BufferUndisturbed` of BinderAlloc for any page size that the word divides, any number
of pages and any requests. `IInv` is the conjunction of the first three, the types and
`ListShape` (no buffers without a mapping); none of the three is inductive alone.
A buffer ends where the next one starts, so allocating cuts one buffer in two and
freeing removes one or two starts from the list: `NewBufList` and `FreeBufList` say
which ends that changes (`EndUnique`, `PrevProps`: the ends are minima of finite sets
of addresses, which exist because inclusion of finite sets is well founded). A page
is then a question of four comparisons (`Touches`). Allocating: the pages that
`PagesFor` leaves out are those that the buffer before or after is in, which is
allocated because the buffer being cut is free and `Coalesced` (`NewBufPages`).
Freeing: the whole pages and the last pages that `binder_delete_free_buffer` gives
back are disjoint and together the pages only this buffer is in (`LastPageIs`,
`OthersIn`, `FreeBufPages`), again because whatever is beyond a free neighbour is
allocated. `BufferUndisturbed` follows from the invariant before and after the step:
the request of a buffer that stays allocated does not change (`RequestStays`), the
size follows from the request, and the pages from the size.

`AsyncSpaceAddsUp` is `AsyncSpaceIsAccounted`. The sum over the async buffers is the fold
of `MapThenSumSet`, a recursive function over subsets of whose value for a larger set
the prover knows nothing by itself; that there is such a function, only one, and that it
does not depend on the element taken out first is shown by a smallest set for which it
fails (`SmallestSet`, `AddsUnique`, `AddsExists`, `SumWithout`). `SpaceInv` then adds two
parts to `IInv`: `Adding`, the sum, and `AsyncAsked`, that an async buffer's request is
one of the one-way ones. Allocating charges the padded size that was computed before the
check, freeing refunds the sum of the three sizes the buffer notes: they are the same
number, and neither subtraction nor addition wraps. There are two hypotheses. A mapping
and a buffer's head are together below the range of `size_t` (`ShortMapping`;
`binder_mmap` cuts a mapping off at 4 MB, `binder.c:4979-4980`). No one-way request is
empty (`NoneEmpty`): for one that is the check is made with 0 bytes and the charge with
a word, and the run `alloc_wrap` shows what then happens. `AsyncHasHalf` proves
`AsyncWithinHalf`, the property that run refutes, from the same hypotheses: empty
requests are the only way to get there.

The second part of `BinderBuffersProofs` proves `FixupsStay` and `FdsAccounted` for any area, any sizes of
a word and of a descriptor, any offsets, lengths and numbers of descriptors a sender may
choose, and any number of objects. The first is the question whether
`binder_validate_fixup`, which looks only at the last object fixed up and at those above
it, sees enough. `Above(os, x)` is the least set with x that is closed under parents;
that the model's walk up the parents, a recursive function, finds just that set is shown
by a least counterexample (`UpwardIs`). `BufferInv` then has three parts: `Laid`, the
copies lie one behind the other and every object lies inside its parent; `Ordered`, in
the last object nothing lies behind `lastMin`, and in those above it nothing lies behind
the pointer by which the walk left them; `Kept`, what was written is whole. A fix-up that
the walk lets through lies behind everything in its parent (`ValidIsFresh`), so that it
overwrites nothing, and afterwards `Ordered` holds for the new last object. An array of
descriptors is written one at a time, in the middle of which `Underway` says how much of
it is whole. `FdsAccounted` needs the first, because the release reads its descriptors
from the buffer. `FdInv` adds that the places where the driver notes a descriptor (of an
object not yet released, of the array under translation, of the closing in progress)
and the descriptors marked "sent" in the table are in bijection (`Accounted`), and that
only the descriptor being installed is reserved (`Reserving`).

`BinderNodeRefProofs` proves `TypeOK`, `NoUseAfterFree`, `InternalCounts` and
`LocalCounts` of BinderNodeRef for any finite sets of clients, threads, objects and
calls and any bounds. They depend on each other: that freeing a node strands nobody
needs `tmp` to be the number of holders and the ref list to be complete; that a ref
cleaned up gives its strong count back once needs that a ref whose process is in
`locked` has none left (`RefShape`); that a BINDER given back was counted needs that
an object is local only at the server (`ParcelShape`); that an answer gives back a
count that is there needs that a server that lives was told of what it has yet to
answer (`ServerShape`). `IInv` is the conjunction. The proof has three layers: what
changing one entry of a function does to the cardinalities (`CountedUpdate` and the
`*Step` lemmas on it), what each operation does to a node whose counts are right
(`DecSound`, `IncSound`, `PutSound`, `ToldSound`), and one lemma per action that puts
them together. While the server is being released nothing is claimed of the local
counts, since `node_dead` shows they go wrong.

The second part of `BinderNodeRefProofs` goes on from there to `FreedWhenUnused`, `ServerKnows` and
`HandleLasts`; `LInv`, which adds `NewsShape`, `HandsShape` and `Lending` to them, is
inductive together with `IInv`. Why `Lending` is needed: a handle that a process was
given in a buffer lasts as long as the buffer because the object's count is part of the
ref's, and a sender that passes the handle on leans on a count it was given itself; the
ref's count is thus at least the number of objects in buffers of its process. A client
that gives back more than it took breaks that, which is what `careless` records.
`ServerKnows` needs that news of a strong reference supersedes news of a weak one and
that an answer under way accounts for the flag it will clear (`NewsShape`).

`BinderDeathProofs` proves every property of `death_pool`, for any finite set of
threads, any nodes, notifications and cookies, and any limits. `IInv` falls into three
parts. *The threads*: `NoLostWakeup` needs `ThreadShape`, that whoever is on
`waiting_threads` sleeps and waits for work of the process, that a thread comes out of
its wait for a reason (else "no data added" would put it to sleep over work it may
not take) and that one about to sleep in poll has decided to look at the process's
list. *The notifications*: `DeathsAccounted`, `NoDeathMissed` and `ToldOnce` need
`DeathShape`, what the place of a notification says of its type and of what the user
was told, and `AliveIsQuiet`, that a notification a ref points to has been queued
exactly when its node is dead; the type of one on no list says whether the user was
told. *The phases* of the release. The steps of the pool leave the notifications
alone (`QuietDeaths`); those of the notifications move one item, and `MoveKeeps`,
`WakeupKeeps` and `QuietKeeps` say when that keeps the threads' part.

`BinderCallProofs` proves `StacksSound`, `PopsTop` and `TransactionOwned` of BinderCall,
for any finite sets of processes and threads and any bounds. Its theorems have the
hypothesis `Blocking`, that threads use the driver as the blocking call libbinder makes
of it: one whose wait was interrupted may make a call before it reads the one it was
chosen for, and its own is then not on top when it fails (`call_interrupted`). `Sound`, which is inductive, has four parts. `Core` is
about the links: a call is numbered when it is made, and every link leads to a
smaller number (`Falling`), so chains end; a call has at most one call that was made
while serving it and not yet answered (`Kids`); the stack of a living thread is the
calls it made or serves, by falling number (`Stacked`), although each thread's stack
is linked by two fields of shared objects; and a thread that serves a call on top of
another does so on behalf of that one (`Behalf`, the case of a call back to a thread
that waits). From these, that a caller finds its call on top when the answer comes:
what lies above would have been made on behalf of that call, and who answers it is
done with all of those. `Apart`: a transaction is in one hand or on one list. `Tidied`
and `FitsAt`: what the place of a thread in the code says of the call in its hands;
that the steps of others do not disturb it (`Calm`) is what most of the proof is
about, since a dying thread cuts links in calls that others have in hand.
`TransactionOwned` follows by descent: an unowned transaction with the largest number
would have been left by its server to a larger one, which is owned.

`BinderCallRefsProofs` proves `NoUseAfterFree`, `FreedWhenUnused` and `TypeOK` of
BinderCall under the same hypothesis. `Referred` is inductive together with `Sound`: a
thread's `tmp_ref` is the number of agents whose `target_thread` it is, and one while it
is released; a process's is the number of agents whose `target_proc` it is, one for each
of its threads that is released but not freed, and one while it is released itself. A
count, its `is_dead` and whether the memory is freed are thus one fact, from which both
properties follow. The crux is `binder_proc_dec_tmpref`, which frees a process only if
`proc->threads` is empty, although nobody looks again later: `LastOut` shows that the
last reference is never dropped before that, because the release holds its own until it
has released all of the threads, which is what `ReleaseNode` waits for. The first half of
the module is about counts as data (`CountsTake`, `CountsDrop`, `CountsHold`,
`CountsLeave`, `CountsDie`, ...: what taking or dropping one reference does, also when a
thread's last takes one of the process with it); each action is then one or two of
these. That a caller in `from` still lives when the reference on it is taken is a fact
about links (`CallerLives`), from `Sound`.

`BinderCallStacksProofs` proves that BinderCall implements CallStacks
(`DriverImplementsStacks`, step by step, under the same hypothesis). The abstract state is
first said in terms of the calls: the stack of a thread is the pile of the calls it made
or serves by falling number (`PilesAre`; there is one such pile for a set of calls,
`PileUnique`); a call is `sent` exactly while it is on a list or in the hands of who queues
or delivers it (`Sendings`, `PhaseIs`); and the chain of callers that `OnBehalf` follows is
the one the driver's links make (`BehalfIs`). What a step does to the abstract state is
then a matter of which calls it puts on a thread, takes off one or ends: `CallStep`,
`ServeStep`, `LoseStep`, `ReplyStep`, `AnswerStep`, `OverStep`, `ExitStep`, and
`QuietStacks` for those that show nothing. `HeldClosable` is the promise behind answers and
ends: when a call is in the hands of somebody who does not deliver it, nothing made on
behalf of it is served or under way, whether it was replied to, lost with a dying
thread's list, or failed. So the two fields of shared objects that link the stacks, cut and
mended by exits and releases, behave as one stack per thread.

`BackendProofs` proves `NeverRefused`, `GrantOutlivesReboot` and `LogInOrder` of the
backend, whatever the chunks, the time-outs and the reboots. `EmuInv`: the command lies behind an auth in
the stream to the console, so a console that reads in order has authenticated first.
`ScopeInv`: a child that ended with 0 was executed by the device, in a boot no later than
the present one; only a reboot takes the app-op away, and it begins a new boot.
`LogInv` sees the log as one stream of bytes, numbered from its start (`At`), of
which the first `k` were read: the pipe is the stretch from there to the end of what
was logged, the events have `Texts(k)` bytes, as many as the first `k` without the
newlines, and each event is what follows the text of those before it (`FollowsIn`). A
chunk moves `k` on, wherever it ends. Decoded it is the log but for a first and a last
byte that are half a character (`DecodedIs`); each piece is then a stretch of one line
that starts where the chunk or a line does (`CutGood`, `PiecesGood`), so that the one
before it ends there, and what was replaced in the chunk was at the ends of a piece
(`PieceFollows`). `ends` is needed to say which lines and characters may come in two: the
chunks that made the earlier events are gone from the state. The cutting and `FlattenSeq`
are recursive functions: their laws (`FlattenAppend`, `FlattenConcat`, `PiecesGood`) are
proved, as for the sums, by a smallest counterexample.

Assumptions are the named `ASSUME`s of the modules, evaluated by TLC in every run.

## 6. What is only model-checked, and what is not modelled

Model-checked only: liveness (`AcceptedIsHandedOver`, `CallsEnd`, `RequestsSettle`,
`ChildEndsWithRequest`; the prover does not handle fairness) and what BinderCall does
when a thread uses the driver without blocking (`call_interrupted`). The part of
`FreedWhenUnused` of BinderNodeRef about refs is claimed only while the server is open:
an increment that fails on a node whose server is gone leaves a ref with both counts 0
(`binder.c:1960-1979`). Known and without a property, as section 3 says of them: the
grant to the boot that is being ended (`scope.js:134`; `GrantOutlivesReboot` claims
nothing for an answer of that boot), and the OK of `auth` taken for the command's
(`emu.js:45-51`; `NeverRefused` is about the order in which the console reads). That a
server is told in the end of what `ServerKnows` has on its list follows from its threads
reading, which is checked for transactions in `oneway_live`, not for nodes.

Not modelled, because what they do is decided elsewhere: scheduling priorities (the
kernel's scheduler and its limits; no other part's decision depends on them);
`waitForBoot`, `tryRoot` and `ensureRoot` of the backend (commands in sequence, whose
outcome is the device's); `location.js` and the scope's rows (one command or one SQL
statement per request, no state between); the framework calls of the helper app;
installation scripts. Not modelled, because they keep no state another part reads:
printing, statistics and trace points, the kernel glue (`binder_deps.c`), rendering in
the page and its poll after an apply, which has the weakness of the job's.
