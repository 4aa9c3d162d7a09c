---------------------------- MODULE BinderObjects ----------------------------
(***************************************************************************)
(* The objects of one transaction on their way into the buffer of its      *)
(* target: binder_transaction translates one after the other, and          *)
(* binder_transaction_buffer_release undoes what was translated.           *)
(*                                                                         *)
(* A PTR is copied into the extra area of the buffer, and its address is   *)
(* written into the copy of its parent.  An FD and the entries of an FDA   *)
(* become descriptors in the target's table, which other threads use at    *)
(* the same time: files_lock is held for one descriptor's reservation,     *)
(* installation or closing only.  BINDERs and HANDLEs touch neither; they   *)
(* are translated in BinderNodeRef.                                        *)
(*                                                                         *)
(* Source: src/docker/android-4.4-p-binder/binder.c.                       *)
(***************************************************************************)
EXTENDS BufferSize, FiniteSetsExt, Sequences

CONSTANTS
    Extra,     \* extra_buffers_size, with that of the security context
    CtxSize,   \* the part of it at the end that is the security context's
    FdSize,    \* sizeof(u32)
    Fds,       \* the descriptors the target may have
    Lengths,   \* of a PTR
    Offsets,   \* of a PTR or an FDA in its parent
    Nums,      \* of descriptors in an FDA
    MaxObjs,   \* bound: objects of the transaction
    MaxOwn     \* bound: descriptors the target opens itself, at a time

ASSUME ObjectAssumption ==
    /\ Extra \in SizeT /\ Extra % Word = 0
    /\ CtxSize \in 0 .. Extra /\ CtxSize % Word = 0
    /\ FdSize \in Nat \ {0} /\ Word % FdSize = 0 /\ Limit % FdSize = 0
    /\ Fds \subseteq Nat /\ MaxObjs \in Nat /\ MaxOwn \in Nat
    /\ Lengths \union Offsets \union Nums \subseteq SizeT

VARIABLES
    objs,      \* the objects translated so far, in the order of their offsets
    sg,        \* sg_bufp, from the start of the extra area
    last,      \* last_fixup_obj as an index of objs; 0 is NULL
    lastMin,   \* last_fixup_min_off
    mem,       \* the extra area, byte by byte: what was written there last
    table,     \* fd |-> what it is in the target's table
    files,     \* target_proc->files # NULL
    step,      \* where binder_transaction, or the target, is
    cur,       \* the FD or FDA under translation
    fdi,       \* how many of its descriptors are installed
    newFd,     \* target_fd
    closing,   \* the descriptors task_close_fd is called with next
    rel,       \* the object binder_transaction_buffer_release looks at next
    failed     \* failed_at # NULL

bufferVars == <<objs, sg, last, lastMin, mem>>
tableVars == <<table, files>>
stepVars == <<step, cur, fdi, newFd, closing, rel, failed>>
objVars == <<bufferVars, tableVars, stepVars>>

\* "object": at the head of the loop.  "reserve", "install": before
\* task_get_unused_fd_flags and task_fd_install.  "sent": on a list of the
\* target.  "given": the target has read it.
Steps == {"object", "reserve", "install", "sent", "given", "release", "done"}

\* "own" is what the target may use and close, "sent" what the driver put
\* there and has not given it.
FdStates == {"free", "own", "reserved", "sent"}

\* len is the length of a PTR and the num_fds of an FDA; an FD has one.
Obj(kind, parent, off, len, base) ==
    [kind |-> kind, parent |-> parent, off |-> off, len |-> len,
     base |-> base, fd |-> 0]

NoObj == Obj("none", 0, 0, 0, 0)

Area == 0 .. Extra - 1
Byte(what, of) == [what |-> what, of |-> of]

ObjInit ==
    /\ objs = <<>> /\ sg = 0 /\ last = 0 /\ lastMin = 0
    /\ mem = [b \in Area |-> Byte(IF b < Extra - CtxSize THEN "free" ELSE "ctx", 0)]
    /\ table = [f \in Fds |-> "free"] /\ files = TRUE
    /\ step = "object" /\ cur = NoObj /\ fdi = 0 /\ newFd = 0
    /\ closing = <<>> /\ rel = 1 /\ failed = FALSE

Write(at, size, byte) ==
    [b \in Area |-> IF b \in at .. at + size - 1 THEN byte ELSE mem[b]]

-----------------------------------------------------------------------------
(* Fix-ups. *)

\* binder_validate_ptr: the index of a PTR translated before.
ValidPtr(p) == p \in 1 .. Len(objs) /\ objs[p].kind = "ptr"

\* An object with the parents above it.
Upward[x \in 0 .. Len(objs)] ==
    IF x = 0 THEN {} ELSE {x} \union Upward[objs[x].parent]

\* Mutant of ValidFixup: the offset is compared in the last object only.
ValidFixupLastOnly(p, off) ==
    p \in Upward[last] /\ (p = last => off >= lastMin)

\* binder_validate_fixup: in the last object fixed up or a parent of it, and
\* behind the last fix-up there.
ValidFixup(p, off) ==
    /\ p \in Upward[last]
    /\ \/ p = last /\ off >= lastMin
       \/ \E c \in Upward[last] : objs[c].parent = p /\ off >= objs[c].off + Word

\* What binder_fixup_parent asks of a parent.
ParentFits(p, off) ==
    /\ ValidPtr(p) /\ ValidFixup(p, off)
    /\ objs[p].len >= Word /\ off <= objs[p].len - Word

AtObject == step = "object" /\ Len(objs) < MaxObjs

\* To the error path, which releases what was translated so far.
Fails == step' = "release" /\ failed' = TRUE

\* A PTR: the copy, then the fix-up of its parent if it has one (p # 0).
TranslatePtr(p, off, len) ==
    LET copied == Write(sg, len, Byte("data", 0)) IN
    /\ AtObject /\ len <= Extra - CtxSize - sg
    /\ sg' = sg + Align(len)
    /\ IF p = 0 \/ ParentFits(p, off)
       THEN /\ objs' = Append(objs, Obj("ptr", p, IF p = 0 THEN 0 ELSE off, len, sg))
            /\ mem' = IF p = 0 THEN copied
                 ELSE [b \in Area |->
                        IF b - objs[p].base - off \in 0 .. Word - 1
                        THEN Byte("ptr", Len(objs) + 1) ELSE copied[b]]
            /\ last' = Len(objs) + 1 /\ lastMin' = 0
            /\ UNCHANGED stepVars
       ELSE /\ mem' = copied /\ Fails
            /\ UNCHANGED <<objs, last, lastMin, cur, fdi, newFd, closing, rel>>
    /\ UNCHANGED tableVars

-----------------------------------------------------------------------------
(* Descriptors. *)

\* The descriptors fit into the parent, their size not wrapping.
ArrayFits(p, off, num) ==
    LET size == (FdSize * num) % Limit IN
    /\ num < (Limit - 1) \div FdSize
    /\ size <= objs[p].len /\ off <= objs[p].len - size

EntryAt(o, k) == objs[o.parent].base + o.off + FdSize * (k - 1)

\* fd_array[0 .. n - 1] of an FDA, as they are in the buffer.
Entries(o, n) == [k \in 1 .. n |-> mem[EntryAt(o, k)].of]

TranslateFd ==
    /\ AtObject
    /\ cur' = Obj("fd", 0, 0, 1, 0) /\ fdi' = 0 /\ step' = "reserve"
    /\ UNCHANGED <<bufferVars, tableVars, newFd, closing, rel, failed>>

\* An FDA, up to the loop of binder_translate_fd_array.
TranslateFdArray(p, off, num) ==
    /\ AtObject /\ ValidPtr(p) /\ ValidFixup(p, off)
    /\ ArrayFits(p, off, num) /\ (objs[p].base + off) % FdSize = 0
    /\ cur' = Obj("fda", p, off, num, 0) /\ fdi' = 0 /\ step' = "reserve"
    /\ UNCHANGED <<bufferVars, tableVars, newFd, closing, rel, failed>>

Free == {f \in Fds : table[f] = "free"}

\* task_get_unused_fd_flags.
ReserveFd ==
    /\ step = "reserve" /\ fdi < cur.len
    /\ files /\ Free # {}
    /\ newFd' = Min(Free)
    /\ table' = [table EXCEPT ![Min(Free)] = "reserved"]
    /\ step' = "install"
    /\ UNCHANGED <<bufferVars, files, cur, fdi, closing, rel, failed>>

\* task_fd_install, and the descriptor written where the target finds it.
InstallFd ==
    /\ step = "install"
    /\ table' = IF files THEN [table EXCEPT ![newFd] = "sent"] ELSE table
    /\ IF cur.kind = "fd"
       THEN cur' = [cur EXCEPT !.fd = newFd] /\ UNCHANGED mem
       ELSE /\ mem' = Write(EntryAt(cur, fdi + 1), FdSize, Byte("fd", newFd))
            /\ UNCHANGED cur
    /\ fdi' = fdi + 1 /\ step' = "reserve"
    /\ UNCHANGED <<objs, sg, last, lastMin, files, newFd, closing, rel, failed>>

FdsDone ==
    /\ step = "reserve" /\ fdi = cur.len
    /\ objs' = Append(objs, cur)
    /\ IF cur.kind = "fda"
       THEN last' = cur.parent /\ lastMin' = cur.off + FdSize * cur.len
       ELSE UNCHANGED <<last, lastMin>>
    /\ step' = "object" /\ cur' = NoObj /\ fdi' = 0 /\ newFd' = 0
    /\ UNCHANGED <<sg, mem, tableVars, closing, rel, failed>>

\* Mutant of Installed: the array is left to the release of the buffer.
InstalledNone == <<>>

\* What err_translate_fd_failed closes of the array under translation.
Installed == IF cur.kind = "fda" THEN Entries(cur, fdi) ELSE <<>>

\* The target takes no descriptors, the sender has no such file, may not pass
\* it on, or the target's table is full or gone.
FdFails ==
    /\ step = "reserve" /\ fdi < cur.len
    /\ closing' = Installed /\ Fails
    /\ cur' = NoObj /\ fdi' = 0 /\ newFd' = 0
    /\ UNCHANGED <<bufferVars, tableVars, rel>>

-----------------------------------------------------------------------------
(* The transaction's way, and back. *)

\* An object that is refused, a fault, or a target that is dead.
TransactionFails ==
    /\ step = "object" /\ Fails
    /\ UNCHANGED <<bufferVars, tableVars, cur, fdi, newFd, closing, rel>>

Send ==
    /\ step = "object" /\ step' = "sent"
    /\ UNCHANGED <<bufferVars, tableVars, cur, fdi, newFd, closing, rel, failed>>

FdsOf(o) == IF o.kind = "fd" THEN {o.fd} ELSE {}

\* The target reads it and learns of the descriptors of its FDs.
Give ==
    /\ step = "sent" /\ step' = "given"
    /\ table' = [f \in Fds |->
         IF table[f] = "sent" /\ \E i \in 1 .. Len(objs) : f \in FdsOf(objs[i])
         THEN "own" ELSE table[f]]
    /\ UNCHANGED <<bufferVars, files, cur, fdi, newFd, closing, rel, failed>>

\* BC_FREE_BUFFER.
FreeBuffer ==
    /\ step = "given" /\ step' = "release"
    /\ UNCHANGED <<bufferVars, tableVars, cur, fdi, newFd, closing, rel, failed>>

\* An FD is closed if the transaction failed, an FDA always.
ToClose(o) ==
    CASE o.kind = "fd" /\ failed -> <<o.fd>>
      [] o.kind = "fda" /\ ValidPtr(o.parent) /\ ArrayFits(o.parent, o.off, o.len) ->
           Entries(o, o.len)
      [] OTHER -> <<>>

ReleaseObject ==
    /\ step = "release" /\ closing = <<>> /\ rel <= Len(objs)
    /\ closing' = ToClose(objs[rel])
    /\ rel' = rel + 1
    /\ UNCHANGED <<bufferVars, tableVars, step, cur, fdi, newFd, failed>>

\* task_close_fd: a descriptor that is only reserved is not open.
CloseFd ==
    /\ closing # <<>> /\ closing' = Tail(closing)
    /\ table' = [f \in Fds |->
         IF f = Head(closing) /\ files /\ table[f] # "reserved" THEN "free" ELSE table[f]]
    /\ UNCHANGED <<bufferVars, files, step, cur, fdi, newFd, rel, failed>>

Released ==
    /\ step = "release" /\ closing = <<>> /\ rel > Len(objs)
    /\ step' = "done"
    /\ UNCHANGED <<bufferVars, tableVars, cur, fdi, newFd, closing, rel, failed>>

-----------------------------------------------------------------------------
(* The target meanwhile. *)

\* Followed while the driver has its table.
Opens ==
    /\ files /\ Free # {} /\ Cardinality({f \in Fds : table[f] = "own"}) < MaxOwn
    /\ table' = [table EXCEPT ![Min(Free)] = "own"]
    /\ UNCHANGED <<bufferVars, files, stepVars>>

Closes(f) ==
    /\ files /\ table[f] = "own"
    /\ table' = [table EXCEPT ![f] = "free"]
    /\ UNCHANGED <<bufferVars, files, stepVars>>

\* BINDER_DEFERRED_PUT_FILES, after the mmap was closed.
PutFiles ==
    /\ files /\ files' = FALSE
    /\ UNCHANGED <<bufferVars, table, stepVars>>

ObjNext ==
    \/ TranslateFd
    \/ \E off \in Offsets, p \in 0 .. MaxObjs :
         \/ \E len \in Lengths : TranslatePtr(p, off, len)
         \/ \E num \in Nums : TranslateFdArray(p, off, num)
    \/ ReserveFd \/ InstallFd \/ FdsDone \/ FdFails
    \/ TransactionFails \/ Send \/ Give \/ FreeBuffer
    \/ ReleaseObject \/ CloseFd \/ Released
    \/ Opens \/ PutFiles \/ \E f \in Fds : Closes(f)

-----------------------------------------------------------------------------
(* Properties. *)

ObjIdx == 1 .. Len(objs)
Ptrs == {i \in ObjIdx : objs[i].kind = "ptr"}
Arrays == {i \in ObjIdx : objs[i].kind = "fda"}
Copy(i) == objs[i].base .. objs[i].base + objs[i].len - 1
PointerOf(i) == LET at == objs[objs[i].parent].base + objs[i].off IN at .. at + Word - 1
EntryOf(i, k) == EntryAt(objs[i], k) .. EntryAt(objs[i], k) + FdSize - 1

\* Whatever lengths, offsets and parents a sender chooses, the copies of its
\* buffers lie apart and before the security context, and what the driver wrote
\* into them -- addresses and descriptors -- lies in the parent it is for and is
\* still whole: no later copy or fix-up went over it, so that the target reads
\* the address, and the release the descriptors, that were put there
\* (binder_validate_fixup, binder_fixup_parent, binder_translate_fd_array).
FixupsStay ==
    /\ \A i \in Ptrs :
         /\ \A b \in Copy(i) : b < Extra - CtxSize
         /\ \A j \in Ptrs \ {i} : Copy(i) \intersect Copy(j) = {}
         /\ objs[i].parent # 0 => \A b \in PointerOf(i) :
              b \in Copy(objs[i].parent) /\ mem[b] = Byte("ptr", i)
    /\ \A i \in Arrays : \A k \in 1 .. objs[i].len : \A b \in EntryOf(i, k) :
         /\ b \in Copy(objs[i].parent)
         /\ mem[b].what = "fd" /\ mem[b].of = Entries(objs[i], k)[k]
    /\ \A b \in Area : mem[b].what = "ctx" <=> b >= Extra - CtxSize

Given == step = "given" \/ (step \in {"release", "done"} /\ ~failed)

\* The descriptors the driver has yet to give away or to close: of objects not
\* released, of the object under translation, and of what is being closed.
Held ==
    (UNION {IF objs[i].kind = "fda"
            THEN {Entries(objs[i], objs[i].len)[k] : k \in 1 .. objs[i].len}
            ELSE IF Given THEN {} ELSE FdsOf(objs[i]) : i \in rel .. Len(objs)})
    \union (IF step \in {"reserve", "install"} /\ fdi > 0
            THEN IF cur.kind = "fda" THEN {Entries(cur, fdi)[k] : k \in 1 .. fdi} ELSE {cur.fd}
            ELSE {})
    \union {closing[k] : k \in 1 .. Len(closing)}

\* As long as the driver has the target's table, the descriptors it put there
\* and did not give away are those it still holds on to, and one is reserved
\* only while it is being installed: a transaction that fails anywhere, in the
\* middle of an array too, leaves none behind, and none is closed twice, which
\* would close a file the target opened in between (binder_translate_fd_array,
\* binder_transaction_buffer_release).
FdsAccounted ==
    files =>
      /\ {f \in Fds : table[f] = "sent"} = Held
      /\ {f \in Fds : table[f] = "reserved"} = IF step = "install" THEN {newFd} ELSE {}
=============================================================================
