----------------------------- MODULE BufferSize -----------------------------
(***************************************************************************)
(* The size of a transaction buffer, computed in size_t from three sizes   *)
(* the sender chooses freely, and the tests that refuse a sum that does    *)
(* not fit.  Source: src/docker/android-4.4-p-binder/binder_alloc.c.       *)
(***************************************************************************)
EXTENDS Integers

CONSTANTS
    Word,     \* sizeof(void *)
    Limit     \* how many values size_t has

ASSUME WordAssumption == Word \in Nat \ {0} /\ Limit \in Nat \ {0}
ASSUME LimitAssumption == Limit % Word = 0

SizeT == 0 .. Limit - 1

Request == [data : SizeT, offsets : SizeT, extra : SizeT]

\* ALIGN(x, sizeof(void *)), which wraps to 0 for the last few values.
Align(x) == LET y == (x + Word - 1) % Limit IN y - (y % Word)

DataOffsets(r) == (Align(r.data) + Align(r.offsets)) % Limit

TotalSize(r) == (DataOffsets(r) + Align(r.extra)) % Limit

\* The two tests that return -EINVAL.
ValidSize(r) ==
    /\ DataOffsets(r) >= r.data /\ DataOffsets(r) >= r.offsets
    /\ TotalSize(r) >= DataOffsets(r) /\ TotalSize(r) >= r.extra

-----------------------------------------------------------------------------
(* What the sizes are, without wrapping. *)

RoundUp(x) == x + ((-x) % Word)

TrueSize(r) == RoundUp(r.data) + RoundUp(r.offsets) + RoundUp(r.extra)

\* The tests accept exactly the requests whose aligned sizes add up to a
\* size_t, and the size computed is then the sum: no choice of three sizes
\* makes a buffer that is smaller than its parts.
SizeIsExact(r) ==
    /\ ValidSize(r) <=> TrueSize(r) < Limit
    /\ ValidSize(r) => TotalSize(r) = TrueSize(r)
=============================================================================
