--------------------------- MODULE MCBinderBuffers ---------------------------
(* A small instance of BinderBuffers for TLC: words of four bytes. *)
EXTENDS BinderBuffers

Req(d, o, x) == [data |-> d, offsets |-> o, extra |-> x]

\* Two to four words, in odd bytes and in several parts, and a size whose
\* alignment wraps.
LargeRequests == {Req(4, 1, 0), Req(6, 4, 0), Req(4, 4, 5), Req(Limit - 1, 4, 0)}

\* Synchronous ones also with the one word of padding, one-way ones with one
\* that is asked for.
PaddedRequests == LargeRequests \union {Req(0, 0, 0)}
SolidRequests == {Req(1, 0, 0), Req(6, 4, 0), Req(Limit - 1, 4, 0)}

\* One word and a half, and two: room for one fix-up and for two.  At 1, a
\* pointer lies across the fix-up at 4 and a descriptor is not aligned.
TheLengths == {6, 8}
TheOffsets == {0, 1, 4}

\* Two, and a number whose size in bytes wraps to one descriptor's.
TheNums == {2, Limit \div FdSize + 1}
TheFds == 0 .. 2
=============================================================================
