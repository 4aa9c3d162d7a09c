---------------------------- MODULE MCBinderAlloc ----------------------------
(* A small instance of BinderAlloc for TLC: words of two bytes. *)
EXTENDS BinderAlloc

Req(d, o, x) == [data |-> d, offsets |-> o, extra |-> x]

\* None, one and two to four words, in odd bytes and in several parts, and a
\* size whose alignment wraps.
AllRequests ==
    {Req(0, 0, 0), Req(1, 0, 0), Req(2, 1, 0), Req(3, 2, 0), Req(2, 2, 3),
     Req(Limit - 1, 2, 0)}

NoRequests == {}
=============================================================================
