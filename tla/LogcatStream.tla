----------------------------- MODULE LogcatStream -----------------------------
(***************************************************************************)
(* One request for the logcat stream: the logcat child, its output pipe,   *)
(* the response and the two ends that may close.  What is in the pipe are  *)
(* bytes: a line of the log is a character of one byte, one of two and a   *)
(* newline, so that a chunk may end inside the line and inside the second  *)
(* character.                                                              *)
(*                                                                         *)
(* Source: src/backend/routes/logcat.js.                                   *)
(***************************************************************************)
EXTENDS Naturals, Sequences, SequencesExt

CONSTANT MaxLines  \* bound on the lines the device logs

ASSUME LinesAssumption == MaxLines \in Nat

VARIABLES
    logged,   \* number of lines the child has written
    pipe,     \* its output that was not read yet
    events,   \* the data events written to the response
    ends,     \* history: how much of the text was read after each chunk
    request,  \* "open", or "closed" by the browser
    response, \* "open" or "ended"
    logcat    \* the child: "running", "told" (SIGTERM), "exited" or "gone"

logVars == <<logged, pipe, events, ends, request, response, logcat>>

\* The bytes of a line.  Parts 2 and 3 are the two of one character; where both
\* are decoded together they stand for that character.
Newline == [line |-> 0, part |-> 0]
Line(n) == <<[line |-> n, part |-> 1], [line |-> n, part |-> 2],
             [line |-> n, part |-> 3], Newline>>

\* What a byte becomes that is no character by itself (U+FFFD)
Replacement == [line |-> 0, part |-> 1]

LogInit ==
    /\ logged = 0 /\ pipe = <<>> /\ events = <<>> /\ ends = {}
    /\ request = "open" /\ response = "open"
    /\ logcat = "running"

\* The child is external.
Logs ==
    /\ logcat \in {"running", "told"} /\ logged < MaxLines
    /\ logged' = logged + 1
    /\ pipe' = pipe \o Line(logged + 1)
    /\ UNCHANGED <<events, ends, request, response, logcat>>

Exits ==
    /\ logcat \in {"running", "told"}
    /\ logcat' = "exited"
    /\ UNCHANGED <<logged, pipe, events, ends, request, response>>

\* toString(), for each chunk by itself: the first byte of a character whose second
\* one is in the next chunk, and that one there, are replaced.
Torn(chunk, i) ==
    \/ i = Len(chunk) /\ chunk[i].part = 2
    \/ i = 1 /\ chunk[i].part = 3

Decoded(chunk) ==
    [i \in DOMAIN chunk |-> IF Torn(chunk, i) THEN Replacement ELSE chunk[i]]

\* The i-th character of a chunk, after the pieces of those before it: a newline
\* ends a piece, any other character goes on with one or starts one.
Cut(chunk, i, pieces) ==
    IF chunk[i] = Newline THEN pieces
    ELSE IF i = 1 \/ chunk[i - 1] = Newline THEN Append(pieces, <<chunk[i]>>)
    ELSE [pieces EXCEPT ![Len(pieces)] = Append(@, chunk[i])]

\* Mutant of Pieces: an unfinished line at the end of the chunk is dropped.
PiecesWhole(chunk) ==
    LET upTo[i \in 0 .. Len(chunk)] ==
          IF i = 0 THEN <<>> ELSE Cut(chunk, i, upTo[i - 1])
    IN  upTo[Max({0} \union {i \in DOMAIN chunk : chunk[i] = Newline})]

\* split("\n") without the empty strings
Pieces(chunk) ==
    LET upTo[i \in 0 .. Len(chunk)] ==
          IF i = 0 THEN <<>> ELSE Cut(chunk, i, upTo[i - 1])
    IN  upTo[Len(chunk)]

\* The "data" event
Chunk(n) ==
    /\ logcat # "gone"
    /\ events' = events \o Pieces(Decoded(SubSeq(pipe, 1, n)))
    /\ ends' = ends \union {Len(FlattenSeq(events'))}
    /\ pipe' = SubSeq(pipe, n + 1, Len(pipe))
    /\ UNCHANGED <<logged, request, response, logcat>>

\* The child's "close" event comes after the last of its output.
ChildCloses ==
    /\ logcat = "exited" /\ pipe = <<>>
    /\ logcat' = "gone"
    /\ response' = "ended"
    /\ UNCHANGED <<logged, pipe, events, ends, request>>

\* Mutant of BrowserLeaves: the child is left running.
BrowserLeavesQuietly ==
    /\ request = "open"
    /\ request' = "closed"
    /\ UNCHANGED <<logged, pipe, events, ends, response, logcat>>

\* The request's "close" event
BrowserLeaves ==
    /\ request = "open"
    /\ request' = "closed"
    /\ logcat' = IF logcat = "running" THEN "told" ELSE logcat
    /\ UNCHANGED <<logged, pipe, events, ends, response>>

LogNext ==
    \/ Logs \/ Exits \/ ChildCloses \/ BrowserLeaves
    \/ \E n \in 1 .. Len(pipe) : Chunk(n)

-----------------------------------------------------------------------------
(* Properties. *)

\* The n-th byte of the log, newlines left out
Text(n) == [line |-> (n + 2) \div 3, part |-> ((n - 1) % 3) + 1]

\* An event that is what follows the first n bytes of the text: it stays within a
\* line, ends with it or where a chunk ended, and has every character of that
\* stretch as it was but one of which it has only one half.
Follows(event, n) ==
    LET m == n + Len(event)
        cut == {i \in DOMAIN event : \/ i = 1 /\ Text(n + i).part = 3
                                     \/ i = Len(event) /\ Text(n + i).part = 2}
    IN  /\ event # <<>>
        /\ Text(n + 1).line = Text(m).line
        /\ Text(m).part = 3 \/ m \in ends
        /\ \A i \in DOMAIN event :
             event[i] = IF i \in cut THEN Replacement ELSE Text(n + i)

\* However the output is cut into chunks, the events put one after the other are
\* the text of the log up to what was not read: nothing is lost, doubled or out of
\* order, and no event holds parts of two lines.  A line is two events only where a
\* chunk ended in it, and only a character in which one ended is replaced.
LogInOrder ==
    LET unread == {i \in DOMAIN pipe : pipe[i] # Newline}
    IN  /\ Len(FlattenSeq(events)) + Cardinality(unread) = 3 * logged
        /\ \A i \in DOMAIN events :
             Follows(events[i], Len(FlattenSeq(SubSeq(events, 1, i - 1))))

\* The child does not outlive the request, and the response ends with it.
ChildEndsWithRequest == request = "closed" ~> logcat = "gone" /\ response = "ended"
=============================================================================
