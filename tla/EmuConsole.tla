------------------------------ MODULE EmuConsole ------------------------------
(***************************************************************************)
(* One command sent to the emulator's console: the socket, its events, the *)
(* timer and the promise of emuCommand.  What is received is reduced to    *)
(* what the handler looks for: an "OK", whether it is the last word, and   *)
(* "Hello".  The console at the other end is external; the stream between  *)
(* them may be cut into chunks anywhere.                                   *)
(*                                                                         *)
(* Source: src/backend/lib/emu.js.                                         *)
(***************************************************************************)
EXTENDS Naturals, Sequences, SequencesExt

VARIABLES
    token,      \* what loadToken finds: "none", "right" or "wrong"
    toConsole,  \* lines on their way to the console
    toClient,   \* what the console said, not yet received
    seen,       \* the words of out
    lastOK,     \* out ends with an OK
    sentAuth, sentCmd,
    result,     \* what the promise resolved to, "none" before
    console,    \* "new", "open" or "gone"
    authed,     \* the console accepts commands
    verdict     \* what the console did with the command

emuVars == <<token, toConsole, toClient, seen, lastOK, sentAuth, sentCmd,
             result, console, authed, verdict>>

\* The console asks for no token when its file is empty.
EmuInit ==
    /\ token \in {"none", "right", "wrong"}
    /\ toConsole = <<>> /\ toClient = <<>>
    /\ seen = {} /\ lastOK = FALSE
    /\ sentAuth = FALSE /\ sentCmd = FALSE
    /\ result = "none"
    /\ console = "new"
    /\ authed \in (IF token = "none" THEN BOOLEAN ELSE {FALSE})
    /\ verdict = "none"

-----------------------------------------------------------------------------
(* The console. *)

Greet(word) ==
    /\ console = "new"
    /\ console' = "open"
    /\ toClient' = toClient \o <<word, "OK">>
    /\ UNCHANGED <<token, toConsole, seen, lastOK, sentAuth, sentCmd, result,
                   authed, verdict>>

ConsoleReads ==
    /\ console = "open" /\ toConsole # <<>>
    /\ toConsole' = Tail(toConsole)
    /\ CASE Head(toConsole) = "auth" ->
              /\ authed' = (token = "right")
              /\ toClient' = toClient \o
                    (IF token = "right" THEN <<"text", "OK">> ELSE <<"KO">>)
              /\ UNCHANGED <<console, verdict>>
         [] Head(toConsole) = "cmd" ->
              /\ verdict' = IF authed THEN "done" ELSE "refused"
              /\ toClient' = Append(toClient, IF authed THEN "OK" ELSE "KO")
              /\ UNCHANGED <<console, authed>>
         [] Head(toConsole) = "quit" ->
              /\ console' = "gone"
              /\ UNCHANGED <<toClient, authed, verdict>>
    /\ UNCHANGED <<token, seen, lastOK, sentAuth, sentCmd, result>>

ConsoleDies ==
    /\ console # "gone"
    /\ console' = "gone"
    /\ UNCHANGED <<token, toConsole, toClient, seen, lastOK, sentAuth, sentCmd,
                   result, authed, verdict>>

\* What was written before sock.destroy() may still be lost.
LinesLost ==
    /\ result # "none" /\ toConsole # <<>>
    /\ toConsole' = <<>>
    /\ UNCHANGED <<token, toClient, seen, lastOK, sentAuth, sentCmd, result,
                   console, authed, verdict>>

-----------------------------------------------------------------------------
(* The client. *)

\* finish: only the first call counts, the socket is destroyed.
Finish(answer) ==
    /\ result' = answer
    /\ toClient' = <<>>

\* Mutant of Written: the command goes first.
WrittenLast(auth, cmd) ==
    (IF cmd THEN <<"cmd", "quit">> ELSE <<>>) \o
    (IF auth THEN <<"auth">> ELSE <<>>)

Written(auth, cmd) ==
    (IF auth THEN <<"auth">> ELSE <<>>) \o
    (IF cmd THEN <<"cmd", "quit">> ELSE <<>>)

\* The "data" event, with the first n words that are on their way.
Data(n) ==
    LET chunk == SubSeq(toClient, 1, n)
        words == seen \cup Range(chunk)
        ok == "OK" \in words
        auth == ok /\ ~sentAuth /\ token # "none"
        cmd == ok /\ ~sentCmd
    IN  /\ result = "none"
        /\ seen' = words
        /\ lastOK' = (Last(chunk) = "OK")
        /\ sentAuth' = (sentAuth \/ auth)
        /\ sentCmd' = (sentCmd \/ cmd)
        /\ toConsole' = toConsole \o Written(auth, cmd)
        /\ IF "Hello" \notin words /\ lastOK' /\ sentCmd'
           THEN Finish("ok")
           ELSE /\ toClient' = SubSeq(toClient, n + 1, Len(toClient))
                /\ UNCHANGED result
        /\ UNCHANGED <<token, console, authed, verdict>>

TimesOut ==
    /\ result = "none"
    /\ Finish("timeout")
    /\ UNCHANGED <<token, toConsole, seen, lastOK, sentAuth, sentCmd, console,
                   authed, verdict>>

\* The "error" and "close" events.
SocketError ==
    /\ result = "none" /\ console # "open"
    /\ Finish("error")
    /\ UNCHANGED <<token, toConsole, seen, lastOK, sentAuth, sentCmd, console,
                   authed, verdict>>

SocketClosed ==
    /\ result = "none" /\ console = "gone" /\ toClient = <<>>
    /\ Finish(IF sentCmd /\ "OK" \in seen THEN "ok" ELSE "closed")
    /\ UNCHANGED <<token, toConsole, seen, lastOK, sentAuth, sentCmd, console,
                   authed, verdict>>

EmuNext ==
    \/ \E word \in {"text", "Hello"} : Greet(word)
    \/ ConsoleReads \/ ConsoleDies \/ LinesLost
    \/ \E n \in 1 .. Len(toClient) : Data(n)
    \/ TimesOut \/ SocketError \/ SocketClosed

-----------------------------------------------------------------------------
(* Properties. *)

\* However the banner and the answers are cut into chunks, the console never
\* refuses the command for want of the token, when the token is right: auth
\* reaches it first, though the client does not wait for its answer.
NeverRefused == token = "right" => verdict # "refused"
=============================================================================
