----------------------------- MODULE CallStacks -----------------------------
(***************************************************************************)
(* What the binder driver promises of synchronous calls, without its       *)
(* lists, locks and reference counts: every thread has one stack of calls, *)
(* those it has made and those it serves.                                  *)
(*                                                                         *)
(* A thread waits for one answer at a time.  While it waits it is given    *)
(* only calls made on behalf of the call it waits for; otherwise a call    *)
(* goes to a thread that does nothing else.  A call is served once, and    *)
(* its caller goes on once nobody serves it any more.  Calls on behalf of  *)
(* it end before it does.                                                  *)
(***************************************************************************)
EXTENDS Integers, Sequences, FiniteSets

CONSTANTS Threads, Calls, None   \* None is no call

VARIABLES
    stack,    \* th |-> the calls it is engaged in, the latest first
    phase,    \* c |-> how far call c has come
    parent    \* c |-> the call its caller was serving when it made c

vars == <<stack, phase, parent>>

Made(c) == [call |-> c, side |-> "made"]
Served(c) == [call |-> c, side |-> "served"]
Frame == [call : Calls, side : {"made", "served"}]
Phases == {"new", "sent", "taken", "over"}

Init ==
    /\ stack = [th \in Threads |-> <<>>]
    /\ phase = [c \in Calls |-> "new"]
    /\ parent = [c \in Calls |-> None]

Waits(th) == stack[th] # <<>> /\ stack[th][1].side = "made"
Serves(th) == stack[th] # <<>> /\ stack[th][1].side = "served"
OnStack(f) == \E th \in Threads : \E i \in DOMAIN stack[th] : stack[th][i] = f

\* c was made, directly or not, on behalf of b.
OnBehalf(c, b) ==
    LET up[n \in Nat] ==
          IF n = 0 THEN c
          ELSE LET d == up[n - 1] IN IF d = None THEN None ELSE parent[d]
    IN  \E n \in 1 .. Cardinality(Calls) : up[n] = b

Call(th, c) ==
    /\ phase[c] = "new" /\ ~Waits(th)
    /\ phase' = [phase EXCEPT ![c] = "sent"]
    /\ stack' = [stack EXCEPT ![th] = <<Made(c)>> \o @]
    /\ parent' = [parent EXCEPT ![c] =
         IF Serves(th) THEN stack[th][1].call ELSE None]

Serve(th, c) ==
    /\ phase[c] = "sent"
    /\ phase' = [phase EXCEPT ![c] = "taken"]
    /\ stack[th] = <<>> \/ (Waits(th) /\ OnBehalf(c, stack[th][1].call))
    /\ stack' = [stack EXCEPT ![th] = <<Served(c)>> \o @]
    /\ UNCHANGED parent

\* It will be served by nobody.
Lose(c) ==
    /\ phase[c] = "sent"
    /\ phase' = [phase EXCEPT ![c] = "taken"]
    /\ UNCHANGED <<stack, parent>>

\* The server of a call is done with it.
Reply(th) ==
    /\ Serves(th)
    /\ UNCHANGED <<phase, parent>>
    /\ stack' = [stack EXCEPT ![th] = Tail(@)]

\* A call nobody serves, and on behalf of which nobody is served, is closed.
Closable(c) ==
    /\ phase[c] = "taken" /\ ~OnStack(Served(c))
    /\ \A d \in Calls : OnBehalf(d, c) => phase[d] # "sent" /\ ~OnStack(Served(d))

Close(c) ==
    /\ phase' = [phase EXCEPT ![c] = "over"]
    /\ parent' = [parent EXCEPT ![c] = None]

Over(c) ==
    /\ phase[c] = "taken"
    /\ Close(c)
    /\ Closable(c) /\ ~OnStack(Made(c))
    /\ UNCHANGED stack

\* The caller has its answer, or an error; the call is over now or soon.
Answer(th) ==
    /\ Waits(th)
    /\ LET c == stack[th][1].call IN
         /\ Closable(c)
         /\ stack' = [stack EXCEPT ![th] = Tail(@)]
         /\ Close(c) \/ UNCHANGED <<phase, parent>>

\* A thread goes away in the middle of whatever it does.
Exit(th) ==
    /\ stack[th] # <<>>
    /\ UNCHANGED <<phase, parent>>
    /\ stack' = [stack EXCEPT ![th] = <<>>]

Next ==
    \/ \E th \in Threads, c \in Calls : Call(th, c) \/ Serve(th, c)
    \/ \E c \in Calls : Lose(c) \/ Over(c)
    \/ \E th \in Threads : Reply(th) \/ Answer(th) \/ Exit(th)

Spec == Init /\ [][Next]_vars
=============================================================================
