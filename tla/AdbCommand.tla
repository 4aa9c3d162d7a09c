------------------------------ MODULE AdbCommand ------------------------------
(***************************************************************************)
(* Children of the backend that run adb: spawning one, its time-out and    *)
(* kill, its exit, the "close" event that settles the promise.  adb itself *)
(* and the device are external; a command that was killed may still have   *)
(* been, or still be, executed.                                            *)
(*                                                                         *)
(* Source: src/backend/lib/adb.js.                                         *)
(***************************************************************************)

CONSTANT Commands  \* places for one command each

VARIABLES
    child,     \* k |-> "idle", "running", "ended" (exit under way) or "settled"
    code,      \* k |-> exit code: "none", "0", "1" or "signal"
    killed,    \* k |-> killed
    executed,  \* k |-> the device has executed the command
    ok         \* k |-> the ok of the result

adbVars == <<child, code, killed, executed, ok>>

AdbInit ==
    /\ child = [k \in Commands |-> "idle"]
    /\ code = [k \in Commands |-> "none"]
    /\ killed = [k \in Commands |-> FALSE]
    /\ executed = [k \in Commands |-> FALSE]
    /\ ok = [k \in Commands |-> FALSE]

\* adb(), up to the promise
Spawn(k) ==
    /\ child' = [child EXCEPT ![k] = "running"]
    /\ code' = [code EXCEPT ![k] = "none"]
    /\ killed' = [killed EXCEPT ![k] = FALSE]
    /\ executed' = [executed EXCEPT ![k] = FALSE]
    /\ ok' = [ok EXCEPT ![k] = FALSE]

\* The command takes effect; that of a killed child may do so late.
Execute(k) ==
    /\ child[k] = "running" \/ killed[k]
    /\ ~executed[k]
    /\ executed' = [executed EXCEPT ![k] = TRUE]
    /\ UNCHANGED <<child, code, killed, ok>>

\* adb exits with the status of the command, or with its own.
Exit(k, status) ==
    /\ child[k] = "running"
    /\ status = "0" => executed[k]
    /\ child' = [child EXCEPT ![k] = "ended"]
    /\ code' = [code EXCEPT ![k] = status]
    /\ UNCHANGED <<killed, executed, ok>>

\* Mutant of Timeout: the kill is only asked for.
TimeoutNoKill(k) ==
    /\ child[k] \in {"running", "ended"} /\ ~killed[k]
    /\ killed' = [killed EXCEPT ![k] = TRUE]
    /\ UNCHANGED <<child, code, executed, ok>>

\* The timer: a child whose exit is already under way cannot be killed.
Timeout(k) ==
    /\ child[k] \in {"running", "ended"} /\ ~killed[k]
    /\ killed' = [killed EXCEPT ![k] = TRUE]
    /\ IF child[k] = "running"
       THEN /\ child' = [child EXCEPT ![k] = "ended"]
            /\ code' = [code EXCEPT ![k] = "signal"]
       ELSE UNCHANGED <<child, code>>
    /\ UNCHANGED <<executed, ok>>

\* Mutant of Close: whatever was not killed went well.
CloseAnyCode(k) ==
    /\ child[k] = "ended"
    /\ child' = [child EXCEPT ![k] = "settled"]
    /\ ok' = [ok EXCEPT ![k] = ~killed[k]]
    /\ UNCHANGED <<code, killed, executed>>

\* The "close" event clears the timer and resolves.
Close(k) ==
    /\ child[k] = "ended"
    /\ child' = [child EXCEPT ![k] = "settled"]
    /\ ok' = [ok EXCEPT ![k] = (code[k] = "0" /\ ~killed[k])]
    /\ UNCHANGED <<code, killed, executed>>

\* What the backend and the children do by themselves.
AdbStep(k) == Exit(k, "0") \/ Exit(k, "1") \/ Timeout(k) \/ Close(k)
=============================================================================
