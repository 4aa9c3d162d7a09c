------------------------------- MODULE Backend -------------------------------
(***************************************************************************)
(* The parts of the backend that outlast one call of theirs, side by side. *)
(* They share no state, so that one of them at a time is let run: active   *)
(* says which.                                                             *)
(***************************************************************************)
EXTENDS EmuConsole, ScopeApply, LogcatStream

VARIABLE active

vars == <<emuVars, adbVars, applyVars, logVars, active>>

Init ==
    /\ active \in {"emu", "scope", "logcat"}
    /\ EmuInit /\ ApplyInit /\ LogInit
    /\ active # "emu" => token = "none" /\ authed
    /\ active # "scope" => allowed

Next ==
    \/ active = "emu" /\ EmuNext /\ UNCHANGED <<adbVars, applyVars, logVars, active>>
    \/ active = "scope" /\ ApplyNext /\ UNCHANGED <<emuVars, logVars, active>>
    \/ active = "logcat" /\ LogNext /\ UNCHANGED <<emuVars, adbVars, applyVars, active>>

Spec == Init /\ [][Next]_vars

\* Timers fire, a child that was killed or told to end does, and its output is
\* read to the end.
Fairness ==
    /\ WF_vars(active = "emu" /\ TimesOut /\ UNCHANGED <<adbVars, applyVars, logVars, active>>)
    /\ \A k \in Commands :
           /\ WF_vars(/\ active = "scope" /\ Timeout(k)
                      /\ UNCHANGED <<applyVars, emuVars, logVars, active>>)
           /\ WF_vars(/\ active = "scope" /\ Close(k)
                      /\ UNCHANGED <<applyVars, emuVars, logVars, active>>)
    /\ WF_vars(/\ active = "logcat" /\ logcat # "running"
               /\ Exits \/ ChildCloses \/ (\E n \in 1 .. Len(pipe) : Chunk(n))
               /\ UNCHANGED <<emuVars, adbVars, applyVars, active>>)

FairSpec == Spec /\ Fairness

\* Every promise settles, of the console's command and of every adb command,
\* though the other side never answers and though the time-out races an exit.
RequestsSettle ==
    /\ active = "emu" ~> result # "none"
    /\ \A k \in Commands : child[k] = "running" ~> child[k] = "settled"
=============================================================================
