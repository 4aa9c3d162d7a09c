---------------------------- MODULE BinderBuffers ----------------------------
(***************************************************************************)
(* The buffers of a process and what is put into one of them, side by      *)
(* side.  As an allocated buffer keeps its place, size and pages           *)
(* (BufferUndisturbed), its contents can be looked at alone, and one of    *)
(* the two at a time is let run: active says which.                        *)
(***************************************************************************)
EXTENDS BinderAlloc, BinderObjects

VARIABLE active

buffersVars == <<vars, objVars, active>>

BuffersInit == active \in {"space", "objects"} /\ Init /\ ObjInit

BuffersNext ==
    \/ active = "space" /\ Next /\ UNCHANGED <<objVars, active>>
    \/ active = "objects" /\ ObjNext /\ UNCHANGED <<vars, active>>

BuffersSpec == BuffersInit /\ [][BuffersNext]_buffersVars
=============================================================================
