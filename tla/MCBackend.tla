------------------------------ MODULE MCBackend ------------------------------
(* A small instance of Backend for TLC. *)
EXTENDS Backend

CONSTANT a1

OneApply == {a1}
ItsCommands == OneApply \X {"reboot", "job"}
=============================================================================
