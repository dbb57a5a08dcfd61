------------------------------- MODULE Fleet -------------------------------
(* The cars a hub serves, shared by the modules that keep state per car.   *)

CONSTANT Car                \* car ids
=============================================================================
