----------------------------- MODULE MCSession -----------------------------
(* A header of two bytes, so that it can be cut; a buffer of nine, which    *)
(* holds three records of the shortest payload; a payload that fits only    *)
(* after the buffer is drained, and one that never fits; a flush every      *)
(* second record, so that a kill comes before, during and after one.  The   *)
(* second hub's channel holds one event, so that the replay has to wait.    *)
EXTENDS Replay
=============================================================================
