--------------------------- MODULE MCWorkerLoop ---------------------------
(* A counter of eight values and a map every third rotation: the counter    *)
(* wraps between two maps, and wraps more than once.                        *)
EXTENDS WorkerLoop
=============================================================================
