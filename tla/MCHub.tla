------------------------------- MODULE MCHub -------------------------------
(* The whole hub, small.  Two cars, one client that comes, lags, leaves and *)
(* returns, two events and a map at every rotation (views); one car alone   *)
(* with five events, so that rotations queue up, are replaced and overfill  *)
(* the trajectory (rotations); one car, one client and two events for       *)
(* liveness (live, stopped); a ring of two, which three events and what     *)
(* they cause overrun (lag).                                                *)
EXTENDS OlivawHub
=============================================================================
