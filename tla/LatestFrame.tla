---------------------------- MODULE LatestFrame ----------------------------
(***************************************************************************)
(* What the mailbox between the pipeline and a SLAM worker promises: a     *)
(* one-place register of the latest rotation.  Submitting never waits and  *)
(* replaces an unprocessed rotation; the worker gets each rotation at most *)
(* once, never an older one after a newer one, and a rotation that is      *)
(* neither replaced nor taken does not stay in the register for ever.      *)
(***************************************************************************)
EXTENDS Naturals

CONSTANT NoFrame            \* the empty register

VARIABLES slot,             \* the rotation waiting for the worker, or NoFrame
          submitted,        \* how many rotations were submitted
          taken             \* number of the rotation the worker took last

vars == <<slot, submitted, taken>>

(* Rotations are numbered in the order they are submitted. *)
Init ==
  /\ slot = NoFrame
  /\ submitted = 0
  /\ taken = 0

Submit ==
  /\ slot' = submitted + 1
  /\ submitted' = submitted + 1
  /\ UNCHANGED taken

Take ==
  /\ slot # NoFrame
  /\ taken' = slot
  /\ slot' = NoFrame
  /\ UNCHANGED submitted

Next == Submit \/ Take

Spec == Init /\ [][Next]_vars /\ WF_vars(Take)
=============================================================================
