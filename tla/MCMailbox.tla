----------------------------- MODULE MCMailbox -----------------------------
(* The mailbox with a few rotations: enough for one to be replaced while    *)
(* the worker sleeps, while it wakes up and while it is busy.               *)
EXTENDS Mailbox
=============================================================================
