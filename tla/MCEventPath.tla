----------------------------- MODULE MCEventPath -----------------------------
(***************************************************************************)
(* Instances of the event path for TLC: a byte of the mouse produces up to *)
(* two events, so that a second push runs with interrupts enabled.         *)
(***************************************************************************)
EXTENDS EventPathRefinement

MCMousePushes == 0 .. 2

=============================================================================
