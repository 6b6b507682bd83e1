---------------------------- MODULE MCMousePort ----------------------------
(***************************************************************************)
(* The handshake and the stream of the mouse for TLC: nothing is counted,  *)
(* so only the bytes waiting in the controller are bounded.                *)
(***************************************************************************)
EXTENDS MousePort

=============================================================================
