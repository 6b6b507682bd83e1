------------------------------- MODULE MCPong -------------------------------
(***************************************************************************)
(* A small field for TLC: the sizes keep the proportions that              *)
(* PongAssumption names.                                                   *)
(***************************************************************************)
EXTENDS Pong

MCKeys == {"W", "S", "UP", "DOWN", "SPACE", "R"}
MCDelays == {1, 2, 9}

=============================================================================
