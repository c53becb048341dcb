--------------------------- MODULE MCSessionScope ---------------------------
(***************************************************************************)
(* Instances of SessionScope for TLC.                                      *)
(***************************************************************************)
EXTENDS SessionScope

CONSTANTS a, b, c
=============================================================================
