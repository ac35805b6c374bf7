------------------------------ MODULE MCXrange -------------------------------
(***************************************************************************)
(* Small ranges for TLC, ascending, descending and empty ones.             *)
(***************************************************************************)
EXTENDS Xrange

MCBounds == -4 .. 4
MCSteps  == -3 .. 3

=============================================================================
