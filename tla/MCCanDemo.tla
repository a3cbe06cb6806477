------------------------------- MODULE MCCanDemo -------------------------------
(***************************************************************************)
(* TLC instances of CanDemo: see the two configurations.                   *)
(***************************************************************************)
EXTENDS CanDemo, TLC
=============================================================================
