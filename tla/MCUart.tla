--------------------------------- MODULE MCUart ---------------------------------
(***************************************************************************)
(* TLC instances of Uart: see the two configurations.                      *)
(***************************************************************************)
EXTENDS Uart, TLC
=============================================================================
