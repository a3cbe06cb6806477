----------------------------- MODULE MCCoreStartup -----------------------------
(***************************************************************************)
(* The memory map of the three linker scripts, in blocks of 32 KB from     *)
(* 0x40020000 on, and the three clock set-ups of mode.c.                   *)
(***************************************************************************)
EXTENDS Boot, TLC

MCCores == {"core0", "core1", "core2"}
MCFillFirst == ("core0" :> 0) @@ ("core1" :> 4) @@ ("core2" :> 8)
MCFillLast == ("core0" :> 15) @@ ("core1" :> 19) @@ ("core2" :> 15)
MCOwn == ("core0" :> 0 .. 1) @@ ("core1" :> 4 .. 7) @@ ("core2" :> 8 .. 11)
MCSizes == ("core0" :> 0 .. 2) @@ ("core1" :> 0 .. 4) @@ ("core2" :> 0 .. 2)
MCShared == 12 .. 13
MCBlocks == 0 .. 19
MCResetDivider == [div |-> 0, de |-> TRUE]
=============================================================================
