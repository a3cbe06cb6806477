\* The three cores with their linker scripts.  They stop in main.
CONSTANTS
  Cores <- MCCores
  Main = "core0"
  FillFirst <- MCFillFirst
  FillLast <- MCFillLast
  Own <- MCOwn
  DataFirst <- MCFillFirst
  Sizes <- MCSizes
  Shared <- MCShared
  Blocks <- MCBlocks
  Setups = {"system16mhz", "system40mhz", "system160mhz"}
  Crystals = {16, 40}
  ResetDivider <- MCResetDivider
CHECK_DEADLOCK FALSE
SPECIFICATION BootSpec
INVARIANTS EccBeforeUse DataKept SInv DomainsInRange ExternalClockKept
