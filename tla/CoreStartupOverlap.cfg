\* The same cores: does any of them lose its data?
CONSTANTS
  Cores <- MCCores
  Main = "core0"
  FillFirst <- MCFillFirst
  FillLast <- MCFillLast
  Own <- MCOwn
  DataFirst <- MCFillFirst
  Sizes <- MCSizes
  Shared <- MCShared
  Blocks <- MCBlocks
  Setups = {"system16mhz", "system40mhz", "system160mhz"}
  Crystals = {16, 40}
  ResetDivider <- MCResetDivider
CHECK_DEADLOCK FALSE
SPECIFICATION BootSpec
INVARIANTS AllDataKept
