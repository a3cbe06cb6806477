\* A host that terminates commands and numbers as the README says.
CONSTANTS
  Base = 2
  Width = 2
  Nibble <- MCNibble
  Numbers <- MCNumbers
  Bytes <- MCBytes
  Free <- MCFree
  MaxText = 4
  Hosts <- ReadmeHost
CHECK_DEADLOCK FALSE
SPECIFICATION Spec
INVARIANTS TerminatedJobExact
