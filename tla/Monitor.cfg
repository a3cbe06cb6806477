\* A free and a careful host.  A program that is executed need not return.
CONSTANTS
  Base = 2
  Width = 2
  Nibble <- MCNibble
  Numbers <- MCNumbers
  Bytes <- MCBytes
  Free <- MCFree
  MaxText = 4
  Hosts <- MCHosts
CHECK_DEADLOCK FALSE
SPECIFICATION FairSpec
INVARIANTS TypeOK NumberExact JobExact
PROPERTIES OnlyNewlinesFlushed JobEnds
