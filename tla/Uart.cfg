\* A host that types at its own pace or byte by byte; it may stop, and a getch then waits for ever.
CONSTANTS
  MaxIn = 5
  MaxOut = 4
CHECK_DEADLOCK FALSE
SPECIFICATION FairSpec
INVARIANTS NothingInvented NothingLost UInv
PROPERTIES SentInOrder PutReturns
