\* A tester that sends requests as fast as the bus lets it, three of them, and
\* one that waits for each answer on a bus whose frames never end within can0_rx.
CONSTANTS
  MaxRequests = 3
  Buses = {"hurried", "undisturbed"}
SPECIFICATION FairSpec
INVARIANTS CInv OneAnswerEach
PROPERTIES HandledOnce ImplementsResponder RequestAnswered
