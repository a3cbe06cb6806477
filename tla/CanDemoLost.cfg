\* A tester that waits for each answer, and frames that end at any time.
CONSTANTS
  MaxRequests = 3
  Buses = {"patient"}
SPECIFICATION FairSpec
PROPERTIES RequestAnswered
