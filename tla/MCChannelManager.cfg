SPECIFICATION FairSpec
CONSTANTS
  None = None
  Runs = {r1, r2, r3}
  Operators = {o1}
  Monitor = Monitor
  MaxAttempts = 2
  MaxFaults = 1
  Slow = TRUE
INVARIANT OneLiveProvider
INVARIANT StoppedMeansTold
INVARIANT CanBeStopped
PROPERTY BroughtBack
