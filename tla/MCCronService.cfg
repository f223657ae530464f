SPECIFICATION Spec
CONSTANTS
  None = None
  once = once
  often = often
  Jobs = {once, often, extra}
  extra = extra
  Initial = {once, often}
  Every <- MCEvery
  At <- MCAt
  Deletes = {extra}
  Requests <- MCRequests
  Backoff = 1
  MaxAttempts = 1
  StuckAfter = 1
  Stagger = 1
  MaxImmediate = 1
  Concurrency = 1
  WritesBack = TRUE
  MaxTime = 3
  Ends = {"ok", "skipped", "error"}
  MaxEvents = 2
INVARIANT NoOverlap
PROPERTY SlotsKept
PROPERTY OneShotsStayDone
PROPERTY OnlyRequestsEnable
CHECK_DEADLOCK FALSE
