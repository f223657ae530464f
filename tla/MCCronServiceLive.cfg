SPECIFICATION FairSpec
CONSTANTS
  None = None
  once = once
  often = often
  Jobs = {once, often, extra}
  extra = extra
  Initial = {once, often}
  Every <- MCEvery
  At <- MCAt
  Deletes = {extra}
  Requests <- MCRequests
  Backoff = 1
  MaxAttempts = 1
  StuckAfter = 1
  Stagger = 1
  MaxImmediate = 1
  Concurrency = 1
  WritesBack = FALSE
  MaxTime = 3
  Ends = {"ok", "error"}
  MaxEvents = 1
PROPERTY DueJobsRun
CHECK_DEADLOCK FALSE
