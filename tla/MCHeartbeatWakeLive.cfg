SPECIFICATION FairSpec
CONSTANTS
  Everyone = Everyone
  Sessions = {s1}
  Runners = {r1}
  None = None
  Batches = {b1}
  Coalesce = 1
  RetryAfter = 2
  Reasons = {2, 3}
  Restarts = FALSE
  Switches = TRUE
  Reloads = TRUE
PROPERTY WakesAreAnswered
