SPECIFICATION Spec
CONSTANTS
  Everyone = Everyone
  Sessions = {s1}
  Runners = {r1, r2}
  None = None
  Batches = {b1, b2}
  Coalesce = 1
  RetryAfter = 2
  Reasons = {3}
  Restarts = TRUE
  Switches = FALSE
  Reloads = FALSE
SYMMETRY BatchSymmetry
VIEW WithoutHistory
INVARIANT NoForgottenWake
INVARIANT HeartbeatsGoOn
PROPERTY RetriesAreNotHurried
PROPERTY ReasonsAreKept
