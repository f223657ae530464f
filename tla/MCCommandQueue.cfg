SPECIFICATION FairSpec
CONSTANTS
  Lanes = {main, cron}
  Tasks = {t1, t2, t3}
  Waiters = {w1}
  MaxConcurrency = 2
  MaxGeneration = 1
INVARIANT WorkConserving
INVARIANT SlotsHeldByCurrentTasks
INVARIANT QueuedOnce
INVARIANT DrainedMeansDone
INVARIANT NoForgottenWaiter
PROPERTY StartsWithinCap
PROPERTY NoOvertaking
PROPERTY QueuedLeavesQueue
