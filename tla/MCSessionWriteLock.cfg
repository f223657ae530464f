SPECIFICATION FairSpec
CONSTANTS
  None = None
  gateway = gateway
  cli = cli
  past = past
  c1 = c1
  c2 = c2
  c3 = c3
  Procs = {gateway, cli, past}
  Callers = {c1, c2, c3}
  Home <- MCHome
  Locks = {l1, l2}
  Reentrant = TRUE
  Cleaners = {c3}
PROPERTY FreedAgain
INVARIANT Exclusive
PROPERTY KeptForUsers
