SPECIFICATION FairSpec
CONSTANTS
  a = a
  b = b
  c = c
  Msgs <- Three
  Queues = {q1, q2}
  None = None
  NoRoute = NoRoute
  BadRoute = BadRoute
  Route <- MixedRoute
  Auth <- MixedAuth
  Settings <- Calm
  Clears = FALSE
INVARIANT NoneVanish
INVARIANT NoOrphan
PROPERTY EveryoneGetsATurn
