SPECIFICATION Spec
CONSTANTS
  a = a
  b = b
  c = c
  Msgs <- Three
  Queues = {q1, q2}
  None = None
  NoRoute = NoRoute
  BadRoute = BadRoute
  Route <- MixedRoute
  Auth <- MixedAuth
  Settings <- Tight
  Clears = TRUE
INVARIANT BatchesAreUniform
PROPERTY DeliveredOnce
