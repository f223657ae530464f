SPECIFICATION Spec
CONSTANTS
  a = a
  b = b
  a1 = a1
  a2 = a2
  b1 = b1
  Keys = {a, b}
  Ids = {a1, a2, b1}
  Owner <- TwoAndOne
  Ops = {o1, o2, o3}
  Waiters = {w1}
  None = None
SYMMETRY OpSymmetry
INVARIANT IndexesAgree
INVARIANT NoForgottenWaiter
INVARIANT ToldTheTruth
INVARIANT OneBackendPerKey
PROPERTY EndsOnlyItself
