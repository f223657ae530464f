SPECIFICATION Spec
CONSTANTS
  NoEntry = NoEntry
  Entries = {e1, e2}
  Fresh = {e1}
  BestEffort = {}
  OnError = {}
  Revocable = {e1}
  Startup = startup
  Drainers = {wa}
  MaxRetries = 2
  HasBudget = TRUE
  Faults = TRUE
INVARIANT NothingLost
INVARIANT OneWorkerPerEntry
INVARIANT NotResentAfterAck
PROPERTY ImplementsOutbox
