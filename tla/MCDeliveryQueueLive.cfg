SPECIFICATION FairSpec
CONSTANTS
  NoEntry = NoEntry
  Entries = {e1, e2}
  Fresh = {e1}
  BestEffort = {e2}
  OnError = {}
  Revocable = {e1, e2}
  Startup = startup
  Drainers = {}
  MaxRetries = 2
  HasBudget = TRUE
  Faults = FALSE
PROPERTY EntriesLeaveQueue
