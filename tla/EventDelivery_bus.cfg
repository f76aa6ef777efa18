SPECIFICATION FairSpec
CONSTANTS
  Events = {e1, e2}
  Attempts = 2
  QueueSize = 3
  BatchSize = 2
  Faults = {"raise", "redis", "crash"}
INVARIANTS TypeOK EveryCallIsAccounted
PROPERTIES ImplementsDuties EveryCallReturns
