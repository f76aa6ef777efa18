SPECIFICATION FairSpec
CONSTANTS
  Jobs = {m1}
  Scheduled = {}
  NoJob = none
  MaxDeliveries = 2
  Parties = {"user", "sweeper"}
  Faults = {"crash", "interrupt", "error", "redis"}
INVARIANTS TypeOK CompletedIsCommitted
PROPERTIES LockIsFreed JobsAreResolved RunsAreResolved
CHECK_DEADLOCK FALSE
