SPECIFICATION Spec
CONSTANTS
  Jobs = {m1, s1}
  Scheduled = {s1}
  NoJob = none
  MaxDeliveries = 2
  Parties = {}
  Faults = {"crash", "interrupt", "error"}
INVARIANTS Exclusion
PROPERTY ImplementsMutex
CHECK_DEADLOCK FALSE
