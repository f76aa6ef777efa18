SPECIFICATION Spec
CONSTANTS
  Jobs = {m1, s1}
  Scheduled = {s1}
  NoJob = none
  MaxDeliveries = 2
  Parties = {}
  Faults = {"crash", "stall", "redis"}
PROPERTY OthersKeepTheLock
CHECK_DEADLOCK FALSE
