SPECIFICATION FairSpec
CONSTANTS
  Metrics = {m1, m2}
  NoOne = NoOne
  MaxConflicts = 2
  Requests = {}
  Now = Now
  Ops = {"code", "publish", "retire", "fail"}
INVARIANTS TypeOK OpenConflictIsShown
PROPERTIES OverdueIsEscalated
CHECK_DEADLOCK FALSE
