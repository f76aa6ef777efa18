SPECIFICATION Spec
CONSTANTS
  Metrics = {m1, m2}
  NoOne = NoOne
  MaxConflicts = 2
  Requests = {q1}
  Now = Now
  Ops = {"unknown", "pii", "retire"}
INVARIANTS OneActivePerPair
PROPERTIES OnlyStaleDecisionsHide
SYMMETRY MetricSymmetry
