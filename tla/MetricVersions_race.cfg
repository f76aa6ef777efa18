SPECIFICATION Spec
CONSTANTS
  Consumers = {c1}
  Audiences = {{c1}}
  Changes = {"definition"}
  MaxVersion = 4
  RetainLimit = 2
  Requests = {q1, q2}
  Kinds = {"edit", "publish"}
  Now = now
INVARIANTS AtMostOnePending VersionInv
