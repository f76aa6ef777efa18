SPECIFICATION FairSpec
CONSTANTS
  Consumers = {c1}
  Audiences = {{c1}}
  Changes = {"definition"}
  MaxVersion = 2
  RetainLimit = 2
  Requests = {q1}
  Kinds = {"edit", "publish", "retire", "answer"}
  Now = now
PROPERTIES LegalStatusSteps PendingIsResolved
