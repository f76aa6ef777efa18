SPECIFICATION Spec
CONSTANTS
  Consumers = {c1, c2}
  Audiences = {{c1}, {c2}, {c1, c2}}
  Changes = {"definition", "attributes"}
  MaxVersion = 2
  RetainLimit = 2
  Requests = {q1}
  Kinds = {"edit", "publish", "answer"}
  Now = now
SYMMETRY ConsumerSymmetry
INVARIANTS TypeOK NoStrandedVersion ExtendedOnce
PROPERTIES OnlyStaleTimeoutsOverrule EffectiveWithConsent
