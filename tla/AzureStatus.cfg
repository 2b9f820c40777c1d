SPECIFICATION Spec
CONSTANTS
  Secrets = {k1, k2}
  None = None
  Requests = {q1, q2}
  Collections = {c1}
  MaxErrors = 3
  MaxOutages = 1
INVARIANTS
  TypeOK
  StoredSecretWasAccepted
  InvalidNeedsRefusal
PROPERTIES
  StaleVerdictsDoNotLast
