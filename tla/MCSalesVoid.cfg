\* One bulk void of a sale, and single approvals.
CONSTANTS
  s1 = s1
  Sales = {s1}
  Calls = {c1}
  Keys = {k1}
  Policies <- TwoPolicies
  Own = {}
  Scopes <- BothScopes
  MaxPreviews = 1
  MaxTries = 1
  None = None
SPECIFICATION Spec
INVARIANTS VoidReversesAll
