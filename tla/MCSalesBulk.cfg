\* Two calls with one key: sent twice, retried and racing.
CONSTANTS
  s1 = s1
  Sales = {s1}
  Calls = {c1, c2}
  Keys = {k1}
  Policies <- TwoPolicies
  Own = {}
  Scopes <- BothScopes
  MaxPreviews = 1
  MaxTries = 2
  None = None
SPECIFICATION Spec
INVARIANTS TypeOK RowsKeepTheirSale
PROPERTIES ActedAsReviewed AnsweredByExecution
SYMMETRY SymmetricCalls
