SPECIFICATION Spec
CONSTANTS
  Members = {m1, m2}
  Batches = {b1}
  Clerks = {c1, c2}
  Methods = {"check"}
  None = None
  MaxReviews = 2
  MaxRisk = 2
SYMMETRY Symmetry
INVARIANTS
  CheckNumbersAreUnique
PROPERTIES
  NothingSlipsIn
  DispatchedAsReserved
  ScansKeepDecisions
  OneCheckPerPayout
