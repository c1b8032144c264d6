SPECIFICATION Spec
CONSTANTS
  Sessions = {manual, editor}
  Prizes = {p1}
  StatusInputs = {"draft", "active"}
  Unset = Unset
INVARIANTS AwardedAtMostOnce
CHECK_DEADLOCK FALSE
