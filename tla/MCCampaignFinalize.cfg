SPECIFICATION Spec
CONSTANTS
  Sessions = {manual, hourly, editor}
  Prizes = {p1, p2}
  StatusInputs = {}
  Unset = Unset
INVARIANTS AwardedAtMostOnce ResultsArePaid
CHECK_DEADLOCK FALSE
