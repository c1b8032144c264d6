SPECIFICATION Spec
CONSTANTS
  m1 = m1  m2 = m2  jan = jan  feb = feb  ny = ny  utc = utc
  Sales = {s1}
  Levels = {0}
  Awards = {a1}
  Members = {m1, m2}
  Months = {jan, feb}
  Zones = {ny}
  Rules = {"on_approval"}
  Batches = {b1, b2}
  Requests = {q1}
  Snapshots = {ok}
  Splits <- MCSplits
  MonthKey <- MCMonthKey
  Amount <- MCAmount
  PayoutMin = 2
  NoMember = NoMember  NoMonth = NoMonth  NoBatch = NoBatch  NoPayout = NoPayout
  NoSnapshot = NoSnapshot  Blocked = Blocked
SYMMETRY BatchSymmetry
INVARIANTS BatchesOwnTheirRows PayoutsFollowBatches PayoutIsPositive
PROPERTIES DispatchedMoneyIsFinal ImplementsPayoutBook
