SPECIFICATION Spec
CONSTANTS
  m1 = m1  m2 = m2  jan = jan  feb = feb  ny = ny  utc = utc
  Sales = {s1}
  Levels = {0, 1}
  Awards = {a1}
  Members = {m1, m2}
  Months = {jan, feb}
  Zones = {ny, utc}
  Rules = {"on_approval", "days_after_delivery"}
  Batches = {b1}
  Requests = {}
  Snapshots = {ok}
  Splits <- MCAllSplits
  MonthKey <- MCMonthKey
  Amount <- MCAmount
  PayoutMin = 2
  NoMember = NoMember  NoMonth = NoMonth  NoBatch = NoBatch  NoPayout = NoPayout
  NoSnapshot = NoSnapshot  Blocked = Blocked
INVARIANTS TypeOK SummaryReconciles VoidTakesBackAll DeliveryEndsTheWait
PROPERTIES ClosedRowsStayClosed
