------------------------ MODULE CommissionLedger_proofs ------------------------
(***************************************************************************)
(* Theorems about CommissionLedger, for every value of its constants.      *)
(***************************************************************************)
EXTENDS CommissionLedger, TLAPS

Summaries == [Months -> [Lines -> [Columns -> Int]]]

(***************************************************************************)
(* Lemmas about the helpers.                                               *)
(***************************************************************************)

\* Adding postings to the monthly summaries yields monthly summaries (bumpSummary).
LEMMA PostType ==
  ASSUME NEW sm \in Summaries, NEW posts, NEW col, NEW k \in Int
  PROVE  Post(sm, posts, col, k) \in Summaries
<1>1. \A ln, R : Units(R, ln) \in Int
  BY DEF Units
<1>2. \A mo \in Months, ln \in Lines, c \in Columns :
        /\ sm[mo][ln][c] \in Int
        /\ sm[mo][ln][c] + k * Units(PostedIn(posts, mo), ln) \in Int
  BY <1>1 DEF Summaries
<1> QED BY <1>2 DEF Post, Summaries

\* Moving postings between two columns yields monthly summaries.
LEMMA MoveType ==
  ASSUME NEW sm \in Summaries, NEW posts, NEW from, NEW to
  PROVE  Move(sm, posts, from, to) \in Summaries
BY PostType DEF Move

\* The rows of a sale are named by their type and line.
LEMMA CommissionRowNames ==
  ASSUME NEW s \in Sales, NEW r \in CommissionRows(s)
  PROVE  /\ r \in RowIds
         /\ r[1] = "commission"
         /\ r[2] \in SaleLines
         /\ r[2][1] = s
         /\ r[2][2] \in Levels
BY DEF RowIds, SaleLines, CommissionRows

\* The month a sale is posted to is a month (lockSale, fallbackMonth).
LEMMA SaleMonthType ==
  ASSUME TypeOK, NEW s \in Sales
  PROVE  SaleMonth(s) \in Months
BY LedgerAssumption DEF TypeOK, Sale, SaleMonth

\* A new row with typed fields is a row.
LEMMA NewRowType ==
  ASSUME NEW status \in LedgerStatuses, NEW member \in Members \cup {NoMember},
         NEW month \in Months \cup {NoMonth}, NEW matures \in BOOLEAN
  PROVE  NewRow(status, member, month, matures) \in Row
BY DEF NewRow, Row

\* The row updates of the engine keep a row a row.
LEMMA RowUpdates ==
  ASSUME NEW row \in Row
  PROVE  /\ \A st \in LedgerStatuses : [row EXCEPT !.status = st] \in Row
         /\ [row EXCEPT !.matures = TRUE] \in Row
         /\ \A b \in Batches, p \in PayoutIds : Claimed(row, b, p) \in Row
         /\ Released(row) \in Row
<1>1. /\ row.status \in LedgerStatuses
      /\ row.member \in Members \cup {NoMember}
      /\ row.month \in Months \cup {NoMonth}
      /\ row.matures \in BOOLEAN
      /\ row.batch \in Batches \cup {NoBatch}
      /\ row.payout \in PayoutIds \cup {NoPayout}
  BY DEF Row
<1> QED BY <1>1 DEF Row, Claimed, Released, LedgerStatuses, Columns

\* What a batch changes in a row, and what it leaves alone.
LEMMA BatchEdits ==
  ASSUME NEW row \in Row, NEW b, NEW p
  PROVE  /\ Claimed(row, b, p).status = "processing"
         /\ Claimed(row, b, p).batch = b
         /\ Claimed(row, b, p).payout = p
         /\ Claimed(row, b, p).member = row.member
         /\ Claimed(row, b, p).month = row.month
         /\ Released(row).status = "payable"
         /\ Released(row).batch = NoBatch
         /\ Released(row).payout = NoPayout
         /\ Released(row).member = row.member
         /\ Released(row).month = row.month
BY DEF Row, Claimed, Released

\* A reserved payout belongs to the member it is reserved for: it is an open
\* payout of the member or the one the batch creates.
LEMMA PayoutForType ==
  ASSUME NEW b \in Batches, NEW m \in Members, NEW period
  PROVE  /\ PayoutFor(b, m, period) \in PayoutIds
         /\ PayoutFor(b, m, period)[2] = m
<1>1. \A p \in OpenIn(m, period, "requested") : p \in PayoutIds /\ p[2] = m
  BY DEF OpenIn, OpenPayouts
<1>2. <<b, m>> \in PayoutIds
  BY DEF PayoutIds
<1> QED BY <1>1, <1>2 DEF PayoutFor

(***************************************************************************)
(* Type correctness.                                                       *)
(***************************************************************************)

\* The initial tables are typed.
LEMMA TypeInit == Init => TypeOK
<1> SUFFICES ASSUME Init PROVE TypeOK
  OBVIOUS
<1> USE DEF Init
<1>1. sale \in [Sales -> Sale]
  BY DEF Sale, SaleStatuses
<1>2. ledger \in [RowIds -> Row]
  BY NewRowType DEF NoRow, LedgerStatuses
<1>3. summary \in [Months -> [Lines -> [Columns -> Int]]]
  OBVIOUS
<1>4. batch \in [Batches -> Batch]
  BY DEF Batch, BatchStatuses
<1>5. payout \in [PayoutIds -> Payout]
  BY DEF Payout, NoPayoutRow, PayoutStatuses
<1>6. /\ locked \in SUBSET Months
      /\ settings \in [rule: Rules, zone: Zones]
      /\ compliance \in [Members -> Snapshots \cup {Blocked}]
  OBVIOUS
<1> QED BY <1>1, <1>2, <1>3, <1>4, <1>5, <1>6 DEF TypeOK

\* approveSale writes typed rows and summaries.
LEMMA TypeApprove ==
  ASSUME TypeOK, NEW s \in Sales, ApproveSaleInTx(s)
  PROVE  TypeOK'
<1>1. sale' \in [Sales -> Sale]
  BY SaleMonthType DEF ApproveSaleInTx, TypeOK, Sale, SaleStatuses
<1>2. PICK split \in Splits[s] :
        /\ ledger' = [r \in RowIds |->
             IF r \in Earning(s, split)
             THEN NewRow(StartStatus, split[r[2][2]], NoMonth, StartMatures(s))
             ELSE ledger[r]]
        /\ summary' = Post(summary, SalePostings(s, Earning(s, split)), StartStatus, 1)
  BY DEF ApproveSaleInTx
<1>3. StartStatus \in LedgerStatuses /\ StartMatures(s) \in BOOLEAN
  BY DEF StartStatus, StartMatures, LedgerStatuses, Columns
<1>4. \A r \in Earning(s, split) : split[r[2][2]] \in Members \cup {NoMember}
  BY LedgerAssumption, CommissionRowNames DEF Earning
<1>5. ledger' \in [RowIds -> Row]
  BY <1>2, <1>3, <1>4, NewRowType DEF TypeOK
<1>6. summary' \in [Months -> [Lines -> [Columns -> Int]]]
  BY <1>2, PostType DEF TypeOK, Summaries
<1> QED BY <1>1, <1>5, <1>6 DEF TypeOK, ApproveSaleInTx

\* voidSale writes typed rows and summaries.
LEMMA TypeVoid ==
  ASSUME TypeOK, NEW s \in Sales, VoidSale(s)
  PROVE  TypeOK'
<1>1. sale' \in [Sales -> Sale]
  BY DEF VoidSale, TypeOK, Sale, SaleStatuses
<1>2. \A st : ReversalStatus(st) \in LedgerStatuses
  BY DEF ReversalStatus, LedgerStatuses, Columns
<1>3. \A r \in RowIds : Original(r) \in Entries(s, Columns) =>
        ledger[Original(r)].member \in Members \cup {NoMember}
  BY CommissionRowNames DEF Entries, TypeOK, Row
<1>4. ledger' \in [RowIds -> Row]
  BY <1>2, <1>3, NewRowType, RowUpdates DEF VoidSale, TypeOK, LedgerStatuses, Columns
<1>5. summary' \in [Months -> [Lines -> [Columns -> Int]]]
  <2>1. summary' = Post(Post(summary, SalePostings(s, Entries(s, {"pending"})), "pending", -1),
                        SalePostings(s, Entries(s, {"payable", "paid"})), "payable", -1)
    BY DEF VoidSale
  <2>2. summary \in Summaries
    BY DEF TypeOK, Summaries
  <2>3. Post(summary, SalePostings(s, Entries(s, {"pending"})), "pending", -1) \in Summaries
    BY <2>2, PostType
  <2>4. summary' \in Summaries
    BY <2>1, <2>3, PostType
  <2> QED BY <2>4 DEF Summaries
<1> QED BY <1>1, <1>4, <1>5 DEF TypeOK, VoidSale

\* The other steps of sales write typed rows and summaries.
LEMMA TypeSaleStep ==
  ASSUME TypeOK, SaleStep
  PROVE  TypeOK'
<1>1. CASE \E s \in Sales : ApproveSaleInTx(s)
  BY <1>1, TypeApprove
<1>2. CASE \E s \in Sales : VoidSale(s)
  BY <1>2, TypeVoid
<1>3. ASSUME NEW s \in Sales, MarkDelivered(s)
      PROVE  TypeOK'
  <2>1. sale' \in [Sales -> Sale]
    BY <1>3 DEF MarkDelivered, TypeOK, Sale
  <2>2. ledger' \in [RowIds -> Row]
    BY <1>3, RowUpdates DEF MarkDelivered, TypeOK
  <2> QED BY <1>3, <2>1, <2>2 DEF MarkDelivered, TypeOK
<1>4. ASSUME NEW R \in SUBSET DueRows, MatureCommissions(R)
      PROVE  TypeOK'
  <2>1. ledger' \in [RowIds -> Row]
    BY <1>4, RowUpdates DEF MatureCommissions, TypeOK, LedgerStatuses, Columns
  <2>2. summary' \in [Months -> [Lines -> [Columns -> Int]]]
    BY <1>4, MoveType DEF MatureCommissions, TypeOK, Summaries
  <2> QED BY <1>4, <2>1, <2>2 DEF MatureCommissions, TypeOK
<1>5. ASSUME NEW a \in Awards, NEW m \in Members, NEW mo \in Months, AwardBonus(a, m, mo)
      PROVE  TypeOK'
  <2>1. NewRow("payable", m, mo, FALSE) \in Row
    BY NewRowType DEF LedgerStatuses, Columns
  <2>2. ledger' \in [RowIds -> Row]
    BY <1>5, <2>1 DEF AwardBonus, TypeOK
  <2>3. summary' \in [Months -> [Lines -> [Columns -> Int]]]
    BY <1>5, PostType DEF AwardBonus, TypeOK, Summaries
  <2> QED BY <1>5, <2>2, <2>3 DEF AwardBonus, TypeOK
<1> QED BY <1>1, <1>2, <1>3, <1>4, <1>5 DEF SaleStep, ApproveSale, BulkApproveSale

\* A row's name tells its type, and its line is a sale's or an award's.
LEMMA RowNames ==
  ASSUME NEW r \in RowIds
  PROVE  \/ r[1] \in {"commission", "reversal"} /\ r[2] \in SaleLines /\ r[2][1] \in Sales
         \/ r[1] = "adjustment" /\ r[2] \in AwardLines
BY DEF RowIds, SaleLines

\* The month under which a live row is posted is a month.
LEMMA RowMonthType ==
  ASSUME TypeOK, MonthsAreFrozen, NEW r \in RowIds, ledger[r].status # "none"
  PROVE  RowMonth(r) \in Months
<1>1. CASE r[1] = "adjustment"
  BY <1>1 DEF RowMonth, MonthsAreFrozen
<1>2. CASE r[1] # "adjustment"
  BY <1>2, RowNames, SaleMonthType DEF RowMonth
<1> QED BY <1>1, <1>2

\* reservePayoutBatch writes typed batches, payouts, rows and summaries.
LEMMA TypeReserve ==
  ASSUME TypeOK, MonthsAreFrozen, NEW b \in Batches, NEW T \in SUBSET Members,
         NEW period \in Months, ReservePayoutBatch(b, T, period)
  PROVE  TypeOK'
<1> DEFINE M == Ready(T, period)
<1>1. M \subseteq Members
  BY DEF Ready, Considered
<1>2. \A r \in ClaimedRows(M) :
        r \in RowIds /\ ledger[r].status = "payable" /\ ledger[r].member \in M
  BY DEF ClaimedRows, PayableRows
<1>3. \A r \in ClaimedRows(M) : PayoutFor(b, ledger[r].member, period) \in PayoutIds
  BY <1>1, <1>2, PayoutForType
<1>4. \A r \in ClaimedRows(M) : RowMonth(r) \in Months
  BY <1>2, RowMonthType
<1>5. ItemsFor(b, M, period) \in SUBSET Item
  BY <1>2, <1>3, <1>4 DEF ItemsFor, Item
<1>6. batch' \in [Batches -> Batch]
  BY <1>5 DEF ReservePayoutBatch, TypeOK, Batch, BatchStatuses
<1>7. payout' \in [PayoutIds -> Payout]
  BY <1>1 DEF ReservePayoutBatch, TypeOK, Payout, PayoutStatuses, Ready
<1>8. ledger' \in [RowIds -> Row]
  BY <1>3, RowUpdates DEF ReservePayoutBatch, TypeOK, LedgerStatuses, Columns
<1>9. summary' \in [Months -> [Lines -> [Columns -> Int]]]
  BY MoveType DEF ReservePayoutBatch, TypeOK, Summaries
<1> QED BY <1>6, <1>7, <1>8, <1>9 DEF TypeOK, ReservePayoutBatch

\* The payouts of a batch stay payouts when they follow it.
LEMMA PayoutsMovedType ==
  ASSUME TypeOK, NEW b, NEW status \in PayoutStatuses
  PROVE  PayoutsMoved(b, status) \in [PayoutIds -> Payout]
BY DEF PayoutsMoved, TypeOK, Payout

\* The other payout steps write typed tables.
LEMMA TypePayoutStep ==
  ASSUME TypeOK, MonthsAreFrozen, PayoutStep
  PROVE  TypeOK'
<1>1. ASSUME NEW q \in Requests, NEW m \in Members, NEW mo \in Months, RequestPayout(q, m, mo)
      PROVE  TypeOK'
  <2>1. payout' \in [PayoutIds -> Payout]
    BY <1>1 DEF RequestPayout, TypeOK, Payout, PayoutStatuses
  <2> QED BY <1>1, <2>1 DEF RequestPayout, TypeOK
<1>2. ASSUME NEW p \in PayoutIds, RejectPayoutRequest(p)
      PROVE  TypeOK'
  <2>1. payout' \in [PayoutIds -> Payout]
    BY <1>2 DEF RejectPayoutRequest, TypeOK, Payout, PayoutStatuses
  <2> QED BY <1>2, <2>1 DEF RejectPayoutRequest, TypeOK
<1>3. CASE \E b \in Batches, T \in SUBSET Members, mo \in Months : ReservePayoutBatch(b, T, mo)
  BY <1>3, TypeReserve
<1>4. ASSUME NEW b \in Batches, DispatchPayoutBatch(b)
      PROVE  TypeOK'
  <2>1. batch' \in [Batches -> Batch]
    BY <1>4 DEF DispatchPayoutBatch, TypeOK, Batch, BatchStatuses
  <2> QED BY <1>4, <2>1 DEF DispatchPayoutBatch, TypeOK
<1>5. ASSUME NEW b \in Batches, SettlePayoutBatch(b)
      PROVE  TypeOK'
  <2>1. batch' \in [Batches -> Batch]
    BY <1>5 DEF SettlePayoutBatch, TypeOK, Batch, BatchStatuses
  <2>2. payout' \in [PayoutIds -> Payout]
    BY <1>5, PayoutsMovedType DEF SettlePayoutBatch, PayoutStatuses
  <2>3. ledger' \in [RowIds -> Row]
    BY <1>5, RowUpdates DEF SettlePayoutBatch, TypeOK, LedgerStatuses, Columns
  <2>4. summary' \in [Months -> [Lines -> [Columns -> Int]]]
    BY <1>5, MoveType DEF SettlePayoutBatch, TypeOK, Summaries
  <2> QED BY <1>5, <2>1, <2>2, <2>3, <2>4 DEF SettlePayoutBatch, TypeOK
<1>6. ASSUME NEW b \in Batches, FailPayoutBatch(b)
      PROVE  TypeOK'
  <2>1. batch' \in [Batches -> Batch]
    BY <1>6 DEF FailPayoutBatch, TypeOK, Batch, BatchStatuses
  <2>2. payout' \in [PayoutIds -> Payout]
    BY <1>6, PayoutsMovedType DEF FailPayoutBatch, PayoutStatuses
  <2>3. ledger' \in [RowIds -> Row]
    BY <1>6, RowUpdates DEF FailPayoutBatch, TypeOK
  <2>4. summary' \in [Months -> [Lines -> [Columns -> Int]]]
    BY <1>6, MoveType DEF FailPayoutBatch, TypeOK, Summaries
  <2> QED BY <1>6, <2>1, <2>2, <2>3, <2>4 DEF FailPayoutBatch, TypeOK
<1> QED BY <1>1, <1>2, <1>3, <1>4, <1>5, <1>6 DEF PayoutStep

\* Administrators' steps write typed tables.
LEMMA TypeAdminStep ==
  ASSUME TypeOK, AdminStep
  PROVE  TypeOK'
BY DEF AdminStep, TypeOK, LockPeriod, UnlockPeriod, UpdateSettings, ReviewCompliance

(***************************************************************************)
(* The months of live rows are frozen.                                     *)
(***************************************************************************)

\* What the engine does to rows, sales and their months in one step: a row
\* becomes live only with its month, and a month once set is kept.
LEMMA FrozenStep ==
  ASSUME TypeOK, MonthsAreFrozen, [Next]_vars
  PROVE  MonthsAreFrozen'
<1>1. ASSUME NEW s \in Sales, ApproveSaleInTx(s)
      PROVE  MonthsAreFrozen'
  <2>1. /\ \A t \in Sales : t # s => sale'[t] = sale[t]
        /\ sale'[s].month = SaleMonth(s)
    BY <1>1 DEF ApproveSaleInTx, TypeOK
  <2>2. \A t \in Sales : sale[t].month \in Months => sale'[t].month \in Months
    BY <2>1, SaleMonthType
  <2>3. \A r \in RowIds : ledger'[r] = ledger[r] \/ r \in CommissionRows(s)
    BY <1>1 DEF ApproveSaleInTx, TypeOK, Earning
  <2> QED BY <2>1, <2>2, <2>3, RowNames, CommissionRowNames, SaleMonthType DEF MonthsAreFrozen
<1>2. ASSUME NEW s \in Sales, VoidSale(s)
      PROVE  MonthsAreFrozen'
  <2>1. \A t \in Sales : sale'[t].month = sale[t].month
    BY <1>2 DEF VoidSale, TypeOK, Sale
  <2>2. \A r \in RowIds :
          \/ ledger'[r] = ledger[r]
          \/ r \in Entries(s, Columns)
          \/ r[1] = "reversal" /\ Original(r) \in Entries(s, Columns)
    BY <1>2 DEF VoidSale, TypeOK, Entries, Columns
  <2>3. \A r \in Entries(s, Columns) : r[1] # "adjustment" /\ sale[r[2][1]].month \in Months
    BY CommissionRowNames DEF Entries, Columns, MonthsAreFrozen
  <2> QED BY <2>1, <2>2, <2>3, RowNames DEF MonthsAreFrozen, Original
<1>3. ASSUME \A t \in Sales : sale'[t].month = sale[t].month,
             \A r \in RowIds : /\ ledger[r].status = "none" => ledger'[r].status = "none"
                               /\ ledger'[r].month = ledger[r].month
      PROVE  MonthsAreFrozen'
  BY <1>3, RowNames DEF MonthsAreFrozen
<1>4. ASSUME NEW s \in Sales, MarkDelivered(s)
      PROVE  MonthsAreFrozen'
  <2>1. \A t \in Sales : sale'[t].month = sale[t].month
    BY <1>4 DEF MarkDelivered, TypeOK, Sale
  <2>2. \A r \in RowIds : /\ ledger[r].status = ledger'[r].status
                         /\ ledger'[r].month = ledger[r].month
    BY <1>4 DEF MarkDelivered, TypeOK, Row
  <2> QED BY <1>3, <2>1, <2>2
<1>5. ASSUME NEW R \in SUBSET DueRows, MatureCommissions(R)
      PROVE  MonthsAreFrozen'
  <2>1. \A r \in RowIds : /\ ledger[r].status = "none" => ledger'[r].status = "none"
                         /\ ledger'[r].month = ledger[r].month
    BY <1>5 DEF MatureCommissions, DueRows, TypeOK, Row
  <2> QED BY <1>3, <1>5, <2>1 DEF MatureCommissions
<1>6. ASSUME NEW a \in Awards, NEW m \in Members, NEW mo \in Months, AwardBonus(a, m, mo)
      PROVE  MonthsAreFrozen'
  <2>1. \A r \in RowIds :
          \/ ledger'[r] = ledger[r]
          \/ r[1] = "adjustment" /\ ledger'[r].month = mo
    BY <1>6 DEF AwardBonus, TypeOK, NewRow
  <2> QED BY <1>6, <2>1 DEF AwardBonus, MonthsAreFrozen
<1>7. ASSUME NEW b \in Batches, NEW T \in SUBSET Members, NEW mo \in Months,
             ReservePayoutBatch(b, T, mo)
      PROVE  MonthsAreFrozen'
  <2>1. \A r \in ClaimedRows(Ready(T, mo)) : ledger[r].status = "payable"
    BY DEF ClaimedRows, PayableRows
  <2>2. \A r \in RowIds : /\ ledger[r].status = "none" => ledger'[r].status = "none"
                         /\ ledger'[r].month = ledger[r].month
    BY <1>7, <2>1, BatchEdits DEF ReservePayoutBatch, TypeOK
  <2> QED BY <1>3, <1>7, <2>2 DEF ReservePayoutBatch
<1>8. ASSUME NEW b \in Batches, SettlePayoutBatch(b)
      PROVE  MonthsAreFrozen'
  <2>1. \A r \in RowIds : /\ ledger[r].status = "none" => ledger'[r].status = "none"
                         /\ ledger'[r].month = ledger[r].month
    BY <1>8 DEF SettlePayoutBatch, Intact, TypeOK, Row
  <2> QED BY <1>3, <1>8, <2>1 DEF SettlePayoutBatch
<1>9. ASSUME NEW b \in Batches, FailPayoutBatch(b)
      PROVE  MonthsAreFrozen'
  <2>1. \A r \in RowIds : /\ ledger[r].status = "none" => ledger'[r].status = "none"
                         /\ ledger'[r].month = ledger[r].month
    BY <1>9, BatchEdits DEF FailPayoutBatch, TypeOK
  <2> QED BY <1>3, <1>9, <2>1 DEF FailPayoutBatch
<1>10. ASSUME UNCHANGED <<sale, ledger>>
       PROVE  MonthsAreFrozen'
  BY <1>3, <1>10
<1>11. ASSUME \/ \E q \in Requests, m \in Members, mo \in Months : RequestPayout(q, m, mo)
              \/ \E p \in PayoutIds : RejectPayoutRequest(p)
              \/ \E b \in Batches : DispatchPayoutBatch(b)
              \/ AdminStep
              \/ UNCHANGED vars
       PROVE  UNCHANGED <<sale, ledger>>
  BY <1>11 DEF RequestPayout, RejectPayoutRequest, DispatchPayoutBatch, AdminStep, LockPeriod,
     UnlockPeriod, UpdateSettings, ReviewCompliance, vars
<1> QED BY <1>1, <1>2, <1>4, <1>5, <1>6, <1>7, <1>8, <1>9, <1>10, <1>11
        DEF Next, SaleStep, ApproveSale, BulkApproveSale, PayoutStep

\* The initial tables hold no live row.
LEMMA FrozenInit == Init => MonthsAreFrozen
BY DEF Init, MonthsAreFrozen, NoRow, NewRow

(***************************************************************************)
(* Every reachable state is typed, and the month of every live row is      *)
(* frozen.  The two are proved together: an item's month is the month of   *)
(* its row, which is a month only because live rows have theirs.           *)
(***************************************************************************)
THEOREM TypeCorrect == Spec => [](TypeOK /\ MonthsAreFrozen)
<1>1. Init => TypeOK /\ MonthsAreFrozen
  BY TypeInit, FrozenInit
<1>2. TypeOK /\ MonthsAreFrozen /\ [Next]_vars => (TypeOK /\ MonthsAreFrozen)'
  <2> SUFFICES ASSUME TypeOK, MonthsAreFrozen, [Next]_vars
               PROVE  TypeOK'
    BY FrozenStep
  <2>1. CASE Next
    BY <2>1, TypeSaleStep, TypePayoutStep, TypeAdminStep DEF Next
  <2>2. CASE UNCHANGED vars
    BY <2>2 DEF vars, TypeOK
  <2> QED BY <2>1, <2>2
<1> QED BY <1>1, <1>2, PTL DEF Spec

(***************************************************************************)
(* Voiding a sale takes back exactly what the sale paid.                   *)
(***************************************************************************)
\* VoidTakesBackAll is not inductive: a void must find every commission row
\* live or absent, and an absent row must have no member to take back from.
VoidInv ==
  /\ \A r \in RowIds : ledger[r].status = "none" => ledger[r].member = NoMember
  /\ \A s \in Sales : sale[s].status # "void" =>
       \A r \in CommissionRows(s) : ledger[r].status # "reversed"
  /\ VoidTakesBackAll

\* The status changes of maturation and of payout batches.
Moves == {<<"pending", "payable">>, <<"payable", "processing">>,
          <<"processing", "paid">>, <<"processing", "payable">>}

\* The reversal row of a commission row.
LEMMA ReversalNames ==
  ASSUME NEW s \in Sales, NEW r \in CommissionRows(s)
  PROVE  /\ <<"reversal", r[2]>> \in RowIds
         /\ Original(<<"reversal", r[2]>>) = r
BY DEF RowIds, SaleLines, CommissionRows, Original

\* No two sales share a row.
LEMMA SalesShareNoRow ==
  ASSUME NEW s \in Sales, NEW t \in Sales, s # t
  PROVE  CommissionRows(s) \cap CommissionRows(t) = {}
BY DEF CommissionRows

\* The initial tables: no sale is void and no row exists.
LEMMA VoidInit == Init => VoidInv
BY CommissionRowNames, ReversalNames DEF Init, VoidInv, VoidTakesBackAll, TakenBack, NoRow, NewRow

\* A step that voids no sale and only moves rows through maturation and payout.
LEMMA VoidMoves ==
  ASSUME TypeOK, VoidInv,
         \A s \in Sales : sale'[s].status = sale[s].status,
         \A r \in RowIds :
           \/ /\ ledger'[r].member = ledger[r].member
              /\ \/ ledger'[r].status = ledger[r].status
                 \/ <<ledger[r].status, ledger'[r].status>> \in Moves
           \/ r[1] = "adjustment" /\ ledger'[r].status # "none"
  PROVE  VoidInv'
<1>1. ASSUME NEW r \in RowIds, ledger'[r].status = "none"
      PROVE  ledger'[r].member = NoMember
  BY <1>1 DEF Moves, VoidInv
<1>2. ASSUME NEW s \in Sales, sale'[s].status # "void", NEW r \in CommissionRows(s)
      PROVE  ledger'[r].status # "reversed"
  BY <1>2, CommissionRowNames DEF Moves, VoidInv
<1>3. ASSUME NEW s \in Sales, NEW r \in CommissionRows(s)
      PROVE  TakenBack(s, r)'
  BY <1>3, CommissionRowNames, ReversalNames DEF Moves, VoidInv, VoidTakesBackAll, TakenBack, Columns
<1> QED BY <1>1, <1>2, <1>3 DEF VoidInv, VoidTakesBackAll

\* approveSale: only rows of the sale become live, and it is not void.
LEMMA VoidApprove ==
  ASSUME TypeOK, VoidInv, NEW s \in Sales, ApproveSaleInTx(s)
  PROVE  VoidInv'
<1>1. PICK split \in Splits[s] :
        ledger' = [r \in RowIds |->
           IF r \in Earning(s, split)
           THEN NewRow(StartStatus, split[r[2][2]], NoMonth, StartMatures(s))
           ELSE ledger[r]]
  BY DEF ApproveSaleInTx
<1>2. \A r \in RowIds : \/ ledger'[r] = ledger[r]
                        \/ /\ r \in CommissionRows(s)
                           /\ ledger'[r].status \in {"pending", "payable"}
  BY <1>1 DEF NewRow, StartStatus, Earning
<1>3. /\ \A t \in Sales : t # s => sale'[t] = sale[t]
      /\ sale[s].status # "void" /\ sale'[s].status = "approved"
  BY DEF ApproveSaleInTx, TypeOK
<1>4. ASSUME NEW t \in Sales, NEW r \in CommissionRows(t)
      PROVE  /\ sale'[t].status # "void" => ledger'[r].status # "reversed"
             /\ TakenBack(t, r)'
  <2>1. TakenBack(t, r) /\ (sale[t].status # "void" => ledger[r].status # "reversed")
    BY DEF VoidInv, VoidTakesBackAll
  <2>2. ledger'[<<"reversal", r[2]>>] = ledger[<<"reversal", r[2]>>]
    BY <1>2, CommissionRowNames, ReversalNames
  <2>3. CASE t = s
    BY <1>2, <1>3, <2>1, <2>2, <2>3, CommissionRowNames DEF TakenBack
  <2>4. CASE t # s
    <3>1. ledger'[r] = ledger[r] /\ sale'[t] = sale[t]
      BY <1>2, <1>3, <2>4, CommissionRowNames, SalesShareNoRow
    <3> QED BY <2>1, <2>2, <3>1 DEF TakenBack
  <2> QED BY <2>3, <2>4
<1>5. ASSUME NEW r \in RowIds, ledger'[r].status = "none"
      PROVE  ledger'[r].member = NoMember
  BY <1>2, <1>5 DEF VoidInv
<1> QED BY <1>4, <1>5 DEF VoidInv, VoidTakesBackAll

\* voidSale: every live row of the sale gets its reversal.
LEMMA VoidVoid ==
  ASSUME TypeOK, VoidInv, NEW s \in Sales, VoidSale(s)
  PROVE  VoidInv'
<1>1. /\ \A t \in Sales : t # s => sale'[t] = sale[t]
      /\ sale[s].status # "void" /\ sale'[s].status = "void"
  BY DEF VoidSale, TypeOK, Sale
<1>2. ASSUME NEW r \in Entries(s, {"pending", "payable"})
      PROVE  ledger'[r].status = "reversed" /\ ledger'[r].member = ledger[r].member
  <2>1. r \in RowIds
    BY CommissionRowNames DEF Entries
  <2>2. ledger'[r] = [ledger[r] EXCEPT !.status = "reversed"]
    BY <2>1 DEF VoidSale
  <2> QED BY <2>1, <2>2 DEF TypeOK, Row
<1>3. ASSUME NEW r \in RowIds, r[1] = "reversal", Original(r) \in Entries(s, Columns)
      PROVE  /\ ledger'[r].status = ReversalStatus(ledger[Original(r)].status)
             /\ ledger'[r].member = ledger[Original(r)].member
  <2>1. r \notin Entries(s, {"pending", "payable"})
    BY <1>3, CommissionRowNames DEF Entries
  <2> QED BY <1>3, <2>1 DEF VoidSale, NewRow
<1>4. ASSUME NEW r \in RowIds, r \notin Entries(s, {"pending", "payable"}),
             ~(r[1] = "reversal" /\ Original(r) \in Entries(s, Columns))
      PROVE  ledger'[r] = ledger[r]
  BY <1>4 DEF VoidSale
<1>5. ASSUME NEW t \in Sales, t # s, NEW r \in CommissionRows(t)
      PROVE  ledger'[r] = ledger[r] /\ ledger'[<<"reversal", r[2]>>] = ledger[<<"reversal", r[2]>>]
  <2>1. r \notin Entries(s, {"pending", "payable"}) /\ r \notin Entries(s, Columns)
    BY <1>5, SalesShareNoRow DEF Entries
  <2>2. <<"reversal", r[2]>> \notin Entries(s, {"pending", "payable"})
    BY CommissionRowNames DEF Entries
  <2> QED BY <1>4, <2>1, <2>2, CommissionRowNames, ReversalNames
<1>6. ASSUME NEW r \in CommissionRows(s)
      PROVE  TakenBack(s, r)'
  <2> DEFINE reversal == <<"reversal", r[2]>>
  <2>1. /\ r \in RowIds /\ r[1] = "commission"
        /\ reversal \in RowIds /\ reversal[1] = "reversal" /\ Original(reversal) = r
    BY CommissionRowNames, ReversalNames
  <2>2. /\ ledger[r].status \in LedgerStatuses \ {"reversed", "processing"}
        /\ ledger[reversal].status = "none" /\ ledger[reversal].member = NoMember
        /\ ledger[r].status = "none" => ledger[r].member = NoMember
    <3>1. ledger[r].status \in LedgerStatuses
      BY <2>1 DEF TypeOK, Row
    <3>2. ledger[r].status # "processing"
      BY DEF VoidSale, Entries
    <3> QED BY <1>1, <2>1, <3>1, <3>2 DEF VoidInv, VoidTakesBackAll, TakenBack
  <2>3. reversal \notin Entries(s, {"pending", "payable"})
    BY <2>1, CommissionRowNames DEF Entries
  <2> HIDE DEF reversal
  <2>4. TakenBack(s, r)' <=>
          /\ ledger'[reversal].member = ledger'[r].member
          /\ \/ ledger'[r].status \in {"none", "reversed"} /\ ledger'[reversal].status = ledger'[r].status
             \/ ledger'[r].status = "paid" /\ ledger'[reversal].status \in Columns \ {"pending"}
    BY <1>1 DEF TakenBack, reversal
  <2>5. CASE ledger[r].status = "none"
    <3>1. r \notin Entries(s, {"pending", "payable"}) /\ r \notin Entries(s, Columns)
      BY <2>5 DEF Entries, Columns
    <3>2. ledger'[r] = ledger[r] /\ ledger'[reversal] = ledger[reversal]
      BY <1>4, <2>1, <2>3, <3>1
    <3> QED BY <2>2, <2>4, <2>5, <3>2
  <2>6. CASE ledger[r].status \in {"pending", "payable"}
    <3>1. r \in Entries(s, {"pending", "payable"}) /\ r \in Entries(s, Columns)
      BY <2>6 DEF Entries, Columns
    <3>2. ledger'[r].status = "reversed" /\ ledger'[r].member = ledger[r].member
      BY <1>2, <3>1
    <3>3. ledger'[reversal].status = "reversed" /\ ledger'[reversal].member = ledger[r].member
      BY <1>3, <2>1, <2>6, <3>1 DEF ReversalStatus
    <3> QED BY <2>4, <3>2, <3>3
  <2>7. CASE ledger[r].status = "paid"
    <3>1. r \notin Entries(s, {"pending", "payable"}) /\ r \in Entries(s, Columns)
      BY <2>7 DEF Entries, Columns
    <3>2. ledger'[r] = ledger[r]
      BY <1>4, <2>1, <3>1
    <3>3. ledger'[reversal].status = "payable" /\ ledger'[reversal].member = ledger[r].member
      BY <1>3, <2>1, <2>7, <3>1 DEF ReversalStatus
    <3> QED BY <2>4, <2>7, <3>2, <3>3 DEF Columns
  <2> QED BY <2>2, <2>5, <2>6, <2>7 DEF LedgerStatuses, Columns
<1>7. ASSUME NEW r \in RowIds, ledger'[r].status = "none"
      PROVE  ledger'[r].member = NoMember
  <2>1. \A st : ReversalStatus(st) # "none"
    BY DEF ReversalStatus
  <2>2. ledger'[r] = ledger[r]
    BY <1>2, <1>3, <1>4, <1>7, <2>1
  <2> QED BY <1>7, <2>2 DEF VoidInv
<1>8. ASSUME NEW t \in Sales, NEW r \in CommissionRows(t)
      PROVE  /\ sale'[t].status # "void" => ledger'[r].status # "reversed"
             /\ TakenBack(t, r)'
  <2>1. CASE t = s
    BY <1>1, <1>6, <1>8, <2>1
  <2>2. CASE t # s
    BY <1>1, <1>5, <1>8, <2>2 DEF VoidInv, VoidTakesBackAll, TakenBack
  <2> QED BY <2>1, <2>2
<1> QED BY <1>7, <1>8 DEF VoidInv, VoidTakesBackAll

\* Every other step only moves rows, creates an award, or leaves rows alone.
LEMMA VoidOther ==
  ASSUME TypeOK, VoidInv, [Next]_vars,
         ~ \E s \in Sales : ApproveSaleInTx(s) \/ VoidSale(s)
  PROVE  VoidInv'
<1>1. ASSUME NEW s \in Sales, MarkDelivered(s)
      PROVE  VoidInv'
  <2>1. \A t \in Sales : sale'[t].status = sale[t].status
    BY <1>1 DEF MarkDelivered, TypeOK, Sale
  <2>2. \A r \in RowIds : /\ ledger'[r].status = ledger[r].status
                          /\ ledger'[r].member = ledger[r].member
    BY <1>1 DEF MarkDelivered, TypeOK, Row
  <2> QED BY <2>1, <2>2, VoidMoves
<1>2. ASSUME NEW R \in SUBSET DueRows, MatureCommissions(R)
      PROVE  VoidInv'
  <2>1. \A r \in RowIds : /\ ledger'[r].member = ledger[r].member
                          /\ \/ ledger'[r].status = ledger[r].status
                             \/ <<ledger[r].status, ledger'[r].status>> \in Moves
    BY <1>2 DEF MatureCommissions, DueRows, TypeOK, Row, Moves
  <2> QED BY <1>2, <2>1, VoidMoves DEF MatureCommissions
<1>3. ASSUME NEW a \in Awards, NEW m \in Members, NEW mo \in Months, AwardBonus(a, m, mo)
      PROVE  VoidInv'
  <2>1. \A r \in RowIds :
          \/ ledger'[r] = ledger[r]
          \/ r[1] = "adjustment" /\ ledger'[r].status # "none"
    BY <1>3 DEF AwardBonus, TypeOK, NewRow
  <2> QED BY <1>3, <2>1, VoidMoves DEF AwardBonus
<1>4. ASSUME NEW b \in Batches, NEW T \in SUBSET Members, NEW mo \in Months,
             ReservePayoutBatch(b, T, mo)
      PROVE  VoidInv'
  <2>1. \A r \in ClaimedRows(Ready(T, mo)) : ledger[r].status = "payable"
    BY DEF ClaimedRows, PayableRows
  <2>2. \A r \in RowIds : /\ ledger'[r].member = ledger[r].member
                          /\ \/ ledger'[r].status = ledger[r].status
                             \/ <<ledger[r].status, ledger'[r].status>> \in Moves
    BY <1>4, <2>1, BatchEdits DEF ReservePayoutBatch, TypeOK, Moves
  <2> QED BY <1>4, <2>2, VoidMoves DEF ReservePayoutBatch
<1>5. ASSUME NEW b \in Batches, SettlePayoutBatch(b)
      PROVE  VoidInv'
  <2>1. \A r \in RowIds : /\ ledger'[r].member = ledger[r].member
                          /\ \/ ledger'[r].status = ledger[r].status
                             \/ <<ledger[r].status, ledger'[r].status>> \in Moves
    BY <1>5 DEF SettlePayoutBatch, Intact, TypeOK, Row, Moves
  <2> QED BY <1>5, <2>1, VoidMoves DEF SettlePayoutBatch
<1>6. ASSUME NEW b \in Batches, FailPayoutBatch(b)
      PROVE  VoidInv'
  <2>1. \A r \in RowIds : /\ ledger'[r].member = ledger[r].member
                          /\ \/ ledger'[r].status = ledger[r].status
                             \/ <<ledger[r].status, ledger'[r].status>> \in Moves
    BY <1>6, BatchEdits DEF FailPayoutBatch, TypeOK, Moves
  <2> QED BY <1>6, <2>1, VoidMoves DEF FailPayoutBatch
<1>7. ASSUME \/ \E q \in Requests, m \in Members, mo \in Months : RequestPayout(q, m, mo)
             \/ \E p \in PayoutIds : RejectPayoutRequest(p)
             \/ \E b \in Batches : DispatchPayoutBatch(b)
             \/ AdminStep
             \/ UNCHANGED vars
      PROVE  VoidInv'
  <2>1. UNCHANGED <<sale, ledger>>
    BY <1>7 DEF RequestPayout, RejectPayoutRequest, DispatchPayoutBatch, AdminStep, LockPeriod,
       UnlockPeriod, UpdateSettings, ReviewCompliance, vars
  <2> QED BY <2>1, VoidMoves
<1> QED BY <1>1, <1>2, <1>3, <1>4, <1>5, <1>6, <1>7 DEF Next, SaleStep, ApproveSale, BulkApproveSale,
   PayoutStep

\* Every step keeps VoidInv.
LEMMA VoidStep ==
  ASSUME TypeOK, VoidInv, [Next]_vars
  PROVE  VoidInv'
BY VoidApprove, VoidVoid, VoidOther

(***************************************************************************)
(* Voiding a sale takes back exactly what it paid, whatever maturation,    *)
(* payouts and other sales do before and after.                            *)
(***************************************************************************)
THEOREM VoidInvariant == Spec => []VoidInv
BY TypeCorrect, VoidInit, VoidStep, PTL DEF Spec

\* Voiding a sale takes back exactly what the sale has paid (voidSaleCommissionsInTx).
THEOREM VoidIsExact == Spec => []VoidTakesBackAll
<1>1. VoidInv => VoidTakesBackAll
  BY DEF VoidInv
<1> QED BY <1>1, VoidInvariant, PTL

\* One step of the ledger leaves paid and reversed rows alone.
LEMMA ClosedStep ==
  ASSUME TypeOK, VoidInv, [Next]_vars,
         NEW r \in RowIds, ledger[r].status \in {"paid", "reversed"}
  PROVE  ledger'[r] = ledger[r]
<1>1. ASSUME NEW s \in Sales, ApproveSaleInTx(s)
      PROVE  ledger'[r] = ledger[r]
  <2>1. r \notin CommissionRows(s)
    BY <1>1 DEF ApproveSaleInTx, Applied
  <2> QED BY <1>1, <2>1 DEF ApproveSaleInTx, Earning
<1>2. ASSUME NEW s \in Sales, VoidSale(s)
      PROVE  ledger'[r] = ledger[r]
  <2>1. ~(r[1] = "reversal" /\ Original(r) \in Entries(s, Columns))
    <3> SUFFICES ASSUME r[1] = "reversal", Original(r) \in Entries(s, Columns) PROVE FALSE
      OBVIOUS
    <3>1. r = <<"reversal", Original(r)[2]>> /\ Original(r) \in CommissionRows(s)
      BY DEF Entries, Original, RowIds
    <3> QED BY <1>2, <3>1 DEF VoidSale, VoidInv, VoidTakesBackAll, TakenBack
  <2> QED BY <1>2, <2>1 DEF VoidSale, Entries
<1>3. ASSUME NEW s \in Sales, MarkDelivered(s)
      PROVE  ledger'[r] = ledger[r]
  BY <1>3 DEF MarkDelivered
<1>4. ASSUME NEW R \in SUBSET DueRows, MatureCommissions(R)
      PROVE  ledger'[r] = ledger[r]
  BY <1>4 DEF MatureCommissions, DueRows
<1>5. ASSUME NEW a \in Awards, NEW m \in Members, NEW mo \in Months, AwardBonus(a, m, mo)
      PROVE  ledger'[r] = ledger[r]
  BY <1>5 DEF AwardBonus, TypeOK
<1>6. ASSUME NEW b \in Batches, NEW T \in SUBSET Members, NEW mo \in Months,
             ReservePayoutBatch(b, T, mo)
      PROVE  ledger'[r] = ledger[r]
  BY <1>6 DEF ReservePayoutBatch, ClaimedRows, PayableRows
<1>7. ASSUME NEW b \in Batches, SettlePayoutBatch(b)
      PROVE  ledger'[r] = ledger[r]
  BY <1>7 DEF SettlePayoutBatch, Intact
<1>8. ASSUME NEW b \in Batches, FailPayoutBatch(b)
      PROVE  ledger'[r] = ledger[r]
  BY <1>8 DEF FailPayoutBatch
<1>9. ASSUME \/ \E q \in Requests, m \in Members, mo \in Months : RequestPayout(q, m, mo)
             \/ \E p \in PayoutIds : RejectPayoutRequest(p)
             \/ \E b \in Batches : DispatchPayoutBatch(b)
             \/ AdminStep
             \/ UNCHANGED vars
      PROVE  ledger'[r] = ledger[r]
  BY <1>9 DEF RequestPayout, RejectPayoutRequest, DispatchPayoutBatch, AdminStep, LockPeriod,
     UnlockPeriod, UpdateSettings, ReviewCompliance, vars
<1> QED BY <1>1, <1>2, <1>3, <1>4, <1>5, <1>6, <1>7, <1>8, <1>9
        DEF Next, SaleStep, ApproveSale, BulkApproveSale, PayoutStep

(***************************************************************************)
(* No call of the engine ever changes a paid or reversed row: a retry, a   *)
(* second void or a late maturation cannot revive it.                      *)
(***************************************************************************)
THEOREM ClosedForever == Spec => ClosedRowsStayClosed
<1>1. TypeOK /\ VoidInv /\ [Next]_vars =>
        [\A r \in RowIds : ledger[r].status \in {"paid", "reversed"} => ledger'[r] = ledger[r]]_vars
  BY ClosedStep
<1> QED BY <1>1, TypeCorrect, VoidInvariant, PTL DEF Spec, ClosedRowsStayClosed

(***************************************************************************)
(* Rows, batches and payouts agree on who holds what, for every value of   *)
(* the constants of CommissionLedger.                                      *)
(***************************************************************************)

Free == {"none", "pending", "payable", "reversed"}

\* In this step row r does not change, or is and stays outside every batch.
FreeChange(r) ==
  \/ ledger'[r] = ledger[r]
  \/ /\ ledger[r].status \in Free /\ ledger'[r].status \in Free
     /\ ledger'[r].batch = NoBatch /\ ledger'[r].payout = NoPayout

\* An item is typed.
LEMMA ItemType ==
  ASSUME TypeOK, NEW b \in Batches, NEW i \in batch[b].items
  PROVE  i.row \in RowIds /\ i.payout \in PayoutIds /\ i.month \in Months
BY DEF TypeOK, Batch, Item

\* A step that leaves the batches alone and changes only free rows, which stay free.
LEMMA OwnershipKept ==
  ASSUME TypeOK, BatchesOwnTheirRows, batch' = batch,
         \A r \in RowIds : FreeChange(r)
  PROVE  BatchesOwnTheirRows'
<1>1. ASSUME NEW r \in RowIds
      PROVE  /\ ledger'[r].status = "processing" => Held(r, {"processing", "dispatched"})'
             /\ ledger'[r].status = "paid" => Held(r, {"settled"})'
             /\ ledger'[r].status \notin {"processing", "paid"}
                  => ledger'[r].batch = NoBatch /\ ledger'[r].payout = NoPayout
  BY DEF BatchesOwnTheirRows, Held, Free, FreeChange
<1>2. ASSUME NEW b \in Batches, NEW i \in batch'[b].items,
             batch'[b].status \in {"processing", "dispatched", "settled"}
      PROVE  ledger'[i.row].batch = b /\ ledger'[i.row].payout = i.payout
  <2>1. ledger[i.row].batch = b /\ ledger[i.row].payout = i.payout /\ i.row \in RowIds
    BY <1>2, ItemType DEF BatchesOwnTheirRows
  <2>2. b # NoBatch
    BY LedgerAssumption
  <2> QED BY <2>1, <2>2 DEF BatchesOwnTheirRows, Free, FreeChange
<1> QED BY <1>1, <1>2 DEF BatchesOwnTheirRows

\* The steps of sales change free rows only.
LEMMA SalesChangeFreeRows ==
  ASSUME TypeOK, VoidInv, BatchesOwnTheirRows, SaleStep
  PROVE  /\ UNCHANGED <<batch, payout>>
         /\ \A r \in RowIds : FreeChange(r)
<1> USE DEF FreeChange
<1>1. ASSUME NEW r \in RowIds, ledger[r].status \in Free
      PROVE  ledger[r].batch = NoBatch /\ ledger[r].payout = NoPayout
  BY <1>1 DEF BatchesOwnTheirRows, Free
<1>2. \A st, m, mo, x : /\ NewRow(st, m, mo, x).batch = NoBatch
                        /\ NewRow(st, m, mo, x).payout = NoPayout
                        /\ NewRow(st, m, mo, x).status = st
  BY DEF NewRow
<1>3. ASSUME NEW s \in Sales, ApproveSaleInTx(s)
      PROVE  UNCHANGED <<batch, payout>> /\ \A r \in RowIds : FreeChange(r)
  <2>1. \A r \in CommissionRows(s) : ledger[r].status = "none"
    BY <1>3 DEF ApproveSaleInTx, Applied
  <2>2. StartStatus \in Free
    BY DEF StartStatus, Free
  <2>3. \A r \in RowIds : FreeChange(r)
    BY <1>2, <1>3, <2>1, <2>2 DEF ApproveSaleInTx, Earning, Free
  <2> QED BY <1>3, <2>3 DEF ApproveSaleInTx
<1>4. ASSUME NEW s \in Sales, VoidSale(s)
      PROVE  UNCHANGED <<batch, payout>> /\ \A r \in RowIds : FreeChange(r)
  <2>1. ASSUME NEW r \in Entries(s, {"pending", "payable"})
        PROVE  FreeChange(r)
    <3>1. r \in RowIds /\ ledger[r].status \in Free
      BY CommissionRowNames DEF Entries, Free
    <3>2. ledger'[r] = [ledger[r] EXCEPT !.status = "reversed"]
      BY <1>4, <3>1 DEF VoidSale
    <3>3. /\ ledger'[r].status = "reversed"
          /\ ledger'[r].batch = ledger[r].batch /\ ledger'[r].payout = ledger[r].payout
      BY <3>1, <3>2 DEF TypeOK, Row
    <3> QED BY <1>1, <3>1, <3>3 DEF Free
  <2>2. ASSUME NEW r \in RowIds, r[1] = "reversal", Original(r) \in Entries(s, Columns)
        PROVE  FreeChange(r)
    <3>1. r = <<"reversal", Original(r)[2]>> /\ Original(r) \in CommissionRows(s)
      BY <2>2 DEF Entries, Original, RowIds
    <3>2. ledger[r].status = "none"
      BY <1>4, <3>1 DEF VoidSale, VoidInv, VoidTakesBackAll, TakenBack
    <3>3. ledger'[r] = NewRow(ReversalStatus(ledger[Original(r)].status),
                              ledger[Original(r)].member, NoMonth, FALSE)
      BY <1>4, <2>2, <3>2 DEF VoidSale, Entries
    <3> QED BY <3>2, <3>3 DEF ReversalStatus, Free, NewRow
  <2>3. ASSUME NEW r \in RowIds, r \notin Entries(s, {"pending", "payable"}),
               ~(r[1] = "reversal" /\ Original(r) \in Entries(s, Columns))
        PROVE  FreeChange(r)
    BY <1>4, <2>3 DEF VoidSale
  <2>4. \A r \in RowIds : FreeChange(r)
    BY <2>1, <2>2, <2>3
  <2> QED BY <1>4, <2>4 DEF VoidSale
<1>5. ASSUME NEW s \in Sales, MarkDelivered(s)
      PROVE  UNCHANGED <<batch, payout>> /\ \A r \in RowIds : FreeChange(r)
  <2>1. \A r \in RowIds : FreeChange(r)
    BY <1>1, <1>5 DEF MarkDelivered, TypeOK, Row, Free
  <2> QED BY <1>5, <2>1 DEF MarkDelivered
<1>6. ASSUME NEW R \in SUBSET DueRows, MatureCommissions(R)
      PROVE  UNCHANGED <<batch, payout>> /\ \A r \in RowIds : FreeChange(r)
  <2>1. \A r \in RowIds : FreeChange(r)
    BY <1>1, <1>6 DEF MatureCommissions, DueRows, TypeOK, Row, Free
  <2> QED BY <1>6, <2>1 DEF MatureCommissions
<1>7. ASSUME NEW a \in Awards, NEW m \in Members, NEW mo \in Months, AwardBonus(a, m, mo)
      PROVE  UNCHANGED <<batch, payout>> /\ \A r \in RowIds : FreeChange(r)
  <2>1. \A r \in RowIds : FreeChange(r)
    BY <1>7 DEF AwardBonus, TypeOK, Free, NewRow
  <2> QED BY <1>7, <2>1 DEF AwardBonus
<1> QED BY <1>3, <1>4, <1>5, <1>6, <1>7 DEF SaleStep, ApproveSale, BulkApproveSale

\* So the steps of sales keep rows and batches in agreement.
LEMMA OwnershipSales ==
  ASSUME TypeOK, VoidInv, BatchesOwnTheirRows, SaleStep
  PROVE  BatchesOwnTheirRows'
BY SalesChangeFreeRows, OwnershipKept

\* reservePayoutBatch: the claimed rows get the new batch, which no row had.
LEMMA OwnershipReserve ==
  ASSUME TypeOK, BatchesOwnTheirRows, NEW b \in Batches, NEW T \in SUBSET Members,
         NEW period \in Months, ReservePayoutBatch(b, T, period)
  PROVE  BatchesOwnTheirRows'
<1> DEFINE M == Ready(T, period)
           For(r) == PayoutFor(b, ledger[r].member, period)
<1>1. /\ batch[b].status = "none"
      /\ batch' = [batch EXCEPT ![b] = [status |-> "processing", items |-> ItemsFor(b, M, period)]]
  BY DEF ReservePayoutBatch
<1>2. /\ batch'[b].status = "processing" /\ batch'[b].items = ItemsFor(b, M, period)
      /\ \A c \in Batches : c # b => batch'[c] = batch[c]
  BY <1>1 DEF TypeOK
<1>3. \A r \in ClaimedRows(M) : r \in RowIds /\ ledger[r].batch = NoBatch
  BY DEF ReservePayoutBatch, ClaimedRows, PayableRows
<1>4. ASSUME NEW r \in ClaimedRows(M)
      PROVE  /\ ledger'[r].status = "processing"
             /\ ledger'[r].batch = b
             /\ ledger'[r].payout = For(r)
  <2>1. ledger'[r] = Claimed(ledger[r], b, For(r))
    BY <1>3 DEF ReservePayoutBatch
  <2> QED BY <1>3, <2>1, BatchEdits DEF TypeOK
<1>5. \A r \in RowIds : r \notin ClaimedRows(M) => ledger'[r] = ledger[r]
  BY DEF ReservePayoutBatch
<1>6. ASSUME NEW r \in ClaimedRows(M)
      PROVE  \E i \in ItemsFor(b, M, period) : i.row = r /\ i.payout = For(r)
  <2>1. [row |-> r, payout |-> For(r), month |-> RowMonth(r)] \in ItemsFor(b, M, period)
    BY DEF ItemsFor
  <2> QED BY <2>1
<1>7. ASSUME NEW i \in ItemsFor(b, M, period)
      PROVE  i.row \in ClaimedRows(M) /\ i.payout = For(i.row)
  <2>1. PICK r \in ClaimedRows(M) : i = [row |-> r, payout |-> For(r), month |-> RowMonth(r)]
    BY DEF ItemsFor
  <2> QED BY <2>1
<1> HIDE DEF M, For
<1>8. ASSUME NEW r \in RowIds
      PROVE  /\ ledger'[r].status = "processing" => Held(r, {"processing", "dispatched"})'
             /\ ledger'[r].status = "paid" => Held(r, {"settled"})'
             /\ ledger'[r].status \notin {"processing", "paid"}
                  => ledger'[r].batch = NoBatch /\ ledger'[r].payout = NoPayout
  <2>1. CASE r \in ClaimedRows(M)
    BY <1>2, <1>4, <1>6, <2>1 DEF Held
  <2>2. CASE r \notin ClaimedRows(M)
    <3>1. ASSUME NEW statuses, "none" \notin statuses, Held(r, statuses)
          PROVE  Held(r, statuses)'
      BY <1>1, <1>2, <1>5, <2>2, <3>1 DEF Held
    <3> QED BY <1>5, <2>2, <3>1 DEF BatchesOwnTheirRows
  <2> QED BY <2>1, <2>2
<1>9. ASSUME NEW c \in Batches, NEW i \in batch'[c].items,
             batch'[c].status \in {"processing", "dispatched", "settled"}
      PROVE  ledger'[i.row].batch = c /\ ledger'[i.row].payout = i.payout
  <2>1. CASE c = b
    BY <1>2, <1>4, <1>7, <2>1
  <2>2. CASE c # b
    <3>1. i \in batch[c].items /\ batch[c].status \in {"processing", "dispatched", "settled"}
      BY <1>2, <1>9, <2>2
    <3>2. i.row \in RowIds /\ ledger[i.row].batch = c /\ ledger[i.row].payout = i.payout
      BY <3>1, ItemType DEF BatchesOwnTheirRows
    <3>3. i.row \notin ClaimedRows(M)
      BY <1>3, <3>2, LedgerAssumption
    <3> QED BY <1>5, <3>2, <3>3
  <2> QED BY <2>1, <2>2
<1> QED BY <1>8, <1>9 DEF BatchesOwnTheirRows

\* dispatchPayoutBatch only changes the batch's status.
LEMMA OwnershipDispatch ==
  ASSUME TypeOK, BatchesOwnTheirRows, NEW b \in Batches, DispatchPayoutBatch(b)
  PROVE  BatchesOwnTheirRows'
<1>1. /\ batch[b].status = "processing"
      /\ \A c \in Batches : batch'[c].items = batch[c].items
      /\ \A c \in Batches : batch'[c].status = IF c = b THEN "dispatched" ELSE batch[c].status
      /\ ledger' = ledger
  BY DEF DispatchPayoutBatch, TypeOK, Batch
<1>2. \A r \in RowIds : Held(r, {"processing", "dispatched"}) => Held(r, {"processing", "dispatched"})'
  BY <1>1 DEF Held
<1>3. \A r \in RowIds : Held(r, {"settled"}) => Held(r, {"settled"})'
  BY <1>1 DEF Held
<1> QED BY <1>1, <1>2, <1>3 DEF BatchesOwnTheirRows

\* The rows that are processing under an active batch are exactly its items' rows.
LEMMA ProcessingRows ==
  ASSUME TypeOK, BatchesOwnTheirRows, NEW b \in Batches, NEW r \in RowIds,
         ledger[r].status = "processing", ledger[r].batch = b
  PROVE  r \in ItemRows(b)
BY DEF BatchesOwnTheirRows, Held, ItemRows

\* settlePayoutBatch: the batch's rows become paid and stay its items.
LEMMA OwnershipSettle ==
  ASSUME TypeOK, BatchesOwnTheirRows, NEW b \in Batches, SettlePayoutBatch(b)
  PROVE  BatchesOwnTheirRows'
<1>1. /\ batch[b].status = "dispatched"
      /\ \A c \in Batches : batch'[c].items = batch[c].items
      /\ \A c \in Batches : batch'[c].status = IF c = b THEN "settled" ELSE batch[c].status
  BY DEF SettlePayoutBatch, TypeOK, Batch
<1>2. \A r \in ItemRows(b) : r \in RowIds /\ ledger[r].status = "processing" /\ ledger[r].batch = b
  BY ItemType DEF SettlePayoutBatch, Intact, ItemRows
<1>3. \A r \in RowIds : /\ ledger'[r].status = IF r \in ItemRows(b) THEN "paid" ELSE ledger[r].status
                        /\ ledger'[r].batch = ledger[r].batch
                        /\ ledger'[r].payout = ledger[r].payout
  BY DEF SettlePayoutBatch, TypeOK, Row
<1>4. ASSUME NEW r \in RowIds
      PROVE  /\ ledger'[r].status = "processing" => Held(r, {"processing", "dispatched"})'
             /\ ledger'[r].status = "paid" => Held(r, {"settled"})'
             /\ ledger'[r].status \notin {"processing", "paid"}
                  => ledger'[r].batch = NoBatch /\ ledger'[r].payout = NoPayout
  <2>1. CASE r \in ItemRows(b)
    <3>1. Held(r, {"processing", "dispatched"})
      BY <1>2, <2>1 DEF BatchesOwnTheirRows
    <3>2. Held(r, {"settled"})'
      BY <1>1, <1>2, <1>3, <2>1, <3>1 DEF Held
    <3> QED BY <1>3, <2>1, <3>2
  <2>2. CASE r \notin ItemRows(b)
    <3>1. ASSUME ledger[r].status = "processing"
          PROVE  Held(r, {"processing", "dispatched"})'
      <4>1. ledger[r].batch # b /\ Held(r, {"processing", "dispatched"})
        BY <2>2, <3>1, ProcessingRows DEF BatchesOwnTheirRows
      <4> QED BY <1>1, <1>3, <2>2, <4>1 DEF Held
    <3>2. ASSUME ledger[r].status = "paid"
          PROVE  Held(r, {"settled"})'
      <4>1. Held(r, {"settled"})
        BY <3>2 DEF BatchesOwnTheirRows
      <4> QED BY <1>1, <1>3, <4>1 DEF Held
    <3> QED BY <1>3, <2>2, <3>1, <3>2 DEF BatchesOwnTheirRows
  <2> QED BY <2>1, <2>2
<1>5. ASSUME NEW c \in Batches, NEW i \in batch'[c].items,
             batch'[c].status \in {"processing", "dispatched", "settled"}
      PROVE  ledger'[i.row].batch = c /\ ledger'[i.row].payout = i.payout
  BY <1>1, <1>3, <1>5, ItemType DEF BatchesOwnTheirRows
<1> QED BY <1>4, <1>5 DEF BatchesOwnTheirRows

\* failPayoutBatch: the batch lets go of every row it held.
LEMMA OwnershipFail ==
  ASSUME TypeOK, BatchesOwnTheirRows, NEW b \in Batches, FailPayoutBatch(b)
  PROVE  BatchesOwnTheirRows'
<1>1. /\ batch[b].status = "processing"
      /\ \A c \in Batches : batch'[c].items = batch[c].items
      /\ \A c \in Batches : batch'[c].status = IF c = b THEN "failed" ELSE batch[c].status
  BY DEF FailPayoutBatch, Releasable, TypeOK, Batch
<1>2. \A r \in ItemRows(b) : r \in RowIds /\ ledger[r].status = "processing" /\ ledger[r].batch = b
  BY ItemType DEF FailPayoutBatch, ItemRows
<1>3. \A r \in RowIds : IF r \in ItemRows(b)
                        THEN /\ ledger'[r].status = "payable"
                             /\ ledger'[r].batch = NoBatch
                             /\ ledger'[r].payout = NoPayout
                        ELSE ledger'[r] = ledger[r]
  BY BatchEdits DEF FailPayoutBatch, TypeOK
<1>4. ASSUME NEW r \in RowIds
      PROVE  /\ ledger'[r].status = "processing" => Held(r, {"processing", "dispatched"})'
             /\ ledger'[r].status = "paid" => Held(r, {"settled"})'
             /\ ledger'[r].status \notin {"processing", "paid"}
                  => ledger'[r].batch = NoBatch /\ ledger'[r].payout = NoPayout
  <2>1. CASE r \in ItemRows(b)
    BY <1>3, <2>1
  <2>2. CASE r \notin ItemRows(b)
    <3>1. ASSUME ledger[r].status = "processing"
          PROVE  Held(r, {"processing", "dispatched"})'
      <4>1. ledger[r].batch # b /\ Held(r, {"processing", "dispatched"})
        BY <2>2, <3>1, ProcessingRows DEF BatchesOwnTheirRows
      <4> QED BY <1>1, <1>3, <2>2, <4>1 DEF Held
    <3>2. ASSUME ledger[r].status = "paid"
          PROVE  Held(r, {"settled"})'
      <4>1. Held(r, {"settled"})
        BY <3>2 DEF BatchesOwnTheirRows
      <4> QED BY <1>1, <1>3, <2>2, <4>1 DEF Held
    <3> QED BY <1>3, <2>2, <3>1, <3>2 DEF BatchesOwnTheirRows
  <2> QED BY <2>1, <2>2
<1>5. ASSUME NEW c \in Batches, NEW i \in batch'[c].items,
             batch'[c].status \in {"processing", "dispatched", "settled"}
      PROVE  ledger'[i.row].batch = c /\ ledger'[i.row].payout = i.payout
  <2>1. /\ c # b /\ i \in batch[c].items
        /\ batch[c].status \in {"processing", "dispatched", "settled"}
    BY <1>1, <1>5
  <2>2. i.row \in RowIds /\ ledger[i.row].batch = c /\ ledger[i.row].payout = i.payout
    BY <2>1, ItemType DEF BatchesOwnTheirRows
  <2>3. i.row \notin ItemRows(b)
    BY <1>2, <2>1, <2>2
  <2> QED BY <1>3, <2>2, <2>3
<1> QED BY <1>4, <1>5 DEF BatchesOwnTheirRows

\* The other steps leave rows and batches alone.
LEMMA OwnershipOther ==
  ASSUME BatchesOwnTheirRows,
         \/ \E q \in Requests, m \in Members, mo \in Months : RequestPayout(q, m, mo)
         \/ \E p \in PayoutIds : RejectPayoutRequest(p)
         \/ AdminStep
         \/ UNCHANGED vars
  PROVE  BatchesOwnTheirRows'
<1>1. UNCHANGED <<ledger, batch>>
  BY DEF RequestPayout, RejectPayoutRequest, AdminStep, LockPeriod, UnlockPeriod,
     UpdateSettings, ReviewCompliance, vars
<1>2. \A r, statuses : Held(r, statuses)' <=> Held(r, statuses)
  BY <1>1 DEF Held
<1> QED BY <1>1, <1>2 DEF BatchesOwnTheirRows

\* Every step keeps rows and batches in agreement.
LEMMA OwnershipStep ==
  ASSUME TypeOK, VoidInv, BatchesOwnTheirRows, [Next]_vars
  PROVE  BatchesOwnTheirRows'
BY OwnershipSales, OwnershipReserve, OwnershipDispatch, OwnershipSettle, OwnershipFail,
   OwnershipOther DEF Next, PayoutStep

(***************************************************************************)
(* No row is paid twice and none is lost: a row is in flight or paid       *)
(* exactly when one live batch holds it.                                   *)
(***************************************************************************)
THEOREM Ownership == Spec => []BatchesOwnTheirRows
<1>1. Init => BatchesOwnTheirRows
  BY DEF Init, BatchesOwnTheirRows, NoRow, NewRow
<1> QED BY <1>1, TypeCorrect, VoidInvariant, OwnershipStep, PTL DEF Spec

\* A dispatched batch stays dispatched or becomes settled, with its items.
LEMMA DispatchedStays ==
  ASSUME TypeOK, [Next]_vars,
         NEW b \in Batches, batch[b].status \in {"dispatched", "settled"}
  PROVE  batch'[b].status \in {"dispatched", "settled"} /\ batch'[b].items = batch[b].items
<1>1. ASSUME NEW c \in Batches,
             \/ \E T \in SUBSET Members, mo \in Months : ReservePayoutBatch(c, T, mo)
             \/ FailPayoutBatch(c)
      PROVE  batch'[b] = batch[b]
  <2>1. c # b
    BY <1>1 DEF ReservePayoutBatch, FailPayoutBatch, Releasable
  <2> QED BY <1>1, <2>1 DEF ReservePayoutBatch, FailPayoutBatch, TypeOK
<1>2. ASSUME NEW c \in Batches, DispatchPayoutBatch(c) \/ SettlePayoutBatch(c)
      PROVE  batch'[b].status \in {"dispatched", "settled"} /\ batch'[b].items = batch[b].items
  BY <1>2 DEF DispatchPayoutBatch, SettlePayoutBatch, TypeOK, Batch
<1>3. ASSUME \/ SaleStep
             \/ \E q \in Requests, m \in Members, mo \in Months : RequestPayout(q, m, mo)
             \/ \E p \in PayoutIds : RejectPayoutRequest(p)
             \/ AdminStep
             \/ UNCHANGED vars
      PROVE  batch' = batch
  BY <1>3 DEF SaleStep, ApproveSale, BulkApproveSale,
     ApproveSaleInTx, VoidSale, MarkDelivered, MatureCommissions, AwardBonus,
     RequestPayout, RejectPayoutRequest, AdminStep, LockPeriod, UnlockPeriod,
     UpdateSettings, ReviewCompliance, vars
<1> QED BY <1>1, <1>2, <1>3 DEF Next, PayoutStep

(***************************************************************************)
(* Money that was dispatched is never payable again: the rows of a         *)
(* dispatched batch stay in it and can only become paid.                   *)
(***************************************************************************)
THEOREM DispatchIsFinal == Spec => DispatchedMoneyIsFinal
<1> DEFINE Final == \A b \in Batches : batch[b].status \in {"dispatched", "settled"} =>
       /\ batch'[b].items = batch[b].items
       /\ \A r \in ItemRows(b) :
            ledger'[r].batch = b /\ ledger'[r].status \in {"processing", "paid"}
<1>1. ASSUME TypeOK, TypeOK', BatchesOwnTheirRows', [Next]_vars
      PROVE  Final
  <2> SUFFICES ASSUME NEW b \in Batches, batch[b].status \in {"dispatched", "settled"}
               PROVE  /\ batch'[b].items = batch[b].items
                      /\ \A r \in ItemRows(b) :
                           ledger'[r].batch = b /\ ledger'[r].status \in {"processing", "paid"}
    OBVIOUS
  <2>1. batch'[b].status \in {"dispatched", "settled"} /\ batch'[b].items = batch[b].items
    BY <1>1, DispatchedStays
  <2>2. \A r \in ItemRows(b) : r \in RowIds /\ ledger'[r].batch = b
    BY <1>1, <2>1, ItemType DEF ItemRows, BatchesOwnTheirRows
  <2>3. \A r \in ItemRows(b) : ledger'[r].status \in {"processing", "paid"}
    BY <1>1, <2>2, LedgerAssumption DEF BatchesOwnTheirRows
  <2> QED BY <2>1, <2>2, <2>3
<1>2. TypeOK /\ TypeOK' /\ BatchesOwnTheirRows' /\ [Next]_vars => [Final]_vars
  BY <1>1
<1> QED BY <1>2, TypeCorrect, Ownership, PTL DEF Spec, DispatchedMoneyIsFinal

(***************************************************************************)
(* Payouts and batches agree.                                              *)
(***************************************************************************)
\* PayoutsFollowBatches is not inductive: a new batch must find its payout ids
\* unused and no items, and an item's row must never lose its member.
PayoutInv ==
  /\ PayoutsFollowBatches
  /\ \A b \in Batches : batch[b].status = "none" =>
       batch[b].items = {} /\ \A m \in Members : payout[<<b, m>>].status = "none"
  /\ \A b \in Batches : \A i \in batch[b].items : ledger[i.row].status # "none"

RowLives(r) == /\ ledger'[r].status # "none"
               /\ ledger'[r].member = ledger[r].member
               /\ ledger'[r].month = ledger[r].month

\* A row keeps its member and month for as long as it exists, and it exists forever.
LEMMA RowKept ==
  ASSUME TypeOK, VoidInv, [Next]_vars, NEW r \in RowIds, ledger[r].status # "none"
  PROVE  RowLives(r)
<1> USE DEF RowLives
<1>1. ASSUME NEW s \in Sales, ApproveSaleInTx(s)
      PROVE  ledger'[r] = ledger[r]
  BY <1>1 DEF ApproveSaleInTx, Applied, Earning
<1>2. ASSUME NEW s \in Sales, VoidSale(s)
      PROVE  RowLives(r)
  <2>1. ~(r[1] = "reversal" /\ Original(r) \in Entries(s, Columns))
    <3> SUFFICES ASSUME r[1] = "reversal", Original(r) \in Entries(s, Columns) PROVE FALSE
      OBVIOUS
    <3>1. r = <<"reversal", Original(r)[2]>> /\ Original(r) \in CommissionRows(s)
      BY DEF Entries, Original, RowIds
    <3> QED BY <1>2, <3>1 DEF VoidSale, VoidInv, VoidTakesBackAll, TakenBack
  <2>2. ledger'[r] = IF r \in Entries(s, {"pending", "payable"})
                     THEN [ledger[r] EXCEPT !.status = "reversed"] ELSE ledger[r]
    BY <1>2, <2>1 DEF VoidSale
  <2>3. /\ [ledger[r] EXCEPT !.status = "reversed"].status = "reversed"
        /\ [ledger[r] EXCEPT !.status = "reversed"].member = ledger[r].member
        /\ [ledger[r] EXCEPT !.status = "reversed"].month = ledger[r].month
    BY DEF TypeOK, Row
  <2> QED BY <2>2, <2>3
<1>3. ASSUME NEW s \in Sales, MarkDelivered(s)
      PROVE  RowLives(r)
  BY <1>3 DEF MarkDelivered, TypeOK, Row
<1>4. ASSUME NEW R \in SUBSET DueRows, MatureCommissions(R)
      PROVE  RowLives(r)
  BY <1>4 DEF MatureCommissions, TypeOK, Row
<1>5. ASSUME NEW a \in Awards, NEW m \in Members, NEW mo \in Months, AwardBonus(a, m, mo)
      PROVE  ledger'[r] = ledger[r]
  BY <1>5 DEF AwardBonus, TypeOK
<1>6. ASSUME NEW b \in Batches, NEW T \in SUBSET Members, NEW mo \in Months,
             ReservePayoutBatch(b, T, mo)
      PROVE  RowLives(r)
  BY <1>6, BatchEdits DEF ReservePayoutBatch, TypeOK
<1>7. ASSUME NEW b \in Batches, SettlePayoutBatch(b)
      PROVE  RowLives(r)
  BY <1>7 DEF SettlePayoutBatch, TypeOK, Row
<1>8. ASSUME NEW b \in Batches, FailPayoutBatch(b)
      PROVE  RowLives(r)
  BY <1>8, BatchEdits DEF FailPayoutBatch, TypeOK
<1>9. ASSUME \/ \E q \in Requests, m \in Members, mo \in Months : RequestPayout(q, m, mo)
             \/ \E p \in PayoutIds : RejectPayoutRequest(p)
             \/ \E b \in Batches : DispatchPayoutBatch(b)
             \/ AdminStep
             \/ UNCHANGED vars
      PROVE  ledger' = ledger
  BY <1>9 DEF RequestPayout, RejectPayoutRequest, DispatchPayoutBatch, AdminStep, LockPeriod,
     UnlockPeriod, UpdateSettings, ReviewCompliance, vars
<1> QED BY <1>1, <1>2, <1>3, <1>4, <1>5, <1>6, <1>7, <1>8, <1>9
        DEF Next, SaleStep, ApproveSale, BulkApproveSale, PayoutStep

\* Old items keep their live rows and members.
LEMMA ItemsKept ==
  ASSUME TypeOK, VoidInv, PayoutInv, [Next]_vars, NEW b \in Batches, NEW i \in batch[b].items
  PROVE  ledger'[i.row].status # "none" /\ i.payout[2] = ledger'[i.row].member
<1>1. i.row \in RowIds /\ ledger[i.row].status # "none"
  BY ItemType DEF PayoutInv
<1>2. i.payout[2] = ledger[i.row].member
  BY DEF PayoutInv, PayoutsFollowBatches
<1> QED BY <1>1, <1>2, RowKept DEF RowLives

\* What a payout owes its batch.
Following(p) ==
  LET b == payout[p].batch
  IN \/ payout[p].status \in {"none", "requested", "rejected"} /\ b = NoBatch
     \/ /\ b \in Batches
        /\ batch[b].status \in BatchStatusesFor(payout[p].status)
        /\ \E i \in batch[b].items : i.payout = p

\* A step that leaves batches and payouts alone.
LEMMA PayoutsKept ==
  ASSUME TypeOK, VoidInv, PayoutInv, [Next]_vars, UNCHANGED <<batch, payout>>
  PROVE  PayoutInv'
<1>1. ASSUME NEW p \in PayoutIds
      PROVE  Following(p)'
  BY DEF PayoutInv, PayoutsFollowBatches, Following, BatchStatusesFor
<1>2. ASSUME NEW b \in Batches, NEW i \in batch'[b].items
      PROVE  /\ payout'[i.payout].batch = b /\ i.payout[2] = ledger'[i.row].member
             /\ ledger'[i.row].status # "none"
  BY <1>2, ItemsKept DEF PayoutInv, PayoutsFollowBatches
<1>3. \A b \in Batches : batch'[b].status = "none" =>
        batch'[b].items = {} /\ \A m \in Members : payout'[<<b, m>>].status = "none"
  BY DEF PayoutInv
<1> QED BY <1>1, <1>2, <1>3 DEF PayoutInv, PayoutsFollowBatches, Following

\* A member's request and its rejection concern no batch.
LEMMA PayoutsRequest ==
  ASSUME TypeOK, VoidInv, PayoutInv, [Next]_vars, UNCHANGED <<batch, ledger>>,
         NEW p \in PayoutIds, payout[p].status \in {"none", "requested"},
         NEW new, payout' = [payout EXCEPT ![p] = new],
         new.status \in {"requested", "rejected"}, new.batch = NoBatch,
         new.status = "requested" => p[1] \in Requests,
         new.status = "rejected" => payout[p].status = "requested"
  PROVE  PayoutInv'
<1>1. payout[p].batch = NoBatch
  BY DEF PayoutInv, PayoutsFollowBatches, BatchStatusesFor
<1>2. payout'[p] = new /\ \A t \in PayoutIds : t # p => payout'[t] = payout[t]
  BY DEF TypeOK
<1>3. ASSUME NEW t \in PayoutIds
      PROVE  Following(t)'
  <2>1. CASE t = p
    BY <1>2, <2>1 DEF Following
  <2>2. CASE t # p
    BY <1>2, <2>2 DEF PayoutInv, PayoutsFollowBatches, Following, BatchStatusesFor
  <2> QED BY <2>1, <2>2
<1>4. ASSUME NEW b \in Batches, NEW i \in batch'[b].items
      PROVE  /\ payout'[i.payout].batch = b /\ i.payout[2] = ledger'[i.row].member
             /\ ledger'[i.row].status # "none"
  <2>1. i.payout \in PayoutIds /\ payout[i.payout].batch = b
    BY <1>4, ItemType DEF PayoutInv, PayoutsFollowBatches
  <2>2. i.payout # p
    BY <1>1, <2>1, LedgerAssumption
  <2> QED BY <1>2, <1>4, <2>1, <2>2, ItemsKept
<1>5. ASSUME NEW b \in Batches, batch'[b].status = "none", NEW m \in Members
      PROVE  payout'[<<b, m>>].status = "none"
  <2>1. payout[<<b, m>>].status = "none" /\ <<b, m>> \in PayoutIds
    BY <1>5 DEF PayoutInv, PayoutIds
  <2>2. <<b, m>> # p
    BY <2>1, LedgerAssumption
  <2> QED BY <1>2, <2>1, <2>2
<1>6. \A b \in Batches : batch'[b].status = "none" => batch'[b].items = {}
  BY DEF PayoutInv
<1> QED BY <1>3, <1>4, <1>5, <1>6 DEF PayoutInv, PayoutsFollowBatches, Following

\* reservePayoutBatch: the payouts it takes were in no batch, and get its rows.
LEMMA PayoutsReserve ==
  ASSUME TypeOK, VoidInv, PayoutInv, NEW b \in Batches, NEW T \in SUBSET Members,
         NEW period \in Months, ReservePayoutBatch(b, T, period)
  PROVE  PayoutInv'
<1> DEFINE M == Ready(T, period)
           For(m) == PayoutFor(b, m, period)
           Taken(p) == p[2] \in M /\ p = For(p[2])
<1>1. [Next]_vars
  BY DEF Next, PayoutStep
<1>2. /\ batch[b].status = "none"
      /\ batch'[b].status = "processing" /\ batch'[b].items = ItemsFor(b, M, period)
      /\ \A c \in Batches : c # b => batch'[c] = batch[c]
  BY DEF ReservePayoutBatch, TypeOK
<1>3. \A p \in PayoutIds : Taken(p) => payout'[p].status = "processing" /\ payout'[p].batch = b
  BY DEF ReservePayoutBatch
<1>4. \A p \in PayoutIds : ~Taken(p) => payout'[p] = payout[p]
  BY DEF ReservePayoutBatch
<1>5. \A m \in M : m \in Members /\ PayableRows(m) # {}
  BY DEF Ready, Considered
<1>6. \A m \in M : /\ For(m) \in PayoutIds /\ For(m)[2] = m
                   /\ For(m) = <<b, m>> \/ payout[For(m)].status = "requested"
  BY <1>5, PayoutForType DEF PayoutFor, OpenIn
<1>7. ASSUME NEW p \in PayoutIds, Taken(p)
      PROVE  payout[p].status \in {"none", "requested"} /\ payout[p].batch = NoBatch
  <2>1. payout[p].status \in {"none", "requested"}
    BY <1>2, <1>5, <1>6, <1>7 DEF PayoutInv
  <2> QED BY <2>1 DEF PayoutInv, PayoutsFollowBatches, BatchStatusesFor
<1>8. ASSUME NEW r \in ClaimedRows(M)
      PROVE  r \in RowIds /\ ledger[r].status = "payable" /\ ledger[r].member \in M
  BY DEF ClaimedRows, PayableRows
<1>9. ASSUME NEW i \in ItemsFor(b, M, period)
      PROVE  i.row \in ClaimedRows(M) /\ i.payout = For(ledger[i.row].member)
  <2>1. PICK r \in ClaimedRows(M) :
          i = [row |-> r, payout |-> For(ledger[r].member), month |-> RowMonth(r)]
    BY DEF ItemsFor
  <2> QED BY <2>1
<1>10. ASSUME NEW m \in M
       PROVE  \E i \in ItemsFor(b, M, period) : i.payout = For(m)
  <2>1. PICK r \in PayableRows(m) : TRUE
    BY <1>5
  <2>2. r \in ClaimedRows(M) /\ ledger[r].member = m
    BY <2>1 DEF ClaimedRows, PayableRows
  <2>3. [row |-> r, payout |-> For(ledger[r].member), month |-> RowMonth(r)] \in ItemsFor(b, M, period)
    BY <2>2 DEF ItemsFor
  <2> QED BY <2>2, <2>3
<1> HIDE DEF M, For
<1>11. ASSUME NEW p \in PayoutIds
       PROVE  Following(p)'
  <2>1. CASE Taken(p)
    <3>1. "processing" \in BatchStatusesFor("processing")
      BY DEF BatchStatusesFor, BatchStatuses
    <3>2. \E i \in batch'[b].items : i.payout = p
      BY <1>2, <1>10, <2>1
    <3> QED BY <1>2, <1>3, <2>1, <3>1, <3>2 DEF Following, BatchStatusesFor
  <2>2. CASE ~Taken(p)
    <3>1. Following(p) /\ payout'[p] = payout[p]
      BY <1>4, <2>2 DEF Following, PayoutInv, PayoutsFollowBatches
    <3>2. payout[p].batch # b
      BY <1>2, <3>1, LedgerAssumption DEF Following, BatchStatusesFor
    <3> QED BY <1>2, <3>1, <3>2 DEF Following, BatchStatusesFor
  <2> QED BY <2>1, <2>2
<1>12. ASSUME NEW c \in Batches, NEW i \in batch'[c].items
       PROVE  /\ payout'[i.payout].batch = c /\ i.payout[2] = ledger'[i.row].member
              /\ ledger'[i.row].status # "none"
  <2>1. CASE c = b
    <3>1. i.row \in ClaimedRows(M) /\ i.payout = For(ledger[i.row].member)
      BY <1>2, <1>9, <2>1
    <3>2. /\ i.row \in RowIds /\ ledger[i.row].status = "payable"
          /\ ledger[i.row].member \in M
      BY <1>8, <3>1
    <3>3. i.payout \in PayoutIds /\ i.payout[2] = ledger[i.row].member /\ Taken(i.payout)
      BY <1>6, <3>1, <3>2
    <3>4. ledger'[i.row].status # "none" /\ ledger'[i.row].member = ledger[i.row].member
      BY <1>1, <3>2, RowKept DEF RowLives
    <3> QED BY <1>3, <2>1, <3>3, <3>4
  <2>2. CASE c # b
    <3>1. i \in batch[c].items
      BY <1>2, <1>12, <2>2
    <3>2. i.payout \in PayoutIds /\ payout[i.payout].batch = c
      BY <3>1, ItemType DEF PayoutInv, PayoutsFollowBatches
    <3>3. ~Taken(i.payout)
      BY <1>7, <3>2, LedgerAssumption
    <3> QED BY <1>1, <1>4, <3>1, <3>2, <3>3, ItemsKept
  <2> QED BY <2>1, <2>2
<1>13. ASSUME NEW c \in Batches, batch'[c].status = "none"
       PROVE  batch'[c].items = {} /\ \A m \in Members : payout'[<<c, m>>].status = "none"
  <2>1. c # b /\ batch[c].status = "none" /\ batch'[c] = batch[c]
    BY <1>2, <1>13
  <2>2. ASSUME NEW m \in Members
        PROVE  payout'[<<c, m>>].status = "none"
    <3>1. <<c, m>> \in PayoutIds /\ payout[<<c, m>>].status = "none"
      BY <2>1 DEF PayoutInv, PayoutIds
    <3>2. ~Taken(<<c, m>>)
      BY <1>6, <2>1, <3>1
    <3> QED BY <1>4, <3>1, <3>2
  <2> QED BY <2>1, <2>2 DEF PayoutInv
<1> QED BY <1>11, <1>12, <1>13 DEF PayoutInv, PayoutsFollowBatches, Following

\* A batch changes its status and the payouts in it follow.
LEMMA PayoutsMove ==
  ASSUME TypeOK, VoidInv, PayoutInv, [Next]_vars,
         NEW b \in Batches, batch[b].status # "none", NEW bs, bs # "none",
         NEW st, st \notin {"none", "requested", "rejected"}, bs \in BatchStatusesFor(st),
         \A c \in Batches : batch'[c].items = batch[c].items,
         \A c \in Batches : batch'[c].status = IF c = b THEN bs ELSE batch[c].status,
         \A p \in PayoutIds : /\ payout'[p].batch = payout[p].batch
                              /\ payout'[p].status = IF payout[p].batch = b THEN st
                                                     ELSE payout[p].status
  PROVE  PayoutInv'
<1>1. ASSUME NEW p \in PayoutIds
      PROVE  Following(p)'
  <2>1. Following(p)
    BY DEF PayoutInv, PayoutsFollowBatches, Following
  <2>2. CASE payout[p].batch = b
    <3>1. \E i \in batch'[b].items : i.payout = p
      BY <2>1, <2>2, LedgerAssumption DEF Following
    <3> QED BY <2>2, <3>1 DEF Following, BatchStatusesFor
  <2>3. CASE payout[p].batch # b
    BY <2>1, <2>3 DEF Following, BatchStatusesFor
  <2> QED BY <2>2, <2>3
<1>2. ASSUME NEW c \in Batches, NEW i \in batch'[c].items
      PROVE  /\ payout'[i.payout].batch = c /\ i.payout[2] = ledger'[i.row].member
             /\ ledger'[i.row].status # "none"
  BY <1>2, ItemType, ItemsKept DEF PayoutInv, PayoutsFollowBatches
<1>3. ASSUME NEW c \in Batches, batch'[c].status = "none"
      PROVE  batch'[c].items = {} /\ \A m \in Members : payout'[<<c, m>>].status = "none"
  <2>1. batch[c].items = {} /\ \A m \in Members : payout[<<c, m>>].status = "none"
    BY <1>3 DEF PayoutInv
  <2>2. \A m \in Members : <<c, m>> \in PayoutIds /\ payout[<<c, m>>].batch # b
    BY <2>1, LedgerAssumption DEF PayoutInv, PayoutsFollowBatches, PayoutIds, BatchStatusesFor
  <2> QED BY <2>1, <2>2
<1> QED BY <1>1, <1>2, <1>3 DEF PayoutInv, PayoutsFollowBatches, Following

\* What dispatch, settlement and failure do to batches and payouts.
LEMMA PayoutsOutcome ==
  ASSUME TypeOK, VoidInv, PayoutInv, NEW b \in Batches,
         DispatchPayoutBatch(b) \/ SettlePayoutBatch(b) \/ FailPayoutBatch(b)
  PROVE  PayoutInv'
<1>1. [Next]_vars
  BY DEF Next, PayoutStep
<1>2. \A st \in PayoutStatuses, p \in PayoutIds :
        /\ PayoutsMoved(b, st)[p].batch = payout[p].batch
        /\ PayoutsMoved(b, st)[p].status = IF payout[p].batch = b THEN st ELSE payout[p].status
  BY DEF PayoutsMoved, PayoutsOf, TypeOK, Payout
<1>3. /\ "processing" \in BatchStatusesFor("processing")
      /\ "dispatched" \in BatchStatusesFor("processing")
      /\ "settled" \in BatchStatusesFor("paid")
      /\ "failed" \in BatchStatusesFor("failed")
  BY DEF BatchStatusesFor, BatchStatuses
<1>4. CASE DispatchPayoutBatch(b)
  <2>1. /\ batch[b].status = "processing" /\ payout' = payout
        /\ \A c \in Batches : batch'[c].items = batch[c].items
        /\ \A c \in Batches : batch'[c].status = IF c = b THEN "dispatched" ELSE batch[c].status
    BY <1>4 DEF DispatchPayoutBatch, TypeOK, Batch
  <2>2. \A p \in PayoutIds : payout[p].batch = b => payout[p].status = "processing"
    BY <2>1, LedgerAssumption DEF PayoutInv, PayoutsFollowBatches, BatchStatusesFor
  <2> QED BY <1>1, <1>3, <2>1, <2>2, PayoutsMove
<1>5. CASE SettlePayoutBatch(b)
  <2>1. /\ batch[b].status = "dispatched" /\ payout' = PayoutsMoved(b, "paid")
        /\ \A c \in Batches : batch'[c].items = batch[c].items
        /\ \A c \in Batches : batch'[c].status = IF c = b THEN "settled" ELSE batch[c].status
    BY <1>5 DEF SettlePayoutBatch, TypeOK, Batch
  <2>2. "paid" \in PayoutStatuses
    BY DEF PayoutStatuses
  <2> QED BY <1>1, <1>2, <1>3, <2>1, <2>2, PayoutsMove
<1>6. CASE FailPayoutBatch(b)
  <2>1. /\ batch[b].status = "processing" /\ payout' = PayoutsMoved(b, "failed")
        /\ \A c \in Batches : batch'[c].items = batch[c].items
        /\ \A c \in Batches : batch'[c].status = IF c = b THEN "failed" ELSE batch[c].status
    BY <1>6 DEF FailPayoutBatch, Releasable, TypeOK, Batch
  <2>2. "failed" \in PayoutStatuses
    BY DEF PayoutStatuses
  <2> QED BY <1>1, <1>2, <1>3, <2>1, <2>2, PayoutsMove
<1> QED BY <1>4, <1>5, <1>6

\* Every step keeps payouts and batches in agreement.
LEMMA PayoutInvStep ==
  ASSUME TypeOK, VoidInv, PayoutInv, [Next]_vars
  PROVE  PayoutInv'
<1>1. ASSUME NEW q \in Requests, NEW m \in Members, NEW mo \in Months, RequestPayout(q, m, mo)
      PROVE  PayoutInv'
  <2> DEFINE new == [status |-> "requested", period |-> mo, batch |-> NoBatch,
                     snapshot |-> NoSnapshot]
  <2>1. /\ <<q, m>> \in PayoutIds /\ payout[<<q, m>>].status = "none"
        /\ payout' = [payout EXCEPT ![<<q, m>>] = new]
        /\ UNCHANGED <<batch, ledger>>
    BY <1>1 DEF RequestPayout, PayoutIds
  <2>2. new.status = "requested" /\ new.batch = NoBatch /\ <<q, m>>[1] \in Requests
    OBVIOUS
  <2> HIDE DEF new
  <2> QED BY <2>1, <2>2, PayoutsRequest
<1>2. ASSUME NEW p \in PayoutIds, RejectPayoutRequest(p)
      PROVE  PayoutInv'
  <2> DEFINE new == [payout[p] EXCEPT !.status = "rejected"]
  <2>1. /\ payout[p].status = "requested"
        /\ payout' = [payout EXCEPT ![p] = new]
        /\ UNCHANGED <<batch, ledger>>
    BY <1>2 DEF RejectPayoutRequest
  <2>2. new.status = "rejected" /\ new.batch = payout[p].batch
    BY DEF TypeOK, Payout
  <2>3. payout[p].batch = NoBatch
    BY <2>1 DEF PayoutInv, PayoutsFollowBatches, BatchStatusesFor
  <2> HIDE DEF new
  <2> QED BY <2>1, <2>2, <2>3, PayoutsRequest
<1>3. ASSUME \/ SaleStep
             \/ AdminStep
             \/ UNCHANGED vars
      PROVE  UNCHANGED <<batch, payout>>
  BY <1>3 DEF SaleStep, ApproveSale, BulkApproveSale,
     ApproveSaleInTx, VoidSale, MarkDelivered, MatureCommissions, AwardBonus,
     AdminStep, LockPeriod, UnlockPeriod, UpdateSettings, ReviewCompliance, vars
<1> QED BY <1>1, <1>2, <1>3, PayoutsKept, PayoutsReserve, PayoutsOutcome DEF Next, PayoutStep

(***************************************************************************)
(* A payout is processing, paid or failed exactly as its batch is, and a   *)
(* batch's rows are its payouts' members'.                                 *)
(***************************************************************************)
THEOREM PayoutInvariant == Spec => []PayoutInv
<1>1. Init => PayoutInv
  BY DEF Init, PayoutInv, PayoutsFollowBatches, NoPayoutRow, PayoutIds
<1> QED BY <1>1, TypeCorrect, VoidInvariant, PayoutInvStep, PTL DEF Spec

\* In particular PayoutsFollowBatches holds in every reachable state.
THEOREM PayoutsAgree == Spec => []PayoutsFollowBatches
<1>1. PayoutInv => PayoutsFollowBatches
  BY DEF PayoutInv
<1> QED BY <1>1, PayoutInvariant, PTL

(***************************************************************************)
(* Amounts.  The rows under a payout never change while it is processing   *)
(* or paid, so its total is the net that was compared with the threshold   *)
(* when it was reserved.                                                   *)
(***************************************************************************)
Linked(p) == {r \in RowIds : ledger[r].payout = p}
InFlight == {"processing", "paid"}

\* A row is under a payout only while it is in a batch of that payout.
LEMMA LinkedRows ==
  ASSUME TypeOK, BatchesOwnTheirRows, PayoutInv, NEW p \in PayoutIds, NEW r \in Linked(p)
  PROVE  /\ ledger[r].status \in InFlight /\ ledger[r].batch \in Batches
         /\ payout[p].batch = ledger[r].batch
         /\ batch[ledger[r].batch].status \in {"processing", "dispatched", "settled"}
<1>1. r \in RowIds /\ ledger[r].payout = p /\ p # NoPayout
  BY LedgerAssumption DEF Linked, PayoutIds
<1>2. ledger[r].status \in InFlight
  BY <1>1 DEF BatchesOwnTheirRows, InFlight
<1>3. Held(r, {"processing", "dispatched", "settled"})
  BY <1>1, <1>2 DEF BatchesOwnTheirRows, Held, InFlight
<1> QED BY <1>1, <1>2, <1>3 DEF Held, PayoutInv, PayoutsFollowBatches

\* The payout takes part in no step: its rows stay under it.
LEMMA LinkedKept ==
  ASSUME TypeOK, VoidInv, BatchesOwnTheirRows, PayoutInv, [Next]_vars,
         NEW p \in PayoutIds, payout[p].status \in InFlight, payout'[p].status \in InFlight
  PROVE  Linked(p)' = Linked(p)
<1> SUFFICES ASSUME NEW r \in RowIds
             PROVE  ledger'[r].payout = p <=> ledger[r].payout = p
  BY DEF Linked
<1> USE DEF InFlight
<1>1. p # NoPayout
  BY LedgerAssumption DEF PayoutIds
<1>2. CASE SaleStep
  <2>1. FreeChange(r)
    BY <1>2, SalesChangeFreeRows
  <2> QED BY <1>1, <2>1 DEF FreeChange, Free, BatchesOwnTheirRows
<1>3. ASSUME NEW b \in Batches, NEW T \in SUBSET Members, NEW mo \in Months,
             ReservePayoutBatch(b, T, mo)
      PROVE  ledger'[r].payout = p <=> ledger[r].payout = p
  <2>1. CASE r \in ClaimedRows(Ready(T, mo))
    <3>1. /\ ledger[r].payout = NoPayout
          /\ ledger[r].member \in Ready(T, mo) /\ ledger[r].member \in Members
      BY <1>3, <2>1 DEF ReservePayoutBatch, ClaimedRows, PayableRows, Ready, Considered
    <3>2. ledger'[r].payout = PayoutFor(b, ledger[r].member, mo)
      BY <1>3, <2>1, BatchEdits DEF ReservePayoutBatch, TypeOK
    <3>3. payout[PayoutFor(b, ledger[r].member, mo)].status \in {"none", "requested"}
      BY <1>3, <3>1 DEF PayoutFor, OpenIn, PayoutInv, ReservePayoutBatch
    <3> QED BY <1>1, <3>1, <3>2, <3>3
  <2>2. CASE r \notin ClaimedRows(Ready(T, mo))
    BY <1>3, <2>2 DEF ReservePayoutBatch
  <2> QED BY <2>1, <2>2
<1>4. ASSUME NEW b \in Batches, SettlePayoutBatch(b)
      PROVE  ledger'[r].payout = p <=> ledger[r].payout = p
  BY <1>4 DEF SettlePayoutBatch, TypeOK, Row
<1>5. ASSUME NEW b \in Batches, FailPayoutBatch(b)
      PROVE  ledger'[r].payout = p <=> ledger[r].payout = p
  <2>1. CASE r \in ItemRows(b)
    <3>1. ledger'[r].payout = NoPayout
      BY <1>5, <2>1, BatchEdits DEF FailPayoutBatch, TypeOK
    <3>2. payout[p].batch = b => payout'[p].status = "failed"
      BY <1>5 DEF FailPayoutBatch, PayoutsMoved, PayoutsOf, TypeOK, Payout
    <3>3. ledger[r].payout = p => payout[p].batch = b
      BY <1>5, <2>1, LinkedRows DEF Linked, FailPayoutBatch
    <3> QED BY <1>1, <3>1, <3>2, <3>3
  <2>2. CASE r \notin ItemRows(b)
    BY <1>5, <2>2 DEF FailPayoutBatch
  <2> QED BY <2>1, <2>2
<1>6. ASSUME \/ \E q \in Requests, m \in Members, mo \in Months : RequestPayout(q, m, mo)
             \/ \E t \in PayoutIds : RejectPayoutRequest(t)
             \/ \E b \in Batches : DispatchPayoutBatch(b)
             \/ AdminStep
             \/ UNCHANGED vars
      PROVE  ledger' = ledger
  BY <1>6 DEF RequestPayout, RejectPayoutRequest, DispatchPayoutBatch, AdminStep, LockPeriod,
     UnlockPeriod, UpdateSettings, ReviewCompliance, vars
<1> QED BY <1>2, <1>3, <1>4, <1>5, <1>6 DEF Next, PayoutStep

\* A payout enters processing only when it is reserved, with exactly the payable
\* rows of its member.
LEMMA LinkedReserved ==
  ASSUME TypeOK, VoidInv, BatchesOwnTheirRows, PayoutInv, [Next]_vars,
         NEW p \in PayoutIds, payout[p].status \notin InFlight, payout'[p].status \in InFlight
  PROVE  Linked(p)' = PayableRows(p[2]) /\ Net(p[2]) > 0 /\ Net(p[2]) >= PayoutMin
<1> USE DEF InFlight
<1>1. PICK b \in Batches, T \in SUBSET Members, mo \in Months : ReservePayoutBatch(b, T, mo)
  <2>1. ASSUME NEW b \in Batches, SettlePayoutBatch(b)
        PROVE  payout'[p].status \in InFlight => payout[p].status \in InFlight
    BY <2>1 DEF SettlePayoutBatch, PayoutsMoved, PayoutsOf
  <2>2. ASSUME NEW b \in Batches, FailPayoutBatch(b)
        PROVE  payout'[p].status \in InFlight => payout[p].status \in InFlight
    BY <2>2 DEF FailPayoutBatch, PayoutsMoved, PayoutsOf, TypeOK, Payout
  <2>3. ASSUME NEW q \in Requests, NEW m \in Members, NEW mo \in Months, RequestPayout(q, m, mo)
        PROVE  payout'[p].status \in InFlight => payout[p].status \in InFlight
    BY <2>3 DEF RequestPayout, TypeOK
  <2>4. ASSUME NEW t \in PayoutIds, RejectPayoutRequest(t)
        PROVE  payout'[p].status \in InFlight => payout[p].status \in InFlight
    BY <2>4 DEF RejectPayoutRequest, TypeOK, Payout
  <2>5. ASSUME \/ SaleStep
               \/ \E b \in Batches : DispatchPayoutBatch(b)
               \/ AdminStep
               \/ UNCHANGED vars
        PROVE  payout' = payout
    BY <2>5 DEF SaleStep, ApproveSale, BulkApproveSale,
       ApproveSaleInTx, VoidSale, MarkDelivered, MatureCommissions, AwardBonus,
       DispatchPayoutBatch, AdminStep, LockPeriod, UnlockPeriod, UpdateSettings,
       ReviewCompliance, vars
  <2> QED BY <2>1, <2>2, <2>3, <2>4, <2>5 DEF Next, PayoutStep
<1> DEFINE M == Ready(T, mo)
<1>2. p[2] \in M /\ p[2] \in Members /\ p = PayoutFor(b, p[2], mo)
  BY <1>1 DEF ReservePayoutBatch, Ready, Considered
<1>3. Net(p[2]) > 0 /\ Net(p[2]) >= PayoutMin
  BY <1>2 DEF Ready, Considered
<1>4. payout[p].status \in {"none", "requested"}
  BY <1>1, <1>2 DEF PayoutFor, OpenIn, PayoutInv, ReservePayoutBatch
<1>5. Linked(p) = {}
  <2>1. payout[p].batch = NoBatch
    BY <1>4 DEF PayoutInv, PayoutsFollowBatches, BatchStatusesFor
  <2> QED BY <2>1, LinkedRows, LedgerAssumption
<1>6. ASSUME NEW r \in RowIds
      PROVE  ledger'[r].payout = p <=> r \in PayableRows(p[2])
  <2>1. CASE r \in ClaimedRows(M)
    <3>1. /\ ledger[r].member \in M /\ ledger[r].member \in Members
          /\ r \in PayableRows(ledger[r].member)
      BY <2>1 DEF ClaimedRows, PayableRows, Ready, Considered
    <3>2. ledger'[r].payout = PayoutFor(b, ledger[r].member, mo)
      BY <1>1, <2>1, BatchEdits DEF ReservePayoutBatch, TypeOK
    <3>3. ledger'[r].payout[2] = ledger[r].member
      BY <3>1, <3>2, PayoutForType
    <3>4. r \in PayableRows(p[2]) <=> ledger[r].member = p[2]
      BY <3>1 DEF PayableRows
    <3> HIDE DEF M
    <3> QED BY <1>2, <3>2, <3>3, <3>4
  <2>2. CASE r \notin ClaimedRows(M)
    <3>1. ledger'[r] = ledger[r] /\ r \notin PayableRows(p[2])
      BY <1>1, <1>2, <2>2 DEF ReservePayoutBatch, ClaimedRows
    <3> QED BY <1>5, <3>1 DEF Linked
  <2> QED BY <2>1, <2>2
<1>7. Linked(p)' = PayableRows(p[2])
  BY <1>6 DEF Linked, PayableRows
<1> QED BY <1>3, <1>7

\* One step keeps every payout in flight positive and above the threshold.
LEMMA PositiveStep ==
  ASSUME TypeOK, VoidInv, BatchesOwnTheirRows, PayoutInv, PayoutIsPositive, [Next]_vars
  PROVE  PayoutIsPositive'
<1> SUFFICES ASSUME NEW p \in PayoutIds, payout'[p].status \in InFlight
             PROVE  Total(Linked(p)') > 0 /\ Total(Linked(p)') >= PayoutMin
  BY DEF PayoutIsPositive, InFlight, Linked, Total
<1>1. CASE payout[p].status \in InFlight
  <2>1. Linked(p)' = Linked(p)
    BY <1>1, LinkedKept
  <2>2. Total(Linked(p)) > 0 /\ Total(Linked(p)) >= PayoutMin
    BY <1>1 DEF PayoutIsPositive, InFlight, Linked
  <2> QED BY <2>1, <2>2
<1>2. CASE payout[p].status \notin InFlight
  <2>1. Linked(p)' = PayableRows(p[2]) /\ Net(p[2]) > 0 /\ Net(p[2]) >= PayoutMin
    BY <1>2, LinkedReserved
  <2> QED BY <2>1 DEF Net
<1> QED BY <1>1, <1>2

(***************************************************************************)
(* Every payout in flight or paid is for a positive total that reaches the *)
(* threshold, clawbacks included, for every plan and every amount.         *)
(***************************************************************************)
THEOREM PayoutsArePositive == Spec => []PayoutIsPositive
<1>1. Init => PayoutIsPositive
  BY DEF Init, PayoutIsPositive, NoPayoutRow
<1> QED BY <1>1, TypeCorrect, VoidInvariant, Ownership, PayoutInvariant, PositiveStep, PTL DEF Spec

(***************************************************************************)
(* The monthly summaries always hold exactly the ledger's rows, for every  *)
(* value of the constants of CommissionLedger.                             *)
(***************************************************************************)

\* The rows that column c of month mo should hold.
InColumn(c, mo) == {r \in RowIds : ledger[r].status = c /\ RowMonth(r) = mo}
RowsOf(R, mo) == {r \in R : RowMonth(r) = mo}

\* An item remembers the month under which its row is posted.
ItemMonths == \A b \in Batches : \A i \in batch[b].items : i.month = RowMonth(i.row)

(***************************************************************************)
(* The algebra of formal sums.                                             *)
(***************************************************************************)

\* No line is both a commission's and an award's.
LEMMA LineKinds ==
  ASSUME NEW ln
  PROVE  ~(<<"commission", ln>> \in RowIds /\ <<"adjustment", ln>> \in RowIds)
BY LedgerAssumption DEF RowIds, SaleLines, AwardLines

\* Disjoint sets of rows add up.
LEMMA UnitsUnion ==
  ASSUME NEW R \in SUBSET RowIds, NEW S \in SUBSET RowIds, R \cap S = {}, NEW ln
  PROVE  Units(R \cup S, ln) = Units(R, ln) + Units(S, ln)
BY LineKinds DEF Units

\* Removing rows subtracts them.
LEMMA UnitsMinus ==
  ASSUME NEW R \in SUBSET RowIds, NEW S \in SUBSET R, NEW ln
  PROVE  Units(R \ S, ln) = Units(R, ln) - Units(S, ln)
BY LineKinds DEF Units

\* A formal sum is an integer, and the empty one is zero.
LEMMA UnitsType ==
  /\ \A R, ln : Units(R, ln) \in Int
  /\ \A ln : Units({}, ln) = 0
BY DEF Units

\* What bumpSummary adds to each cell.
LEMMA PostCell ==
  ASSUME NEW sm \in Summaries, NEW posts, NEW col, NEW k \in Int,
         NEW mo \in Months, NEW ln \in Lines, NEW c \in Columns
  PROVE  Post(sm, posts, col, k)[mo][ln][c] =
           IF c = col THEN sm[mo][ln][c] + k * Units(PostedIn(posts, mo), ln) ELSE sm[mo][ln][c]
BY DEF Post

\* What a move between two columns adds to each cell.
LEMMA MoveCell ==
  ASSUME NEW sm \in Summaries, NEW posts, NEW from, NEW to, from # to,
         NEW mo \in Months, NEW ln \in Lines, NEW c \in Columns
  PROVE  Move(sm, posts, from, to)[mo][ln][c] =
           IF c = from THEN sm[mo][ln][c] - Units(PostedIn(posts, mo), ln)
           ELSE IF c = to THEN sm[mo][ln][c] + Units(PostedIn(posts, mo), ln)
           ELSE sm[mo][ln][c]
<1> DEFINE mid == Post(sm, posts, from, -1)
           u == Units(PostedIn(posts, mo), ln)
<1>1. mid \in Summaries
  BY PostType
<1>2. mid[mo][ln][c] = IF c = from THEN sm[mo][ln][c] + (-1) * u ELSE sm[mo][ln][c]
  BY PostCell
<1>3. Post(mid, posts, to, 1)[mo][ln][c] =
        IF c = to THEN mid[mo][ln][c] + 1 * u ELSE mid[mo][ln][c]
  BY <1>1, PostCell
<1>4. u \in Int /\ sm[mo][ln][c] \in Int
  BY UnitsType DEF Summaries
<1> HIDE DEF mid, u
<1>5. Post(mid, posts, to, 1)[mo][ln][c] =
        IF c = from THEN sm[mo][ln][c] - u
        ELSE IF c = to THEN sm[mo][ln][c] + u ELSE sm[mo][ln][c]
  BY <1>2, <1>3, <1>4
<1> QED BY <1>5 DEF Move, mid, u

\* The rows that a set of postings posts in a month.
LEMMA PostedRows ==
  ASSUME NEW mo
  PROVE  /\ \A R : PostedIn(Postings(R), mo) = RowsOf(R, mo)
         /\ \A s, R : PostedIn(SalePostings(s, R), mo) = IF SaleMonth(s) = mo THEN R ELSE {}
<1>1. ASSUME NEW R
      PROVE  PostedIn(Postings(R), mo) = RowsOf(R, mo)
  <2>1. ASSUME NEW x \in PostedIn(Postings(R), mo)
        PROVE  x \in RowsOf(R, mo)
    BY DEF PostedIn, Postings, RowsOf
  <2>2. ASSUME NEW x \in RowsOf(R, mo)
        PROVE  x \in PostedIn(Postings(R), mo)
    <3>1. [row |-> x, month |-> RowMonth(x)] \in Postings(R) /\ RowMonth(x) = mo
      BY DEF Postings, RowsOf
    <3> QED BY <3>1 DEF PostedIn
  <2> QED BY <2>1, <2>2
<1>2. ASSUME NEW s, NEW R
      PROVE  PostedIn(SalePostings(s, R), mo) = IF SaleMonth(s) = mo THEN R ELSE {}
  <2>1. ASSUME NEW x \in PostedIn(SalePostings(s, R), mo)
        PROVE  x \in R /\ SaleMonth(s) = mo
    BY DEF PostedIn, SalePostings
  <2>2. ASSUME NEW x \in R, SaleMonth(s) = mo
        PROVE  x \in PostedIn(SalePostings(s, R), mo)
    <3>1. [row |-> x, month |-> SaleMonth(s)] \in SalePostings(s, R)
      BY DEF SalePostings
    <3> QED BY <2>2, <3>1 DEF PostedIn
  <2> QED BY <2>1, <2>2
<1> QED BY <1>1, <1>2

(***************************************************************************)
(* Months stay.                                                            *)
(***************************************************************************)

\* The frozen month of a sale never changes.
LEMMA SaleMonthKept ==
  ASSUME TypeOK, [Next]_vars, NEW s \in Sales, sale[s].month \in Months
  PROVE  sale'[s].month = sale[s].month
<1>1. ASSUME NEW t \in Sales, ApproveSaleInTx(t)
      PROVE  sale'[s].month = sale[s].month
  <2>1. sale[s].month # NoMonth
    BY LedgerAssumption
  <2> QED BY <1>1, <2>1 DEF ApproveSaleInTx, SaleMonth, TypeOK
<1>2. ASSUME NEW t \in Sales, VoidSale(t)
      PROVE  sale'[s].month = sale[s].month
  BY <1>2 DEF VoidSale, TypeOK, Sale
<1>3. ASSUME NEW t \in Sales, MarkDelivered(t)
      PROVE  sale'[s].month = sale[s].month
  BY <1>3 DEF MarkDelivered, TypeOK, Sale
<1>4. ASSUME \/ \E R \in SUBSET DueRows : MatureCommissions(R)
             \/ \E a \in Awards, m \in Members, mo \in Months : AwardBonus(a, m, mo)
             \/ PayoutStep
             \/ AdminStep
             \/ UNCHANGED vars
      PROVE  sale' = sale
  BY <1>4 DEF MatureCommissions, AwardBonus, PayoutStep, RequestPayout, RejectPayoutRequest,
     ReservePayoutBatch, DispatchPayoutBatch, SettlePayoutBatch, FailPayoutBatch,
     AdminStep, LockPeriod, UnlockPeriod, UpdateSettings, ReviewCompliance, vars
<1> QED BY <1>1, <1>2, <1>3, <1>4 DEF Next, SaleStep, ApproveSale, BulkApproveSale

\* The month of a live row never changes, whatever happens to the time zone.
LEMMA RowMonthKept ==
  ASSUME TypeOK, MonthsAreFrozen, VoidInv, [Next]_vars,
         NEW r \in RowIds, ledger[r].status # "none"
  PROVE  RowMonth(r)' = RowMonth(r)
<1>1. CASE r[1] = "adjustment"
  BY <1>1, RowKept DEF RowMonth, RowLives
<1>2. CASE r[1] # "adjustment"
  <2>1. r[2][1] \in Sales /\ sale[r[2][1]].month \in Months
    BY <1>2, RowNames DEF MonthsAreFrozen
  <2>2. sale'[r[2][1]].month = sale[r[2][1]].month /\ sale[r[2][1]].month # NoMonth
    BY <2>1, SaleMonthKept, LedgerAssumption
  <2> QED BY <1>2, <2>2 DEF RowMonth, SaleMonth
<1> QED BY <1>1, <1>2

\* Items keep their months.
LEMMA ItemMonthsStep ==
  ASSUME TypeOK, MonthsAreFrozen, VoidInv, PayoutInv, ItemMonths, [Next]_vars
  PROVE  ItemMonths'
<1> SUFFICES ASSUME NEW b \in Batches, NEW i \in batch'[b].items
             PROVE  i.month = RowMonth(i.row)'
  BY DEF ItemMonths
<1>1. CASE i \in batch[b].items
  <2>1. i.row \in RowIds /\ ledger[i.row].status # "none" /\ i.month = RowMonth(i.row)
    BY <1>1, ItemType DEF PayoutInv, ItemMonths
  <2> QED BY <2>1, RowMonthKept
<1>2. CASE i \notin batch[b].items
  <2>1. PICK c \in Batches, T \in SUBSET Members, mo \in Months : ReservePayoutBatch(c, T, mo)
    <3>1. ASSUME NEW c \in Batches,
                 DispatchPayoutBatch(c) \/ SettlePayoutBatch(c) \/ FailPayoutBatch(c)
          PROVE  batch'[b].items = batch[b].items
      BY <3>1 DEF DispatchPayoutBatch, SettlePayoutBatch, FailPayoutBatch, TypeOK, Batch
    <3>2. ASSUME \/ SaleStep
                 \/ \E q \in Requests, m \in Members, mo \in Months : RequestPayout(q, m, mo)
                 \/ \E p \in PayoutIds : RejectPayoutRequest(p)
                 \/ AdminStep
                 \/ UNCHANGED vars
          PROVE  batch' = batch
      BY <3>2 DEF SaleStep, ApproveSale, BulkApproveSale,
         ApproveSaleInTx, VoidSale, MarkDelivered, MatureCommissions, AwardBonus,
         RequestPayout, RejectPayoutRequest, AdminStep, LockPeriod, UnlockPeriod,
         UpdateSettings, ReviewCompliance, vars
    <3> QED BY <1>2, <3>1, <3>2 DEF Next, PayoutStep
  <2>2. i \in ItemsFor(c, Ready(T, mo), mo)
    BY <1>2, <2>1 DEF ReservePayoutBatch, TypeOK
  <2>3. PICK r \in ClaimedRows(Ready(T, mo)) :
          i = [row |-> r, payout |-> PayoutFor(c, ledger[r].member, mo), month |-> RowMonth(r)]
    BY <2>2 DEF ItemsFor
  <2>4. r \in RowIds /\ ledger[r].status # "none"
    BY DEF ClaimedRows, PayableRows
  <2> QED BY <2>3, <2>4, RowMonthKept
<1> QED BY <1>1, <1>2

(***************************************************************************)
(* Reconciliation.                                                         *)
(***************************************************************************)

\* SummaryReconciles, by columns.
LEMMA ByColumns ==
  /\ SummaryReconciles <=> \A mo \in Months, ln \in Lines, c \in Columns :
                             summary[mo][ln][c] = Units(InColumn(c, mo), ln)
  /\ SummaryReconciles' <=> \A mo \in Months, ln \in Lines, c \in Columns :
                              summary'[mo][ln][c] = Units(InColumn(c, mo)', ln)
BY DEF SummaryReconciles, InColumn

\* A step that changes no row's status and no summary.
LEMMA ReconcileKept ==
  ASSUME SummaryReconciles, summary' = summary,
         \A r \in RowIds : ledger'[r].status = ledger[r].status,
         \A r \in RowIds : ledger[r].status # "none" => RowMonth(r)' = RowMonth(r)
  PROVE  SummaryReconciles'
<1>1. ASSUME NEW mo \in Months, NEW c \in Columns
      PROVE  InColumn(c, mo)' = InColumn(c, mo)
  <2>1. c # "none"
    BY DEF Columns
  <2> QED BY <2>1 DEF InColumn
<1> QED BY <1>1, ByColumns

\* A step that moves rows R from one column to another, in the summary as in the ledger.
LEMMA ReconcileMove ==
  ASSUME TypeOK, SummaryReconciles,
         NEW R \in SUBSET RowIds, NEW from \in Columns, NEW to \in Columns, from # to, NEW posts,
         \A mo \in Months : PostedIn(posts, mo) = RowsOf(R, mo),
         \A r \in R : ledger[r].status = from /\ ledger'[r].status = to,
         \A r \in RowIds \ R : ledger'[r].status = ledger[r].status,
         \A r \in RowIds : ledger[r].status # "none" => RowMonth(r)' = RowMonth(r),
         summary' = Move(summary, posts, from, to)
  PROVE  SummaryReconciles'
<1>1. summary \in Summaries
  BY DEF TypeOK, Summaries
<1>2. ASSUME NEW mo \in Months, NEW ln \in Lines, NEW c \in Columns
      PROVE  summary'[mo][ln][c] = Units(InColumn(c, mo)', ln)
  <2>1. summary'[mo][ln][c] =
          IF c = from THEN summary[mo][ln][c] - Units(RowsOf(R, mo), ln)
          ELSE IF c = to THEN summary[mo][ln][c] + Units(RowsOf(R, mo), ln)
          ELSE summary[mo][ln][c]
    BY <1>1, MoveCell
  <2>2. summary[mo][ln][c] = Units(InColumn(c, mo), ln)
    BY ByColumns
  <2>3. "none" \notin Columns
    BY DEF Columns
  <2>4. CASE c = from
    <3>1. InColumn(c, mo)' = InColumn(c, mo) \ RowsOf(R, mo)
      BY <2>3, <2>4 DEF InColumn, RowsOf
    <3>2. InColumn(c, mo) \in SUBSET RowIds /\ RowsOf(R, mo) \in SUBSET InColumn(c, mo)
      BY <2>4 DEF InColumn, RowsOf
    <3> QED BY <2>1, <2>2, <2>4, <3>1, <3>2, UnitsMinus
  <2>5. CASE c = to
    <3>1. InColumn(c, mo)' = InColumn(c, mo) \cup RowsOf(R, mo)
      BY <2>3, <2>5 DEF InColumn, RowsOf
    <3>2. /\ InColumn(c, mo) \in SUBSET RowIds /\ RowsOf(R, mo) \in SUBSET RowIds
          /\ InColumn(c, mo) \cap RowsOf(R, mo) = {}
      BY <2>5 DEF InColumn, RowsOf
    <3> QED BY <2>1, <2>2, <2>5, <3>1, <3>2, UnitsUnion
  <2>6. CASE c # from /\ c # to
    <3>1. InColumn(c, mo)' = InColumn(c, mo)
      BY <2>3, <2>6 DEF InColumn
    <3> QED BY <2>1, <2>2, <2>6, <3>1
  <2> QED BY <2>4, <2>5, <2>6
<1> QED BY <1>2, ByColumns

\* A step that creates rows R in one column.
LEMMA ReconcileCreate ==
  ASSUME TypeOK, SummaryReconciles,
         NEW R \in SUBSET RowIds, NEW col \in Columns, NEW posts,
         \A mo \in Months : PostedIn(posts, mo) = {r \in R : RowMonth(r)' = mo},
         \A r \in R : ledger[r].status = "none" /\ ledger'[r].status = col,
         \A r \in RowIds \ R : ledger'[r].status = ledger[r].status,
         \A r \in RowIds : ledger[r].status # "none" => RowMonth(r)' = RowMonth(r),
         summary' = Post(summary, posts, col, 1)
  PROVE  SummaryReconciles'
<1>1. summary \in Summaries
  BY DEF TypeOK, Summaries
<1>2. ASSUME NEW mo \in Months, NEW ln \in Lines, NEW c \in Columns
      PROVE  summary'[mo][ln][c] = Units(InColumn(c, mo)', ln)
  <2> DEFINE New == {r \in R : RowMonth(r)' = mo}
  <2>1. summary'[mo][ln][c] =
          IF c = col THEN summary[mo][ln][c] + 1 * Units(New, ln) ELSE summary[mo][ln][c]
    <3>1. PostedIn(posts, mo) = New
      OBVIOUS
    <3> HIDE DEF New
    <3>2. Post(summary, posts, col, 1)[mo][ln][c] =
            IF c = col THEN summary[mo][ln][c] + 1 * Units(PostedIn(posts, mo), ln)
            ELSE summary[mo][ln][c]
      BY <1>1, PostCell
    <3> QED BY <3>1, <3>2
  <2>2. summary[mo][ln][c] = Units(InColumn(c, mo), ln)
    BY ByColumns
  <2>3. "none" \notin Columns
    BY DEF Columns
  <2>4. CASE c = col
    <3>1. InColumn(c, mo)' = InColumn(c, mo) \cup New
      BY <2>3, <2>4 DEF InColumn
    <3>2. /\ InColumn(c, mo) \in SUBSET RowIds /\ New \in SUBSET RowIds
          /\ InColumn(c, mo) \cap New = {}
      BY <2>3 DEF InColumn
    <3> HIDE DEF New
    <3>3. Units(InColumn(c, mo)', ln) = Units(InColumn(c, mo), ln) + Units(New, ln)
      BY <3>1, <3>2, UnitsUnion
    <3>4. Units(New, ln) \in Int
      BY UnitsType
    <3> QED BY <2>1, <2>2, <2>4, <3>3, <3>4
  <2>5. CASE c # col
    <3>1. InColumn(c, mo)' = InColumn(c, mo)
      BY <2>3, <2>5 DEF InColumn
    <3> QED BY <2>1, <2>2, <2>5, <3>1
  <2> QED BY <2>4, <2>5
<1> QED BY <1>2, ByColumns

\* The months of live rows do not change.
LiveMonthsKept == \A r \in RowIds : ledger[r].status # "none" => RowMonth(r)' = RowMonth(r)

\* approveSale freezes the month of the sale for all its rows.
LEMMA ApprovedMonth ==
  ASSUME TypeOK, NEW s \in Sales, ApproveSaleInTx(s), NEW r \in CommissionRows(s)
  PROVE  RowMonth(r)' = SaleMonth(s)
<1>1. SaleMonth(s) # NoMonth
  BY SaleMonthType, LedgerAssumption
<1>2. sale'[s].month = SaleMonth(s)
  BY DEF ApproveSaleInTx, TypeOK
<1> QED BY <1>1, <1>2, CommissionRowNames DEF RowMonth, SaleMonth

\* approveSale creates the earned rows.
LEMMA ReconcileApprove ==
  ASSUME TypeOK, LiveMonthsKept, SummaryReconciles, NEW s \in Sales, ApproveSaleInTx(s)
  PROVE  SummaryReconciles'
<1>1. PICK split \in Splits[s] :
        /\ ledger' = [r \in RowIds |->
             IF r \in Earning(s, split)
             THEN NewRow(StartStatus, split[r[2][2]], NoMonth, StartMatures(s))
             ELSE ledger[r]]
        /\ summary' = Post(summary, SalePostings(s, Earning(s, split)), StartStatus, 1)
  BY DEF ApproveSaleInTx
<1> DEFINE R == Earning(s, split)
<1>2. R \in SUBSET RowIds /\ \A r \in R : r[1] = "commission" /\ r[2][1] = s
  BY CommissionRowNames DEF Earning
<1>3. StartStatus \in Columns
  BY DEF StartStatus, Columns
<1>4. \A r \in R : ledger[r].status = "none" /\ ledger'[r].status = StartStatus
  BY <1>1, <1>2 DEF ApproveSaleInTx, Applied, Earning, NewRow
<1>5. \A r \in RowIds \ R : ledger'[r].status = ledger[r].status
  BY <1>1
<1>6. \A r \in R : RowMonth(r)' = SaleMonth(s)
  BY ApprovedMonth DEF Earning
<1>7. \A mo \in Months :
        PostedIn(SalePostings(s, R), mo) = {r \in R : RowMonth(r)' = mo}
  <2> SUFFICES ASSUME NEW mo \in Months
               PROVE  PostedIn(SalePostings(s, R), mo) = {r \in R : RowMonth(r)' = mo}
    OBVIOUS
  <2>1. PostedIn(SalePostings(s, R), mo) = IF SaleMonth(s) = mo THEN R ELSE {}
    BY PostedRows
  <2> QED BY <1>6, <2>1
<1>8. summary' = Post(summary, SalePostings(s, R), StartStatus, 1)
  BY <1>1
<1> HIDE DEF R
<1> QED BY <1>2, <1>3, <1>4, <1>5, <1>7, <1>8, ReconcileCreate DEF LiveMonthsKept

\* awardBonus creates one row.
LEMMA ReconcileAward ==
  ASSUME TypeOK, LiveMonthsKept, SummaryReconciles,
         NEW a \in Awards, NEW m \in Members, NEW mo \in Months, AwardBonus(a, m, mo)
  PROVE  SummaryReconciles'
<1> DEFINE r0 == <<"adjustment", <<a, 0>>>>
           posts == {[row |-> r0, month |-> mo]}
<1>1. r0 \in RowIds
  BY DEF RowIds, AwardLines
<1>2. ledger[r0].status = "none" /\ ledger'[r0] = NewRow("payable", m, mo, FALSE)
  BY <1>1 DEF AwardBonus, TypeOK
<1>3. RowMonth(r0)' = mo /\ ledger'[r0].status = "payable"
  BY <1>2 DEF RowMonth, NewRow
<1>4. \A r \in RowIds \ {r0} : ledger'[r].status = ledger[r].status
  BY DEF AwardBonus, TypeOK
<1>5. \A n \in Months : PostedIn(posts, n) = {r \in {r0} : RowMonth(r)' = n}
  <2> SUFFICES ASSUME NEW n \in Months
               PROVE  PostedIn(posts, n) = {r \in {r0} : RowMonth(r)' = n}
    OBVIOUS
  <2> DEFINE p0 == [row |-> r0, month |-> mo]
  <2>1. PostedIn(posts, n) = IF n = mo THEN {r0} ELSE {}
    <3>1. p0.row = r0 /\ p0.month = mo
      OBVIOUS
    <3>2. posts = {p0}
      OBVIOUS
    <3> HIDE DEF p0, posts, r0
    <3>3. {q \in posts : q.month = n} = IF n = mo THEN {p0} ELSE {}
      BY <3>1, <3>2
    <3> QED BY <3>1, <3>3 DEF PostedIn
  <2>2. {r \in {r0} : RowMonth(r)' = n} = IF n = mo THEN {r0} ELSE {}
    BY <1>3
  <2> QED BY <2>1, <2>2
<1>6. summary' = Post(summary, posts, "payable", 1)
  BY DEF AwardBonus
<1>7. "payable" \in Columns /\ {r0} \in SUBSET RowIds
  BY <1>1 DEF Columns
<1>8. \A r \in {r0} : ledger[r].status = "none" /\ ledger'[r].status = "payable"
  BY <1>2, <1>3
<1> DEFINE R == {r0}
<1>9. /\ R \in SUBSET RowIds
      /\ \A n \in Months : PostedIn(posts, n) = {r \in R : RowMonth(r)' = n}
      /\ \A r \in R : ledger[r].status = "none" /\ ledger'[r].status = "payable"
      /\ \A r \in RowIds \ R : ledger'[r].status = ledger[r].status
  BY <1>4, <1>5, <1>7, <1>8
<1> HIDE DEF r0, posts, R
<1> QED BY <1>6, <1>7, <1>9, ReconcileCreate DEF LiveMonthsKept

\* matureCommissions moves pending rows.
LEMMA ReconcileMature ==
  ASSUME TypeOK, LiveMonthsKept, SummaryReconciles,
         NEW R \in SUBSET DueRows, MatureCommissions(R)
  PROVE  SummaryReconciles'
<1>1. R \in SUBSET RowIds /\ \A r \in R : ledger[r].status = "pending"
  BY DEF DueRows
<1>2. /\ \A r \in R : ledger'[r].status = "payable"
      /\ \A r \in RowIds \ R : ledger'[r].status = ledger[r].status
  BY <1>1 DEF MatureCommissions, TypeOK, Row
<1>3. \A mo \in Months : PostedIn(Postings(R), mo) = RowsOf(R, mo)
  BY PostedRows
<1>4. summary' = Move(summary, Postings(R), "pending", "payable")
  BY DEF MatureCommissions
<1>5. "pending" \in Columns /\ "payable" \in Columns
  BY DEF Columns
<1> DEFINE posts == Postings(R)
<1>6. /\ \A mo \in Months : PostedIn(posts, mo) = RowsOf(R, mo)
      /\ summary' = Move(summary, posts, "pending", "payable")
      /\ "pending" # "payable"
  BY <1>3, <1>4
<1> HIDE DEF posts
<1> QED BY <1>1, <1>2, <1>5, <1>6, ReconcileMove DEF LiveMonthsKept

\* The rows that items post in a month, when items remember the months of their rows.
LEMMA PostedItems ==
  ASSUME NEW items, \A i \in items : i.month = RowMonth(i.row), NEW mo
  PROVE  PostedIn(items, mo) = RowsOf({i.row : i \in items}, mo)
BY DEF PostedIn, RowsOf

\* The items of a reservation are one for each claimed row.
LEMMA ReservedItems ==
  ASSUME NEW b, NEW M, NEW period
  PROVE  /\ \A i \in ItemsFor(b, M, period) : i.month = RowMonth(i.row)
         /\ {i.row : i \in ItemsFor(b, M, period)} = ClaimedRows(M)
<1> DEFINE item(r) == [row |-> r, payout |-> PayoutFor(b, ledger[r].member, period),
                       month |-> RowMonth(r)]
<1>1. \A r : item(r).row = r /\ item(r).month = RowMonth(r)
  OBVIOUS
<1>2. ItemsFor(b, M, period) = {item(r) : r \in ClaimedRows(M)}
  BY DEF ItemsFor
<1> HIDE DEF item
<1> QED BY <1>1, <1>2

\* reservePayoutBatch moves the claimed rows.
LEMMA ReconcileReserve ==
  ASSUME TypeOK, LiveMonthsKept, SummaryReconciles,
         NEW b \in Batches, NEW T \in SUBSET Members, NEW mo \in Months,
         ReservePayoutBatch(b, T, mo)
  PROVE  SummaryReconciles'
<1> DEFINE M == Ready(T, mo)
           R == ClaimedRows(M)
           items == ItemsFor(b, M, mo)
<1>1. R \in SUBSET RowIds /\ \A r \in R : ledger[r].status = "payable"
  BY DEF ClaimedRows, PayableRows
<1>2. /\ \A r \in R : ledger'[r].status = "processing"
      /\ \A r \in RowIds \ R : ledger'[r].status = ledger[r].status
  BY <1>1, BatchEdits DEF ReservePayoutBatch, TypeOK
<1>3. \A n \in Months : PostedIn(items, n) = RowsOf(R, n)
  BY ReservedItems, PostedItems
<1>4. summary' = Move(summary, items, "payable", "processing")
  BY DEF ReservePayoutBatch
<1>5. "payable" \in Columns /\ "processing" \in Columns /\ "payable" # "processing"
  BY DEF Columns
<1> HIDE DEF M, R, items
<1> QED BY <1>1, <1>2, <1>3, <1>4, <1>5, ReconcileMove DEF LiveMonthsKept

\* settlePayoutBatch and failPayoutBatch move the rows of the batch.
LEMMA ReconcileOutcome ==
  ASSUME TypeOK, LiveMonthsKept, ItemMonths, SummaryReconciles,
         NEW b \in Batches, SettlePayoutBatch(b) \/ FailPayoutBatch(b)
  PROVE  SummaryReconciles'
<1> DEFINE R == ItemRows(b)
           items == batch[b].items
<1>1. R \in SUBSET RowIds
  BY ItemType DEF ItemRows
<1>2. \A n \in Months : PostedIn(items, n) = RowsOf(R, n)
  BY PostedItems DEF ItemMonths, ItemRows
<1>3. \A r \in R : ledger[r].status = "processing"
  BY DEF SettlePayoutBatch, FailPayoutBatch, Intact
<1>4. "payable" \in Columns /\ "processing" \in Columns /\ "paid" \in Columns
  BY DEF Columns
<1>5. CASE SettlePayoutBatch(b)
  <2>1. /\ \A r \in R : ledger'[r].status = "paid"
        /\ \A r \in RowIds \ R : ledger'[r].status = ledger[r].status
    BY <1>1, <1>5 DEF SettlePayoutBatch, TypeOK, Row
  <2>2. summary' = Move(summary, items, "processing", "paid") /\ "processing" # "paid"
    BY <1>5 DEF SettlePayoutBatch
  <2> HIDE DEF R, items
  <2> QED BY <1>1, <1>2, <1>3, <1>4, <2>1, <2>2, ReconcileMove DEF LiveMonthsKept
<1>6. CASE FailPayoutBatch(b)
  <2>1. /\ \A r \in R : ledger'[r].status = "payable"
        /\ \A r \in RowIds \ R : ledger'[r].status = ledger[r].status
    BY <1>1, <1>6, BatchEdits DEF FailPayoutBatch, TypeOK
  <2>2. summary' = Move(summary, items, "processing", "payable") /\ "processing" # "payable"
    BY <1>6 DEF FailPayoutBatch
  <2> HIDE DEF R, items
  <2> QED BY <1>1, <1>2, <1>3, <1>4, <2>1, <2>2, ReconcileMove DEF LiveMonthsKept
<1> QED BY <1>5, <1>6

Reversals(R) == {<<"reversal", r[2]>> : r \in R}

\* The reversals of commission rows add up to minus the rows.
LEMMA UnitsReversed ==
  ASSUME NEW s \in Sales, NEW R \in SUBSET CommissionRows(s), NEW ln
  PROVE  Units(Reversals(R), ln) = - Units(R, ln)
<1>1. \A r \in R : r = <<"commission", r[2]>>
  BY DEF CommissionRows
<1>2. <<"reversal", ln>> \in Reversals(R) <=> <<"commission", ln>> \in R
  <2>1. ASSUME NEW r \in R, <<"reversal", ln>> = <<"reversal", r[2]>>
        PROVE  <<"commission", ln>> \in R
    <3>1. r[2] = ln
      BY <2>1
    <3> QED BY <1>1, <3>1
  <2>2. ASSUME <<"commission", ln>> \in R
        PROVE  <<"reversal", ln>> \in Reversals(R)
    <3>1. <<"commission", ln>>[2] = ln
      OBVIOUS
    <3> QED BY <2>2, <3>1 DEF Reversals
  <2> QED BY <2>1, <2>2 DEF Reversals
<1>3. <<"commission", ln>> \notin Reversals(R) /\ <<"adjustment", ln>> \notin Reversals(R)
  BY DEF Reversals
<1>4. <<"reversal", ln>> \notin R /\ <<"adjustment", ln>> \notin R
  BY DEF CommissionRows
<1> QED BY <1>2, <1>3, <1>4 DEF Units

\* What voidSale does to the status of each row.
LEMMA VoidStatuses ==
  ASSUME TypeOK, VoidInv, NEW s \in Sales, VoidSale(s)
  PROVE  /\ \A r \in Entries(s, {"pending", "payable"}) : ledger'[r].status = "reversed"
         /\ \A r \in Reversals(Entries(s, {"paid"})) :
              /\ r \in RowIds /\ r[1] = "reversal" /\ r[2][1] = s
              /\ ledger[r].status = "none" /\ ledger'[r].status = "payable"
         /\ \A r \in RowIds :
              \/ r \in Entries(s, {"pending", "payable"})
              \/ r \in Reversals(Entries(s, {"paid"}))
              \/ ledger'[r].status = ledger[r].status
              \/ ledger[r].status = "none" /\ ledger'[r].status = "reversed"
<1> DEFINE closed == Entries(s, {"pending", "payable"})
           paid == Entries(s, {"paid"})
           all == Entries(s, Columns)
<1>1. /\ closed \cap paid = {}
      /\ all = closed \cup paid
      /\ all \in SUBSET CommissionRows(s)
  BY DEF Entries, Columns, VoidSale
<1>2. \A r \in all : /\ r \in RowIds /\ r[1] = "commission" /\ r[2][1] = s
                     /\ r = <<"commission", r[2]>>
                     /\ <<"reversal", r[2]>> \in RowIds
                     /\ ledger[<<"reversal", r[2]>>].status = "none"
  <2> SUFFICES ASSUME NEW r \in CommissionRows(s)
               PROVE  /\ r \in RowIds /\ r[1] = "commission" /\ r[2][1] = s
                      /\ r = <<"commission", r[2]>>
                      /\ <<"reversal", r[2]>> \in RowIds
                      /\ ledger[<<"reversal", r[2]>>].status = "none"
    BY <1>1
  <2>1. r \in RowIds /\ r[1] = "commission" /\ r[2][1] = s /\ <<"reversal", r[2]>> \in RowIds
    BY CommissionRowNames, ReversalNames
  <2>2. r = <<"commission", r[2]>>
    BY DEF CommissionRows
  <2>3. TakenBack(s, r) /\ sale[s].status # "void"
    BY DEF VoidSale, VoidInv, VoidTakesBackAll
  <2> QED BY <2>1, <2>2, <2>3 DEF TakenBack
<1>3. ASSUME NEW r \in closed
      PROVE  ledger'[r].status = "reversed"
  <2>1. r \in RowIds
    BY <1>1, <1>2
  <2>2. ledger'[r] = [ledger[r] EXCEPT !.status = "reversed"]
    BY <2>1 DEF VoidSale
  <2> QED BY <2>1, <2>2 DEF TypeOK, Row
<1>4. ASSUME NEW r \in paid
      PROVE  /\ ledger'[<<"reversal", r[2]>>].status = "payable"
             /\ <<"reversal", r[2]>>[1] = "reversal"
             /\ <<"reversal", r[2]>>[2][1] = s
  <2>1. Original(<<"reversal", r[2]>>) = r /\ r \in all
    BY <1>1, <1>2 DEF Original
  <2>2. ReversalStatus(ledger[r].status) = "payable"
    BY DEF Entries, ReversalStatus
  <2>3. <<"reversal", r[2]>> \notin closed
    BY <1>1, <1>2
  <2> QED BY <1>2, <2>1, <2>2, <2>3 DEF VoidSale, NewRow
<1>5. ASSUME NEW r \in RowIds, r \notin closed, r \notin Reversals(paid)
      PROVE  \/ ledger'[r].status = ledger[r].status
             \/ ledger[r].status = "none" /\ ledger'[r].status = "reversed"
  <2>1. CASE r[1] = "reversal" /\ Original(r) \in all
    <3>1. r = <<"reversal", Original(r)[2]>>
      BY <2>1 DEF Original, RowIds
    <3>2. Original(r) \in closed
      BY <1>1, <1>5, <2>1, <3>1 DEF Reversals
    <3>3. ReversalStatus(ledger[Original(r)].status) = "reversed"
      BY <3>2 DEF Entries, ReversalStatus
    <3> QED BY <1>2, <1>5, <2>1, <3>1, <3>3 DEF VoidSale, NewRow
  <2>2. CASE ~(r[1] = "reversal" /\ Original(r) \in all)
    BY <1>5, <2>2 DEF VoidSale
  <2> QED BY <2>1, <2>2
<1>6. \A r \in Reversals(paid) : \E o \in paid : r = <<"reversal", o[2]>>
  BY DEF Reversals
<1> HIDE DEF closed, paid, all
<1>7. \A r \in Reversals(paid) :
        /\ r \in RowIds /\ r[1] = "reversal" /\ r[2][1] = s
        /\ ledger[r].status = "none" /\ ledger'[r].status = "payable"
  BY <1>1, <1>2, <1>4, <1>6
<1> QED BY <1>3, <1>5, <1>7 DEF closed, paid

\* voidSale subtracts the pending and payable rows, and the paid rows as clawbacks.
LEMMA ReconcileVoid ==
  ASSUME TypeOK, MonthsAreFrozen, VoidInv, LiveMonthsKept, SummaryReconciles,
         NEW s \in Sales, VoidSale(s)
  PROVE  SummaryReconciles'
<1> DEFINE P == Entries(s, {"pending"})
           Y == Entries(s, {"payable"})
           D == Entries(s, {"paid"})
           N == Reversals(D)
           At(R, mo) == IF SaleMonth(s) = mo THEN R ELSE {}
<1>1. /\ P \in SUBSET CommissionRows(s) /\ Y \in SUBSET CommissionRows(s)
      /\ D \in SUBSET CommissionRows(s)
      /\ Entries(s, {"pending", "payable"}) = P \cup Y
      /\ Entries(s, {"payable", "paid"}) = Y \cup D
      /\ \A r \in P : ledger[r].status = "pending"
      /\ \A r \in Y : ledger[r].status = "payable"
      /\ \A r \in D : ledger[r].status = "paid"
  BY DEF Entries
<1>2. CommissionRows(s) \in SUBSET RowIds /\ \A r \in CommissionRows(s) : RowMonth(r) = SaleMonth(s)
  BY CommissionRowNames DEF RowMonth
<1>3. \A r \in N : /\ r \in RowIds /\ ledger[r].status = "none" /\ ledger'[r].status = "payable"
                   /\ r[1] = "reversal" /\ r[2][1] = s
  BY VoidStatuses
<1>4. \A r \in N : RowMonth(r)' = SaleMonth(s)
  <2> SUFFICES ASSUME NEW r \in N PROVE RowMonth(r)' = SaleMonth(s)
    OBVIOUS
  <2>1. PICK d \in D : TRUE
    BY DEF Reversals
  <2>2. ledger[d].status # "none" /\ d \in RowIds /\ d[1] # "adjustment" /\ d[2][1] = s
    BY <1>1, <1>2, CommissionRowNames
  <2>3. sale[s].month \in Months
    BY <2>2 DEF MonthsAreFrozen
  <2>4. sale'[s].month = sale[s].month
    BY DEF VoidSale, TypeOK, Sale
  <2> QED BY <1>3, <2>3, <2>4, LedgerAssumption DEF RowMonth, SaleMonth
<1>5. /\ \A r \in P \cup Y : ledger'[r].status = "reversed"
      /\ \A r \in RowIds : \/ r \in P \cup Y
                           \/ r \in N
                           \/ ledger'[r].status = ledger[r].status
                           \/ ledger[r].status = "none" /\ ledger'[r].status = "reversed"
  BY <1>1, VoidStatuses
<1> SUFFICES ASSUME NEW mo \in Months, NEW ln \in Lines, NEW c \in Columns
             PROVE  summary'[mo][ln][c] = Units(InColumn(c, mo)', ln)
  BY ByColumns
<1>6. summary[mo][ln][c] = Units(InColumn(c, mo), ln) /\ summary[mo][ln][c] \in Int
  BY ByColumns DEF TypeOK
<1>7. summary'[mo][ln][c] =
        IF c = "pending" THEN summary[mo][ln][c] - Units(At(P, mo), ln)
        ELSE IF c = "payable" THEN summary[mo][ln][c] - Units(At(Y \cup D, mo), ln)
        ELSE summary[mo][ln][c]
  <2> DEFINE mid == Post(summary, SalePostings(s, P), "pending", -1)
             posts == SalePostings(s, Y \cup D)
  <2>1. mid \in Summaries /\ summary \in Summaries
    BY PostType DEF TypeOK, Summaries
  <2>2. summary' = Post(mid, posts, "payable", -1)
    BY <1>1 DEF VoidSale
  <2>3. /\ PostedIn(SalePostings(s, P), mo) = At(P, mo)
        /\ PostedIn(posts, mo) = At(Y \cup D, mo)
    BY PostedRows
  <2>4. mid[mo][ln][c] = IF c = "pending" THEN summary[mo][ln][c] + (-1) * Units(At(P, mo), ln)
                         ELSE summary[mo][ln][c]
    <3>1. mid[mo][ln][c] =
            IF c = "pending"
            THEN summary[mo][ln][c] + (-1) * Units(PostedIn(SalePostings(s, P), mo), ln)
            ELSE summary[mo][ln][c]
      BY <2>1, PostCell
    <3> QED BY <2>3, <3>1
  <2>5. Post(mid, posts, "payable", -1)[mo][ln][c] =
          IF c = "payable" THEN mid[mo][ln][c] + (-1) * Units(At(Y \cup D, mo), ln)
          ELSE mid[mo][ln][c]
    <3>1. Post(mid, posts, "payable", -1)[mo][ln][c] =
            IF c = "payable" THEN mid[mo][ln][c] + (-1) * Units(PostedIn(posts, mo), ln)
            ELSE mid[mo][ln][c]
      <4> HIDE DEF mid, posts
      <4> QED BY <2>1, PostCell
    <3> QED BY <2>3, <3>1
  <2>6. Units(At(P, mo), ln) \in Int /\ Units(At(Y \cup D, mo), ln) \in Int
    BY UnitsType
  <2> HIDE DEF mid, posts, At, P, Y, D
  <2> QED BY <1>6, <2>2, <2>4, <2>5, <2>6
<1>8. "none" \notin Columns /\ "reversed" \notin Columns
  BY DEF Columns
<1>9. /\ At(P, mo) \in SUBSET CommissionRows(s) /\ At(Y, mo) \in SUBSET CommissionRows(s)
      /\ At(D, mo) \in SUBSET CommissionRows(s) /\ Reversals(At(D, mo)) = At(N, mo)
      /\ At(Y \cup D, mo) = At(Y, mo) \cup At(D, mo) /\ At(Y, mo) \cap At(D, mo) = {}
  BY <1>1 DEF Reversals
<1>10. \A r \in P \cup Y \cup D : r \in RowIds /\ RowMonth(r) = SaleMonth(s)
  BY <1>1, <1>2
<1>11. \A r \in RowIds : ledger[r].status # "none" => RowMonth(r)' = RowMonth(r)
  BY DEF LiveMonthsKept
<1> HIDE DEF P, Y, D, N
<1>12. CASE c = "pending"
  <2>1. InColumn(c, mo)' = InColumn(c, mo) \ At(P, mo)
    <3>1. ASSUME NEW r \in RowIds
          PROVE  (ledger'[r].status = "pending" /\ RowMonth(r)' = mo) <=>
                   (ledger[r].status = "pending" /\ RowMonth(r) = mo /\ r \notin P)
      <4>1. CASE r \in P \cup Y \cup N
        BY <1>1, <1>3, <1>5, <4>1
      <4>2. CASE r \notin P \cup Y \cup N
        BY <1>5, <1>11, <4>2
      <4> QED BY <4>1, <4>2
    <3>2. ASSUME NEW r \in RowIds, ledger[r].status = "pending", RowMonth(r) = mo
          PROVE  r \in P <=> r \in At(P, mo)
      BY <1>10, <3>2
    <3> HIDE DEF At
    <3> QED BY <1>12, <3>1, <3>2 DEF InColumn
  <2>2. InColumn(c, mo) \in SUBSET RowIds /\ At(P, mo) \in SUBSET InColumn(c, mo)
    BY <1>1, <1>10, <1>12 DEF InColumn
  <2> QED BY <1>6, <1>7, <1>12, <2>1, <2>2, UnitsMinus
<1>13. CASE c = "payable"
  <2> DEFINE Rest == InColumn(c, mo) \ At(Y, mo)
  <2>1. InColumn(c, mo)' = Rest \cup At(N, mo)
    <3>1. ASSUME NEW r \in RowIds
          PROVE  (ledger'[r].status = "payable" /\ RowMonth(r)' = mo) <=>
                   \/ ledger[r].status = "payable" /\ RowMonth(r) = mo /\ r \notin Y
                   \/ r \in N /\ SaleMonth(s) = mo
      <4>1. CASE r \in N
        BY <1>3, <1>4, <4>1
      <4>2. CASE r \in P \cup Y /\ r \notin N
        BY <1>1, <1>5, <1>11, <4>2
      <4>3. CASE r \notin P \cup Y \cup N
        BY <1>5, <1>11, <4>3
      <4> QED BY <4>1, <4>2, <4>3
    <3>2. ASSUME NEW r \in RowIds, ledger[r].status = "payable", RowMonth(r) = mo
          PROVE  r \in Y <=> r \in At(Y, mo)
      BY <1>10, <3>2
    <3>3. ASSUME NEW r
          PROVE  r \in At(N, mo) <=> r \in N /\ SaleMonth(s) = mo
      OBVIOUS
    <3>4. At(N, mo) \in SUBSET RowIds
      BY <1>3
    <3> HIDE DEF At
    <3> QED BY <1>13, <3>1, <3>2, <3>3, <3>4 DEF InColumn
  <2>2. /\ InColumn(c, mo) \in SUBSET RowIds /\ At(Y, mo) \in SUBSET InColumn(c, mo)
        /\ At(N, mo) \in SUBSET RowIds /\ Rest \cap At(N, mo) = {} /\ Rest \in SUBSET RowIds
    BY <1>1, <1>3, <1>10, <1>13 DEF InColumn
  <2>3. Units(Rest, ln) = Units(InColumn(c, mo), ln) - Units(At(Y, mo), ln)
    BY <2>2, UnitsMinus
  <2> HIDE DEF Rest
  <2>4. Units(Rest \cup At(N, mo), ln) = Units(Rest, ln) + Units(At(N, mo), ln)
    BY <2>2, UnitsUnion
  <2>5. Units(At(N, mo), ln) = - Units(At(D, mo), ln)
    BY <1>9, UnitsReversed
  <2>6. Units(At(Y \cup D, mo), ln) = Units(At(Y, mo), ln) + Units(At(D, mo), ln)
    BY <1>2, <1>9, UnitsUnion
  <2>7. /\ Units(At(Y, mo), ln) \in Int /\ Units(At(D, mo), ln) \in Int
        /\ Units(InColumn(c, mo), ln) \in Int
    BY UnitsType
  <2> HIDE DEF At
  <2>8. summary'[mo][ln][c] = Units(Rest \cup At(N, mo), ln)
    BY <1>6, <1>7, <1>13, <2>3, <2>4, <2>5, <2>6, <2>7
  <2> QED BY <2>1, <2>8
<1>14. CASE c \notin {"pending", "payable"}
  <2>1. InColumn(c, mo)' = InColumn(c, mo)
    BY <1>1, <1>3, <1>5, <1>8, <1>11, <1>14 DEF InColumn
  <2> QED BY <1>6, <1>7, <1>14, <2>1
<1> QED BY <1>12, <1>13, <1>14

\* The other steps change no status and no summary.
LEMMA ReconcileOther ==
  ASSUME TypeOK, LiveMonthsKept, SummaryReconciles,
         \/ \E s \in Sales : MarkDelivered(s)
         \/ \E q \in Requests, m \in Members, mo \in Months : RequestPayout(q, m, mo)
         \/ \E p \in PayoutIds : RejectPayoutRequest(p)
         \/ \E b \in Batches : DispatchPayoutBatch(b)
         \/ AdminStep
         \/ UNCHANGED vars
  PROVE  SummaryReconciles'
<1>1. summary' = summary
  BY DEF MarkDelivered, RequestPayout, RejectPayoutRequest, DispatchPayoutBatch, AdminStep,
     LockPeriod, UnlockPeriod, UpdateSettings, ReviewCompliance, vars
<1>2. ASSUME NEW s \in Sales, MarkDelivered(s)
      PROVE  \A r \in RowIds : ledger'[r].status = ledger[r].status
  BY <1>2 DEF MarkDelivered, TypeOK, Row
<1>3. ASSUME ~ \E s \in Sales : MarkDelivered(s)
      PROVE  ledger' = ledger
  BY <1>3 DEF RequestPayout, RejectPayoutRequest, DispatchPayoutBatch, AdminStep,
     LockPeriod, UnlockPeriod, UpdateSettings, ReviewCompliance, vars
<1> QED BY <1>1, <1>2, <1>3, ReconcileKept DEF LiveMonthsKept

\* SummaryReconciles is preserved, given the invariants that keep months and items.
LEMMA ReconcileStep ==
  ASSUME TypeOK, MonthsAreFrozen, VoidInv, ItemMonths, SummaryReconciles, [Next]_vars
  PROVE  SummaryReconciles'
<1>1. LiveMonthsKept
  BY RowMonthKept DEF LiveMonthsKept
<1>2. CASE SaleStep
  <2>1. CASE \E s \in Sales : MarkDelivered(s)
    BY <1>1, <2>1, ReconcileOther
  <2> QED BY <1>1, <1>2, <2>1, ReconcileApprove, ReconcileVoid, ReconcileMature, ReconcileAward
       DEF SaleStep, ApproveSale, BulkApproveSale
<1>3. CASE PayoutStep
  <2>1. CASE \/ \E q \in Requests, m \in Members, mo \in Months : RequestPayout(q, m, mo)
             \/ \E p \in PayoutIds : RejectPayoutRequest(p)
             \/ \E b \in Batches : DispatchPayoutBatch(b)
    BY <1>1, <2>1, ReconcileOther
  <2> QED BY <1>1, <1>3, <2>1, ReconcileReserve, ReconcileOutcome DEF PayoutStep
<1>4. CASE AdminStep \/ UNCHANGED vars
  BY <1>1, <1>4, ReconcileOther
<1> QED BY <1>2, <1>3, <1>4 DEF Next

\* The empty tables reconcile.
LEMMA ReconcileInit == Init => SummaryReconciles /\ ItemMonths
<1> SUFFICES ASSUME Init PROVE SummaryReconciles /\ ItemMonths
  OBVIOUS
<1>1. ASSUME NEW mo \in Months, NEW ln \in Lines, NEW c \in Columns
      PROVE  summary[mo][ln][c] = Units(InColumn(c, mo), ln)
  <2>1. InColumn(c, mo) = {}
    BY DEF Init, InColumn, NoRow, NewRow, Columns
  <2>2. summary[mo][ln][c] = 0
    BY DEF Init
  <2> QED BY <2>1, <2>2, UnitsType
<1> QED BY <1>1, ByColumns DEF Init, ItemMonths

\* bumpSummary never drifts: each monthly summary is the sum of its ledger rows.
THEOREM Reconciled == Spec => []SummaryReconciles
<1>1. Init => SummaryReconciles /\ ItemMonths
  BY ReconcileInit
<1>2. TypeOK /\ MonthsAreFrozen /\ VoidInv /\ PayoutInv /\ SummaryReconciles /\ ItemMonths
        /\ [Next]_vars => SummaryReconciles' /\ ItemMonths'
  BY ReconcileStep, ItemMonthsStep
<1> QED BY <1>1, <1>2, TypeCorrect, VoidInvariant, PayoutInvariant, PTL DEF Spec

(***************************************************************************)
(* The wait for a delivery.  Rows are written with a matures_at when the   *)
(* sale is delivered by then and waits at all; a delivery gives one to the *)
(* rows that are there; and nothing else makes a row of a sale pending.    *)
(***************************************************************************)

\* A row written for a delivered sale is due at once or has its matures_at.
LEMMA StartOfDelivered ==
  ASSUME TypeOK, NEW s \in Sales, sale[s].delivered, StartStatus = "pending"
  PROVE  StartMatures(s)
BY LedgerAssumption DEF TypeOK, StartStatus, StartMatures, MaturationRules

\* A step that leaves deliveries alone, makes no row pending and keeps each
\* matures_at, keeps the end of the wait.
LEMMA WaitKept ==
  ASSUME DeliveryEndsTheWait,
         \A s \in Sales : sale'[s].delivered = sale[s].delivered,
         \A r \in RowIds : ledger'[r].status = "pending" =>
           ledger[r].status = "pending" /\ ledger'[r].matures = ledger[r].matures
  PROVE  DeliveryEndsTheWait'
BY CommissionRowNames DEF DeliveryEndsTheWait

\* Approving writes the rows as the sale's delivery at that time asks.
LEMMA WaitApprove ==
  ASSUME TypeOK, DeliveryEndsTheWait, NEW s \in Sales, ApproveSaleInTx(s)
  PROVE  DeliveryEndsTheWait'
<1>1. \A t \in Sales : sale'[t].delivered = sale[t].delivered
  BY DEF ApproveSaleInTx, TypeOK, Sale
<1>2. PICK split \in Splits[s] :
        ledger' = [r \in RowIds |->
                     IF r \in Earning(s, split)
                     THEN NewRow(StartStatus, split[r[2][2]], NoMonth, StartMatures(s))
                     ELSE ledger[r]]
  BY DEF ApproveSaleInTx
<1> SUFFICES ASSUME NEW t \in Sales, sale'[t].delivered, NEW r \in CommissionRows(t),
                    ledger'[r].status = "pending"
             PROVE  ledger'[r].matures
  BY DEF DeliveryEndsTheWait
<1>3. r \in RowIds
  BY CommissionRowNames
<1>4. CASE r \in Earning(s, split)
  <2>1. ledger'[r] = NewRow(StartStatus, split[r[2][2]], NoMonth, StartMatures(s))
    BY <1>2, <1>3, <1>4
  <2>2. ledger'[r].status = StartStatus /\ ledger'[r].matures = StartMatures(s)
    BY <2>1 DEF NewRow
  <2>3. t = s
    BY <1>4 DEF Earning, CommissionRows
  <2>4. sale[s].delivered
    BY <1>1, <2>3
  <2> QED BY <2>2, <2>4, StartOfDelivered
<1>5. CASE r \notin Earning(s, split)
  <2>1. ledger'[r] = ledger[r]
    BY <1>2, <1>3, <1>5
  <2> QED BY <1>1, <2>1 DEF DeliveryEndsTheWait
<1> QED BY <1>4, <1>5

\* Every step keeps it.
LEMMA WaitStep ==
  ASSUME TypeOK, DeliveryEndsTheWait, [Next]_vars
  PROVE  DeliveryEndsTheWait'
<1>1. ASSUME NEW s \in Sales, VoidSale(s)
      PROVE  DeliveryEndsTheWait'
  <2>1. \A t \in Sales : sale'[t].delivered = sale[t].delivered
    BY <1>1 DEF VoidSale, TypeOK, Sale
  <2>2. ASSUME NEW r \in RowIds, ledger'[r].status = "pending"
        PROVE  ledger'[r] = ledger[r]
    <3>1. r \in Entries(s, {"pending", "payable"}) => ledger'[r].status = "reversed"
      BY <1>1 DEF VoidSale, TypeOK, Row
    <3>2. \A st : ReversalStatus(st) \in {"payable", "reversed"}
      BY DEF ReversalStatus
    <3> QED BY <1>1, <2>2, <3>1, <3>2 DEF VoidSale, NewRow
  <2> QED BY <2>1, <2>2, WaitKept
<1>2. ASSUME NEW s \in Sales, MarkDelivered(s)
      PROVE  DeliveryEndsTheWait'
  <2>1. \A t \in Sales : t # s => sale'[t] = sale[t]
    BY <1>2 DEF MarkDelivered, TypeOK
  <2>2. \A r \in RowIds :
          ledger'[r] = IF r \in CommissionRows(s) /\ ledger[r].status = "pending"
                       THEN [ledger[r] EXCEPT !.matures = TRUE] ELSE ledger[r]
    BY <1>2 DEF MarkDelivered
  <2>3. \A r \in RowIds : ledger[r] \in Row
    BY DEF TypeOK
  <2>4. ASSUME NEW t \in Sales, sale'[t].delivered, NEW r \in CommissionRows(t),
               ledger'[r].status = "pending"
        PROVE  ledger'[r].matures
    <3>1. r \in RowIds
      BY CommissionRowNames
    <3>2. CASE t = s
      BY <2>2, <2>3, <2>4, <3>1, <3>2 DEF Row
    <3>3. CASE t # s
      <4>1. r \notin CommissionRows(s)
        BY <3>3 DEF CommissionRows
      <4> QED BY <2>1, <2>2, <2>4, <3>1, <3>3, <4>1 DEF DeliveryEndsTheWait
    <3> QED BY <3>2, <3>3
  <2> QED BY <2>4 DEF DeliveryEndsTheWait
<1>3. ASSUME NEW R \in SUBSET DueRows, MatureCommissions(R)
      PROVE  DeliveryEndsTheWait'
  <2>1. \A r \in RowIds : ledger'[r].status = "pending" => ledger'[r] = ledger[r]
    BY <1>3 DEF MatureCommissions, TypeOK, Row
  <2> QED BY <1>3, <2>1, WaitKept DEF MatureCommissions
<1>4. ASSUME NEW a \in Awards, NEW m \in Members, NEW mo \in Months, AwardBonus(a, m, mo)
      PROVE  DeliveryEndsTheWait'
  <2>1. \A r \in RowIds : ledger'[r].status = "pending" => ledger'[r] = ledger[r]
    BY <1>4 DEF AwardBonus, TypeOK, NewRow
  <2> QED BY <1>4, <2>1, WaitKept DEF AwardBonus
<1>5. ASSUME NEW b \in Batches, NEW T \in SUBSET Members, NEW mo \in Months,
             ReservePayoutBatch(b, T, mo)
      PROVE  DeliveryEndsTheWait'
  <2>1. \A r \in RowIds : ledger'[r].status = "pending" => ledger'[r] = ledger[r]
    BY <1>5 DEF ReservePayoutBatch, Claimed, TypeOK, Row
  <2> QED BY <1>5, <2>1, WaitKept DEF ReservePayoutBatch
<1>6. ASSUME NEW b \in Batches, SettlePayoutBatch(b) \/ FailPayoutBatch(b)
      PROVE  DeliveryEndsTheWait'
  <2>1. CASE SettlePayoutBatch(b)
    BY <2>1, WaitKept DEF SettlePayoutBatch, TypeOK, Row
  <2>2. CASE FailPayoutBatch(b)
    <3>1. \A r \in RowIds : Released(ledger[r]).status = "payable"
      BY DEF Released, TypeOK, Row
    <3>2. \A r \in RowIds :
            ledger'[r] = IF r \in ItemRows(b) THEN Released(ledger[r]) ELSE ledger[r]
      BY <2>2 DEF FailPayoutBatch
    <3>3. \A r \in RowIds : ledger'[r].status = "pending" => ledger'[r] = ledger[r]
      BY <3>1, <3>2
    <3> QED BY <2>2, <3>3, WaitKept DEF FailPayoutBatch
  <2> QED BY <1>6, <2>1, <2>2
<1>7. ASSUME \/ \E q \in Requests, m \in Members, mo \in Months : RequestPayout(q, m, mo)
             \/ \E p \in PayoutIds : RejectPayoutRequest(p)
             \/ \E b \in Batches : DispatchPayoutBatch(b)
             \/ AdminStep
             \/ UNCHANGED vars
      PROVE  DeliveryEndsTheWait'
  <2>1. UNCHANGED <<sale, ledger>>
    BY <1>7 DEF RequestPayout, RejectPayoutRequest, DispatchPayoutBatch, AdminStep,
       LockPeriod, UnlockPeriod, UpdateSettings, ReviewCompliance, vars
  <2> QED BY <2>1, WaitKept
<1> QED BY <1>1, <1>2, <1>3, <1>4, <1>5, <1>6, <1>7, WaitApprove
        DEF Next, SaleStep, ApproveSale, BulkApproveSale, PayoutStep

\* markDelivered and the approvals: no commission waits for a delivery that is over.
THEOREM DeliveryEndsWaits == Spec => []DeliveryEndsTheWait
<1>1. Init => DeliveryEndsTheWait
  BY DEF Init, DeliveryEndsTheWait
<1>2. TypeOK /\ DeliveryEndsTheWait /\ [Next]_vars => DeliveryEndsTheWait'
  BY WaitStep
<1> QED BY <1>1, <1>2, TypeCorrect, PTL DEF Spec

(***************************************************************************)
(* The engine keeps the promise of PayoutBook.  A payout carries the rows  *)
(* that are linked to it, and the payouts of one live batch are a bundle.  *)
(* Every transaction of sales is an Account step, every reservation, send, *)
(* settlement and release is the step of that name, with the payouts of    *)
(* the batch; requests, rejections and administration do not show.         *)
(***************************************************************************)

\* Where a payout is, by its status.
LEMMA StageCases ==
  ASSUME NEW p \in PayoutIds
  PROVE  /\ payout[p].status \in {"none", "requested", "rejected"} => StageOf(p) = "idle"
         /\ payout[p].status = "processing" =>
              StageOf(p) = IF batch[payout[p].batch].status = "dispatched" THEN "sent" ELSE "reserved"
         /\ payout[p].status = "paid" => StageOf(p) = "paid"
         /\ payout[p].status = "failed" => StageOf(p) = "returned"
BY DEF StageOf

LEMMA StageCasesNext ==
  ASSUME NEW p \in PayoutIds
  PROVE  /\ payout'[p].status \in {"none", "requested", "rejected"} => StageOf(p)' = "idle"
         /\ payout'[p].status = "processing" =>
              StageOf(p)' = IF batch'[payout'[p].batch].status = "dispatched"
                            THEN "sent" ELSE "reserved"
         /\ payout'[p].status = "paid" => StageOf(p)' = "paid"
         /\ payout'[p].status = "failed" => StageOf(p)' = "returned"
BY DEF StageOf

\* The payouts of a batch tell which batch it is.
LEMMA BundlesTellBatches ==
  ASSUME NEW b, NEW c, PayoutsOf(b) = PayoutsOf(c), PayoutsOf(b) # {}
  PROVE  b = c
BY DEF PayoutsOf

\* The payouts of a batch in flight are reserved, or sent when it is dispatched.
LEMMA BatchStage ==
  ASSUME PayoutInv, NEW b \in OnTheWay, NEW p \in PayoutsOf(b)
  PROVE  /\ p \in PayoutIds /\ payout[p].status = "processing" /\ payout[p].batch = b
         /\ StageOf(p) = IF batch[b].status = "dispatched" THEN "sent" ELSE "reserved"
<1>1. p \in PayoutIds /\ payout[p].batch = b /\ b \in Batches
  BY DEF PayoutsOf, OnTheWay
<1>2. b # NoBatch
  BY <1>1, LedgerAssumption
<1>3. batch[b].status \in BatchStatusesFor(payout[p].status)
  BY <1>1, <1>2 DEF PayoutInv, PayoutsFollowBatches
<1>4. payout[p].status = "processing"
  BY <1>3 DEF OnTheWay, BatchStatusesFor
<1> QED BY <1>1, <1>4, StageCases

\* The rows that the payouts of a batch in processing carry are its items.
LEMMA BatchLoad ==
  ASSUME TypeOK, BatchesOwnTheirRows, PayoutInv, NEW b \in OnTheWay
  PROVE  /\ \A p \in PayoutsOf(b) : \A r \in Linked(p) : r \in ItemRows(b)
         /\ \A r \in ItemRows(b) : \E p \in PayoutsOf(b) : r \in Linked(p)
         /\ \A p \in PayoutIds \ PayoutsOf(b) : \A r \in Linked(p) : r \notin ItemRows(b)
<1>1. b \in Batches /\ b # NoBatch
  BY LedgerAssumption DEF OnTheWay
<1>2. ASSUME NEW p \in PayoutsOf(b), NEW r \in Linked(p)
      PROVE  r \in ItemRows(b)
  <2>1. p \in PayoutIds /\ payout[p].batch = b
    BY DEF PayoutsOf
  <2>2. r \in RowIds /\ ledger[r].status \in InFlight /\ ledger[r].batch = b
    BY <2>1, LinkedRows DEF Linked
  <2>3. ledger[r].status # "paid"
    BY <2>2 DEF BatchesOwnTheirRows, Held, OnTheWay
  <2> QED BY <1>1, <2>2, <2>3, ProcessingRows DEF InFlight
<1>3. ASSUME NEW r \in ItemRows(b)
      PROVE  \E p \in PayoutsOf(b) : r \in Linked(p)
  <2>1. PICK i \in batch[b].items : r = i.row
    BY DEF ItemRows
  <2>2. i.row \in RowIds /\ i.payout \in PayoutIds
    BY <1>1, ItemType
  <2>3. ledger[i.row].payout = i.payout
    BY <1>1 DEF BatchesOwnTheirRows, OnTheWay
  <2>4. payout[i.payout].batch = b
    BY <1>1 DEF PayoutInv, PayoutsFollowBatches
  <2> QED BY <2>1, <2>2, <2>3, <2>4 DEF PayoutsOf, Linked
<1>4. ASSUME NEW p \in PayoutIds \ PayoutsOf(b), NEW r \in Linked(p), r \in ItemRows(b)
      PROVE  FALSE
  BY <1>3, <1>4 DEF Linked
<1> QED BY <1>2, <1>3, <1>4

\* A step that changes no row, no batch's status and no payout that a batch has.
LEMMA BookKept ==
  ASSUME UNCHANGED ledger, UNCHANGED batch,
         \A p \in PayoutIds :
           \/ payout'[p] = payout[p]
           \/ /\ payout[p].batch = NoBatch /\ payout'[p].batch = NoBatch
              /\ payout[p].status \in {"none", "requested", "rejected"}
              /\ payout'[p].status \in {"none", "requested", "rejected"}
  PROVE  UNCHANGED Book!book
<1>1. UNCHANGED <<Credit, Earner, Load>>
  BY DEF Credit, Earner, Load
<1>2. ASSUME NEW p \in PayoutIds
      PROVE  StageOf(p)' = StageOf(p)
  BY DEF StageOf
<1>3. \A b \in Batches : PayoutsOf(b)' = PayoutsOf(b)
  BY LedgerAssumption DEF PayoutsOf
<1>4. UNCHANGED <<Stages, Bundles>>
  BY <1>2, <1>3 DEF Stages, Bundles, OnTheWay
<1> QED BY <1>1, <1>4 DEF Book!book

\* A row outside every batch does not go back: what was payable does not wait again.
LEMMA NoRelapse ==
  ASSUME TypeOK, SaleStep, NEW r \in RowIds, ledger[r].status = "payable"
  PROVE  ledger'[r].status # "pending"
<1>1. ASSUME NEW s \in Sales, ApproveSaleInTx(s)
      PROVE  ledger'[r].status # "pending"
  <2>1. \A x \in CommissionRows(s) : ledger[x].status = "none"
    BY <1>1 DEF ApproveSaleInTx, Applied
  <2> QED BY <1>1, <2>1 DEF ApproveSaleInTx, Earning
<1>2. ASSUME NEW s \in Sales, VoidSale(s)
      PROVE  ledger'[r].status # "pending"
  <2>1. r \in Entries(s, {"pending", "payable"}) => ledger'[r].status = "reversed"
    BY <1>2 DEF VoidSale, TypeOK, Row
  <2>2. \A st : ReversalStatus(st) \in {"payable", "reversed"}
    BY DEF ReversalStatus
  <2> QED BY <1>2, <2>1, <2>2 DEF VoidSale, NewRow
<1>3. ASSUME NEW s \in Sales, MarkDelivered(s)
      PROVE  ledger'[r].status # "pending"
  BY <1>3 DEF MarkDelivered, TypeOK, Row
<1>4. ASSUME NEW R \in SUBSET DueRows, MatureCommissions(R)
      PROVE  ledger'[r].status # "pending"
  BY <1>4 DEF MatureCommissions, TypeOK, Row
<1>5. ASSUME NEW a \in Awards, NEW m \in Members, NEW mo \in Months, AwardBonus(a, m, mo)
      PROVE  ledger'[r].status # "pending"
  BY <1>5 DEF AwardBonus, TypeOK, NewRow
<1> QED BY <1>1, <1>2, <1>3, <1>4, <1>5 DEF SaleStep, ApproveSale, BulkApproveSale

\* Approvals, voids, deliveries, maturation and awards only account.
LEMMA SalesAccount ==
  ASSUME TypeOK, TypeOK', VoidInv, VoidInv', BatchesOwnTheirRows, SaleStep
  PROVE  Book!Account
<1>1. /\ UNCHANGED <<batch, payout>>
      /\ \A r \in RowIds : FreeChange(r)
  BY SalesChangeFreeRows
<1>2. [Next]_vars
  BY DEF Next
<1>3. UNCHANGED <<Load, Stages, Bundles>>
  <2>1. \A r \in RowIds : ledger'[r].payout = ledger[r].payout
    BY <1>1 DEF FreeChange, Free, BatchesOwnTheirRows
  <2> QED BY <1>1, <2>1 DEF Load, Stages, StageOf, Bundles, OnTheWay, PayoutsOf
<1>4. /\ Credit' \in [RowIds -> Book!CreditStates]
      /\ Earner' \in [RowIds -> Members \cup {NoMember}]
  BY DEF Credit, Earner, Book!CreditStates, TypeOK, Row, LedgerStatuses, Columns
<1>5. ASSUME NEW r \in RowIds, Credit'[r] # Credit[r]
      PROVE  <<Credit[r], Credit'[r]>> \in Book!Progress
  <2>1. ledger'[r].status # ledger[r].status
    BY <1>5 DEF Credit
  <2>2. ledger[r].status \in Free /\ ledger'[r].status \in Free
    BY <1>1, <2>1 DEF FreeChange
  <2>3. /\ ledger'[r].status # "none"
        /\ ledger[r].status # "reversed"
        /\ ledger[r].status = "payable" => ledger'[r].status # "pending"
    BY <1>2, <2>1, <2>2, RowKept, ClosedStep, NoRelapse DEF RowLives
  <2>4. /\ Credit[r] = ledger[r].status
        /\ Credit'[r] = IF ledger'[r].status = "reversed" THEN "closed" ELSE ledger'[r].status
    BY <2>2, <2>3 DEF Credit, Free
  <2> QED BY <2>1, <2>2, <2>3, <2>4 DEF Free, Book!Progress
<1>6. ASSUME NEW r \in RowIds, Credit[r] # "none" \/ Credit'[r] = "none"
      PROVE  Earner'[r] = Earner[r]
  <2>1. CASE ledger[r].status # "none"
    BY <1>2, <2>1, RowKept DEF RowLives, Earner
  <2>2. CASE ledger[r].status = "none"
    <3>1. Credit'[r] = "none"
      BY <1>6, <2>2 DEF Credit
    <3>2. ledger'[r].status = "none"
      BY <3>1 DEF Credit
    <3> QED BY <2>2, <3>2 DEF VoidInv, Earner
  <2> QED BY <2>1, <2>2
<1> QED BY <1>3, <1>4, <1>5, <1>6 DEF Book!Account

\* A reservation is the Reserve step of the payouts it makes or takes over.
LEMMA ReserveShows ==
  ASSUME TypeOK, VoidInv, BatchesOwnTheirRows, PayoutInv, NEW b \in Batches,
         NEW T \in SUBSET Members, NEW period \in Months, ReservePayoutBatch(b, T, period)
  PROVE  \E P \in SUBSET PayoutIds : P # {} /\ Book!Reserve(P)
<1> DEFINE M == Ready(T, period)
           P == {p \in PayoutIds : p[2] \in M /\ p = PayoutFor(b, p[2], period)}
<1>1. [Next]_vars
  BY DEF Next, PayoutStep
<1>2. M \subseteq Members /\ M # {} /\ (\A m \in M : PayableRows(m) # {})
  BY DEF ReservePayoutBatch, Ready, Considered
<1>3. \A m \in M : PayoutFor(b, m, period) \in P
  BY <1>2, PayoutForType
<1>4. P # {}
  BY <1>2, <1>3
<1>5. ASSUME NEW p \in P
      PROVE  /\ p \in PayoutIds /\ p[2] \in M
             /\ payout[p].status \in {"none", "requested"} /\ payout[p].batch = NoBatch
             /\ payout'[p].status = "processing" /\ payout'[p].batch = b
  <2>1. payout[p].status \in {"none", "requested"}
    BY <1>2 DEF PayoutFor, OpenIn, PayoutInv, ReservePayoutBatch
  <2>2. payout[p].batch = NoBatch
    BY <2>1 DEF PayoutInv, PayoutsFollowBatches, BatchStatusesFor
  <2> QED BY <2>1, <2>2 DEF ReservePayoutBatch
<1>6. ASSUME NEW p \in PayoutIds \ P
      PROVE  payout'[p] = payout[p] /\ payout[p].batch # b
  <2>1. payout'[p] = payout[p]
    BY DEF ReservePayoutBatch
  <2>2. payout[p].batch # b
    BY LedgerAssumption DEF ReservePayoutBatch, PayoutInv, PayoutsFollowBatches, BatchStatusesFor
  <2> QED BY <2>1, <2>2
<1>7. /\ batch[b].status = "none" /\ batch'[b].status = "processing"
      /\ \A c \in Batches \ {b} : batch'[c] = batch[c]
  BY DEF ReservePayoutBatch, TypeOK
<1>8. \A r \in RowIds :
        IF r \in ClaimedRows(M)
        THEN /\ ledger[r].status = "payable" /\ ledger[r].payout = NoPayout
             /\ ledger[r].member \in M
             /\ ledger'[r].status = "processing" /\ ledger'[r].member = ledger[r].member
             /\ ledger'[r].payout = PayoutFor(b, ledger[r].member, period)
        ELSE ledger'[r] = ledger[r]
  BY BatchEdits DEF ReservePayoutBatch, ClaimedRows, PayableRows, TypeOK
<1>9. ASSUME NEW p \in P
      PROVE  Linked(p)' = PayableRows(p[2])
  BY <1>1, <1>5, LinkedReserved DEF InFlight
<1>10. \A p \in P : StageOf(p) = "idle" /\ StageOf(p)' = "reserved"
  BY <1>5, <1>7, StageCases, StageCasesNext
<1>11. ASSUME NEW p \in PayoutIds \ P
       PROVE  StageOf(p)' = StageOf(p)
  <2>1. CASE payout[p].status = "processing"
    <3>1. payout[p].batch \in Batches \ {b}
      BY <1>6, <2>1 DEF PayoutInv, PayoutsFollowBatches
    <3> QED BY <1>6, <1>7, <2>1, <3>1, StageCases, StageCasesNext
  <2>2. CASE payout[p].status # "processing"
    BY <1>6, <2>2 DEF StageOf
  <2> QED BY <2>1, <2>2
<1>12. ASSUME NEW p \in PayoutIds \ P
       PROVE  Load'[p] = Load[p]
  <2>1. ASSUME NEW r \in RowIds
        PROVE  ledger'[r].payout = p <=> ledger[r].payout = p
    <3>1. CASE r \in ClaimedRows(M)
      <4>1. ledger[r].payout # p
        BY <1>8, <3>1, LedgerAssumption DEF PayoutIds
      <4>2. ledger'[r].payout \in P
        BY <1>3, <1>8, <3>1
      <4> QED BY <4>1, <4>2
    <3>2. CASE r \notin ClaimedRows(M)
      BY <1>8, <3>2
    <3> QED BY <3>1, <3>2
  <2> QED BY <2>1 DEF Load
<1>13. \A p \in P : Load'[p] = PayableRows(p[2])
  BY <1>5, <1>9 DEF Load, Linked
<1>14. /\ \A p \in P : /\ Load'[p] # {}
                       /\ \A e \in Load'[p] : Credit[e] = "payable" /\ Earner[e] = p[2]
       /\ \A p \in P : \A q \in P \ {p} : Load'[p] \cap Load'[q] = {}
  <2>1. \A m, e : e \in PayableRows(m) => /\ e \in RowIds /\ ledger[e].member = m
                                          /\ Credit[e] = "payable" /\ Earner[e] = m
    BY DEF PayableRows, Credit, Earner
  <2>2. \A p \in P : \A q \in P \ {p} : p[2] # q[2]
    OBVIOUS
  <2>3. \A p \in P : Load'[p] # {}
    BY <1>2, <1>5, <1>13
  <2> HIDE DEF P
  <2> QED BY <1>13, <2>1, <2>2, <2>3
<1>15. \A e : e \in UNION {Load'[p] : p \in P} <=> e \in ClaimedRows(M)
  <2>1. ASSUME NEW p \in P, NEW e \in Load'[p]
        PROVE  e \in ClaimedRows(M)
    BY <1>5, <1>13 DEF ClaimedRows
  <2>2. ASSUME NEW e \in ClaimedRows(M)
        PROVE  \E p \in P : e \in Load'[p]
    <3>1. PICK m \in M : e \in PayableRows(m)
      BY DEF ClaimedRows
    <3>2. PayoutFor(b, m, period) \in P /\ PayoutFor(b, m, period)[2] = m
      BY <1>2, <1>3, PayoutForType
    <3> HIDE DEF P
    <3> QED BY <1>13, <3>1, <3>2
  <2> HIDE DEF P
  <2> QED BY <2>1, <2>2
<1>16. Credit' = [e \in RowIds |->
                    IF e \in UNION {Load'[p] : p \in P} THEN "carried" ELSE Credit[e]]
  <2>1. \A e \in RowIds : Credit'[e] = IF e \in ClaimedRows(M) THEN "carried" ELSE Credit[e]
    BY <1>8 DEF Credit
  <2> HIDE DEF P, M
  <2>2. Credit' = [e \in RowIds |-> Credit'[e]]
    BY DEF Credit
  <2> QED BY <1>15, <2>1, <2>2
<1>17. UNCHANGED Earner
  BY <1>8 DEF Earner
<1>18. Stages' = [p \in PayoutIds |-> IF p \in P THEN "reserved" ELSE Stages[p]]
  BY <1>10, <1>11 DEF Stages
<1>19. Bundles' = Bundles \cup {P}
  <2>1. PayoutsOf(b)' = P
    BY <1>5, <1>6 DEF PayoutsOf
  <2>2. ASSUME NEW c \in Batches \ {b}
        PROVE  PayoutsOf(c)' = PayoutsOf(c)
    BY <1>5, <1>6, LedgerAssumption DEF PayoutsOf
  <2>3. OnTheWay' = OnTheWay \cup {b} /\ b \notin OnTheWay /\ OnTheWay \subseteq Batches
    BY <1>7 DEF OnTheWay
  <2> HIDE DEF P
  <2> QED BY <2>1, <2>2, <2>3 DEF Bundles
<1>20. Load' \in [PayoutIds -> SUBSET RowIds]
  BY DEF Load
<1> HIDE DEF P, M
<1>21. P \in SUBSET PayoutIds
  BY DEF P
<1>22. Book!Reserve(P)
  <2>1. \A p \in P : Stages[p] = "idle"
    BY <1>10, <1>21 DEF Stages
  <2>2. \A p \in P : [x \in PayoutIds |-> x[2]][p] = p[2]
    BY <1>21
  <2>3. \A p \in P : \A e \in Load'[p] : Earner[e] = [x \in PayoutIds |-> x[2]][p]
    BY <1>14, <2>2
  <2> QED BY <1>12, <1>14, <1>16, <1>17, <1>18, <1>19, <1>20, <2>1, <2>3 DEF Book!Reserve, Book!Staged
<1> QED BY <1>4, <1>21, <1>22

\* A step of one batch that leaves the links between payouts and batches alone: the
\* other payouts stay where they are, and the bundle goes or stays with the batch.
LEMMA OutcomeStages ==
  ASSUME TypeOK, PayoutInv, NEW b \in OnTheWay, PayoutsOf(b) # {},
         \A c \in Batches \ {b} : batch'[c].status = batch[c].status,
         \A p \in PayoutIds : payout'[p].batch = payout[p].batch,
         \A p \in PayoutIds \ PayoutsOf(b) : payout'[p] = payout[p],
         NEW st, \A p \in PayoutsOf(b) : StageOf(p)' = st
  PROVE  /\ Stages' = [p \in PayoutIds |-> IF p \in PayoutsOf(b) THEN st ELSE Stages[p]]
         /\ Bundles' = IF batch'[b].status \in {"processing", "dispatched"}
                       THEN Bundles ELSE Bundles \ {PayoutsOf(b)}
<1>1. ASSUME NEW p \in PayoutIds \ PayoutsOf(b)
      PROVE  StageOf(p)' = StageOf(p)
  <2>1. payout[p].batch # b /\ payout'[p] = payout[p]
    BY DEF PayoutsOf
  <2>2. CASE payout[p].status = "processing"
    <3>1. payout[p].batch \in Batches \ {b}
      BY <2>1, <2>2 DEF PayoutInv, PayoutsFollowBatches
    <3> QED BY <2>1, <2>2, <3>1, StageCases, StageCasesNext
  <2>3. CASE payout[p].status # "processing"
    BY <2>1, <2>3 DEF StageOf
  <2> QED BY <2>2, <2>3
<1>2. \A c : PayoutsOf(c)' = PayoutsOf(c)
  BY DEF PayoutsOf
<1>3. \A c \in OnTheWay : PayoutsOf(c) = PayoutsOf(b) => c = b
  BY BundlesTellBatches
<1>4. OnTheWay' = IF batch'[b].status \in {"processing", "dispatched"}
                  THEN OnTheWay ELSE OnTheWay \ {b}
  BY DEF OnTheWay
<1>5. Bundles' = IF batch'[b].status \in {"processing", "dispatched"}
                 THEN Bundles ELSE Bundles \ {PayoutsOf(b)}
  BY <1>2, <1>3, <1>4 DEF Bundles
<1> QED BY <1>1, <1>5 DEF Stages

\* dispatchPayoutBatch sends the payouts of its batch.
LEMMA DispatchShows ==
  ASSUME TypeOK, PayoutInv, NEW b \in Batches, DispatchPayoutBatch(b)
  PROVE  PayoutsOf(b) \in Bundles /\ Book!Send(PayoutsOf(b))
<1>1. /\ b \in OnTheWay /\ batch[b].status = "processing" /\ PayoutsOf(b) # {}
      /\ batch'[b].status = "dispatched"
      /\ \A c \in Batches \ {b} : batch'[c].status = batch[c].status
      /\ UNCHANGED <<ledger, payout>>
  BY DEF DispatchPayoutBatch, OnTheWay, TypeOK, Batch
<1>2. \A p \in PayoutsOf(b) : /\ p \in PayoutIds /\ StageOf(p) = "reserved"
                              /\ payout[p].status = "processing" /\ payout[p].batch = b
  BY <1>1, BatchStage
<1>3. \A p \in PayoutsOf(b) : StageOf(p)' = "sent"
  BY <1>1, <1>2, StageCasesNext
<1>4. /\ Stages' = [p \in PayoutIds |-> IF p \in PayoutsOf(b) THEN "sent" ELSE Stages[p]]
      /\ Bundles' = Bundles
  BY <1>1, <1>3, OutcomeStages
<1>5. UNCHANGED <<Credit, Earner, Load>>
  BY <1>1 DEF Credit, Earner, Load
<1>6. PayoutsOf(b) \in Bundles /\ \A p \in PayoutsOf(b) : Stages[p] = "reserved"
  BY <1>1, <1>2 DEF Bundles, Stages
<1> QED BY <1>4, <1>5, <1>6 DEF Book!Send, Book!Staged

\* settlePayoutBatch settles them.
LEMMA SettleShows ==
  ASSUME TypeOK, PayoutInv, NEW b \in Batches, SettlePayoutBatch(b)
  PROVE  PayoutsOf(b) \in Bundles /\ Book!Settle(PayoutsOf(b))
<1>1. /\ b \in OnTheWay /\ batch[b].status = "dispatched" /\ PayoutsOf(b) # {}
      /\ batch'[b].status = "settled"
      /\ \A c \in Batches \ {b} : batch'[c].status = batch[c].status
  BY DEF SettlePayoutBatch, OnTheWay, TypeOK, Batch
<1>2. \A p \in PayoutsOf(b) : p \in PayoutIds /\ StageOf(p) = "sent"
  BY <1>1, BatchStage
<1>3. \A p \in PayoutIds :
        /\ payout'[p].batch = payout[p].batch
        /\ IF p \in PayoutsOf(b) THEN payout'[p].status = "paid" ELSE payout'[p] = payout[p]
  BY DEF SettlePayoutBatch, PayoutsMoved, TypeOK, Payout
<1>4. \A p \in PayoutsOf(b) : StageOf(p)' = "paid"
  BY <1>2, <1>3, StageCasesNext
<1>5. /\ Stages' = [p \in PayoutIds |-> IF p \in PayoutsOf(b) THEN "paid" ELSE Stages[p]]
      /\ Bundles' = Bundles \ {PayoutsOf(b)}
  BY <1>1, <1>3, <1>4, OutcomeStages
<1>6. \A r \in RowIds :
        /\ ledger'[r].member = ledger[r].member /\ ledger'[r].payout = ledger[r].payout
        /\ \/ ledger'[r].status = ledger[r].status
           \/ ledger[r].status = "processing" /\ ledger'[r].status = "paid"
  BY DEF SettlePayoutBatch, Intact, TypeOK, Row
<1>7. UNCHANGED <<Credit, Earner, Load>>
  BY <1>6 DEF Credit, Earner, Load
<1>8. PayoutsOf(b) \in Bundles /\ \A p \in PayoutsOf(b) : Stages[p] = "sent"
  BY <1>1, <1>2 DEF Bundles, Stages
<1> QED BY <1>5, <1>7, <1>8 DEF Book!Settle, Book!Staged

\* failPayoutBatch returns them, with exactly the rows they carried.
LEMMA FailShows ==
  ASSUME TypeOK, BatchesOwnTheirRows, PayoutInv, NEW b \in Batches, FailPayoutBatch(b)
  PROVE  PayoutsOf(b) \in Bundles /\ Book!Return(PayoutsOf(b))
<1>1. /\ b \in OnTheWay /\ batch[b].status = "processing" /\ PayoutsOf(b) # {}
      /\ batch'[b].status = "failed"
      /\ \A c \in Batches \ {b} : batch'[c].status = batch[c].status
  BY DEF FailPayoutBatch, Releasable, OnTheWay, TypeOK, Batch
<1>2. \A p \in PayoutsOf(b) : p \in PayoutIds /\ StageOf(p) = "reserved"
  BY <1>1, BatchStage
<1>3. \A p \in PayoutIds :
        /\ payout'[p].batch = payout[p].batch
        /\ IF p \in PayoutsOf(b) THEN payout'[p].status = "failed" ELSE payout'[p] = payout[p]
  BY DEF FailPayoutBatch, PayoutsMoved, TypeOK, Payout
<1>4. \A p \in PayoutsOf(b) : StageOf(p)' = "returned"
  BY <1>2, <1>3, StageCasesNext
<1>5. /\ Stages' = [p \in PayoutIds |-> IF p \in PayoutsOf(b) THEN "returned" ELSE Stages[p]]
      /\ Bundles' = Bundles \ {PayoutsOf(b)}
  BY <1>1, <1>3, <1>4, OutcomeStages
<1>6. \A r \in RowIds :
        IF r \in ItemRows(b)
        THEN /\ ledger'[r].status = "payable" /\ ledger'[r].payout = NoPayout
             /\ ledger'[r].member = ledger[r].member
        ELSE ledger'[r] = ledger[r]
  BY BatchEdits DEF FailPayoutBatch, TypeOK
<1>7. UNCHANGED Earner
  BY <1>6 DEF Earner
<1>8. \A r \in RowIds : r \in UNION {Load[p] : p \in PayoutsOf(b)} <=> r \in ItemRows(b)
  <2>1. \A p \in PayoutsOf(b) : Load[p] = Linked(p)
    BY <1>2 DEF Load, Linked
  <2> QED BY <1>1, <2>1, BatchLoad
<1>9. Credit' = [r \in RowIds |->
                   IF r \in UNION {Load[p] : p \in PayoutsOf(b)} THEN "payable" ELSE Credit[r]]
  <2>1. \A r \in RowIds : Credit'[r] = IF r \in ItemRows(b) THEN "payable" ELSE Credit[r]
    BY <1>6 DEF Credit
  <2>2. Credit' = [r \in RowIds |-> Credit'[r]]
    BY DEF Credit
  <2> QED BY <1>8, <2>1, <2>2
<1>10. Load' = [p \in PayoutIds |-> IF p \in PayoutsOf(b) THEN {} ELSE Load[p]]
  <2>1. ASSUME NEW p \in PayoutIds
        PROVE  Load'[p] = IF p \in PayoutsOf(b) THEN {} ELSE Load[p]
    <3>1. p # NoPayout
      BY LedgerAssumption DEF PayoutIds
    <3>2. \A r \in RowIds : ledger'[r].payout = p <=> r \in Linked(p) /\ r \notin ItemRows(b)
      BY <1>6, <3>1 DEF Linked
    <3>3. Load'[p] = {r \in RowIds : r \in Linked(p) /\ r \notin ItemRows(b)}
      BY <3>2 DEF Load
    <3>4. Load[p] = Linked(p) /\ Linked(p) \subseteq RowIds
      BY DEF Load, Linked
    <3> QED BY <1>1, <3>3, <3>4, BatchLoad
  <2>2. Load' = [p \in PayoutIds |-> Load'[p]]
    BY DEF Load
  <2> QED BY <2>1, <2>2
<1>11. PayoutsOf(b) \in Bundles /\ \A p \in PayoutsOf(b) : Stages[p] = "reserved"
  BY <1>1, <1>2 DEF Bundles, Stages
<1> QED BY <1>5, <1>7, <1>9, <1>10, <1>11 DEF Book!Return, Book!Staged

\* The requests of members and their rejections do not show in the book, nor does
\* what administrators change.
LEMMA OthersDoNotShow ==
  ASSUME TypeOK, PayoutInv,
         \/ \E q \in Requests, m \in Members, mo \in Months : RequestPayout(q, m, mo)
         \/ \E p \in PayoutIds : RejectPayoutRequest(p)
         \/ AdminStep
         \/ UNCHANGED vars
  PROVE  UNCHANGED Book!book
<1>1. \A p \in PayoutIds : payout[p].status \in {"none", "requested"} => payout[p].batch = NoBatch
  BY DEF PayoutInv, PayoutsFollowBatches, BatchStatusesFor
<1>2. ASSUME NEW q \in Requests, NEW m \in Members, NEW mo \in Months, RequestPayout(q, m, mo)
      PROVE  UNCHANGED Book!book
  <2>1. /\ UNCHANGED <<ledger, batch>> /\ payout[<<q, m>>].status = "none"
        /\ payout' = [payout EXCEPT ![<<q, m>>] =
             [status |-> "requested", period |-> mo, batch |-> NoBatch, snapshot |-> NoSnapshot]]
    BY <1>2 DEF RequestPayout
  <2>2. \A p \in PayoutIds :
          \/ payout'[p] = payout[p]
          \/ /\ p = <<q, m>>
             /\ payout'[p].batch = NoBatch /\ payout'[p].status = "requested"
    BY <2>1 DEF TypeOK
  <2> QED BY <1>1, <2>1, <2>2, BookKept
<1>3. ASSUME NEW t \in PayoutIds, RejectPayoutRequest(t)
      PROVE  UNCHANGED Book!book
  <2>1. UNCHANGED <<ledger, batch>> /\ payout[t].status = "requested"
    BY <1>3 DEF RejectPayoutRequest
  <2>2. \A p \in PayoutIds :
          \/ payout'[p] = payout[p]
          \/ /\ p = t
             /\ payout'[p].batch = payout[p].batch /\ payout'[p].status = "rejected"
    BY <1>3 DEF RejectPayoutRequest, TypeOK, Payout
  <2> QED BY <1>1, <2>1, <2>2, BookKept
<1>4. ASSUME AdminStep \/ UNCHANGED vars
      PROVE  UNCHANGED Book!book
  <2>1. UNCHANGED <<ledger, batch, payout>>
    BY <1>4 DEF AdminStep, LockPeriod, UnlockPeriod, UpdateSettings, ReviewCompliance, vars
  <2> QED BY <2>1, BookKept
<1> QED BY <1>2, <1>3, <1>4

\* One transaction of the engine is one step of the book, or none.
LEMMA BookStep ==
  ASSUME TypeOK, TypeOK', VoidInv, VoidInv', BatchesOwnTheirRows, PayoutInv, [Next]_vars
  PROVE  [Book!Next]_(Book!book)
<1>1. CASE SaleStep
  BY <1>1, SalesAccount DEF Book!Next
<1>2. ASSUME NEW b \in Batches, NEW T \in SUBSET Members, NEW mo \in Months,
             ReservePayoutBatch(b, T, mo)
      PROVE  Book!Next
  BY <1>2, ReserveShows DEF Book!Next
<1>3. ASSUME NEW b \in Batches, DispatchPayoutBatch(b)
      PROVE  Book!Next
  BY <1>3, DispatchShows DEF Book!Next
<1>4. ASSUME NEW b \in Batches, SettlePayoutBatch(b)
      PROVE  Book!Next
  BY <1>4, SettleShows DEF Book!Next
<1>5. ASSUME NEW b \in Batches, FailPayoutBatch(b)
      PROVE  Book!Next
  BY <1>5, FailShows DEF Book!Next
<1> QED BY <1>1, <1>2, <1>3, <1>4, <1>5, OthersDoNotShow DEF Next, PayoutStep

\* The engine implements the payout book, for every set of sales, members, batches and
\* requests: every credit reaches its owner in one payout, and bundles stay together.
THEOREM PaysAsPromised == Spec => ImplementsPayoutBook
<1>1. Init => Book!Init
  <2> SUFFICES ASSUME Init PROVE Book!Init
    OBVIOUS
  <2>1. \A r \in RowIds : Credit[r] = "none" /\ Earner[r] = NoMember
    BY DEF Init, Credit, Earner, NoRow, NewRow
  <2>2. \A p \in PayoutIds : Load[p] = {}
    BY LedgerAssumption DEF Init, Load, NoRow, NewRow, PayoutIds
  <2>3. \A p \in PayoutIds : StageOf(p) = "idle"
    BY StageCases DEF Init, NoPayoutRow
  <2>4. Bundles = {}
    BY DEF Init, Bundles, OnTheWay
  <2> QED BY <2>1, <2>2, <2>3, <2>4 DEF Book!Init, Credit, Earner, Load, Stages
<1> QED BY <1>1, BookStep, TypeCorrect, VoidInvariant, Ownership, PayoutInvariant, PTL
     DEF Spec, ImplementsPayoutBook, Book!Spec

(***************************************************************************)
(* What the promise comes to.  These two results use nothing of the engine *)
(* but that it implements the book.                                        *)
(***************************************************************************)

\* The variables of the book have their types.
LEMMA BookTypes ==
  /\ Load \in [PayoutIds -> SUBSET RowIds] /\ Load' \in [PayoutIds -> SUBSET RowIds]
  /\ Bundles \subseteq SUBSET PayoutIds
BY DEF Load, Bundles, PayoutsOf

\* Whatever P does, the payouts outside P stay where they are.
LEMMA BookStages ==
  ASSUME NEW P \in SUBSET PayoutIds, NEW st, Stages' = Book!Staged(P, st), NEW p \in PayoutIds
  PROVE  Stages'[p] = IF p \in P THEN st ELSE Stages[p]
BY DEF Book!Staged

\* A reservation loads credits that nobody carries.
LEMMA ReserveCarriesOnce ==
  ASSUME Book!CarriedOnce, NEW P \in SUBSET PayoutIds, Book!Reserve(P)
  PROVE  Book!CarriedOnce'
<1> DEFINE Loaded == UNION {Load'[p] : p \in P}
<1>1. /\ \A p \in P : Stages[p] = "idle"
      /\ \A p \in PayoutIds \ P : Load'[p] = Load[p]
      /\ \A p \in P : /\ Load'[p] # {}
                      /\ \A e \in Load'[p] : /\ Credit[e] = "payable"
                                             /\ Earner[e] = [x \in PayoutIds |-> x[2]][p]
                      /\ \A q \in P \ {p} : Load'[p] \cap Load'[q] = {}
      /\ Credit' = [e \in RowIds |-> IF e \in Loaded THEN "carried" ELSE Credit[e]]
      /\ UNCHANGED Earner
  BY DEF Book!Reserve
<1>2. \A p \in PayoutIds : Stages'[p] = IF p \in P THEN "reserved" ELSE Stages[p]
  BY BookStages DEF Book!Reserve
<1>3. \A e : e \in Loaded <=> \E p \in P : e \in Load'[p]
  OBVIOUS
<1>4. \A p \in P : Load[p] = {}
  BY <1>1, BookTypes DEF Book!CarriedOnce
<1>5. \A q \in PayoutIds : \A e \in Load[q] : e \in RowIds /\ Credit[e] = "carried"
  BY BookTypes DEF Book!CarriedOnce
<1> HIDE DEF Loaded
<1>6. \A e \in RowIds : Credit'[e] = "carried" <=> \E p \in PayoutIds : e \in Load'[p]
  <2>1. ASSUME NEW e \in RowIds, e \in Loaded
        PROVE  Credit'[e] = "carried" /\ \E p \in PayoutIds : e \in Load'[p]
    BY <1>1, <1>3, <2>1
  <2>2. ASSUME NEW e \in RowIds, e \notin Loaded
        PROVE  Credit'[e] = "carried" <=> \E p \in PayoutIds : e \in Load'[p]
    <3>1. Credit'[e] = Credit[e]
      BY <1>1, <2>2
    <3>2. \A p \in PayoutIds : e \in Load'[p] <=> e \in Load[p]
      BY <1>1, <1>3, <1>4, <2>2
    <3> QED BY <3>1, <3>2 DEF Book!CarriedOnce
  <2> QED BY <2>1, <2>2
<1>7. \A p \in PayoutIds : \A q \in PayoutIds \ {p} : Load'[p] \cap Load'[q] = {}
  <2>1. \A p \in P : \A q \in PayoutIds \ P : Load'[p] \cap Load'[q] = {}
    BY <1>1, <1>5
  <2>2. \A p \in PayoutIds \ P : \A q \in PayoutIds \ P : p # q => Load'[p] \cap Load'[q] = {}
    BY <1>1 DEF Book!CarriedOnce
  <2> QED BY <1>1, <2>1, <2>2
<1>8. \A p \in PayoutIds : \A e \in Load'[p] : Earner'[e] = [x \in PayoutIds |-> x[2]][p]
  <2>1. ASSUME NEW p \in P, NEW e \in Load'[p]
        PROVE  Earner'[e] = [x \in PayoutIds |-> x[2]][p]
    BY <1>1
  <2>2. ASSUME NEW p \in PayoutIds \ P, NEW e \in Load'[p]
        PROVE  Earner'[e] = [x \in PayoutIds |-> x[2]][p]
    BY <1>1 DEF Book!CarriedOnce
  <2> QED BY <2>1, <2>2
<1>9. \A p \in PayoutIds : Load'[p] # {} <=> Stages'[p] \in {"reserved", "sent", "paid"}
  BY <1>1, <1>2 DEF Book!CarriedOnce
<1> QED BY <1>6, <1>7, <1>8, <1>9 DEF Book!CarriedOnce

\* A return gives back all that its payouts carry, and nothing else.
LEMMA ReturnCarriesOnce ==
  ASSUME Book!CarriedOnce, NEW P \in SUBSET PayoutIds, Book!Return(P)
  PROVE  Book!CarriedOnce'
<1> DEFINE Given == UNION {Load[p] : p \in P}
<1>1. /\ Credit' = [e \in RowIds |-> IF e \in Given THEN "payable" ELSE Credit[e]]
      /\ Load' = [p \in PayoutIds |-> IF p \in P THEN {} ELSE Load[p]]
      /\ UNCHANGED Earner
  BY DEF Book!Return
<1>2. \A p \in PayoutIds : Stages'[p] = IF p \in P THEN "returned" ELSE Stages[p]
  BY BookStages DEF Book!Return
<1>3. \A e : e \in Given <=> \E p \in P : e \in Load[p]
  OBVIOUS
<1> HIDE DEF Given
<1>4. \A p \in PayoutIds : Load'[p] = IF p \in P THEN {} ELSE Load[p]
  BY <1>1
<1>5. \A e \in RowIds : Credit'[e] = "carried" <=> \E p \in PayoutIds : e \in Load'[p]
  BY <1>1, <1>3, <1>4 DEF Book!CarriedOnce
<1>6. \A p \in PayoutIds : \A q \in PayoutIds \ {p} : Load'[p] \cap Load'[q] = {}
  BY <1>4 DEF Book!CarriedOnce
<1>7. \A p \in PayoutIds : \A e \in Load'[p] : Earner'[e] = [x \in PayoutIds |-> x[2]][p]
  BY <1>1, <1>4 DEF Book!CarriedOnce
<1>8. \A p \in PayoutIds : Load'[p] # {} <=> Stages'[p] \in {"reserved", "sent", "paid"}
  BY <1>2, <1>4 DEF Book!CarriedOnce
<1> QED BY <1>5, <1>6, <1>7, <1>8 DEF Book!CarriedOnce

\* One step of the book keeps every credit in one place, and a sent payout as it is.
LEMMA BookWord ==
  ASSUME Book!CarriedOnce, [Book!Next]_(Book!book)
  PROVE  /\ Book!CarriedOnce'
         /\ \A p \in PayoutIds : Stages[p] \in {"sent", "paid"} =>
              /\ Load'[p] = Load[p]
              /\ Stages'[p] = "paid" \/ Stages'[p] = Stages[p]
<1> DEFINE Sent == \A p \in PayoutIds : Stages[p] \in {"sent", "paid"} =>
                     /\ Load'[p] = Load[p]
                     /\ Stages'[p] = "paid" \/ Stages'[p] = Stages[p]
<1>1. CASE Book!Account
  <2>1. /\ UNCHANGED <<Load, Stages>>
        /\ \A e \in RowIds :
             /\ Credit'[e] # Credit[e] => <<Credit[e], Credit'[e]>> \in Book!Progress
             /\ Credit[e] # "none" \/ Credit'[e] = "none" => Earner'[e] = Earner[e]
    BY <1>1 DEF Book!Account
  <2>2. \A x, y : <<x, y>> \in Book!Progress => x # "carried" /\ y # "carried"
    BY DEF Book!Progress
  <2>3. \A e \in RowIds : Credit'[e] = "carried" <=> Credit[e] = "carried"
    BY <2>1, <2>2
  <2>4. \A p \in PayoutIds : \A e \in Load[p] : Earner'[e] = Earner[e]
    BY <2>1, BookTypes DEF Book!CarriedOnce
  <2> QED BY <2>1, <2>3, <2>4 DEF Book!CarriedOnce
<1>2. ASSUME NEW P \in SUBSET PayoutIds, Book!Reserve(P)
      PROVE  Book!CarriedOnce' /\ Sent
  <2>1. Sent
    BY <1>2, BookStages DEF Book!Reserve
  <2> QED BY <1>2, <2>1, ReserveCarriesOnce
<1>3. ASSUME NEW P \in Bundles, Book!Send(P) \/ Book!Settle(P)
      PROVE  Book!CarriedOnce' /\ Sent
  <2>1. P \in SUBSET PayoutIds /\ UNCHANGED <<Credit, Earner, Load>>
    BY <1>3, BookTypes DEF Book!Send, Book!Settle
  <2>2. \A p \in PayoutIds :
          \/ Stages'[p] = Stages[p]
          \/ Stages[p] = "reserved" /\ Stages'[p] = "sent"
          \/ Stages[p] = "sent" /\ Stages'[p] = "paid"
    BY <1>3, <2>1, BookStages DEF Book!Send, Book!Settle
  <2> QED BY <2>1, <2>2 DEF Book!CarriedOnce
<1>4. ASSUME NEW P \in Bundles, Book!Return(P)
      PROVE  Book!CarriedOnce' /\ Sent
  <2>1. P \in SUBSET PayoutIds
    BY BookTypes
  <2>2. Sent
    BY <1>4, <2>1, BookStages DEF Book!Return
  <2> QED BY <1>4, <2>1, <2>2, ReturnCarriesOnce
<1>5. CASE UNCHANGED Book!book
  BY <1>5 DEF Book!book, Book!CarriedOnce
<1> QED BY <1>1, <1>2, <1>3, <1>4, <1>5 DEF Book!Next

\* Whoever reads the promise may rely on this: every credit is in one payout at most, its
\* owner's, and money that was sent stays with the payout that carried it.
THEOREM PromiseMeans == ImplementsPayoutBook => []Book!CarriedOnce /\ Book!SentIsFinal
<1>1. Book!Init => Book!CarriedOnce
  BY DEF Book!Init, Book!CarriedOnce
<1>2. Book!CarriedOnce /\ [Book!Next]_(Book!book) =>
        /\ Book!CarriedOnce'
        /\ [\A p \in PayoutIds : Stages[p] \in {"sent", "paid"} =>
              /\ Load'[p] = Load[p]
              /\ Stages'[p] = "paid" \/ Stages'[p] = Stages[p]]_(Book!book)
  BY BookWord
<1> QED BY <1>1, <1>2, PTL DEF ImplementsPayoutBook, Book!Spec, Book!SentIsFinal

\* The engine carries every credit once.
THEOREM CreditsAreCarriedOnce == Spec => []Book!CarriedOnce /\ Book!SentIsFinal
BY PaysAsPromised, PromiseMeans

================================================================================
