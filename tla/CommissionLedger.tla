-------------------------- MODULE CommissionLedger --------------------------
(***************************************************************************)
(* The accounting core of the referral platform: EngineService             *)
(* (apps/api/src/engine/engine.service.ts) with the period locks, payout   *)
(* requests and tenant settings that its transactions read and write.      *)
(*                                                                         *)
(* One action is one committed database transaction.  Every transaction of *)
(* the engine first takes the row lock of what it changes (the sale, the   *)
(* batch, the payout, the membership) and then the ledger rows themselves, *)
(* so its reads and writes are one step for the other transactions.  A     *)
(* transaction that throws rolls back and is no step.                      *)
(*                                                                         *)
(* Money is symbolic.  A commission line (sale, level) and an award have a *)
(* fixed amount, so a money column of monthly_summaries is kept as the     *)
(* formal sum of the lines it contains: summary[month][line][column] is    *)
(* the coefficient of Amount[line] in that column.  Adding the amount of a *)
(* line adds 1 to its coefficient and subtracting it adds -1, whatever the *)
(* amount is, so two columns with equal coefficients hold equal cents.     *)
(* The (member, level) part of the summary's key is a function of the      *)
(* line.                                                                   *)
(***************************************************************************)
EXTENDS Integers, FiniteSetsExt

CONSTANTS
  Sales,        \* sales entered as drafts
  Levels,       \* plan levels, and the synthetic levels 1000..1002 of bonuses
  Awards,       \* campaign awards (adjustment rows)
  Members,      \* memberships of the tenant
  Months,       \* YYYY-MM keys
  Zones,        \* time zones the tenant may be set to
  Rules,        \* maturation rules the tenant may be set to
  Batches,      \* ids of payout settlement batches
  Requests,     \* ids of payouts created by a member's request
  Snapshots,    \* compliance states under which a payout is ready
  Splits,       \* Splits[s]: who may earn each level of sale s (NoMember: no one)
  MonthKey,     \* MonthKey[s][z]: the month of the date of s in zone z
  Amount,       \* Amount[line]: its cents
  PayoutMin,    \* tenants.payout_min_cents
  NoMember, NoMonth, NoBatch, NoPayout, NoSnapshot,
  Blocked       \* a compliance state under which no payout may be sent

SaleLines == Sales \X Levels
AwardLines == Awards \X {0}
Lines == SaleLines \cup AwardLines

\* The maturation_rule values of the schema.
MaturationRules ==
  {"on_approval", "on_delivery", "days_after_approval", "days_after_delivery"}

ASSUME LedgerAssumption ==
  /\ Sales \cap Awards = {}
  /\ Rules \subseteq MaturationRules
  /\ Splits \in [Sales -> SUBSET [Levels -> Members \cup {NoMember}]]
  /\ MonthKey \in [Sales -> [Zones -> Months]]
  /\ Amount \in [Lines -> Nat \ {0}]
  /\ PayoutMin \in Nat
  /\ NoMember \notin Members
  /\ NoMonth \notin Months
  /\ NoBatch \notin Batches
  /\ NoPayout \notin (Batches \cup Requests) \X Members
  /\ Batches \cap Requests = {}
  /\ Blocked \notin Snapshots
  /\ NoSnapshot \notin Snapshots

(***************************************************************************)
(* Rows.  A ledger row is named by its type and line: the engine writes at *)
(* most one commission and one reversal for a (sale, level).  A payout is  *)
(* named by what created it, a batch or a request, and its member.         *)
(***************************************************************************)
RowIds == ({"commission", "reversal"} \X SaleLines) \cup ({"adjustment"} \X AwardLines)
PayoutIds == (Batches \cup Requests) \X Members

Columns == {"pending", "payable", "processing", "paid"}
LedgerStatuses == Columns \cup {"none", "reversed"}
SaleStatuses == {"draft", "approved", "void"}
BatchStatuses == {"none", "processing", "dispatched", "settled", "failed"}
PayoutStatuses == {"none", "requested", "processing", "paid", "failed", "rejected"}

Row == [status: LedgerStatuses, member: Members \cup {NoMember},
        month: Months \cup {NoMonth}, matures: BOOLEAN,
        batch: Batches \cup {NoBatch}, payout: PayoutIds \cup {NoPayout}]
Sale == [status: SaleStatuses, month: Months \cup {NoMonth}, delivered: BOOLEAN]
Item == [row: RowIds, payout: PayoutIds, month: Months]
Batch == [status: BatchStatuses, items: SUBSET Item]
Payout == [status: PayoutStatuses, period: Months \cup {NoMonth},
           batch: Batches \cup {NoBatch}, snapshot: Snapshots \cup {NoSnapshot}]

NewRow(status, member, month, matures) ==
  [status |-> status, member |-> member, month |-> month, matures |-> matures,
   batch |-> NoBatch, payout |-> NoPayout]
NoRow == NewRow("none", NoMember, NoMonth, FALSE)
NoPayoutRow == [status |-> "none", period |-> NoMonth, batch |-> NoBatch,
                snapshot |-> NoSnapshot]

VARIABLES
  sale,         \* sales
  ledger,       \* ledger_entries
  summary,      \* monthly_summaries
  batch,        \* payout_settlement_batches and their items
  payout,       \* payouts
  locked,       \* period_locks
  settings,     \* the tenant's maturation rule and time zone
  compliance    \* per member: the inputs of the payout readiness decision

vars == <<sale, ledger, summary, batch, payout, locked, settings, compliance>>

TypeOK ==
  /\ sale \in [Sales -> Sale]
  /\ ledger \in [RowIds -> Row]
  /\ summary \in [Months -> [Lines -> [Columns -> Int]]]
  /\ batch \in [Batches -> Batch]
  /\ payout \in [PayoutIds -> Payout]
  /\ locked \in SUBSET Months
  /\ settings \in [rule: Rules, zone: Zones]
  /\ compliance \in [Members -> Snapshots \cup {Blocked}]

Init ==
  /\ sale = [s \in Sales |-> [status |-> "draft", month |-> NoMonth, delivered |-> FALSE]]
  /\ ledger = [r \in RowIds |-> NoRow]
  /\ summary = [mo \in Months |-> [ln \in Lines |-> [c \in Columns |-> 0]]]
  /\ batch = [b \in Batches |-> [status |-> "none", items |-> {}]]
  /\ payout = [p \in PayoutIds |-> NoPayoutRow]
  /\ locked = {}
  /\ settings \in [rule: Rules, zone: Zones]
  /\ compliance \in [Members -> Snapshots \cup {Blocked}]

-----------------------------------------------------------------------------
(***************************************************************************)
(* Reading the tables.                                                     *)
(***************************************************************************)
CommissionRows(s) == {"commission"} \X ({s} \X Levels)
Original(reversal) == <<"commission", reversal[2]>>
Applied(s) == \E r \in CommissionRows(s) : ledger[r].status # "none"

\* Mutant of SaleMonth: the month is not frozen at approval.
SaleMonthUnfrozen(s) == MonthKey[s][settings.zone]

\* COALESCE(sales.summary_month, month of sale_date in the tenant's zone)
SaleMonth(s) ==
  IF sale[s].month # NoMonth THEN sale[s].month ELSE MonthKey[s][settings.zone]

\* Mutant of RowMonth: without the COALESCE.
RowMonthUncoalesced(r) == ledger[r].month

\* COALESCE(ledger_entries.summary_month, the sale's month)
RowMonth(r) == IF r[1] = "adjustment" THEN ledger[r].month ELSE SaleMonth(r[2][1])

Postings(R) == {[row |-> r, month |-> RowMonth(r)] : r \in R}
SalePostings(s, R) == {[row |-> r, month |-> SaleMonth(s)] : r \in R}

PayableRows(m) == {r \in RowIds : ledger[r].status = "payable" /\ ledger[r].member = m}
RowAmount(r) == IF r[1] = "reversal" THEN -Amount[r[2]] ELSE Amount[r[2]]
Total(R) == MapThenSumSet(RowAmount, R)
Net(m) == Total(PayableRows(m))

Open == {"requested", "processing"}
OpenPayouts(m) == {p \in PayoutIds : p[2] = m /\ payout[p].status \in Open}
PayoutsOf(b) == {p \in PayoutIds : payout[p].batch = b}
ItemRows(b) == {i.row : i \in batch[b].items}

\* assertPeriodsOpen
PeriodsOpen(months) == months \cap locked = {}

\* assertIntactPayoutBatchItems
Intact(b) ==
  /\ batch[b].items # {}
  /\ \A r \in ItemRows(b) : ledger[r].status = "processing" /\ ledger[r].batch = b
  /\ \A p \in PayoutsOf(b) : \E i \in batch[b].items : i.payout = p

(***************************************************************************)
(* bumpSummary, for a set of postings [row, month]: k times the amount of  *)
(* every posted row is added to column col of its month.  A reversal row's *)
(* amount is minus its line's.                                             *)
(***************************************************************************)
Units(R, ln) ==
  (IF <<"commission", ln>> \in R \/ <<"adjustment", ln>> \in R THEN 1 ELSE 0)
    - (IF <<"reversal", ln>> \in R THEN 1 ELSE 0)

PostedIn(posts, mo) == {p.row : p \in {q \in posts : q.month = mo}}

Post(sm, posts, col, k) ==
  [mo \in Months |-> [ln \in Lines |-> [c \in Columns |->
    IF c = col THEN sm[mo][ln][c] + k * Units(PostedIn(posts, mo), ln)
               ELSE sm[mo][ln][c]]]]

Move(sm, posts, from, to) == Post(Post(sm, posts, from, -1), posts, to, 1)

-----------------------------------------------------------------------------
(***************************************************************************)
(* Sales.                                                                  *)
(***************************************************************************)

\* maturation: the first status of a new commission row, and whether matures_at is set.
StartStatus == IF settings.rule = "on_approval" THEN "payable" ELSE "pending"

\* Mutant of StartMatures: a delivery that is over is not looked at.
StartMaturesUndelivered(s) == settings.rule = "days_after_approval"

StartMatures(s) ==
  \/ settings.rule = "days_after_approval"
  \/ settings.rule \in {"on_delivery", "days_after_delivery"} /\ sale[s].delivered

(***************************************************************************)
(* approveSaleInTx.  A draft becomes approved; an approved sale without    *)
(* commission rows gets them; nothing happens to a sale that has them.     *)
(* The split abstracts the plan, the upline chain with its compression,    *)
(* the bonuses and the rank override.  Who approves is not modelled: the   *)
(* separation-of-duties check can only refuse the call.                    *)
(***************************************************************************)
Earning(s, split) == {r \in CommissionRows(s) : split[r[2][2]] # NoMember}

ApproveSaleInTx(s) ==
  /\ sale[s].status \in {"draft", "approved"}
  /\ ~Applied(s)
  /\ \E split \in Splits[s] :
       /\ ledger' = [r \in RowIds |->
            IF r \in Earning(s, split)
            THEN NewRow(StartStatus, split[r[2][2]], NoMonth, StartMatures(s))
            ELSE ledger[r]]
       /\ summary' = Post(summary, SalePostings(s, Earning(s, split)), StartStatus, 1)
  /\ sale' = [sale EXCEPT ![s] = [status |-> "approved", month |-> SaleMonth(s),
                                  delivered |-> sale[s].delivered]]
  /\ UNCHANGED <<batch, payout, locked, settings, compliance>>

\* approveSale and applyCommissions
ApproveSale(s) ==
  /\ PeriodsOpen({SaleMonth(s)})
  /\ ApproveSaleInTx(s)

(***************************************************************************)
(* The approval of a draft by a bulk action.  Its SERIALIZABLE snapshot is *)
(* older than the advisory lock, so the check that its month is open may   *)
(* miss a lock that has committed (PeriodLocks follows this): nothing can  *)
(* be relied on here.  Plan, members and settings are as old, which makes  *)
(* no difference to a commit before they changed.                          *)
(***************************************************************************)
BulkApproveSale(s) ==
  /\ sale[s].status = "draft"
  /\ ApproveSaleInTx(s)

(***************************************************************************)
(* voidSale.  Every live commission row gets an opposite reversal row.  A  *)
(* paid row stays paid and its reversal is payable, to be netted against   *)
(* later earnings; any other row is closed with its reversal.  A bulk void *)
(* does the same to the rows of its snapshot.  That it passes over rows    *)
(* which a repeated approval writes after its snapshot, takes the phases   *)
(* of a bulk call to say: see VoidReversesAll of SalesDesk.                *)
(***************************************************************************)
\* Mutant of ReversalStatus: every reversal is closed, also that of a paid row.
ReversalStatusClosed(original) == "reversed"

ReversalStatus(original) == IF original = "paid" THEN "payable" ELSE "reversed"

Entries(s, statuses) == {r \in CommissionRows(s) : ledger[r].status \in statuses}

VoidSale(s) ==
  /\ sale[s].status # "void"
  /\ Entries(s, {"processing"}) = {}
  /\ sale' = [sale EXCEPT ![s].status = "void"]
  /\ ledger' = [r \in RowIds |->
       IF r \in Entries(s, {"pending", "payable"})
       THEN [ledger[r] EXCEPT !.status = "reversed"]
       ELSE IF r[1] = "reversal" /\ Original(r) \in Entries(s, Columns)
       THEN NewRow(ReversalStatus(ledger[Original(r)].status),
                   ledger[Original(r)].member, NoMonth, FALSE)
       ELSE ledger[r]]
  /\ summary' =
       Post(Post(summary, SalePostings(s, Entries(s, {"pending"})), "pending", -1),
            SalePostings(s, Entries(s, {"payable", "paid"})), "payable", -1)
  /\ UNCHANGED <<batch, payout, locked, settings, compliance>>

\* markDelivered: the pending rows that waited for delivery get their matures_at.
MarkDelivered(s) ==
  /\ sale[s].status = "approved"
  /\ ~sale[s].delivered
  /\ sale' = [sale EXCEPT ![s].delivered = TRUE]
  /\ ledger' = [r \in RowIds |->
       IF r \in CommissionRows(s) /\ ledger[r].status = "pending"
       THEN [ledger[r] EXCEPT !.matures = TRUE] ELSE ledger[r]]
  /\ UNCHANGED <<summary, batch, payout, locked, settings, compliance>>

(***************************************************************************)
(* matureCommissions: the rows R whose matures_at has passed become        *)
(* payable.  R is any nonempty set of rows with a matures_at, because the  *)
(* clock, the limit and SKIP LOCKED may leave any of them for a later run. *)
(***************************************************************************)
\* Mutant of DueRows: matures_at alone decides.
DueRowsOfAnyStatus == {r \in RowIds : ledger[r].matures}

DueRows == {r \in RowIds : ledger[r].status = "pending" /\ ledger[r].matures}

MatureCommissions(R) ==
  /\ R # {}
  /\ R \subseteq DueRows
  /\ ledger' = [r \in RowIds |->
       IF r \in R THEN [ledger[r] EXCEPT !.status = "payable"] ELSE ledger[r]]
  /\ summary' = Move(summary, Postings(R), "pending", "payable")
  /\ UNCHANGED <<sale, batch, payout, locked, settings, compliance>>

\* awardBonus, called once for each award of a finalized campaign.
AwardBonus(a, m, mo) ==
  LET r == <<"adjustment", <<a, 0>>>>
  IN
  /\ ledger[r].status = "none"
  /\ PeriodsOpen({mo})
  /\ ledger' = [ledger EXCEPT ![r] = NewRow("payable", m, mo, FALSE)]
  /\ summary' = Post(summary, {[row |-> r, month |-> mo]}, "payable", 1)
  /\ UNCHANGED <<sale, batch, payout, locked, settings, compliance>>

-----------------------------------------------------------------------------
(***************************************************************************)
(* Payouts.                                                                *)
(***************************************************************************)

\* requestPayoutWithMeta, when it creates: period is the current month.
RequestPayout(q, m, period) ==
  LET p == <<q, m>>
  IN
  /\ payout[p].status = "none"
  /\ compliance[m] # Blocked
  /\ OpenPayouts(m) = {}
  /\ Net(m) >= PayoutMin
  /\ payout' = [payout EXCEPT ![p] = [status |-> "requested", period |-> period,
                                      batch |-> NoBatch, snapshot |-> NoSnapshot]]
  /\ UNCHANGED <<sale, ledger, summary, batch, locked, settings, compliance>>

\* rejectPayoutRequest
RejectPayoutRequest(p) ==
  /\ payout[p].status = "requested"
  /\ payout' = [payout EXCEPT ![p].status = "rejected"]
  /\ UNCHANGED <<sale, ledger, summary, batch, locked, settings, compliance>>

\* The open payouts of m that the reservation looks for: those of its own period.
OpenIn(m, period, status) ==
  {p \in OpenPayouts(m) : payout[p].period = period /\ payout[p].status = status}

\* Mutant of Considered: the net of the rows is not compared with the threshold.
ConsideredUnnetted(T, period) ==
  {m \in T : OpenIn(m, period, "processing") = {} /\ PayableRows(m) # {}}

\* The targets that reach assertPeriodsOpen: the others are skipped before it.
Considered(T, period) ==
  {m \in T : /\ OpenIn(m, period, "processing") = {}
             /\ PayableRows(m) # {}
             /\ Net(m) > 0
             /\ Net(m) >= PayoutMin}

\* The requested payout that is reused, or the payout that the batch creates.
PayoutFor(b, m, period) ==
  IF OpenIn(m, period, "requested") # {}
  THEN CHOOSE p \in OpenIn(m, period, "requested") : TRUE
  ELSE <<b, m>>

\* Mutant of Claimed: the rows are not linked to the payout.
ClaimedUnlinked(row, b, p) == [row EXCEPT !.status = "processing", !.batch = b]

\* The rows of members M that a batch claims, and the items it makes of them.
Claimed(row, b, p) == [row EXCEPT !.status = "processing", !.batch = b, !.payout = p]
ClaimedRows(M) == UNION {PayableRows(m) : m \in M}
ItemsFor(b, M, period) ==
  {[row |-> r, payout |-> PayoutFor(b, ledger[r].member, period), month |-> RowMonth(r)]
     : r \in ClaimedRows(M)}

(***************************************************************************)
(* reservePayoutBatch.  A target in a locked month aborts the transaction; *)
(* a target that is not ready is skipped.  A payout the batch creates must *)
(* respect the index payouts_one_open_per_member, and a row it claims must *)
(* be free, or the transaction aborts.                                     *)
(***************************************************************************)
Ready(T, period) == {m \in Considered(T, period) : compliance[m] # Blocked}

ReservePayoutBatch(b, T, period) ==
  LET M == Ready(T, period)
  IN
  /\ batch[b].status = "none"
  /\ \A m \in Considered(T, period) : PeriodsOpen({RowMonth(r) : r \in PayableRows(m)})
  /\ M # {}
  /\ \A m \in M : OpenIn(m, period, "requested") = {} => OpenPayouts(m) = {}
  /\ \A r \in ClaimedRows(M) : ledger[r].batch = NoBatch /\ ledger[r].payout = NoPayout
  /\ batch' = [batch EXCEPT ![b] = [status |-> "processing", items |-> ItemsFor(b, M, period)]]
  /\ payout' = [p \in PayoutIds |->
       IF p[2] \in M /\ p = PayoutFor(b, p[2], period)
       THEN [status |-> "processing", period |-> period, batch |-> b,
             snapshot |-> compliance[p[2]]]
       ELSE payout[p]]
  /\ ledger' = [r \in RowIds |->
       IF r \in ClaimedRows(M)
       THEN Claimed(ledger[r], b, PayoutFor(b, ledger[r].member, period))
       ELSE ledger[r]]
  /\ summary' = Move(summary, ItemsFor(b, M, period), "payable", "processing")
  /\ UNCHANGED <<sale, locked, settings, compliance>>

\* dispatchPayoutBatch: the money leaves, if nobody's compliance changed since reservation.
DispatchPayoutBatch(b) ==
  /\ batch[b].status = "processing"
  /\ PayoutsOf(b) # {}
  /\ \A p \in PayoutsOf(b) :
       compliance[p[2]] # Blocked /\ compliance[p[2]] = payout[p].snapshot
  /\ Intact(b)
  /\ batch' = [batch EXCEPT ![b].status = "dispatched"]
  /\ UNCHANGED <<sale, ledger, summary, payout, locked, settings, compliance>>

\* Mutant of PayoutsMoved: only the payouts the batch created follow it.
OwnPayoutsMoved(b, status) ==
  [p \in PayoutIds |->
     IF p \in PayoutsOf(b) /\ p[1] = b THEN [payout[p] EXCEPT !.status = status] ELSE payout[p]]

\* The payouts of a batch follow its outcome.
PayoutsMoved(b, status) ==
  [p \in PayoutIds |->
     IF p \in PayoutsOf(b) THEN [payout[p] EXCEPT !.status = status] ELSE payout[p]]

\* settlePayoutBatch
SettlePayoutBatch(b) ==
  /\ batch[b].status = "dispatched"
  /\ PayoutsOf(b) # {}
  /\ Intact(b)
  /\ \A p \in PayoutsOf(b) : payout[p].status = "processing"
  /\ batch' = [batch EXCEPT ![b].status = "settled"]
  /\ payout' = PayoutsMoved(b, "paid")
  /\ ledger' = [r \in RowIds |->
       IF r \in ItemRows(b) THEN [ledger[r] EXCEPT !.status = "paid"] ELSE ledger[r]]
  /\ summary' = Move(summary, batch[b].items, "processing", "paid")
  /\ UNCHANGED <<sale, locked, settings, compliance>>

\* Mutants of Releasable and Released: a dispatched batch may fail; the rows keep
\* their links.
ReleasableUntilSettled(b) == batch[b].status \in {"processing", "dispatched"}
ReleasedLinked(row) == [row EXCEPT !.status = "payable"]

\* failPayoutBatch: only a batch that was not dispatched is released.
Releasable(b) == batch[b].status = "processing"
Released(row) == [row EXCEPT !.status = "payable", !.batch = NoBatch, !.payout = NoPayout]

FailPayoutBatch(b) ==
  /\ Releasable(b)
  /\ PayoutsOf(b) # {}
  /\ batch[b].items # {}
  /\ \A r \in ItemRows(b) : ledger[r].status = "processing" /\ ledger[r].batch = b
  /\ \A p \in PayoutsOf(b) : payout[p].status = "processing"
  /\ batch' = [batch EXCEPT ![b].status = "failed"]
  /\ payout' = PayoutsMoved(b, "failed")
  /\ ledger' = [r \in RowIds |->
       IF r \in ItemRows(b) THEN Released(ledger[r]) ELSE ledger[r]]
  /\ summary' = Move(summary, batch[b].items, "processing", "payable")
  /\ UNCHANGED <<sale, locked, settings, compliance>>

-----------------------------------------------------------------------------
(***************************************************************************)
(* What administrators change under the engine's feet.                     *)
(***************************************************************************)
LockPeriod(mo) ==
  /\ locked' = locked \cup {mo}
  /\ UNCHANGED <<sale, ledger, summary, batch, payout, settings, compliance>>

UnlockPeriod(mo) ==
  /\ locked' = locked \ {mo}
  /\ UNCHANGED <<sale, ledger, summary, batch, payout, settings, compliance>>

UpdateSettings(new) ==
  /\ settings' = new
  /\ UNCHANGED <<sale, ledger, summary, batch, payout, locked, compliance>>

\* A review, a fraud, KYC or sanctions decision, or a new payout destination.
ReviewCompliance(m, c) ==
  /\ compliance' = [compliance EXCEPT ![m] = c]
  /\ UNCHANGED <<sale, ledger, summary, batch, payout, locked, settings>>

SaleStep ==
  \/ \E s \in Sales : ApproveSale(s)
  \/ \E s \in Sales : BulkApproveSale(s)
  \/ \E s \in Sales : VoidSale(s)
  \/ \E s \in Sales : MarkDelivered(s)
  \/ \E R \in SUBSET DueRows : MatureCommissions(R)
  \/ \E a \in Awards, m \in Members, mo \in Months : AwardBonus(a, m, mo)

PayoutStep ==
  \/ \E q \in Requests, m \in Members, mo \in Months : RequestPayout(q, m, mo)
  \/ \E p \in PayoutIds : RejectPayoutRequest(p)
  \/ \E b \in Batches, T \in SUBSET Members, mo \in Months : ReservePayoutBatch(b, T, mo)
  \/ \E b \in Batches : DispatchPayoutBatch(b)
  \/ \E b \in Batches : SettlePayoutBatch(b)
  \/ \E b \in Batches : FailPayoutBatch(b)

AdminStep ==
  \/ \E mo \in Months : LockPeriod(mo)
  \/ \E mo \in Months : UnlockPeriod(mo)
  \/ \E new \in [rule: Rules, zone: Zones] : UpdateSettings(new)
  \/ \E m \in Members, c \in Snapshots \cup {Blocked} : ReviewCompliance(m, c)

Next == SaleStep \/ PayoutStep \/ AdminStep

Spec == Init /\ [][Next]_vars

-----------------------------------------------------------------------------
(***************************************************************************)
(* Properties.                                                             *)
(***************************************************************************)

\* Each column of each monthly summary holds exactly the ledger rows of that
\* month in that status, as engine transactions and time zone changes come in
\* any order: bumpSummary never drifts from the ledger.
SummaryReconciles ==
  \A mo \in Months, ln \in Lines, c \in Columns :
    summary[mo][ln][c] =
      Units({r \in RowIds : ledger[r].status = c /\ RowMonth(r) = mo}, ln)

\* The month of a live row is frozen, so a later change of the tenant's time zone
\* does not move the row to another month.
MonthsAreFrozen ==
  \A r \in RowIds : ledger[r].status # "none" =>
    /\ r[1] = "adjustment" => ledger[r].month \in Months
    /\ r[1] # "adjustment" => sale[r[2][1]].month \in Months

\* Row r is an item, under its own payout, of a batch in one of the statuses.
Held(r, statuses) ==
  LET b == ledger[r].batch
  IN /\ b \in Batches
     /\ batch[b].status \in statuses
     /\ \E i \in batch[b].items : i.row = r /\ i.payout = ledger[r].payout

\* A row is in flight or paid exactly when one live batch holds it as an item,
\* under the same payout: no row is paid twice, and none is lost by a batch.
BatchesOwnTheirRows ==
  /\ \A r \in RowIds :
       /\ ledger[r].status = "processing" => Held(r, {"processing", "dispatched"})
       /\ ledger[r].status = "paid" => Held(r, {"settled"})
       /\ ledger[r].status \notin {"processing", "paid"}
            => ledger[r].batch = NoBatch /\ ledger[r].payout = NoPayout
  /\ \A b \in Batches : \A i \in batch[b].items :
       batch[b].status \in {"processing", "dispatched", "settled"}
         => ledger[i.row].batch = b /\ ledger[i.row].payout = i.payout

\* The batch statuses under which a payout has a status.
BatchStatusesFor(status) ==
  {bs \in BatchStatuses : \/ status = "processing" /\ bs \in {"processing", "dispatched"}
                          \/ status = "paid" /\ bs = "settled"
                          \/ status = "failed" /\ bs = "failed"}

\* A payout is processing, paid or failed exactly as its batch is, it has rows,
\* and every row of a batch is its member's and under a payout of that batch.
PayoutsFollowBatches ==
  /\ \A p \in PayoutIds :
       LET b == payout[p].batch
       IN \/ payout[p].status \in {"none", "requested", "rejected"} /\ b = NoBatch
          \/ /\ b \in Batches
             /\ batch[b].status \in BatchStatusesFor(payout[p].status)
             /\ \E i \in batch[b].items : i.payout = p
  /\ \A b \in Batches : \A i \in batch[b].items :
       payout[i.payout].batch = b /\ i.payout[2] = ledger[i.row].member

\* Commission row r of sale s: closed with its reversal, or paid with a live
\* clawback of the same member, exactly if the sale is void.
TakenBack(s, r) ==
  LET original == ledger[r]
      reversal == ledger[<<"reversal", r[2]>>]
  IN IF sale[s].status # "void" THEN reversal.status = "none"
     ELSE /\ reversal.member = original.member
          /\ \/ original.status \in {"none", "reversed"} /\ reversal.status = original.status
             \/ original.status = "paid" /\ reversal.status \in Columns \ {"pending"}

\* A void takes back exactly what the sale had paid when it read the rows, whatever
\* maturation and payouts did to them before and do to the clawbacks; no other sale has any.
VoidTakesBackAll == \A s \in Sales : \A r \in CommissionRows(s) : TakenBack(s, r)

\* A payout in flight or paid is for a positive amount that reaches the
\* threshold, with the clawbacks it nets.
PayoutIsPositive ==
  \A p \in PayoutIds :
    payout[p].status \in {"processing", "paid"} =>
      LET total == Total({r \in RowIds : ledger[r].payout = p})
      IN total > 0 /\ total >= PayoutMin

\* Once a batch is dispatched its rows can only become paid, in that batch: no
\* call makes money that left payable again.
DispatchedMoneyIsFinal ==
  [][\A b \in Batches : batch[b].status \in {"dispatched", "settled"} =>
       /\ batch'[b].items = batch[b].items
       /\ \A r \in ItemRows(b) :
            ledger'[r].batch = b /\ ledger'[r].status \in {"processing", "paid"}]_vars

\* Paid and reversed rows are final: no retry, maturation or second void
\* revives them.
ClosedRowsStayClosed ==
  [][\A r \in RowIds : ledger[r].status \in {"paid", "reversed"} => ledger'[r] = ledger[r]]_vars

\* A commission waits for a delivery only until the delivery: whatever rule the tenant
\* sets, and also when rows are written for a sale that was delivered before, no pending
\* row of a delivered sale is left without the date by which the job matures it.
DeliveryEndsTheWait ==
  \A s \in Sales : sale[s].delivered =>
    \A r \in CommissionRows(s) : ledger[r].status = "pending" => ledger[r].matures

(***************************************************************************)
(* The promise of PayoutBook, read off the tables: what a row is to its    *)
(* owner, which rows a payout carries, and where the payout is.            *)
(***************************************************************************)
Credit ==
  [r \in RowIds |->
     IF ledger[r].status = "reversed" THEN "closed"
     ELSE IF ledger[r].status \in {"processing", "paid"} THEN "carried"
     ELSE ledger[r].status]
Earner == [r \in RowIds |-> ledger[r].member]
Load == [p \in PayoutIds |-> {r \in RowIds : ledger[r].payout = p}]

\* The money of a payout in flight has left once its batch is dispatched.
StageOf(p) ==
  CASE payout[p].status = "processing" ->
         IF batch[payout[p].batch].status = "dispatched" THEN "sent" ELSE "reserved"
    [] payout[p].status = "paid" -> "paid"
    [] payout[p].status = "failed" -> "returned"
    [] OTHER -> "idle"
Stages == [p \in PayoutIds |-> StageOf(p)]

OnTheWay == {b \in Batches : batch[b].status \in {"processing", "dispatched"}}
Bundles == {PayoutsOf(b) : b \in OnTheWay}

Book == INSTANCE PayoutBook
  WITH Credits <- RowIds,
       Owners  <- Members,
       Nobody  <- NoMember,
       Payouts <- PayoutIds,
       Payee   <- [p \in PayoutIds |-> p[2]],
       credit  <- Credit,
       owner   <- Earner,
       load    <- Load,
       stage   <- Stages,
       bundles <- Bundles

\* However requests, batches, voids and reviews interleave, and whichever batch takes over
\* whose request, every credit goes to its owner and to nobody twice, batches arrive or
\* come back as a whole, and money that was sent does not come back.
ImplementsPayoutBook == Book!Spec
=============================================================================
