# Verification of the referral platform

This directory holds TLA+ models of the API server of the platform (`apps/api`, a NestJS
service over PostgreSQL), the TLC configurations that check them, and TLAPS proofs.
File names and line numbers are those of the repository; `engine.service.ts` stands for
`apps/api/src/engine/engine.service.ts`.

## 1. Inventory

A tenant's members sell, their sponsors earn commissions along the upline, and the
commissions are paid out in batches. The state lives in PostgreSQL; every part below is a
service that reads and writes the same tables in transactions. What makes the system hard is
that many services change the rows that others have read, that money is counted twice (in
ledger rows and in monthly summaries, which must agree), and that money which has left cannot
be taken back.

| Part | State | Operations | Interacts with | Correct when |
|---|---|---|---|---|
| Commission ledger, `EngineService` | `sales`, `ledger_entries`, `monthly_summaries`, settlement batches and items, `payouts` | approve, void, deliver, mature, award; reserve, dispatch, settle, fail a batch; reject a request | period locks, settings, compliance, plans, ranks | summaries equal the ledger; nothing is paid twice; a void takes back exactly what was paid |
| Payout requests, `PayoutsService` | `payouts` | request, automatic requests, reconcile, export | ledger rows, readiness | one open payout per member; each cleared once |
| Payout compliance and risk lock | readiness checks, destinations, snapshot on a payout; an advisory lock | review, replace destination, recheck | KYC, fraud, sanctions; reservation and dispatch | nothing is sent to a member who is blocked, or was reviewed since the reservation |
| Accounting periods, `PeriodsService` | `period_locks` | lock, unlock, closing view | every transaction with `assertPeriodsOpen` | check and post are one step for those that promise it |
| Tenant settings | `tenants` | update | maturation, month keys, threshold | old rows keep their month |
| Campaigns | `campaigns` | create, update, delete, finalize (manual and hourly) | `awardBonus` | winners are paid once |
| Notification outbox and relay | `notifications` | claim, dispatch, record | written by every money transaction | each ends as sent or failed; outcomes are final |
| Webhooks | `webhook_deliveries` | emit, dispatch, replay | scheduler | at least once, bounded attempts |
| Sales and bulk actions | `sales`, `bulk_action_executions`, signed previews | enter, delete, approve, void, preview, bulk | engine in one serializable transaction | a key is executed once, as reviewed, and its answer never contradicts it |
| Commission computation, `packages/shared` and the engine | the plan of a sale | upline, compression, level lines, bonuses, override, ceiling | plans, ranks, settings, members | each level goes to the right upline; a correct sale is never refused |
| Plans and rank tiers | `commission_plans`, `rank_tiers` | new version, new bonuses; edit a tier | commission computation | a sale keeps its plan |
| Checks | `payouts.check_number`, tenant counter | print run, mark mailed | paid payouts | numbers are unique, one for a payout |
| Authentication | `users`, `refresh_tokens`, `user_tokens` | login, second factors, rotate, revoke, reset, change | guard, invites | revoked means revoked; one-time tokens act once |
| Invites | `invites` | accept as a new or an existing account | memberships, authentication | one invite, one membership |
| Network hierarchy | `memberships` (`path`, `joined_at`), signed tokens | join; contexts, pages, lists, searches | commission computation reads the same tree | views are complete, repeat nobody and stay in scope |
| Audit chain | `audit_logs` | seal, verify | scheduler | a sealed log verifies |
| KYC, fraud, sanctions | their evidence | decide, scan | compliance | they reach the payout decision |
| Platform, billing, access control, content, search, observability, web and mobile | their tables | administer, query, display | | outside the money paths |

The hard behaviours are listed as hazards, with their lines, in `PROJECT.json`: most name the
properties that would catch them, the others say why no property does.

## 2. Modules

`CommissionLedger` is the core. The other modules of the money paths open up places where it treats
as one step, or as a given choice, what the code does in several: `PeriodLocks` the locks around a
month, `Campaigns` the decision to award, `SalesDesk` the way of a sale to its approval,
`SaleCommissions` what an approval pays, `PayoutDesk` the statements of a dispatch and what follows
it. `SaleCommissions` extends `NetworkHierarchy`, whose tree it walks. `NotificationRelay` and
`AuthSessions` are components of their own.

| Module | Models | Lines of code it stands for |
|---|---|---|
| `CommissionLedger` | the engine with the period locks, payout requests, settings and compliance its transactions read | `engine.service.ts` 259-1530 and 1653-1858, `payouts.service.ts` 834-928, `settings.service.ts`, `payout-compliance.service.ts` |
| `PayoutBook` | what the ledger promises to whoever is paid: credits, their owners, payouts and bundles of payouts | the abstract specification of `CommissionLedger` |
| `PeriodBooks` | the promise of period locks, check and post in one step | the abstract specification of `PeriodLocks` |
| `PeriodLocks` | the steps of the transactions that period locks order | `engine.service.ts` 151-216 and 1653-1660, `periods.service.ts` 84-138 |
| `Campaigns` | concurrent edits, deletion and finalization of one campaign | `campaigns.service.ts` |
| `NotificationRelay` | the outbox relay with leases, crashes and retries | `notification-relay.service.ts` |
| `SalesDesk` | single and bulk actions on sales, with previews, idempotency keys, retries and snapshots | `sales.service.ts`, `bulk-scope.ts`, `engine.service.ts` 151-296 |
| `SaleCommissions` | what a sale pays, plan versions, rank tiers | `engine.service.ts` 222-256, 1437-1572 and 1662-1770, `plans.service.ts`, `ranks.service.ts`, `packages/shared/src` |
| `NetworkHierarchy` | the tree of members and its views | `network-hierarchy.service.ts`, `network-hierarchy.tokens.ts`, `memberships.service.ts` |
| `PayoutDesk` | reservation, dispatch, risk and readiness writers, check runs | `engine.service.ts` 489-1319, `payout-compliance.service.ts`, `payout-risk-lock.ts`, `kyc`, `fraud`, `sanctions` and `checks` services |
| `AuthSessions` | sessions, one-time tokens, second factors, one invite | `auth.service.ts`, `account.service.ts`, `memberships.service.ts` |
| `MCLedger`, `MCPeriodLocks`, `MCSalesDesk`, `MCPayoutDesk`, `MCSaleCommissions`, `MCAuthSessions` | constants of the small instances | |
| `*_proofs` | theorems | section 5 |

### CommissionLedger

One action is one committed transaction, named after the method: `ApproveSale`, `BulkApproveSale`,
`VoidSale`, `MarkDelivered`, `MatureCommissions`, `AwardBonus`, `RequestPayout`, `RejectPayoutRequest`,
`ReservePayoutBatch`, `DispatchPayoutBatch`, `SettlePayoutBatch`, `FailPayoutBatch`, `LockPeriod`,
`UnlockPeriod`, `UpdateSettings`, `ReviewCompliance`. A transaction that throws rolls back and is
no step. The engine locks the sale, batch, payout or membership and then the ledger rows with
`FOR UPDATE` before it decides anything by them, so transactions on the same rows are serial. What
happens between a locking read and the write that follows it is below this granularity: the
properties of this module speak of the order of transactions, not of such gaps.

Bulk actions run the same methods on an older snapshot. For approvals that matters at the period
check, which may miss a lock that has committed: `BulkApproveSale` is `approveSaleInTx` without that
guard, so nothing in this module relies on a bulk approval to respect a locked month. For voids it
matters at the commission rows: `VoidSale` takes back the rows of the table, a bulk void those of its
snapshot. The rows it may miss need the phases of a bulk call and are in `SalesDesk`.

- `sale`, `ledger`, `summary`, `batch`, `payout`, `locked` are the tables; a row is a record with
  the columns that decide something. A ledger row is named by its type and its line, because the
  unique key (sale, level, type) and the `guard_ledger_update` trigger of the database allow one
  commission and one reversal for a line and no change of its amount.
- Money is symbolic: `summary[month][line][column]` is the coefficient of `Amount[line]` in that
  column, so that two columns agree in cents whatever the amounts are. Amounts as numbers occur
  where the code compares them: the net of a member against the threshold.
- `Splits[s]` stands for what `SaleCommissions` computes: approval takes any of the possible
  splits of a sale.
- `MatureCommissions(R)` matures any set of due rows, because the clock, the limit of 100 and
  `SKIP LOCKED` may leave any of them for a later run.
- `RowMonth` is the `COALESCE` of the frozen month and the month of the sale's date in the
  tenant's current time zone; `UpdateSettings` changes that zone at any time.
- `compliance[m]` is `Blocked` or a snapshot. In the code a version in the snapshot only grows,
  so a return to an earlier snapshot happens there only when a block is lifted; the model allows
  more.
- Left out: notification and audit rows, the maker-checker test (it can only refuse), the
  fingerprint preview and the limit of 100 members of a reservation, `total_cents` of a payout
  (the sum of its rows). The path with `requestedPayoutId` is a reservation of one member.

### PayoutBook

`PayoutBook` is the ledger as a payee sees it: a credit is pending, payable, carried by a payout or
closed, and payouts that were reserved together are sent, settled or returned together. It has no
rows linked to batches, items, summaries, months, thresholds or requests; a payout takes its credits
and gives them back in one move. `CommissionLedger` implements it (`ImplementsPayoutBook`): the load
of a payout is the set of rows linked to it, a bundle is the set of payouts of a batch in flight, a
payout is sent when its batch is dispatched, and a row is carried while it is processing or paid.
Approvals, voids, deliveries, maturation and awards are `Account` steps; they may move a credit
forward or close it, but none that is carried, and never to another owner. Requests, rejections,
locks and settings do not show.

### PeriodLocks and PeriodBooks

`PeriodBooks` has two actions, `PostTo` (post to months that are all open) and `ChangeLocks`.
`PeriodLocks` refines it: a transaction begins (and a serializable one takes its snapshot), takes
the advisory locks of one call of `assertPeriodsOpen` after the other in the order of the keys,
reads `period_locks`, and commits; PostgreSQL breaks deadlocks, a serializable transaction may fail
to serialize, `withTxRetry` tries again, and the timeout of `TX_OPTS` may end it anywhere.
`CommissionLedger`'s guard `PeriodsOpen` is `PostTo`'s guard, so the refinement justifies that guard
for the READ COMMITTED transactions, which are `ApproveSale`, `AwardBonus` and `ReservePayoutBatch`;
the run `period_bulk` shows that a serializable one posts to a locked month, and `BulkApproveSale`
has no such guard. PostgreSQL itself (lock queue, deadlock detector, release at the end of a
transaction) is external and modelled from what the code relies on.

### Campaigns

`update`, `remove` and `finalize` each read the campaign in one step and write in another, as in
the code. The finalization's claim, awards and results are one transaction. The sessions are the
requests and the hourly job `autoFinalizeEnded`, which takes a subset of the campaigns a manual
finalization may take.

### NotificationRelay

`Claim` is the transaction of `claimPending`: rows whose last attempt was lost become failed, and
the oldest available rows get a lease. A relay then works through its items: it skips an item
whose lease has run out, dispatches the others, and records the outcome if the row is still
under its lease. `Crash` is the end of a process or an error of the database that leaves the rest
of the batch. A claim raises the attempts, so the attempt number names the lease token.

### SalesDesk

A bulk call goes through the phases of `bulk`: it is sent with a token, a scope and a key; the
transaction begins, which fixes its snapshot; the key's row is inserted, and an uncommitted row of
another call with the key makes it wait; then come the checks of the token against the review of
the snapshot, the locks of the sales, the action and the stored response. SERIALIZABLE is modelled
as first updater wins: `changed` collects the rows that others update after the snapshot, and a
statement that locks one of them fails; PostgreSQL may also fail the transaction at any time
(`SerializationFailure`), and `withTxRetry` tries again up to `MaxTries`. What a statement locks are
the rows of its snapshot (`InSnapshot`): a row inserted since is neither returned by the
`SELECT ... FOR UPDATE` of a void nor a conflict. `Reapply`, the approval of a sale that has no
commission rows yet, inserts them and updates nothing, since plan and month of the sale are frozen
by then; other READ COMMITTED transactions are not tracked for conflicts either. So `Voided` takes
back what the call has found and leaves the rest. A client may send its
request again in any state. Single actions are one step, but the check and the deletion of `remove`
are two, because the code has no transaction around them. `rows` summarizes the commission rows of
a sale, as far as the review and the foreign key look at them.

### PayoutDesk

A dispatch, a fraud scan and a check run are sequences of statements of READ COMMITTED
transactions, with the lock each one holds: the batch row, the payout risk fence (the advisory lock
of `payout-risk-lock.ts`), the members, the tenant's row. `CheckMember` is the loop body of
`dispatchPayoutBatch`: it reads the setting, fraud, KYC and sanctions state and the evidence and
compares the snapshot stored with the payout. Writers that take one lock first and keep it
(`DecideFraud`, `VerifyProfile`, `DecideReadiness`, ...) are one step, possible while the lock is
free. `UpdateRequireKyc` takes no lock, so a dispatch keeps what it has read of the setting
(`asked`). `Abort` is any refusal or error. Two fields are history: `reviewed` (members reviewed
since their reservation) and `asked`.

### NetworkHierarchy

Members join under a parent that has joined; the `ltree` path is the set of the ancestors. A request
is a REPEATABLE READ transaction, so it reads one state; `joined_at` is taken before a registration
commits, so a row may appear after its time, inside the moment of a view that is already open. A
view is opened as one of five kinds (administrator's context, member's context, list, search, direct
search) and read in two steps, the rows and then the counts; the pages that follow are keyed by
`(joined_at, id)` and each returns tokens for what it leaves out. A token is a record of what the
code signs: parent, cursor, moment and viewer; a forged one cannot be made and is not modelled.
Assumed: one clock, so that a sponsor's `joined_at` is not later than its recruit's, and names that
do not change while somebody pages through a search.

### SaleCommissions

`Resolve`, `PayLevel`, `PayBonuses`, `PayOverride` and `Commit` or `Refuse` are the statements of
`applyCommissionsInTx`. It holds the sale's row, but plans and tiers are read as of each statement,
so `CreateVersion`, `CreateBonusVersion` and `SetTier` happen in between. Rates are cumulated in
`upto`, which says the same as the list of levels and lets `Acceptable` be a comparison. A member's
status and the tenant's settings are read once and come in as choices; what a member has earned, for
its tier, does too. A tier's place in the order is its `sortOrder`, taken to be unique.

### AuthSessions

What an operation reads before it locks the user (a refresh token, a one-time token, the password)
is a step of its own, and the request keeps it; the rest of the operation is one step under the lock
of the user and, where the code takes it, of the invite. `by` of a session and `effects` of a token
are history. A second person without an account competes for the invite (`RegisterStranger`).
Account-level changes (`account.service.ts`) write by id without that lock.

## 3. Runs

| Run | Instance | Shows |
|---|---|---|
| `ledger_sales` | 1 sale, 2 levels, 1 award, 2 months, 2 zones, 2 maturation rules, 1 batch | types; summaries reconcile; a void takes back all; closed rows stay closed; a delivery ends the wait of every commission |
| `ledger_payouts` | 1 sale and 1 award of 2 members, 2 batches, 1 request, compliance changes | batches own their rows; payouts follow batches; payouts are positive; dispatched money is final; the engine implements `PayoutBook` |
| `period_guard` | reservation, approval, serializable bulk approval, 1 administrator, 2 months, 2 attempts | the READ COMMITTED transactions implement `PeriodBooks`; all transactions end |
| `period_bulk` | one bulk approval, 1 administrator | violation: a bulk approval posts to a locked month |
| `campaign_finalize` | 3 sessions, 2 prize lists, updates without a status | winners are paid once and by the results shown |
| `campaign_reopen` | 2 sessions, updates with a status | violation: winners are paid twice |
| `notification_relay` | 2 relays, 2 notifications, 3 attempts, batches of 2 | dispatches bounded; outcomes final; every notification settles |
| `sales_bulk` | 1 sale, 2 calls with one key, 2 scopes, 2 policies, 1 preview, 2 tries | a bulk action does what was reviewed, but for rows that came since; its client is never told otherwise; rows keep their sale |
| `sales_void` | 1 sale, 1 call, 2 policies, 1 preview, 1 try | violation: a bulk void leaves commission rows live |
| `payout_desk` | 2 members, 1 batch, 2 clerks, 2 reviews, 2 risk writes | nothing is sent to a blocked or reviewed member; scans keep decisions; check numbers are unique, one for a payout |
| `auth_sessions` | 2 requests, 2 passwords, 1 recovery code, 3 refresh tokens, 1 one-time token, 2 generations, 1 invite | live sessions are current, one token for a session, old passwords open nothing, one-time tokens and the invite act once |
| `network_sales` | every tree of 4 members, pages of 1, 3 nodes; then 1 sale, 2 plans of up to 3 levels, 1 tier | views are complete, repeat and lose nobody and stay in scope; levels go to their heirs; only tier edits refuse; plans stay frozen; reviews cover the bonuses |

Bounds, and why they are enough. A ledger row interacts with its sale, its month, its member's net
and its batch. `ledger_sales` has a paid and an unpaid line of one sale, an award in either month,
and a month that differs between zones, so every path of a row and every pair of concurrent
callers occurs; its sale may also earn nobody anything at first and be approved again after its
delivery. `ledger_payouts` has two batches and a request for the rows of one member, amounts
(3, 2 and a threshold of 2) for which a clawback makes the net negative or lower than the threshold,
and two members for batches that reach only one. The theorems of section 5 hold for all bounds.
`MAX_TX_RETRIES` is 5 in the code and 2 in the run; `MAX_ATTEMPTS` is 5 and 3; `BATCH` is 20 and 2,
which is all rows. Two periods suffice for a deadlock. `Batches` is a symmetry set of
`ledger_payouts`, where no liveness is checked. Runs with `CHECK_DEADLOCK FALSE` are those of
systems that come to rest: a deleted campaign, an outbox with nothing pending, a tree in which
everybody has joined.

In `sales_bulk` one sale suffices for a deletion, an approval and two bulk calls to meet; a second
key or preview would only repeat what the calls do apart from each other, and the two policies differ
in whether an approval makes rows and in separate approval. `payout_desk` has two clerks because each
lock orders two transactions, and two members so that a dispatch is interrupted between them; its
theorems hold for any number. `auth_sessions` has two requests, a session and its rotation or two
sessions, and a second generation, so that a request can find everything changed that it has read.
`network_sales` covers all trees of four members: a page of one sibling makes every second sibling a
page of its own, a budget of three nodes makes a context leave out a branch, and four members give a
seller three uplines, one more than the shorter plan pays. The two halves of the run are bounded to
follow each other (`Grown`): selling starts when everybody has joined at time 0, named in the order
of the tree, and nobody views it. Sales only read the tree, which has every shape then. Rates are
tenths (`Whole` = 10) and the amount is 9, so that nearly every product is rounded.

### Disagreements between the code and its documentation

- **A bulk approval may post to a locked month** (`period_bulk`). `periods.service.ts:86-89` says
  that the advisory lock closes the window between check and write; the serializable transaction of
  a bulk action reads the lock table in a snapshot that is older than its advisory lock.
- **A campaign may be finalized twice** (`campaign_reopen`). `campaigns.service.ts:113` says a
  double award is impossible; an update that carries a status and was read before the
  finalization reopens the campaign.

- **A bulk void may leave commissions live** (`sales_void`). `engine.service.ts:307` promises a
  reversal for every existing commission row, and `docs/DECISIONS.md:66` that the void reads fresh
  status. The serializable transaction of a bulk void reads the rows of its snapshot. If a sale was
  approved when nobody earned, and its approval is repeated after the snapshot, the void commits
  over the new rows. No later call takes them back: voiding a void sale does nothing. This is also
  the exception in `ActedAsReviewed`.

By reading only, without a run:

- `schema.prisma:1160-1161` says that no commission, void reversal or payout may touch a locked
  month, and `docs/CROSS-TEST-PROMPT.md:30` that a void is refused in one; `voidSaleInTx`
  (`engine.service.ts:327-393`) never calls `assertPeriodsOpen` and writes the month's summary.
  Maturation, settlement and failure of a batch do not call it either. The models follow the code:
  `VoidSale`, `MatureCommissions`, `SettlePayoutBatch` and `FailPayoutBatch` have no such guard, and
  no property says that a locked month is frozen or gains nothing.
- `reviewSaleApprovalInputs` (`engine.service.ts:217-220`) speaks of the exact money-impacting
  inputs of a draft approval; the rank override is not among them, so a tier edited between review
  and approval changes the money without a new review. `ReviewCoversBonuses` states what holds.
- `engine.service.ts:1503-1505` promises bonuses to the direct sponsor; the raw chain is cut to the
  plan's depth, so a plan of one level pays neither fast start nor matching.
- `schema.prisma:560` says that matching is a share of the seller's level-0 commission; the code
  takes the first line there is, which is a sponsor's when level 0 rounds to nothing.
- The comment of `createVersion` (`plans.service.ts:179-183`) says a version starts now or later; a
  past date is accepted. `PlanStaysFrozen` shows that sales with commissions are not touched by it.
- `simulate` (`plans.service.ts:116-120`) claims the engine's calculation; it ignores compression,
  inactive members and bonuses.
- `payout-risk-lock.ts:3-7` lists what the fence covers; the tenant's KYC setting and the name that
  sanctions are screened for are written without it. `NothingSlipsIn` therefore speaks of the
  setting as the dispatch has read it.
- `account.service.ts` stores an authenticator's secret encrypted, and the login of
  `auth.service.ts` verifies it as plain text, so a factor that was set up there cannot be used.
  `AuthSessions` models it (`secret` is `plain` or `sealed`).
- `changePassword` revokes all refresh tokens but leaves the generation that access tokens carry,
  which a reset advances; `LiveSessionsAreCurrent` and `OldPasswordOpensNothing` hold nevertheless,
  because they speak of what can be rotated.
- Two overlapping runs of `sealAuditChain` (`reports.service.ts:53-63`) extend the same hash, after
  which the chain fails its own verification.
- `createUnder` (`memberships.service.ts:34-56`) repeats an insert after a unique violation inside
  the caller's transaction, which PostgreSQL has aborted by then.

## 4. Fairness

All modules but the following two have safety properties only and assume no fairness: what they
wait for is a person or a client, which the code cannot make act.

- `PeriodLocks`: a statement that can run does (weak fairness of `Begin`, `CheckOpen`, `Refuse`,
  `Commit` and of an administrator's commit); PostgreSQL queues lock requests, so a lock that is
  free again and again is granted (strong fairness of `Acquire`); the deadlock detector runs.
  Nothing is assumed of `TimeOut` or `SerializationFailure`.
- `NotificationRelay`: the interval timer starts an idle relay and adapters return or throw (weak
  fairness of `Work`), and clocks advance (`TimePasses`). Crashes are unrestricted: a relay may crash
  in every batch, and every notification still settles because each claim uses up an attempt. An
  adapter that never returns would hold up its relay; that is not covered.

## 5. Proofs

TLAPS checks the following for every value of the constants that satisfies the assumptions
(`LedgerAssumption`, `PeriodAssumption`, `RelayAssumption`, `NoneAssumption`, `FiniteAssumption`,
`CommissionAssumption`, `SizeAssumption`, `SearchesAssumption`, `SalesAssumption`, `AuthAssumption`:
disjoint name spaces, positive amounts, well-typed tables, finitely many notifications, members and
batches, rates between 0 and the base of all rates, pages of at least one row and contexts of at
least two, searches that are sets of members).

| Module | Theorems | Invariant they rest on |
|---|---|---|
| `CommissionLedger_proofs`, rows | `TypeCorrect`, `VoidIsExact`, `ClosedForever` | `TypeOK` with `MonthsAreFrozen`: a live row's month is fixed, so every posting has a month; the commission and reversal rows of a sale together, and which of them are linked to a batch |
| the same, batches and payouts | `Ownership`, `DispatchIsFinal`, `PayoutsAgree`, `PayoutsArePositive` | `BatchesOwnTheirRows` itself; rows not in flight have no links, which is what a reservation tests; every payout of a batch has an item, its member is that of its rows, and the rows under a payout are the ones the reservation summed |
| the same, summaries and deliveries | `Reconciled`, `DeliveryEndsWaits` | an item's month is its row's month, and a void or a zone change leaves the month of a live row alone |
| the same, refinement | `PaysAsPromised`: `CommissionLedger` implements `PayoutBook`; `PromiseMeans`, `CreditsAreCarriedOnce`: what that comes to | the conjunction of the above; `CarriedOnce` |
| `PeriodLocks_proofs` | `Implements` | a running transaction holds the lock of every month it has checked; an administrator holds the month it writes |
| `NotificationRelay_proofs` | `DispatchesBounded`, `OutcomesAreFinal` | an account of attempts: dispatches and attempts that may still dispatch are at most the attempts counted, and no attempt is held twice |
| `Campaigns_proofs` | `OnlyAnUpdateReopens`, `ResultsNeverInvented`; in behaviours that do not reopen the campaign: `WinnersPaidOnce`, `ResultsPaid` | `Always`: an update in progress started from a campaign that had not ended; `Once`: a campaign that can be finalized has paid nobody |
| `SalesDesk_proofs` | `TypeCorrect`, `RowsKeepTheirSaleHolds`, `ActedAsReviewedHolds`, `AnsweredByExecutionHolds` | `Inv`: only approved and voided sales have rows; what nobody changed since a call's snapshot is as reviewed; locked sales belong to one call; a key is held by one attempt and only while it has no execution |
| `PayoutDesk_proofs` | `TypeCorrect`, `NothingSlipsInHolds`, `DispatchedAsReservedHolds`, `ScansKeepDecisionsHolds`, `CheckNumbersUnique`, `OneCheckPerPayoutHolds` | `DeskInv`: who holds which lock, what a dispatch has found of the members that passed, that versions tell reviews apart, and that a print run's counter is the counter |
| `SaleCommissions_proofs` | `ExactShares`, `OnlyTierEditsRefuseHolds`, `PlanStaysFrozenHolds` | `Inv`: what has been given, times the base of rates, is at most the amount times the rates used so far |
| the same, views of the tree | `NetworkInvariant`, `ContextCountsAddUp`, `PagesDoNotRepeat`, `PagesLeaveNobodyOut`, `ViewsStayInScope` | `NetworkInv`: the shape of the tree, and of every view that each token has passed what was shown below its parent and still leads to what was not |
| the same, uplines | `HeirInvariant`, `LevelsGoToTheirHeirs`, `SignatureCoversBonuses` | `HeirInv`: the chain of an application is the one its tree and plan give, and every level behind it has the line of its upline |
| `AuthSessions_proofs` | `TypeCorrect`, `LiveSessionsAreCurrentHolds`, `OneTokenPerSessionHolds`, `OldPasswordOpensNothingHolds`, `OneTimeTokensHold`, `OneMemberPerInviteHolds` | `Inv`: a live session's family is a position already used; an unused token has had no effect; a refresh token that a request has read can only have ended since |

The three parts about the ledger build on one another in that order. Each argument has the same
shape: the initial states satisfy the invariant, a lemma for each action shows that it preserves the
invariant and what it does to the rows, and the last step combines them. `MonthsAreFrozen` is the
key of the first and the last part: `SummaryReconciles` alone is not inductive, because a change of
time zone would move any row whose month is not frozen. In the last part the algebra of postings is
proved once (`Post` adds exactly the units of the posted rows to one column), and each action is
shown to move exactly the rows that change status. `DeliveryEndsWaits` joins the two places that end
a wait: a delivery gives a date to every pending row that is there (`WaitStep`), and an approval
writes its rows by the delivery as it is then (`StartOfDelivered`); the rule may change between
them, which is why the second fact is stated for every rule of the schema. The refinement
`Implements` maps a commit of a READ COMMITTED transaction to `PostTo` and an administrator's commit
to `ChangeLocks`; every other step stutters.

`DispatchesAreBounded` is not inductive: a relay that lost its lease may still dispatch. The account
counts such attempts as open. It holds because a lease is unique to an attempt, so that a late
failure, which writes back the attempts of its item, is recorded only while no attempt was counted
after it (`LeaseIsLast`); the mutant `HoldsAny` breaks exactly this.

The theorems about campaigns hold for every set of statuses that updates may carry, those that
activate a campaign included. `campaign_reopen` shows that winners can be paid twice, so
`WinnersPaidOnce` and `ResultsPaid` are about the behaviours in which no step takes the campaign from
ended back to draft or active (`[][~Reopens]_vars`), and the other two theorems say what is left
without that: only an update that read the campaign before it ended, and carries a status, can take
that step, and even a reopened campaign shows results by which its winners were paid. A service that
repeated its status check when it writes would satisfy the condition. The run `campaign_finalize`
checks the instance in which updates carry no status.

In `PayoutDesk_proofs`, `FenceInv` and `LockInv` say which clerk holds the fence and the rows it has
locked. From them follows that behind a fence no risk changes (`RiskHeld`) and that the evidence of
a locked member keeps its versions (`EvidenceHeld`). `PassedInv` carries what a dispatch has found
of each member that passed from its read to the commit, where it is the property. Without
`EvidenceInv` (the versions stored with a payout are not ahead of the evidence, and if they are
current nobody has reviewed the member) an equal version would say nothing about what happened in
between. `CheckInv` does the same for check numbers under the tenant's row.

`OnlyTierEditsRefuse` compares roundings: levels, bonuses and override are rounded one by one and the
ceiling once. `ExactShares` keeps the account without rounding: `given * Whole <= amount * rates`.
Each rounded share is at most the exact one (`BpsBelow`), exact shares of one amount add up
(`SharesAdd`), and what is at most an exact share is at most the rounded one (`BpsGreatest`), since
given cents are whole. Matching is a share of a line and not of the amount; it is bounded because a
line is at most what has been given, and that is at most the amount (`UptoBelowWhole`,
`ShareBelowAmount`). Where the proofs need the least of a set of levels or lines they use
`LeastNatural`, from the well-foundedness of the naturals. `PlanStaysFrozen` rests on `FrozenOK`: an
application runs under the plan its sale is frozen to.

`ActedAsReviewed` compares two points in time of a call whose snapshot lies in between. `CallOK`
carries the review from the snapshot to the commit: `StillTrue` says that a sale which nobody has
updated since the snapshot is as the review shows it or has gained rows in place of none (`Joined`),
`changed` collects what others updated (the serialization failures of the model), and a call that
has locked its sales has none of them in `changed`. The commit then finds every sale as reviewed, or
with commission rows inserted since in place of none (`TargetsAreAsReviewed`). `RowsKeepTheirSale`
needs no lock on the removal's first read: the deletion finds a draft or nothing, and a draft has no
rows (`SalesInv`). `AnsweredByExecution` rests on `KeysInv`: who holds a key has seen no execution
of it, so an answer other than the stored response comes before the execution or says nothing.

In `AuthSessions_proofs` nothing that was read before the lock is assumed to be current. `ReadOK`
keeps the little that is: a refresh token that a request has read is still that row, or has been
revoked. Since rotation revokes exactly the row it read, its successor is the only live row of the
family (`RotationKeepsRows`); a login opens a family named after its own position, which no live row
has (`FamiliesAreOld`). Whatever advances the generation or replaces the password ends every row in
the same step (`AllRowsEnd`), which gives `LiveSessionsAreCurrent` and `OldPasswordOpensNothing`.
`OneTimeTokens` needs that an unused token had no effect, as the claim of a token and its effect are
one transaction (`ConsumeKeepsTokens`).

`PaysAsPromised` shows of each transaction which step of the book it is. A sale step changes only
rows outside every batch (`SalesChangeFreeRows`), forward (`NoRelapse`, `ClosedStep`) and without a
change of owner (`RowKept`). A reservation loads each of its payouts with exactly the payable rows of
its member (`LinkedReserved`), whether it created the payout or took over a request. For a release
the two ways in which a batch knows its rows must agree: `BatchLoad` shows that the items of a batch
in flight are the rows linked to its payouts, so a failure returns every load completely and takes
nothing from another payout. A batch in flight has payouts and they name their batch
(`BundlesTellBatches`), so a bundle that ends takes no other with it.
`PromiseMeans` looks at the book alone: `CarriedOnce` (a credit is carried by one payout at most, its
owner's) and `SentIsFinal` follow from its actions, so they hold of the engine because it implements
the book (`CreditsAreCarriedOnce`). TLC confirms both on the instance of `ledger_payouts`.

The views need both halves of `NetworkInv`. `TreeOK` says that a member's path is the member and the
path of its sponsor, that the paths of two ancestors are parts of each other, and that nobody has
joined before an ancestor. From it follows that the first rows of a context, ordered by depth and
time, are closed upwards, so everybody else is below exactly one of them, and that the branches
below different siblings share nobody: this is why the counts add up and the pages do not overlap.
`ViewOK` then follows a view through its requests: whoever is shown was reached from the anchor
through shown members, each parent has one token at most, everybody shown below that parent lies
before the token's cursor, and whoever is still owed lies in a branch behind one. A page moves the
cursor past exactly the rows it returns. Who joins meanwhile may appear on a later page, if its
`joined_at` is not after the view's moment, but is promised nothing.

The chain of a sale is a sequence built by recursion on places, and what it means is a statement
about paths. The proof joins the two by the place: the upline at place k has exactly k - 1 counted
uplines between the seller and itself (`TierGrows`, `OnePerTier`), and when the tenant compresses
only active ones count (`ChainGivesHeirs`). As induction over data is not available, each claim
about all places is proved by its least counterexample (`LeastNatural`). `HeirInv` keeps the chain
and plan that an application has resolved equal to those of its tree (sales do not move anybody) and
says that each level it is through with has the line of the right upline. `SignatureCoversBonuses`
comes down to one fact: the bonuses depend on the direct sponsor and on whether it is active, and
both can be read off the signed chain, whose second place is the sponsor unless it is skipped
(`SecondOfChain`).

`NetworkInv` and `HeirInv` are themselves invariants of the instance of `network_sales`: TLC finds no
state of it that violates them.

Only model-checked: liveness (`EveryTransactionEnds`, `EveryNotificationSettles`), which is outside
the prover's reach. Every safety property of the passing runs, the two refinements among them, is
proved.

## 6. Plan

What would come next, most important first.

1. `PayoutDesk` as a refinement too: its dispatch, statement by statement, as one `Send` of
   `PayoutBook` with the condition that nobody of the bundle is blocked by then.
2. Row locks below `CommissionLedger`: void, maturation and reservation as statements with
   `FOR UPDATE` and `SKIP LOCKED`, refining the atomic actions; the phantom clawback.
3. Webhooks, the audit chain and bank reconciliation as small modules; e-mail verification and the
   switch of tenants in `AuthSessions`; administrators' edits of members.

## 7. Not modelled

- Webhooks promise neither one delivery nor a final status, and bank reconciliation only marks
  payouts that are paid; the audit chain is listed above as a disagreement found by reading.
- The scheduler starts jobs of the other components on timers; each job is an action there.
- Reading views, reports, exports, import parsing, ACH and PDF output, rendering of notifications.
- Authorization and tenancy, which can only refuse a call; platform administration and billing;
  content and configuration, which are single-row edits.
- The web and mobile applications, which hold about half of the code and keep no state that the
  server depends on.

`PROJECT.json` gives the reason for each part.
