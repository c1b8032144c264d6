------------------------------ MODULE SalesDesk ------------------------------
(***************************************************************************)
(* The sales desk (apps/api/src/sales/sales.service.ts): single sales are  *)
(* entered, approved, voided, delivered and removed while administrators   *)
(* preview and confirm bulk actions.                                       *)
(*                                                                         *)
(* A preview is a signed token that holds what the reviewer saw.  A bulk   *)
(* call names a token, a scope and an idempotency key and runs in one      *)
(* SERIALIZABLE transaction that EngineService retries.  Such a            *)
(* transaction reads as of its first statement, so its review is computed  *)
(* where it begins, and another transaction's commit reaches it only as a  *)
(* serialization failure on a row of its snapshot that it locks, or on a   *)
(* key that it inserts.  It sees no row inserted since, and such a row     *)
(* does not fail it: a bulk void passes over commission rows written after *)
(* it began.                                                               *)
(*                                                                         *)
(* Actors matter to the engine only as creators of sales; a key is named   *)
(* with its actor, so the calls of one actor suffice.  A delivery, which   *)
(* sets a column of an approved sale that the review shows, is left to     *)
(* CommissionLedger.                                                       *)
(***************************************************************************)
EXTENDS Integers, FiniteSets

CONSTANTS
  Sales,
  Calls,        \* HTTP requests in flight; a client may send its request again
  Keys,         \* idempotency keys
  Policies,     \* records: what approvals are computed from (see SalesAssumption)
  Own,          \* the sales that the actor of the bulk calls has entered
  Scopes,       \* scopes the client may send
  MaxPreviews,  \* bound: previews ever signed
  MaxTries,     \* MAX_TX_RETRIES
  None          \* no preview, review, policy or execution

Actions == {"approve", "void"}
Statuses == {"new", "draft", "approved", "void", "gone"}

\* plan: a plan is in effect; lines: it yields commission rows; separate:
\* requireSeparateApprover.  A scope is a set of ids, or all results with a status
\* among those of the filter.
ASSUME SalesAssumption ==
  /\ Policies \subseteq [id: Nat, plan: BOOLEAN, lines: BOOLEAN, separate: BOOLEAN]
  /\ Own \subseteq Sales
  /\ Scopes \subseteq [mode: {"selected"}, ids: SUBSET Sales]
                \cup [mode: {"all-results"}, statuses: SUBSET {"draft", "approved", "void"}]
  /\ MaxPreviews \in Nat
  /\ MaxTries \in Nat \ {0}
  /\ None \notin Policies

VARIABLES
  sale,         \* sales, each with the state of its commission rows
  policy,       \* the tenant's settings, plan and members, as approvals read them
  previews,     \* the tokens signed so far
  expired,      \* those past their expiresAt
  execution,    \* bulk_action_executions: the committed row of each key
  call,         \* the bulk calls in progress
  answer,       \* the answer that the server gives in this step, or None
  removing      \* sales that a deletion has read as drafts

vars == <<sale, policy, previews, expired, execution, call, answer, removing>>

\* rows: of the sale's commissions; open stands for pending, payable and paid.
\* policy: what unreversed rows were computed from.
Sale == [status: Statuses,
         rows: {"none", "open", "processing", "reversed"}, policy: Policies \cup {None}]
NewSale == [status |-> "new", rows |-> "none", policy |-> None]

\* phase of a call; request: its token, scope and key; tries: failed attempts; review:
\* of the snapshot; changed: the rows that others have updated since the snapshot.
Idle == [phase |-> "idle", request |-> None, tries |-> 0, review |-> None, changed |-> {}]

Init ==
  /\ sale = [s \in Sales |-> NewSale]
  /\ policy \in Policies
  /\ previews = {}
  /\ expired = {}
  /\ execution = [k \in Keys |-> None]
  /\ call = [c \in Calls |-> Idle]
  /\ answer = None
  /\ removing = {}

-----------------------------------------------------------------------------
(***************************************************************************)
(* The review of a scope: calculateBulkReview.                             *)
(***************************************************************************)
Exists(s) == sale[s].status \in {"draft", "approved", "void"}

InScope(scope) ==
  IF scope.mode = "selected" THEN scope.ids
  ELSE {s \in Sales : sale[s].status \in scope.statuses}

MakerChecker(s) == policy.separate /\ s \in Own

Approvable(s) == sale[s].status = "draft" /\ ~MakerChecker(s)

Eligible(action, s) ==
  IF action = "approve"
  THEN Approvable(s) /\ policy.plan
  ELSE sale[s].status \in {"draft", "approved"} /\ sale[s].rows # "processing"

\* The material that the selection fingerprint is made of, per sale.
Material(action, s) ==
  [sale |-> sale[s],
   inputs |-> IF action = "approve" /\ Approvable(s) /\ policy.plan THEN policy ELSE None]

Review(action, scope) ==
  [eligible |-> {s \in InScope(scope) : Eligible(action, s)},
   seen |-> [s \in InScope(scope) |-> Material(action, s)],
   separate |-> policy.separate]

\* A selected sale that is not in this tenant is an error.
Reviewable(scope) == \A s \in InScope(scope) : Exists(s)

\* previewFromBulkReview; the number stands for the time in the token.
Sign(action, scope, review) ==
  [n |-> Cardinality(previews) + 1, action |-> action, scope |-> scope, review |-> review]

\* A step that answers no call.
Quiet == answer' = None

\* previewBulk
Preview(action, scope) ==
  /\ Cardinality(previews) < MaxPreviews
  /\ Reviewable(scope)
  /\ previews' = previews \cup {Sign(action, scope, Review(action, scope))}
  /\ Quiet
  /\ UNCHANGED <<sale, policy, expired, execution, call, removing>>

\* BULK_PREVIEW_TTL_MS
Expire(t) ==
  /\ t \in previews \ expired
  /\ expired' = expired \cup {t}
  /\ Quiet
  /\ UNCHANGED <<sale, policy, previews, execution, call, removing>>

-----------------------------------------------------------------------------
(***************************************************************************)
(* bulk: one attempt is a transaction in the phases waiting (on the key of *)
(* another attempt), begun, checked and locked.                            *)
(***************************************************************************)
InTx == {"waiting", "begun", "checked", "locked"}

Targets(c) == call[c].review.eligible
Lines(S, parts) == S \X parts

\* A commit that updated these rows, for the transactions that are still open.  An
\* insert updates none.
Changing(rows, cl) ==
  [d \in Calls |-> IF cl[d].phase \in InTx
                   THEN [cl[d] EXCEPT !.changed = @ \cup rows] ELSE cl[d]]

Answer(c, a) ==
  /\ call' = [call EXCEPT ![c] = Idle]
  /\ answer' = [to |-> c, kind |-> a.kind, response |-> a.response]

Done(e) == [kind |-> "done", response |-> e.response]
Refusal(kind) == [kind |-> kind, response |-> None]

\* A client sends a request, for the first time or again.
Send(c, t, scope, k) ==
  /\ call[c].phase = "idle"
  /\ call' = [call EXCEPT ![c] =
       [Idle EXCEPT !.phase = "called",
                    !.request = [token |-> t, scope |-> scope, key |-> k]]]
  /\ Quiet
  /\ UNCHANGED <<sale, policy, previews, expired, execution, removing>>

Request(c) == call[c].request
Key(c) == Request(c).key

\* The attempts that have inserted the row of a key and not yet ended.
Holders(k) == {c \in Calls : call[c].phase \in {"begun", "checked", "locked"} /\ Key(c) = k}

\* Mutant of Accepted: the time to live is checked before the replay.
AcceptedAlive(t) == t \in previews \ expired

\* verifyBulkPreviewToken without a time to live: only the signature counts.
Accepted(t) == t \in previews

\* beginBulkExecution.  The insert waits for another attempt with its key.
Begin(c) ==
  LET e == execution[Key(c)] IN
  /\ call[c].phase = "called"
  /\ IF ~Accepted(Request(c).token)
     THEN Answer(c, Refusal("invalid"))
     ELSE IF e = None
     THEN /\ call' = [call EXCEPT
                 ![c].phase = IF Holders(Key(c)) = {} THEN "begun" ELSE "waiting",
                 ![c].review = IF Reviewable(Request(c).scope)
                               THEN Review(Request(c).token.action, Request(c).scope)
                               ELSE None,
                 ![c].changed = {}]
          /\ Quiet
     ELSE Answer(c, IF e.request = Request(c) THEN Done(e) ELSE Refusal("conflict"))
  /\ UNCHANGED <<sale, policy, previews, expired, execution, removing>>

\* Mutant of LastTry: one attempt too many.
OneMoreTry(c) == call[c].tries >= MaxTries

LastTry(c) == call[c].tries + 1 >= MaxTries

\* withTxRetry: a serialization failure or a deadlock rolls the attempt back.
Retry(c) ==
  IF LastTry(c)
  THEN Answer(c, Refusal("error"))
  ELSE /\ call' = [call EXCEPT ![c] =
              [Idle EXCEPT !.phase = "called", !.request = Request(c),
                           !.tries = call[c].tries + 1]]
       /\ Quiet

\* The other attempt has ended.  If it committed, its row is not in this snapshot.
StopWaiting(c) ==
  /\ call[c].phase = "waiting"
  /\ Holders(Key(c)) = {}
  /\ IF execution[Key(c)] = None
     THEN call' = [call EXCEPT ![c].phase = "begun"] /\ Quiet
     ELSE Retry(c)
  /\ UNCHANGED <<sale, policy, previews, expired, execution, removing>>

\* bulkReviewMatchesToken
Matches(c) == call[c].review = Request(c).token.review

\* A first execution: the token must be live and the review the one that was signed.
Check(c) ==
  LET t == Request(c).token
      drift == t.scope # Request(c).scope \/ ~Matches(c)
      next == Sign(t.action, Request(c).scope, call[c].review)
  IN
  /\ call[c].phase = "begun"
  /\ \/ /\ t \in expired
        /\ Answer(c, Refusal("invalid"))
        /\ UNCHANGED previews
     \/ /\ t \notin expired
        /\ call[c].review = None
        /\ Answer(c, Refusal("not_found"))
        /\ UNCHANGED previews
     \/ /\ t \notin expired
        /\ call[c].review # None
        /\ drift
        /\ Answer(c, Refusal("review_required"))
        /\ previews' = IF next.n > MaxPreviews THEN previews ELSE previews \cup {next}
     \/ /\ t \notin expired
        /\ call[c].review # None
        /\ ~drift
        /\ call' = [call EXCEPT ![c].phase = "checked"]
        /\ Quiet
        /\ UNCHANGED previews
  /\ UNCHANGED <<sale, policy, expired, execution, removing>>

Locked(s) == \E c \in Calls : call[c].phase = "locked" /\ s \in Targets(c)

\* Mutant of Stale: the transaction is READ COMMITTED.
NeverStale(c, part) == FALSE

\* The rows of the snapshot that belong to the targets: a SELECT FOR UPDATE locks those.
InSnapshot(c, part) ==
  Lines({s \in Targets(c) : part = "ledger" => call[c].review.seen[s].sale.rows # "none"}, {part})

\* A row to be locked has been updated since the snapshot.
Stale(c, part) == call[c].changed \cap InSnapshot(c, part) # {}

\* lockSales.  The rows are locked in the order of their ids, so two calls that want
\* common sales wait for each other in one direction only.
LockSales(c) ==
  /\ call[c].phase = "checked"
  /\ \A s \in Targets(c) : ~Locked(s)
  /\ IF Stale(c, "row")
     THEN Retry(c)
     ELSE call' = [call EXCEPT ![c].phase = "locked"] /\ Quiet
  /\ UNCHANGED <<sale, policy, previews, expired, execution, removing>>

\* approveSaleInTx and applyCommissionsInTx.
Approved(row, p) ==
  [row EXCEPT !.status = "approved", !.policy = IF p.lines THEN p ELSE None,
              !.rows = IF p.lines THEN "open" ELSE "none"]

\* voidSaleInTx, when it finds commission rows in this state.
Voided(row, found) ==
  [row EXCEPT !.status = "void",
              !.policy = IF found = "none" THEN @ ELSE None,
              !.rows = IF found = "none" THEN @ ELSE "reversed"]

\* A bulk action finds the rows of its snapshot.
Acted(c, s) ==
  LET seen == call[c].review.seen[s] IN
  IF Request(c).token.action = "approve"
  THEN Approved(sale[s], seen.inputs) ELSE Voided(sale[s], seen.sale.rows)

\* The sales, the execution row and its response commit together.
Execute(c) ==
  LET e == [request |-> Request(c),
            response |-> [succeeded |-> Targets(c),
                          failed |-> DOMAIN call[c].review.seen \ Targets(c)]]
  IN
  /\ call[c].phase = "locked"
  /\ IF Request(c).token.action = "void" /\ Stale(c, "ledger")
     THEN Retry(c) /\ UNCHANGED <<sale, execution>>
     ELSE /\ sale' = [s \in Sales |-> IF s \in Targets(c) THEN Acted(c, s) ELSE sale[s]]
          /\ execution' = [execution EXCEPT ![Key(c)] = e]
          /\ call' = Changing(Lines(Targets(c), {"row", "ledger"}),
                              [call EXCEPT ![c] = Idle])
          /\ answer' = [to |-> c, kind |-> "done", response |-> e.response]
  /\ UNCHANGED <<policy, previews, expired, removing>>

\* PostgreSQL may abort a serializable transaction at any statement.
SerializationFailure(c) ==
  /\ call[c].phase \in InTx
  /\ Retry(c)
  /\ UNCHANGED <<sale, policy, previews, expired, execution, removing>>

\* Another error, such as a locked period, or the end of the process.
Abort(c) ==
  /\ call[c].phase \in InTx \cup {"called"}
  /\ Answer(c, Refusal("error"))
  /\ UNCHANGED <<sale, policy, previews, expired, execution, removing>>

-----------------------------------------------------------------------------
(***************************************************************************)
(* Single sales.  These transactions are READ COMMITTED and lock the row   *)
(* of the sale, or in the case of payouts the commission rows.             *)
(***************************************************************************)
Write(s, row, parts) ==
  /\ ~Locked(s)
  /\ sale' = [sale EXCEPT ![s] = row]
  /\ call' = Changing(Lines({s}, parts), call)
  /\ Quiet
  /\ UNCHANGED <<policy, previews, expired, execution>>

\* createDraftSale, for create, selfCreate and importCsv.
Create(s) ==
  /\ sale[s].status = "new"
  /\ Write(s, [NewSale EXCEPT !.status = "draft"], {"row"})
  /\ UNCHANGED removing

\* approve, by the actor of the bulk calls or by another administrator.
Approve(s, own) ==
  /\ sale[s].status = "draft"
  /\ own => ~MakerChecker(s)
  /\ policy.plan
  /\ Write(s, Approved(sale[s], policy), {"row"})
  /\ UNCHANGED removing

\* approve of an approved sale without commission rows computes them again.  Plan and
\* month are frozen, so it updates nothing and inserts the rows.
Reapply(s) ==
  /\ sale[s].status = "approved"
  /\ sale[s].rows = "none"
  /\ policy.plan
  /\ policy.lines
  /\ Write(s, Approved(sale[s], policy), {})
  /\ UNCHANGED removing

\* void
Void(s) ==
  /\ sale[s].status \in {"draft", "approved"}
  /\ sale[s].rows # "processing"
  /\ Write(s, Voided(sale[s], sale[s].rows), {"row", "ledger"})
  /\ UNCHANGED removing

\* A settlement batch takes the commission rows and later pays or releases them.  It
\* locks them, and not the sale.
MoveRows(s, from, to) ==
  /\ sale[s].rows = from
  /\ sale' = [sale EXCEPT ![s].rows = to]
  /\ call' = Changing(Lines({s}, {"ledger"}), call)
  /\ Quiet
  /\ UNCHANGED <<policy, previews, expired, execution, removing>>

\* remove: the check
StartRemove(s) ==
  /\ sale[s].status = "draft"
  /\ removing' = removing \cup {s}
  /\ Quiet
  /\ UNCHANGED <<sale, policy, previews, expired, execution, call>>

\* Mutant of HeldByRows: the foreign key sets sale_id to NULL, as it once did.
HeldByNothing(s) == FALSE

\* The foreign key of ledger_entries restricts the deletion.
HeldByRows(s) == sale[s].rows # "none"

\* remove: the deletion, by id
FinishRemove(s) ==
  /\ s \in removing
  /\ removing' = removing \ {s}
  /\ IF HeldByRows(s)
     THEN Quiet /\ UNCHANGED <<sale, policy, previews, expired, execution, call>>
     ELSE Write(s, [NewSale EXCEPT !.status = "gone", !.rows = sale[s].rows], {"row"})

\* Settings, plans or members change.
SetPolicy(p) ==
  /\ p # policy
  /\ policy' = p
  /\ Quiet
  /\ UNCHANGED <<sale, previews, expired, execution, call, removing>>

\* What the server does with a call.
Serve(c) ==
  \/ Begin(c) \/ StopWaiting(c) \/ Check(c) \/ LockSales(c) \/ Execute(c)

Next ==
  \/ \E action \in Actions, scope \in Scopes : Preview(action, scope)
  \/ \E t \in previews : Expire(t)
  \/ \E c \in Calls, t \in previews, scope \in Scopes, k \in Keys : Send(c, t, scope, k)
  \/ \E c \in Calls : Serve(c) \/ SerializationFailure(c) \/ Abort(c)
  \/ \E s \in Sales :
       \/ Create(s)
       \/ \E own \in BOOLEAN : Approve(s, own)
       \/ Reapply(s)
       \/ Void(s)
       \/ MoveRows(s, "open", "processing")
       \/ MoveRows(s, "processing", "open")
       \/ StartRemove(s)
       \/ FinishRemove(s)
  \/ \E p \in Policies : SetPolicy(p)

Spec == Init /\ [][Next]_vars

-----------------------------------------------------------------------------
(***************************************************************************)
(* Properties.                                                             *)
(***************************************************************************)
Executes(k) == execution[k] = None /\ execution'[k] # None

\* The sale is approved as it was seen, without commission rows, and a repeated approval
\* may have written some since.
RowsMayHaveCome(s, seen) ==
  sale[s].status = "approved" /\ seen.status = "approved" /\ seen.rows = "none"

\* A bulk action does what its reviewer saw: when it commits, the sales it changes are
\* exactly those the preview counted as eligible, and an approval is computed from the
\* inputs of the preview, although sales, payouts and settings changed at any time since.
\* Each sale is still in the state that the preview showed, with one exception: a bulk
\* void does not notice commission rows that a repeated approval has written for a sale
\* that had none, and leaves them as they are.
ActedAsReviewed ==
  [][\A k \in Keys : Executes(k) =>
       LET t == execution'[k].request.token IN
       /\ {s \in Sales : sale'[s] # sale[s]} = t.review.eligible
       /\ \A s \in t.review.eligible :
            /\ \/ sale[s] = t.review.seen[s].sale
               \/ /\ RowsMayHaveCome(s, t.review.seen[s].sale)
                  /\ t.action = "void"
                  /\ sale'[s].rows = sale[s].rows
            /\ t.action = "approve" /\ sale'[s].rows # "none"
                 => sale'[s].policy = t.review.seen[s].inputs]_vars

\* What voidSaleInTx says of itself, and what does not hold of a bulk void: a void leaves
\* no commission row of the sale as it was.
VoidReversesAll ==
  \A s \in Sales : sale[s].status = "void" => sale[s].rows \in {"none", "reversed"}

\* Once the execution of a request has committed, its client is never told that the
\* request was refused: whenever it is sent again, it gets the stored response or an
\* error that says nothing, and two calls with one key do not both act.
AnsweredByExecution ==
  [][\A c \in Calls, k \in Keys :
       /\ call[c].phase # "idle"
       /\ call'[c].phase = "idle"
       /\ execution'[k] # None
       /\ Request(c) = execution'[k].request
       => /\ answer'.kind \in {"done", "error"}
          /\ answer'.kind = "done" => answer'.response = execution'[k].response]_vars

\* Whatever approvals run between the check and the deletion of a removal, commission
\* rows never lose their sale.
RowsKeepTheirSale == \A s \in Sales : sale[s].rows # "none" => sale[s].status # "gone"

\* The type invariant; withTxRetry makes at most MaxTries attempts.
TypeOK ==
  /\ sale \in [Sales -> Sale]
  /\ policy \in Policies
  /\ expired \subseteq previews
  /\ removing \subseteq Sales
  /\ \A c \in Calls : call[c].phase \in InTx \cup {"idle", "called"}
                    /\ call[c].tries \in 0..(MaxTries - 1)
=============================================================================
