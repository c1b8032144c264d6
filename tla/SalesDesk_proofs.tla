--------------------------- MODULE SalesDesk_proofs ---------------------------
(***************************************************************************)
(* Theorems about SalesDesk, for any number of sales, calls, keys and      *)
(* previews.  A call in a transaction holds a review of its snapshot.  The *)
(* invariant says what the review is still worth: a sale whose rows nobody *)
(* has updated since the snapshot is as reviewed, but for commission rows  *)
(* that came to an approved sale without any; a call that has locked its   *)
(* sales keeps their rows, and a draft has nothing but its row.            *)
(***************************************************************************)
EXTENDS SalesDesk, TLAPS

Phases == InTx \cup {"idle", "called"}
Holding == {"begun", "checked", "locked"}

\* A sale that is not approved, or void, has no commission rows.
SaleOK(x) ==
  /\ x \in Sale
  /\ x.status \in {"new", "draft", "gone"} => x.rows = "none" /\ x.policy = None

\* The eligible sales of a review are in the state that makes them eligible.
ReviewOK(rv, action) ==
  /\ rv.eligible \subseteq Sales
  /\ \A s \in rv.eligible :
       /\ SaleOK(rv.seen[s].sale)
       /\ action = "approve" => /\ rv.seen[s].sale.status = "draft"
                                /\ rv.seen[s].inputs \in Policies
       /\ action = "void" => rv.seen[s].sale.status \in {"draft", "approved"}

TokenOK(t) == t.action \in Actions /\ ReviewOK(t.review, t.action)

\* From the first state of a sale to the second, commission rows may have come.
Joined(x, y) == x.status = "approved" /\ x.rows = "none" /\ y.status = "approved"

\* What nobody has updated is as reviewed.
StillTrue(rv, changed, table) ==
  \A s \in rv.eligible :
    /\ <<s, "row">> \notin changed => table[s].status = rv.seen[s].sale.status
    /\ <<s, "row">> \notin changed /\ <<s, "ledger">> \notin changed
         => table[s] = rv.seen[s].sale \/ Joined(rv.seen[s].sale, table[s])

\* A call, when the sales are those of the table and these tokens are signed.
CallOK(x, table, signed) ==
  /\ x = [phase |-> x.phase, request |-> x.request, tries |-> x.tries,
          review |-> x.review, changed |-> x.changed]
  /\ x.phase \in Phases
  /\ x.tries \in 0..(MaxTries - 1)
  /\ x.phase # "idle" => /\ x.request.token \in signed
                         /\ x.request.scope \in Scopes
                         /\ x.request.key \in Keys
  /\ x.phase \in InTx /\ x.review # None =>
       /\ ReviewOK(x.review, x.request.token.action)
       /\ StillTrue(x.review, x.changed, table)
  /\ x.phase \in {"checked", "locked"} =>
       x.review # None /\ x.review = x.request.token.review
  /\ x.phase = "locked" => \A s \in x.review.eligible : <<s, "row">> \notin x.changed

SalesInv ==
  /\ sale \in [Sales -> Sale]
  /\ \A s \in Sales : SaleOK(sale[s])

TokensInv == \A t \in previews : TokenOK(t)

CallsInv ==
  /\ call = [c \in Calls |-> call[c]]
  /\ \A c \in Calls : CallOK(call[c], sale, previews)

\* Calls that have locked sales have none in common.
LocksInv ==
  \A c, d \in Calls :
    c # d /\ call[c].phase = "locked" /\ call[d].phase = "locked"
      => call[c].review.eligible \cap call[d].review.eligible = {}

\* A key is held by one attempt, and only while it has no execution.
KeysInv ==
  /\ execution = [k \in Keys |-> execution[k]]
  /\ \A k \in Keys : execution[k] # None => execution[k].request.key = k
  /\ \A c \in Calls :
       call[c].phase \in Holding =>
         /\ execution[call[c].request.key] = None
         /\ \A d \in Calls : call[d].phase \in Holding
                             /\ call[d].request.key = call[c].request.key => c = d

Inv ==
  /\ policy \in Policies
  /\ expired \subseteq previews
  /\ removing \subseteq Sales
  /\ SalesInv /\ TokensInv /\ CallsInv /\ LocksInv /\ KeysInv

(***************************************************************************)
(* Reviews.                                                                *)
(***************************************************************************)

\* What calculateBulkReview finds is true when it is found.
LEMMA ReviewIsTrue ==
  ASSUME Inv, NEW action \in Actions, NEW scope \in Scopes
  PROVE  /\ ReviewOK(Review(action, scope), action)
         /\ StillTrue(Review(action, scope), {}, sale)
<1> DEFINE rv == Review(action, scope)
<1>1. InScope(scope) \subseteq Sales
  BY SalesAssumption DEF InScope
<1>2. rv.eligible = {s \in InScope(scope) : Eligible(action, s)}
  BY DEF Review
<1>3. \A s \in rv.eligible : rv.seen[s] = Material(action, s)
  BY <1>2 DEF Review
<1>4. \A s : /\ Material(action, s).sale = sale[s]
             /\ action = "approve" /\ Approvable(s) /\ policy.plan
                  => Material(action, s).inputs = policy
  BY Zenon DEF Material
<1> HIDE DEF rv
<1>5. \A s \in rv.eligible :
        /\ rv.seen[s].sale = sale[s]
        /\ action = "approve" => sale[s].status = "draft" /\ rv.seen[s].inputs = policy
  BY <1>2, <1>3, <1>4 DEF Eligible, Approvable
<1>6. \A s \in rv.eligible : action = "void" => sale[s].status \in {"draft", "approved"}
  BY <1>2 DEF Eligible
<1>7. rv.eligible \subseteq Sales
  BY <1>1, <1>2
<1>8. ReviewOK(rv, action)
  BY <1>5, <1>6, <1>7 DEF ReviewOK, Inv, SalesInv
<1>9. StillTrue(rv, {}, sale)
  BY <1>5 DEF StillTrue
<1> QED
  BY <1>8, <1>9 DEF rv

\* More tokens and the same sales leave a call as it is.
LEMMA CallStaysOK ==
  ASSUME NEW x, NEW table, NEW signed, NEW more, CallOK(x, table, signed),
         signed \subseteq more
  PROVE  CallOK(x, table, more)
BY DEF CallOK

(***************************************************************************)
(* The records of calls.                                                   *)
(***************************************************************************)
CallRecord(ph, q, n, rv, changed) ==
  [phase |-> ph, request |-> q, tries |-> n, review |-> rv, changed |-> changed]

\* A call that is sent has this record.
LEMMA SentCall ==
  ASSUME NEW q
  PROVE  [Idle EXCEPT !.phase = "called", !.request = q]
           = CallRecord("called", q, 0, None, {})
<1> DEFINE y == [Idle EXCEPT !.phase = "called"]
<1>1. y = CallRecord("called", None, 0, None, {})
  BY DEF Idle, CallRecord
<1> HIDE DEF y
<1>2. [y EXCEPT !.request = q] = CallRecord("called", q, 0, None, {})
  BY <1>1 DEF CallRecord
<1> QED
  BY <1>2 DEF y

\* A call that withTxRetry starts again has this record: it forgets its snapshot.
LEMMA RetriedCall ==
  ASSUME NEW q, NEW n
  PROVE  [Idle EXCEPT !.phase = "called", !.request = q, !.tries = n]
           = CallRecord("called", q, n, None, {})
<1> DEFINE y == [Idle EXCEPT !.phase = "called", !.request = q]
<1>1. y = CallRecord("called", q, 0, None, {})
  BY SentCall
<1> HIDE DEF y
<1>2. [y EXCEPT !.tries = n] = CallRecord("called", q, n, None, {})
  BY <1>1 DEF CallRecord
<1> QED
  BY <1>2 DEF y

\* Idle, and a call that is sent or sent again.
LEMMA IdleOK == \A table, signed : CallOK(Idle, table, signed)
BY SalesAssumption DEF CallOK, Idle, Phases, InTx

\* A call that has no snapshot yet relies on nothing.
LEMMA CalledOK ==
  ASSUME NEW table, NEW signed, NEW x, NEW q, NEW n \in 0..(MaxTries - 1),
         x = [phase |-> "called", request |-> q, tries |-> n, review |-> None, changed |-> {}],
         q.token \in signed, q.scope \in Scopes, q.key \in Keys
  PROVE  CallOK(x, table, signed)
BY DEF CallOK, Phases, InTx

(***************************************************************************)
(* Steps that change no sale.                                              *)
(***************************************************************************)

\* Steps that change no call either.
LEMMA ApartStep ==
  ASSUME Inv, UNCHANGED <<sale, call, execution>>, policy' \in Policies,
         previews \subseteq previews', TokensInv', expired' \subseteq previews',
         removing' \subseteq Sales
  PROVE  Inv'
<1>1. \A c \in Calls : CallOK(call[c], sale, previews')
  BY CallStaysOK DEF Inv, CallsInv
<1>2. CallsInv'
  BY <1>1 DEF Inv, CallsInv
<1>3. SalesInv' /\ LocksInv' /\ KeysInv'
  BY DEF Inv, SalesInv, LocksInv, KeysInv
<1> QED
  BY <1>2, <1>3 DEF Inv

\* A step of one call that ends well: the call is in order, and what it holds or locks it
\* alone holds or locks.
LEMMA CallStep ==
  ASSUME Inv, NEW c \in Calls, NEW x, call' = [call EXCEPT ![c] = x],
         UNCHANGED <<sale, policy, execution, removing>>,
         previews \subseteq previews', TokensInv', expired' = expired,
         CallOK(x, sale, previews'),
         x.phase \in Holding =>
           /\ execution[x.request.key] = None
           /\ \A d \in Calls \ {c} : call[d].phase \in Holding
                                      => call[d].request.key # x.request.key,
         x.phase = "locked" =>
           \A d \in Calls \ {c} : call[d].phase = "locked"
              => call[d].review.eligible \cap x.review.eligible = {}
  PROVE  Inv'
<1>1. \A d \in Calls : call'[d] = IF d = c THEN x ELSE call[d]
  BY DEF Inv, CallsInv
<1>2. call' = [d \in Calls |-> call'[d]]
  BY DEF Inv, CallsInv
<1>3. \A d \in Calls : CallOK(call[d], sale, previews')
  BY CallStaysOK DEF Inv, CallsInv
<1>4. CallsInv'
  BY <1>1, <1>2, <1>3 DEF CallsInv
<1>5. LocksInv'
  BY <1>1 DEF Inv, LocksInv
<1>6. KeysInv'
  BY <1>1 DEF Inv, KeysInv
<1>7. SalesInv' /\ expired' \subseteq previews'
  BY DEF Inv, SalesInv
<1> QED
  BY <1>4, <1>5, <1>6, <1>7 DEF Inv

\* The end of a call, with whatever answer, preserves the invariant.
LEMMA AnswerStep ==
  ASSUME Inv, NEW c \in Calls, NEW a, Answer(c, a),
         UNCHANGED <<sale, policy, expired, execution, removing>>,
         previews \subseteq previews', TokensInv'
  PROVE  Inv'
<1>1. call' = [call EXCEPT ![c] = Idle]
  BY DEF Answer
<1>2. Idle.phase = "idle" /\ CallOK(Idle, sale, previews')
  BY IdleOK DEF Idle
<1> QED
  BY <1>1, <1>2, CallStep DEF Holding

\* Another attempt of withTxRetry preserves the invariant.
LEMMA RetryStep ==
  ASSUME Inv, NEW c \in Calls, call[c].phase # "idle", Retry(c),
         UNCHANGED <<sale, policy, previews, expired, execution, removing>>
  PROVE  Inv'
<1>1. TokensInv'
  BY DEF Inv, TokensInv
<1>2. CASE LastTry(c)
  BY <1>1, <1>2, AnswerStep DEF Retry
<1>3. CASE ~LastTry(c)
  <2> DEFINE x == [phase |-> "called", request |-> Request(c), tries |-> call[c].tries + 1,
                   review |-> None, changed |-> {}]
  <2>1. call' = [call EXCEPT ![c] = x]
    BY <1>3, RetriedCall DEF Retry, CallRecord
  <2>2. CallOK(call[c], sale, previews)
    BY DEF Inv, CallsInv
  <2>3. call[c].tries + 1 \in 0..(MaxTries - 1)
    BY <1>3, <2>2, SalesAssumption DEF CallOK, LastTry
  <2>4. /\ Request(c).token \in previews' /\ Request(c).scope \in Scopes
        /\ Request(c).key \in Keys
    BY <2>2 DEF CallOK, Request
  <2>5. CallOK(x, sale, previews')
    BY <2>3, <2>4, CalledOK
  <2>6. x.phase = "called"
    OBVIOUS
  <2> HIDE DEF x
  <2> QED
    BY <1>1, <2>1, <2>5, <2>6, CallStep DEF Holding
<1> QED
  BY <1>2, <1>3

\* Sending a bulk request preserves the invariant.
LEMMA SendStep ==
  ASSUME Inv, NEW c \in Calls, NEW t \in previews, NEW scope \in Scopes, NEW k \in Keys,
         Send(c, t, scope, k)
  PROVE  Inv'
<1> DEFINE q == [token |-> t, scope |-> scope, key |-> k]
           x == [phase |-> "called", request |-> q, tries |-> 0,
                 review |-> None, changed |-> {}]
<1>1. call' = [call EXCEPT ![c] = x]
  BY SentCall DEF Send, CallRecord
<1>2. 0 \in 0..(MaxTries - 1)
  BY SalesAssumption
<1>3. UNCHANGED <<sale, policy, previews, expired, execution, removing>> /\ TokensInv'
  BY DEF Send, Inv, TokensInv
<1>4. CallOK(x, sale, previews') /\ x.phase = "called"
  BY <1>2, <1>3, CalledOK
<1> HIDE DEF x
<1> QED
  BY <1>1, <1>3, <1>4, CallStep DEF Holding

\* The parts of a call before its step.
LEMMA CallParts ==
  ASSUME Inv, NEW c \in Calls
  PROVE  /\ CallOK(call[c], sale, previews)
         /\ call[c].phase # "idle" =>
              /\ Request(c).token \in previews /\ TokenOK(Request(c).token)
              /\ Request(c).scope \in Scopes
              /\ Key(c) \in Keys
         /\ \A d \in Calls : call[d].phase \in Holding /\ Key(d) = Key(c) =>
              d \in Holders(Key(c))
BY DEF Inv, CallsInv, TokensInv, CallOK, Request, Key, Holders, Holding

\* The first statement of an attempt, which takes its key and its snapshot, preserves the invariant.
LEMMA BeginStep ==
  ASSUME Inv, NEW c \in Calls, Begin(c)
  PROVE  Inv'
<1>1. /\ UNCHANGED <<sale, policy, previews, expired, execution, removing>>
      /\ TokensInv'
      /\ call[c].phase = "called"
  BY DEF Begin, Inv, TokensInv
<1>2. Accepted(Request(c).token)
  BY <1>1, CallParts DEF Accepted
<1>3. CASE execution[Key(c)] # None
  BY <1>1, <1>2, <1>3, AnswerStep DEF Begin
<1>4. CASE execution[Key(c)] = None
  <2> DEFINE action == Request(c).token.action
             rv == IF Reviewable(Request(c).scope)
                   THEN Review(action, Request(c).scope) ELSE None
             ph == IF Holders(Key(c)) = {} THEN "begun" ELSE "waiting"
             x == [phase |-> ph, request |-> call[c].request, tries |-> call[c].tries,
                   review |-> rv, changed |-> {}]
  <2>1. CallOK(call[c], sale, previews) /\ call[c].phase # "idle"
    BY <1>1, CallParts
  <2>2. call' = [call EXCEPT ![c].phase = ph, ![c].review = rv, ![c].changed = {}]
    BY <1>2, <1>4 DEF Begin
  <2>3. call' = [call EXCEPT ![c] = x]
    <3> HIDE DEF rv, ph
    <3>1. call = [d \in Calls |-> call[d]]
      BY DEF Inv, CallsInv
    <3>2. [call EXCEPT ![c].phase = ph, ![c].review = rv, ![c].changed = {}]
            = [call EXCEPT ![c] = [call[c] EXCEPT !.phase = ph, !.review = rv, !.changed = {}]]
      <4> DEFINE g == [call EXCEPT ![c].phase = ph, ![c].review = rv, ![c].changed = {}]
      <4>1. /\ g[c] = [call[c] EXCEPT !.phase = ph, !.review = rv, !.changed = {}]
            /\ \A d \in Calls \ {c} : g[d] = call[d]
            /\ g = [d \in Calls |-> g[d]]
        BY <3>1
      <4> HIDE DEF g
      <4>2. g = [call EXCEPT ![c] = [call[c] EXCEPT !.phase = ph, !.review = rv, !.changed = {}]]
        BY <3>1, <4>1
      <4> QED
        BY <4>2 DEF g
    <3>3. [call[c] EXCEPT !.phase = ph, !.review = rv, !.changed = {}] = x
      <4> DEFINE y == [call[c] EXCEPT !.phase = ph]
                 z == [y EXCEPT !.review = rv]
      <4>1. y = CallRecord(ph, call[c].request, call[c].tries, call[c].review, call[c].changed)
        BY <2>1 DEF CallOK, CallRecord
      <4> HIDE DEF y
      <4>2. z = CallRecord(ph, call[c].request, call[c].tries, rv, call[c].changed)
        BY <4>1 DEF CallRecord
      <4> HIDE DEF z
      <4>3. [z EXCEPT !.changed = {}] = x
        BY <4>2 DEF CallRecord
      <4> HIDE DEF x
      <4> QED
        BY <4>3 DEF y, z
    <3> QED
      BY <2>2, <3>2, <3>3
  <2>4. rv # None => ReviewOK(rv, action) /\ StillTrue(rv, {}, sale)
    BY <1>1, CallParts, ReviewIsTrue DEF TokenOK
  <2>5. ph \in {"begun", "waiting"}
    OBVIOUS
  <2>6. ph \in Holding => \A d \in Calls \ {c} : call[d].phase \in Holding
                                                  => call[d].request.key # call[c].request.key
    BY CallParts DEF Holding, Key, Request
  <2>7. action = call[c].request.token.action
    BY DEF Request
  <2> HIDE DEF rv, ph, action
  <2>8. CallOK(x, sale, previews')
    BY <1>1, <2>1, <2>4, <2>5, <2>7 DEF CallOK, Phases, InTx
  <2>9. x.phase = ph /\ x.request = call[c].request
    OBVIOUS
  <2> HIDE DEF x
  <2> QED
    BY <1>1, <1>4, <2>3, <2>5, <2>6, <2>8, <2>9, CallStep DEF Key, Request
<1> QED
  BY <1>3, <1>4

\* A call goes on to another phase of its transaction.
LEMMA PhaseStep ==
  ASSUME Inv, NEW c \in Calls, NEW ph \in Holding, call[c].phase \in InTx,
         call' = [call EXCEPT ![c].phase = ph],
         UNCHANGED <<sale, policy, previews, expired, execution, removing>>,
         call[c].phase \in Holding
           \/ (execution[Key(c)] = None /\ Holders(Key(c)) = {}),
         ph # "begun" => call[c].review # None /\ call[c].review = Request(c).token.review,
         ph = "locked" =>
           \A s \in Targets(c) : <<s, "row">> \notin call[c].changed /\ ~Locked(s)
  PROVE  Inv'
<1> DEFINE x == [phase |-> ph, request |-> call[c].request, tries |-> call[c].tries,
                 review |-> call[c].review, changed |-> call[c].changed]
<1>1. CallOK(call[c], sale, previews) /\ call[c].phase # "idle"
  BY CallParts DEF InTx
<1>2. call' = [call EXCEPT ![c] = x]
  <2>1. call = [d \in Calls |-> call[d]]
    BY DEF Inv, CallsInv
  <2>2. [call EXCEPT ![c].phase = ph] = [call EXCEPT ![c] = [call[c] EXCEPT !.phase = ph]]
    BY <2>1
  <2>3. [call[c] EXCEPT !.phase = ph] = x
    BY <1>1 DEF CallOK
  <2> QED
    BY <2>2, <2>3
<1>3. CallOK(x, sale, previews')
  BY <1>1 DEF CallOK, Phases, InTx, Holding, Request, Targets
<1>4. /\ execution[call[c].request.key] = None
      /\ \A d \in Calls \ {c} : call[d].phase \in Holding
                                 => call[d].request.key # call[c].request.key
  BY CallParts DEF Inv, KeysInv, Key, Request
<1>5. ph = "locked" => \A d \in Calls \ {c} : call[d].phase = "locked"
        => call[d].review.eligible \cap call[c].review.eligible = {}
  BY DEF Locked, Targets
<1>6. x.phase = ph /\ x.request = call[c].request /\ x.review = call[c].review
  OBVIOUS
<1>7. TokensInv'
  BY DEF Inv, TokensInv
<1> HIDE DEF x
<1>8. x.phase \in Holding =>
        /\ execution[x.request.key] = None
        /\ \A d \in Calls \ {c} : call[d].phase \in Holding
                                   => call[d].request.key # x.request.key
  BY <1>4, <1>6
<1>9. x.phase = "locked" =>
        \A d \in Calls \ {c} : call[d].phase = "locked"
           => call[d].review.eligible \cap x.review.eligible = {}
  BY <1>5, <1>6
<1>10. previews \subseteq previews' /\ UNCHANGED <<sale, policy, execution, removing>>
       /\ expired' = expired
  OBVIOUS
<1> QED
  BY <1>2, <1>3, <1>7, <1>8, <1>9, <1>10, CallStep

\* A call that no longer waits for the holder of its key preserves the invariant.
LEMMA StopWaitingStep ==
  ASSUME Inv, NEW c \in Calls, StopWaiting(c)
  PROVE  Inv'
<1>1. /\ UNCHANGED <<sale, policy, previews, expired, execution, removing>>
      /\ call[c].phase = "waiting" /\ Holders(Key(c)) = {}
  BY DEF StopWaiting
<1>2. CASE execution[Key(c)] = None
  BY <1>1, <1>2, PhaseStep DEF StopWaiting, Holding, InTx
<1>3. CASE execution[Key(c)] # None
  BY <1>1, <1>3, RetryStep DEF StopWaiting
<1> QED
  BY <1>2, <1>3

\* A refused call gets a token for the review of its own snapshot.
LEMMA SignedTokenOK ==
  ASSUME NEW action \in Actions, NEW scope, NEW rv, ReviewOK(rv, action)
  PROVE  TokenOK(Sign(action, scope, rv))
<1>1. Sign(action, scope, rv).action = action /\ Sign(action, scope, rv).review = rv
  BY DEF Sign
<1> QED
  BY <1>1 DEF TokenOK

\* The comparison of the request with its signed review preserves the invariant.
LEMMA CheckStep ==
  ASSUME Inv, NEW c \in Calls, Check(c)
  PROVE  Inv'
<1> DEFINE t == Request(c).token
           next == Sign(t.action, Request(c).scope, call[c].review)
<1>1. /\ UNCHANGED <<sale, policy, expired, execution, removing>>
      /\ call[c].phase = "begun"
  BY DEF Check
<1>2. CASE UNCHANGED previews /\ \E a : Answer(c, a)
  <2>1. TokensInv'
    BY <1>2 DEF Inv, TokensInv
  <2> QED
    BY <1>1, <1>2, <2>1, AnswerStep
<1>3. CASE /\ call[c].review # None
           /\ Answer(c, Refusal("review_required"))
           /\ previews' = IF next.n > MaxPreviews THEN previews ELSE previews \cup {next}
  <2>1. ReviewOK(call[c].review, t.action) /\ t.action \in Actions
    BY <1>1, <1>3, CallParts DEF CallOK, InTx, TokenOK, Request
  <2>2. TokenOK(next)
    BY <2>1, SignedTokenOK
  <2> HIDE DEF next
  <2>3. previews \subseteq previews' /\ TokensInv'
    BY <1>3, <2>2 DEF Inv, TokensInv
  <2> QED
    BY <1>1, <1>3, <2>3, AnswerStep
<1>4. CASE /\ call[c].review # None
           /\ Matches(c)
           /\ call' = [call EXCEPT ![c].phase = "checked"]
           /\ UNCHANGED previews
  BY <1>1, <1>4, PhaseStep DEF Holding, InTx, Matches
<1> QED
  BY <1>2, <1>3, <1>4 DEF Check

\* Locking the sales to be changed preserves the invariant.
LEMMA LockStep ==
  ASSUME Inv, NEW c \in Calls, LockSales(c)
  PROVE  Inv'
<1>1. /\ UNCHANGED <<sale, policy, previews, expired, execution, removing>>
      /\ call[c].phase = "checked"
      /\ \A s \in Targets(c) : ~Locked(s)
  BY DEF LockSales
<1>2. CASE Stale(c, "row")
  BY <1>1, <1>2, RetryStep DEF LockSales
<1>3. CASE ~Stale(c, "row")
  <2>1. \A s \in Targets(c) : <<s, "row">> \notin call[c].changed
    BY <1>3 DEF Stale, InSnapshot, Lines
  <2>2. call[c].review # None /\ call[c].review = Request(c).token.review
    BY <1>1, CallParts DEF CallOK, Request
  <2>3. call' = [call EXCEPT ![c].phase = "locked"]
    BY <1>3 DEF LockSales
  <2> QED
    BY <1>1, <2>1, <2>2, <2>3, PhaseStep DEF Holding, InTx
<1> QED
  BY <1>2, <1>3

\* A serialization failure or an abort preserves the invariant.
LEMMA FailureStep ==
  ASSUME Inv, NEW c \in Calls, SerializationFailure(c) \/ Abort(c)
  PROVE  Inv'
<1>1. /\ UNCHANGED <<sale, policy, previews, expired, execution, removing>>
      /\ TokensInv'
  BY DEF SerializationFailure, Abort, Inv, TokensInv
<1>2. CASE SerializationFailure(c)
  BY <1>1, <1>2, RetryStep DEF SerializationFailure, InTx
<1>3. CASE Abort(c)
  BY <1>1, <1>3, AnswerStep DEF Abort
<1> QED
  BY <1>2, <1>3

\* Previews, their expiry, edits of settings and the read of a removal preserve the invariant.
LEMMA DeskStep ==
  ASSUME Inv,
         \/ \E action \in Actions, scope \in Scopes : Preview(action, scope)
         \/ \E t \in previews : Expire(t)
         \/ \E p \in Policies : SetPolicy(p)
         \/ \E s \in Sales : StartRemove(s)
         \/ UNCHANGED vars
  PROVE  Inv'
<1>1. ASSUME NEW action \in Actions, NEW scope \in Scopes, Preview(action, scope)
      PROVE  Inv'
  <2>1. TokenOK(Sign(action, scope, Review(action, scope)))
    BY ReviewIsTrue, SignedTokenOK
  <2>2. previews \subseteq previews' /\ TokensInv'
    BY <1>1, <2>1 DEF Preview, Inv, TokensInv
  <2> QED
    BY <1>1, <2>2, ApartStep DEF Preview, Inv
<1>2. ASSUME \/ \E t \in previews : Expire(t)
             \/ \E p \in Policies : SetPolicy(p)
             \/ \E s \in Sales : StartRemove(s)
             \/ UNCHANGED vars
      PROVE  Inv'
  <2>1. UNCHANGED <<sale, call, execution, previews>> /\ TokensInv'
    BY <1>2 DEF Expire, SetPolicy, StartRemove, vars, Inv, TokensInv
  <2>2. policy' \in Policies /\ expired' \subseteq previews' /\ removing' \subseteq Sales
    BY <1>2 DEF Expire, SetPolicy, StartRemove, vars, Inv
  <2> QED
    BY <2>1, <2>2, ApartStep
<1> QED
  BY <1>1, <1>2

(***************************************************************************)
(* Steps that change sales.                                                *)
(***************************************************************************)

Marked(x, rows) ==
  IF x.phase \in InTx THEN [x EXCEPT !.changed = x.changed \cup rows] ELSE x

\* The rows cover what is different between two tables.
Covers(rows, old, new) ==
  \A s \in Sales :
    /\ <<s, "row">> \notin rows => new[s].status = old[s].status
    /\ <<s, "row">> \notin rows /\ <<s, "ledger">> \notin rows
         => new[s] = old[s] \/ Joined(old[s], new[s])

\* They are not rows that the call has locked.
Spares(x, rows) ==
  x.phase = "locked" => \A s \in x.review.eligible : <<s, "row">> \notin rows

\* A call that is told of the rows that a commit has changed stays in order, as the rows
\* cover what is different and are not those that it has locked.
LEMMA MarkedCall ==
  ASSUME NEW x, NEW y, NEW old, NEW new, NEW rows, CallOK(x, old, previews),
         y = Marked(x, rows), Covers(rows, old, new), Spares(x, rows)
  PROVE  /\ CallOK(y, new, previews)
         /\ y.phase = x.phase /\ y.request = x.request /\ y.review = x.review
<1>1. CASE x.phase \notin InTx
  BY <1>1 DEF CallOK, InTx, Marked
<1>2. CASE x.phase \in InTx
  <2>1. x = [phase |-> x.phase, request |-> x.request, tries |-> x.tries,
             review |-> x.review, changed |-> x.changed]
    BY DEF CallOK
  <2>2. y = [phase |-> x.phase, request |-> x.request, tries |-> x.tries,
             review |-> x.review, changed |-> x.changed \cup rows]
    BY <1>2, <2>1 DEF Marked
  <2>3. /\ y.phase = x.phase /\ y.request = x.request /\ y.review = x.review
        /\ y.tries = x.tries /\ y.changed = x.changed \cup rows
    BY <2>2
  <2>4. ASSUME x.review # None
        PROVE  StillTrue(y.review, y.changed, new)
    <3>1. StillTrue(x.review, x.changed, old) /\ x.review.eligible \subseteq Sales
      BY <1>2, <2>4 DEF CallOK, ReviewOK
    <3>2. ASSUME NEW s \in x.review.eligible,
                 <<s, "row">> \notin x.changed \cup rows, <<s, "ledger">> \notin x.changed \cup rows
          PROVE  new[s] = x.review.seen[s].sale \/ Joined(x.review.seen[s].sale, new[s])
      <4>1. old[s] = x.review.seen[s].sale \/ Joined(x.review.seen[s].sale, old[s])
        BY <3>1, <3>2 DEF StillTrue
      <4>2. new[s] = old[s] \/ Joined(old[s], new[s])
        BY <3>1, <3>2 DEF Covers
      <4> QED
        BY <4>1, <4>2 DEF Joined
    <3>3. ASSUME NEW s \in x.review.eligible, <<s, "row">> \notin x.changed \cup rows
          PROVE  new[s].status = x.review.seen[s].sale.status
      BY <3>1, <3>3 DEF StillTrue, Covers
    <3> QED
      BY <2>3, <3>2, <3>3 DEF StillTrue
  <2>5. y = [phase |-> y.phase, request |-> y.request, tries |-> y.tries,
             review |-> y.review, changed |-> y.changed]
    BY <2>2, <2>3
  <2>6. x.phase = "locked" => \A s \in y.review.eligible : <<s, "row">> \notin y.changed
    BY <2>3 DEF CallOK, Spares
  <2> QED
    BY <1>2, <2>3, <2>4, <2>5, <2>6 DEF CallOK
<1> QED
  BY <1>1, <1>2

CallsOK(cl) ==
  /\ cl = [d \in Calls |-> cl[d]]
  /\ \A d \in Calls : CallOK(cl[d], sale, previews)

AllSpared(cl, rows) == \A d \in Calls : Spares(cl[d], rows)

\* The calls after a commit that changes these rows.
LEMMA MarkedCalls ==
  ASSUME NEW cl, NEW rows, CallsOK(cl),
         call' = Changing(rows, cl), previews' = previews,
         Covers(rows, sale, sale'), AllSpared(cl, rows)
  PROVE  /\ CallsInv'
         /\ \A d \in Calls : /\ call'[d].phase = cl[d].phase
                             /\ call'[d].request = cl[d].request
                             /\ call'[d].review = cl[d].review
<1>1. \A d \in Calls :
        call'[d] = IF cl[d].phase \in InTx
                   THEN [cl[d] EXCEPT !.changed = cl[d].changed \cup rows] ELSE cl[d]
  BY DEF Changing
<1>2. call' = [d \in Calls |-> call'[d]]
  BY DEF Changing
<1>3. ASSUME NEW d \in Calls
      PROVE  /\ CallOK(call'[d], sale', previews')
             /\ call'[d].phase = cl[d].phase
             /\ call'[d].request = cl[d].request
             /\ call'[d].review = cl[d].review
  <2>1. CallOK(cl[d], sale, previews) /\ Spares(cl[d], rows)
    BY DEF CallsOK, AllSpared
  <2>2. call'[d] = Marked(cl[d], rows)
    BY <1>1 DEF Marked
  <2> QED
    BY <2>1, <2>2, MarkedCall
<1> QED
  BY <1>2, <1>3 DEF CallsInv

\* A transaction that changes one sale: to a sale in order, whose status changes only with
\* its row, which no call has locked.
LEMMA OneSaleStep ==
  ASSUME Inv, NEW s \in Sales, NEW row, NEW parts, SaleOK(row),
         sale' = [sale EXCEPT ![s] = row],
         call' = Changing(Lines({s}, parts), call),
         UNCHANGED <<policy, previews, expired, execution>>, removing' \subseteq Sales,
         \/ "row" \in parts
         \/ "ledger" \in parts /\ row.status = sale[s].status
         \/ Joined(sale[s], row),
         "row" \in parts => ~Locked(s)
  PROVE  Inv'
<1> DEFINE rows == Lines({s}, parts)
<1>1. \A u, part : <<u, part>> \in rows <=> u = s /\ part \in parts
  BY DEF Lines
<1>2. sale \in [Sales -> Sale]
  BY DEF Inv, SalesInv
<1>3. \A u \in Sales : sale'[u] = IF u = s THEN row ELSE sale[u]
  BY <1>2
<1>4. SalesInv'
  BY <1>2, <1>3 DEF Inv, SalesInv, SaleOK
<1>5. AllSpared(call, rows)
  BY <1>1 DEF Locked, Targets, Spares, AllSpared
<1>6. Covers(rows, sale, sale')
  BY <1>1, <1>3 DEF Covers, Joined
<1> HIDE DEF rows
<1>7. /\ CallsInv'
      /\ \A d \in Calls : /\ call'[d].phase = call[d].phase
                          /\ call'[d].request = call[d].request
                          /\ call'[d].review = call[d].review
  <2>1. call' = Changing(rows, call)
    BY DEF rows
  <2>2. CallsOK(call)
    BY DEF Inv, CallsInv, CallsOK
  <2>3. previews' = previews
    OBVIOUS
  <2> QED
    BY <1>5, <1>6, <2>1, <2>2, <2>3, MarkedCalls
<1>8. LocksInv' /\ KeysInv'
  <2>1. LocksInv'
    BY <1>7 DEF Inv, LocksInv
  <2>2. execution' = execution
    OBVIOUS
  <2>3. KeysInv'
    BY <1>7, <2>2 DEF Inv, KeysInv
  <2> QED
    BY <2>1, <2>3
<1>9. TokensInv'
  BY DEF Inv, TokensInv
<1> QED
  BY <1>4, <1>7, <1>8, <1>9 DEF Inv
\* A sale is its three columns.
SaleRecord(status, rows, p) == [status |-> status, rows |-> rows, policy |-> p]

\* A sale is its three columns.
LEMMA SaleColumns ==
  ASSUME NEW x \in Sale
  PROVE  x = SaleRecord(x.status, x.rows, x.policy)
BY DEF Sale, SaleRecord

\* What an approval (approveSaleInTx, applyCommissionsInTx) makes of a sale.
LEMMA ApprovedSale ==
  ASSUME NEW x \in Sale, NEW p \in Policies
  PROVE  /\ Approved(x, p) = SaleRecord("approved", IF p.lines THEN "open" ELSE "none",
                                        IF p.lines THEN p ELSE None)
         /\ SaleOK(Approved(x, p))
         /\ Approved(x, p).status = "approved"
         /\ Approved(x, p).rows # "none" => Approved(x, p).policy = p
<1> DEFINE pol == IF p.lines THEN p ELSE None
           rws == IF p.lines THEN "open" ELSE "none"
           y == [x EXCEPT !.status = "approved"]
           z == [y EXCEPT !.policy = pol]
<1>1. x = SaleRecord(x.status, x.rows, x.policy)
  BY SaleColumns
<1>2. pol \in Policies \cup {None} /\ rws \in {"none", "open"} /\ (rws # "none" => pol = p)
  OBVIOUS
<1>3. Approved(x, p) = [x EXCEPT !.status = "approved", !.policy = pol, !.rows = rws]
  BY DEF Approved
<1> HIDE DEF pol, rws
<1>4. y = SaleRecord("approved", x.rows, x.policy)
  BY <1>1 DEF SaleRecord
<1> HIDE DEF y
<1>5. z = SaleRecord("approved", x.rows, pol)
  BY <1>4 DEF SaleRecord
<1> HIDE DEF z
<1>6. [z EXCEPT !.rows = rws] = SaleRecord("approved", rws, pol)
  BY <1>5 DEF SaleRecord
<1>7. Approved(x, p) = SaleRecord("approved", rws, pol)
  BY <1>3, <1>6 DEF y, z
<1>8. SaleRecord("approved", rws, pol) \in Sale
  BY <1>2 DEF SaleRecord, Sale, Statuses
<1>9. /\ SaleRecord("approved", rws, pol).status = "approved"
      /\ SaleRecord("approved", rws, pol).rows = rws
      /\ SaleRecord("approved", rws, pol).policy = pol
  BY DEF SaleRecord
<1>10. SaleOK(Approved(x, p))
  BY <1>7, <1>8, <1>9 DEF SaleOK
<1> QED
  BY <1>2, <1>7, <1>9, <1>10 DEF pol, rws

\* What voidSaleInTx makes of it, whatever rows it finds.
LEMMA VoidedSale ==
  ASSUME NEW x \in Sale, NEW found
  PROVE  /\ SaleOK(Voided(x, found)) /\ Voided(x, found).status = "void"
         /\ found = "none" => Voided(x, found).rows = x.rows
<1> DEFINE pol == IF found = "none" THEN x.policy ELSE None
           rws == IF found = "none" THEN x.rows ELSE "reversed"
           y == [x EXCEPT !.status = "void"]
           z == [y EXCEPT !.policy = pol]
<1>1. x = SaleRecord(x.status, x.rows, x.policy)
  BY SaleColumns
<1>2. /\ rws \in {"none", "open", "processing", "reversed"}
      /\ pol \in Policies \cup {None}
  BY DEF Sale
<1>3. y = SaleRecord("void", x.rows, x.policy)
  BY <1>1 DEF SaleRecord
<1>4. y.rows = x.rows /\ y.policy = x.policy
  BY <1>3 DEF SaleRecord
<1>5. Voided(x, found) = [x EXCEPT !.status = "void", !.policy = pol, !.rows = rws]
  BY DEF Voided
<1> HIDE DEF pol, rws, y
<1>6. z = SaleRecord("void", x.rows, pol)
  BY <1>3 DEF SaleRecord
<1> HIDE DEF z
<1>7. [z EXCEPT !.rows = rws] = SaleRecord("void", rws, pol)
  BY <1>6 DEF SaleRecord
<1>8. Voided(x, found) = SaleRecord("void", rws, pol)
  BY <1>5, <1>7 DEF y, z
<1>9. /\ SaleRecord("void", rws, pol) \in Sale
      /\ SaleRecord("void", rws, pol).status = "void" /\ SaleRecord("void", rws, pol).rows = rws
  BY <1>2 DEF SaleRecord, Sale, Statuses
<1>10. found = "none" => rws = x.rows
  BY DEF rws
<1> QED
  BY <1>8, <1>9, <1>10 DEF SaleOK

\* A new sale and one that is gone.
LEMMA BareSales ==
  /\ SaleOK([NewSale EXCEPT !.status = "draft"])
  /\ SaleOK([NewSale EXCEPT !.status = "gone", !.rows = "none"])
<1>1. [NewSale EXCEPT !.status = "draft"] = SaleRecord("draft", "none", None)
  BY DEF NewSale, SaleRecord
<1> DEFINE y == [NewSale EXCEPT !.status = "gone"]
<1>2. y = SaleRecord("gone", "none", None)
  BY DEF NewSale, SaleRecord
<1> HIDE DEF y
<1>3. [y EXCEPT !.rows = "none"] = SaleRecord("gone", "none", None)
  BY <1>2 DEF SaleRecord
<1>4. [NewSale EXCEPT !.status = "gone", !.rows = "none"] = SaleRecord("gone", "none", None)
  BY <1>3 DEF y
<1>5. \A st \in {"draft", "gone"} : SaleOK(SaleRecord(st, "none", None))
  BY DEF SaleOK, SaleRecord, Sale, Statuses
<1> QED
  BY <1>1, <1>4, <1>5

\* Single actions of the desk and of settlement batches.
LEMMA SingleStep ==
  ASSUME Inv, NEW s \in Sales,
         \/ Create(s) \/ Reapply(s) \/ Void(s) \/ FinishRemove(s)
         \/ \E own \in BOOLEAN : Approve(s, own)
         \/ MoveRows(s, "open", "processing") \/ MoveRows(s, "processing", "open")
  PROVE  Inv'
<1>1. sale[s] \in Sale /\ SaleOK(sale[s]) /\ policy \in Policies /\ removing \subseteq Sales
  BY DEF Inv, SalesInv
<1>2. CASE Create(s)
  <2>1. Write(s, [NewSale EXCEPT !.status = "draft"], {"row"}) /\ removing' \subseteq Sales
    BY <1>1, <1>2 DEF Create
  <2> QED
    BY <2>1, BareSales, OneSaleStep DEF Write
<1>3. CASE Reapply(s)
  <2>1. /\ Write(s, Approved(sale[s], policy), {}) /\ removing' \subseteq Sales
        /\ sale[s].status = "approved" /\ sale[s].rows = "none"
    BY <1>1, <1>3 DEF Reapply
  <2>2. SaleOK(Approved(sale[s], policy)) /\ Joined(sale[s], Approved(sale[s], policy))
    BY <1>1, <2>1, ApprovedSale DEF Joined
  <2>3. "row" \notin {}
    OBVIOUS
  <2> QED
    BY <2>1, <2>2, <2>3, OneSaleStep DEF Write
<1>4. CASE Void(s)
  BY <1>1, <1>4, VoidedSale, OneSaleStep DEF Void, Write
<1>5. ASSUME NEW own \in BOOLEAN, Approve(s, own)
      PROVE  Inv'
  BY <1>1, <1>5, ApprovedSale, OneSaleStep DEF Approve, Write
<1>6. CASE FinishRemove(s) /\ HeldByRows(s)
  <2>1. UNCHANGED <<sale, call, execution, policy, previews, expired>>
        /\ removing' \subseteq Sales
    BY <1>1, <1>6 DEF FinishRemove
  <2>2. TokensInv' /\ policy' \in Policies /\ expired' \subseteq previews'
    BY <2>1 DEF Inv, TokensInv
  <2> QED
    BY <2>1, <2>2, ApartStep
<1>7. CASE FinishRemove(s) /\ ~HeldByRows(s)
  <2>1. sale[s].rows = "none"
    BY <1>7 DEF HeldByRows
  <2>2. Write(s, [NewSale EXCEPT !.status = "gone", !.rows = "none"], {"row"})
        /\ removing' \subseteq Sales
    BY <1>1, <1>7, <2>1 DEF FinishRemove
  <2> QED
    BY <2>2, BareSales, OneSaleStep DEF Write
<1>8. ASSUME NEW from \in {"open", "processing"}, NEW to \in {"open", "processing"},
             MoveRows(s, from, to)
      PROVE  Inv'
  <2>1. PICK x \in Sale : x = [sale[s] EXCEPT !.rows = to]
    BY <1>1 DEF Sale
  <2>2. x.status = sale[s].status
    BY <1>1, <2>1 DEF Sale
  <2>3. SaleOK(x)
    BY <1>1, <1>8, <2>2 DEF MoveRows, SaleOK
  <2>4. sale' = [sale EXCEPT ![s] = x]
    BY <1>8, <2>1 DEF MoveRows, Inv, SalesInv
  <2> QED
    <3>1. /\ call' = Changing(Lines({s}, {"ledger"}), call)
          /\ UNCHANGED <<policy, previews, expired, execution, removing>>
      BY <1>8 DEF MoveRows
    <3>2. "ledger" \in {"ledger"} /\ "row" \notin {"ledger"} /\ removing' \subseteq Sales
      BY <1>1, <3>1
    <3> QED
      BY <1>1, <2>2, <2>3, <2>4, <3>1, <3>2, OneSaleStep
<1> QED
  BY <1>2, <1>3, <1>4, <1>5, <1>6, <1>7, <1>8

\* The sale is as it was seen, or a void leaves the commission rows that have come.
AsSeen(s, seen, action, after) ==
  \/ sale[s] = seen
  \/ RowsMayHaveCome(s, seen) /\ action = "void" /\ after.rows = sale[s].rows

\* When a call executes, the sales it locked are as reviewed: nobody has updated their
\* rows, and a draft, or a sale whose commission rows are locked too, has nothing else.
\* The exception is an approved sale that had no commission rows to lock.
LEMMA TargetsAreAsReviewed ==
  ASSUME Inv, NEW c \in Calls, call[c].phase = "locked",
         ~(Request(c).token.action = "void" /\ Stale(c, "ledger"))
  PROVE  /\ Request(c).token.action \in Actions
         /\ call[c].review = Request(c).token.review
         /\ Targets(c) \subseteq Sales
         /\ \A s \in Targets(c) :
              /\ AsSeen(s, call[c].review.seen[s].sale, Request(c).token.action, Acted(c, s))
              /\ SaleOK(Acted(c, s))
              /\ Acted(c, s) # sale[s]
              /\ Request(c).token.action = "approve" /\ Acted(c, s).rows # "none"
                   => Acted(c, s).policy = call[c].review.seen[s].inputs
<1> DEFINE rv == call[c].review
           action == Request(c).token.action
<1>1. CallOK(call[c], sale, previews) /\ TokenOK(Request(c).token)
  BY CallParts
<1>2. /\ action \in Actions
      /\ rv = Request(c).token.review
      /\ ReviewOK(rv, action)
      /\ StillTrue(rv, call[c].changed, sale)
      /\ \A s \in rv.eligible : <<s, "row">> \notin call[c].changed
  BY <1>1 DEF CallOK, TokenOK, InTx, Request
<1>3. Targets(c) = rv.eligible
  BY DEF Targets
<1>4. action = "void" => \A s \in rv.eligible :
        rv.seen[s].sale.rows # "none" => <<s, "ledger">> \notin call[c].changed
  BY <1>3 DEF Stale, InSnapshot, Lines
<1>5. rv.eligible \subseteq Sales
  BY <1>2 DEF ReviewOK
<1>6. ASSUME NEW s \in rv.eligible
      PROVE  /\ AsSeen(s, rv.seen[s].sale, action, Acted(c, s))
             /\ SaleOK(Acted(c, s))
             /\ Acted(c, s) # sale[s]
             /\ action = "approve" /\ Acted(c, s).rows # "none"
                  => Acted(c, s).policy = rv.seen[s].inputs
  <2>1. /\ sale[s] \in Sale /\ SaleOK(sale[s]) /\ SaleOK(rv.seen[s].sale)
        /\ sale[s].status = rv.seen[s].sale.status
    BY <1>2, <1>5 DEF Inv, SalesInv, ReviewOK, StillTrue
  <2>2. CASE action = "approve"
    <3>1. sale[s].status = "draft" /\ rv.seen[s].inputs \in Policies
      BY <1>2, <2>1, <2>2 DEF ReviewOK
    <3>2. sale[s] = SaleRecord("draft", "none", None)
      BY <2>1, <3>1, SaleColumns DEF SaleOK
    <3>3. rv.seen[s].sale = SaleRecord("draft", "none", None)
      BY <2>1, <3>1, SaleColumns DEF SaleOK
    <3>4. Acted(c, s) = Approved(sale[s], rv.seen[s].inputs)
      BY <2>2 DEF Acted
    <3>5. /\ SaleOK(Acted(c, s)) /\ Acted(c, s).status = "approved"
          /\ Acted(c, s).rows # "none" => Acted(c, s).policy = rv.seen[s].inputs
      BY <2>1, <3>1, <3>4, ApprovedSale
    <3> QED
      BY <3>1, <3>2, <3>3, <3>5 DEF AsSeen
  <2>3. CASE action = "void"
    <3>1. sale[s].status \in {"draft", "approved"}
      BY <1>2, <2>1, <2>3 DEF ReviewOK
    <3>2. Acted(c, s) = Voided(sale[s], rv.seen[s].sale.rows)
      BY <2>3 DEF Acted
    <3>3. SaleOK(Acted(c, s)) /\ Acted(c, s).status = "void"
      BY <2>1, <3>2, VoidedSale
    <3>4. CASE rv.seen[s].sale.rows # "none"
      BY <1>2, <1>4, <2>3, <3>1, <3>3, <3>4 DEF StillTrue, Joined, AsSeen
    <3>5. CASE rv.seen[s].sale.rows = "none" /\ sale[s].status = "approved"
      <4>1. Acted(c, s).rows = sale[s].rows
        BY <2>1, <3>2, <3>5, VoidedSale
      <4> QED
        BY <2>1, <2>3, <3>1, <3>3, <3>5, <4>1 DEF RowsMayHaveCome, AsSeen
    <3>6. CASE sale[s].status = "draft"
      <4>1. sale[s] = SaleRecord("draft", "none", None)
        BY <2>1, <3>6, SaleColumns DEF SaleOK
      <4>2. rv.seen[s].sale = SaleRecord("draft", "none", None)
        BY <2>1, <3>6, SaleColumns DEF SaleOK
      <4> QED
        BY <2>3, <3>1, <3>3, <4>1, <4>2 DEF AsSeen
    <3> QED
      BY <3>1, <3>4, <3>5, <3>6
  <2> QED
    BY <1>2, <2>2, <2>3 DEF Actions
<1> QED
  BY <1>2, <1>3, <1>5, <1>6

\* The execution of a bulk action preserves the invariant.
LEMMA ExecuteStep ==
  ASSUME Inv, NEW c \in Calls, Execute(c)
  PROVE  Inv'
<1> DEFINE e == [request |-> Request(c),
                 response |-> [succeeded |-> Targets(c),
                               failed |-> DOMAIN call[c].review.seen \ Targets(c)]]
           cl == [call EXCEPT ![c] = Idle]
           rows == Lines(Targets(c), {"row", "ledger"})
<1>1. /\ call[c].phase = "locked"
      /\ UNCHANGED <<policy, previews, expired, removing>>
  BY DEF Execute
<1>2. CASE Request(c).token.action = "void" /\ Stale(c, "ledger")
  BY <1>1, <1>2, RetryStep DEF Execute
<1>3. CASE ~(Request(c).token.action = "void" /\ Stale(c, "ledger"))
  <2>1. /\ sale' = [s \in Sales |-> IF s \in Targets(c) THEN Acted(c, s) ELSE sale[s]]
        /\ execution' = [execution EXCEPT ![Key(c)] = e]
        /\ call' = Changing(rows, cl)
    BY <1>3 DEF Execute
  <2>2. /\ Targets(c) \subseteq Sales
        /\ \A s \in Targets(c) : SaleOK(Acted(c, s))
    BY <1>1, <1>3, TargetsAreAsReviewed
  <2>3. SalesInv'
    BY <2>1, <2>2 DEF Inv, SalesInv, SaleOK
  <2>4. \A s, part : <<s, part>> \in rows <=> s \in Targets(c) /\ part \in {"row", "ledger"}
    BY DEF Lines
  <2>5. \A d \in Calls : cl[d] = IF d = c THEN Idle ELSE call[d]
    BY DEF Inv, CallsInv
  <2>6. cl = [d \in Calls |-> cl[d]]
    BY DEF Inv, CallsInv
  <2>7. e.request.key = Key(c) /\ Key(c) \in Keys
    BY <1>1, CallParts DEF Key
  <2> HIDE DEF e, cl, rows
  <2>8. CallsOK(cl)
    BY <2>5, <2>6, IdleOK DEF CallsOK, Inv, CallsInv
  <2>9. Idle.phase = "idle"
    BY DEF Idle
  <2>10. AllSpared(cl, rows)
    BY <1>1, <2>4, <2>5, <2>9 DEF AllSpared, Spares, Targets, Inv, LocksInv
  <2>11. Covers(rows, sale, sale')
    BY <2>1, <2>4 DEF Covers
  <2>12. /\ CallsInv'
         /\ \A d \in Calls : /\ call'[d].phase = cl[d].phase
                             /\ call'[d].request = cl[d].request
                             /\ call'[d].review = cl[d].review
    BY <1>1, <2>1, <2>8, <2>10, <2>11, MarkedCalls
  <2>13. \A d \in Calls : call'[d].phase \in Holding \cup {"locked"} =>
           /\ d # c
           /\ call'[d].phase = call[d].phase
           /\ call'[d].request = call[d].request
           /\ call'[d].review = call[d].review
    BY <2>5, <2>9, <2>12 DEF Holding
  <2>14. LocksInv'
    BY <2>13 DEF Inv, LocksInv
  <2>15. \A d \in Calls : call'[d].phase \in Holding => call'[d].request.key # Key(c)
    BY <1>1, <2>13 DEF Inv, KeysInv, Holding, Key, Request
  <2>16. /\ execution' = [k \in Keys |-> execution'[k]]
         /\ \A k \in Keys : execution'[k] = IF k = Key(c) THEN e ELSE execution[k]
    BY <2>1 DEF Inv, KeysInv
  <2>17. \A d \in Calls : call'[d].phase \in Holding => call'[d].request.key \in Keys
    BY <2>12 DEF CallsInv, CallOK, Holding
  <2>18. KeysInv'
    <3>1. \A k \in Keys : execution'[k] # None => execution'[k].request.key = k
      BY <2>7, <2>16 DEF Inv, KeysInv
    <3>2. ASSUME NEW d \in Calls, call'[d].phase \in Holding
          PROVE  execution'[call'[d].request.key] = None
      <4>1. call[d].phase \in Holding /\ call'[d].request = call[d].request
        BY <2>13, <3>2
      <4>2. execution[call[d].request.key] = None
        BY <4>1 DEF Inv, KeysInv
      <4> QED
        BY <2>15, <2>16, <2>17, <3>2, <4>1, <4>2
    <3>3. ASSUME NEW d \in Calls, NEW f \in Calls,
                 call'[d].phase \in Holding, call'[f].phase \in Holding,
                 call'[f].request.key = call'[d].request.key
          PROVE  d = f
      BY <2>13, <3>3 DEF Inv, KeysInv
    <3> QED
      BY <2>16, <3>1, <3>2, <3>3 DEF KeysInv
  <2> QED
    BY <1>1, <2>3, <2>12, <2>14, <2>18 DEF Inv, TokensInv
<1> QED
  BY <1>2, <1>3
(***************************************************************************)
(* The theorems.                                                           *)
(***************************************************************************)
LEMMA InvInitially == Init => Inv
<1> SUFFICES ASSUME Init
             PROVE  Inv
  OBVIOUS
<1>1. SaleOK(NewSale)
  BY DEF SaleOK, NewSale, Sale, Statuses
<1>2. SalesInv
  BY <1>1 DEF Init, SalesInv, SaleOK
<1>3. call = [c \in Calls |-> call[c]] /\ \A c \in Calls : call[c] = Idle
  BY DEF Init
<1>4. Idle.phase = "idle"
  BY DEF Idle
<1>5. CallsInv
  BY <1>3, IdleOK DEF CallsInv
<1>6. LocksInv
  BY <1>3, <1>4 DEF LocksInv
<1>7. execution = [k \in Keys |-> execution[k]] /\ \A k \in Keys : execution[k] = None
  BY DEF Init
<1>8. KeysInv
  BY <1>3, <1>4, <1>7 DEF KeysInv, Holding
<1> QED
  BY <1>2, <1>5, <1>6, <1>8 DEF Init, Inv, TokensInv

\* Every step preserves the invariant.
LEMMA InvIsInductive == Inv /\ [Next]_vars => Inv'
<1> SUFFICES ASSUME Inv, [Next]_vars
             PROVE  Inv'
  OBVIOUS
<1>1. CASE \/ \E action \in Actions, scope \in Scopes : Preview(action, scope)
           \/ \E t \in previews : Expire(t)
           \/ \E p \in Policies : SetPolicy(p)
           \/ \E s \in Sales : StartRemove(s)
           \/ UNCHANGED vars
  BY <1>1, DeskStep
<1>2. ASSUME NEW c \in Calls, NEW t \in previews, NEW scope \in Scopes, NEW k \in Keys,
             Send(c, t, scope, k)
      PROVE  Inv'
  BY <1>2, SendStep
<1>3. ASSUME NEW c \in Calls, Serve(c)
      PROVE  Inv'
  BY <1>3, BeginStep, StopWaitingStep, CheckStep, LockStep, ExecuteStep DEF Serve
<1>4. ASSUME NEW c \in Calls, SerializationFailure(c) \/ Abort(c)
      PROVE  Inv'
  BY <1>4, FailureStep
<1>5. ASSUME NEW s \in Sales,
             \/ Create(s) \/ Reapply(s) \/ Void(s) \/ FinishRemove(s)
             \/ \E own \in BOOLEAN : Approve(s, own)
             \/ MoveRows(s, "open", "processing") \/ MoveRows(s, "processing", "open")
      PROVE  Inv'
  BY <1>5, SingleStep
<1> QED
  BY <1>1, <1>2, <1>3, <1>4, <1>5 DEF Next

\* The invariant holds in every reachable state.
LEMMA InvAlways == Spec => []Inv
<1>1. Inv /\ [Next]_vars => Inv'
  BY InvIsInductive
<1> QED
  BY <1>1, InvInitially, PTL DEF Spec

\* Sales, settings and calls stay well typed, and withTxRetry makes at most MaxTries
\* attempts.
THEOREM TypeCorrect == Spec => []TypeOK
<1>1. Inv => TypeOK
  BY DEF Inv, SalesInv, CallsInv, CallOK, Phases, TypeOK
<1> QED
  BY <1>1, InvAlways, PTL

\* However a removal, which checks and deletes in two steps, meets approvals and bulk
\* actions, commission rows keep their sale.
THEOREM RowsKeepTheirSaleHolds == Spec => []RowsKeepTheirSale
<1>1. Inv => RowsKeepTheirSale
  BY DEF Inv, SalesInv, SaleOK, RowsKeepTheirSale
<1> QED
  BY <1>1, InvAlways, PTL

\* Only the commit of a bulk action stores an execution, under its own key.
LEMMA WhoExecutes ==
  ASSUME Inv, [Next]_vars, NEW k \in Keys, execution'[k] # execution[k]
  PROVE  \E c \in Calls :
           /\ Execute(c) /\ k = Key(c)
           /\ ~(Request(c).token.action = "void" /\ Stale(c, "ledger"))
<1>1. ASSUME NEW s \in Sales,
             \/ Create(s) \/ Reapply(s) \/ Void(s) \/ FinishRemove(s) \/ StartRemove(s)
             \/ \E own \in BOOLEAN : Approve(s, own)
             \/ MoveRows(s, "open", "processing") \/ MoveRows(s, "processing", "open")
      PROVE  execution' = execution
  BY <1>1 DEF Create, Reapply, Void, FinishRemove, StartRemove, Approve, MoveRows, Write
<1>2. ASSUME NEW c \in Calls,
             \/ Begin(c) \/ StopWaiting(c) \/ Check(c) \/ LockSales(c)
             \/ SerializationFailure(c) \/ Abort(c)
      PROVE  execution' = execution
  BY <1>2 DEF Begin, StopWaiting, Check, LockSales, SerializationFailure, Abort
<1>3. ASSUME \/ \E action \in Actions, scope \in Scopes : Preview(action, scope)
             \/ \E t \in previews : Expire(t)
             \/ \E c \in Calls, t \in previews, scope \in Scopes, j \in Keys : Send(c, t, scope, j)
             \/ \E p \in Policies : SetPolicy(p)
             \/ UNCHANGED vars
      PROVE  execution' = execution
  BY <1>3 DEF Preview, Expire, Send, SetPolicy, vars
<1>4. PICK c \in Calls : Execute(c)
  BY <1>1, <1>2, <1>3 DEF Next, Serve
<1>5. ~(Request(c).token.action = "void" /\ Stale(c, "ledger"))
  BY <1>4 DEF Execute
<1>6. k = Key(c)
  BY <1>4, <1>5 DEF Execute, Inv, KeysInv
<1> QED
  BY <1>4, <1>5, <1>6

\* A commit changes exactly what was reviewed, as it was reviewed.
LEMMA ActedStep ==
  ASSUME Inv, [Next]_vars, NEW k \in Keys, Executes(k)
  PROVE  LET t == execution'[k].request.token IN
         /\ {s \in Sales : sale'[s] # sale[s]} = t.review.eligible
         /\ \A s \in t.review.eligible :
              /\ \/ sale[s] = t.review.seen[s].sale
                 \/ /\ RowsMayHaveCome(s, t.review.seen[s].sale)
                    /\ t.action = "void"
                    /\ sale'[s].rows = sale[s].rows
              /\ t.action = "approve" /\ sale'[s].rows # "none"
                   => sale'[s].policy = t.review.seen[s].inputs
<1>1. PICK c \in Calls :
        /\ Execute(c) /\ k = Key(c)
        /\ ~(Request(c).token.action = "void" /\ Stale(c, "ledger"))
  BY WhoExecutes DEF Executes
<1>2. /\ call[c].phase = "locked"
      /\ sale' = [s \in Sales |-> IF s \in Targets(c) THEN Acted(c, s) ELSE sale[s]]
      /\ execution' = [execution EXCEPT ![Key(c)] =
           [request |-> Request(c),
            response |-> [succeeded |-> Targets(c),
                          failed |-> DOMAIN call[c].review.seen \ Targets(c)]]]
  BY <1>1 DEF Execute
<1>3. execution'[k].request = Request(c)
  BY <1>1, <1>2 DEF Inv, KeysInv
<1>4. call[c].review = Request(c).token.review /\ Targets(c) = call[c].review.eligible
  BY <1>1, <1>2, TargetsAreAsReviewed DEF Targets
<1> QED
  BY <1>1, <1>2, <1>3, <1>4, TargetsAreAsReviewed DEF AsSeen

\* A bulk action changes exactly the sales that its reviewer saw as eligible, each still as
\* reviewed, and approves with the inputs of the review, for any number of sales and calls,
\* retries and previews.  Only commission rows that came to an approved sale without any
\* escape a bulk void, which then leaves them alone.
THEOREM ActedAsReviewedHolds == Spec => ActedAsReviewed
<1>1. Inv /\ [Next]_vars =>
        [\A k \in Keys : Executes(k) =>
           LET t == execution'[k].request.token IN
           /\ {s \in Sales : sale'[s] # sale[s]} = t.review.eligible
           /\ \A s \in t.review.eligible :
                /\ \/ sale[s] = t.review.seen[s].sale
                   \/ /\ RowsMayHaveCome(s, t.review.seen[s].sale)
                      /\ t.action = "void"
                      /\ sale'[s].rows = sale[s].rows
                /\ t.action = "approve" /\ sale'[s].rows # "none"
                     => sale'[s].policy = t.review.seen[s].inputs]_vars
  BY ActedStep
<1> QED
  BY <1>1, InvAlways, PTL DEF Spec, ActedAsReviewed

\* A retry that ends the call answers with an error.
LEMMA RetryAnswers ==
  ASSUME Inv, NEW c \in Calls, Retry(c), call'[c].phase = "idle"
  PROVE  answer'.kind = "error"
<1>1. CASE LastTry(c)
  BY <1>1 DEF Retry, Answer, Refusal
<1>2. CASE ~LastTry(c)
  <2> DEFINE x == [Idle EXCEPT !.phase = "called", !.request = Request(c),
                               !.tries = call[c].tries + 1]
  <2>1. x = CallRecord("called", Request(c), call[c].tries + 1, None, {})
    BY RetriedCall
  <2>2. call' = [call EXCEPT ![c] = x]
    BY <1>2 DEF Retry
  <2> HIDE DEF x
  <2>3. x.phase = "called"
    BY <2>1 DEF CallRecord
  <2> QED
    BY <2>2, <2>3 DEF Inv, CallsInv
<1> QED
  BY <1>1, <1>2

\* Whoever ends a call that is not answered by its own service, answers with an error.
LEMMA Ended ==
  ASSUME Inv, [Next]_vars, NEW c \in Calls, call[c].phase # "idle", call'[c].phase = "idle"
  PROVE  \/ Serve(c)
         \/ answer'.kind = "error"
<1>1. CallOK(call[c], sale, previews) /\ call = [d \in Calls |-> call[d]]
  BY DEF Inv, CallsInv
<1>2. ASSUME NEW rows, call' = Changing(rows, call)
      PROVE  FALSE
  <2>1. call'[c] = IF call[c].phase \in InTx
                   THEN [call[c] EXCEPT !.changed = @ \cup rows] ELSE call[c]
    BY <1>2 DEF Changing
  <2>2. call'[c].phase = call[c].phase
    BY <1>1, <2>1 DEF CallOK
  <2> QED
    BY <2>2
<1>3. ASSUME NEW s \in Sales,
             \/ Create(s) \/ Reapply(s) \/ Void(s) \/ FinishRemove(s) \/ StartRemove(s)
             \/ \E own \in BOOLEAN : Approve(s, own)
             \/ MoveRows(s, "open", "processing") \/ MoveRows(s, "processing", "open")
      PROVE  FALSE
  <2>1. call' = call \/ \E rows : call' = Changing(rows, call)
    BY <1>3 DEF Create, Reapply, Void, FinishRemove, StartRemove, Approve, MoveRows, Write
  <2> QED
    BY <1>2, <2>1
<1>4. ASSUME \/ \E action \in Actions, scope \in Scopes : Preview(action, scope)
             \/ \E t \in previews : Expire(t)
             \/ \E p \in Policies : SetPolicy(p)
             \/ UNCHANGED vars
      PROVE  FALSE
  BY <1>4 DEF Preview, Expire, SetPolicy, vars
<1>5. ASSUME NEW d \in Calls, NEW t \in previews, NEW scope \in Scopes, NEW k \in Keys,
             Send(d, t, scope, k)
      PROVE  FALSE
  <2>1. c # d
    BY <1>5 DEF Send
  <2>2. call'[c] = call[c]
    BY <1>1, <1>5, <2>1 DEF Send
  <2> QED
    BY <2>2
<1>6. ASSUME NEW d \in Calls, d # c, Serve(d) \/ SerializationFailure(d) \/ Abort(d)
      PROVE  FALSE
  <2>1. CASE Execute(d) /\ ~(Request(d).token.action = "void" /\ Stale(d, "ledger"))
    <3> DEFINE cl == [call EXCEPT ![d] = Idle]
               rows == Lines(Targets(d), {"row", "ledger"})
    <3>1. call' = Changing(rows, cl)
      BY <2>1 DEF Execute
    <3>2. cl[c] = call[c]
      BY <1>1, <1>6
    <3> HIDE DEF cl, rows
    <3>3. call'[c] = IF call[c].phase \in InTx
                     THEN [call[c] EXCEPT !.changed = @ \cup rows] ELSE call[c]
      BY <3>1, <3>2 DEF Changing
    <3>4. call'[c].phase = call[c].phase
      BY <1>1, <3>3 DEF CallOK
    <3> QED
      BY <3>4
  <2>2. CASE ~(Execute(d) /\ ~(Request(d).token.action = "void" /\ Stale(d, "ledger")))
    <3>1. call'[c] = call[c]
      BY <1>1, <1>6, <2>2 DEF Serve, Begin, StopWaiting, Check, LockSales, Execute,
         SerializationFailure, Abort, Retry, Answer
    <3> QED
      BY <3>1
  <2> QED
    BY <2>1, <2>2
<1>7. ASSUME SerializationFailure(c) \/ Abort(c)
      PROVE  answer'.kind = "error"
  <2>1. CASE Abort(c)
    BY <2>1 DEF Abort, Answer, Refusal
  <2>2. CASE SerializationFailure(c)
    BY <2>2, RetryAnswers DEF SerializationFailure
  <2> QED
    BY <1>7, <2>1, <2>2
<1> QED
  BY <1>3, <1>4, <1>5, <1>6, <1>7 DEF Next

\* A call that ends after its request was executed gets the stored response or an error.
LEMMA AnsweredStep ==
  ASSUME Inv, [Next]_vars, NEW c \in Calls, NEW k \in Keys,
         call[c].phase # "idle", call'[c].phase = "idle",
         execution'[k] # None, Request(c) = execution'[k].request
  PROVE  /\ answer'.kind \in {"done", "error"}
         /\ answer'.kind = "done" => answer'.response = execution'[k].response
<1>1. Key(c) = k
  BY InvIsInductive DEF Inv, KeysInv, Key
<1>2. CASE answer'.kind = "error"
  BY <1>2
<1>3. CASE Begin(c)
  <2>1. execution' = execution /\ Accepted(Request(c).token)
    BY <1>3, CallParts DEF Begin, Accepted
  <2>2. Answer(c, Done(execution[k]))
    BY <1>1, <1>3, <2>1 DEF Begin
  <2>3. answer'.kind = "done" /\ answer'.response = execution[k].response
    BY <2>2 DEF Answer, Done
  <2> QED
    BY <2>1, <2>3
<1>4. CASE StopWaiting(c)
  <2>1. CASE execution[Key(c)] = None
    BY <1>1, <1>4, <2>1 DEF StopWaiting
  <2>2. CASE execution[Key(c)] # None
    BY <1>4, <2>2, RetryAnswers DEF StopWaiting
  <2> QED
    BY <2>1, <2>2
<1>5. CASE Check(c)
  <2>1. call[c].phase = "begun" /\ execution' = execution
    BY <1>5 DEF Check
  <2>2. execution[Key(c)] = None
    BY <2>1 DEF Inv, KeysInv, Holding, Key, Request
  <2> QED
    BY <1>1, <2>1, <2>2
<1>6. CASE LockSales(c)
  <2>1. call[c].phase = "checked" /\ execution' = execution
    BY <1>6 DEF LockSales
  <2>2. execution[Key(c)] = None
    BY <2>1 DEF Inv, KeysInv, Holding, Key, Request
  <2> QED
    BY <1>1, <2>1, <2>2
<1>7. CASE Execute(c)
  <2>1. CASE Request(c).token.action = "void" /\ Stale(c, "ledger")
    BY <1>7, <2>1, RetryAnswers DEF Execute
  <2>2. CASE ~(Request(c).token.action = "void" /\ Stale(c, "ledger"))
    <3> DEFINE e == [request |-> Request(c),
                     response |-> [succeeded |-> Targets(c),
                                   failed |-> DOMAIN call[c].review.seen \ Targets(c)]]
    <3>1. /\ execution' = [execution EXCEPT ![Key(c)] = e]
          /\ answer' = [to |-> c, kind |-> "done", response |-> e.response]
      BY <1>7, <2>2 DEF Execute
    <3> HIDE DEF e
    <3>2. execution'[k] = e
      BY <1>1, <3>1 DEF Inv, KeysInv
    <3> QED
      BY <3>1, <3>2
  <2> QED
    BY <2>1, <2>2
<1> QED
  BY <1>2, <1>3, <1>4, <1>5, <1>6, <1>7, Ended DEF Serve

\* Once a bulk action has committed, whoever sends its request again gets the stored
\* response or an error that says nothing, for any number of calls, keys and retries.
THEOREM AnsweredByExecutionHolds == Spec => AnsweredByExecution
<1>1. Inv /\ [Next]_vars =>
        [\A c \in Calls, k \in Keys :
           /\ call[c].phase # "idle"
           /\ call'[c].phase = "idle"
           /\ execution'[k] # None
           /\ Request(c) = execution'[k].request
           => /\ answer'.kind \in {"done", "error"}
              /\ answer'.kind = "done" => answer'.response = execution'[k].response]_vars
  BY AnsweredStep
<1> QED
  BY <1>1, InvAlways, PTL DEF Spec, AnsweredByExecution

================================================================================
