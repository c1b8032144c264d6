-------------------------- MODULE NotificationRelay --------------------------
(***************************************************************************)
(* The outbox relay (apps/api/src/notifications/                           *)
(* notification-relay.service.ts).  Relays claim rows of notifications     *)
(* under a lease, dispatch them one after the other and record the outcome *)
(* if the lease is still theirs.  A relay may crash or stall at any step,  *)
(* and a lease may run out at any time.                                    *)
(*                                                                         *)
(* A lease token is a fresh UUID.  A claim also raises the attempts of the *)
(* row, so the number of the attempt names the token.                      *)
(***************************************************************************)
EXTENDS Integers, Sequences, FiniteSets

CONSTANTS
  Relays,
  Notes,        \* notifications, as numbers in the order of created_at
  MaxAttempts,  \* MAX_ATTEMPTS
  Batch         \* BATCH: how many rows a claim takes

ASSUME RelayAssumption ==
  /\ Notes \subseteq Nat
  /\ IsFiniteSet(Notes)
  /\ MaxAttempts \in Nat \ {0}
  /\ Batch \in Nat \ {0}

NoLease == 0

VARIABLES
  row,          \* notifications; due: available_at has passed
  relay,        \* what each relay does, with the rows it claimed
  dispatched    \* dispatched[n]: how often n went to its recipient

vars == <<row, relay, dispatched>>

Init ==
  /\ row = [n \in Notes |-> [status |-> "pending", attempts |-> 0, lease |-> NoLease,
                             due |-> TRUE]]
  /\ relay = [r \in Relays |-> [phase |-> "idle", items |-> <<>>]]
  /\ dispatched = [n \in Notes |-> 0]

-----------------------------------------------------------------------------
\* Mutant of ExpiredAtCap: the last attempt is not cleaned up.
NoneAtCap == {}

\* Rows whose last attempt was lost with its relay.
ExpiredAtCap ==
  {n \in Notes : row[n].status = "processing" /\ row[n].due /\ row[n].attempts >= MaxAttempts}

Available ==
  {n \in Notes : /\ row[n].status \in {"pending", "processing"}
                 /\ row[n].due
                 /\ row[n].attempts < MaxAttempts}

\* The first rows, up to the size of a batch.
Oldest(S) == {n \in S : Cardinality({m \in S : m < n}) < Batch}

Item(n) == [note |-> n, attempts |-> row[n].attempts + 1]
InOrder(order) == \A i, j \in DOMAIN order : i < j => order[i] < order[j]

\* claimPending, one transaction.
Claim(r) ==
  LET claimed == Oldest(Available) IN
  /\ relay[r].phase = "idle"
  /\ claimed \cup ExpiredAtCap # {}
  /\ row' = [n \in Notes |->
       IF n \in ExpiredAtCap
       THEN [row[n] EXCEPT !.status = "failed", !.lease = NoLease, !.due = FALSE]
       ELSE IF n \in claimed
       THEN [status |-> "processing", attempts |-> row[n].attempts + 1,
             lease |-> row[n].attempts + 1, due |-> FALSE]
       ELSE row[n]]
  /\ \E order \in [1..Cardinality(claimed) -> claimed] :
       /\ InOrder(order)
       /\ relay' = [relay EXCEPT ![r] =
            [phase |-> IF claimed = {} THEN "idle" ELSE "claimed",
             items |-> [i \in DOMAIN order |-> Item(order[i])]]]
  /\ UNCHANGED dispatched

Current(r) == Head(relay[r].items)

\* The relay is done with its item; with the last one it is idle again.
Rest(r) == Tail(relay[r].items)
NextItem(r) ==
  relay' = [relay EXCEPT ![r] =
    [phase |-> IF Rest(r) = <<>> THEN "idle" ELSE "claimed", items |-> Rest(r)]]

\* The lease of a claimed item runs until the available_at that its claim wrote; it
\* has passed if the row is due, or is no longer under this lease.
LeaseExpired(item) == row[item.note].lease # item.attempts \/ row[item.note].due

\* "lease expired before dispatch"
Skip(r) ==
  /\ relay[r].phase = "claimed"
  /\ LeaseExpired(Current(r))
  /\ NextItem(r)
  /\ UNCHANGED <<row, dispatched>>

StartDispatch(r) ==
  /\ relay[r].phase = "claimed"
  /\ ~LeaseExpired(Current(r))
  /\ relay' = [relay EXCEPT ![r].phase = "sending"]
  /\ UNCHANGED <<row, dispatched>>

\* The adapter accepts the message, or fails with or without having sent it.
Dispatch(r, sent, outcome) ==
  /\ relay[r].phase = "sending"
  /\ sent \/ outcome = "error"
  /\ dispatched' = [dispatched EXCEPT ![Current(r).note] = IF sent THEN @ + 1 ELSE @]
  /\ relay' = [relay EXCEPT ![r].phase = outcome]
  /\ UNCHANGED row

\* Mutants of Holds: the token is not compared; the row is updated by its id.
HoldsAny(r) == row[Current(r).note].status = "processing"
HoldsAlways(r) == TRUE

Holds(r) ==
  /\ row[Current(r).note].status = "processing"
  /\ row[Current(r).note].lease = Current(r).attempts

\* A result of a stale lease is ignored.
Record(r, new) ==
  /\ row' = IF Holds(r) THEN [row EXCEPT ![Current(r).note] = new] ELSE row
  /\ NextItem(r)
  /\ UNCHANGED dispatched

RecordSent(r) ==
  /\ relay[r].phase = "sent"
  /\ Record(r, [row[Current(r).note] EXCEPT !.status = "sent", !.lease = NoLease, !.due = FALSE])

\* The update to "sent" fails, and the catch block treats it as a failed delivery.
RecordSentFails(r) ==
  /\ relay[r].phase = "sent"
  /\ relay' = [relay EXCEPT ![r].phase = "error"]
  /\ UNCHANGED <<row, dispatched>>

\* Back to pending, with a delay, or failed after the last attempt.
RecordFailure(r) ==
  /\ relay[r].phase = "error"
  /\ Record(r, [status |-> IF Current(r).attempts >= MaxAttempts THEN "failed" ELSE "pending",
                attempts |-> Current(r).attempts, lease |-> NoLease, due |-> FALSE])

\* The process ends, or an error of the database leaves the rest of the batch.
Crash(r) ==
  /\ relay[r].phase # "idle"
  /\ relay' = [relay EXCEPT ![r] = [phase |-> "idle", items |-> <<>>]]
  /\ UNCHANGED <<row, dispatched>>

\* The available_at of a waiting or leased row passes.
TimePasses(n) ==
  /\ row[n].status \in {"pending", "processing"}
  /\ ~row[n].due
  /\ row' = [row EXCEPT ![n].due = TRUE]
  /\ UNCHANGED <<relay, dispatched>>

\* What a running relay does next.
Work(r) ==
  \/ Claim(r)
  \/ Skip(r)
  \/ StartDispatch(r)
  \/ \E sent \in BOOLEAN, outcome \in {"sent", "error"} : Dispatch(r, sent, outcome)
  \/ RecordSent(r)
  \/ RecordFailure(r)

Next ==
  \/ \E r \in Relays : Work(r) \/ RecordSentFails(r) \/ Crash(r)
  \/ \E n \in Notes : TimePasses(n)

Spec == Init /\ [][Next]_vars

\* The interval timer starts an idle relay, adapters return or throw, and time passes.
FairSpec ==
  /\ Spec
  /\ \A r \in Relays : WF_vars(Work(r))
  /\ \A n \in Notes : WF_vars(TimePasses(n))

-----------------------------------------------------------------------------
(***************************************************************************)
(* Properties.                                                             *)
(***************************************************************************)
Settled(n) == row[n].status \in {"sent", "failed"}

\* A recorded outcome is final: a relay that stalled or lost its lease does not
\* overwrite what a later claimant recorded.
OutcomeIsFinal == [][\A n \in Notes : Settled(n) => row'[n] = row[n]]_vars

\* Crashes, lost leases and late relays included, a notification goes out at most
\* MAX_ATTEMPTS times.
DispatchesAreBounded == \A n \in Notes : dispatched[n] <= MaxAttempts

\* Every notification ends as sent or failed, even if relays keep crashing: no row
\* stays claimed for ever.
EveryNotificationSettles == \A n \in Notes : <>Settled(n)
=============================================================================
