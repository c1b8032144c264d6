----------------------------- MODULE PeriodLocks -----------------------------
(***************************************************************************)
(* Inside the transactions that period locks order: assertPeriodsOpen of   *)
(* EngineService, the retry wrapper of its transactions, and lock and      *)
(* unlock of PeriodsService, as steps that interleave.                     *)
(*                                                                         *)
(* A transaction calls assertPeriodsOpen once (approval, award), once for  *)
(* each member (reservation) or once for each sale (bulk approval).  Each  *)
(* call takes the advisory locks of its months in order and then reads     *)
(* period_locks: the committed table in a READ COMMITTED transaction, the  *)
(* snapshot of the first statement in a SERIALIZABLE one.  The locks are   *)
(* held until the transaction ends.                                        *)
(***************************************************************************)
EXTENDS Integers, Sequences, FiniteSetsExt

CONSTANTS
  Txs,          \* transactions of the engine
  Admins,       \* sessions that lock and unlock months
  Months,       \* months, as numbers in the order of their keys
  Calls,        \* Calls[t]: the sets of months of t's calls of assertPeriodsOpen
  Serializable, \* the transactions with that isolation level: bulk actions
  MaxTxRetries, \* MAX_TX_RETRIES
  NoOne

ASSUME PeriodAssumption ==
  /\ Months \subseteq Nat
  /\ Txs \cap Admins = {}
  /\ NoOne \notin Txs \cup Admins
  /\ Calls \in [Txs -> Seq(SUBSET Months)]
  /\ Serializable \subseteq Txs
  /\ MaxTxRetries \in Nat \ {0}

Idle == [op |-> "idle", month |-> NoOne]
Jobs == {Idle} \cup [op: {"lock", "unlock"}, month: Months]

VARIABLES
  tx,           \* tx[t]: status, attempt, current call, months still to lock, snapshot
  holder,       \* holder[mo]: who holds the advisory lock of a month
  job,          \* job[a]: the operation that admin a performs
  lockTable,    \* period_locks, as committed
  posted        \* posted[t]: the months that the commit of t posted to

vars == <<tx, holder, job, lockTable, posted>>

Statuses == {"ready", "running", "committed", "refused"}
Tx == [status: Statuses, attempt: Nat, call: Nat \ {0},
       wanted: SUBSET Months, snapshot: SUBSET Months]

TypeOK ==
  /\ tx \in [Txs -> Tx]
  /\ holder \in [Months -> Txs \cup Admins \cup {NoOne}]
  /\ job \in [Admins -> Jobs]
  /\ lockTable \in SUBSET Months
  /\ posted \in [Txs -> SUBSET Months]

Init ==
  /\ tx = [t \in Txs |-> [status |-> "ready", attempt |-> 0, call |-> 1,
                          wanted |-> {}, snapshot |-> {}]]
  /\ holder = [mo \in Months |-> NoOne]
  /\ job = [a \in Admins |-> Idle]
  /\ lockTable = {}
  /\ posted = [t \in Txs |-> {}]

-----------------------------------------------------------------------------
Running(t) == tx[t].status = "running"
CallsLeft(t) == tx[t].call <= Len(Calls[t])
MonthsOf(t) == UNION {Calls[t][i] : i \in DOMAIN Calls[t]}
WantedAt(t, call) == IF call <= Len(Calls[t]) THEN Calls[t][call] ELSE {}

\* What a read of period_locks in t returns.
View(t) == IF t \in Serializable THEN tx[t].snapshot ELSE lockTable

\* What a transaction keeps of its first statement.
Snapshot(t) == IF t \in Serializable THEN lockTable ELSE {}

\* Mutant of Released: a lock of the session survives the transaction.
ReleasedNothing(who) == holder

\* pg_advisory_xact_lock: the end of a transaction frees its locks.
Released(who) == [mo \in Months |-> IF holder[mo] = who THEN NoOne ELSE holder[mo]]

\* The transaction starts, with its snapshot.
Begin(t) ==
  /\ tx[t].status = "ready"
  /\ tx' = [tx EXCEPT ![t] = [status |-> "running", attempt |-> tx[t].attempt + 1, call |-> 1,
                              wanted |-> WantedAt(t, 1), snapshot |-> Snapshot(t)]]
  /\ UNCHANGED <<holder, job, lockTable, posted>>

\* One pg_advisory_xact_lock of the sorted months; it waits for the holder.
Acquire(t) ==
  LET mo == Min(tx[t].wanted)
  IN
  /\ Running(t)
  /\ tx[t].wanted # {}
  /\ holder[mo] \in {NoOne, t}
  /\ holder' = [holder EXCEPT ![mo] = t]
  /\ tx' = [tx EXCEPT ![t].wanted = @ \ {mo}]
  /\ UNCHANGED <<job, lockTable, posted>>

Passes(t) == View(t) \cap Calls[t][tx[t].call] = {}

\* The read of period_locks passes, and the writes that depend on it follow.
CheckOpen(t) ==
  /\ Running(t)
  /\ CallsLeft(t)
  /\ tx[t].wanted = {}
  /\ Passes(t)
  /\ tx' = [tx EXCEPT ![t].call = @ + 1, ![t].wanted = WantedAt(t, tx[t].call + 1)]
  /\ UNCHANGED <<holder, job, lockTable, posted>>

\* The transaction rolls back and is not tried again.
Abandon(t) ==
  /\ tx' = [tx EXCEPT ![t].status = "refused", ![t].wanted = {}]
  /\ holder' = Released(t)
  /\ UNCHANGED <<job, lockTable, posted>>

\* "period is locked"
Refuse(t) ==
  /\ Running(t)
  /\ CallsLeft(t)
  /\ tx[t].wanted = {}
  /\ ~Passes(t)
  /\ Abandon(t)

Commit(t) ==
  /\ Running(t)
  /\ ~CallsLeft(t)
  /\ posted' = [posted EXCEPT ![t] = MonthsOf(t)]
  /\ tx' = [tx EXCEPT ![t].status = "committed"]
  /\ holder' = Released(t)
  /\ UNCHANGED <<job, lockTable>>

\* withTxRetry: a transient error rolls back; the last attempt gives up.
Retry(t) ==
  /\ Running(t)
  /\ IF tx[t].attempt < MaxTxRetries
     THEN /\ tx' = [tx EXCEPT ![t].status = "ready", ![t].wanted = {}]
          /\ holder' = Released(t)
          /\ UNCHANGED <<job, lockTable, posted>>
     ELSE Abandon(t)

Waiting(t) == Running(t) /\ tx[t].wanted # {} /\ holder[Min(tx[t].wanted)] \notin {NoOne, t}
Blocker(t) == holder[Min(tx[t].wanted)]

\* 40P01: PostgreSQL aborts a member of a cycle of waiting transactions.
Deadlocked(t) ==
  \E cycle \in SUBSET Txs :
    /\ t \in cycle
    /\ \A u \in cycle : Waiting(u)
    /\ {Blocker(u) : u \in cycle} = cycle
BreakDeadlock(t) == Deadlocked(t) /\ Retry(t)

\* 40001 and P2034: only a serializable transaction fails to serialize.
SerializationFailure(t) == t \in Serializable /\ Retry(t)

\* The timeout of TX_OPTS.
TimeOut(t) == Running(t) /\ Abandon(t)

\* Mutant of Enters: period_locks is written without the advisory lock.
EntersAlways(mo) == TRUE

\* PeriodsService.lock and unlock: one advisory lock, one write.
Enters(mo) == holder[mo] = NoOne

AdminAcquire(a, op, mo) ==
  /\ job[a] = Idle
  /\ Enters(mo)
  /\ holder' = [holder EXCEPT ![mo] = a]
  /\ job' = [job EXCEPT ![a] = [op |-> op, month |-> mo]]
  /\ UNCHANGED <<tx, lockTable, posted>>

AdminCommit(a) ==
  /\ job[a] # Idle
  /\ lockTable' = IF job[a].op = "lock" THEN lockTable \cup {job[a].month}
                                        ELSE lockTable \ {job[a].month}
  /\ job' = [job EXCEPT ![a] = Idle]
  /\ holder' = Released(a)
  /\ UNCHANGED <<tx, posted>>

Ended(t) == tx[t].status \in {"committed", "refused"}

Step(t) ==
  \/ Begin(t)
  \/ Acquire(t)
  \/ CheckOpen(t)
  \/ Refuse(t)
  \/ Commit(t)
  \/ BreakDeadlock(t)
  \/ SerializationFailure(t)
  \/ TimeOut(t)

Next ==
  \/ \E t \in Txs : Step(t)
  \/ \E a \in Admins, op \in {"lock", "unlock"}, mo \in Months : AdminAcquire(a, op, mo)
  \/ \E a \in Admins : AdminCommit(a)

\* A statement that can run does, a queued lock request is served in turn, and the
\* deadlock detector runs.
Fairness ==
  /\ \A t \in Txs :
       /\ SF_vars(Acquire(t))
       /\ WF_vars(Begin(t) \/ CheckOpen(t) \/ Refuse(t) \/ Commit(t))
       /\ WF_vars(BreakDeadlock(t))
  /\ \A a \in Admins : WF_vars(AdminCommit(a))

Spec == Init /\ [][Next]_vars
FairSpec == Spec /\ Fairness

-----------------------------------------------------------------------------
(***************************************************************************)
(* Properties.                                                             *)
(***************************************************************************)
Books == INSTANCE PeriodBooks
  WITH Txs <- Txs \ Serializable, posted <- [t \in Txs \ Serializable |-> posted[t]]

\* With their checks, locks and commits apart, the READ COMMITTED transactions still
\* post as if check and post were one step: no month gains a posting of assertPeriodsOpen's
\* callers once its lock has committed.
ImplementsBooks == Books!Spec

BulkBooks == INSTANCE PeriodBooks
  WITH Txs <- Serializable, posted <- [t \in Serializable |-> posted[t]]

\* What the comments of PeriodsService say of every engine transaction, for bulk actions.
BulkImplementsBooks == BulkBooks!Spec

\* Waiting for months in any order, every transaction commits or is refused:
\* deadlocks are broken and retries end.
EveryTransactionEnds == \A t \in Txs : <>Ended(t)
=============================================================================
