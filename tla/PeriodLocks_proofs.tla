------------------------- MODULE PeriodLocks_proofs -------------------------
(***************************************************************************)
(* Proof that PeriodLocks implements PeriodBooks for any transactions,     *)
(* months and administrators.  The invariant says what the advisory locks  *)
(* are for: a running transaction holds every month that it has checked or *)
(* locked, an administrator holds the month that it writes, and so a month *)
(* that a READ COMMITTED transaction found open stays open until it ends.  *)
(***************************************************************************)
EXTENDS PeriodLocks, TLAPS

CheckedMonths(t) == UNION {Calls[t][i] : i \in {j \in DOMAIN Calls[t] : j < tx[t].call}}

Holding ==
  /\ \A t \in Txs : Running(t) =>
       /\ \A mo \in CheckedMonths(t) : holder[mo] = t
       /\ \A mo \in WantedAt(t, tx[t].call) \ tx[t].wanted : holder[mo] = t
  /\ \A a \in Admins : job[a] # Idle => holder[job[a].month] = a

CheckedStayOpen ==
  \A t \in Txs \ Serializable : Running(t) => CheckedMonths(t) \cap lockTable = {}

Inv == TypeOK /\ Holding /\ CheckedStayOpen

\* Every call's months are months.
LEMMA CallsAreMonths ==
  ASSUME NEW t \in Txs, NEW i \in Nat \ {0}
  PROVE  /\ WantedAt(t, i) \in SUBSET Months
         /\ i \in DOMAIN Calls[t] => Calls[t][i] \in SUBSET Months
         /\ Len(Calls[t]) \in Nat
         /\ DOMAIN Calls[t] = 1..Len(Calls[t])
<1>1. Calls[t] \in Seq(SUBSET Months)
  BY PeriodAssumption
<1>2. Len(Calls[t]) \in Nat /\ DOMAIN Calls[t] = 1..Len(Calls[t])
  BY <1>1
<1>3. ASSUME i \in DOMAIN Calls[t]
      PROVE  Calls[t][i] \in SUBSET Months
  BY <1>1, <1>3
<1> QED
  BY <1>1, <1>2, <1>3 DEF WantedAt

\* What a step of transaction t changes: its own row, and locks that are free or its own.
Own(t) ==
  /\ \A u \in Txs \ {t} : tx'[u] = tx[u]
  /\ \A mo \in Months : holder[mo] \notin {NoOne, t} => holder'[mo] = holder[mo]
  /\ UNCHANGED <<job, lockTable>>

\* A step of a transaction touches its own state only.
LEMMA StepOwn ==
  ASSUME TypeOK, NEW t \in Txs, Step(t)
  PROVE  Own(t)
<1> USE DEF TypeOK, Own
<1>1. CASE Begin(t)
  BY <1>1 DEF Begin
<1>2. CASE Acquire(t)
  BY <1>2 DEF Acquire
<1>3. CASE CheckOpen(t)
  BY <1>3 DEF CheckOpen
<1>4. CASE Commit(t)
  BY <1>4 DEF Commit, Released
<1>5. CASE Abandon(t)
  BY <1>5 DEF Abandon, Released
<1>6. CASE Retry(t)
  BY <1>5, <1>6 DEF Retry, Released
<1> QED
  BY <1>1, <1>2, <1>3, <1>4, <1>5, <1>6
     DEF Step, Refuse, TimeOut, BreakDeadlock, SerializationFailure

\* After a rollback t is not running.
LEMMA Rollback ==
  ASSUME TypeOK, NEW t \in Txs, Abandon(t) \/ Retry(t)
  PROVE  /\ TypeOK'
         /\ tx'[t].status \in {"ready", "refused"}
         /\ UNCHANGED posted
<1> USE DEF TypeOK, Tx, Statuses
<1>1. Released(t) \in [Months -> Txs \cup Admins \cup {NoOne}]
  BY DEF Released
<1>2. CASE Abandon(t)
  BY <1>1, <1>2 DEF Abandon
<1>3. CASE Retry(t)
  BY <1>1, <1>2, <1>3 DEF Retry
<1> QED
  BY <1>2, <1>3

\* Moving to another call keeps the type of a transaction's row.
LEMMA TwoFields ==
  ASSUME NEW r \in Tx, NEW n \in Nat \ {0}, NEW W \in SUBSET Months
  PROVE  [r EXCEPT !.call = n, !.wanted = W] \in Tx
BY DEF Tx, Statuses

\* Every step preserves the types.
LEMMA StepType ==
  ASSUME TypeOK, [Next]_vars
  PROVE  TypeOK'
<1> USE PeriodAssumption DEF TypeOK, Tx, Statuses
<1>1. ASSUME NEW t \in Txs, Begin(t)
      PROVE  TypeOK'
  <2>1. WantedAt(t, 1) \in SUBSET Months /\ Snapshot(t) \in SUBSET Months
    BY CallsAreMonths DEF Snapshot
  <2>2. tx[t].attempt + 1 \in Nat
    OBVIOUS
  <2> QED
    BY <1>1, <2>1, <2>2 DEF Begin
<1>2. ASSUME NEW t \in Txs, Acquire(t)
      PROVE  TypeOK'
  BY <1>2 DEF Acquire
<1>3. ASSUME NEW t \in Txs, CheckOpen(t)
      PROVE  TypeOK'
  <2>1. tx[t].call + 1 \in Nat \ {0}
    OBVIOUS
  <2>2. WantedAt(t, tx[t].call + 1) \in SUBSET Months
    BY <2>1, CallsAreMonths
  <2> DEFINE row == [tx[t] EXCEPT !.call = tx[t].call + 1,
                                  !.wanted = WantedAt(t, tx[t].call + 1)]
  <2>3. row \in Tx
    <3>1. tx[t] \in Tx
      OBVIOUS
    <3> QED
      BY <2>1, <2>2, <3>1, TwoFields
  <2>4. tx' = [tx EXCEPT ![t] = row]
    BY <1>3 DEF CheckOpen
  <2> QED
    BY <1>3, <2>3, <2>4 DEF CheckOpen
<1>4. ASSUME NEW t \in Txs, Commit(t)
      PROVE  TypeOK'
  <2>1. MonthsOf(t) \in SUBSET Months
    BY CallsAreMonths DEF MonthsOf
  <2>2. Released(t) \in [Months -> Txs \cup Admins \cup {NoOne}]
    BY DEF Released
  <2>3. [tx[t] EXCEPT !.status = "committed"] \in Tx
    OBVIOUS
  <2>4. tx' \in [Txs -> Tx]
    BY <1>4, <2>3 DEF Commit
  <2>5. posted' \in [Txs -> SUBSET Months]
    BY <1>4, <2>1 DEF Commit
  <2> QED
    BY <1>4, <2>2, <2>4, <2>5 DEF Commit
<1>5. ASSUME NEW t \in Txs, Step(t)
      PROVE  TypeOK'
  BY <1>1, <1>2, <1>3, <1>4, <1>5, Rollback
     DEF Step, Refuse, TimeOut, BreakDeadlock, SerializationFailure
<1>6. ASSUME NEW a \in Admins, NEW op \in {"lock", "unlock"}, NEW mo \in Months,
             AdminAcquire(a, op, mo)
      PROVE  TypeOK'
  BY <1>6 DEF AdminAcquire, Jobs
<1>7. ASSUME NEW a \in Admins, AdminCommit(a)
      PROVE  TypeOK'
  <2>1. job[a].month \in Months
    BY <1>7 DEF AdminCommit, Jobs
  <2>2. Released(a) \in [Months -> Txs \cup Admins \cup {NoOne}]
    BY DEF Released
  <2>3. Idle \in Jobs
    BY DEF Jobs
  <2> QED
    BY <1>7, <2>1, <2>2, <2>3 DEF AdminCommit
<1> QED
  BY <1>5, <1>6, <1>7 DEF Next, vars

-----------------------------------------------------------------------------
(***************************************************************************)
(* Holding and CheckedStayOpen, for one transaction u.                     *)
(***************************************************************************)
HoldsItsMonths(u) ==
  Running(u) =>
    /\ \A mo \in CheckedMonths(u) : holder[mo] = u
    /\ \A mo \in WantedAt(u, tx[u].call) \ tx[u].wanted : holder[mo] = u
ItsMonthsAreOpen(u) == Running(u) => CheckedMonths(u) \cap lockTable = {}

\* The months a transaction has checked or wants are months.
LEMMA CheckedAreMonths ==
  ASSUME TypeOK, NEW u \in Txs
  PROVE  /\ CheckedMonths(u) \in SUBSET Months
         /\ WantedAt(u, tx[u].call) \in SUBSET Months
<1>1. tx[u].call \in Nat \ {0}
  BY DEF TypeOK, Tx
<1>2. ASSUME NEW i \in DOMAIN Calls[u]
      PROVE  Calls[u][i] \in SUBSET Months
  <2>1. i \in Nat \ {0}
    BY CallsAreMonths
  <2> QED
    BY <2>1, CallsAreMonths
<1> QED
  BY <1>1, <1>2, CallsAreMonths DEF CheckedMonths

\* A step of t leaves what another transaction u knows.
LEMMA OthersKeep ==
  ASSUME TypeOK, NEW t \in Txs, Own(t), NEW u \in Txs \ {t},
         HoldsItsMonths(u)
  PROVE  HoldsItsMonths(u)' /\ (ItsMonthsAreOpen(u) => ItsMonthsAreOpen(u)')
<1>1. tx'[u] = tx[u] /\ lockTable' = lockTable
  BY DEF Own
<1>2. Running(u)' = Running(u) /\ CheckedMonths(u)' = CheckedMonths(u)
  BY <1>1 DEF Running, CheckedMonths
<1>3. \A mo \in Months : holder[mo] = u => holder'[mo] = u
  BY PeriodAssumption DEF Own
<1> QED
  BY <1>1, <1>2, <1>3, CheckedAreMonths DEF HoldsItsMonths, ItsMonthsAreOpen

\* A step of t keeps what t knows about its own months.
LEMMA OwnKeeps ==
  ASSUME TypeOK, NEW t \in Txs, Step(t), HoldsItsMonths(t),
         t \notin Serializable => ItsMonthsAreOpen(t)
  PROVE  /\ HoldsItsMonths(t)'
         /\ t \notin Serializable => ItsMonthsAreOpen(t)'
<1> DEFINE G == /\ HoldsItsMonths(t)'
                /\ t \notin Serializable => ItsMonthsAreOpen(t)'
<1>0. tx[t].call \in Nat \ {0} /\ tx[t].wanted \in SUBSET Months /\ tx[t] \in Tx
  BY DEF TypeOK, Tx
<1>1. CASE Begin(t)
  <2>1. tx'[t].call = 1 /\ tx'[t].wanted = WantedAt(t, 1)
    BY <1>1 DEF Begin, TypeOK
  <2>2. CheckedMonths(t)' = {}
    BY <2>1, CallsAreMonths DEF CheckedMonths
  <2> QED
    BY <2>1, <2>2 DEF HoldsItsMonths, ItsMonthsAreOpen
<1>2. CASE Acquire(t)
  <2> DEFINE mo == Min(tx[t].wanted)
  <2>1. /\ tx'[t].call = tx[t].call
        /\ tx'[t].wanted = tx[t].wanted \ {mo}
        /\ Running(t)
        /\ lockTable' = lockTable
    BY <1>0, <1>2 DEF Acquire, TypeOK
  <2>2. holder' = [holder EXCEPT ![mo] = t]
    BY <1>2 DEF Acquire
  <2>3. CheckedMonths(t)' = CheckedMonths(t)
    BY <2>1 DEF CheckedMonths
  <2> HIDE DEF mo
  <2>4. \A x \in Months : holder[x] = t \/ x = mo => holder'[x] = t
    BY <2>2 DEF TypeOK
  <2> QED
    BY <2>1, <2>3, <2>4, CheckedAreMonths DEF HoldsItsMonths, ItsMonthsAreOpen
<1>3. CASE CheckOpen(t)
  <2>1. /\ tx'[t].call = tx[t].call + 1
        /\ tx'[t].wanted = WantedAt(t, tx'[t].call)
        /\ Running(t)
        /\ tx[t].wanted = {}
        /\ holder' = holder /\ lockTable' = lockTable
    BY <1>0, <1>3 DEF CheckOpen, TypeOK
  <2>2. tx[t].call \in DOMAIN Calls[t] /\ WantedAt(t, tx[t].call) = Calls[t][tx[t].call]
    BY <1>0, <1>3, CallsAreMonths DEF CheckOpen, CallsLeft, WantedAt
  <2>3. CheckedMonths(t)' = CheckedMonths(t) \cup Calls[t][tx[t].call]
    <3>1. {j \in DOMAIN Calls[t] : j < tx'[t].call}
            = {j \in DOMAIN Calls[t] : j < tx[t].call} \cup {tx[t].call}
      BY <1>0, <2>1, <2>2, CallsAreMonths
    <3> QED
      BY <3>1 DEF CheckedMonths
  <2>4. t \notin Serializable => Calls[t][tx[t].call] \cap lockTable = {}
    BY <1>3 DEF CheckOpen, Passes, View
  <2> QED
    BY <2>1, <2>2, <2>3, <2>4 DEF HoldsItsMonths, ItsMonthsAreOpen
<1>4. CASE Commit(t)
  <2>1. ~Running(t)'
    BY <1>4 DEF Commit, TypeOK, Running
  <2> QED
    BY <2>1 DEF HoldsItsMonths, ItsMonthsAreOpen
<1>5. CASE Abandon(t) \/ Retry(t)
  <2>1. ~Running(t)'
    BY <1>5, Rollback DEF Running
  <2> QED
    BY <2>1 DEF HoldsItsMonths, ItsMonthsAreOpen
<1> QED
  BY <1>1, <1>2, <1>3, <1>4, <1>5
     DEF Step, Refuse, TimeOut, BreakDeadlock, SerializationFailure

\* The invariant is inductive.
LEMMA InvStep ==
  ASSUME Inv, [Next]_vars
  PROVE  Inv'
<1>0. TypeOK'
  BY StepType DEF Inv
<1>a. \A u \in Txs : HoldsItsMonths(u) /\ (u \notin Serializable => ItsMonthsAreOpen(u))
  BY DEF Inv, Holding, CheckedStayOpen, HoldsItsMonths, ItsMonthsAreOpen
<1>b. ASSUME \A u \in Txs : HoldsItsMonths(u)' /\ (u \notin Serializable => ItsMonthsAreOpen(u)'),
             \A a \in Admins : job'[a] # Idle => holder'[job'[a].month] = a
      PROVE  Inv'
  BY <1>0, <1>b DEF Inv, Holding, CheckedStayOpen, HoldsItsMonths, ItsMonthsAreOpen
<1>1. ASSUME NEW t \in Txs, Step(t)
      PROVE  Inv'
  <2>1. Own(t)
    BY <1>1, StepOwn DEF Inv
  <2>2. ASSUME NEW u \in Txs
        PROVE  HoldsItsMonths(u)' /\ (u \notin Serializable => ItsMonthsAreOpen(u)')
    <3>1. CASE u = t
      BY <1>a, <1>1, <3>1, OwnKeeps DEF Inv
    <3>2. CASE u # t
      BY <1>a, <2>1, <3>2, OthersKeep DEF Inv
    <3> QED
      BY <3>1, <3>2
  <2>3. ASSUME NEW a \in Admins, job'[a] # Idle
        PROVE  holder'[job'[a].month] = a
    <3>1. job[a] # Idle /\ job'[a] = job[a]
      BY <2>1, <2>3 DEF Own
    <3>2. holder[job[a].month] = a /\ job[a].month \in Months
      BY <3>1 DEF Inv, Holding, TypeOK, Jobs
    <3> QED
      BY <2>1, <3>1, <3>2, PeriodAssumption DEF Own
  <2> QED
    BY <1>b, <2>2, <2>3
<1>2. ASSUME NEW a \in Admins, NEW op \in {"lock", "unlock"}, NEW mo \in Months,
             AdminAcquire(a, op, mo)
      PROVE  Inv'
  <2>1. holder[mo] = NoOne /\ holder' = [holder EXCEPT ![mo] = a]
    BY <1>2 DEF AdminAcquire, Enters
  <2>2. UNCHANGED <<tx, lockTable>> /\ job' = [job EXCEPT ![a] = [op |-> op, month |-> mo]]
    BY <1>2 DEF AdminAcquire
  <2>3. \A x \in Months : holder[x] # NoOne => holder'[x] = holder[x]
    BY <2>1
  <2>4. \A u \in Txs : HoldsItsMonths(u)' /\ (u \notin Serializable => ItsMonthsAreOpen(u)')
    <3> TAKE u \in Txs
    <3>1. CheckedMonths(u)' = CheckedMonths(u) /\ Running(u)' = Running(u)
      BY <2>2 DEF CheckedMonths, Running
    <3>2. u # NoOne
      BY PeriodAssumption
    <3>3. HoldsItsMonths(u)'
      BY <1>a, <2>2, <2>3, <3>1, <3>2, CheckedAreMonths DEF Inv, HoldsItsMonths
    <3>4. u \notin Serializable => ItsMonthsAreOpen(u)'
      BY <1>a, <2>2, <3>1 DEF ItsMonthsAreOpen
    <3> QED
      BY <3>3, <3>4
  <2>5. ASSUME NEW b \in Admins, job'[b] # Idle
        PROVE  holder'[job'[b].month] = b
    <3>1. CASE b = a
      BY <2>1, <2>2, <3>1 DEF Inv, TypeOK
    <3>2. CASE b # a
      <4>1. job'[b] = job[b]
        BY <2>2, <3>2 DEF Inv, TypeOK
      <4>2. holder[job[b].month] = b /\ job[b].month \in Months
        BY <2>5, <4>1 DEF Inv, Holding, TypeOK, Jobs
      <4> QED
        BY <2>3, <4>1, <4>2, PeriodAssumption
    <3> QED
      BY <3>1, <3>2
  <2> QED
    BY <1>b, <2>4, <2>5
<1>3. ASSUME NEW a \in Admins, AdminCommit(a)
      PROVE  Inv'
  <2> DEFINE mo == job[a].month
  <2>1. mo \in Months /\ holder[mo] = a
    BY <1>3 DEF AdminCommit, Inv, Holding, TypeOK, Jobs
  <2>2. /\ tx' = tx
        /\ job' = [job EXCEPT ![a] = Idle]
        /\ lockTable' \subseteq lockTable \cup {mo}
        /\ holder' = Released(a)
    BY <1>3 DEF AdminCommit
  <2> HIDE DEF mo
  <2>3. \A x \in Months : holder[x] # a => holder'[x] = holder[x]
    BY <2>2 DEF Released
  <2>4. ASSUME NEW u \in Txs
        PROVE  HoldsItsMonths(u)' /\ (u \notin Serializable => ItsMonthsAreOpen(u)')
    <3>1. u # a
      BY PeriodAssumption
    <3>2. CheckedMonths(u)' = CheckedMonths(u) /\ Running(u)' = Running(u)
      BY <2>2 DEF CheckedMonths, Running
    <3>3. HoldsItsMonths(u)'
      BY <1>a, <2>2, <2>3, <3>1, <3>2, CheckedAreMonths DEF Inv, HoldsItsMonths
    <3>4. Running(u) => mo \notin CheckedMonths(u)
      BY <1>a, <2>1, <3>1 DEF HoldsItsMonths
    <3>5. u \notin Serializable => ItsMonthsAreOpen(u)'
      BY <1>a, <2>2, <3>2, <3>4 DEF ItsMonthsAreOpen
    <3> QED
      BY <3>3, <3>5
  <2>5. ASSUME NEW b \in Admins, job'[b] # Idle
        PROVE  holder'[job'[b].month] = b
    <3>1. b # a /\ job'[b] = job[b]
      BY <2>2, <2>5 DEF Inv, TypeOK
    <3>2. holder[job[b].month] = b /\ job[b].month \in Months
      BY <2>5, <3>1 DEF Inv, Holding, TypeOK, Jobs
    <3> QED
      BY <2>3, <3>1, <3>2
  <2> QED
    BY <1>b, <2>4, <2>5
<1>4. CASE UNCHANGED vars
  <2>1. \A u \in Txs : HoldsItsMonths(u)' /\ (u \notin Serializable => ItsMonthsAreOpen(u)')
    BY <1>a, <1>4 DEF vars, HoldsItsMonths, ItsMonthsAreOpen, Running, CheckedMonths
  <2>2. \A a \in Admins : job'[a] # Idle => holder'[job'[a].month] = a
    BY <1>4 DEF vars, Inv, Holding
  <2> QED
    BY <1>b, <2>1, <2>2
<1> QED
  BY <1>1, <1>2, <1>3, <1>4 DEF Next

\* The invariant holds before any transaction begins.
LEMMA InvInit ==
  ASSUME Init
  PROVE  Inv
<1>1. TypeOK
  BY DEF Init, TypeOK, Tx, Statuses, Jobs
<1>2. Holding /\ CheckedStayOpen
  BY DEF Init, Holding, CheckedStayOpen, Running
<1> QED
  BY <1>1, <1>2 DEF Inv

-----------------------------------------------------------------------------
(***************************************************************************)
(* The refinement.                                                         *)
(***************************************************************************)

\* A commit of a READ COMMITTED transaction is PostTo of its months; a commit of an
\* administrator is ChangeLocks; every other step changes nothing that PeriodBooks sees.
LEMMA StepImplements ==
  ASSUME Inv, [Next]_vars
  PROVE  [Books!Next]_<<lockTable, [t \in Txs \ Serializable |-> posted[t]]>>
<1> DEFINE Posted == [t \in Txs \ Serializable |-> posted[t]]
<1> USE DEF Books!Next, Books!PostTo, Books!ChangeLocks
<1>1. ASSUME NEW t \in Txs, Commit(t), t \notin Serializable
      PROVE  Books!PostTo(t, MonthsOf(t)) /\ MonthsOf(t) \in SUBSET Months
  <2>1. MonthsOf(t) \subseteq CheckedMonths(t)
    <3>1. tx[t].call \in Nat /\ ~(tx[t].call <= Len(Calls[t]))
      BY <1>1 DEF Commit, CallsLeft, Inv, TypeOK, Tx
    <3>2. \A i \in DOMAIN Calls[t] : i < tx[t].call
      BY <3>1, CallsAreMonths
    <3> QED
      BY <3>2 DEF MonthsOf, CheckedMonths
  <2>2. MonthsOf(t) \cap lockTable = {}
    BY <1>1, <2>1 DEF Inv, CheckedStayOpen, Commit
  <2>3. Posted' = [Posted EXCEPT ![t] = MonthsOf(t)]
    BY <1>1 DEF Commit, Inv, TypeOK
  <2>4. lockTable' = lockTable
    BY <1>1 DEF Commit
  <2> QED
    BY <2>1, <2>2, <2>3, <2>4, CheckedAreMonths DEF Inv
<1>2. ASSUME NEW t \in Txs, Commit(t), t \in Serializable
      PROVE  UNCHANGED <<lockTable, Posted>>
  BY <1>2 DEF Commit, Inv, TypeOK
<1>3. ASSUME NEW t \in Txs, Step(t), ~Commit(t)
      PROVE  UNCHANGED <<lockTable, Posted>>
  BY <1>3 DEF Step, Begin, Acquire, CheckOpen, Refuse, Abandon, Retry, TimeOut,
              BreakDeadlock, SerializationFailure
<1>4. ASSUME NEW a \in Admins, AdminCommit(a)
      PROVE  Books!Next
  <2>1. job[a].month \in Months
    BY <1>4 DEF AdminCommit, Inv, TypeOK, Jobs
  <2>2. Posted' = Posted
    BY <1>4 DEF AdminCommit
  <2> QED
    BY <1>4, <2>1, <2>2 DEF AdminCommit
<1>5. ASSUME NEW a \in Admins, NEW op \in {"lock", "unlock"}, NEW mo \in Months,
             AdminAcquire(a, op, mo)
      PROVE  UNCHANGED <<lockTable, Posted>>
  BY <1>5 DEF AdminAcquire
<1>6. CASE UNCHANGED vars
  BY <1>6 DEF vars
<1> QED
  BY <1>1, <1>2, <1>3, <1>4, <1>5, <1>6 DEF Next

\* Every READ COMMITTED transaction posts as if its check and its writes were one
\* step: the advisory locks of assertPeriodsOpen, PeriodsService.lock and unlock
\* close the gap between the check and the commit.
THEOREM Implements == Spec => ImplementsBooks
<1>1. Init => Books!Init
  BY DEF Init, Books!Init
<1>2. Inv /\ [Next]_vars => [Books!Next]_<<lockTable, [t \in Txs \ Serializable |-> posted[t]]>>
  BY StepImplements
<1> QED
  BY <1>1, <1>2, InvInit, InvStep, PTL DEF Spec, ImplementsBooks, Books!Spec
=============================================================================
