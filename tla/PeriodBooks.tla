----------------------------- MODULE PeriodBooks -----------------------------
(***************************************************************************)
(* What period locks promise, with the two parts of the promise in one     *)
(* step each: a transaction posts to its months at once and only if all of *)
(* them are open, and a month is locked or unlocked at once.  This is the  *)
(* granularity at which CommissionLedger treats the period locks.          *)
(***************************************************************************)
CONSTANTS
  Txs,          \* transactions that post to months
  Months        \* YYYY-MM keys

VARIABLES
  lockTable,    \* the locked months
  posted        \* posted[t]: the months that t posted to

Init ==
  /\ lockTable = {}
  /\ posted = [t \in Txs |-> {}]

PostTo(t, months) ==
  /\ months \cap lockTable = {}
  /\ posted' = [posted EXCEPT ![t] = months]
  /\ UNCHANGED lockTable

ChangeLocks(locks) ==
  /\ lockTable' = locks
  /\ UNCHANGED posted

Next ==
  \/ \E t \in Txs, months \in SUBSET Months : PostTo(t, months)
  \/ \E mo \in Months : ChangeLocks(lockTable \cup {mo}) \/ ChangeLocks(lockTable \ {mo})

Spec == Init /\ [][Next]_<<lockTable, posted>>
=============================================================================
