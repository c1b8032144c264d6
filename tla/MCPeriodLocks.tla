---------------------------- MODULE MCPeriodLocks ----------------------------
(***************************************************************************)
(* Small instances of PeriodLocks for TLC.                                 *)
(***************************************************************************)
EXTENDS PeriodLocks, TLC

CONSTANTS reserve, approve, bulk

\* A reservation of a member with rows in month 1 and of one with rows in months 1
\* and 2, an approval in month 2, and a bulk approval of a sale of month 2 and one
\* of month 1.
MCCalls ==
  [t \in Txs |-> CASE t = reserve -> <<{1}, {1, 2}>>
                   [] t = approve -> <<{2}>>
                   [] t = bulk -> <<{2}, {1}>>]
=============================================================================
