----------------------------- MODULE MCSalesDesk -----------------------------
(***************************************************************************)
(* The instances of SalesDesk that TLC checks.                             *)
(***************************************************************************)
EXTENDS SalesDesk, TLC

CONSTANTS s1

\* The plan yields commissions, or none.
TwoPolicies == {[id |-> 1, plan |-> TRUE, lines |-> TRUE, separate |-> FALSE],
                [id |-> 2, plan |-> TRUE, lines |-> FALSE, separate |-> TRUE]}
BothScopes == {[mode |-> "selected", ids |-> {s1}],
               [mode |-> "all-results", statuses |-> {"draft", "approved", "void"}]}

\* The calls are interchangeable.
SymmetricCalls == Permutations(Calls)
=============================================================================
