---------------------------- MODULE MCPayoutDesk ----------------------------
(***************************************************************************)
(* The small instance of PayoutDesk.                                       *)
(***************************************************************************)
EXTENDS PayoutDesk, TLC

Symmetry == Permutations(Members) \cup Permutations(Batches) \cup Permutations(Clerks)
=============================================================================
