------------------------------ MODULE MCLedger ------------------------------
(***************************************************************************)
(* Small instances of CommissionLedger for TLC.  Member m1 sells and m2 is *)
(* its sponsor.                                                            *)
(***************************************************************************)
EXTENDS CommissionLedger, TLC

CONSTANTS m1, m2, jan, feb, ny, utc

\* Level 0 is the seller's and level 1 the sponsor's; a sponsor that does not
\* earn leaves level 1 empty.
Full == (0 :> m1) @@ (1 :> m2)
SellerOnly == (0 :> m1) @@ (1 :> NoMember)

\* Nobody earns: the members are inactive, and a later approval may find them active.
NoOne == (0 :> NoMember) @@ (1 :> NoMember)

MCSplits == [s \in Sales |-> {[l \in Levels |-> Full[l]], [l \in Levels |-> SellerOnly[l]]}]
MCAllSplits == [s \in Sales |-> MCSplits[s] \cup {[l \in Levels |-> NoOne[l]]}]

\* The sale's date falls in another month in UTC than in New York.
MCMonthKey == [s \in Sales |-> [z \in Zones |-> IF z = utc THEN feb ELSE jan]]

\* Seller lines of 3, sponsor lines of 1, awards of 2.
MCAmount ==
  [ln \in Lines |-> IF ln \in AwardLines THEN 2 ELSE IF ln[2] = 0 THEN 3 ELSE 1]

\* Batches differ only in their id.
BatchSymmetry == Permutations(Batches)
=============================================================================
