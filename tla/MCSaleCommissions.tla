-------------------------- MODULE MCSaleCommissions --------------------------
(***************************************************************************)
(* A small tenant that sells: rates in tenths, so that most products are   *)
(* rounded.                                                                *)
(***************************************************************************)
EXTENDS SaleCommissions

NoBonus == [fast |-> 0, days |-> 0, match |-> 0]
Boost   == [fast |-> 3, days |-> 1, match |-> 5]

Plan(pool, rates, bonus) ==
  [pool |-> pool, depth |-> Len(rates), bonus |-> bonus,
   upto |-> [k \in 0 .. Len(rates) |->
              IF k = 0 THEN 0
              ELSE IF k = 1 THEN rates[1]
              ELSE IF k = 2 THEN rates[1] + rates[2] ELSE rates[1] + rates[2] + rates[3]]]

\* One plan of three levels, one of two with bonuses, and one that overdraws its pool.
MCOffers == {Plan(6, <<1, 3, 2>>, NoBonus), Plan(5, <<2, 3>>, Boost), Plan(1, <<9>>, Boost)}
MCBonuses == {NoBonus, Boost}
MCTiers == {[team |-> 0, earned |-> 0, bps |-> 1], [team |-> 1, earned |-> 5, bps |-> 2]}
=============================================================================
