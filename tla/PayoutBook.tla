------------------------------ MODULE PayoutBook ------------------------------
(***************************************************************************)
(* What the ledger promises to whoever is paid by it: a credit is carried  *)
(* to its owner, by one payout at a time; payouts that were reserved       *)
(* together are sent, settled or returned together; and what was sent can  *)
(* only be paid.  Here a payout takes its credits and gives them back at   *)
(* once, without the rows, links, items and summaries that keep it true.   *)
(***************************************************************************)
CONSTANTS
  Credits,    \* amounts earned, and amounts taken back
  Owners,     \* who may earn
  Nobody,     \* the owner of a credit that is not earned yet
  Payouts,
  Payee       \* Payee[p]: whom payout p pays

VARIABLES
  credit,     \* what a credit is
  owner,      \* and whose
  load,       \* the credits that a payout carries
  stage,      \* where a payout is
  bundles     \* payouts that are on their way, as they were reserved together

book == <<credit, owner, load, stage, bundles>>

CreditStates == {"none", "pending", "payable", "closed", "carried"}

Init ==
  /\ credit = [e \in Credits |-> "none"]
  /\ owner = [e \in Credits |-> Nobody]
  /\ load = [p \in Payouts |-> {}]
  /\ stage = [p \in Payouts |-> "idle"]
  /\ bundles = {}

\* Which way a credit goes by itself.
Progress ==
  {<<"none", "pending">>, <<"none", "payable">>, <<"none", "closed">>,
   <<"pending", "payable">>, <<"pending", "closed">>, <<"payable", "closed">>}

\* Credits are earned, mature and are taken back; none that a payout carries.
Account ==
  /\ credit' \in [Credits -> CreditStates]
  /\ owner' \in [Credits -> Owners \cup {Nobody}]
  /\ \A e \in Credits :
       /\ credit'[e] # credit[e] => <<credit[e], credit'[e]>> \in Progress
       /\ credit[e] # "none" \/ credit'[e] = "none" => owner'[e] = owner[e]
  /\ UNCHANGED <<load, stage, bundles>>

Staged(P, s) == [p \in Payouts |-> IF p \in P THEN s ELSE stage[p]]

\* Payouts P take payable credits of their payees.
Reserve(P) ==
  /\ \A p \in P : stage[p] = "idle"
  /\ load' \in [Payouts -> SUBSET Credits]
  /\ \A p \in Payouts \ P : load'[p] = load[p]
  /\ \A p \in P :
       /\ load'[p] # {}
       /\ \A e \in load'[p] : credit[e] = "payable" /\ owner[e] = Payee[p]
       /\ \A q \in P \ {p} : load'[p] \cap load'[q] = {}
  /\ credit' = [e \in Credits |-> IF e \in UNION {load'[p] : p \in P} THEN "carried" ELSE credit[e]]
  /\ stage' = Staged(P, "reserved")
  /\ bundles' = bundles \cup {P}
  /\ UNCHANGED owner

\* The money leaves.
Send(P) ==
  /\ \A p \in P : stage[p] = "reserved"
  /\ stage' = Staged(P, "sent")
  /\ UNCHANGED <<credit, owner, load, bundles>>

Settle(P) ==
  /\ \A p \in P : stage[p] = "sent"
  /\ stage' = Staged(P, "paid")
  /\ bundles' = bundles \ {P}
  /\ UNCHANGED <<credit, owner, load>>

\* What has not left is payable again.
Return(P) ==
  /\ \A p \in P : stage[p] = "reserved"
  /\ credit' = [e \in Credits |-> IF e \in UNION {load[p] : p \in P} THEN "payable" ELSE credit[e]]
  /\ load' = [p \in Payouts |-> IF p \in P THEN {} ELSE load[p]]
  /\ stage' = Staged(P, "returned")
  /\ bundles' = bundles \ {P}
  /\ UNCHANGED owner

Next ==
  \/ Account
  \/ \E P \in SUBSET Payouts : P # {} /\ Reserve(P)
  \/ \E P \in bundles : Send(P) \/ Settle(P) \/ Return(P)

Spec == Init /\ [][Next]_book

(***************************************************************************)
(* What the promise comes to.                                              *)
(***************************************************************************)

\* A credit is carried by one payout at most, which is its owner's, and a payout carries
\* something exactly from its reservation on and unless it is returned.
CarriedOnce ==
  /\ \A e \in Credits : credit[e] = "carried" <=> \E p \in Payouts : e \in load[p]
  /\ \A p \in Payouts : \A q \in Payouts \ {p} : load[p] \cap load[q] = {}
  /\ \A p \in Payouts : \A e \in load[p] : owner[e] = Payee[p]
  /\ \A p \in Payouts : load[p] # {} <=> stage[p] \in {"reserved", "sent", "paid"}

\* A payout that was sent keeps its load and can only be paid.
SentIsFinal ==
  [][\A p \in Payouts : stage[p] \in {"sent", "paid"} =>
       /\ load'[p] = load[p]
       /\ stage'[p] = "paid" \/ stage'[p] = stage[p]]_book
=============================================================================
