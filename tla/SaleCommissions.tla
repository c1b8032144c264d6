--------------------------- MODULE SaleCommissions ---------------------------
(***************************************************************************)
(* What a sale pays (applyCommissionsInTx of engine.service.ts): the plan  *)
(* in force on its date, the seller's upline in the tree that              *)
(* NetworkHierarchy grows, a line per level, the bonuses of the direct     *)
(* sponsor, the seller's rank override, and the ceiling that refuses what  *)
(* would be too much.                                                      *)
(*                                                                         *)
(* The transaction is READ COMMITTED: plans may be added and rank tiers    *)
(* edited between any two of its statements.  It holds the sale's row, so  *)
(* the applications of one sale follow each other.  The status of a member *)
(* and the tenant's settings may change at any time too; each is read once *)
(* per application, and whatever it then is comes in as a choice.          *)
(***************************************************************************)
EXTENDS NetworkHierarchy, Sequences

CONSTANTS
  Whole,        \* BPS_DENOMINATOR
  Offers,       \* plans that may be submitted: records [pool, depth, upto, bonus]
  Bonuses,      \* records [fast, days, match]
  Tiers,        \* rank tiers: records [team, earned, bps]
  Ranks,        \* their sortOrders
  Earnings,     \* what a member may have earned
  Amounts,      \* amounts of sales
  Dates,        \* dates of sales and plans
  MaxVersions,  \* bound: plans of the tenant
  None          \* no sale, no plan, no tier

\* upto[k]: the rates of the levels below k added up.
Offer(o) ==
  /\ o = [pool |-> o.pool, depth |-> o.depth, upto |-> o.upto, bonus |-> o.bonus]
  /\ o.pool \in 0 .. Whole
  /\ o.depth \in Nat \ {0}
  /\ o.upto \in [0 .. o.depth -> Nat]
  /\ o.upto[0] = 0
  /\ \A k \in 0 .. o.depth - 1 : o.upto[k] <= o.upto[k + 1]
  /\ o.bonus \in Bonuses

ASSUME CommissionAssumption ==
  /\ Whole \in Nat \ {0}
  /\ \A o \in Offers : Offer(o)
  /\ Bonuses \subseteq [fast: 0 .. Whole, days: Nat, match: 0 .. Whole]
  /\ Tiers \subseteq [team: Nat, earned: Nat, bps: 0 .. Whole]
  /\ Ranks \subseteq Nat /\ Earnings \subseteq Int /\ Amounts \subseteq Nat /\ Dates \subseteq Int
  /\ MaxVersions \in Nat
  /\ None \notin Tiers
  /\ None \notin [seller: Members, amount: Nat, date: Int, plan: Nat]

VARIABLES
  plans,  \* commission_plans: the offer of each version, with its effectiveFrom
  tiers,  \* rank_tiers
  sale,   \* one sale
  run     \* the last application of its commissions, and how far it is

money == <<plans, tiers, sale, run>>
allVars == <<vars, money>>

Policies == [compression: BOOLEAN, inactiveEarn: BOOLEAN]

Company == TenantRoot   \* no beneficiary: the share stays with the company
NoLine == [to |-> Company, cents |-> 0]
Idle == [step |-> "idle"]

CommissionInit ==
  /\ Init
  /\ plans = <<>>
  /\ tiers = [r \in Ranks |-> None]
  /\ sale = None
  /\ run = Idle

-----------------------------------------------------------------------------
(***************************************************************************)
(* Plans and rank tiers.                                                   *)
(***************************************************************************)
Versions == 1 .. Len(plans)

\* The version in force on a date; no two have the same effectiveFrom.
Effective(date) ==
  LET due == {v \in Versions : plans[v].from <= date}
  IN IF due = {} THEN 0 ELSE CHOOSE v \in due : \A w \in due : plans[w].from <= plans[v].from

Free(date) == \A v \in Versions : plans[v].from # date

\* Mutant of Acceptable: the levels are not held against the pool.
AnyOffer(o) == TRUE

\* commissionPlanSchema, and a trigger of the database: the levels fit into the pool.
Acceptable(o) == o.upto[o.depth] <= o.pool

AddVersion(o, from) ==
  /\ Len(plans) < MaxVersions
  /\ Free(from)
  /\ plans' = Append(plans, [offer |-> o, from |-> from])
  /\ UNCHANGED <<tiers, sale, run>>

\* An administrator's new plan may start at any time, also in the past.
CreateVersion(o, from) == Acceptable(o) /\ AddVersion(o, from)

\* New bonuses are a copy of the plan in force that starts as soon as it can.
CreateBonusVersion(bonus, from) ==
  LET v == Effective(clock)
  IN /\ v \in Versions
     /\ from >= clock /\ \A t \in clock .. from - 1 : ~Free(t)
     /\ AddVersion([plans[v].offer EXCEPT !.bonus = bonus], from)

\* A tier is created, edited or removed.
SetTier(r, t) ==
  /\ tiers[r] # t
  /\ tiers' = [tiers EXCEPT ![r] = t]
  /\ UNCHANGED <<plans, sale, run>>

TeamSize(m) == Cardinality(Under({m}, joined)) - 1

\* The highest tier that a member with these earnings reaches; without tiers, the
\* built-in ones, which override nothing.
OverrideBps(m, earned) ==
  LET reached == {r \in Ranks : /\ tiers[r] # None
                                /\ TeamSize(m) >= tiers[r].team /\ earned >= tiers[r].earned}
      highest == {r \in reached : \A q \in reached : q <= r}
  IN IF highest = {} THEN 0 ELSE tiers[CHOOSE r \in highest : TRUE].bps

\* The most that any tier overrides.
MaxOverrideBps(ts) ==
  LET rates == {0} \cup {ts[r].bps : r \in {q \in Ranks : ts[q] # None}}
  IN CHOOSE x \in rates : \A y \in rates : y <= x

-----------------------------------------------------------------------------
(***************************************************************************)
(* The lines of a sale.                                                    *)
(***************************************************************************)
Bps(amount, rate) == (amount * rate) \div Whole

RateAt(o, k) == o.upto[k + 1] - o.upto[k]

\* From the seller upwards, as many members as the plan has levels.
UplineChain(seller, depth) ==
  LET up[k \in 1 .. depth] ==
        IF k = 1 THEN <<seller>>
        ELSE LET below == up[k - 1]
                 next  == sponsor[below[Len(below)]]
             IN IF next = TenantRoot THEN below ELSE Append(below, next)
  IN up[depth]

\* Mutant of EffectiveBaseChain: compression leaves gaps.
GapChain(raw, active, policy) ==
  [k \in 1 .. Len(raw) |->
    IF k = 1 \/ policy.inactiveEarn \/ raw[k] \in active THEN raw[k] ELSE Company]

\* Compression: the active uplines move up, in their order.
RollUp(raw, active) ==
  LET kept[k \in 1 .. Len(raw)] ==
        IF k = 1 THEN <<raw[1]>>
        ELSE IF raw[k] \in active THEN Append(kept[k - 1], raw[k]) ELSE kept[k - 1]
  IN kept[Len(raw)]

\* Without compression an inactive upline may leave a gap.  The seller is never looked at.
EffectiveBaseChain(raw, active, policy) ==
  IF policy.compression THEN RollUp(raw, active)
  ELSE [k \in 1 .. Len(raw) |->
         IF k = 1 \/ policy.inactiveEarn \/ raw[k] \in active THEN raw[k] ELSE Company]

\* The direct sponsor as the chain has it, if it may earn.
BonusSponsor(raw, active, policy) ==
  IF Len(raw) > 1 /\ (policy.inactiveEarn \/ raw[2] \in active) THEN raw[2] ELSE Company

\* Mutant of ReviewMaterial: inactiveMembersEarn is not part of it.
LooseMaterial(raw, active, policy) ==
  [compression |-> policy.compression, chain |-> EffectiveBaseChain(raw, active, policy)]

\* Of what a bulk review signs, the part that depends on settings and members.
ReviewMaterial(raw, active, policy) ==
  [tenant |-> policy, chain |-> EffectiveBaseChain(raw, active, policy)]

-----------------------------------------------------------------------------
(***************************************************************************)
(* The application of a sale's commissions.                                *)
(***************************************************************************)
EnterSale(seller, amount, date) ==
  /\ sale = None
  /\ sale' = [seller |-> seller, amount |-> amount, date |-> date, plan |-> 0]
  /\ UNCHANGED <<plans, tiers, run>>

\* Mutant of PlanFor: the plan of the first application is forgotten.
PlanOfToday == Effective(sale.date)

\* resolvePlan
PlanFor == IF sale.plan # 0 THEN sale.plan ELSE Effective(sale.date)

\* An application starts, unless there are rows from an earlier one: it reads the
\* settings, the plan and the upline with the status of each member.
Resolve(active, policy) ==
  /\ sale # None
  /\ run.step \in {"idle", "refused"} \/ (run.step = "committed" /\ run.given = 0)
  /\ PlanFor \in Versions
  /\ LET raw == UplineChain(sale.seller, plans[PlanFor].offer.depth)
     IN /\ active \subseteq {raw[k] : k \in 2 .. Len(raw)}
        /\ run' = [step |-> "levels", plan |-> PlanFor, offer |-> plans[PlanFor].offer,
                   active |-> active, policy |-> policy,
                   chain |-> EffectiveBaseChain(raw, active, policy),
                   sponsor |-> BonusSponsor(raw, active, policy),
                   lines |-> <<>>, given |-> 0, tiers |-> tiers]
  /\ UNCHANGED <<plans, tiers, sale>>

\* computeCommissionLines, one level: whoever stands there gets its rate of the amount,
\* and amounts of 0 make no row.
PayLevel ==
  /\ run.step = "levels" /\ Len(run.lines) < run.offer.depth
  /\ LET k == Len(run.lines)
         to == IF k < Len(run.chain) /\ run.chain[k + 1] \in Members
               THEN run.chain[k + 1] ELSE Company
         cents == IF to = Company THEN 0 ELSE Bps(sale.amount, RateAt(run.offer, k))
     IN run' = [run EXCEPT !.lines = Append(@, IF cents = 0 THEN NoLine
                                               ELSE [to |-> to, cents |-> cents]),
                           !.given = @ + cents]
  /\ UNCHANGED <<plans, tiers, sale>>

\* Fast start: the seller has joined at most so many days before the sale.
FastStart ==
  LET bonus == run.offer.bonus
  IN IF bonus.days > 0 /\ sale.date - stamp[sale.seller] <= bonus.days
     THEN Bps(sale.amount, bonus.fast) ELSE 0

\* Matching: a share of the first line there is.
Matching ==
  LET paid == {k \in 1 .. Len(run.lines) : run.lines[k] # NoLine}
  IN IF paid = {} THEN 0
     ELSE Bps(run.lines[CHOOSE k \in paid : \A j \in paid : k <= j].cents, run.offer.bonus.match)

PayBonuses ==
  /\ run.step = "levels" /\ Len(run.lines) = run.offer.depth
  /\ run' = [run EXCEPT !.step = "override",
                        !.given = IF run.sponsor = Company THEN @ ELSE @ + FastStart + Matching]
  /\ UNCHANGED <<plans, tiers, sale>>

\* The tiers are read once for the seller's own override ...
PayOverride(earned) ==
  /\ run.step = "override"
  /\ run' = [run EXCEPT !.step = "ceiling", !.tiers = tiers,
                        !.given = @ + Bps(sale.amount, OverrideBps(sale.seller, earned))]
  /\ UNCHANGED <<plans, tiers, sale>>

\* ... and once more for the ceiling.
Ceiling ==
  Bps(sale.amount, run.offer.pool + run.offer.bonus.fast + run.offer.bonus.match
                     + MaxOverrideBps(tiers))

\* The transaction commits, and with it the plan of the sale.
Commit ==
  /\ run.step = "ceiling" /\ run.given <= Ceiling
  /\ run' = [run EXCEPT !.step = "committed"]
  /\ sale' = [sale EXCEPT !.plan = run.plan]
  /\ UNCHANGED <<plans, tiers>>

\* More would be given than the plan and the ranks allow: nothing is written.
Refuse ==
  /\ run.step = "ceiling" /\ run.given > Ceiling
  /\ run' = [run EXCEPT !.step = "refused"]
  /\ UNCHANGED <<plans, tiers, sale>>

(***************************************************************************)
(* Bounds: selling starts when everybody has joined, at once and named in  *)
(* the order of the tree, and while nobody views it; the tree then rests.  *)
(* Sales and views only read the tree, and dates of sales are free.        *)
(***************************************************************************)
Grown ==
  /\ clock = 0 /\ joined = Members /\ view = Closed
  /\ \A m \in Members : sponsor[m] < m

Selling ==
  \/ \E o \in Offers, from \in Dates : CreateVersion(o, from)
  \/ \E b \in Bonuses, from \in clock .. clock + MaxVersions : CreateBonusVersion(b, from)
  \/ \E r \in Ranks, t \in Tiers \cup {None} : SetTier(r, t)
  \/ \E m \in Members, a \in Amounts, d \in Dates : EnterSale(m, a, d)
  \/ \E active \in SUBSET Members, policy \in Policies : Resolve(active, policy)
  \/ PayLevel \/ PayBonuses
  \/ \E earned \in Earnings : PayOverride(earned)
  \/ Commit \/ Refuse

CommissionNext ==
  \/ Grown /\ Selling /\ UNCHANGED vars
  \/ plans = <<>> /\ Next /\ UNCHANGED money

CommissionSpec == CommissionInit /\ [][CommissionNext]_allVars

(***************************************************************************)
(* Properties.                                                             *)
(***************************************************************************)
\* The active members strictly between a seller and an upline.
ActiveBetween(m, seller) ==
  Cardinality({a \in run.active : m \in path[a] /\ a # m /\ a \in path[seller] \ {seller}})

\* Who should earn level k: by the paths of the tree, without a chain.
Heirs(k) ==
  {m \in path[sale.seller] \ {TenantRoot} :
    LET up == Tier(sale.seller, m)
    IN IF k = 0 THEN up = 0
       ELSE /\ up \in 1 .. run.offer.depth - 1
            /\ IF run.policy.compression
               THEN m \in run.active /\ ActiveBetween(m, sale.seller) = k - 1
               ELSE up = k /\ (run.policy.inactiveEarn \/ m \in run.active)}

\* Whatever the settings and whoever is inactive, every level of a sale goes to the one
\* upline that the paths of the tree give for it, at the rate of the sale's plan, and to
\* the company when there is none: walking sponsors and sliding the chain neither skips
\* nor doubles a level.
EveryLevelToItsHeir ==
  run.step = "committed" =>
    \A k \in 0 .. run.offer.depth - 1 :
      LET cents == Bps(sale.amount, RateAt(plans[sale.plan].offer, k))
      IN \/ cents > 0 /\ \E m \in Heirs(k) : /\ Heirs(k) = {m}
                                            /\ run.lines[k + 1] = [to |-> m, cents |-> cents]
         \/ (cents = 0 \/ Heirs(k) = {}) /\ run.lines[k + 1] = NoLine

\* The ceiling is a net under the computation and never what stops a sale: however the
\* roundings fall, only an edit of the tiers in the middle of it can get a sale refused.
OnlyTierEditsRefuse ==
  [][Refuse => tiers # run.tiers]_allVars

\* Once commissions have been applied, even if they came to nothing, a plan that is
\* added for the past does not change what the sale is paid by.
PlanStaysFrozen ==
  [][sale # None /\ sale.plan # 0 => sale'.plan = sale.plan /\ (run' # run => run'.plan = sale.plan)]_allVars

\* A reviewer signs the settings and the base chain.  That is enough for the sponsor's
\* bonuses, which the review does not show: nobody can become or cease to be their
\* beneficiary behind the signature.
ReviewCoversBonuses ==
  run = Idle /\ sale # None /\ Effective(sale.date) # 0 =>
    LET raw == UplineChain(sale.seller, plans[Effective(sale.date)].offer.depth)
        States == SUBSET {raw[k] : k \in 2 .. Len(raw)}
    IN \A s, t \in States, p, q \in Policies :
         ReviewMaterial(raw, s, p) = ReviewMaterial(raw, t, q)
           => BonusSponsor(raw, s, p) = BonusSponsor(raw, t, q)
=============================================================================
