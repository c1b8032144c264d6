------------------------------ MODULE PayoutDesk ------------------------------
(***************************************************************************)
(* From the reservation of a payout to the mailed check: what a dispatch   *)
(* must still be true of a member when the money leaves.                   *)
(*                                                                         *)
(* CommissionLedger treats a dispatch as one step.  Here it is the         *)
(* sequence of statements of one READ COMMITTED transaction: it locks the  *)
(* batch, waits for the payout risk fence (an advisory lock that fraud,    *)
(* KYC and sanctions writers take too), locks the members, reads each      *)
(* member's risk and evidence with several queries, and commits.  The      *)
(* print run of checks is such a sequence under the lock of the tenant's   *)
(* row.  A writer that takes one lock first and holds it to its commit is  *)
(* one step, possible while the lock is free.                              *)
(***************************************************************************)
EXTENDS Naturals, FiniteSets

CONSTANTS
  Members,     \* memberships that have payable rows
  Batches,     \* settlement batches that may be opened
  Clerks,      \* administrators and jobs with a transaction of several steps
  Methods,     \* payout methods, "check" among them
  None,        \* no owner of a lock
  MaxReviews,  \* bound: decisions on readiness evidence
  MaxRisk      \* bound: writes of fraud, KYC and sanctions state and of the setting

ASSUME NoneAssumption == None \notin Clerks
ASSUME FiniteAssumption == IsFiniteSet(Members) /\ IsFiniteSet(Batches)

VARIABLES
  fraud,       \* fraud flag of a member: status and whether the score blocks
  profile,     \* payout profile: KYC status, sanctions hit, name of a listed person
  listed,      \* the sanctions list holds the names of the current source
  requireKyc,  \* the tenant's setting
  control,     \* readiness check of a member: version, decision, not yet expired
  destination, \* version of the active payout destination, 0 when there is none
  batch,       \* status of a batch
  payout,      \* payout of a member in a batch
  lastCheckNumber, \* the tenant's counter
  fence,       \* owner of the payout risk fence
  held,        \* owner of the row lock of a batch, of a membership, of the tenant
  tx,          \* open transaction of a clerk
  reviews, risks, \* bounded counters
  reviewed     \* history: members reviewed since their last reservation

evidence == <<control, destination, reviews, reviewed>>
risk     == <<fraud, profile, listed, risks>>
locks    == <<fence, held, tx>>
books    == <<batch, payout, lastCheckNumber>>
vars     == <<risk, requireKyc, evidence, books, locks>>

Tenant == "tenant"
Idle   == [call |-> "idle"]

NoPayout == [status |-> "none", method |-> "none", control |-> 0, destination |-> 0,
             number |-> 0, mailed |-> FALSE]

(***************************************************************************)
(* Risk and readiness.                                                     *)
(***************************************************************************)
\* The days a changed profile cools down only lengthen the block, and are left out.
FraudBlocks(m)     == fraud[m].status \notin {"none", "cleared"} /\ fraud[m].high
KycBlocks(m)       == profile[m].status # "verified"
NameListed(m)      == profile[m].named /\ listed
SanctionsBlock(m)  == profile[m].hit \/ NameListed(m)

\* The answer of runtimePayoutBlock, for the value of the setting it has read.
RuntimePayoutBlock(m, kyc) == FraudBlocks(m) \/ (kyc /\ KycBlocks(m)) \/ SanctionsBlock(m)

IsReady(m) == control[m].ready /\ control[m].fresh /\ destination[m] > 0

\* Mutant of Recheck: the stored snapshot is not compared.
ReadyOnly(p, m) == IsReady(m)

\* The evidence is ready and is the evidence that was stored with the payout.
Recheck(p, m) == IsReady(m) /\ p.control = control[m].version /\ p.destination = destination[m]

\* Mutant of FenceFree: nobody takes the advisory lock.
FenceUnused == TRUE

FenceFree == fence = None
Free(l)   == held[l] = None

InBatch(b)    == {m \in Members : payout[<<b, m>>].status # "none"}
Processing(m) == \E b \in Batches : payout[<<b, m>>].status = "processing"

Init ==
  /\ \E F \in SUBSET Members :
       fraud = [m \in Members |-> [status |-> IF m \in F THEN "open" ELSE "none", high |-> FALSE]]
  /\ profile = [m \in Members |->
                  [status |-> "none", hit |-> FALSE, named |-> FALSE]]
  /\ listed = FALSE
  /\ requireKyc = FALSE
  /\ control = [m \in Members |-> [version |-> 1, ready |-> TRUE, fresh |-> TRUE]]
  /\ destination = [m \in Members |-> 1]
  /\ batch = [b \in Batches |-> "none"]
  /\ payout = [p \in Batches \X Members |-> NoPayout]
  /\ lastCheckNumber = 0
  /\ fence = None
  /\ held = [l \in Batches \cup Members \cup {Tenant} |-> None]
  /\ tx = [c \in Clerks |-> Idle]
  /\ reviews = 0 /\ risks = 0
  /\ reviewed = {}

\* A transaction ends, by its commit or by a rollback, and drops its locks.
End(c) ==
  /\ tx' = [tx EXCEPT ![c] = Idle]
  /\ fence' = IF fence = c THEN None ELSE fence
  /\ held' = [l \in DOMAIN held |-> IF held[l] = c THEN None ELSE held[l]]

(***************************************************************************)
(* Writers of risk.                                                        *)
(***************************************************************************)
RiskWrite == FenceFree /\ risks < MaxRisk /\ risks' = risks + 1

\* A member submits or changes the payout profile; the name is screened.
SubmitProfile(m) ==
  /\ RiskWrite
  /\ \E n \in BOOLEAN :
       profile' = [profile EXCEPT ![m] = [status |-> "pending_review", hit |-> n /\ listed,
                                          named |-> n]]
  /\ UNCHANGED <<fraud, listed, requireKyc, evidence, books, locks>>

\* A verification screens the name again, and only marks the hit when it is listed.
VerifyProfile(m) ==
  /\ RiskWrite
  /\ profile[m].status # "none"
  /\ profile' = [profile EXCEPT ![m] = IF NameListed(m) THEN [@ EXCEPT !.hit = TRUE]
                                       ELSE [@ EXCEPT !.status = "verified"]]
  /\ UNCHANGED <<fraud, listed, requireKyc, evidence, books, locks>>

RejectProfile(m) ==
  /\ RiskWrite
  /\ profile[m].status # "none"
  /\ profile' = [profile EXCEPT ![m].status = "rejected"]
  /\ UNCHANGED <<fraud, listed, requireKyc, evidence, books, locks>>

RefreshSanctions ==
  /\ RiskWrite
  /\ listed' = TRUE
  /\ UNCHANGED <<fraud, profile, requireKyc, evidence, books, locks>>

DecideFraud(m) ==
  /\ RiskWrite
  /\ fraud[m].status # "none"
  /\ \E s \in {"cleared", "confirmed"} : fraud' = [fraud EXCEPT ![m].status = s]
  /\ UNCHANGED <<profile, listed, requireKyc, evidence, books, locks>>

\* The hourly scan takes the fence and reads the flags there are.
StartScan(c) ==
  /\ tx[c] = Idle
  /\ RiskWrite
  /\ fence' = c
  /\ tx' = [tx EXCEPT ![c] = [call |-> "scan", existing |-> fraud]]
  /\ UNCHANGED <<fraud, profile, listed, requireKyc, evidence, books, held>>

\* The status a scan writes over the flag it has read.
Rescored(old, high) ==
  CASE old.status = "none"               -> "open"
    [] old.status = "cleared" /\ high    -> "open"
    [] OTHER                             -> old.status

\* It writes a flag for every member with signals and leaves the others alone.
FinishScan(c) ==
  /\ tx[c].call = "scan"
  /\ \E S \in SUBSET Members : \E high \in [S -> BOOLEAN] :
       fraud' = [m \in Members |->
                   IF m \in S
                   THEN [status |-> Rescored(tx[c].existing[m], high[m]), high |-> high[m]]
                   ELSE fraud[m]]
  /\ End(c)
  /\ UNCHANGED <<profile, listed, risks, requireKyc, evidence, books>>

\* Settings are written without the fence.
UpdateRequireKyc ==
  /\ risks < MaxRisk /\ risks' = risks + 1
  /\ requireKyc' = ~requireKyc
  /\ UNCHANGED <<fraud, profile, listed, evidence, books, locks>>

(***************************************************************************)
(* Readiness evidence, under the lock of the membership.                   *)
(***************************************************************************)
Review(m) ==
  /\ Free(m)
  /\ reviews < MaxReviews /\ reviews' = reviews + 1
  /\ reviewed' = reviewed \cup {m}
  /\ UNCHANGED <<risk, requireKyc, books, locks>>

\* A reviewer decides on the version that is current; an older one is refused.
DecideReadiness(m) ==
  /\ Review(m)
  /\ \E r \in BOOLEAN :
       control' = [control EXCEPT ![m] = [version |-> @.version + 1, ready |-> r, fresh |-> TRUE]]
  /\ UNCHANGED destination

ReplaceDestination(m) ==
  /\ Review(m)
  /\ destination' = [destination EXCEPT ![m] = @ + 1]
  /\ UNCHANGED control

\* The decision reaches its expiry date.
Expire(m) ==
  /\ control[m].fresh
  /\ control' = [control EXCEPT ![m].fresh = FALSE]
  /\ UNCHANGED <<risk, requireKyc, destination, reviews, reviewed, books, locks>>

(***************************************************************************)
(* Batches.                                                                *)
(***************************************************************************)
\* Reservation holds the fence from its first statement; members that are blocked,
\* not ready or in another batch are skipped.
ReservePayoutBatch(b) ==
  /\ batch[b] = "none"
  /\ FenceFree
  /\ \E M \in SUBSET Members \ {{}}, how \in Methods :
       /\ \A m \in M : /\ Free(m)
                       /\ ~Processing(m)
                       /\ ~RuntimePayoutBlock(m, requireKyc)
                       /\ IsReady(m)
       /\ payout' = [p \in DOMAIN payout |->
                       IF p[1] = b /\ p[2] \in M
                       THEN [NoPayout EXCEPT !.status = "processing", !.method = how,
                                             !.control = control[p[2]].version,
                                             !.destination = destination[p[2]]]
                       ELSE payout[p]]
       /\ reviewed' = reviewed \ M
  /\ batch' = [batch EXCEPT ![b] = "processing"]
  /\ UNCHANGED <<risk, requireKyc, control, destination, reviews, lastCheckNumber, locks>>

StartDispatch(c, b) ==
  /\ tx[c] = Idle
  /\ Free(b)
  /\ batch[b] = "processing"
  /\ held' = [held EXCEPT ![b] = c]
  /\ tx' = [tx EXCEPT ![c] = [call |-> "dispatch", batch |-> b, step |-> "batch",
                              passed |-> {}, asked |-> {}]]
  /\ UNCHANGED <<risk, requireKyc, evidence, books, fence>>

TakeFence(c) ==
  /\ tx[c].call = "dispatch" /\ tx[c].step = "batch"
  /\ FenceFree
  /\ fence' = c
  /\ tx' = [tx EXCEPT ![c].step = "fence"]
  /\ UNCHANGED <<risk, requireKyc, evidence, books, held>>

LockMembers(c) ==
  /\ tx[c].call = "dispatch" /\ tx[c].step = "fence"
  /\ \A m \in InBatch(tx[c].batch) : Free(m)
  /\ held' = [l \in DOMAIN held |-> IF l \in InBatch(tx[c].batch) THEN c ELSE held[l]]
  /\ tx' = [tx EXCEPT ![c].step = "members"]
  /\ UNCHANGED <<risk, requireKyc, evidence, books, fence>>

\* Mutant of MayCheck: the reads do not wait for the fence and the members' locks.
MayCheckEarly(c) == TRUE

MayCheck(c) == tx[c].step = "members"

\* One payout after the other is checked against the current state of its member; the
\* first that fails rolls the dispatch back (Abort).
CheckMember(c, m) ==
  /\ tx[c].call = "dispatch"
  /\ MayCheck(c)
  /\ m \in InBatch(tx[c].batch) \ tx[c].passed
  /\ ~RuntimePayoutBlock(m, requireKyc)
  /\ Recheck(payout[<<tx[c].batch, m>>], m)
  /\ tx' = [tx EXCEPT ![c].passed = @ \cup {m},
                      ![c].asked  = IF requireKyc THEN @ \cup {m} ELSE @]
  /\ UNCHANGED <<risk, requireKyc, evidence, books, fence, held>>

Dispatches(c) ==
  /\ tx[c].call = "dispatch" /\ tx[c].step = "members"
  /\ tx[c].passed = InBatch(tx[c].batch)

FinishDispatch(c) ==
  /\ Dispatches(c)
  /\ batch' = [batch EXCEPT ![tx[c].batch] = "dispatched"]
  /\ End(c)
  /\ UNCHANGED <<risk, requireKyc, evidence, payout, lastCheckNumber>>

\* Settlement and release decide under the lock of the batch, and read no risk.
SettlePayoutBatch(b) ==
  /\ Free(b)
  /\ batch[b] = "dispatched"
  /\ batch' = [batch EXCEPT ![b] = "settled"]
  /\ payout' = [p \in DOMAIN payout |->
                  IF p[1] = b /\ payout[p].status = "processing"
                  THEN [payout[p] EXCEPT !.status = "paid"] ELSE payout[p]]
  /\ UNCHANGED <<risk, requireKyc, evidence, lastCheckNumber, locks>>

FailPayoutBatch(b) ==
  /\ Free(b)
  /\ batch[b] = "processing"
  /\ batch' = [batch EXCEPT ![b] = "failed"]
  /\ payout' = [p \in DOMAIN payout |->
                  IF p[1] = b /\ payout[p].status = "processing"
                  THEN [payout[p] EXCEPT !.status = "failed"] ELSE payout[p]]
  /\ UNCHANGED <<risk, requireKyc, evidence, lastCheckNumber, locks>>

(***************************************************************************)
(* Checks.                                                                 *)
(***************************************************************************)
PaidCheck(p) == payout[p].status = "paid" /\ payout[p].method = "check"

\* Mutant of Printable: a payout that has a number is taken again.
Reprintable(p) == PaidCheck(p)

Printable(p) == PaidCheck(p) /\ payout[p].number = 0

\* Mutant of CounterFree: the tenant's row is read without its lock.
CounterUnlocked == TRUE

CounterFree == Free(Tenant)

\* A print run locks the tenant's row and reads the counter,
StartCheckRun(c) ==
  /\ tx[c] = Idle
  /\ CounterFree
  /\ held' = [held EXCEPT ![Tenant] = c]
  /\ tx' = [tx EXCEPT ![c] = [call |-> "check_run", next |-> lastCheckNumber, targets |-> {}]]
  /\ UNCHANGED <<risk, requireKyc, evidence, books, fence>>

\* then the payouts without a number; those asked for, with an address and an amount
\* that fits a check, are taken,
SelectChecks(c) ==
  /\ tx[c].call = "check_run" /\ tx[c].targets = {}
  /\ \E T \in SUBSET {p \in DOMAIN payout : Printable(p)} :
       /\ T # {}
       /\ tx' = [tx EXCEPT ![c].targets = T]
  /\ UNCHANGED <<risk, requireKyc, evidence, books, fence, held>>

\* and numbers them in some order of payment.
FinishCheckRun(c) ==
  /\ tx[c].call = "check_run" /\ tx[c].targets # {}
  /\ LET n == Cardinality(tx[c].targets) IN
       /\ \E order \in [tx[c].targets -> 1 .. n] :
            /\ \A p, q \in tx[c].targets : order[p] = order[q] => p = q
            /\ payout' = [p \in DOMAIN payout |->
                            IF p \in tx[c].targets
                            THEN [payout[p] EXCEPT !.number = tx[c].next + order[p]]
                            ELSE payout[p]]
       /\ lastCheckNumber' = tx[c].next + n
  /\ End(c)
  /\ UNCHANGED <<risk, requireKyc, evidence, batch>>

MarkMailed(p) ==
  /\ PaidCheck(p) /\ payout[p].number # 0 /\ ~payout[p].mailed
  /\ payout' = [payout EXCEPT ![p].mailed = TRUE]
  /\ UNCHANGED <<risk, requireKyc, evidence, batch, lastCheckNumber, locks>>

\* A check that fails, a timeout or a crash rolls a transaction back.
Abort(c) ==
  /\ tx[c] # Idle
  /\ End(c)
  /\ UNCHANGED <<risk, requireKyc, evidence, books>>

Next ==
  \/ \E m \in Members :
       \/ SubmitProfile(m) \/ VerifyProfile(m) \/ RejectProfile(m)
       \/ DecideFraud(m)
       \/ DecideReadiness(m) \/ ReplaceDestination(m) \/ Expire(m)
  \/ RefreshSanctions \/ UpdateRequireKyc
  \/ \E b \in Batches : ReservePayoutBatch(b) \/ SettlePayoutBatch(b) \/ FailPayoutBatch(b)
  \/ \E p \in Batches \X Members : MarkMailed(p)
  \/ \E c \in Clerks :
       \/ StartScan(c) \/ FinishScan(c)
       \/ \E b \in Batches : StartDispatch(c, b)
       \/ TakeFence(c) \/ LockMembers(c) \/ FinishDispatch(c)
       \/ \E m \in Members : CheckMember(c, m)
       \/ StartCheckRun(c) \/ SelectChecks(c) \/ FinishCheckRun(c)
       \/ Abort(c)

Spec == Init /\ [][Next]_vars

(***************************************************************************)
(* Properties.                                                             *)
(***************************************************************************)
Flags    == [status : {"none", "open", "cleared", "confirmed"}, high : BOOLEAN]
Profiles == [status : {"none", "pending_review", "verified", "rejected"},
             hit : BOOLEAN, named : BOOLEAN]
Controls == [version : Nat, ready : BOOLEAN, fresh : BOOLEAN]
Payouts  == [status : {"none", "processing", "paid", "failed"}, method : Methods \cup {"none"},
             control : Nat, destination : Nat, number : Nat, mailed : BOOLEAN]

Scans        == [call : {"scan"}, existing : [Members -> Flags]]
Dispatchings == [call : {"dispatch"}, batch : Batches, step : {"batch", "fence", "members"},
                 passed : SUBSET Members, asked : SUBSET Members]
CheckRuns    == [call : {"check_run"}, next : Nat, targets : SUBSET (Batches \X Members)]
Transactions == {Idle} \cup Scans \cup Dispatchings \cup CheckRuns

\* Every variable keeps the range of its column, lock or transaction.
TypeOK ==
  /\ fraud \in [Members -> Flags]
  /\ profile \in [Members -> Profiles]
  /\ listed \in BOOLEAN /\ requireKyc \in BOOLEAN
  /\ control \in [Members -> Controls]
  /\ destination \in [Members -> Nat]
  /\ batch \in [Batches -> {"none", "processing", "dispatched", "settled", "failed"}]
  /\ payout \in [Batches \X Members -> Payouts]
  /\ lastCheckNumber \in Nat
  /\ tx \in [Clerks -> Transactions]
  /\ fence \in Clerks \cup {None}
  /\ held \in [Batches \cup Members \cup {Tenant} -> Clerks \cup {None}]
  /\ reviews \in Nat /\ risks \in Nat
  /\ reviewed \in SUBSET Members

\* When money leaves, no member of the batch is flagged, on the sanctions list or, where
\* the dispatch has found that the tenant asks for it, without a verified profile: no risk
\* decision slips in between the reads of dispatchPayoutBatch and its commit.
NothingSlipsIn ==
  [][\A c \in Clerks : \A m \in Members :
       (tx[c].call = "dispatch" /\ batch[tx[c].batch] = "processing"
          /\ batch'[tx[c].batch] = "dispatched" /\ m \in InBatch(tx[c].batch))
         => ~RuntimePayoutBlock(m, m \in tx[c].asked)]_vars

\* When money leaves, no member of the batch has been reviewed since the reservation,
\* not even back and forth: the versions of the snapshot tell a repeated state apart.
DispatchedAsReserved ==
  [][\A b \in Batches :
       (batch[b] = "processing" /\ batch'[b] = "dispatched") => InBatch(b) \cap reviewed = {}]_vars

\* A scan never undoes an administrator's decision: it opens a flag only for a member
\* without one, or a cleared one when the new score blocks.
ScansKeepDecisions ==
  [][\A m \in Members :
       (fraud'[m].status = "open" /\ fraud[m].status # "open")
         => \/ fraud[m].status = "none"
            \/ fraud[m].status = "cleared" /\ fraud'[m].high]_vars

\* Two payouts never carry the same check number, and the counter is never behind.
CheckNumbersAreUnique ==
  /\ \A p, q \in DOMAIN payout :
       payout[p].number # 0 /\ payout[p].number = payout[q].number => p = q
  /\ \A p \in DOMAIN payout : payout[p].number <= lastCheckNumber

\* A payout is printed on one check: concurrent or repeated print runs never give it
\* another number, which would put a second check for the same money in the mail.
OneCheckPerPayout ==
  [][\A p \in DOMAIN payout : payout[p].number # 0 => payout'[p].number = payout[p].number]_vars
===============================================================================
