--------------------------- MODULE PayoutDesk_proofs ---------------------------
(***************************************************************************)
(* What the locks of a dispatch, of a scan and of a print run protect, for *)
(* any numbers of members, batches and clerks.                             *)
(***************************************************************************)
EXTENDS PayoutDesk, FiniteSetTheorems, TLAPS

(***************************************************************************)
(* Types.                                                                  *)
(***************************************************************************)
\* The transaction of a clerk is told by its call.
LEMMA TransactionType ==
  ASSUME TypeOK, NEW c \in Clerks
  PROVE  /\ tx[c].call = "scan"      => tx[c] \in Scans
         /\ tx[c].call = "dispatch"  => tx[c] \in Dispatchings
         /\ tx[c].call = "check_run" => tx[c] \in CheckRuns
         /\ tx[c] = Idle <=> tx[c].call = "idle"
         /\ tx[c].call \in {"idle", "scan", "dispatch", "check_run"}
<1>1. tx[c] \in {Idle} \cup Scans \cup Dispatchings \cup CheckRuns
  BY DEF TypeOK, Transactions
<1>2. CASE tx[c] = Idle
  BY <1>2 DEF Idle
<1>3. CASE tx[c] \in Scans
  BY <1>3 DEF Idle, Scans
<1>4. CASE tx[c] \in Dispatchings
  BY <1>4 DEF Idle, Dispatchings
<1>5. CASE tx[c] \in CheckRuns
  BY <1>5 DEF Idle, CheckRuns
<1> QED BY <1>1, <1>2, <1>3, <1>4, <1>5

\* The end of a transaction keeps the types of the locks.
LEMMA EndTypes ==
  ASSUME TypeOK, NEW c \in Clerks, End(c)
  PROVE  /\ tx' \in [Clerks -> Transactions]
         /\ fence' \in Clerks \cup {None}
         /\ held' \in [Batches \cup Members \cup {Tenant} -> Clerks \cup {None}]
BY DEF TypeOK, End, Transactions

\* A set of payouts has a number of elements, since members and batches are finite.
LEMMA TargetsFinite ==
  ASSUME NEW T \in SUBSET (Batches \X Members)
  PROVE  Cardinality(T) \in Nat
<1>1. IsFiniteSet(Batches \X Members)
  BY FiniteAssumption, FS_Product
<1> QED BY <1>1, FS_Subset, FS_CardinalityType

\* The desk starts well typed.
LEMMA TypeInit == Init => TypeOK
<1> SUFFICES ASSUME Init PROVE TypeOK
  OBVIOUS
<1>1. fraud \in [Members -> Flags]
  BY DEF Init, Flags
<1>2. profile \in [Members -> Profiles] /\ control \in [Members -> Controls]
  BY DEF Init, Profiles, Controls
<1>3. payout \in [Batches \X Members -> Payouts]
  BY DEF Init, Payouts, NoPayout
<1>4. tx \in [Clerks -> Transactions]
  BY DEF Init, Transactions
<1> QED BY <1>1, <1>2, <1>3, <1>4 DEF Init, TypeOK

\* The steps that write risk and evidence.
LEMMA RiskStepTypes ==
  ASSUME TypeOK,
         \/ \E m \in Members : \/ SubmitProfile(m) \/ VerifyProfile(m) \/ RejectProfile(m)
                               \/ DecideFraud(m) \/ DecideReadiness(m)
                               \/ ReplaceDestination(m) \/ Expire(m)
         \/ RefreshSanctions \/ UpdateRequireKyc
  PROVE  TypeOK'
<1>1. ASSUME NEW m \in Members, SubmitProfile(m) \/ VerifyProfile(m) \/ RejectProfile(m)
      PROVE  TypeOK'
  <2>1. profile' \in [Members -> Profiles]
    <3>1. profile[m] \in Profiles
      BY DEF TypeOK
    <3>2. ASSUME NEW v \in Profiles, profile' = [profile EXCEPT ![m] = v]
          PROVE  profile' \in [Members -> Profiles]
      BY <3>2 DEF TypeOK
    <3>3. CASE SubmitProfile(m)
      <4>1. PICK n \in BOOLEAN :
              profile' = [profile EXCEPT ![m] = [status |-> "pending_review",
                                                 hit |-> n /\ listed, named |-> n]]
        BY <3>3 DEF SubmitProfile
      <4>2. (n /\ listed) \in BOOLEAN
        BY DEF TypeOK
      <4>3. [status |-> "pending_review", hit |-> n /\ listed, named |-> n] \in Profiles
        BY <4>2 DEF Profiles
      <4> QED BY <4>1, <4>3, <3>2
    <3>4. CASE VerifyProfile(m)
      <4>1. /\ [profile[m] EXCEPT !.hit = TRUE] \in Profiles
            /\ [profile[m] EXCEPT !.status = "verified"] \in Profiles
        BY <3>1 DEF Profiles
      <4>2. \/ profile' = [profile EXCEPT ![m] = [profile[m] EXCEPT !.hit = TRUE]]
            \/ profile' = [profile EXCEPT ![m] = [profile[m] EXCEPT !.status = "verified"]]
        BY <3>4 DEF VerifyProfile
      <4> QED BY <4>1, <4>2, <3>2
    <3>5. CASE RejectProfile(m)
      <4>1. [profile[m] EXCEPT !.status = "rejected"] \in Profiles
        BY <3>1 DEF Profiles
      <4>2. profile' = [profile EXCEPT ![m] = [profile[m] EXCEPT !.status = "rejected"]]
        BY <3>5 DEF RejectProfile
      <4> QED BY <4>1, <4>2, <3>2
    <3> QED BY <1>1, <3>3, <3>4, <3>5
  <2> QED BY <1>1, <2>1
          DEF TypeOK, SubmitProfile, VerifyProfile, RejectProfile, RiskWrite, evidence, books, locks
<1>2. ASSUME NEW m \in Members, DecideFraud(m)
      PROVE  TypeOK'
  <2>1. fraud' \in [Members -> Flags]
    BY <1>2 DEF TypeOK, Flags, DecideFraud
  <2> QED BY <1>2, <2>1 DEF TypeOK, DecideFraud, RiskWrite, evidence, books, locks
<1>3. ASSUME NEW m \in Members, DecideReadiness(m) \/ ReplaceDestination(m) \/ Expire(m)
      PROVE  TypeOK'
  <2>1. control' \in [Members -> Controls]
    <3>1. control[m] \in Controls
      BY DEF TypeOK
    <3>2. ASSUME NEW v \in Controls, control' = [control EXCEPT ![m] = v]
          PROVE  control' \in [Members -> Controls]
      BY <3>2 DEF TypeOK
    <3>3. CASE DecideReadiness(m)
      <4>1. PICK r \in BOOLEAN :
              control' = [control EXCEPT ![m] = [version |-> control[m].version + 1,
                                                 ready |-> r, fresh |-> TRUE]]
        BY <3>3 DEF DecideReadiness
      <4>2. [version |-> control[m].version + 1, ready |-> r, fresh |-> TRUE] \in Controls
        BY <3>1 DEF Controls
      <4> QED BY <4>1, <4>2, <3>2
    <3>4. CASE ReplaceDestination(m)
      BY <3>4 DEF TypeOK, ReplaceDestination
    <3>5. CASE Expire(m)
      <4>1. [control[m] EXCEPT !.fresh = FALSE] \in Controls
        BY <3>1 DEF Controls
      <4>2. control' = [control EXCEPT ![m] = [control[m] EXCEPT !.fresh = FALSE]]
        BY <3>5 DEF Expire
      <4> QED BY <4>1, <4>2, <3>2
    <3> QED BY <1>3, <3>3, <3>4, <3>5
  <2>2. destination' \in [Members -> Nat]
    BY <1>3 DEF TypeOK, DecideReadiness, ReplaceDestination, Expire
  <2>3. reviews' \in Nat /\ reviewed' \in SUBSET Members
    BY <1>3 DEF TypeOK, DecideReadiness, ReplaceDestination, Expire, Review
  <2> QED BY <1>3, <2>1, <2>2, <2>3
          DEF TypeOK, DecideReadiness, ReplaceDestination, Expire, Review, risk, books, locks
<1>4. ASSUME RefreshSanctions \/ UpdateRequireKyc
      PROVE  TypeOK'
  <2>1. CASE RefreshSanctions
    BY <2>1 DEF TypeOK, RefreshSanctions, RiskWrite, evidence, books, locks
  <2>2. CASE UpdateRequireKyc
    <3>1. requireKyc' \in BOOLEAN
      BY <2>2 DEF UpdateRequireKyc
    <3> QED BY <2>2, <3>1 DEF TypeOK, UpdateRequireKyc, evidence, books, locks
  <2> QED BY <1>4, <2>1, <2>2
<1> QED BY <1>1, <1>2, <1>3, <1>4

\* The steps on batches and checks that are a transaction of their own.
LEMMA BookStepTypes ==
  ASSUME TypeOK,
         \/ \E b \in Batches : ReservePayoutBatch(b) \/ SettlePayoutBatch(b) \/ FailPayoutBatch(b)
         \/ \E p \in Batches \X Members : MarkMailed(p)
  PROVE  TypeOK'
<1>1. ASSUME NEW b \in Batches, ReservePayoutBatch(b)
      PROVE  TypeOK'
  <2>1. payout' \in [Batches \X Members -> Payouts]
    <3> PICK M \in SUBSET Members \ {{}}, how \in Methods :
          payout' = [p \in DOMAIN payout |->
                       IF p[1] = b /\ p[2] \in M
                       THEN [NoPayout EXCEPT !.status = "processing", !.method = how,
                                             !.control = control[p[2]].version,
                                             !.destination = destination[p[2]]]
                       ELSE payout[p]]
      BY <1>1 DEF ReservePayoutBatch
    <3>1. ASSUME NEW m \in Members
          PROVE  [NoPayout EXCEPT !.status = "processing", !.method = how,
                                  !.control = control[m].version,
                                  !.destination = destination[m]] \in Payouts
      BY DEF TypeOK, Payouts, NoPayout, Controls
    <3> QED BY <3>1 DEF TypeOK
  <2>2. batch' \in [Batches -> {"none", "processing", "dispatched", "settled", "failed"}]
        /\ reviewed' \in SUBSET Members
    BY <1>1 DEF TypeOK, ReservePayoutBatch
  <2> QED BY <1>1, <2>1, <2>2 DEF TypeOK, ReservePayoutBatch, risk, locks
<1>2. ASSUME NEW b \in Batches, SettlePayoutBatch(b) \/ FailPayoutBatch(b)
      PROVE  TypeOK'
  <2>1. payout' \in [Batches \X Members -> Payouts]
    <3>1. ASSUME NEW p \in Batches \X Members
          PROVE  /\ [payout[p] EXCEPT !.status = "paid"] \in Payouts
                 /\ [payout[p] EXCEPT !.status = "failed"] \in Payouts
                 /\ payout[p] \in Payouts
      BY DEF TypeOK, Payouts
    <3>2. DOMAIN payout = Batches \X Members
      BY DEF TypeOK
    <3> DEFINE Moved(new) == [p \in DOMAIN payout |->
                                IF p[1] = b /\ payout[p].status = "processing"
                                THEN [payout[p] EXCEPT !.status = new] ELSE payout[p]]
    <3>3. Moved("paid") \in [Batches \X Members -> Payouts]
      BY <3>1, <3>2
    <3>4. Moved("failed") \in [Batches \X Members -> Payouts]
      BY <3>1, <3>2
    <3>5. SettlePayoutBatch(b) => payout' = Moved("paid")
      BY DEF SettlePayoutBatch
    <3>6. FailPayoutBatch(b) => payout' = Moved("failed")
      BY DEF FailPayoutBatch
    <3> QED BY <1>2, <3>3, <3>4, <3>5, <3>6
  <2>2. batch' \in [Batches -> {"none", "processing", "dispatched", "settled", "failed"}]
    BY <1>2 DEF TypeOK, SettlePayoutBatch, FailPayoutBatch
  <2> QED BY <1>2, <2>1, <2>2 DEF TypeOK, SettlePayoutBatch, FailPayoutBatch, risk, evidence, locks
<1>3. ASSUME NEW p \in Batches \X Members, MarkMailed(p)
      PROVE  TypeOK'
  <2>1. payout' \in [Batches \X Members -> Payouts]
    <3>0. payout[p] \in Payouts
      BY DEF TypeOK
    <3>1. [payout[p] EXCEPT !.mailed = TRUE] \in Payouts
      BY <3>0 DEF Payouts
    <3>2. payout' = [payout EXCEPT ![p] = [payout[p] EXCEPT !.mailed = TRUE]]
      BY <1>3 DEF MarkMailed
    <3> QED BY <3>1, <3>2 DEF TypeOK
  <2> QED BY <1>3, <2>1 DEF TypeOK, MarkMailed, risk, evidence, locks
<1> QED BY <1>1, <1>2, <1>3

\* The steps of a clerk.
ClerkStep(c) ==
  \/ StartScan(c) \/ FinishScan(c)
  \/ \E b \in Batches : StartDispatch(c, b)
  \/ TakeFence(c) \/ LockMembers(c) \/ FinishDispatch(c)
  \/ \E m \in Members : CheckMember(c, m)
  \/ StartCheckRun(c) \/ SelectChecks(c) \/ FinishCheckRun(c)
  \/ Abort(c)

\* The value a clerk's transaction takes in a step that does not end it is a transaction.
LEMMA ClerkTransaction ==
  ASSUME TypeOK, NEW c \in Clerks,
         \/ StartScan(c)
         \/ \E b \in Batches : StartDispatch(c, b)
         \/ TakeFence(c) \/ LockMembers(c)
         \/ \E m \in Members : CheckMember(c, m)
         \/ StartCheckRun(c) \/ SelectChecks(c)
  PROVE  tx' \in [Clerks -> Transactions]
<1>1. ASSUME NEW v \in Transactions, tx' = [tx EXCEPT ![c] = v]
      PROVE  tx' \in [Clerks -> Transactions]
  BY <1>1 DEF TypeOK
<1>2. ASSUME StartScan(c) PROVE tx' \in [Clerks -> Transactions]
  <2>1. [call |-> "scan", existing |-> fraud] \in Transactions
    BY DEF Transactions, Scans, TypeOK
  <2> QED BY <1>1, <1>2, <2>1 DEF StartScan
<1>3. ASSUME NEW b \in Batches, StartDispatch(c, b) PROVE tx' \in [Clerks -> Transactions]
  <2>1. [call |-> "dispatch", batch |-> b, step |-> "batch", passed |-> {}, asked |-> {}]
          \in Transactions
    BY DEF Transactions, Dispatchings
  <2> QED BY <1>1, <1>3, <2>1 DEF StartDispatch
<1>4. ASSUME TakeFence(c) \/ LockMembers(c) PROVE tx' \in [Clerks -> Transactions]
  <2>1. tx[c] \in Dispatchings
    BY <1>4, TransactionType DEF TakeFence, LockMembers
  <2>2. /\ [tx[c] EXCEPT !.step = "fence"] \in Transactions
        /\ [tx[c] EXCEPT !.step = "members"] \in Transactions
    BY <2>1 DEF Transactions, Dispatchings
  <2>3. \/ tx' = [tx EXCEPT ![c] = [tx[c] EXCEPT !.step = "fence"]]
        \/ tx' = [tx EXCEPT ![c] = [tx[c] EXCEPT !.step = "members"]]
    BY <1>4 DEF TakeFence, LockMembers
  <2> QED BY <1>1, <2>2, <2>3
<1>5. ASSUME NEW m \in Members, CheckMember(c, m) PROVE tx' \in [Clerks -> Transactions]
  <2>1. tx[c] \in Dispatchings
    BY <1>5, TransactionType DEF CheckMember
  <2> DEFINE v == [tx[c] EXCEPT !.passed = @ \cup {m},
                                !.asked = IF requireKyc THEN @ \cup {m} ELSE @]
  <2>2. v \in Transactions
    BY <2>1 DEF Transactions, Dispatchings
  <2>3. tx' = [tx EXCEPT ![c] = v]
    BY <1>5 DEF CheckMember
  <2> QED BY <1>1, <2>2, <2>3
<1>6. ASSUME StartCheckRun(c) PROVE tx' \in [Clerks -> Transactions]
  <2>1. [call |-> "check_run", next |-> lastCheckNumber, targets |-> {}] \in Transactions
    BY DEF Transactions, CheckRuns, TypeOK
  <2> QED BY <1>1, <1>6, <2>1 DEF StartCheckRun
<1>7. ASSUME SelectChecks(c) PROVE tx' \in [Clerks -> Transactions]
  <2>1. tx[c] \in CheckRuns
    BY <1>7, TransactionType DEF SelectChecks
  <2>2. PICK T \in SUBSET (Batches \X Members) : tx' = [tx EXCEPT ![c].targets = T]
    BY <1>7 DEF SelectChecks, TypeOK
  <2>3. [tx[c] EXCEPT !.targets = T] \in Transactions
    BY <2>1 DEF Transactions, CheckRuns
  <2>4. tx' = [tx EXCEPT ![c] = [tx[c] EXCEPT !.targets = T]]
    BY <2>2
  <2> QED BY <1>1, <2>3, <2>4
<1> QED BY <1>2, <1>3, <1>4, <1>5, <1>6, <1>7

\* The steps of a clerk keep the state well typed.
LEMMA ClerkStepTypes ==
  ASSUME TypeOK, NEW c \in Clerks, ClerkStep(c)
  PROVE  TypeOK'
<1>1. ASSUME StartScan(c) PROVE TypeOK'
  <2>1. tx' \in [Clerks -> Transactions]
    BY <1>1, ClerkTransaction
  <2> QED BY <1>1, <2>1 DEF TypeOK, StartScan, RiskWrite, evidence, books
<1>2. ASSUME FinishScan(c) PROVE TypeOK'
  <2>1. fraud' \in [Members -> Flags]
    <3>1. tx[c] \in Scans
      BY <1>2, TransactionType DEF FinishScan
    <3>2. ASSUME NEW old \in Flags, NEW high \in BOOLEAN
          PROVE  [status |-> Rescored(old, high), high |-> high] \in Flags
      BY DEF Flags, Rescored
    <3> QED BY <1>2, <3>1, <3>2 DEF TypeOK, FinishScan, Scans
  <2> QED BY <1>2, <2>1, EndTypes DEF TypeOK, FinishScan, evidence, books
<1>3. ASSUME NEW b \in Batches, StartDispatch(c, b) PROVE TypeOK'
  BY <1>3, ClerkTransaction DEF TypeOK, StartDispatch, risk, evidence, books
<1>4. ASSUME TakeFence(c) \/ LockMembers(c) PROVE TypeOK'
  BY <1>4, ClerkTransaction DEF TypeOK, TakeFence, LockMembers, risk, evidence, books
<1>5. ASSUME NEW m \in Members, CheckMember(c, m) PROVE TypeOK'
  BY <1>5, ClerkTransaction DEF TypeOK, CheckMember, risk, evidence, books
<1>6. ASSUME FinishDispatch(c) PROVE TypeOK'
  BY <1>6, EndTypes DEF TypeOK, FinishDispatch, risk, evidence
<1>7. ASSUME StartCheckRun(c) \/ SelectChecks(c) PROVE TypeOK'
  BY <1>7, ClerkTransaction DEF TypeOK, StartCheckRun, SelectChecks, risk, evidence, books
<1>8. ASSUME FinishCheckRun(c) PROVE TypeOK'
  <2>1. tx[c] \in CheckRuns
    BY <1>8, TransactionType DEF FinishCheckRun
  <2>2. Cardinality(tx[c].targets) \in Nat
    BY <2>1, TargetsFinite DEF CheckRuns
  <2>3. lastCheckNumber' \in Nat
    BY <1>8, <2>1, <2>2 DEF FinishCheckRun, CheckRuns
  <2>4. payout' \in [Batches \X Members -> Payouts]
    <3>1. PICK order \in [tx[c].targets -> 1 .. Cardinality(tx[c].targets)] :
            payout' = [p \in DOMAIN payout |->
                         IF p \in tx[c].targets
                         THEN [payout[p] EXCEPT !.number = tx[c].next + order[p]]
                         ELSE payout[p]]
      BY <1>8 DEF FinishCheckRun
    <3>2. ASSUME NEW p \in tx[c].targets
          PROVE  tx[c].next + order[p] \in Nat
      BY <2>1, <2>2 DEF CheckRuns
    <3>3. ASSUME NEW p \in Batches \X Members, NEW n \in Nat
          PROVE  [payout[p] EXCEPT !.number = n] \in Payouts
      BY DEF TypeOK, Payouts
    <3>4. payout \in [Batches \X Members -> Payouts]
      BY DEF TypeOK
    <3> QED BY <3>1, <3>2, <3>3, <3>4
  <2> QED BY <1>8, <2>3, <2>4, EndTypes DEF TypeOK, FinishCheckRun, risk, evidence
<1>9. ASSUME Abort(c) PROVE TypeOK'
  BY <1>9, EndTypes DEF TypeOK, Abort, risk, evidence, books
<1> QED BY <1>1, <1>2, <1>3, <1>4, <1>5, <1>6, <1>7, <1>8, <1>9 DEF ClerkStep

\* Every step keeps the state well typed.
LEMMA TypeStep == TypeOK /\ [Next]_vars => TypeOK'
<1> SUFFICES ASSUME TypeOK, [Next]_vars PROVE TypeOK'
  OBVIOUS
<1>1. ASSUME UNCHANGED vars PROVE TypeOK'
  BY <1>1 DEF TypeOK, vars, risk, evidence, books, locks
<1> QED BY <1>1, RiskStepTypes, BookStepTypes, ClerkStepTypes DEF Next, ClerkStep

\* Every variable of the payout desk keeps its type.
THEOREM TypeCorrect == Spec => []TypeOK
BY TypeInit, TypeStep, PTL DEF Spec

(***************************************************************************)
(* Locks.                                                                  *)
(***************************************************************************)
\* A scan, and a dispatch past its first lock, hold the fence, and the scan's flags are
\* the flags.
FenceInv ==
  \A c \in Clerks :
    /\ tx[c].call = "scan" => fence = c /\ tx[c].existing = fraud
    /\ tx[c].call = "dispatch" /\ tx[c].step # "batch" => fence = c

\* A dispatch holds its batch, which is not dispatched, and at last the batch's members.
LockInv ==
  \A c \in Clerks :
    tx[c].call = "dispatch" =>
      /\ held[tx[c].batch] = c
      /\ batch[tx[c].batch] = "processing"
      /\ tx[c].step = "members" => \A m \in InBatch(tx[c].batch) : held[m] = c

\* The kinds of steps, told apart by what they leave alone.
LEMMA StepKinds ==
  ASSUME [Next]_vars
  PROVE  \/ /\ UNCHANGED <<evidence, books, locks>>
            /\ FenceFree \/ UNCHANGED <<fraud, profile, listed>>
         \/ \E m \in Members : DecideReadiness(m) \/ ReplaceDestination(m) \/ Expire(m)
         \/ \E b \in Batches : ReservePayoutBatch(b) \/ SettlePayoutBatch(b) \/ FailPayoutBatch(b)
         \/ \E p \in Batches \X Members : MarkMailed(p)
         \/ \E c \in Clerks : ClerkStep(c)
<1>1. CASE UNCHANGED vars
  BY <1>1 DEF vars, risk
<1>2. ASSUME NEW m \in Members,
             SubmitProfile(m) \/ VerifyProfile(m) \/ RejectProfile(m) \/ DecideFraud(m)
      PROVE  FenceFree /\ UNCHANGED <<evidence, books, locks>>
  BY <1>2 DEF SubmitProfile, VerifyProfile, RejectProfile, DecideFraud, RiskWrite
<1>3. CASE RefreshSanctions
  BY <1>3 DEF RefreshSanctions, RiskWrite
<1>4. CASE UpdateRequireKyc
  BY <1>4 DEF UpdateRequireKyc
<1> QED BY <1>1, <1>2, <1>3, <1>4 DEF Next, ClerkStep

\* What a clerk holds it keeps, and its transaction stays as it is, until its own step.
LEMMA Undisturbed ==
  ASSUME TypeOK, [Next]_vars, NEW c \in Clerks, ~ClerkStep(c)
  PROVE  /\ tx'[c] = tx[c]
         /\ fence = c => fence' = c
         /\ \A l \in Batches \cup Members \cup {Tenant} : held[l] = c => held'[l] = c
<1>1. CASE UNCHANGED locks
  BY <1>1 DEF locks
<1>2. ASSUME NEW d \in Clerks, d # c, ClerkStep(d)
      PROVE  /\ tx'[c] = tx[c]
             /\ fence = c => fence' = c
             /\ \A l \in Batches \cup Members \cup {Tenant} : held[l] = c => held'[l] = c
  <2>0. c # None /\ tx \in [Clerks -> Transactions] /\ DOMAIN held = Batches \cup Members \cup {Tenant}
    BY NoneAssumption DEF TypeOK
  <2>1. CASE StartScan(d)
    BY <1>2, <2>0, <2>1 DEF StartScan, RiskWrite, FenceFree
  <2>2. CASE End(d)
    BY <1>2, <2>0, <2>2 DEF End
  <2>3. ASSUME NEW b \in Batches, StartDispatch(d, b)
        PROVE  /\ tx'[c] = tx[c]
               /\ fence = c => fence' = c
               /\ \A l \in Batches \cup Members \cup {Tenant} : held[l] = c => held'[l] = c
    BY <1>2, <2>0, <2>3 DEF StartDispatch, Free
  <2>4. CASE TakeFence(d)
    BY <1>2, <2>0, <2>4 DEF TakeFence, FenceFree
  <2>5. CASE LockMembers(d)
    BY <1>2, <2>0, <2>5 DEF LockMembers, Free
  <2>6. ASSUME NEW m \in Members, CheckMember(d, m)
        PROVE  tx'[c] = tx[c] /\ fence' = fence /\ held' = held
    BY <1>2, <2>0, <2>6 DEF CheckMember
  <2>7. CASE StartCheckRun(d)
    BY <1>2, <2>0, <2>7 DEF StartCheckRun, CounterFree, Free
  <2>8. CASE SelectChecks(d)
    BY <1>2, <2>0, <2>8 DEF SelectChecks
  <2>9. FinishScan(d) \/ FinishDispatch(d) \/ FinishCheckRun(d) \/ Abort(d) => End(d)
    BY DEF FinishScan, FinishDispatch, FinishCheckRun, Abort
  <2> QED BY <1>2, <2>1, <2>2, <2>3, <2>4, <2>5, <2>6, <2>7, <2>8, <2>9 DEF ClerkStep
<1>3. ASSUME NEW m \in Members, DecideReadiness(m) \/ ReplaceDestination(m) \/ Expire(m)
      PROVE  UNCHANGED locks
  BY <1>3 DEF DecideReadiness, ReplaceDestination, Expire, Review
<1>4. ASSUME NEW b \in Batches, ReservePayoutBatch(b) \/ SettlePayoutBatch(b) \/ FailPayoutBatch(b)
      PROVE  UNCHANGED locks
  BY <1>4 DEF ReservePayoutBatch, SettlePayoutBatch, FailPayoutBatch
<1>5. ASSUME NEW p \in Batches \X Members, MarkMailed(p)
      PROVE  UNCHANGED locks
  BY <1>5 DEF MarkMailed
<1> QED BY <1>1, <1>2, <1>3, <1>4, <1>5, StepKinds

\* Behind the fence of a clerk no risk changes, but by its own scan.
LEMMA RiskHeld ==
  ASSUME FenceInv, [Next]_vars, NEW c \in Clerks, fence = c, ~FinishScan(c)
  PROVE  UNCHANGED <<fraud, profile, listed>>
<1>1. ~FenceFree
  BY NoneAssumption DEF FenceFree
<1>2. ASSUME NEW m \in Members, DecideReadiness(m) \/ ReplaceDestination(m) \/ Expire(m)
      PROVE  UNCHANGED <<fraud, profile, listed>>
  BY <1>2 DEF DecideReadiness, ReplaceDestination, Expire, Review, risk
<1>3. ASSUME NEW b \in Batches, ReservePayoutBatch(b) \/ SettlePayoutBatch(b) \/ FailPayoutBatch(b)
      PROVE  UNCHANGED <<fraud, profile, listed>>
  BY <1>3 DEF ReservePayoutBatch, SettlePayoutBatch, FailPayoutBatch, risk
<1>4. ASSUME NEW p \in Batches \X Members, MarkMailed(p)
      PROVE  UNCHANGED <<fraud, profile, listed>>
  BY <1>4 DEF MarkMailed, risk
<1>5. ASSUME NEW d \in Clerks, ClerkStep(d)
      PROVE  UNCHANGED <<fraud, profile, listed>>
  <2>1. ~StartScan(d)
    BY <1>1 DEF StartScan, RiskWrite
  <2>2. ~FinishScan(d)
    BY DEF FinishScan, FenceInv
  <2> QED BY <1>5, <2>1, <2>2
          DEF ClerkStep, StartDispatch, TakeFence, LockMembers, CheckMember, FinishDispatch,
              StartCheckRun, SelectChecks, FinishCheckRun, Abort, risk
<1> QED BY <1>1, <1>2, <1>3, <1>4, <1>5, StepKinds

\* Every step keeps the account of who holds the risk lock of the tenant.
LEMMA FenceStep ==
  ASSUME TypeOK, FenceInv, [Next]_vars
  PROVE  FenceInv'
<1> SUFFICES ASSUME NEW c \in Clerks
             PROVE  /\ tx'[c].call = "scan" => fence' = c /\ tx'[c].existing = fraud'
                    /\ tx'[c].call = "dispatch" /\ tx'[c].step # "batch" => fence' = c
  BY DEF FenceInv
<1>0. tx \in [Clerks -> Transactions]
  BY DEF TypeOK
<1>1. CASE ~ClerkStep(c)
  <2>1. tx'[c] = tx[c] /\ (fence = c => fence' = c)
    BY <1>1, Undisturbed
  <2>2. fence = c => fraud' = fraud
    BY <1>1, RiskHeld DEF ClerkStep
  <2> QED BY <2>1, <2>2 DEF FenceInv
<1>2. CASE StartScan(c)
  BY <1>0, <1>2 DEF StartScan
<1>3. ASSUME NEW b \in Batches, StartDispatch(c, b)
      PROVE  tx'[c].call = "dispatch" /\ tx'[c].step = "batch"
  BY <1>0, <1>3 DEF StartDispatch
<1>4. CASE TakeFence(c)
  <2>1. tx'[c].call = "dispatch" /\ fence' = c
    BY <1>0, <1>4, TransactionType DEF TakeFence, Dispatchings
  <2> QED BY <2>1
<1>5. CASE LockMembers(c) \/ \E m \in Members : CheckMember(c, m)
  <2>1. tx[c].call = "dispatch" /\ tx[c].step \in {"members", "fence"}
    BY <1>5 DEF LockMembers, CheckMember, MayCheck
  <2>2. tx'[c].call = "dispatch" /\ fence' = fence
    BY <1>0, <1>5, TransactionType DEF LockMembers, CheckMember, Dispatchings
  <2>3. fence = c
    BY <1>5, <2>1 DEF LockMembers, CheckMember, FenceInv
  <2> QED BY <2>2, <2>3
<1>6. CASE StartCheckRun(c) \/ SelectChecks(c)
  <2>1. tx'[c].call = "check_run"
    BY <1>0, <1>6, TransactionType DEF StartCheckRun, SelectChecks, CheckRuns
  <2> QED BY <2>1
<1>7. CASE End(c)
  BY <1>0, <1>7 DEF End, Idle
<1>8. FinishScan(c) \/ FinishDispatch(c) \/ FinishCheckRun(c) \/ Abort(c) => End(c)
  BY DEF FinishScan, FinishDispatch, FinishCheckRun, Abort
<1> QED BY <1>1, <1>2, <1>3, <1>4, <1>5, <1>6, <1>7, <1>8 DEF ClerkStep

(***************************************************************************)
(* Payouts and evidence.                                                   *)
(***************************************************************************)
\* The payouts of a batch follow its status; a payout in flight carries versions that
\* are not ahead of the evidence, and if they are the current ones, nobody has reviewed
\* the member since.
EvidenceOf(b, m) ==
  /\ batch[b] = "none" => payout[<<b, m>>].status = "none"
  /\ batch[b] = "processing" => payout[<<b, m>>].status \in {"none", "processing"}
  /\ payout[<<b, m>>].status = "processing" =>
       /\ payout[<<b, m>>].control <= control[m].version
       /\ payout[<<b, m>>].destination <= destination[m]
       /\ payout[<<b, m>>].control = control[m].version
            /\ payout[<<b, m>>].destination = destination[m] => m \notin reviewed

EvidenceInv == \A b \in Batches : \A m \in Members : EvidenceOf(b, m)

\* The steps of a clerk leave the evidence alone, and of a payout change the number only.
LEMMA ClerkKeepsEvidence ==
  ASSUME TypeOK, NEW c \in Clerks, ClerkStep(c)
  PROVE  /\ UNCHANGED evidence
         /\ \A p \in Batches \X Members : payout'[p] = [payout[p] EXCEPT !.number = payout'[p].number]
         /\ \A b \in Batches : batch'[b] # batch[b] =>
               FinishDispatch(c) /\ tx[c].batch = b /\ batch'[b] = "dispatched"
<1>0. /\ payout \in [Batches \X Members -> Payouts]
      /\ \A p \in Batches \X Members : payout[p] = [payout[p] EXCEPT !.number = payout[p].number]
  BY DEF TypeOK, Payouts
<1>1. CASE FinishCheckRun(c)
  <2>1. UNCHANGED evidence /\ batch' = batch
    BY <1>1 DEF FinishCheckRun
  <2>2. PICK order :
          payout' = [p \in DOMAIN payout |->
                       IF p \in tx[c].targets
                       THEN [payout[p] EXCEPT !.number = tx[c].next + order[p]]
                       ELSE payout[p]]
    BY <1>1 DEF FinishCheckRun
  <2>3. ASSUME NEW p \in Batches \X Members
        PROVE  payout'[p] = [payout[p] EXCEPT !.number = payout'[p].number]
    <3>1. payout[p] \in Payouts /\ p \in DOMAIN payout
      BY <1>0
    <3>2. CASE p \in tx[c].targets
      <4>1. payout'[p] = [payout[p] EXCEPT !.number = tx[c].next + order[p]]
        BY <2>2, <3>1, <3>2
      <4> QED BY <3>1, <4>1 DEF Payouts
    <3>3. CASE p \notin tx[c].targets
      BY <1>0, <2>2, <3>1, <3>3
    <3> QED BY <3>2, <3>3
  <2> QED BY <2>1, <2>3
<1>2. CASE FinishDispatch(c)
  <2>1. UNCHANGED evidence /\ payout' = payout
    BY <1>2 DEF FinishDispatch
  <2>2. batch' = [batch EXCEPT ![tx[c].batch] = "dispatched"]
    BY <1>2 DEF FinishDispatch
  <2> QED BY <1>0, <1>2, <2>1, <2>2 DEF TypeOK
<1>3. CASE ~FinishCheckRun(c) /\ ~FinishDispatch(c)
  <2>1. UNCHANGED <<evidence, batch, payout>>
    BY <1>3 DEF ClerkStep, StartScan, FinishScan, StartDispatch, TakeFence, LockMembers,
                CheckMember, StartCheckRun, SelectChecks, Abort, books
  <2> QED BY <1>0, <2>1
<1> QED BY <1>1, <1>2, <1>3

\* No payout has stored evidence at the start.
LEMMA EvidenceInit == Init => EvidenceInv
<1> SUFFICES ASSUME Init, NEW b \in Batches, NEW m \in Members
             PROVE  EvidenceOf(b, m)
  BY DEF EvidenceInv
<1>1. payout[<<b, m>>] = NoPayout
  <2>1. <<b, m>> \in Batches \X Members
    OBVIOUS
  <2>2. payout = [p \in Batches \X Members |-> NoPayout]
    BY DEF Init
  <2> QED BY <2>1, <2>2
<1>2. payout[<<b, m>>].status = "none"
  BY <1>1 DEF NoPayout
<1> QED BY <1>2 DEF EvidenceOf

\* A step that leaves the evidence alone and moves payouts and batches forward.
LEMMA EvidenceKept ==
  ASSUME NEW b \in Batches, NEW m \in Members, EvidenceOf(b, m), UNCHANGED evidence,
         \/ /\ payout'[<<b, m>>].status = payout[<<b, m>>].status
            /\ payout'[<<b, m>>].control = payout[<<b, m>>].control
            /\ payout'[<<b, m>>].destination = payout[<<b, m>>].destination
            /\ batch'[b] \in {batch[b], "dispatched", "settled", "failed"}
         \/ /\ payout'[<<b, m>>].status \in {"paid", "failed"}
            /\ batch'[b] \in {"settled", "failed"}
  PROVE  EvidenceOf(b, m)'
BY DEF EvidenceOf, evidence

\* Every step keeps stored versions at or behind the evidence they were taken from.
LEMMA EvidenceStep ==
  ASSUME TypeOK, EvidenceInv, [Next]_vars
  PROVE  EvidenceInv'
<1> SUFFICES ASSUME NEW b \in Batches, NEW m \in Members
             PROVE  EvidenceOf(b, m)'
  BY DEF EvidenceInv
<1> EvidenceOf(b, m)
  BY DEF EvidenceInv
<1>0. /\ <<b, m>> \in Batches \X Members
      /\ payout[<<b, m>>] \in Payouts
      /\ payout \in [Batches \X Members -> Payouts]
      /\ control \in [Members -> Controls] /\ control[m].version \in Nat
      /\ destination \in [Members -> Nat] /\ destination[m] \in Nat
      /\ payout[<<b, m>>].control \in Nat /\ payout[<<b, m>>].destination \in Nat
  BY DEF TypeOK, Payouts, Controls
<1>1. CASE UNCHANGED <<evidence, books>>
  BY <1>1, EvidenceKept DEF books
<1>2. ASSUME NEW k \in Members, DecideReadiness(k) \/ ReplaceDestination(k) \/ Expire(k)
      PROVE  EvidenceOf(b, m)'
  <2>1. UNCHANGED <<batch, payout>>
    BY <1>2 DEF DecideReadiness, ReplaceDestination, Expire, Review, books
  <2>2. CASE DecideReadiness(k)
    <3>1. destination' = destination /\ reviewed' = reviewed \cup {k}
      BY <2>2 DEF DecideReadiness, Review
    <3>2. PICK r \in BOOLEAN :
            control' = [control EXCEPT ![k] = [version |-> @.version + 1, ready |-> r, fresh |-> TRUE]]
      BY <2>2 DEF DecideReadiness
    <3>3. CASE m = k
      <4>1. control'[m].version = control[m].version + 1
        BY <1>0, <3>2, <3>3
      <4> QED BY <1>0, <2>1, <3>1, <4>1 DEF EvidenceOf
    <3>4. CASE m # k
      <4>1. control'[m] = control[m]
        BY <1>0, <3>2, <3>4
      <4> QED BY <2>1, <3>1, <3>4, <4>1 DEF EvidenceOf
    <3> QED BY <3>3, <3>4
  <2>3. CASE ReplaceDestination(k)
    <3>1. /\ destination' = [destination EXCEPT ![k] = destination[k] + 1]
          /\ control' = control
          /\ reviewed' = reviewed \cup {k}
      BY <2>3 DEF ReplaceDestination, Review
    <3>2. CASE m = k
      <4>1. destination'[m] = destination[m] + 1
        BY <1>0, <3>1, <3>2
      <4> QED BY <1>0, <2>1, <3>1, <4>1 DEF EvidenceOf
    <3>3. CASE m # k
      <4>1. destination'[m] = destination[m]
        BY <1>0, <3>1, <3>3
      <4> QED BY <2>1, <3>1, <3>3, <4>1 DEF EvidenceOf
    <3> QED BY <3>2, <3>3
  <2>4. CASE Expire(k)
    <3>1. /\ destination' = destination /\ reviewed' = reviewed
          /\ control'[m].version = control[m].version
      BY <1>0, <2>4 DEF Expire, Controls
    <3> QED BY <2>1, <3>1 DEF EvidenceOf
  <2> QED BY <1>2, <2>2, <2>3, <2>4
<1>3. ASSUME NEW a \in Batches, ReservePayoutBatch(a)
      PROVE  EvidenceOf(b, m)'
  <2>1. PICK M \in SUBSET Members \ {{}}, how \in Methods :
          /\ \A j \in M : ~Processing(j)
          /\ payout' = [p \in DOMAIN payout |->
                          IF p[1] = a /\ p[2] \in M
                          THEN [NoPayout EXCEPT !.status = "processing", !.method = how,
                                                !.control = control[p[2]].version,
                                                !.destination = destination[p[2]]]
                          ELSE payout[p]]
          /\ reviewed' = reviewed \ M
    BY <1>3 DEF ReservePayoutBatch
  <2>2. /\ batch[a] = "none" /\ batch' = [batch EXCEPT ![a] = "processing"]
        /\ UNCHANGED <<control, destination>>
    BY <1>3 DEF ReservePayoutBatch
  <2>3. batch'[b] = IF b = a THEN "processing" ELSE batch[b]
    BY <2>2 DEF TypeOK
  <2>4. CASE b = a /\ m \in M
    <3>1. payout'[<<b, m>>] = [NoPayout EXCEPT !.status = "processing", !.method = how,
                                           !.control = control[m].version,
                                           !.destination = destination[m]]
      BY <1>0, <2>1, <2>4
    <3>2. /\ payout'[<<b, m>>].status = "processing"
          /\ payout'[<<b, m>>].control = control[m].version
          /\ payout'[<<b, m>>].destination = destination[m]
      BY <3>1 DEF NoPayout
    <3>3. /\ batch'[b] = "processing"
          /\ control' = control /\ destination' = destination
          /\ m \notin reviewed'
      BY <2>1, <2>2, <2>3, <2>4
    <3>4. control[m].version <= control[m].version /\ destination[m] <= destination[m]
      BY <1>0
    <3> QED BY <3>2, <3>3, <3>4 DEF EvidenceOf
  <2>5. CASE ~(b = a /\ m \in M)
    <3>1. payout'[<<b, m>>] = payout[<<b, m>>]
      BY <1>0, <2>1, <2>5
    <3>2. payout[<<b, m>>].status = "processing" => m \notin M
      BY <2>1 DEF Processing
    <3> QED BY <2>1, <2>2, <2>3, <3>1, <3>2 DEF EvidenceOf
  <2> QED BY <2>4, <2>5
<1>4. ASSUME NEW a \in Batches, SettlePayoutBatch(a) \/ FailPayoutBatch(a)
      PROVE  EvidenceOf(b, m)'
  <2>1. UNCHANGED evidence
    BY <1>4 DEF SettlePayoutBatch, FailPayoutBatch
  <2>2. CASE b = a
    <3>1. batch'[b] \in {"settled", "failed"}
      BY <1>4, <2>2 DEF SettlePayoutBatch, FailPayoutBatch, TypeOK
    <3>2. payout'[<<b, m>>] = payout[<<b, m>>] \/ payout'[<<b, m>>].status \in {"paid", "failed"}
      <4>1. CASE SettlePayoutBatch(a)
        BY <1>0, <4>1 DEF SettlePayoutBatch, Payouts
      <4>2. CASE FailPayoutBatch(a)
        BY <1>0, <4>2 DEF FailPayoutBatch, Payouts
      <4> QED BY <1>4, <4>1, <4>2
    <3> QED BY <2>1, <3>1, <3>2, EvidenceKept
  <2>3. CASE b # a
    <3>1. batch'[b] = batch[b] /\ payout'[<<b, m>>] = payout[<<b, m>>]
      BY <1>0, <1>4, <2>3 DEF SettlePayoutBatch, FailPayoutBatch, TypeOK
    <3> QED BY <2>1, <3>1, EvidenceKept
  <2> QED BY <2>2, <2>3
<1>5. ASSUME NEW q \in Batches \X Members, MarkMailed(q)
      PROVE  EvidenceOf(b, m)'
  <2>1. UNCHANGED evidence /\ batch' = batch
    BY <1>5 DEF MarkMailed
  <2>2. payout'[<<b, m>>] = IF <<b, m>> = q THEN [payout[q] EXCEPT !.mailed = TRUE] ELSE payout[<<b, m>>]
    BY <1>0, <1>5 DEF MarkMailed
  <2>3. /\ payout'[<<b, m>>].status = payout[<<b, m>>].status
        /\ payout'[<<b, m>>].control = payout[<<b, m>>].control
        /\ payout'[<<b, m>>].destination = payout[<<b, m>>].destination
    BY <1>0, <2>2 DEF Payouts
  <2> QED BY <2>1, <2>3, EvidenceKept
<1>6. ASSUME NEW c \in Clerks, ClerkStep(c)
      PROVE  EvidenceOf(b, m)'
  <2>1. payout'[<<b, m>>] = [payout[<<b, m>>] EXCEPT !.number = payout'[<<b, m>>].number]
    BY <1>6, ClerkKeepsEvidence
  <2>2. /\ payout'[<<b, m>>].status = payout[<<b, m>>].status
        /\ payout'[<<b, m>>].control = payout[<<b, m>>].control
        /\ payout'[<<b, m>>].destination = payout[<<b, m>>].destination
    BY <1>0, <2>1 DEF Payouts
  <2>3. UNCHANGED evidence /\ batch'[b] \in {batch[b], "dispatched"}
    BY <1>6, ClerkKeepsEvidence
  <2> QED BY <2>2, <2>3, EvidenceKept
<1> QED BY <1>1, <1>2, <1>3, <1>4, <1>5, <1>6, StepKinds

(***************************************************************************)
(* What a dispatch holds.                                                  *)
(***************************************************************************)
\* A step leaves the snapshot and the status of payout p alone.
SameTerms(p) ==
  /\ payout'[p].status = payout[p].status
  /\ payout'[p].control = payout[p].control
  /\ payout'[p].destination = payout[p].destination

\* The batch of a dispatch stays as it is until the dispatch is over.
LEMMA BatchHeld ==
  ASSUME TypeOK, LockInv, [Next]_vars, NEW c \in Clerks, NEW b \in Batches,
         tx[c].call = "dispatch", tx[c].batch = b, ~FinishDispatch(c)
  PROVE  batch'[b] = "processing" /\ \A m \in Members : SameTerms(<<b, m>>)
<1>0. /\ held[b] = c /\ batch[b] = "processing" /\ c # None
      /\ payout \in [Batches \X Members -> Payouts]
      /\ batch \in [Batches -> {"none", "processing", "dispatched", "settled", "failed"}]
  BY NoneAssumption DEF LockInv, TypeOK
<1>1. CASE UNCHANGED books
  BY <1>0, <1>1 DEF books, SameTerms
<1>2. ASSUME NEW m \in Members, DecideReadiness(m) \/ ReplaceDestination(m) \/ Expire(m)
      PROVE  UNCHANGED books
  BY <1>2 DEF DecideReadiness, ReplaceDestination, Expire, Review
<1>3. ASSUME NEW a \in Batches,
             ReservePayoutBatch(a) \/ SettlePayoutBatch(a) \/ FailPayoutBatch(a)
      PROVE  batch'[b] = "processing" /\ \A m \in Members : SameTerms(<<b, m>>)
  <2>1. a # b
    BY <1>0, <1>3 DEF ReservePayoutBatch, SettlePayoutBatch, FailPayoutBatch, Free
  <2>2. batch'[b] = "processing"
    BY <1>0, <1>3, <2>1 DEF ReservePayoutBatch, SettlePayoutBatch, FailPayoutBatch
  <2>3. ASSUME NEW m \in Members
        PROVE  payout'[<<b, m>>] = payout[<<b, m>>]
    <3>1. <<b, m>> \in DOMAIN payout
      BY <1>0
    <3>2. CASE ReservePayoutBatch(a)
      BY <2>1, <3>1, <3>2 DEF ReservePayoutBatch
    <3>3. CASE SettlePayoutBatch(a)
      BY <2>1, <3>1, <3>3 DEF SettlePayoutBatch
    <3>4. CASE FailPayoutBatch(a)
      BY <2>1, <3>1, <3>4 DEF FailPayoutBatch
    <3> QED BY <1>3, <3>2, <3>3, <3>4
  <2> QED BY <2>2, <2>3 DEF SameTerms
<1>4. ASSUME NEW q \in Batches \X Members, MarkMailed(q)
      PROVE  batch'[b] = "processing" /\ \A m \in Members : SameTerms(<<b, m>>)
  <2>1. batch' = batch /\ payout' = [payout EXCEPT ![q].mailed = TRUE]
    BY <1>4 DEF MarkMailed
  <2>2. ASSUME NEW p \in Batches \X Members
        PROVE  SameTerms(p)
    <3>1. payout'[p] = payout[p] \/ payout'[p] = [payout[p] EXCEPT !.mailed = TRUE]
      BY <1>0, <2>1
    <3>2. payout[p] \in Payouts
      BY <1>0
    <3> QED BY <3>1, <3>2 DEF SameTerms, Payouts
  <2> QED BY <1>0, <2>1, <2>2
<1>5. ASSUME NEW d \in Clerks, ClerkStep(d)
      PROVE  batch'[b] = "processing" /\ \A m \in Members : SameTerms(<<b, m>>)
  <2>1. ASSUME NEW p \in Batches \X Members
        PROVE  SameTerms(p)
    <3>1. payout[p] \in Payouts /\ payout'[p] = [payout[p] EXCEPT !.number = payout'[p].number]
      BY <1>0, <1>5, ClerkKeepsEvidence
    <3> QED BY <3>1 DEF SameTerms, Payouts
  <2>2. FinishDispatch(d) => tx[d].batch # b
    <3>1. SUFFICES ASSUME FinishDispatch(d), tx[d].batch = b PROVE d = c
      OBVIOUS
    <3>2. tx[d].call = "dispatch"
      BY <3>1 DEF FinishDispatch, Dispatches
    <3> QED BY <1>0, <3>1, <3>2 DEF LockInv
  <2>3. batch'[b] = batch[b]
    BY <1>5, <2>2, ClerkKeepsEvidence
  <2> QED BY <1>0, <2>1, <2>3
<1> QED BY <1>1, <1>2, <1>3, <1>4, <1>5, StepKinds

\* The evidence of a member somebody has locked keeps its versions.
LEMMA EvidenceHeld ==
  ASSUME TypeOK, [Next]_vars, NEW m \in Members, NEW c \in Clerks, held[m] = c
  PROVE  control'[m].version = control[m].version /\ destination'[m] = destination[m]
<1>0. c # None /\ control \in [Members -> Controls] /\ destination \in [Members -> Nat]
  BY NoneAssumption DEF TypeOK
<1>1. CASE UNCHANGED evidence
  BY <1>1 DEF evidence
<1>2. ASSUME NEW k \in Members, DecideReadiness(k) \/ ReplaceDestination(k) \/ Expire(k)
      PROVE  control'[m].version = control[m].version /\ destination'[m] = destination[m]
  <2>1. CASE DecideReadiness(k)
    <3>1. k # m
      BY <1>0, <2>1 DEF DecideReadiness, Review, Free
    <3> QED BY <1>0, <2>1, <3>1 DEF DecideReadiness
  <2>2. CASE ReplaceDestination(k)
    <3>1. k # m
      BY <1>0, <2>2 DEF ReplaceDestination, Review, Free
    <3> QED BY <1>0, <2>2, <3>1 DEF ReplaceDestination
  <2>3. CASE Expire(k)
    <3>1. destination' = destination
          /\ control' = [control EXCEPT ![k] = [control[k] EXCEPT !.fresh = FALSE]]
      BY <2>3 DEF Expire
    <3>2. control[m] \in Controls
      BY <1>0
    <3> QED BY <1>0, <3>1, <3>2 DEF Controls
  <2> QED BY <1>2, <2>1, <2>2, <2>3
<1>3. ASSUME NEW b \in Batches,
             ReservePayoutBatch(b) \/ SettlePayoutBatch(b) \/ FailPayoutBatch(b)
      PROVE  UNCHANGED <<control, destination>>
  BY <1>3 DEF ReservePayoutBatch, SettlePayoutBatch, FailPayoutBatch, evidence
<1>4. ASSUME NEW p \in Batches \X Members, MarkMailed(p)
      PROVE  UNCHANGED evidence
  BY <1>4 DEF MarkMailed
<1>5. ASSUME NEW d \in Clerks, ClerkStep(d)
      PROVE  UNCHANGED evidence
  BY <1>5, ClerkKeepsEvidence
<1> QED BY <1>1, <1>2, <1>3, <1>4, <1>5, StepKinds

\* The transaction of a clerk after one of its own steps.
LEMMA OwnStep ==
  ASSUME TypeOK, NEW c \in Clerks, ClerkStep(c), tx'[c].call = "dispatch"
  PROVE  \/ \E b \in Batches : StartDispatch(c, b)
         \/ TakeFence(c) \/ LockMembers(c)
         \/ \E m \in Members : CheckMember(c, m)
<1>0. tx \in [Clerks -> Transactions]
  BY DEF TypeOK
<1>1. End(c) => tx'[c].call = "idle"
  BY <1>0 DEF End, Idle
<1>2. FinishScan(c) \/ FinishDispatch(c) \/ FinishCheckRun(c) \/ Abort(c) => End(c)
  BY DEF FinishScan, FinishDispatch, FinishCheckRun, Abort
<1>3. ~StartScan(c)
  BY <1>0 DEF StartScan
<1>4. ~StartCheckRun(c)
  BY <1>0 DEF StartCheckRun
<1>5. ~SelectChecks(c)
  BY <1>0, TransactionType DEF SelectChecks, CheckRuns
<1> QED BY <1>1, <1>2, <1>3, <1>4, <1>5 DEF ClerkStep

\* Every step keeps the account of the batch and members a dispatch has locked.
LEMMA LockStep ==
  ASSUME TypeOK, LockInv, [Next]_vars
  PROVE  LockInv'
<1> SUFFICES ASSUME NEW c \in Clerks, tx'[c].call = "dispatch"
             PROVE  /\ held'[tx'[c].batch] = c
                    /\ batch'[tx'[c].batch] = "processing"
                    /\ tx'[c].step = "members"
                         => \A m \in InBatch(tx[c].batch)' : held'[m] = c
  BY DEF LockInv
<1>0. /\ tx \in [Clerks -> Transactions]
      /\ held \in [Batches \cup Members \cup {Tenant} -> Clerks \cup {None}]
  BY DEF TypeOK
<1>1. CASE ~ClerkStep(c)
  <2>1. /\ tx'[c] = tx[c]
        /\ \A l \in Batches \cup Members \cup {Tenant} : held[l] = c => held'[l] = c
    BY <1>1, Undisturbed
  <2>2. tx[c] \in Dispatchings
    BY <2>1, TransactionType
  <2>3. PICK b \in Batches : b = tx[c].batch
    BY <2>2 DEF Dispatchings
  <2>4. batch'[b] = "processing" /\ \A m \in Members : SameTerms(<<b, m>>)
    BY <1>1, <2>1, <2>3, BatchHeld DEF ClerkStep
  <2>5. \A m \in Members : payout'[<<b, m>>].status # "none" => payout[<<b, m>>].status # "none"
    BY <2>4 DEF SameTerms
  <2> QED BY <2>1, <2>3, <2>4, <2>5 DEF LockInv, InBatch
<1>2. ASSUME NEW b \in Batches, StartDispatch(c, b)
      PROVE  /\ tx'[c].batch = b /\ tx'[c].step = "batch"
             /\ held'[b] = c /\ batch'[b] = "processing"
  BY <1>0, <1>2 DEF StartDispatch, books
<1>3. CASE TakeFence(c)
  <2>1. tx[c] \in Dispatchings
    BY <1>3, TransactionType DEF TakeFence
  <2>2. tx'[c].batch = tx[c].batch /\ tx'[c].step = "fence"
    BY <1>0, <1>3, <2>1 DEF TakeFence, Dispatchings
  <2> QED BY <1>3, <2>2 DEF TakeFence, LockInv, books
<1>4. CASE LockMembers(c)
  <2>1. tx[c] \in Dispatchings
    BY <1>4, TransactionType DEF LockMembers
  <2>2. tx'[c].batch = tx[c].batch
    BY <1>0, <1>4, <2>1 DEF LockMembers, Dispatchings
  <2>3. UNCHANGED <<batch, payout>>
    BY <1>4 DEF LockMembers, books
  <2>4. held' = [l \in DOMAIN held |-> IF l \in InBatch(tx[c].batch) THEN c ELSE held[l]]
    BY <1>4 DEF LockMembers
  <2>5. tx[c].call = "dispatch" /\ tx[c].batch \in Batches
    BY <1>4, <2>1 DEF LockMembers, Dispatchings
  <2>6. held[tx[c].batch] = c /\ batch[tx[c].batch] = "processing"
    BY <2>5 DEF LockInv
  <2>7. held'[tx[c].batch] = c
    BY <1>0, <2>4, <2>5, <2>6
  <2>8. \A m \in InBatch(tx[c].batch) : held'[m] = c
    BY <1>0, <2>4 DEF InBatch
  <2> QED BY <2>2, <2>3, <2>6, <2>7, <2>8 DEF InBatch
<1>5. ASSUME NEW m \in Members, CheckMember(c, m)
      PROVE  UNCHANGED <<batch, payout, held>> /\ tx'[c].batch = tx[c].batch
             /\ tx'[c].step = tx[c].step /\ tx[c].call = "dispatch"
  <2>1. tx[c] \in Dispatchings
    BY <1>5, TransactionType DEF CheckMember
  <2> QED BY <1>0, <1>5, <2>1 DEF CheckMember, books, Dispatchings
<1>6. CASE \E m \in Members : CheckMember(c, m)
  <2>1. UNCHANGED <<batch, payout, held>> /\ tx'[c].batch = tx[c].batch
        /\ tx'[c].step = tx[c].step /\ tx[c].call = "dispatch"
    BY <1>5, <1>6
  <2> QED BY <2>1 DEF LockInv, InBatch
<1> QED BY <1>1, <1>2, <1>3, <1>4, <1>6, OwnStep

(***************************************************************************)
(* What a dispatch has found stays true.                                   *)
(***************************************************************************)
\* A member that has passed is in the batch, its risk does not block, and the evidence is
\* the one stored with the payout.
Passes(c, m) ==
  /\ m \in InBatch(tx[c].batch)
  /\ ~RuntimePayoutBlock(m, m \in tx[c].asked)
  /\ payout[<<tx[c].batch, m>>].control = control[m].version
  /\ payout[<<tx[c].batch, m>>].destination = destination[m]

PassedInv ==
  \A c \in Clerks :
    tx[c].call = "dispatch" =>
      /\ tx[c].asked \subseteq tx[c].passed
      /\ tx[c].passed # {} => tx[c].step = "members"
      /\ \A m \in tx[c].passed : Passes(c, m)

\* What a dispatch has found of a member that passed stays true until it commits.
LEMMA PassedStep ==
  ASSUME TypeOK, FenceInv, LockInv, PassedInv, [Next]_vars
  PROVE  PassedInv'
<1> SUFFICES ASSUME NEW c \in Clerks, tx'[c].call = "dispatch"
             PROVE  /\ tx'[c].asked \subseteq tx'[c].passed
                    /\ tx'[c].passed # {} => tx'[c].step = "members"
                    /\ \A m \in tx'[c].passed : Passes(c, m)'
  BY DEF PassedInv
<1>0. tx \in [Clerks -> Transactions]
  BY DEF TypeOK
<1>1. CASE ~ClerkStep(c)
  <2>1. tx'[c] = tx[c]
    BY <1>1, Undisturbed
  <2>2. tx[c] \in Dispatchings
    BY <2>1, TransactionType
  <2>3. PICK b \in Batches : b = tx[c].batch
    BY <2>2 DEF Dispatchings
  <2>4. /\ tx[c].asked \subseteq tx[c].passed
        /\ tx[c].passed # {} => tx[c].step = "members"
        /\ \A m \in tx[c].passed : Passes(c, m)
    BY <2>1 DEF PassedInv
  <2>5. ASSUME NEW m \in tx[c].passed
        PROVE  Passes(c, m)'
    <3>1. m \in Members /\ tx[c].step = "members" /\ Passes(c, m)
      BY <2>2, <2>4 DEF Dispatchings
    <3>2. fence = c
      BY <2>1, <3>1 DEF FenceInv
    <3>3. UNCHANGED <<fraud, profile, listed>>
      BY <1>1, <3>2, RiskHeld DEF ClerkStep
    <3>4. held[m] = c
      BY <2>1, <3>1 DEF LockInv, Passes
    <3>5. control'[m].version = control[m].version /\ destination'[m] = destination[m]
      BY <3>1, <3>4, EvidenceHeld
    <3>6. SameTerms(<<b, m>>)
      BY <1>1, <2>1, <2>3, <3>1, BatchHeld DEF ClerkStep
    <3>7. ~RuntimePayoutBlock(m, m \in tx[c].asked)'
      BY <2>1, <3>1, <3>3
         DEF Passes, RuntimePayoutBlock, FraudBlocks, KycBlocks, SanctionsBlock, NameListed
    <3>8. m \in InBatch(b) /\ m \in InBatch(b)'
      BY <2>3, <3>1, <3>6 DEF Passes, InBatch, SameTerms
    <3> QED BY <2>1, <2>3, <3>1, <3>5, <3>6, <3>7, <3>8 DEF Passes, SameTerms
  <2> QED BY <2>1, <2>4, <2>5
<1>2. ASSUME NEW b \in Batches, StartDispatch(c, b)
      PROVE  tx'[c].passed = {} /\ tx'[c].asked = {}
  BY <1>0, <1>2 DEF StartDispatch
<1>3. CASE TakeFence(c) \/ LockMembers(c)
  <2>1. tx[c] \in Dispatchings
    BY <1>3, TransactionType DEF TakeFence, LockMembers
  <2>2. tx[c].call = "dispatch" /\ tx[c].step # "members"
    BY <1>3 DEF TakeFence, LockMembers
  <2>3. tx'[c].passed = tx[c].passed /\ tx'[c].asked = tx[c].asked
    BY <1>0, <1>3, <2>1 DEF TakeFence, LockMembers, Dispatchings
  <2> QED BY <2>2, <2>3 DEF PassedInv
<1>4. ASSUME NEW k \in Members, CheckMember(c, k)
      PROVE  /\ tx'[c].asked \subseteq tx'[c].passed
             /\ tx'[c].step = "members"
             /\ \A m \in tx'[c].passed : Passes(c, m)'
  <2>1. tx[c] \in Dispatchings
    BY <1>4, TransactionType DEF CheckMember
  <2>2. /\ tx'[c].passed = tx[c].passed \cup {k}
        /\ tx'[c].asked = IF requireKyc THEN tx[c].asked \cup {k} ELSE tx[c].asked
        /\ tx'[c].batch = tx[c].batch /\ tx'[c].step = tx[c].step
    BY <1>0, <1>4, <2>1 DEF CheckMember, Dispatchings
  <2>3. /\ tx[c].call = "dispatch" /\ tx[c].step = "members"
        /\ k \in InBatch(tx[c].batch) /\ k \notin tx[c].passed
        /\ ~RuntimePayoutBlock(k, requireKyc)
        /\ payout[<<tx[c].batch, k>>].control = control[k].version
        /\ payout[<<tx[c].batch, k>>].destination = destination[k]
    BY <1>4 DEF CheckMember, MayCheck, Recheck
  <2>4. UNCHANGED <<fraud, profile, listed, control, destination, payout>>
    BY <1>4 DEF CheckMember, risk, evidence, books
  <2>5. tx[c].asked \subseteq tx[c].passed /\ \A m \in tx[c].passed : Passes(c, m)
    BY <2>3 DEF PassedInv
  <2>7. ASSUME NEW m \in tx[c].passed
        PROVE  Passes(c, m)'
    <3>1. m # k /\ (m \in tx'[c].asked <=> m \in tx[c].asked)
      BY <2>2, <2>3
    <3>2. Passes(c, m)
      BY <2>5
    <3>3. ~RuntimePayoutBlock(m, m \in tx[c].asked)'
      BY <2>2, <2>4, <3>1, <3>2
         DEF Passes, RuntimePayoutBlock, FraudBlocks, KycBlocks, SanctionsBlock, NameListed
    <3> QED BY <2>2, <2>4, <3>2, <3>3 DEF Passes, InBatch
  <2>8. Passes(c, k)'
    <3>1. k \in tx'[c].asked <=> requireKyc
      BY <2>2, <2>3, <2>5
    <3>2. ~RuntimePayoutBlock(k, k \in tx[c].asked)'
      BY <2>3, <2>4, <3>1
         DEF RuntimePayoutBlock, FraudBlocks, KycBlocks, SanctionsBlock, NameListed
    <3> QED BY <2>2, <2>3, <2>4, <3>2 DEF Passes, InBatch
  <2> QED BY <2>2, <2>3, <2>5, <2>7, <2>8
<1> QED BY <1>1, <1>2, <1>3, <1>4, OwnStep

(***************************************************************************)
(* Check numbers.                                                          *)
(***************************************************************************)
\* Only payouts that have left carry a number; a print run holds the tenant's row, its
\* counter is the counter, and what it has selected is still to be numbered.
CheckInv ==
  /\ CheckNumbersAreUnique
  /\ \A p \in DOMAIN payout : payout[p].status = "none" => payout[p].number = 0
  /\ \A c \in Clerks :
       tx[c].call = "check_run" =>
         /\ held[Tenant] = c
         /\ tx[c].next = lastCheckNumber
         /\ \A p \in tx[c].targets : Printable(p)

\* A step that is no end of a print run keeps every number and what can be printed.
NumbersKept ==
  /\ lastCheckNumber' = lastCheckNumber
  /\ \A p \in Batches \X Members :
       /\ payout'[p].number = payout[p].number
       /\ payout'[p].status = "none" => payout[p].status = "none"
       /\ Printable(p) => Printable(p)'

\* Only the end of a check run gives out numbers.
LEMMA NumbersStep ==
  ASSUME TypeOK, EvidenceInv, CheckInv, [Next]_vars, \A c \in Clerks : ~FinishCheckRun(c)
  PROVE  NumbersKept
<1>0. /\ payout \in [Batches \X Members -> Payouts]
      /\ batch \in [Batches -> {"none", "processing", "dispatched", "settled", "failed"}]
  BY DEF TypeOK
<1>1. CASE UNCHANGED <<payout, lastCheckNumber>>
  BY <1>1 DEF NumbersKept, Printable, PaidCheck
<1>2. ASSUME NEW m \in Members, DecideReadiness(m) \/ ReplaceDestination(m) \/ Expire(m)
      PROVE  UNCHANGED <<payout, lastCheckNumber>>
  BY <1>2 DEF DecideReadiness, ReplaceDestination, Expire, Review, books
<1>3. ASSUME NEW a \in Batches, ReservePayoutBatch(a)
      PROVE  NumbersKept
  <2>1. PICK M \in SUBSET Members \ {{}}, how \in Methods :
          payout' = [p \in DOMAIN payout |->
                       IF p[1] = a /\ p[2] \in M
                       THEN [NoPayout EXCEPT !.status = "processing", !.method = how,
                                             !.control = control[p[2]].version,
                                             !.destination = destination[p[2]]]
                       ELSE payout[p]]
    BY <1>3 DEF ReservePayoutBatch
  <2>2. batch[a] = "none" /\ lastCheckNumber' = lastCheckNumber
    BY <1>3 DEF ReservePayoutBatch
  <2>3. ASSUME NEW p \in Batches \X Members, p[1] = a /\ p[2] \in M
        PROVE  /\ payout'[p].number = 0 /\ payout'[p].status = "processing"
               /\ payout[p].number = 0 /\ payout[p].status = "none"
    <3>1. payout'[p] = [NoPayout EXCEPT !.status = "processing", !.method = how,
                                        !.control = control[p[2]].version,
                                        !.destination = destination[p[2]]]
      BY <1>0, <2>1, <2>3
    <3>2. payout'[p].number = 0 /\ payout'[p].status = "processing"
      BY <3>1 DEF NoPayout
    <3>3. p = <<p[1], p[2]>> /\ p[1] \in Batches /\ p[2] \in Members
      OBVIOUS
    <3>4. payout[p].status = "none"
      BY <2>2, <2>3, <3>3 DEF EvidenceInv, EvidenceOf
    <3> QED BY <1>0, <3>2, <3>4 DEF CheckInv
  <2>4. ASSUME NEW p \in Batches \X Members, ~(p[1] = a /\ p[2] \in M)
        PROVE  payout'[p] = payout[p]
    BY <1>0, <2>1, <2>4
  <2> QED BY <2>2, <2>3, <2>4 DEF NumbersKept, Printable, PaidCheck
<1>4. ASSUME NEW a \in Batches, SettlePayoutBatch(a) \/ FailPayoutBatch(a)
      PROVE  NumbersKept
  <2>1. lastCheckNumber' = lastCheckNumber
    BY <1>4 DEF SettlePayoutBatch, FailPayoutBatch
  <2>2. ASSUME NEW p \in Batches \X Members
        PROVE  \/ payout'[p] = payout[p]
               \/ /\ payout[p].status = "processing"
                  /\ payout'[p].status \in {"paid", "failed"}
                  /\ payout'[p].number = payout[p].number
    <3>1. payout[p] \in Payouts /\ p \in DOMAIN payout
      BY <1>0
    <3>2. CASE SettlePayoutBatch(a)
      BY <3>1, <3>2 DEF SettlePayoutBatch, Payouts
    <3>3. CASE FailPayoutBatch(a)
      BY <3>1, <3>3 DEF FailPayoutBatch, Payouts
    <3> QED BY <1>4, <3>2, <3>3
  <2> QED BY <2>1, <2>2 DEF NumbersKept, Printable, PaidCheck
<1>5. ASSUME NEW q \in Batches \X Members, MarkMailed(q)
      PROVE  NumbersKept
  <2>1. lastCheckNumber' = lastCheckNumber /\ payout' = [payout EXCEPT ![q].mailed = TRUE]
    BY <1>5 DEF MarkMailed
  <2>2. ASSUME NEW p \in Batches \X Members
        PROVE  /\ payout'[p].number = payout[p].number
               /\ payout'[p].status = payout[p].status
               /\ payout'[p].method = payout[p].method
    <3>1. payout'[p] = payout[p] \/ payout'[p] = [payout[p] EXCEPT !.mailed = TRUE]
      BY <1>0, <2>1
    <3>2. payout[p] \in Payouts
      BY <1>0
    <3> QED BY <3>1, <3>2 DEF Payouts
  <2> QED BY <2>1, <2>2 DEF NumbersKept, Printable, PaidCheck
<1>6. ASSUME NEW c \in Clerks, ClerkStep(c)
      PROVE  UNCHANGED <<payout, lastCheckNumber>>
  BY <1>6 DEF ClerkStep, StartScan, FinishScan, StartDispatch, TakeFence, LockMembers,
              CheckMember, FinishDispatch, StartCheckRun, SelectChecks, Abort, books
<1> QED BY <1>1, <1>2, <1>3, <1>4, <1>5, <1>6, StepKinds DEF books

\* The end of a print run: the selected payouts get the numbers after the counter, each
\* its own, and all others keep theirs.
LEMMA Numbering ==
  ASSUME TypeOK, CheckInv, NEW c \in Clerks, FinishCheckRun(c)
  PROVE  /\ held[Tenant] = c
         /\ lastCheckNumber' \in Nat /\ lastCheckNumber <= lastCheckNumber'
         /\ \A p \in Batches \X Members : payout'[p].status = payout[p].status
         /\ \A p \in (Batches \X Members) \ tx[c].targets : payout'[p] = payout[p]
         /\ \A p \in tx[c].targets :
              /\ Printable(p)
              /\ payout'[p].number \in Nat
              /\ lastCheckNumber < payout'[p].number /\ payout'[p].number <= lastCheckNumber'
         /\ \A p, q \in tx[c].targets : payout'[p].number = payout'[q].number => p = q
         /\ tx[c].targets \subseteq Batches \X Members
<1> DEFINE n == Cardinality(tx[c].targets)
<1>1. tx[c] \in CheckRuns /\ tx[c].call = "check_run"
  BY TransactionType DEF FinishCheckRun
<1>2. tx[c].targets \subseteq Batches \X Members /\ n \in Nat
  BY <1>1, TargetsFinite DEF CheckRuns
<1>3. held[Tenant] = c /\ tx[c].next = lastCheckNumber /\ \A p \in tx[c].targets : Printable(p)
  BY <1>1 DEF CheckInv
<1>4. lastCheckNumber \in Nat /\ lastCheckNumber' = lastCheckNumber + n
  BY <1>3 DEF FinishCheckRun, TypeOK
<1>5. PICK order \in [tx[c].targets -> 1 .. n] :
        /\ \A p, q \in tx[c].targets : order[p] = order[q] => p = q
        /\ payout' = [p \in DOMAIN payout |->
                        IF p \in tx[c].targets
                        THEN [payout[p] EXCEPT !.number = tx[c].next + order[p]]
                        ELSE payout[p]]
  BY DEF FinishCheckRun
<1>6. payout \in [Batches \X Members -> Payouts]
  BY DEF TypeOK
<1>7. ASSUME NEW p \in tx[c].targets
      PROVE  payout'[p].number = lastCheckNumber + order[p] /\ payout'[p].status = payout[p].status
             /\ order[p] \in 1 .. n
  <2>1. payout[p] \in Payouts /\ p \in DOMAIN payout
    BY <1>2, <1>6
  <2>2. payout'[p] = [payout[p] EXCEPT !.number = lastCheckNumber + order[p]]
    BY <1>3, <1>5, <2>1
  <2> QED BY <1>5, <2>1, <2>2 DEF Payouts
<1>8. ASSUME NEW p \in (Batches \X Members) \ tx[c].targets
      PROVE  payout'[p] = payout[p]
  BY <1>5, <1>6
<1>9. ASSUME NEW p \in tx[c].targets
      PROVE  /\ payout'[p].number \in Nat
             /\ lastCheckNumber < payout'[p].number /\ payout'[p].number <= lastCheckNumber'
  BY <1>2, <1>4, <1>7
<1>10. ASSUME NEW p \in tx[c].targets, NEW q \in tx[c].targets,
              payout'[p].number = payout'[q].number
       PROVE  p = q
  <2>1. order[p] = order[q]
    BY <1>4, <1>7, <1>10
  <2> QED BY <1>5, <2>1
<1>11. lastCheckNumber' \in Nat /\ lastCheckNumber <= lastCheckNumber'
  BY <1>2, <1>4
<1> QED BY <1>2, <1>3, <1>7, <1>8, <1>9, <1>10, <1>11

\* Every step keeps numbers below the counter and given out once.
LEMMA CheckStep ==
  ASSUME TypeOK, EvidenceInv, CheckInv, [Next]_vars
  PROVE  CheckInv'
<1>0. /\ payout \in [Batches \X Members -> Payouts] /\ payout' \in [Batches \X Members -> Payouts]
      /\ lastCheckNumber \in Nat
      /\ tx \in [Clerks -> Transactions]
      /\ held \in [Batches \cup Members \cup {Tenant} -> Clerks \cup {None}]
  BY TypeStep DEF TypeOK
<1>1. CASE \A c \in Clerks : ~FinishCheckRun(c)
  <2>1. NumbersKept
    BY <1>1, NumbersStep
  <2>2. /\ CheckNumbersAreUnique'
        /\ \A p \in DOMAIN payout' : payout'[p].status = "none" => payout'[p].number = 0
    BY <1>0, <2>1 DEF NumbersKept, CheckInv, CheckNumbersAreUnique
  <2>3. ASSUME NEW c \in Clerks, tx'[c].call = "check_run"
        PROVE  /\ held'[Tenant] = c
               /\ tx'[c].next = lastCheckNumber'
               /\ \A p \in tx'[c].targets : Printable(p)'
    <3>1. CASE ~ClerkStep(c)
      <4>1. tx'[c] = tx[c] /\ (held[Tenant] = c => held'[Tenant] = c)
        BY <3>1, Undisturbed
      <4>2. tx[c] \in CheckRuns
        BY <2>3, <4>1, TransactionType
      <4> QED BY <2>1, <2>3, <4>1, <4>2 DEF CheckInv, NumbersKept, CheckRuns
    <3>2. CASE StartCheckRun(c)
      <4>1. tx'[c] = [call |-> "check_run", next |-> lastCheckNumber, targets |-> {}]
            /\ held'[Tenant] = c
        BY <1>0, <3>2 DEF StartCheckRun
      <4> QED BY <2>1, <4>1 DEF NumbersKept
    <3>3. CASE SelectChecks(c)
      <4>1. tx[c].call = "check_run" /\ held' = held /\ payout' = payout
        BY <3>3 DEF SelectChecks, books
      <4>2. tx[c] \in CheckRuns
        BY <4>1, TransactionType
      <4>3. PICK T \in SUBSET {p \in DOMAIN payout : Printable(p)} :
              tx' = [tx EXCEPT ![c].targets = T]
        BY <3>3 DEF SelectChecks
      <4>4. tx'[c].targets = T /\ tx'[c].next = tx[c].next
        BY <1>0, <4>2, <4>3 DEF CheckRuns
      <4>5. \A p \in T : Printable(p)'
        BY <4>1 DEF Printable, PaidCheck
      <4> QED BY <2>1, <4>1, <4>4, <4>5 DEF CheckInv, NumbersKept
    <3>4. StartScan(c) => tx'[c].call = "scan"
      BY <1>0 DEF StartScan
    <3>5. ~End(c)
      BY <1>0, <2>3 DEF End, Idle
    <3>6. FinishScan(c) \/ FinishDispatch(c) \/ FinishCheckRun(c) \/ Abort(c) => End(c)
      BY DEF FinishScan, FinishDispatch, FinishCheckRun, Abort
    <3>7. ASSUME NEW b \in Batches
          PROVE  ~StartDispatch(c, b)
      BY <1>0, <2>3 DEF StartDispatch
    <3>8. ~TakeFence(c) /\ ~LockMembers(c) /\ \A m \in Members : ~CheckMember(c, m)
      <4>1. SUFFICES ASSUME TakeFence(c) \/ LockMembers(c) \/ \E m \in Members : CheckMember(c, m)
                     PROVE  FALSE
        OBVIOUS
      <4>2. tx[c] \in Dispatchings
        BY <4>1, TransactionType DEF TakeFence, LockMembers, CheckMember
      <4> QED BY <1>0, <2>3, <4>1, <4>2 DEF TakeFence, LockMembers, CheckMember, Dispatchings
    <3> QED BY <2>3, <3>1, <3>2, <3>3, <3>4, <3>5, <3>6, <3>7, <3>8 DEF ClerkStep
  <2> QED BY <2>2, <2>3 DEF CheckInv
<1>2. ASSUME NEW d \in Clerks, FinishCheckRun(d)
      PROVE  CheckInv'
  <2>1. /\ held[Tenant] = d
        /\ lastCheckNumber' \in Nat /\ lastCheckNumber <= lastCheckNumber'
        /\ \A p \in Batches \X Members : payout'[p].status = payout[p].status
        /\ \A p \in (Batches \X Members) \ tx[d].targets : payout'[p] = payout[p]
        /\ \A p \in tx[d].targets :
             /\ Printable(p)
             /\ payout'[p].number \in Nat
             /\ lastCheckNumber < payout'[p].number /\ payout'[p].number <= lastCheckNumber'
        /\ \A p, q \in tx[d].targets : payout'[p].number = payout'[q].number => p = q
        /\ tx[d].targets \subseteq Batches \X Members
    BY <1>2, Numbering
  <2>2. \A p \in Batches \X Members :
          payout[p].number \in Nat /\ payout[p].number <= lastCheckNumber
    BY <1>0 DEF Payouts, CheckInv, CheckNumbersAreUnique
  <2>3. ASSUME NEW p \in Batches \X Members, NEW q \in Batches \X Members,
               payout'[p].number # 0, payout'[p].number = payout'[q].number
        PROVE  p = q
    <3>1. CASE p \in tx[d].targets /\ q \in tx[d].targets
      BY <2>1, <2>3, <3>1
    <3>2. CASE p \notin tx[d].targets /\ q \notin tx[d].targets
      <4>1. payout'[p] = payout[p] /\ payout'[q] = payout[q]
        BY <2>1, <3>2
      <4> QED BY <1>0, <2>3, <4>1 DEF CheckInv, CheckNumbersAreUnique
    <3>3. CASE p \in tx[d].targets /\ q \notin tx[d].targets
      <4>1. payout'[q] = payout[q] /\ lastCheckNumber < payout'[p].number
        BY <2>1, <3>3
      <4> QED BY <1>0, <2>2, <2>3, <4>1
    <3>4. CASE p \notin tx[d].targets /\ q \in tx[d].targets
      <4>1. payout'[p] = payout[p] /\ lastCheckNumber < payout'[q].number
        BY <2>1, <3>4
      <4> QED BY <1>0, <2>2, <2>3, <4>1
    <3> QED BY <3>1, <3>2, <3>3, <3>4
  <2>4. ASSUME NEW p \in Batches \X Members
        PROVE  payout'[p].number <= lastCheckNumber'
    BY <1>0, <2>1, <2>2
  <2>5. ASSUME NEW p \in Batches \X Members, payout'[p].status = "none"
        PROVE  payout'[p].number = 0
    <3>1. payout[p].status = "none" /\ p \notin tx[d].targets
      BY <2>1, <2>5 DEF Printable, PaidCheck
    <3> QED BY <1>0, <2>1, <3>1 DEF CheckInv
  <2>6. ASSUME NEW c \in Clerks
        PROVE  tx'[c].call # "check_run"
    <3>1. CASE c = d
      BY <1>0, <1>2, <3>1 DEF FinishCheckRun, End, Idle
    <3>2. CASE c # d
      <4>1. tx'[c] = tx[c]
        BY <1>0, <1>2, <3>2 DEF FinishCheckRun, End
      <4> QED BY <2>1, <3>2, <4>1 DEF CheckInv
    <3> QED BY <3>1, <3>2
  <2> QED BY <1>0, <2>3, <2>4, <2>5, <2>6 DEF CheckInv, CheckNumbersAreUnique
<1> QED BY <1>1, <1>2

(***************************************************************************)
(* The invariant and the properties.                                       *)
(***************************************************************************)
DeskInv == TypeOK /\ FenceInv /\ LockInv /\ EvidenceInv /\ PassedInv /\ CheckInv

\* The parts of the invariant hold at the start.
LEMMA DeskInit == Init => DeskInv
<1> SUFFICES ASSUME Init PROVE DeskInv
  OBVIOUS
<1>1. \A c \in Clerks : tx[c].call = "idle"
  BY DEF Init, Idle
<1>2. FenceInv /\ LockInv /\ PassedInv
  BY <1>1 DEF FenceInv, LockInv, PassedInv
<1>3. \A p \in DOMAIN payout : payout[p].number = 0
  BY DEF Init, NoPayout
<1>4. CheckInv
  BY <1>1, <1>3 DEF Init, CheckInv, CheckNumbersAreUnique
<1> QED BY <1>2, <1>4, TypeInit, EvidenceInit DEF DeskInv

\* The parts of the invariant are preserved together.
LEMMA DeskStep == DeskInv /\ [Next]_vars => DeskInv'
BY TypeStep, FenceStep, LockStep, EvidenceStep, PassedStep, CheckStep DEF DeskInv

\* The invariant holds in every reachable state.
LEMMA DeskCorrect == Spec => []DeskInv
BY DeskInit, DeskStep, PTL DEF Spec

\* A dispatch that goes out has passed every payout of its batch.
LEMMA DispatchPasses ==
  ASSUME DeskInv, NEW c \in Clerks, FinishDispatch(c), NEW m \in InBatch(tx[c].batch)
  PROVE  Passes(c, m)
<1>1. tx[c].call = "dispatch" /\ m \in tx[c].passed
  BY DEF FinishDispatch, Dispatches
<1> QED BY <1>1 DEF DeskInv, PassedInv

\* No dispatch sends money to a member whose risk blocks it, whenever the risk was written:
\* the fence is held from before the reads to the commit.
THEOREM NothingSlipsInHolds == Spec => NothingSlipsIn
<1>1. ASSUME DeskInv, [Next]_vars,
             NEW c \in Clerks, NEW m \in Members,
             tx[c].call = "dispatch", batch[tx[c].batch] = "processing",
             batch'[tx[c].batch] = "dispatched", m \in InBatch(tx[c].batch)
      PROVE  ~RuntimePayoutBlock(m, m \in tx[c].asked)
  <2>1. tx[c] \in Dispatchings
    BY <1>1, TransactionType DEF DeskInv
  <2>2. PICK b \in Batches : b = tx[c].batch
    BY <2>1 DEF Dispatchings
  <2>3. FinishDispatch(c)
    BY <1>1, <2>2, BatchHeld DEF DeskInv
  <2> QED BY <1>1, <2>3, DispatchPasses DEF Passes
<1>2. DeskInv /\ [Next]_vars =>
        [\A c \in Clerks : \A m \in Members :
           (tx[c].call = "dispatch" /\ batch[tx[c].batch] = "processing"
              /\ batch'[tx[c].batch] = "dispatched" /\ m \in InBatch(tx[c].batch))
             => ~RuntimePayoutBlock(m, m \in tx[c].asked)]_vars
  BY <1>1
<1> QED BY <1>2, DeskCorrect, PTL DEF Spec, NothingSlipsIn

\* Only the end of a dispatch makes a batch dispatched.
LEMMA DispatchedByFinish ==
  ASSUME DeskInv, [Next]_vars, NEW b \in Batches, batch[b] = "processing",
         batch'[b] = "dispatched"
  PROVE  \E c \in Clerks : FinishDispatch(c) /\ tx[c].batch = b
<1>0. batch \in [Batches -> {"none", "processing", "dispatched", "settled", "failed"}]
  BY DEF DeskInv, TypeOK
<1>1. ASSUME NEW m \in Members, DecideReadiness(m) \/ ReplaceDestination(m) \/ Expire(m)
      PROVE  batch' = batch
  BY <1>1 DEF DecideReadiness, ReplaceDestination, Expire, Review, books
<1>2. ASSUME NEW a \in Batches,
             ReservePayoutBatch(a) \/ SettlePayoutBatch(a) \/ FailPayoutBatch(a)
      PROVE  batch'[b] # "dispatched"
  BY <1>0, <1>2 DEF ReservePayoutBatch, SettlePayoutBatch, FailPayoutBatch
<1>3. ASSUME NEW p \in Batches \X Members, MarkMailed(p)
      PROVE  batch' = batch
  BY <1>3 DEF MarkMailed
<1>4. ASSUME NEW c \in Clerks, ClerkStep(c)
      PROVE  FinishDispatch(c) /\ tx[c].batch = b
  BY <1>4, ClerkKeepsEvidence DEF DeskInv
<1>5. ~UNCHANGED books
  BY DEF books
<1> QED BY <1>1, <1>2, <1>3, <1>4, <1>5, StepKinds

\* No dispatch sends money to a member that has been reviewed since the reservation: the
\* versions stored with the payout are compared under the member's lock.
THEOREM DispatchedAsReservedHolds == Spec => DispatchedAsReserved
<1>1. ASSUME DeskInv, [Next]_vars,
             NEW b \in Batches, batch[b] = "processing", batch'[b] = "dispatched",
             NEW m \in InBatch(b)
      PROVE  m \notin reviewed
  <2>1. PICK c \in Clerks : FinishDispatch(c) /\ tx[c].batch = b
    BY <1>1, DispatchedByFinish
  <2>2. Passes(c, m) /\ m \in Members
    BY <1>1, <2>1, DispatchPasses DEF InBatch
  <2>3. EvidenceOf(b, m) /\ payout[<<b, m>>].status # "none"
    BY <1>1, <2>2 DEF DeskInv, EvidenceInv, InBatch
  <2> QED BY <1>1, <2>1, <2>2, <2>3 DEF EvidenceOf, Passes
<1>2. DeskInv /\ [Next]_vars =>
        [\A b \in Batches :
           (batch[b] = "processing" /\ batch'[b] = "dispatched")
             => InBatch(b) \cap reviewed = {}]_vars
  BY <1>1
<1> QED BY <1>2, DeskCorrect, PTL DEF Spec, DispatchedAsReserved

\* A scan opens a flag only where there was none, or over a cleared one when the score
\* blocks: it writes what it has read, and it has held the fence in between.
THEOREM ScansKeepDecisionsHolds == Spec => ScansKeepDecisions
<1>1. ASSUME DeskInv, [Next]_vars, NEW m \in Members,
             fraud'[m].status = "open", fraud[m].status # "open"
      PROVE  \/ fraud[m].status = "none"
             \/ fraud[m].status = "cleared" /\ fraud'[m].high
  <2>0. fraud \in [Members -> Flags]
    BY <1>1 DEF DeskInv, TypeOK
  <2>1. CASE \E c \in Clerks : FinishScan(c)
    <3>1. PICK c \in Clerks : FinishScan(c)
      BY <2>1
    <3>2. tx[c].existing = fraud
      BY <1>1, <3>1 DEF FinishScan, DeskInv, FenceInv
    <3>4. PICK T \in SUBSET Members : \E h \in [T -> BOOLEAN] :
            fraud' = [k \in Members |->
                        IF k \in T THEN [status |-> Rescored(fraud[k], h[k]), high |-> h[k]]
                        ELSE fraud[k]]
      BY <3>1, <3>2 DEF FinishScan
    <3>5. PICK h \in [T -> BOOLEAN] :
            fraud' = [k \in Members |->
                        IF k \in T THEN [status |-> Rescored(fraud[k], h[k]), high |-> h[k]]
                        ELSE fraud[k]]
      BY <3>4
    <3>6. m \in T /\ Rescored(fraud[m], h[m]) = "open" /\ fraud'[m].high = h[m]
      BY <1>1, <3>5
    <3> QED BY <1>1, <3>6 DEF Rescored
  <2>2. CASE \E k \in Members : DecideFraud(k)
    <3>1. PICK k \in Members, s \in {"cleared", "confirmed"} :
            fraud' = [fraud EXCEPT ![k] = [fraud[k] EXCEPT !.status = s]]
      BY <2>2 DEF DecideFraud
    <3>2. fraud[m] \in Flags
      BY <2>0
    <3> QED BY <1>1, <2>0, <3>1, <3>2 DEF Flags
  <2>3. fraud' = fraud \/ (\E c \in Clerks : FinishScan(c)) \/ \E k \in Members : DecideFraud(k)
    BY <1>1
       DEF Next, vars, risk, SubmitProfile, VerifyProfile, RejectProfile, DecideReadiness,
           ReplaceDestination, Expire, Review, RefreshSanctions, UpdateRequireKyc,
           ReservePayoutBatch, SettlePayoutBatch, FailPayoutBatch, MarkMailed, StartScan,
           StartDispatch, TakeFence, LockMembers, FinishDispatch, CheckMember, StartCheckRun,
           SelectChecks, FinishCheckRun, Abort
  <2> QED BY <1>1, <2>1, <2>2, <2>3
<1>2. DeskInv /\ [Next]_vars =>
        [\A m \in Members :
           (fraud'[m].status = "open" /\ fraud[m].status # "open")
             => \/ fraud[m].status = "none"
                \/ fraud[m].status = "cleared" /\ fraud'[m].high]_vars
  BY <1>1
<1> QED BY <1>2, DeskCorrect, PTL DEF Spec, ScansKeepDecisions

\* No two payouts carry one check number: a print run holds the tenant's row from the read
\* of the counter to the commit.
THEOREM CheckNumbersUnique == Spec => []CheckNumbersAreUnique
<1>1. DeskInv => CheckNumbersAreUnique
  BY DEF DeskInv, CheckInv
<1> QED BY <1>1, DeskCorrect, PTL

\* No payout ever gets a second check number.
THEOREM OneCheckPerPayoutHolds == Spec => OneCheckPerPayout
<1>1. ASSUME DeskInv, [Next]_vars, NEW p \in DOMAIN payout, payout[p].number # 0
      PROVE  payout'[p].number = payout[p].number
  <2>0. p \in Batches \X Members
    BY <1>1 DEF DeskInv, TypeOK
  <2>1. CASE \A c \in Clerks : ~FinishCheckRun(c)
    BY <1>1, <2>0, <2>1, NumbersStep DEF DeskInv, NumbersKept
  <2>2. ASSUME NEW c \in Clerks, FinishCheckRun(c)
        PROVE  payout'[p].number = payout[p].number
    <3>1. p \notin tx[c].targets
      BY <1>1, <2>2, Numbering DEF DeskInv, Printable
    <3> QED BY <1>1, <2>0, <2>2, <3>1, Numbering DEF DeskInv
  <2> QED BY <2>1, <2>2
<1>2. DeskInv /\ [Next]_vars =>
        [\A p \in DOMAIN payout :
           payout[p].number # 0 => payout'[p].number = payout[p].number]_vars
  BY <1>1
<1> QED BY <1>2, DeskCorrect, PTL DEF Spec, OneCheckPerPayout
===============================================================================
