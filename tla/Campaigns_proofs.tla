--------------------------- MODULE Campaigns_proofs ---------------------------
(***************************************************************************)
(* Proofs about a campaign, for any sessions, prize lists and statuses     *)
(* that updates carry.  What finalize claims rests on one thing that the   *)
(* code does not ensure: that an ended campaign is not reopened.  So there *)
(* are two kinds of theorems: what holds in every behaviour, with the one  *)
(* way a campaign can be reopened; and what holds in every behaviour that  *)
(* does not go that way.                                                   *)
(***************************************************************************)
EXTENDS Campaigns, TLAPS

\* An ended campaign becomes one that can be finalized.
Reopens == campaign.status = "ended" /\ campaign'.status \in {"draft", "active"}

\* The copy and the input of an operation at work; no update starts from an ended campaign.
SessionOK(x) ==
  x.op # "idle" =>
    /\ x.seen.prizes \in Prizes
    /\ x.input \in Inputs
    /\ x.op = "update" => x.seen.status # "ended"

TypeOK ==
  /\ campaign \in Campaign
  /\ awarded \in [Prizes -> Nat]
  /\ session = [s \in Sessions |-> session[s]]
  /\ \A s \in Sessions : SessionOK(session[s])

\* The results of an ended campaign are a prize list its winners were paid by,
\* perhaps not for the first time.
ResultsWerePaid ==
  campaign.status = "ended" => campaign.results \in Prizes /\ awarded[campaign.results] > 0

\* What every behaviour keeps.
Always == TypeOK /\ ResultsWerePaid

\* As long as it can be finalized, the campaign has paid nobody.
UnpaidUntilEnded ==
  campaign.status \in {"draft", "active"} => \A p \in Prizes : awarded[p] = 0

\* What every behaviour keeps that does not reopen the campaign.
Once == UnpaidUntilEnded /\ AwardedAtMostOnce /\ ResultsArePaid

\* A campaign starts unpaid.
LEMMA InvInitially == Init => Always /\ Once
<1> SUFFICES ASSUME Init
             PROVE  Always /\ Once
  OBVIOUS
<1>1. /\ campaign.status \in {"draft", "active"} /\ campaign.prizes \in Prizes
      /\ campaign \in Campaign
  BY DEF Init, Campaign
<1>2. \A p \in Prizes : awarded[p] = 0
  BY DEF Init
<1>3. TypeOK
  BY <1>1 DEF Init, TypeOK, SessionOK
<1> QED
  BY <1>1, <1>2, <1>3
     DEF Always, Once, ResultsWerePaid, UnpaidUntilEnded, AwardedAtMostOnce, ResultsArePaid

\* The session ends its operation.
LEMMA DoneKeepsSessions ==
  ASSUME TypeOK, NEW s \in Sessions, Done(s)
  PROVE  /\ session' = [t \in Sessions |-> session'[t]]
         /\ \A t \in Sessions : SessionOK(session'[t])
<1>1. \A t \in Sessions :
        session'[t] = IF t = s THEN [op |-> "idle", seen |-> Unset, input |-> NoInput]
                      ELSE session[t]
  BY DEF TypeOK, Done
<1> QED
  BY <1>1 DEF TypeOK, Done, SessionOK

\* Reading changes nothing but the session, whose copy is a campaign.
LEMMA ReadStep ==
  ASSUME TypeOK, NEW s \in Sessions, NEW op, NEW input \in Inputs, Read(s, op, input),
         op = "update" => campaign.status # "ended"
  PROVE  TypeOK' /\ campaign' = campaign /\ awarded' = awarded
<1>1. /\ campaign' = campaign /\ awarded' = awarded
      /\ session' = [session EXCEPT ![s] = [op |-> op, seen |-> campaign, input |-> input]]
  BY DEF Read
<1>2. \A t \in Sessions :
        session'[t] = IF t = s THEN [op |-> op, seen |-> campaign, input |-> input]
                      ELSE session[t]
  BY <1>1 DEF TypeOK
<1>3. campaign.prizes \in Prizes
  BY DEF TypeOK, Campaign
<1> QED
  BY <1>1, <1>2, <1>3 DEF TypeOK, SessionOK

\* An update moves a campaign between draft and active, and an ended one back only if its
\* input carries a status.  It started from a copy that was not ended.
LEMMA UpdateStep ==
  ASSUME TypeOK, NEW s \in Sessions, WriteUpdate(s)
  PROVE  /\ TypeOK' /\ awarded' = awarded /\ campaign'.results = campaign.results
         /\ campaign'.status = "ended" => campaign.status = "ended"
         /\ campaign'.status \in {"draft", "active"} =>
              campaign.status \in {"draft", "active"} \/ Reopens
         /\ Reopens => /\ session[s].op = "update" /\ session[s].seen.status # "ended"
                       /\ session[s].input.status # Unset
<1> DEFINE input == session[s].input
<1>1. input \in Inputs /\ session[s].op = "update" /\ session[s].seen.status # "ended"
  BY DEF TypeOK, SessionOK, WriteUpdate
<1>2. awarded' = awarded /\ Done(s)
  BY DEF WriteUpdate
<1>3. campaign' = IF campaign.status = "deleted" THEN campaign
                  ELSE [campaign EXCEPT
                          !.prizes = IF input.prizes = Unset THEN @ ELSE input.prizes,
                          !.status = IF input.status = Unset THEN @ ELSE input.status]
  BY DEF WriteUpdate
<1>4. campaign \in Campaign
  BY DEF TypeOK
<1>5. input.prizes \in Prizes \cup {Unset} /\ input.status \in {"draft", "active", Unset}
  BY <1>1, CampaignAssumption DEF Inputs
<1> HIDE DEF input
<1>6. /\ campaign' \in Campaign
      /\ campaign'.results = campaign.results
      /\ campaign'.status = IF campaign.status = "deleted" \/ input.status = Unset
                            THEN campaign.status ELSE input.status
  BY <1>3, <1>4, <1>5 DEF Campaign
<1>7. TypeOK'
  BY <1>2, <1>6, DoneKeepsSessions DEF TypeOK
<1>8. campaign'.status = "ended" => campaign.status = "ended"
  BY <1>5, <1>6, CampaignAssumption
<1>9. Reopens => input.status # Unset
  BY <1>6 DEF Reopens
<1>10. campaign'.status \in {"draft", "active"} =>
         campaign.status \in {"draft", "active"} \/ Reopens
  <2>1. campaign.status \in {"draft", "active", "ended", "deleted"}
    BY <1>4 DEF Campaign
  <2> QED
    BY <1>6, <2>1 DEF Reopens
<1> QED
  BY <1>1, <1>2, <1>6, <1>7, <1>8, <1>9, <1>10 DEF input

\* A deletion leaves no campaign to finalize.
LEMMA RemoveStep ==
  ASSUME TypeOK, NEW s \in Sessions, WriteRemove(s)
  PROVE  TypeOK' /\ awarded' = awarded /\ campaign'.status = "deleted"
<1>1. awarded' = awarded /\ Done(s) /\ campaign' = [campaign EXCEPT !.status = "deleted"]
  BY DEF WriteRemove
<1>2. campaign' \in Campaign /\ campaign'.status = "deleted"
  BY <1>1 DEF TypeOK, Campaign
<1> QED
  BY <1>1, <1>2, DoneKeepsSessions DEF TypeOK

\* The claim ends the campaign and pays by the prizes of the copy, which it shows.
LEMMA AwardStep ==
  ASSUME TypeOK, NEW s \in Sessions, ClaimAndAward(s)
  PROVE  /\ TypeOK' /\ campaign.status \in {"draft", "active"} /\ campaign'.status = "ended"
         /\ campaign'.results \in Prizes
         /\ \A p \in Prizes :
              awarded'[p] = IF p = campaign'.results THEN awarded[p] + 1 ELSE awarded[p]
<1>1. session[s].seen.prizes \in Prizes
  BY DEF ClaimAndAward, TypeOK, SessionOK
<1> PICK paid \in Prizes : paid = session[s].seen.prizes
  BY <1>1
<1>2. /\ campaign.status \in {"draft", "active"}
      /\ awarded' = [awarded EXCEPT ![paid] = @ + 1]
      /\ campaign' = [campaign EXCEPT !.status = "ended", !.results = paid]
      /\ Done(s)
  BY DEF ClaimAndAward, Claimable, ResultPrizes
<1>3. awarded \in [Prizes -> Nat]
  BY DEF TypeOK
<1>4. /\ awarded' \in [Prizes -> Nat]
      /\ \A p \in Prizes : awarded'[p] = IF p = paid THEN awarded[p] + 1 ELSE awarded[p]
  BY <1>2, <1>3
<1>5. campaign' \in Campaign /\ campaign'.status = "ended" /\ campaign'.results = paid
  BY <1>2 DEF TypeOK, Campaign
<1>6. TypeOK'
  BY <1>2, <1>4, <1>5, DoneKeepsSessions DEF TypeOK
<1> QED
  BY <1>2, <1>4, <1>5, <1>6

\* The steps that change neither the campaign nor the awards.
LEMMA QuietStep ==
  ASSUME TypeOK,
         \/ \E s \in Sessions, input \in Inputs : ReadUpdate(s, input)
         \/ \E s \in Sessions : ReadRemove(s) \/ ReadFinalize(s) \/ FinalizeFails(s)
         \/ UNCHANGED vars
  PROVE  TypeOK' /\ campaign' = campaign /\ awarded' = awarded
<1>1. NoInput \in Inputs
  BY DEF NoInput, Inputs
<1>2. ASSUME NEW s \in Sessions, NEW input \in Inputs, ReadUpdate(s, input)
      PROVE  TypeOK' /\ campaign' = campaign /\ awarded' = awarded
  BY <1>2, ReadStep DEF ReadUpdate
<1>3. ASSUME NEW s \in Sessions, ReadRemove(s) \/ ReadFinalize(s)
      PROVE  TypeOK' /\ campaign' = campaign /\ awarded' = awarded
  BY <1>1, <1>3, ReadStep DEF ReadRemove, ReadFinalize
<1>4. ASSUME NEW s \in Sessions, FinalizeFails(s)
      PROVE  TypeOK' /\ campaign' = campaign /\ awarded' = awarded
  BY <1>4, DoneKeepsSessions DEF FinalizeFails, TypeOK
<1>5. CASE UNCHANGED vars
  BY <1>5 DEF vars, TypeOK
<1> QED
  BY <1>2, <1>3, <1>4, <1>5

\* One case per action: an update shows no results of its own, and a claim those it pays by.
LEMMA AlwaysKept == Always /\ [Next]_vars => Always'
<1> SUFFICES ASSUME Always, [Next]_vars
             PROVE  Always'
  OBVIOUS
<1> USE DEF Always, ResultsWerePaid
<1>1. ASSUME NEW s \in Sessions, WriteUpdate(s)
      PROVE  Always'
  BY <1>1, UpdateStep
<1>2. ASSUME NEW s \in Sessions, WriteRemove(s)
      PROVE  Always'
  BY <1>2, RemoveStep
<1>3. ASSUME NEW s \in Sessions, ClaimAndAward(s)
      PROVE  Always'
  <2>1. awarded \in [Prizes -> Nat]
    BY DEF TypeOK
  <2> QED
    BY <1>3, <2>1, AwardStep
<1> QED
  BY <1>1, <1>2, <1>3, QuietStep DEF Next

\* One case per action: without reopening, a claim finds a campaign that has paid nobody.
LEMMA OnceKept == Always /\ Once /\ [Next]_vars /\ [~Reopens]_vars => Once'
<1> SUFFICES ASSUME Always, Once, [Next]_vars, [~Reopens]_vars
             PROVE  Once'
  OBVIOUS
<1> USE DEF Always, Once, UnpaidUntilEnded, AwardedAtMostOnce, ResultsArePaid
<1>1. ASSUME NEW s \in Sessions, WriteUpdate(s)
      PROVE  Once'
  <2>1. ~Reopens
    BY DEF vars, Reopens
  <2> QED
    BY <1>1, <2>1, UpdateStep
<1>2. ASSUME NEW s \in Sessions, WriteRemove(s)
      PROVE  Once'
  BY <1>2, RemoveStep
<1>3. ASSUME NEW s \in Sessions, ClaimAndAward(s)
      PROVE  Once'
  <2>1. \A p \in Prizes : awarded'[p] = IF p = campaign'.results THEN 1 ELSE 0
    BY <1>3, AwardStep
  <2> QED
    BY <1>3, <2>1, AwardStep
<1> QED
  BY <1>1, <1>2, <1>3, QuietStep DEF Next

\* update checks only its copy.  That is the one way back from the end: an ended campaign
\* is reopened only by an update that read it before it ended and carries a status.
THEOREM OnlyAnUpdateReopens ==
  Spec => [][Reopens => \E s \in Sessions :
               /\ session[s].op = "update"
               /\ session[s].seen.status # "ended"
               /\ session[s].input.status # Unset]_vars
<1> DEFINE ByUpdate == \E s \in Sessions : /\ session[s].op = "update"
                                           /\ session[s].seen.status # "ended"
                                           /\ session[s].input.status # Unset
<1>1. Always /\ [Next]_vars => [Reopens => ByUpdate]_vars
  <2> SUFFICES ASSUME Always, [Next]_vars, Reopens
               PROVE  ByUpdate
    OBVIOUS
  <2>1. ASSUME NEW s \in Sessions, WriteRemove(s) \/ ClaimAndAward(s)
        PROVE  FALSE
    BY <2>1, RemoveStep, AwardStep DEF Always, Reopens
  <2>2. ASSUME NEW s \in Sessions, WriteUpdate(s)
        PROVE  ByUpdate
    BY <2>2, UpdateStep DEF Always
  <2> QED
    BY <2>1, <2>2, QuietStep DEF Next, Always, Reopens
<1> QED
  BY <1>1, InvInitially, AlwaysKept, PTL DEF Spec

\* Whatever is edited, reopened or finalized again, the results that an ended campaign
\* shows are of a prize list by which finalize paid its winners.
THEOREM ResultsNeverInvented == Spec => []ResultsWerePaid
<1>1. Always => ResultsWerePaid
  BY DEF Always
<1> QED
  BY <1>1, InvInitially, AlwaysKept, PTL DEF Spec

\* The claim of finalize, "an ended campaign cannot be finalized again", as far as it goes:
\* in every behaviour that does not reopen the campaign, with updates that activate it and
\* edit its prizes at any time, the winners are paid once.
THEOREM WinnersPaidOnce == Spec /\ [][~Reopens]_vars => []AwardedAtMostOnce
<1>1. Once => AwardedAtMostOnce
  BY DEF Once
<1> QED
  BY <1>1, InvInitially, AlwaysKept, OnceKept, PTL DEF Spec

\* In the same behaviours the results shown are of the one prize list that was paid,
\* whatever was edited between the read of finalize and its claim.
THEOREM ResultsPaid == Spec /\ [][~Reopens]_vars => []ResultsArePaid
<1>1. Once => ResultsArePaid
  BY DEF Once
<1> QED
  BY <1>1, InvInitially, AlwaysKept, OnceKept, PTL DEF Spec
=============================================================================
