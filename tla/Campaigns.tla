------------------------------ MODULE Campaigns ------------------------------
(***************************************************************************)
(* One campaign of CampaignsService (apps/api/src/campaigns/               *)
(* campaigns.service.ts) under sessions that edit, delete and finalize it: *)
(* requests of administrators and the hourly job.                          *)
(*                                                                         *)
(* Every operation reads the campaign first and decides by that copy; what *)
(* it then writes, it writes in a later step to whatever the row has       *)
(* become.  The awards of a finalization are the AwardBonus steps of       *)
(* CommissionLedger, in the transaction of the claim.                      *)
(***************************************************************************)
EXTENDS Integers

CONSTANTS
  Sessions,     \* requests and jobs that run at the same time
  Prizes,       \* prize lists
  StatusInputs, \* the statuses that updates may carry: draft, active
  Unset         \* a field that an update does not carry, or that has no value

ASSUME CampaignAssumption ==
  /\ StatusInputs \subseteq {"draft", "active"}
  /\ Unset \notin Prizes
  /\ Unset \notin {"draft", "active"}

VARIABLES
  campaign,     \* the row; "deleted" when there is none
  session,      \* session[s]: the operation, the copy it read and its input
  awarded       \* awarded[p]: how often the winners were paid by prize list p

vars == <<campaign, session, awarded>>

Campaign == [status: {"draft", "active", "ended", "deleted"}, prizes: Prizes,
             results: Prizes \cup {Unset}]
Inputs == [prizes: Prizes \cup {Unset}, status: StatusInputs \cup {Unset}]
NoInput == [prizes |-> Unset, status |-> Unset]

Init ==
  /\ campaign \in [status: {"draft", "active"}, prizes: Prizes, results: {Unset}]
  /\ session = [s \in Sessions |-> [op |-> "idle", seen |-> Unset, input |-> NoInput]]
  /\ awarded = [p \in Prizes |-> 0]

-----------------------------------------------------------------------------
\* require, and the start of an operation with the copy that it returned.
Read(s, op, input) ==
  /\ session[s].op = "idle"
  /\ campaign.status # "deleted"
  /\ session' = [session EXCEPT ![s] = [op |-> op, seen |-> campaign, input |-> input]]
  /\ UNCHANGED <<campaign, awarded>>

Done(s) ==
  session' = [session EXCEPT ![s] = [op |-> "idle", seen |-> Unset, input |-> NoInput]]

\* An ended campaign is not edited, and an active one keeps its prizes.
ReadUpdate(s, input) ==
  /\ campaign.status # "ended"
  /\ campaign.status = "active" => input.prizes = Unset
  /\ Read(s, "update", input)

\* The fields that the update carries replace those of the row.
WriteUpdate(s) ==
  LET input == session[s].input
  IN
  /\ session[s].op = "update"
  /\ campaign' = IF campaign.status = "deleted" THEN campaign
                 ELSE [campaign EXCEPT
                         !.prizes = IF input.prizes = Unset THEN @ ELSE input.prizes,
                         !.status = IF input.status = Unset THEN @ ELSE input.status]
  /\ Done(s)
  /\ UNCHANGED awarded

ReadRemove(s) == campaign.status = "draft" /\ Read(s, "remove", NoInput)

WriteRemove(s) ==
  /\ session[s].op = "remove"
  /\ campaign' = [campaign EXCEPT !.status = "deleted"]
  /\ Done(s)
  /\ UNCHANGED awarded

\* finalize, and autoFinalizeEnded for an active campaign whose window has ended.
ReadFinalize(s) == campaign.status # "ended" /\ Read(s, "finalize", NoInput)

\* Mutant of Claimable: the status is compared in the copy that was read.
ClaimableAsRead(s) == session[s].seen.status \in {"draft", "active"} /\ campaign.status # "deleted"

Claimable(s) == campaign.status \in {"draft", "active"}

\* Mutant of ResultPrizes: the results are computed from the row again.
ResultPrizesOfRow(s) == campaign.prizes

ResultPrizes(s) == session[s].seen.prizes

\* The claim, the awards by the prizes of the copy and the results are one
\* transaction.
ClaimAndAward(s) ==
  /\ session[s].op = "finalize"
  /\ Claimable(s)
  /\ awarded' = [awarded EXCEPT ![session[s].seen.prizes] = @ + 1]
  /\ campaign' = [campaign EXCEPT !.status = "ended", !.results = ResultPrizes(s)]
  /\ Done(s)

\* The claim fails, or an award meets a locked month and all is rolled back.
FinalizeFails(s) ==
  /\ session[s].op = "finalize"
  /\ Done(s)
  /\ UNCHANGED <<campaign, awarded>>

Next == \E s \in Sessions :
  \/ \E input \in Inputs : ReadUpdate(s, input)
  \/ WriteUpdate(s)
  \/ ReadRemove(s)
  \/ WriteRemove(s)
  \/ ReadFinalize(s)
  \/ ClaimAndAward(s)
  \/ FinalizeFails(s)

Spec == Init /\ [][Next]_vars

-----------------------------------------------------------------------------
(***************************************************************************)
(* Properties.                                                             *)
(***************************************************************************)

\* However many requests and jobs finalize the campaign at once, its winners are
\* paid once: "an ended campaign cannot be finalized again" in the words of finalize.
AwardedAtMostOnce ==
  \A p, q \in Prizes : awarded[p] > 0 /\ awarded[q] > 0 => p = q /\ awarded[p] = 1

\* The results that an ended campaign shows are those its winners were paid by,
\* even when the prizes were edited between the read and the claim.
ResultsArePaid ==
  campaign.status = "ended" =>
    /\ campaign.results \in Prizes
    /\ awarded[campaign.results] = 1
=============================================================================
