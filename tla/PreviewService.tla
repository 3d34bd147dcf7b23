---------------------------- MODULE PreviewService ----------------------------
(***************************************************************************)
(* The seller's command for a preview and the HTTP routes of the TEE,      *)
(* composed with the runner and the market.                                *)
(***************************************************************************)
EXTENDS PreviewRunner

VARIABLES
  asking,      \* version -> callers whose POST /preview is checking its preconditions
  seller       \* version -> progress of the seller's command

vars == <<chainVars, runnerVars, asking, seller>>

Callers == {"seller", "other"}
Resting == [stage |-> "idle", quote |-> "foreign", report |-> NoReport]
SellerStates == [stage : {"idle", "quoted", "paid", "asking", "polling", "verified"}, quote : Quotes,
                 report : Nat]

Init == /\ ChainInit /\ RunnerInit
        /\ asking = [v \in Versions |-> {}] /\ seller = [v \in Versions |-> Resting]

rests(v) == seller' = [seller EXCEPT ![v] = Resting]
at(v, stage) == seller' = [seller EXCEPT ![v].stage = stage]

---------------------------------------------------------------------------
(* The seller's command: payPreview, then previewAndAttach *)

\* An answer of 404 is taken for a service without quotes.
payPreview(v) ==
  /\ seller[v].stage = "idle"
  /\ \/ request[v].state = "paid" /\ at(v, "paid") /\ noFault
     \/ /\ request[v].state # "paid"
        /\ \/ seller' = [seller EXCEPT ![v] = [stage |-> "quoted", quote |-> quotePreview(v), report |-> NoReport]]
              /\ noFault
           \/ seller' = [seller EXCEPT ![v] = [stage |-> "quoted", quote |-> "foreign", report |-> NoReport]]
              /\ fault
  /\ UNCHANGED <<request, attached, late, runnerVars, asking>>

sendRequest(v) ==
  /\ seller[v].stage = "quoted"
  /\ LET t == RequestTx(v, seller[v].quote) IN
       \/ succeeds(t) /\ at(v, "paid")
       \/ (refused(t) \/ givenUp(t)) /\ rests(v)
  /\ UNCHANGED <<runnerVars, asking>>

\* The route answers with the stored report, or first checks the preconditions.
postPreview(v) ==
  /\ seller[v].stage = "paid"
  /\ IF stored[v] # NoReport
     THEN seller' = [seller EXCEPT ![v].stage = "verified", ![v].report = stored[v]] /\ UNCHANGED asking
     ELSE at(v, "asking") /\ asking' = [asking EXCEPT ![v] = asking[v] \cup {"seller"}]
  /\ UNCHANGED <<chainVars, runnerVars>>

\* The rest of the route, after its awaits: refused or over the rate limit, or a run is
\* started or joined, and the caller is told to poll.
handlePreview(v, c) ==
  /\ c \in asking[v] /\ asking' = [asking EXCEPT ![v] = asking[v] \ {c}]
  /\ \/ /\ Preconditions(v) /\ previewVersion(v) /\ noFault
        /\ IF c = "seller" THEN at(v, "polling") ELSE UNCHANGED seller
     \/ /\ UNCHANGED job
        /\ IF Preconditions(v) THEN fault ELSE noFault
        /\ IF c = "seller" THEN rests(v) ELSE UNCHANGED seller
  /\ UNCHANGED <<request, attached, late, panel, diskVars>>

\* GET /reports: the report as soon as it is stored, or the run failed or is unknown.
poll(v) ==
  /\ seller[v].stage = "polling"
  /\ \/ /\ stored[v] # NoReport /\ noFault
        /\ seller' = [seller EXCEPT ![v].stage = "verified", ![v].report = stored[v]]
     \/ stored[v] = NoReport /\ job[v].stage = "idle" /\ rests(v) /\ noFault
     \/ rests(v) /\ fault
  /\ UNCHANGED <<request, attached, late, runnerVars, asking>>

\* Mutant: attaching is left to the TEE.
attachVerified_waits(v) ==
  /\ seller[v].stage = "verified" /\ attached[v] # NoReport /\ rests(v)
  /\ UNCHANGED <<chainVars, runnerVars, asking>>

attachVerified(v) ==
  /\ seller[v].stage = "verified" /\ rests(v)
  /\ IF attached[v] # NoReport THEN UNCHANGED chainVars
     ELSE LET t == AttachTx(v, seller[v].report) IN succeeds(t) \/ refused(t) \/ givenUp(t)
  /\ UNCHANGED <<runnerVars, asking>>

sellerStep(v) == payPreview(v) \/ sendRequest(v) \/ postPreview(v) \/ poll(v) \/ attachVerified(v)

---------------------------------------------------------------------------
postByOthers(v) ==
  /\ stored[v] = NoReport /\ asking' = [asking EXCEPT ![v] = asking[v] \cup {"other"}]
  /\ UNCHANGED <<chainVars, runnerVars, seller>>

\* The TEE restarts: its runs and open requests are lost, the callers get an error.
crash ==
  /\ fault /\ job' = [v \in Versions |-> NoJob] /\ asking' = [v \in Versions |-> {}]
  /\ seller' = [v \in Versions |-> IF seller[v].stage = "asking" THEN Resting ELSE seller[v]]
  /\ UNCHANGED <<request, attached, late, panel, diskVars>>

MarketActs ==
  /\ \/ OthersAct
     \/ \E t \in late : mineLate(t)
  /\ UNCHANGED <<runnerVars, asking, seller>>
RunnerActs ==
  /\ \/ \E v \in Versions : jobStep(v) \/ attachStoredReport(v)
     \/ \E k \in Keys : importSealed(k)
     \/ modelsChange
  /\ UNCHANGED <<asking, seller>>
RouteActs == \/ \E v \in Versions : \/ sellerStep(v) \/ postByOthers(v)
                                    \/ \E c \in Callers : handlePreview(v, c)
             \/ crash

Next == MarketActs \/ RunnerActs \/ RouteActs
Spec == Init /\ [][Next]_vars

\* The seller repeats its command until the report is attached, runs and requests go on.
\* Nobody has to reclaim, no late transaction has to be included, no deadline has to pass.
Fairness == \A v \in Versions : /\ WF_vars(jobStep(v) /\ UNCHANGED <<asking, seller>>)
                                /\ WF_vars(sellerStep(v))
                                /\ WF_vars(handlePreview(v, "seller"))
LiveSpec == Spec /\ Fairness

---------------------------------------------------------------------------
\* Market, disk, runs and requests are well typed: no run without models is ever reusable.
TypeOK == /\ ChainTypeOK /\ RunnerTypeOK
          /\ asking \in [Versions -> SUBSET Callers] /\ seller \in [Versions -> SellerStates]

\* A report of this runner on the market is the one on its disk, for good: no second run, crash
\* or late transaction makes them differ (preview.ts: put before attach, one report per version).
AttachedIsStored == \A v \in Versions : attached[v] \in Nat \ {NoReport} => attached[v] = stored[v]

\* A version is evaluated again only if the run before failed or was lost: requests that checked
\* for a report before it was there join its run or find it (previewVersion).
OneRunPerVersion == \A v \in Versions : evaluated[v] <= 1 + faults

\* No run of the harness begins for a fee that was taken back after it was checked: the deadline
\* is read after the payment, and before it no fee can be reclaimed (requirePaidPreview).
RunsBeginPaid ==
  [][\A v \in Versions : evaluated'[v] # evaluated[v] => request[v].state = "paid"]_vars

\* A preview paid on this service's quote, while it was valid, is attached before the time for a
\* run is over, through crashes, failed runs and lost requests, if the seller repeats its command.
PaidPreviewSettles ==
  \A v \in Versions :
    (Outstanding(v) /\ request[v].clock = "early" /\ PaymentOK(v))
      ~> attached[v] # NoReport \/ request[v].clock # "early"

\* preview.ts:81, "quote.worstCaseUsd is therefore a bound": models run only if the quote that was
\* paid priced them.
SpendQuoted ==
  \A v \in Versions : job[v].stage = "inferring" /\ job[v].panel # NoModels => job[v].quote = "full"
=============================================================================
