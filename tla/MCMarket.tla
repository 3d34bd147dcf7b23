------------------------------ MODULE MCMarket ------------------------------
(***************************************************************************)
(* Small markets for TLC: one seller, two buyers, and no juror unless      *)
(* Jurors says so.  The scenarios, told apart by the tasks of version 1:   *)
(*  - listings: from the state the constructor leaves, versions of three   *)
(*    tasks, previews and the owner's settings;                            *)
(*  - settlement: from a market with a version of two tasks listed, its    *)
(*    report attached and the seller's collateral deposited (createListing, *)
(*    requestPreview(fee 0), attachReport, depositCollateral lead there),  *)
(*    one purchase under changing parameters;                              *)
(*  - two purchases: a version of one task, two buyers, moving collateral. *)
(***************************************************************************)
EXTENDS WebPages

CONSTANTS seller, buyer1, buyer2, tee, Jurors, JurorStake0

P1 == [challengeWindow |-> 1, deliveryWindow |-> 1, refundCapBps |-> 5000,
       penaltyThresholdBps |-> 5000, penaltyBps |-> 2000, feeBps |-> 1500,
       bondFloor |-> 2, bondCap |-> 4, caseFee |-> 3, participationFee |-> 1,
       jurorStake |-> 4, minoritySlashBps |-> 5000, nonRevealSlashBps |-> 10000,
       commitWindow |-> 1, revealWindow |-> 1, verifierTimeout |-> 1]
P2 == [P1 EXCEPT !.caseFee = 4, !.penaltyBps = 1000, !.feeBps = 0, !.refundCapBps = 10000]
\* the version's collateral no longer covers a dispute, and an invalid set
P3 == [P1 EXCEPT !.caseFee = 6]
P4 == [P1 EXCEPT !.feeBps = 20000]
Term(tasks) == [price |-> 11, collateral |-> 6, taskCount |-> tasks, deliveryWindow |-> 1, challengeWindow |-> 1]

MCAccounts == {seller, buyer1, buyer2} \cup Jurors
MCParams == {P1, P2, P3, P4}
\* Windows of 0 stand for the default (delivery) and for a longer one than the owner's.
MCTerms == {[Term(3) EXCEPT !.deliveryWindow = 0, !.challengeWindow = 2]}

ListedVersion(tasks) == [NoVersion EXCEPT !.seller = seller, !.listing = 1, !.terms = Term(tasks),
                                          !.report = TRUE, !.active = TRUE]

ListedInit(stake, tasks) ==
  /\ InitChain /\ InitPurchases /\ InitCases /\ InitRecords
  /\ params = P1
  /\ previewConfig = [recipient |-> seller, minFee |-> 0, timeout |-> 1]
  /\ isRunner = {} /\ isRelay = {tee} /\ isVerifier = {tee}
  /\ listingSeller = [l \in VersionId |-> IF l = 1 THEN seller ELSE NoAccount] /\ nextListingId = 2
  /\ versions = [v \in VersionId |-> IF v = 1 THEN ListedVersion(tasks) ELSE NoVersion] /\ nextVersionId = 2
  /\ previews = [v \in VersionId |-> IF v # 1 THEN NoPreview
       ELSE [NoPreview EXCEPT !.paidAt = 1, !.timeout = 1, !.released = TRUE]]
  /\ stakes = [a \in Accounts |-> [total |-> IF a = seller THEN stake ELSE 0, reserved |-> 0]]
  /\ jurors = [a \in Accounts |-> IF a \in Jurors
       THEN [NoJuror EXCEPT !.approved = TRUE, !.listed = TRUE, !.total = JurorStake0, !.stakeBlock = 1]
       ELSE NoJuror]
  /\ bucket = [NoBuckets EXCEPT !.collateral = stake,
                                !.jurorStake = JurorStake0 * Cardinality(Jurors)]
  /\ balance = stake + JurorStake0 * Cardinality(Jurors)

Scenario == CASE versions[1].terms.taskCount = 1 -> "two purchases"
              [] versions[1].terms.taskCount = 2 -> "settlement"
              [] OTHER -> "listings"

\* Bounds of the scenarios.  Relay and verifier change only if nothing was bought, and
\* versions are deactivated only if no preview was paid, until the last block (3 for listings);
\* the first parameters do not come back.
ListingBound ==
  /\ UNCHANGED <<params, stakes, isRelay, isVerifier>> /\ claimable'[buyer2] >= claimable[buyer2]
  /\ blockNumber' < MaxBlock
  /\ blockNumber < MaxBlock - 1 \/ bucket'.previewFees + bucket'.claimable > 0 =>
       \A v \in VersionId : versions[v].active => versions'[v].active
SettlementBound ==
  /\ nextPurchaseId' <= 2 /\ purchases'[1].buyer # buyer2 /\ UNCHANGED <<previewConfig, isRunner>>
  /\ params' = P1 => params = P1
  /\ blockNumber < MaxBlock \/ nextPurchaseId' = 2 => UNCHANGED <<isRelay, isVerifier>>
TwoPurchasesBound ==
  /\ nextVersionId' = 2 /\ versions'[1].active /\ claimable'[buyer2] >= claimable[buyer2]
  /\ \A v \in VersionId : versionStats'[v].ratingCount = 0

MarketSpec ==
  /\ \/ Init /\ previewConfig.recipient = buyer2
     \/ ListedInit(10, 2)
     \/ ListedInit(12, 1)
  /\ [][\/ Scenario = "listings" /\ (NewBlock \/ Admin \/ Selling \/ Purchasing) /\ ListingBound
        \/ Scenario = "settlement" /\ (NewBlock \/ Admin \/ Purchasing \/ Judging) /\ SettlementBound
        \/ Scenario = "two purchases" /\ (NewBlock \/ Selling \/ Purchasing \/ Judging) /\ TwoPurchasesBound]_vars
=============================================================================
