------------------------------- MODULE MCJury -------------------------------
(***************************************************************************)
(* Juror panels, from three states that approveJuror, depositJurorStake,   *)
(* buy and recordDelivery lead to, the owner having changed the parameters *)
(* since:                                                                  *)
(*  - DeliveredInit: a purchase delivered, no dispute, the jurors of       *)
(*    FirstPanel staked;                                                   *)
(*  - SecondRoundInit: one purchase disputed, its first panel (FirstPanel) *)
(*    split one to one with one juror silent, the second round armed.      *)
(*  - TwoPanelsInit: two purchases disputed, one before and one after that *)
(*    change, the same three jurors drawn for both and any of their        *)
(*    commitments made, just before the reveals; here stakes move too.     *)
(***************************************************************************)
EXTENDS EnvMarketClients, TLC

CONSTANTS seller, buyer, tee, Jurors, JurorStake0, FirstPanel, up, down, silent

P1 == [challengeWindow |-> 1, deliveryWindow |-> 1, refundCapBps |-> 5000,
       penaltyThresholdBps |-> 5000, penaltyBps |-> 2000, feeBps |-> 1500,
       bondFloor |-> 2, bondCap |-> 4, caseFee |-> 4, participationFee |-> 1,
       jurorStake |-> 3, minoritySlashBps |-> 3500, nonRevealSlashBps |-> 10000,
       commitWindow |-> 1, revealWindow |-> 1, verifierTimeout |-> 1]
\* later a participation fee above a third of the case fee agreed before
P2 == [P1 EXCEPT !.caseFee = 6, !.participationFee = 2, !.jurorStake = 1]
Term == [price |-> 10, collateral |-> 6, taskCount |-> 1, deliveryWindow |-> 1, challengeWindow |-> 1]

MCAccounts == {seller, buyer} \cup Jurors

ListedVersion == [NoVersion EXCEPT !.seller = seller, !.listing = 1, !.terms = Term,
                                   !.report = TRUE, !.active = TRUE]
DeliveredPurchase == [NoPurchase EXCEPT !.state = "Delivered", !.version = 1, !.buyer = buyer,
    !.seller = seller, !.terms = Term, !.par = P1, !.deliveryDeadline = 2, !.deliveredAt = 1,
    !.challengeDeadline = 2]
StakedJuror == [approved |-> TRUE, listed |-> TRUE, total |-> JurorStake0, locked |-> 0,
                stakeBlock |-> 1]

InitSold(n) ==
  /\ params = P2
  /\ previewConfig = [recipient |-> seller, minFee |-> 0, timeout |-> 1]
  /\ isRunner = {} /\ isRelay = {tee} /\ isVerifier = {tee}
  /\ listingSeller = [l \in VersionId |-> seller] /\ nextListingId = 2
  /\ versions = [v \in VersionId |-> ListedVersion] /\ nextVersionId = 2
  /\ previews = [v \in VersionId |-> [NoPreview EXCEPT !.paidAt = 1, !.timeout = 1, !.released = TRUE]]
  /\ nextPurchaseId = n + 1
  /\ stakes = [a \in Accounts |-> IF a = seller THEN [total |-> 6 * n, reserved |-> 6 * n]
                                  ELSE [total |-> 0, reserved |-> 0]]
  /\ claimable = [a \in Accounts |-> 0]

DeliveredInit ==
  LET staked == JurorStake0 * Cardinality(FirstPanel) IN
  /\ InitSold(1) /\ InitChain /\ InitCases /\ InitRecords
  /\ purchases = [i \in PurchaseId |-> IF i = 1 THEN DeliveredPurchase ELSE NoPurchase]
  /\ jurors = [a \in Accounts |-> IF a \in FirstPanel THEN StakedJuror
                                   ELSE [NoJuror EXCEPT !.listed = a \in Jurors]]
  /\ bucket = [NoBuckets EXCEPT !.escrow = 10, !.collateral = 6, !.jurorStake = staked]
  /\ balance = 16 + staked

\* Opened in block 1, drawn in block 4, deadlines 5 and 6, tallied in block 7.
FailedPanel == [a \in FirstPanel |->
  IF a = silent THEN [EmptySeat EXCEPT !.slashed = 3]
  ELSE [EmptySeat EXCEPT !.revealed = TRUE,
                         !.commitment = IF a = up THEN "Uphold" ELSE "Reject"]]

SecondRoundInit ==
  /\ InitSold(1)
  /\ blockNumber = 7 /\ timestamp = 7
  /\ purchases = [i \in PurchaseId |-> IF i # 1 THEN NoPurchase ELSE
       [DeliveredPurchase EXCEPT !.state = "Disputed", !.dispute = 1]]
  /\ disputes = [d \in DisputeId |-> IF d # 1 THEN NoDispute ELSE
       [NoDispute EXCEPT !.purchase = 1, !.ground = "FalseDescription", !.round = 2,
          !.status = "AwaitingSelection", !.taskMask = {1}, !.requested = 5, !.bond = 4,
          !.caseFee = 4, !.par = P1, !.selectionBlock = 9, !.selectionDeadline = 9]]
  /\ nextDisputeId = 2
  /\ seats = [d \in DisputeId |-> [r \in Rounds |->
       IF d = 1 /\ r = 1 THEN FailedPanel ELSE [a \in {} |-> EmptySeat]]]
  /\ jurors = [a \in Accounts |-> IF a \notin Jurors THEN NoJuror
       ELSE [StakedJuror EXCEPT !.total = IF a = silent THEN @ - 3 ELSE @]]
  /\ bucket = [NoBuckets EXCEPT !.escrow = 10, !.collateral = 6, !.bonds = 4, !.reserve = 3,
                                !.jurorStake = JurorStake0 * Cardinality(Jurors) - 3]
  /\ balance = 20 + JurorStake0 * Cardinality(Jurors)
  /\ versionStats = [v \in VersionId |-> [NoVersionStats EXCEPT !.disputesOpened = IF v = 1 THEN 1 ELSE 0]]
  /\ sellerStats = [a \in Accounts |-> [NoSellerStats EXCEPT
                       !.disputesOpened = IF a = seller THEN 1 ELSE 0]]

\* Both disputes opened in block 7 and drawn in block 10, under P1 and P2.
BothPanels == Jurors \ FirstPanel
VotingDispute(d) ==
  LET par == IF d = 1 THEN P1 ELSE P2 IN
  [NoDispute EXCEPT !.purchase = d, !.ground = "FalseDescription", !.round = 1,
     !.status = "Voting", !.taskMask = {1}, !.requested = 5, !.bond = 4, !.caseFee = 4,
     !.par = par, !.selectionBlock = 9, !.selectionDeadline = 9,
     !.commitDeadline = 11, !.revealDeadline = 12]

TwoPanelsInit ==
  /\ InitSold(2)
  /\ blockNumber = 12 /\ timestamp = 12
  /\ purchases = [i \in PurchaseId |-> [DeliveredPurchase EXCEPT !.state = "Disputed", !.dispute = i]]
  /\ disputes = [d \in DisputeId |-> VotingDispute(d)] /\ nextDisputeId = 3
  /\ \E vote \in [DisputeId -> [BothPanels -> {"None", "Uphold", "Reject"}]] :
      \* bound: in the second dispute all commit, and at most one to reject
      /\ \A a \in BothPanels : vote[2][a] # "None"
      /\ Cardinality({a \in BothPanels : vote[2][a] = "Reject"}) <= 1
      /\ seats = [d \in DisputeId |-> [r \in Rounds |->
         [a \in (IF r = 1 THEN BothPanels ELSE {}) |-> [EmptySeat EXCEPT !.commitment = vote[d][a]]]]]
  /\ jurors = [a \in Accounts |-> IF a \in BothPanels
       THEN [StakedJuror EXCEPT !.locked = P1.jurorStake + P2.jurorStake] ELSE NoJuror]
  /\ bucket = [NoBuckets EXCEPT !.escrow = 20, !.collateral = 12, !.bonds = 8,
                                !.jurorStake = JurorStake0 * Cardinality(BothPanels)]
  /\ balance = 40 + JurorStake0 * Cardinality(BothPanels)
  /\ versionStats = [v \in VersionId |-> [NoVersionStats EXCEPT !.disputesOpened = 2]]
  /\ sellerStats = [a \in Accounts |-> [NoSellerStats EXCEPT
                       !.disputesOpened = IF a = seller THEN 2 ELSE 0]]

\* Bounds: jurors move their stake in the scenario with two panels only, where nobody is
\* approved or withdraws.  While a panel votes, one of its jurors keeps its approval; when
\* everything is resolved only balances are withdrawn.
Decided == \A d \in DisputeId : disputes[d].status \in {"None", "Resolved"}
Bounded ==
  /\ Jury(1, "Voting") => jurors'[down].approved = jurors[down].approved
  /\ nextDisputeId > 1 /\ Decided => UNCHANGED <<jurors, blockNumber>>
PanelsSpec ==
  /\ DeliveredInit \/ SecondRoundInit \/ TwoPanelsInit
  /\ [][/\ \/ nextDisputeId = 3 /\ (NewBlock \/ Judging)
           \/ nextDisputeId < 3 /\ (NewBlock \/ Admin \/ Purchasing \/ Deciding)
        /\ Bounded]_vars

Symmetry == Permutations(BothPanels)
=============================================================================
