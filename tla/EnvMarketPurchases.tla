------------------------- MODULE EnvMarketPurchases -------------------------
(***************************************************************************)
(* EnvMarket.sol, the sections PURCHASES, DISPUTES (opening and the        *)
(* mechanical grounds) and REPUTATION, with the internals that settle a    *)
(* purchase.  Juror panels are in EnvMarketJury.                           *)
(***************************************************************************)
EXTENDS EnvMarketListings

buy(a, v) ==
  LET t == versions[v].terms
      s == versions[v].seller
  IN
  /\ nextPurchaseId \in PurchaseId
  /\ s # NoAccount /\ versions[v].active /\ versions[v].report
  /\ a # s
  /\ t.collateral >= requiredCollateral(t.price, params)
  /\ freeCollateral(s) >= t.collateral
  /\ stakes' = [stakes EXCEPT ![s].reserved = @ + t.collateral]
  /\ purchases' = [purchases EXCEPT ![nextPurchaseId] =
       [NoPurchase EXCEPT !.state = "Funded", !.version = v, !.buyer = a, !.seller = s,
                          !.terms = t, !.par = params,
                          !.deliveryDeadline = timestamp + t.deliveryWindow]]
  /\ nextPurchaseId' = nextPurchaseId + 1
  /\ bucket' = [bucket EXCEPT !.escrow = @ + t.price]
  /\ balance' = balance + t.price
  /\ UNCHANGED <<chain, admin, catalog, previews, cases, jurors, claimable, stats>>

\* Anyone submits a receipt for the version's ciphertext that an allowed relay signed.
recordDelivery(i, signer) ==
  LET p == purchases[i] IN
  /\ p.state = "Funded"
  /\ timestamp <= p.deliveryDeadline
  /\ signer \in isRelay
  /\ purchases' = [purchases EXCEPT ![i] =
       [@ EXCEPT !.state = "Delivered", !.deliveredAt = timestamp,
                 !.challengeDeadline = timestamp + p.terms.challengeWindow]]
  /\ UNCHANGED <<chain, balance, admin, catalog, previews, nextPurchaseId, cases,
                 stakes, jurors, claimable, bucket, stats>>

\* The end of a purchase gives back its collateral reservation.
releaseCollateral_current(p) ==
  [stakes EXCEPT ![p.seller].reserved = @ - requiredCollateral(p.terms.price, params)]
releaseCollateral(p) == [stakes EXCEPT ![p.seller].reserved = @ - p.terms.collateral]

refundUndelivered_atDeadline(i) ==
  LET p == purchases[i] IN
  /\ p.state = "Funded"
  /\ timestamp >= p.deliveryDeadline
  /\ purchases' = [purchases EXCEPT ![i] = [@ EXCEPT !.state = "Refunded", !.refunded = p.terms.price]]
  /\ stakes' = releaseCollateral(p)
  /\ bucket' = [bucket EXCEPT !.escrow = @ - p.terms.price, !.claimable = @ + p.terms.price]
  /\ sellerStats' = [sellerStats EXCEPT ![p.seller].fullRefunds = @ + 1]
  /\ claimable' = credit(claimable, p.buyer, p.terms.price)
  /\ UNCHANGED <<chain, balance, admin, catalog, previews, nextPurchaseId, cases, jurors,
                 versionStats>>

refundUndelivered(i) ==
  LET p == purchases[i] IN
  /\ p.state = "Funded"
  /\ timestamp > p.deliveryDeadline
  /\ purchases' = [purchases EXCEPT ![i] = [@ EXCEPT !.state = "Refunded", !.refunded = p.terms.price]]
  /\ stakes' = releaseCollateral(p)
  /\ bucket' = [bucket EXCEPT !.escrow = @ - p.terms.price, !.claimable = @ + p.terms.price]
  /\ sellerStats' = [sellerStats EXCEPT ![p.seller].fullRefunds = @ + 1]
  /\ claimable' = credit(claimable, p.buyer, p.terms.price)
  /\ UNCHANGED <<chain, balance, admin, catalog, previews, nextPurchaseId, cases, jurors,
                 versionStats>>

---------------------------------------------------------------------------
(* Settlement *)

closed_stateForgotten(p, refund) ==
  [p EXCEPT !.refunded = @ + refund,
            !.fee = closeFee(p, refund), !.sellerProceeds = closeProceeds(p, refund)]

\* _closePurchase's record on the purchase.
closed(p, refund) ==
  [p EXCEPT !.state = "Settled", !.refunded = @ + refund,
            !.fee = closeFee(p, refund), !.sellerProceeds = closeProceeds(p, refund)]

\* _closePurchase's statistics; upheld counts the disputesUpheld of _resolve.
closedVersionStats_gross(vs, p, refund, upheld) ==
  [vs EXCEPT !.settledCount = @ + 1, !.retainedVolume = @ + p.terms.price,
             !.disputesUpheld = IF upheld THEN @ + 1 ELSE @]
closedVersionStats(vs, p, refund, upheld) ==
  [vs EXCEPT !.settledCount = @ + 1, !.retainedVolume = @ + (p.terms.price - refund),
             !.disputesUpheld = IF upheld THEN @ + 1 ELSE @]
closedSellerStats_gross(ss, p, refund, upheld) ==
  [ss EXCEPT !.retainedVolume = @ + p.terms.price, !.qualifyingTx = @ + 1,
             !.disputesUpheld = IF upheld THEN @ + 1 ELSE @]
closedSellerStats(ss, p, refund, upheld) ==
  [ss EXCEPT !.retainedVolume = @ + (p.terms.price - refund),
             !.qualifyingTx = IF p.terms.price - refund > 0 THEN @ + 1 ELSE @,
             !.disputesUpheld = IF upheld THEN @ + 1 ELSE @]

finalize(i) ==
  LET p == purchases[i] IN
  /\ p.state = "Delivered"
  /\ timestamp > p.challengeDeadline
  /\ purchases' = [purchases EXCEPT ![i] = closed(p, 0)]
  /\ stakes' = releaseCollateral(p)
  /\ bucket' = [bucket EXCEPT !.escrow = @ - p.terms.price,
                              !.treasury = @ + closeFee(p, 0),
                              !.claimable = @ + closeProceeds(p, 0)]
  /\ claimable' = credit(claimable, p.seller, closeProceeds(p, 0))
  /\ versionStats' = [versionStats EXCEPT ![p.version] = closedVersionStats(@, p, 0, FALSE)]
  /\ sellerStats' = [sellerStats EXCEPT ![p.seller] = closedSellerStats(@, p, 0, FALSE)]
  /\ UNCHANGED <<chain, balance, admin, catalog, previews, nextPurchaseId, cases, jurors>>

(***************************************************************************)
(* _resolve and _resolveFallback: apply outcome out to dispute d and its   *)
(* purchase.  extra is what the caller adds: where the case fee goes       *)
(* (treasury, or jurors through pay), juror stake slashed into reserve or  *)
(* payouts.  pay gives the jurors' credits, extra.claimable their sum.     *)
(***************************************************************************)
NoPay == [a \in Accounts |-> 0]

resolve(d, out, extra) ==
  LET i == disputes[d].purchase
      p == purchases[i]
  IN
  /\ disputes' = [disputes EXCEPT ![d] =
       [@ EXCEPT !.status = "Resolved", !.verdict = out.verdict, !.refund = out.refund,
                 !.fallbackNoQuorum = out.fallback, !.confirmedMask = out.mask]]
  /\ purchases' = [purchases EXCEPT ![i] =
       [closed(p, out.refund) EXCEPT !.remediedMask = @ \cup out.remedied,
                                     !.penalties = out.penalty]]
  /\ stakes' = [releaseCollateral(p) EXCEPT ![p.seller].total = @ - out.fromSeller]
  /\ bucket' = [bucket EXCEPT
       !.escrow = @ - p.terms.price,
       !.bonds = @ - disputes[d].bond,
       !.collateral = @ - out.fromSeller,
       !.jurorStake = @ - extra.jurorStake,
       !.treasury = @ + closeFee(p, out.refund) + extra.treasury,
       !.reserve = @ + out.toReserve + extra.reserve,
       !.claimable = @ + closeProceeds(p, out.refund) + out.toBuyer + extra.claimable]
  /\ claimable' = LET paid == credit(claimable, p.seller, closeProceeds(p, out.refund))
                      made == credit(paid, p.buyer, out.toBuyer)
                  IN [a \in Accounts |-> made[a] + extra.pay[a]]
  /\ LET upheld == out.verdict = "Uphold" IN
     /\ versionStats' = [versionStats EXCEPT
          ![p.version] = closedVersionStats(@, p, out.refund, upheld)]
     /\ sellerStats' = [sellerStats EXCEPT
          ![p.seller] = closedSellerStats(@, p, out.refund, upheld)]
  /\ UNCHANGED <<chain, balance, admin, catalog, previews, nextPurchaseId, nextDisputeId>>

---------------------------------------------------------------------------
(* DISPUTES *)

\* _armSelection on the dispute record dd.
armSelection(dd) ==
  [dd EXCEPT !.selectionBlock = blockNumber + 2,
             !.selectionDeadline = timestamp + dd.par.commitWindow + dd.par.revealWindow]

newDispute_wrongId(i, ground, mask) ==
  LET p == purchases[i] IN
  [NoDispute EXCEPT !.purchase = nextDisputeId, !.ground = ground, !.taskMask = mask,
     !.bond = bondFor(p, mask), !.caseFee = p.par.caseFee, !.par = params, !.status = "Voting",
     !.verifierDeadline = timestamp + params.verifierTimeout]

\* The record openDispute writes: a panel for FalseDescription, else the verifier.
newDispute(i, ground, mask) ==
  LET p == purchases[i]
      dd == [NoDispute EXCEPT !.purchase = i, !.ground = ground, !.taskMask = mask,
               !.requested = requestedRefund(p, mask), !.bond = bondFor(p, mask),
               !.caseFee = p.par.caseFee, !.par = params]
  IN IF ground = "FalseDescription"
     THEN armSelection([dd EXCEPT !.status = "AwaitingSelection", !.round = 1])
     ELSE [dd EXCEPT !.status = "Voting",
                     !.verifierDeadline = timestamp + params.verifierTimeout]

\* The buyer disputes the tasks in mask.
openDispute(i, ground, mask) ==
  LET p == purchases[i]
      bond == bondFor(p, mask)
  IN
  /\ nextDisputeId \in DisputeId
  /\ p.state = "Delivered"
  /\ timestamp <= p.challengeDeadline
  /\ ground # "None"
  /\ mask # {} /\ mask \subseteq 1..p.terms.taskCount
  /\ disputes' = [disputes EXCEPT ![nextDisputeId] = newDispute(i, ground, mask)]
  /\ purchases' = [purchases EXCEPT ![i] = [@ EXCEPT !.state = "Disputed", !.dispute = nextDisputeId]]
  /\ nextDisputeId' = nextDisputeId + 1
  /\ bucket' = [bucket EXCEPT !.bonds = @ + bond]
  /\ balance' = balance + bond
  /\ versionStats' = [versionStats EXCEPT ![p.version].disputesOpened = @ + 1]
  /\ sellerStats' = [sellerStats EXCEPT ![p.seller].disputesOpened = @ + 1]
  /\ UNCHANGED <<chain, admin, catalog, previews, nextPurchaseId, seats, stakes, jurors, claimable>>

Mechanical(d) == disputes[d].ground \in {"BrokenOrHashMismatch", "PreviewNotReproducible"}

NoExtra == [treasury |-> 0, reserve |-> 0, jurorStake |-> 0, claimable |-> 0, pay |-> NoPay]

\* A finding signed by an allowed verifier; the case fee goes to the treasury.
resolveMechanical(d, upheld, mask, signer) ==
  LET dd == disputes[d]
      out == IF upheld THEN upholdOutcome(purchases[dd.purchase], dd, mask) ELSE rejectOutcome(dd)
  IN
  /\ Mechanical(d) /\ dd.status = "Voting"
  /\ IF upheld THEN mask # {} /\ mask \subseteq dd.taskMask ELSE mask = {}
  /\ signer \in isVerifier
  /\ resolve(d, out, [NoExtra EXCEPT !.treasury = out.caseFee])
  /\ UNCHANGED <<seats, jurors>>

timeoutMechanical(d) ==
  /\ Mechanical(d) /\ disputes[d].status = "Voting"
  /\ timestamp > disputes[d].verifierDeadline
  /\ resolve(d, fallbackOutcome(disputes[d]), NoExtra)
  /\ UNCHANGED <<seats, jurors>>

---------------------------------------------------------------------------
(* REPUTATION *)
rate(i, stars) ==
  LET p == purchases[i]
      retained == p.terms.price - p.refunded
  IN
  /\ p.state = "Settled" /\ p.deliveredAt # 0
  /\ ~p.rated
  /\ stars \in 1..5
  /\ purchases' = [purchases EXCEPT ![i] = [@ EXCEPT !.rated = TRUE, !.stars = stars]]
  /\ versionStats' = [versionStats EXCEPT ![p.version] =
       [versionStats[p.version] EXCEPT !.ratingSum = @ + stars, !.ratingCount = @ + 1]]
  /\ sellerStats' = [sellerStats EXCEPT ![p.seller] =
       [sellerStats[p.seller] EXCEPT !.weightedRatingSum = @ + retained * stars,
                                     !.ratedRetained = @ + retained]]
  /\ UNCHANGED <<chain, balance, admin, catalog, previews, nextPurchaseId, cases,
                 stakes, jurors, claimable, bucket>>
=============================================================================
