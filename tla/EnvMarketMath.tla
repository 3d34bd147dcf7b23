---------------------------- MODULE EnvMarketMath ----------------------------
(***************************************************************************)
(* The settlement arithmetic of EnvMarket.sol: quote, resolution of a      *)
(* dispute, split of the escrowed price, juror payouts.  A task mask is    *)
(* the set of its one bits, so _popcount is Cardinality.  \div is the      *)
(* truncating uint256 division.                                            *)
(*                                                                         *)
(* Here and in the modules that follow, a definition named X_suffix is a   *)
(* faulty version of X that no specification uses: PROJECT.json names the  *)
(* property each of them breaks.                                           *)
(***************************************************************************)
EXTENDS EnvMarketStorage

Least(a, b) == IF a <= b THEN a ELSE b

PerBps(x, bps) == (x * bps) \div BPS

refundCap(p) == PerBps(p.terms.price, p.par.refundCapBps)

\* The price of the tasks in mask, before any cap.
taskValue(p, mask) == Cardinality(mask) * (p.terms.price \div p.terms.taskCount)

\* _quote: the refund a dispute over mask asks for, and the bond it costs.
requestedRefund(p, mask) == Least(taskValue(p, mask), refundCap(p))
bondFor(p, mask) ==
  LET requested == requestedRefund(p, mask)
  IN IF requested < p.par.bondFloor THEN p.par.bondFloor
     ELSE Least(requested, p.par.bondCap)

requiredCollateral_noCaseFee(price, pr) == PerBps(price, pr.penaltyBps)

\* buy: the worst-case seller-side charge of a dispute at the current params.
requiredCollateral(price, pr) == pr.caseFee + PerBps(price, pr.penaltyBps)

(***************************************************************************)
(* What _resolve (uphold, reject) and _resolveFallback decide: the verdict *)
(* and every amount it moves.  fromSeller leaves the collateral, caseFee   *)
(* is the part its caller routes (treasury or jurors).                     *)
(***************************************************************************)
upheldRefund_uncapped(p, mask) == taskValue(p, mask \ p.remediedMask)

upheldRefund(p, mask) ==
  LET cap  == refundCap(p)
      room == IF cap > p.refunded THEN cap - p.refunded ELSE 0
  IN Least(taskValue(p, mask \ p.remediedMask), room)

upheldCaseFee(p) == Least(p.par.caseFee, p.terms.collateral)

upheldPenalty(p, mask) ==
  IF Cardinality(mask) * BPS > p.terms.taskCount * p.par.penaltyThresholdBps
  THEN Least(PerBps(p.terms.price, p.par.penaltyBps), p.terms.collateral - upheldCaseFee(p))
  ELSE 0

upholdOutcome(p, d, mask) ==
  [verdict |-> "Uphold", fallback |-> FALSE, mask |-> mask,
   remedied |-> mask \ p.remediedMask,
   refund |-> upheldRefund(p, mask), caseFee |-> upheldCaseFee(p),
   penalty |-> upheldPenalty(p, mask),
   fromSeller |-> upheldCaseFee(p) + upheldPenalty(p, mask),
   toBuyer |-> upheldRefund(p, mask) + d.bond,
   toReserve |-> upheldPenalty(p, mask)]

rejectOutcome_feeTwice(d) ==
  [verdict |-> "Reject", fallback |-> FALSE, mask |-> {}, remedied |-> {},
   refund |-> 0, caseFee |-> Least(d.caseFee, d.bond), penalty |-> 0, fromSeller |-> 0,
   toBuyer |-> 0, toReserve |-> d.bond]

rejectOutcome(d) ==
  [verdict |-> "Reject", fallback |-> FALSE, mask |-> {}, remedied |-> {},
   refund |-> 0, caseFee |-> Least(d.caseFee, d.bond), penalty |-> 0, fromSeller |-> 0,
   toBuyer |-> 0, toReserve |-> d.bond - Least(d.caseFee, d.bond)]

fallbackOutcome(d) ==
  [verdict |-> "Reject", fallback |-> TRUE, mask |-> {}, remedied |-> {},
   refund |-> 0, caseFee |-> 0, penalty |-> 0, fromSeller |-> 0,
   toBuyer |-> d.bond, toReserve |-> 0]

\* _closePurchase: the split of the escrowed price.
closeFee(p, refund) == PerBps(p.terms.price - refund, p.par.feeBps)
closeProceeds(p, refund) == p.terms.price - refund - closeFee(p, refund)

(***************************************************************************)
(* tallyDispute and _payJurors.  panel maps each seated juror to its seat; *)
(* pot is the case fee the loser paid.                                     *)
(***************************************************************************)
revealers(panel) == {j \in DOMAIN panel : panel[j].revealed}
votersFor(panel, verdict) == {j \in revealers(panel) : panel[j].commitment = verdict}

nonRevealSlash(d) == PerBps(d.par.jurorStake, d.par.nonRevealSlashBps)
minoritySlash(d)  == PerBps(d.par.jurorStake, d.par.minoritySlashBps)

panelVerdict_single(panel) ==
  LET ups == Cardinality(votersFor(panel, "Uphold"))
      reveals == Cardinality(revealers(panel))
  IN IF reveals = 0 \/ ups = reveals - ups THEN "None"
     ELSE IF ups > reveals - ups THEN "Uphold" ELSE "Reject"

\* The verdict of a panel: a strict majority among at least two reveals.
panelVerdict(panel) ==
  LET ups == Cardinality(votersFor(panel, "Uphold"))
      reveals == Cardinality(revealers(panel))
      rejects == reveals - ups
  IN IF reveals < 2 \/ ups = rejects THEN "None"
     ELSE IF ups > rejects THEN "Uphold" ELSE "Reject"

participationPay_uncapped(d, pot, reveals) == d.par.participationFee

participationPay(d, pot, reveals) ==
  IF d.par.participationFee * reveals > pot THEN pot \div reveals ELSE d.par.participationFee

\* What is shared by the majority: the rest of the pot and the minority's slashes.
bonusPool(d, pot, reveals, majority) ==
  pot - participationPay(d, pot, reveals) * reveals + minoritySlash(d) * (reveals - majority)
bonusShare(d, pot, reveals, majority) == bonusPool(d, pot, reveals, majority) \div majority
=============================================================================
