------------------------- MODULE EnvMarketCaseProofs -------------------------
(***************************************************************************)
(* Purchases, disputes and panels, for every value of the constants: what  *)
(* a purchase was agreed on and pays out, which dispute it is in, who sits *)
(* on its panels and what they decide; that the contract implements        *)
(* PurchaseLifecycle; and that it is the market which the preview runner,  *)
(* the relay and the verifier take it for (EnvMarketClients).              *)
(*                                                                         *)
(* None of these properties is inductive by itself.  CaseInv says what a   *)
(* purchase, a dispute and its two panels look like at each stage.         *)
(***************************************************************************)
EXTENDS EnvMarketTypeProofs, EnvMarketClients

\* What buy checked stays true of the record: terms and snapshot never change.  Nothing
\* is paid out of the price, and nobody rates, before the purchase closes.
SaleSound(p) == p.state # "None" =>
  /\ p.buyer # p.seller
  /\ p.terms.collateral >= requiredCollateral(p.terms.price, p.par)
  /\ p.state \in {"Funded", "Delivered", "Disputed"} =>
       p.refunded = 0 /\ p.fee = 0 /\ p.sellerProceeds = 0
  /\ p.state = "Settled" => p.refunded \in 0..p.terms.price
  /\ p.rated => p.state = "Settled"

\* A purchase in dispute names the open dispute about it.
InDispute(i) == purchases[i].state = "Disputed" =>
  /\ purchases[i].dispute \in DisputeId
  /\ disputes[purchases[i].dispute].purchase = i
  /\ OpenDispute(purchases[i].dispute)

\* A dispute's purchase names it, and closes with it.
CaseSound(d) == disputes[d].status # "None" =>
  LET dd == disputes[d]
      p  == purchases[dd.purchase]
  IN /\ p.dispute = d
     /\ p.state = IF dd.status = "Resolved" THEN "Settled" ELSE "Disputed"
     /\ dd.bond >= 0
     /\ dd.status = "AwaitingSelection" => dd.ground = "FalseDescription"

JuryCase(dd) == dd.ground = "FalseDescription" /\ dd.status # "None"

\* When panels are drawn: one per round, in the rounds reached so far.
Drawn(dd, sd) ==
  /\ \A r \in Rounds : Cardinality(DOMAIN sd[r]) \in {0, SEATS}
  /\ DOMAIN sd[1] \cap DOMAIN sd[2] = {}
  /\ ~JuryCase(dd) => DOMAIN sd[1] = {} /\ DOMAIN sd[2] = {}
  /\ JuryCase(dd) /\ dd.round = 1 => DOMAIN sd[2] = {}
  /\ JuryCase(dd) /\ dd.status = "AwaitingSelection" => DOMAIN sd[dd.round] = {}
  /\ JuryCase(dd) /\ dd.status = "Voting" => Cardinality(DOMAIN sd[dd.round]) = SEATS

\* No panel seats a party.
Impartial(sd, p) == \A r \in Rounds : \A a \in DOMAIN sd[r] : a # p.buyer /\ a # p.seller

\* A second round means that the first decided nothing; a verdict is its panel's.
Decided(dd, sd) == JuryCase(dd) =>
  /\ dd.round = 2 => panelVerdict(sd[1]) = "None"
  /\ dd.status = "Resolved" =>
       IF dd.fallbackNoQuorum THEN dd.round = 2 /\ panelVerdict(sd[2]) = "None"
       ELSE Cardinality(votersFor(sd[dd.round], dd.verdict)) >= 2

\* Votes are revealed once nobody can commit any more.
CommitOver(dd, sd, now) ==
  JuryCase(dd) /\ dd.status = "Voting" /\ revealers(sd[dd.round]) # {} =>
    now > dd.commitDeadline \/ \A a \in DOMAIN sd[dd.round] : sd[dd.round][a].commitment # "None"

PanelSound(d) ==
  /\ Drawn(disputes[d], seats[d])
  /\ Impartial(seats[d], purchases[disputes[d].purchase])
  /\ Decided(disputes[d], seats[d])
  /\ CommitOver(disputes[d], seats[d], timestamp)

\* Every purchase; every purchase with its dispute, and every dispute with its purchase;
\* every dispute with its panels.
Sales  == \A i \in PurchaseId : SaleSound(purchases[i])
Links  == /\ \A i \in PurchaseId : InDispute(i)
          /\ \A d \in DisputeId : CaseSound(d)
          /\ \A d \in DisputeId : d >= nextDisputeId => disputes[d] = NoDispute
PanelsSound == \A d \in DisputeId : PanelSound(d)

\* The inductive invariant, next to Linked.
CaseInv == Sales /\ Links /\ PanelsSound

\* A fee is only paid by a request, which dates it: the first block is not block 0.
FeesDated == timestamp > 0 /\ \A v \in VersionId : previews[v].paidAt = 0 => previews[v].fee = 0

---------------------------------------------------------------------------
(* The amounts of a settlement are within the price. *)

\* Basis points of an amount are at most the amount.
LEMMA PerBpsBounded ==
  ASSUME NEW x \in Nat, NEW b \in Nat, b <= BPS PROVE PerBps(x, b) \in 0..x
<1>1. x * b \in Nat /\ x * b <= x * 10000
  <2>1. x * b \in Nat OBVIOUS
  <2>2. x * (10000 - b) \in Nat BY DEF BPS
  <2>3. x * (10000 - b) = x * 10000 - x * b OBVIOUS
  <2> QED BY <2>1, <2>2, <2>3
<1> DEFINE y == x * b
<1> HIDE DEF y
<1>2. y \in Nat /\ y <= x * 10000 BY <1>1 DEF y
<1>3. y \div 10000 \in 0..x BY <1>2
<1> QED BY <1>3 DEF PerBps, BPS, y

\* The cap on refunds is part of the price.
LEMMA RefundCapBounded ==
  ASSUME NEW p \in Purchase, WellMade(p), p.state # "None"
  PROVE  refundCap(p) \in 0..p.terms.price
<1>1. p.terms.price \in Nat /\ p.par.refundCapBps \in Nat BY PurchaseNat
<1>2. p.par.refundCapBps <= BPS BY DEF WellMade, ValidParams
<1> QED BY <1>1, <1>2, PerBpsBounded DEF refundCap

\* The fee and the proceeds are what is left of the price.
LEMMA CloseBounded ==
  ASSUME NEW p \in Purchase, WellMade(p), p.state # "None", NEW refund \in 0..p.terms.price
  PROVE  /\ closeFee(p, refund) >= 0 /\ closeProceeds(p, refund) >= 0
         /\ refund + closeFee(p, refund) + closeProceeds(p, refund) = p.terms.price
<1> DEFINE rest == p.terms.price - refund
<1>1. p.terms.price \in Nat /\ p.par.feeBps \in Nat BY PurchaseNat
<1>2. p.par.feeBps <= BPS BY DEF WellMade, ValidParams
<1>3. rest \in Nat /\ refund \in Nat BY <1>1
<1>4. closeFee(p, refund) \in 0..rest
  <2> HIDE DEF rest
  <2>1. PerBps(rest, p.par.feeBps) \in 0..rest BY <1>1, <1>2, <1>3, PerBpsBounded
  <2> QED BY <2>1 DEF closeFee, rest
<1>5. closeProceeds(p, refund) = rest - closeFee(p, refund) BY DEF closeProceeds
<1> DEFINE f == closeFee(p, refund)
<1> HIDE DEF f
<1>6. f \in 0..rest /\ closeProceeds(p, refund) = rest - f BY <1>4, <1>5 DEF f
<1>7. f \in Nat /\ rest = p.terms.price - refund /\ f <= rest BY <1>3, <1>6
<1> HIDE DEF rest
<1>8. f >= 0 /\ rest - f >= 0 /\ refund + f + (rest - f) = p.terms.price BY <1>1, <1>3, <1>7
<1> QED BY <1>6, <1>8 DEF f

\* An outcome refunds at most the cap, when nothing was refunded before.
LEMMA RefundBounded ==
  ASSUME NEW p \in Purchase, WellMade(p), p.state # "None", p.refunded = 0, NEW dd \in Dispute,
         NEW mask \in SUBSET (1..p.terms.taskCount)
  PROVE  /\ upholdOutcome(p, dd, mask).refund \in 0..refundCap(p)
         /\ rejectOutcome(dd).refund \in 0..refundCap(p)
         /\ fallbackOutcome(dd).refund \in 0..refundCap(p)
<1>1. refundCap(p) \in Nat
  <2>1. refundCap(p) \in 0..p.terms.price /\ p.terms.price \in Nat BY RefundCapBounded, PurchaseNat
  <2> QED BY <2>1
<1> DEFINE left == mask \ p.remediedMask
           each == p.terms.price \div p.terms.taskCount
<1>2. left \in SUBSET (1..p.terms.taskCount) OBVIOUS
<1>3. p.terms.price \in Nat /\ p.terms.taskCount \in Nat /\ p.terms.taskCount > 0 BY PurchaseNat
<1>4. Cardinality(left) \in Nat BY <1>2, <1>3, MaskFinite
<1>5. each \in Nat BY <1>3
<1>6. taskValue(p, left) = Cardinality(left) * each BY DEF taskValue
<1> DEFINE k == Cardinality(left)
<1> HIDE DEF each, left, k
<1>7. taskValue(p, left) \in Nat
  <2>1. k * each \in Nat BY <1>4, <1>5 DEF k
  <2> QED BY <1>6, <2>1 DEF k
<1>8. upheldRefund(p, mask) = Least(taskValue(p, left), refundCap(p))
  <2>1. (IF refundCap(p) > p.refunded THEN refundCap(p) - p.refunded ELSE 0) = refundCap(p)
    BY <1>1
  <2> QED BY <2>1 DEF upheldRefund, left
<1>9. Least(taskValue(p, left), refundCap(p)) \in 0..refundCap(p) BY <1>1, <1>7 DEF Least
<1>10. upholdOutcome(p, dd, mask).refund \in 0..refundCap(p) BY <1>8, <1>9 DEF upholdOutcome
<1> QED BY <1>1, <1>10 DEF rejectOutcome, fallbackOutcome
---------------------------------------------------------------------------
(* The life of a purchase *)

\* What never changes once a purchase is made, by whichever call.
Kept(p, q) == /\ q.terms = p.terms /\ q.par = p.par /\ q.version = p.version
              /\ q.buyer = p.buyer /\ q.seller = p.seller

PaysNothing(p, q) ==
  q.refunded = p.refunded /\ q.fee = p.fee /\ q.sellerProceeds = p.sellerProceeds

\* _closePurchase
Closes(p, q, refund) ==
  /\ q.state = "Settled" /\ q.refunded = p.refunded + refund
  /\ q.fee = closeFee(p, refund) /\ q.sellerProceeds = closeProceeds(p, refund)

\* A fresh record of buy.
Bought(q) == /\ q.state = "Funded" /\ q.dispute = 0 /\ ~q.rated
             /\ q.refunded = 0 /\ q.fee = 0 /\ q.sellerProceeds = 0
             /\ q.buyer # q.seller
             /\ q.terms.collateral >= requiredCollateral(q.terms.price, q.par)

\* The step of one purchase from p to q.
BuyStep(p, q)     == p = NoPurchase /\ q \in Purchase /\ WellMade(q) /\ Bought(q)
DeliverStep(p, q) == /\ p.state = "Funded" /\ q.state = "Delivered"
                     /\ Kept(p, q) /\ PaysNothing(p, q) /\ q.dispute = p.dispute /\ q.rated = p.rated
RefundStep(p, q)  == /\ p.state = "Funded" /\ q.state = "Refunded"
                     /\ Kept(p, q) /\ q.dispute = p.dispute /\ q.rated = p.rated
                     /\ q.refunded = p.terms.price
                     /\ q.fee = p.fee /\ q.sellerProceeds = p.sellerProceeds
DisputeStep(p, q) == /\ p.state = "Delivered" /\ q.state = "Disputed"
                     /\ Kept(p, q) /\ PaysNothing(p, q) /\ q.rated = p.rated
CloseStep(p, q)   == /\ p.state = "Delivered" /\ Kept(p, q) /\ q.dispute = p.dispute
                     /\ q.rated = p.rated /\ Closes(p, q, 0)
RateStep(p, q)    == /\ p.state = "Settled" /\ q.state = "Settled"
                     /\ Kept(p, q) /\ PaysNothing(p, q) /\ q.dispute = p.dispute
JudgeStep(p, q)   == /\ p.state = "Disputed" /\ Kept(p, q) /\ q.dispute = p.dispute
                     /\ q.rated = p.rated
                     /\ \E refund \in 0..refundCap(p) : Closes(p, q, refund)

SaleStep(p, q) ==
  \/ BuyStep(p, q) \/ DeliverStep(p, q) \/ RefundStep(p, q) \/ DisputeStep(p, q)
  \/ CloseStep(p, q) \/ RateStep(p, q) \/ JudgeStep(p, q)

OnlyPurchase(i) == \A j \in PurchaseId : j # i => purchases'[j] = purchases[j]
OnlyDispute(d)  == \A c \in DisputeId : c # d => disputes'[c] = disputes[c]

\* buy writes a fresh record at the next id.
LEMMA BuyMoves ==
  ASSUME Linked, NEW a \in Buyers, NEW v \in VersionId, buy(a, v)
  PROVE  /\ nextPurchaseId \in PurchaseId /\ OnlyPurchase(nextPurchaseId)
         /\ BuyStep(purchases[nextPurchaseId], purchases'[nextPurchaseId])
         /\ purchases'[nextPurchaseId].terms = versions[v].terms
         /\ purchases'[nextPurchaseId].seller = versions[v].seller
         /\ purchases'[nextPurchaseId].version = v
         /\ UNCHANGED <<disputes, nextDisputeId, seats>> /\ nextPurchaseId' = nextPurchaseId + 1
<1> DEFINE i == nextPurchaseId
           t == versions[v].terms
           q == [NoPurchase EXCEPT !.state = "Funded", !.version = v, !.buyer = a,
                                   !.seller = versions[v].seller,
                                   !.terms = t, !.par = params,
                                   !.deliveryDeadline = timestamp + t.deliveryWindow]
<1>1. i \in PurchaseId /\ purchases' = [purchases EXCEPT ![i] = q] BY DEF buy
<1>2. UNCHANGED <<disputes, nextDisputeId, seats>> /\ nextPurchaseId' = nextPurchaseId + 1
  BY DEF buy, cases
<1>3. purchases \in [PurchaseId -> Purchase] BY DEF Linked, PurchaseInv, TypePurchases
<1>4. purchases[i] = NoPurchase
  <2>1. \A j \in PurchaseId : j >= nextPurchaseId => purchases[j] = NoPurchase
    BY DEF Linked, PurchaseInv
  <2>2. i >= nextPurchaseId BY <1>1, ConstantsOK DEF ConstantsOK, PurchaseId
  <2> QED BY <1>1, <2>1, <2>2
<1>5. /\ q.state = "Funded" /\ q.version = v /\ q.buyer = a /\ q.seller = versions[v].seller
      /\ q.terms = t /\ q.par = params /\ q.dispute = 0 /\ ~q.rated
      /\ q.refunded = 0 /\ q.fee = 0 /\ q.sellerProceeds = 0
  BY DEF NoPurchase
<1>6. a # versions[v].seller /\ t.collateral >= requiredCollateral(t.price, params) BY DEF buy
<1> HIDE DEF q
<1>7. purchases'[i] = q BY <1>1, <1>3
<1>8. OnlyPurchase(i) BY <1>1, <1>3 DEF OnlyPurchase
<1>9. Bought(q) BY <1>5, <1>6 DEF Bought
<1>10. q \in Purchase /\ WellMade(q)
  BY <1>1, <1>7, BuyTyped DEF PurchaseInv, TypePurchases
<1> QED BY <1>1, <1>2, <1>4, <1>5, <1>7, <1>8, <1>9, <1>10 DEF BuyStep

\* recordDelivery, refundUndelivered, finalize and rate move one purchase.
LEMMA SaleMoves ==
  ASSUME Linked, NEW i \in PurchaseId,
         \/ \E s \in Signers : recordDelivery(i, s)
         \/ refundUndelivered(i) \/ finalize(i) \/ \E n \in StarChoices : rate(i, n)
  PROVE  LET p == purchases[i]
             q == purchases'[i]
         IN /\ DeliverStep(p, q) \/ RefundStep(p, q) \/ CloseStep(p, q) \/ RateStep(p, q)
            /\ OnlyPurchase(i)
            /\ UNCHANGED <<disputes, nextDisputeId, seats, nextPurchaseId>>
<1> DEFINE p == purchases[i]
<1>0. purchases \in [PurchaseId -> Purchase] /\ p \in Purchase
  BY DEF Linked, PurchaseInv, TypePurchases
<1>1. ASSUME NEW q, purchases' = [purchases EXCEPT ![i] = q]
      PROVE  purchases'[i] = q /\ OnlyPurchase(i)
  BY <1>0, <1>1 DEF OnlyPurchase
<1>2. ASSUME NEW s, recordDelivery(i, s)
      PROVE  /\ DeliverStep(p, purchases'[i]) /\ OnlyPurchase(i)
             /\ UNCHANGED <<disputes, nextDisputeId, seats, nextPurchaseId>>
  <2> DEFINE q == [p EXCEPT !.state = "Delivered", !.deliveredAt = timestamp,
                            !.challengeDeadline = timestamp + p.terms.challengeWindow]
  <2>1. purchases' = [purchases EXCEPT ![i] = q] /\ p.state = "Funded" BY <1>2 DEF recordDelivery
  <2>2. UNCHANGED <<disputes, nextDisputeId, seats, nextPurchaseId>>
    BY <1>2 DEF recordDelivery, cases
  <2>3. /\ q.state = "Delivered" /\ Kept(p, q) /\ PaysNothing(p, q)
        /\ q.dispute = p.dispute /\ q.rated = p.rated
    BY <1>0 DEF Kept, PaysNothing, Purchase
  <2> HIDE DEF q
  <2> QED BY <1>1, <2>1, <2>2, <2>3 DEF DeliverStep
<1>3. ASSUME refundUndelivered(i)
      PROVE  /\ RefundStep(p, purchases'[i]) /\ OnlyPurchase(i)
             /\ UNCHANGED <<disputes, nextDisputeId, seats, nextPurchaseId>>
  <2> DEFINE q == [p EXCEPT !.state = "Refunded", !.refunded = p.terms.price]
  <2>1. purchases' = [purchases EXCEPT ![i] = q] /\ p.state = "Funded"
    BY <1>3 DEF refundUndelivered
  <2>2. UNCHANGED <<disputes, nextDisputeId, seats, nextPurchaseId>>
    BY <1>3 DEF refundUndelivered, cases
  <2>3. /\ q.state = "Refunded" /\ Kept(p, q) /\ q.dispute = p.dispute /\ q.rated = p.rated
        /\ q.refunded = p.terms.price /\ q.fee = p.fee /\ q.sellerProceeds = p.sellerProceeds
    BY <1>0 DEF Kept, Purchase
  <2> HIDE DEF q
  <2> QED BY <1>1, <2>1, <2>2, <2>3 DEF RefundStep
<1>4. ASSUME finalize(i)
      PROVE  /\ CloseStep(p, purchases'[i]) /\ OnlyPurchase(i)
             /\ UNCHANGED <<disputes, nextDisputeId, seats, nextPurchaseId>>
  <2> DEFINE q == closed(p, 0)
  <2>1. purchases' = [purchases EXCEPT ![i] = q] /\ p.state = "Delivered" BY <1>4 DEF finalize
  <2>2. UNCHANGED <<disputes, nextDisputeId, seats, nextPurchaseId>> BY <1>4 DEF finalize, cases
  <2>3. Closes(p, q, 0) /\ Kept(p, q) /\ q.dispute = p.dispute /\ q.rated = p.rated
    BY <1>0 DEF Kept, Closes, closed, Purchase
  <2> HIDE DEF q
  <2> QED BY <1>1, <2>1, <2>2, <2>3 DEF CloseStep
<1>5. ASSUME NEW n, rate(i, n)
      PROVE  /\ RateStep(p, purchases'[i]) /\ OnlyPurchase(i)
             /\ UNCHANGED <<disputes, nextDisputeId, seats, nextPurchaseId>>
  <2> DEFINE q == [p EXCEPT !.rated = TRUE, !.stars = n]
  <2>1. purchases' = [purchases EXCEPT ![i] = q] /\ p.state = "Settled" BY <1>5 DEF rate
  <2>2. UNCHANGED <<disputes, nextDisputeId, seats, nextPurchaseId>> BY <1>5 DEF rate, cases
  <2>3. q.state = p.state /\ Kept(p, q) /\ PaysNothing(p, q) /\ q.dispute = p.dispute
    BY <1>0 DEF Kept, PaysNothing, Purchase
  <2> HIDE DEF q
  <2> QED BY <1>1, <2>1, <2>2, <2>3 DEF RateStep
<1> HIDE DEF p
<1> QED BY <1>2, <1>3, <1>4, <1>5 DEF p

\* What never changes once a dispute is opened.
SameCase(dd, e) ==
  /\ e.purchase = dd.purchase /\ e.ground = dd.ground /\ e.par = dd.par
  /\ e.caseFee = dd.caseFee /\ e.bond = dd.bond /\ e.taskMask = dd.taskMask

\* _resolve and _resolveFallback close the dispute and its purchase, and no other.
LEMMA ResolveMoves ==
  ASSUME Linked, NEW d \in DisputeId, disputes[d].status # "None",
         NEW out \in Outcome, NEW extra, resolve(d, out, extra)
  PROVE  LET dd == disputes[d]
             e  == disputes'[d]
             i  == dd.purchase
             p  == purchases[i]
             q  == purchases'[i]
         IN /\ i \in PurchaseId /\ OnlyPurchase(i) /\ OnlyDispute(d)
            /\ Kept(p, q) /\ q.dispute = p.dispute /\ q.rated = p.rated
            /\ Closes(p, q, out.refund)
            /\ SameCase(dd, e) /\ e.status = "Resolved" /\ e.verdict = out.verdict
            /\ e.fallbackNoQuorum = out.fallback /\ e.round = dd.round
            /\ e.selectionDeadline = dd.selectionDeadline
            /\ e.commitDeadline = dd.commitDeadline
            /\ nextDisputeId' = nextDisputeId /\ nextPurchaseId' = nextPurchaseId
<1> DEFINE dd == disputes[d]
           i  == dd.purchase
           p  == purchases[i]
           e  == [dd EXCEPT !.status = "Resolved", !.verdict = out.verdict, !.refund = out.refund,
                            !.fallbackNoQuorum = out.fallback, !.confirmedMask = out.mask]
           c  == closed(p, out.refund)
           q  == [c EXCEPT !.remediedMask = @ \cup out.remedied, !.penalties = out.penalty]
<1>1. /\ dd \in Dispute /\ i \in PurchaseId /\ p \in Purchase /\ WellMade(p) /\ p.state # "None"
  BY DisputedPurchase
<1>2. /\ disputes' = [disputes EXCEPT ![d] = e] /\ purchases' = [purchases EXCEPT ![i] = q]
  BY DEF resolve
<1>3. nextDisputeId' = nextDisputeId /\ nextPurchaseId' = nextPurchaseId
  BY ResolveFrame
<1>4. /\ purchases \in [PurchaseId -> Purchase] /\ disputes \in [DisputeId -> Dispute]
  BY DEF Linked, PurchaseInv, TypePurchases, DisputeInv, TypeDisputes
<1>5. /\ SameCase(dd, e) /\ e.status = "Resolved" /\ e.verdict = out.verdict
      /\ e.fallbackNoQuorum = out.fallback /\ e.round = dd.round
      /\ e.selectionDeadline = dd.selectionDeadline /\ e.commitDeadline = dd.commitDeadline
  BY <1>1 DEF SameCase, Dispute
<1>6. out.refund \in Int BY DEF Outcome
<1>7. c \in Purchase BY <1>1, <1>6, ClosedTyped
<1>8. Closes(p, c, out.refund) /\ Kept(p, c) /\ c.dispute = p.dispute /\ c.rated = p.rated
  BY <1>1 DEF Closes, Kept, closed, Purchase
<1> HIDE DEF c
<1>9. Closes(p, q, out.refund) /\ Kept(p, q) /\ q.dispute = p.dispute /\ q.rated = p.rated
  BY <1>7, <1>8 DEF Closes, Kept, Purchase
<1> HIDE DEF e, q
<1>10. disputes'[d] = e /\ OnlyDispute(d) BY <1>2, <1>4 DEF OnlyDispute
<1> HIDE DEF p
<1>11. purchases'[i] = q /\ OnlyPurchase(i)
  <2> HIDE DEF i
  <2> QED BY <1>1, <1>2, <1>4 DEF OnlyPurchase
<1> QED BY <1>1, <1>3, <1>5, <1>9, <1>10, <1>11 DEF p

\* openDispute opens one dispute, under the next id, on one delivered purchase.
LEMMA OpenMoves ==
  ASSUME Linked, NEW i \in PurchaseId, NEW g \in Grounds,
         NEW m \in SUBSET (1..purchases[i].terms.taskCount), openDispute(i, g, m)
  PROVE  LET p == purchases[i]
             q == purchases'[i]
             d == nextDisputeId
             e == disputes'[d]
         IN /\ d \in DisputeId /\ OnlyPurchase(i) /\ OnlyDispute(d)
            /\ DisputeStep(p, q) /\ q.dispute = d
            /\ e.purchase = i /\ e.bond = bondFor(p, m) /\ e.ground = g /\ e.par = params
            /\ e.bond >= 0
            /\ IF g = "FalseDescription" THEN e.status = "AwaitingSelection" /\ e.round = 1
               ELSE e.status = "Voting"
            /\ g # "None"
            /\ nextDisputeId' = d + 1 /\ UNCHANGED <<seats, nextPurchaseId, jurors, stakes>>
<1> DEFINE p == purchases[i]
           d == nextDisputeId
           e == newDispute(i, g, m)
           q == [p EXCEPT !.state = "Disputed", !.dispute = d]
<1>1. /\ p.state = "Delivered" /\ d \in DisputeId /\ g # "None"
      /\ purchases' = [purchases EXCEPT ![i] = q] /\ disputes' = [disputes EXCEPT ![d] = e]
      /\ nextDisputeId' = d + 1 /\ UNCHANGED <<seats, nextPurchaseId, jurors, stakes>>
  BY DEF openDispute
<1>2. p \in Purchase /\ WellMade(p) BY <1>1, OpenPurchase
<1>3. /\ purchases \in [PurchaseId -> Purchase] /\ disputes \in [DisputeId -> Dispute]
  BY DEF Linked, PurchaseInv, TypePurchases, DisputeInv, TypeDisputes
<1>4. /\ q.state = "Disputed" /\ Kept(p, q) /\ PaysNothing(p, q) /\ q.rated = p.rated
      /\ q.dispute = d
  BY <1>2 DEF Kept, PaysNothing, Purchase
<1>5. /\ e.purchase = i /\ e.bond = bondFor(p, m) /\ e.ground = g /\ e.par = params
      /\ IF g = "FalseDescription" THEN e.status = "AwaitingSelection" /\ e.round = 1
         ELSE e.status = "Voting"
  <2>1. CASE g = "FalseDescription" BY <2>1 DEF newDispute, armSelection, NoDispute
  <2>2. CASE g # "FalseDescription" BY <2>2 DEF newDispute, NoDispute
  <2> QED BY <2>1, <2>2
<1>6. bondFor(p, m) >= 0
  <2>1. p.par.bondFloor \in Nat /\ p.par.bondCap \in Nat /\ p.par.bondFloor <= p.par.bondCap
    BY <1>1, <1>2, PurchaseNat DEF WellMade, ValidParams
  <2>2. requestedRefund(p, m) \in Int BY <1>1, <1>2, BondInt
  <2> QED BY <2>1, <2>2 DEF bondFor, Least
<1> HIDE DEF e, q
<1>7. purchases'[i] = q /\ OnlyPurchase(i) BY <1>1, <1>3 DEF OnlyPurchase
<1>8. disputes'[d] = e /\ OnlyDispute(d) BY <1>1, <1>3 DEF OnlyDispute
<1> HIDE DEF p, d
<1> QED BY <1>1, <1>4, <1>5, <1>6, <1>7, <1>8 DEF DisputeStep, p, d

\* What a call about an open dispute decides.
LEMMA JudgeMoves ==
  ASSUME Linked, NEW d \in DisputeId, disputes[d].status # "None",
         purchases[disputes[d].purchase].state = "Disputed", NEW out \in Outcome, NEW extra,
         resolve(d, out, extra), out.refund \in 0..refundCap(purchases[disputes[d].purchase])
  PROVE  /\ disputes[d].purchase \in PurchaseId
         /\ JudgeStep(purchases[disputes[d].purchase], purchases'[disputes[d].purchase])
         /\ OnlyPurchase(disputes[d].purchase) /\ nextPurchaseId' = nextPurchaseId
BY ResolveMoves DEF JudgeStep

\* The calls that change nothing about purchases, disputes and panels.
Elsewhere == UNCHANGED <<purchases, nextPurchaseId, disputes, nextDisputeId, seats>>

\* Every call about purchases or disputes, by what it moves.
CaseCall ==
  \/ \E a \in Buyers, v \in VersionId : buy(a, v)
  \/ \E i \in PurchaseId : \/ \E s \in Signers : recordDelivery(i, s)
                           \/ refundUndelivered(i) \/ finalize(i)
                           \/ \E n \in StarChoices : rate(i, n)
  \/ \E i \in PurchaseId : \E g \in Grounds, m \in SUBSET (1..purchases[i].terms.taskCount) :
       openDispute(i, g, m)
  \/ \E d \in DisputeId :
       \/ \E u \in BOOLEAN, m \in SUBSET disputes[d].taskMask, s \in Signers :
            resolveMechanical(d, u, m, s)
       \/ timeoutMechanical(d) \/ selectJurors(d) \/ tallyDispute(d)
       \/ \E a \in JurorPool : revealVote(d, a) \/ \E v \in {"Uphold", "Reject"} : commitVote(d, a, v)

\* All other calls, and blocks, leave them alone; the clock only moves with a block.
LEMMA CaseCalls ==
  ASSUME Linked, [Next]_vars
  PROVE  \/ Elsewhere /\ timestamp' >= timestamp
         \/ CaseCall /\ timestamp' = timestamp
<1>0. timestamp \in Nat BY DEF Linked, TypeAdmin
<1>1. CASE UNCHANGED vars BY <1>0, <1>1 DEF vars, chain, cases, Elsewhere
<1>2. CASE NewBlock BY <1>0, <1>2, ConstantsOK DEF NewBlock, ConstantsOK, cases, Elsewhere
<1>3. CASE Admin BY <1>0, <1>3, AdminFrame DEF chain, cases, Elsewhere
<1>4. CASE Selling BY <1>0, <1>4, SellingFrame DEF chain, cases, Elsewhere
<1>5. CASE Purchasing
  <2>0. timestamp' = timestamp BY <1>5, PurchasingFrame DEF chain
  <2>1. ASSUME NEW a, withdraw(a) PROVE Elsewhere
    BY <2>1 DEF withdraw, cases, Elsewhere
  <2> QED BY <1>0, <1>5, <2>0, <2>1 DEF Purchasing, CaseCall
<1>6. CASE Judging
  <2>0. timestamp' = timestamp BY <1>6, JudgingFrame DEF chain
  <2>1. ASSUME NEW a, NEW n, depositJurorStake(a, n) \/ withdrawJurorStake(a, n) PROVE Elsewhere
    BY <2>1 DEF depositJurorStake, withdrawJurorStake, cases, Elsewhere
  <2> QED BY <1>0, <1>6, <2>0, <2>1 DEF Judging, Deciding, CaseCall
<1> QED BY <1>1, <1>2, <1>3, <1>4, <1>5, <1>6 DEF Next

---------------------------------------------------------------------------
(* The life of a dispute *)

\* A tally settles seats and keeps what was committed and revealed.
SeatsAlike(s, t) ==
  /\ DOMAIN t = DOMAIN s
  /\ \A a \in DOMAIN s : t[a].commitment = s[a].commitment /\ t[a].revealed = s[a].revealed

\* No seat of another dispute or another round changes.
OnlyPanel(d, r) ==
  /\ \A c \in DisputeId : c # d => seats'[c] = seats[c]
  /\ \A k \in Rounds : k # r => seats'[d][k] = seats[d][k]

\* Drawing again re-arms the draw and nothing else.
LEMMA RearmMoves ==
  ASSUME Linked, NEW d \in DisputeId, disputes[d].status # "None", rearmSelection(d)
  PROVE  LET dd == disputes[d]
             e  == disputes'[d]
         IN /\ OnlyDispute(d) /\ SameCase(dd, e) /\ e.status = dd.status /\ e.round = dd.round
            /\ e.selectionDeadline = dd.selectionDeadline
            /\ UNCHANGED <<purchases, nextPurchaseId, nextDisputeId, seats>>
<1> DEFINE dd == disputes[d]
           e  == [dd EXCEPT !.selectionBlock = blockNumber + 2]
<1>1. disputes \in [DisputeId -> Dispute] /\ dd \in Dispute BY DEF Linked, DisputeInv, TypeDisputes
<1>2. /\ disputes' = [disputes EXCEPT ![d] = e]
      /\ UNCHANGED <<purchases, nextPurchaseId, nextDisputeId, seats>>
  BY DEF rearmSelection
<1>3. /\ SameCase(dd, e) /\ e.status = dd.status /\ e.round = dd.round
      /\ e.selectionDeadline = dd.selectionDeadline
  BY <1>1 DEF SameCase, Dispute
<1> HIDE DEF e
<1>4. disputes'[d] = e /\ OnlyDispute(d) BY <1>1, <1>2 DEF OnlyDispute
<1> QED BY <1>2, <1>3, <1>4

\* The draw seats three eligible jurors in the current round and opens the vote.
LEMMA DrawMoves ==
  ASSUME Linked, NEW d \in DisputeId, Jury(d, "AwaitingSelection"), NEW chosen, seatPanel(d, chosen)
  PROVE  LET dd == disputes[d]
             e  == disputes'[d]
         IN /\ OnlyDispute(d) /\ SameCase(dd, e) /\ e.status = "Voting" /\ e.round = dd.round
            /\ e.selectionDeadline = dd.selectionDeadline
            /\ OnlyPanel(d, dd.round) /\ dd.round \in Rounds
            /\ DOMAIN seats'[d][dd.round] = chosen /\ revealers(seats'[d][dd.round]) = {}
            /\ UNCHANGED <<purchases, nextPurchaseId, nextDisputeId>>
<1> DEFINE dd == disputes[d]
           r  == dd.round
           e  == [dd EXCEPT !.status = "Voting",
                    !.commitDeadline = timestamp + dd.par.commitWindow,
                    !.revealDeadline = timestamp + dd.par.commitWindow + dd.par.revealWindow]
           new == [a \in chosen |-> EmptySeat]
<1>1. disputes \in [DisputeId -> Dispute] /\ dd \in Dispute BY DEF Linked, DisputeInv, TypeDisputes
<1>2. /\ disputes' = [disputes EXCEPT ![d] = e] /\ seats' = [seats EXCEPT ![d][r] = new]
      /\ UNCHANGED <<purchases, nextPurchaseId, nextDisputeId>>
  BY DEF seatPanel
<1>3. /\ SameCase(dd, e) /\ e.status = "Voting" /\ e.round = dd.round
      /\ e.selectionDeadline = dd.selectionDeadline
  BY <1>1 DEF SameCase, Dispute
<1>4. r \in Rounds BY PanelTyped DEF Jury, DisputeStatus
<1>5. DOMAIN seats = DisputeId /\ DOMAIN seats[d] = Rounds BY DEF Linked, SeatInv, TypeSeats
<1>6. DOMAIN new = chosen /\ revealers(new) = {} BY DEF revealers, EmptySeat
<1> HIDE DEF e, new
<1>7. disputes'[d] = e /\ OnlyDispute(d) BY <1>1, <1>2 DEF OnlyDispute
<1> HIDE DEF r
<1>8. seats'[d][r] = new /\ OnlyPanel(d, r) BY <1>2, <1>4, <1>5 DEF OnlyPanel
<1> QED BY <1>2, <1>3, <1>4, <1>6, <1>7, <1>8 DEF r

\* A failed first round arms the second.
LEMMA AdvanceMoves ==
  ASSUME Linked, NEW d \in DisputeId, disputes[d].status # "None",
         disputes' = [disputes EXCEPT ![d] = secondRound(@)]
  PROVE  LET dd == disputes[d]
             e  == disputes'[d]
         IN /\ OnlyDispute(d) /\ SameCase(dd, e)
            /\ e.status = "AwaitingSelection" /\ e.round = 2
<1> DEFINE dd == disputes[d]
           m  == [dd EXCEPT !.round = 2, !.status = "AwaitingSelection",
                            !.commitDeadline = 0, !.revealDeadline = 0]
           e  == armSelection(m)
<1>1. disputes \in [DisputeId -> Dispute] /\ dd \in Dispute BY DEF Linked, DisputeInv, TypeDisputes
<1>2. disputes' = [disputes EXCEPT ![d] = e] BY DEF secondRound
<1>3. SameCase(dd, m) /\ m.status = "AwaitingSelection" /\ m.round = 2
  BY <1>1 DEF SameCase, Dispute
<1>4. m \in Dispute
  <2>1. "AwaitingSelection" \in DisputeStatus /\ 2 \in 0..2 BY DEF DisputeStatus
  <2> QED BY <1>1, <2>1 DEF Dispute
<1> HIDE DEF m
<1>5. SameCase(dd, e) /\ e.status = "AwaitingSelection" /\ e.round = 2
  BY <1>3, <1>4 DEF SameCase, armSelection, Dispute
<1> HIDE DEF e
<1>6. disputes'[d] = e /\ OnlyDispute(d) BY <1>1, <1>2 DEF OnlyDispute
<1> QED BY <1>5, <1>6

\* A commitment or a reveal changes one seat of the panel.
LEMMA VoteMoves ==
  ASSUME Linked, NEW d \in DisputeId, NEW a, NEW v \in {"Uphold", "Reject"},
         commitVote(d, a, v) \/ revealVote(d, a)
  PROVE  LET r == disputes[d].round IN
         /\ Jury(d, "Voting") /\ r \in Rounds /\ OnlyPanel(d, r) /\ a \in DOMAIN seats[d][r]
         /\ DOMAIN seats'[d][r] = DOMAIN seats[d][r]
         /\ \A b \in DOMAIN seats[d][r] : b # a => seats'[d][r][b] = seats[d][r][b]
         /\ \/ commitVote(d, a, v) /\ seats'[d][r][a].commitment = v
                 /\ seats'[d][r][a].revealed = seats[d][r][a].revealed
            \/ revealVote(d, a) /\ seats'[d][r][a].commitment = seats[d][r][a].commitment
                 /\ seats'[d][r][a].revealed
         /\ UNCHANGED <<purchases, nextPurchaseId, disputes, nextDisputeId>>
<1> DEFINE r == disputes[d].round
           seat == seats[d][r][a]
           sc == [seat EXCEPT !.commitment = v]
           sr == [seat EXCEPT !.revealed = TRUE]
<1>1. /\ Jury(d, "Voting") /\ a \in DOMAIN seats[d][r]
      /\ seats' \in {[seats EXCEPT ![d][r][a] = sc], [seats EXCEPT ![d][r][a] = sr]}
      /\ commitVote(d, a, v) => seats' = [seats EXCEPT ![d][r][a] = sc]
      /\ revealVote(d, a) => seats' = [seats EXCEPT ![d][r][a] = sr]
      /\ UNCHANGED <<purchases, nextPurchaseId, disputes, nextDisputeId>>
  BY DEF commitVote, revealVote, panel
<1>2. r \in Rounds BY <1>1, PanelTyped DEF Jury, DisputeStatus
<1>3. DOMAIN seats = DisputeId /\ DOMAIN seats[d] = Rounds BY DEF Linked, SeatInv, TypeSeats
<1>4. seat \in Seat BY <1>1, <1>2 DEF Linked, SeatInv, TypeSeats
<1>5. /\ sc.commitment = v /\ sc.revealed = seat.revealed
      /\ sr.commitment = seat.commitment /\ sr.revealed
  BY <1>4 DEF Seat
<1> HIDE DEF sc, sr, seat, r
<1>6. ASSUME NEW s, seats' = [seats EXCEPT ![d][r][a] = s]
      PROVE  /\ OnlyPanel(d, r) /\ DOMAIN seats'[d][r] = DOMAIN seats[d][r]
             /\ \A b \in DOMAIN seats[d][r] : b # a => seats'[d][r][b] = seats[d][r][b]
             /\ seats'[d][r][a] = s
  BY <1>1, <1>2, <1>3, <1>6 DEF OnlyPanel
<1> QED BY <1>1, <1>2, <1>5, <1>6 DEF seat, r

\* A tally settles the seats of the current round.
LEMMA SettleMoves ==
  ASSUME Linked, NEW d \in DisputeId, Jury(d, "Voting"), NEW v, NEW per, NEW share,
         settleSeats(d, v, per, share)
  PROVE  LET r == disputes[d].round IN
         /\ r \in Rounds /\ OnlyPanel(d, r) /\ SeatsAlike(seats[d][r], seats'[d][r])
<1> DEFINE dd == disputes[d]
           r  == dd.round
           pn == panel(d)
           new == [a \in DOMAIN pn |->
                    [pn[a] EXCEPT !.slashed = seatSlash(dd, pn[a], v),
                                  !.reward = seatReward(dd, pn[a], v, per, share)]]
<1>1. r \in Rounds /\ pn \in [DOMAIN pn -> Seat] BY PanelTyped DEF Jury, DisputeStatus
<1>2. DOMAIN seats = DisputeId /\ DOMAIN seats[d] = Rounds BY DEF Linked, SeatInv, TypeSeats
<1>3. seats' = [seats EXCEPT ![d][r] = new] BY DEF settleSeats
<1>4. SeatsAlike(pn, new)
  <2>1. ASSUME NEW a \in DOMAIN pn
        PROVE  new[a].commitment = pn[a].commitment /\ new[a].revealed = pn[a].revealed
    <3>1. pn[a] \in Seat BY <1>1
    <3> QED BY <3>1 DEF Seat
  <2> QED BY <2>1 DEF SeatsAlike
<1>5. pn = seats[d][r] BY DEF panel
<1> HIDE DEF new, pn, r
<1>6. seats'[d][r] = new /\ OnlyPanel(d, r) BY <1>1, <1>2, <1>3 DEF OnlyPanel
<1> QED BY <1>1, <1>4, <1>5, <1>6 DEF r

\* What a call about a dispute does to its record, other than closing it.
CaseStep(dd, e) ==
  /\ SameCase(dd, e) /\ e.status \in {"AwaitingSelection", "Voting"}
  /\ e.status = "AwaitingSelection" => dd.ground = "FalseDescription"
  /\ e.round = dd.round /\ dd.status = "AwaitingSelection" =>
       e.selectionDeadline = dd.selectionDeadline

\* A call about a dispute leaves it open, or closes it and its purchase, refunding at
\* most the cap.
LEMMA DisputeSteps ==
  ASSUME Linked, NEW d \in DisputeId, purchases[disputes[d].purchase].refunded = 0,
         \/ \E u \in BOOLEAN, m \in SUBSET disputes[d].taskMask, s \in Signers :
              resolveMechanical(d, u, m, s)
         \/ timeoutMechanical(d) \/ selectJurors(d) \/ tallyDispute(d)
         \/ \E a \in JurorPool : revealVote(d, a) \/ \E v \in {"Uphold", "Reject"} : commitVote(d, a, v)
  PROVE  \/ /\ UNCHANGED <<purchases, nextPurchaseId, nextDisputeId>>
            /\ OnlyDispute(d) /\ CaseStep(disputes[d], disputes'[d])
         \/ UNCHANGED <<purchases, nextPurchaseId, disputes, nextDisputeId>>
         \/ \E out \in Outcome : \E extra :
              /\ resolve(d, out, extra)
              /\ out.refund \in 0..refundCap(purchases[disputes[d].purchase])
<1> DEFINE dd == disputes[d]
           e  == disputes'[d]
           p  == purchases[dd.purchase]
           Ends == \E out \in Outcome : \E extra :
                     /\ resolve(d, out, extra)
                     /\ out.refund \in 0..refundCap(p)
           Goal == \/ /\ UNCHANGED <<purchases, nextPurchaseId, nextDisputeId>>
                      /\ OnlyDispute(d) /\ CaseStep(dd, e)
                   \/ UNCHANGED <<purchases, nextPurchaseId, disputes, nextDisputeId>>
                   \/ Ends
<1>1. ASSUME dd.status # "None", NEW extra, resolve(d, fallbackOutcome(dd), extra) PROVE Ends
  <2>1. dd \in Dispute /\ p \in Purchase /\ WellMade(p) /\ p.state # "None"
    BY <1>1, DisputedPurchase
  <2>2. fallbackOutcome(dd).refund \in 0..refundCap(p)
    BY <2>1, RefundBounded, {} \in SUBSET (1..p.terms.taskCount)
  <2>3. fallbackOutcome(dd) \in Outcome BY <2>1, RejectTyped
  <2> QED BY <1>1, <2>2, <2>3
<1>2. ASSUME dd.status # "None", NEW extra, NEW m \in SUBSET dd.taskMask,
             \/ resolve(d, upholdOutcome(p, dd, m), extra) \/ resolve(d, rejectOutcome(dd), extra)
      PROVE  Ends
  <2>1. /\ dd \in Dispute /\ p \in Purchase /\ WellMade(p) /\ p.state # "None"
        /\ dd.taskMask \in SUBSET (1..p.terms.taskCount)
    BY <1>2, DisputedPurchase
  <2>2. m \in SUBSET (1..p.terms.taskCount) BY <2>1
  <2>3. /\ upholdOutcome(p, dd, m).refund \in 0..refundCap(p)
        /\ rejectOutcome(dd).refund \in 0..refundCap(p)
    BY <2>1, <2>2, RefundBounded
  <2>4. upholdOutcome(p, dd, m) \in Outcome /\ rejectOutcome(dd) \in Outcome
    BY <2>1, <2>2, UpholdTyped, RejectTyped
  <2> QED BY <1>2, <2>3, <2>4
<1>3. ASSUME NEW u \in BOOLEAN, NEW m \in SUBSET dd.taskMask, NEW s, resolveMechanical(d, u, m, s)
      PROVE  Ends
  <2>1. dd.status # "None" BY <1>3 DEF resolveMechanical
  <2>2. \E extra : \/ resolve(d, upholdOutcome(p, dd, m), extra)
                   \/ resolve(d, rejectOutcome(dd), extra)
    <3>1. CASE u BY <1>3, <3>1 DEF resolveMechanical
    <3>2. CASE ~u BY <1>3, <3>2 DEF resolveMechanical
    <3> QED BY <3>1, <3>2
  <2> QED BY <1>2, <2>1, <2>2
<1>4. ASSUME timeoutMechanical(d) PROVE Ends
  BY <1>1, <1>4 DEF timeoutMechanical
<1>5. ASSUME dd.status \in {"AwaitingSelection", "Voting"}, dd.round = 1,
             dd.ground = "FalseDescription", disputes' = [disputes EXCEPT ![d] = secondRound(@)],
             UNCHANGED <<purchases, nextPurchaseId, nextDisputeId>>
      PROVE  Goal
  <2>1. dd.status # "None" BY <1>5
  <2>2. /\ OnlyDispute(d) /\ SameCase(dd, e) /\ e.status = "AwaitingSelection" /\ e.round = 2
    BY <1>5, <2>1, AdvanceMoves
  <2> HIDE DEF dd, e
  <2>3. CaseStep(dd, e) BY <1>5, <2>2 DEF CaseStep
  <2> QED BY <1>5, <2>2, <2>3
<1> HIDE DEF Ends
<1>6. ASSUME selectJurors(d) PROVE Goal
  <2>0. Jury(d, "AwaitingSelection") /\ dd.status # "None"
    BY <1>6 DEF selectJurors, SelectionOpen, Jury
  <2>1. CASE rearmSelection(d) BY <2>0, <2>1, RearmMoves DEF CaseStep, Jury
  <2>2. ASSUME NEW c, seatPanel(d, c) PROVE Goal BY <2>0, <2>2, DrawMoves DEF CaseStep
  <2>3. CASE panelUnfillable(d)
    <3>1. CASE dd.round = 1 BY <1>5, <2>0, <2>3, <3>1 DEF panelUnfillable, Jury
    <3>2. CASE dd.round # 1 BY <1>1, <2>0, <2>3, <3>2 DEF panelUnfillable
    <3> QED BY <3>1, <3>2
  <2> HIDE DEF Goal
  <2> QED BY <1>6, <2>1, <2>2, <2>3 DEF selectJurors
<1>7. ASSUME tallyDispute(d) PROVE Goal
  <2>0. Jury(d, "Voting") /\ dd.status # "None"
    BY <1>7 DEF tallyDispute, tallyDecided, tallyFailed, TallyReady, Jury
  <2>1. CASE tallyFailed(d)
    <3>1. CASE dd.round = 1 BY <1>5, <2>0, <2>1, <3>1 DEF tallyFailed, Jury
    <3>2. CASE dd.round # 1 BY <1>1, <2>0, <2>1, <3>2 DEF tallyFailed
    <3> QED BY <3>1, <3>2
  <2>2. CASE tallyDecided(d)
    <3>1. \E extra : \/ resolve(d, upholdOutcome(p, dd, dd.taskMask), extra)
                     \/ resolve(d, rejectOutcome(dd), extra)
      <4>1. CASE panelVerdict(panel(d)) = "Uphold" BY <2>2, <4>1 DEF tallyDecided
      <4>2. CASE panelVerdict(panel(d)) # "Uphold" BY <2>2, <4>2 DEF tallyDecided
      <4> QED BY <4>1, <4>2
    <3>2. dd.taskMask \in SUBSET dd.taskMask OBVIOUS
    <3> QED BY <1>2, <2>0, <3>1, <3>2
  <2> QED BY <1>7, <2>1, <2>2 DEF tallyDispute
<1>8. ASSUME NEW a, revealVote(d, a) \/ \E v : commitVote(d, a, v) PROVE Goal
  BY <1>8 DEF commitVote, revealVote
<1>9. Goal
  <2> HIDE DEF Goal
  <2>1. Ends => Goal BY DEF Goal
  <2> QED BY <1>3, <1>4, <1>6, <1>7, <1>8, <2>1
<1> QED BY <1>9 DEF Goal, Ends

\* Calls about a dispute require it to be open.
LEMMA RulingsOpen ==
  ASSUME NEW d,
         \/ \E u, m, s : resolveMechanical(d, u, m, s)
         \/ timeoutMechanical(d) \/ selectJurors(d) \/ tallyDispute(d)
         \/ \E a : revealVote(d, a) \/ \E v : commitVote(d, a, v)
  PROVE  OpenDispute(d)
BY DEF resolveMechanical, timeoutMechanical, selectJurors, SelectionOpen, tallyDispute,
       tallyDecided, tallyFailed, TallyReady, revealVote, commitVote, Jury, OpenDispute

\* The purchase of an open dispute is in dispute, and nothing was paid out of it.
LEMMA OpenDisputed ==
  ASSUME Linked, Links, Sales, NEW d \in DisputeId, OpenDispute(d)
  PROVE  /\ disputes[d].status # "None" /\ disputes[d].purchase \in PurchaseId
         /\ purchases[disputes[d].purchase].state = "Disputed"
         /\ purchases[disputes[d].purchase].dispute = d
         /\ purchases[disputes[d].purchase].refunded = 0
<1>1. disputes[d].status # "None" /\ disputes[d].status # "Resolved" BY DEF OpenDispute
<1>2. disputes[d].purchase \in PurchaseId BY <1>1, DisputedPurchase
<1>3. /\ purchases[disputes[d].purchase].state = "Disputed"
      /\ purchases[disputes[d].purchase].dispute = d
  BY <1>1 DEF Links, CaseSound
<1>4. SaleSound(purchases[disputes[d].purchase]) BY <1>2 DEF Sales
<1> QED BY <1>1, <1>2, <1>3, <1>4 DEF SaleSound

\* Every step moves at most one purchase, along its life.
LEMMA PurchaseSteps ==
  ASSUME Linked, Links, Sales, [Next]_vars
  PROVE  \/ UNCHANGED <<purchases, nextPurchaseId>>
         \/ \E i \in PurchaseId : OnlyPurchase(i) /\ SaleStep(purchases[i], purchases'[i])
<1>1. CASE Elsewhere BY <1>1 DEF Elsewhere
<1>2. ASSUME NEW a \in Buyers, NEW v \in VersionId, buy(a, v)
      PROVE  \E i \in PurchaseId : OnlyPurchase(i) /\ SaleStep(purchases[i], purchases'[i])
  BY <1>2, BuyMoves DEF SaleStep
<1>3. ASSUME NEW i \in PurchaseId,
             \/ \E s \in Signers : recordDelivery(i, s)
             \/ refundUndelivered(i) \/ finalize(i) \/ \E n \in StarChoices : rate(i, n)
      PROVE  OnlyPurchase(i) /\ SaleStep(purchases[i], purchases'[i])
  BY <1>3, SaleMoves DEF SaleStep
<1>4. ASSUME NEW i \in PurchaseId, NEW g \in Grounds,
             NEW m \in SUBSET (1..purchases[i].terms.taskCount), openDispute(i, g, m)
      PROVE  OnlyPurchase(i) /\ SaleStep(purchases[i], purchases'[i])
  BY <1>4, OpenMoves DEF SaleStep
<1>5. ASSUME NEW d \in DisputeId,
             \/ \E u \in BOOLEAN, m \in SUBSET disputes[d].taskMask, s \in Signers :
                  resolveMechanical(d, u, m, s)
             \/ timeoutMechanical(d) \/ selectJurors(d) \/ tallyDispute(d)
             \/ \E a \in JurorPool : revealVote(d, a) \/ \E v \in {"Uphold", "Reject"} : commitVote(d, a, v)
      PROVE  \/ UNCHANGED <<purchases, nextPurchaseId>>
             \/ \E i \in PurchaseId : OnlyPurchase(i) /\ SaleStep(purchases[i], purchases'[i])
  <2>1. OpenDispute(d) BY <1>5, RulingsOpen
  <2>2. /\ disputes[d].status # "None" /\ purchases[disputes[d].purchase].state = "Disputed"
        /\ purchases[disputes[d].purchase].refunded = 0
    BY <2>1, OpenDisputed
  <2>3. \/ UNCHANGED <<purchases, nextPurchaseId>>
        \/ \E out \in Outcome : \E extra :
             /\ resolve(d, out, extra)
             /\ out.refund \in 0..refundCap(purchases[disputes[d].purchase])
    BY <1>5, <2>2, DisputeSteps
  <2>4. ASSUME NEW out \in Outcome, NEW extra, resolve(d, out, extra),
               out.refund \in 0..refundCap(purchases[disputes[d].purchase])
        PROVE  \E i \in PurchaseId : OnlyPurchase(i) /\ SaleStep(purchases[i], purchases'[i])
    BY <2>2, <2>4, JudgeMoves DEF SaleStep
  <2> QED BY <2>3, <2>4
<1>6. Elsewhere \/ CaseCall BY CaseCalls
<1> QED BY <1>1, <1>2, <1>3, <1>4, <1>5, <1>6 DEF CaseCall

\* A step along its life keeps what is known of a purchase.
LEMMA SaleStepSound ==
  ASSUME NEW p \in Purchase, WellMade(p), SaleSound(p), NEW q, SaleStep(p, q)
  PROVE  SaleSound(q)
<1>1. ASSUME p.state # "None", Kept(p, q)
      PROVE  q.buyer # q.seller /\ q.terms.collateral >= requiredCollateral(q.terms.price, q.par)
  BY <1>1 DEF SaleSound, Kept
<1>2. CASE BuyStep(p, q) BY <1>2 DEF BuyStep, Bought, SaleSound
<1>3. CASE DeliverStep(p, q) \/ DisputeStep(p, q)
  BY <1>1, <1>3 DEF DeliverStep, DisputeStep, PaysNothing, SaleSound
<1>4. CASE RefundStep(p, q) BY <1>1, <1>4 DEF RefundStep, SaleSound
<1>5. CASE RateStep(p, q) BY <1>1, <1>5 DEF RateStep, PaysNothing, Kept, SaleSound
<1>6. ASSUME p.state \in {"Delivered", "Disputed"}, Kept(p, q), q.rated = p.rated,
             NEW refund \in 0..p.terms.price, Closes(p, q, refund)
      PROVE  SaleSound(q)
  <2>1. q.state = "Settled" /\ q.refunded = 0 + refund /\ p.terms.price \in Nat
    BY <1>6, PurchaseNat DEF Closes, SaleSound
  <2>2. q.refunded \in 0..q.terms.price BY <1>6, <2>1 DEF Kept
  <2> QED BY <1>1, <1>6, <2>1, <2>2 DEF SaleSound
<1>7. CASE CloseStep(p, q)
  <2>1. p.terms.price \in Nat BY <1>7, PurchaseNat DEF CloseStep
  <2>2. 0 \in 0..p.terms.price BY <2>1
  <2> QED BY <1>6, <1>7, <2>2 DEF CloseStep
<1>8. CASE JudgeStep(p, q)
  <2>1. PICK refund \in 0..refundCap(p) : Closes(p, q, refund) BY <1>8 DEF JudgeStep
  <2>2. refundCap(p) \in 0..p.terms.price /\ p.terms.price \in Nat
    BY <1>8, RefundCapBounded, PurchaseNat DEF JudgeStep
  <2>3. refund \in 0..p.terms.price BY <2>2
  <2> QED BY <1>6, <1>8, <2>1, <2>3 DEF JudgeStep
<1> QED BY <1>2, <1>3, <1>4, <1>5, <1>7, <1>8 DEF SaleStep

\* What buy checked, and what is paid out, at every stage of every purchase.
LEMMA SalesPreserved == ASSUME Linked, Links, Sales, [Next]_vars PROVE Sales'
<1>1. \A i \in PurchaseId : purchases[i] \in Purchase /\ WellMade(purchases[i])
  BY DEF Linked, PurchaseInv, TypePurchases
<1>2. CASE UNCHANGED purchases BY <1>2 DEF Sales
<1>3. ASSUME NEW i \in PurchaseId, OnlyPurchase(i), SaleStep(purchases[i], purchases'[i])
      PROVE  Sales'
  <2>1. SaleSound(purchases'[i]) BY <1>1, <1>3, SaleStepSound DEF Sales
  <2>2. \A j \in PurchaseId : SaleSound(purchases'[j]) BY <1>3, <2>1 DEF Sales, OnlyPurchase
  <2> QED BY <2>2 DEF Sales
<1> QED BY <1>2, <1>3, PurchaseSteps

\* A purchase that is in no dispute, before and after, disturbs no link.
LEMMA SaleKeepsLinks ==
  ASSUME Linked, Links, NEW i \in PurchaseId, OnlyPurchase(i), UNCHANGED <<disputes, nextDisputeId>>,
         purchases'[i].state # "Disputed",
         \/ purchases[i].state \notin {"Disputed", "Settled"}
         \/ RateStep(purchases[i], purchases'[i])
  PROVE  Links'
<1>1. ASSUME NEW j \in PurchaseId PROVE InDispute(j)'
  BY <1>1 DEF Links, InDispute, OnlyPurchase, OpenDispute
<1>2. ASSUME NEW d \in DisputeId PROVE CaseSound(d)'
  <2>1. CASE disputes[d].status = "None" BY <2>1 DEF CaseSound
  <2>2. CASE disputes[d].status # "None"
    <3>1. CaseSound(d) /\ disputes[d].purchase \in PurchaseId BY <2>2, DisputedPurchase DEF Links
    <3>2. CASE disputes[d].purchase = i
      BY <2>2, <3>1, <3>2 DEF CaseSound, RateStep
    <3>3. CASE disputes[d].purchase # i
      BY <2>2, <3>1, <3>3 DEF CaseSound, OnlyPurchase
    <3> QED BY <3>2, <3>3
  <2> QED BY <2>1, <2>2
<1> QED BY <1>1, <1>2 DEF Links

\* Opening a dispute links it and its purchase both ways.
LEMMA OpenKeepsLinks ==
  ASSUME Linked, Links, NEW i \in PurchaseId, NEW g \in Grounds,
         NEW m \in SUBSET (1..purchases[i].terms.taskCount), openDispute(i, g, m)
  PROVE  Links'
<1> DEFINE n == nextDisputeId
<1>1. /\ n \in DisputeId /\ OnlyPurchase(i) /\ OnlyDispute(n)
      /\ DisputeStep(purchases[i], purchases'[i]) /\ purchases'[i].dispute = n
      /\ disputes'[n].purchase = i /\ disputes'[n].ground = g /\ disputes'[n].bond >= 0
      /\ IF g = "FalseDescription" THEN disputes'[n].status = "AwaitingSelection"
         ELSE disputes'[n].status = "Voting"
      /\ nextDisputeId' = n + 1
  BY OpenMoves
<1>2. n \in Nat /\ DisputeId \subseteq Nat BY <1>1, ConstantsOK DEF ConstantsOK, DisputeId
<1>3. disputes[n].status = "None"
  BY <1>1, <1>2 DEF Links, NoDispute
<1>4. purchases[i].state = "Delivered" /\ purchases'[i].state = "Disputed" BY <1>1 DEF DisputeStep
<1>5. ASSUME NEW j \in PurchaseId PROVE InDispute(j)'
  <2>1. CASE j = i BY <1>1, <2>1 DEF InDispute, OpenDispute
  <2>2. CASE j # i
    <3>1. purchases'[j] = purchases[j] /\ InDispute(j) BY <1>1, <2>2 DEF OnlyPurchase, Links
    <3>2. CASE purchases[j].state # "Disputed" BY <3>1, <3>2 DEF InDispute
    <3>3. CASE purchases[j].state = "Disputed"
      <4>1. purchases[j].dispute \in DisputeId /\ purchases[j].dispute # n
        BY <1>3, <3>1, <3>3 DEF InDispute, OpenDispute
      <4> QED BY <1>1, <3>1, <3>3, <4>1 DEF InDispute, OpenDispute, OnlyDispute
    <3> QED BY <3>2, <3>3
  <2> QED BY <2>1, <2>2
<1>6. ASSUME NEW d \in DisputeId PROVE CaseSound(d)'
  <2>1. CASE d = n BY <1>1, <1>4, <2>1 DEF CaseSound
  <2>2. CASE d # n
    <3>1. disputes'[d] = disputes[d] /\ CaseSound(d) BY <1>1, <2>2 DEF OnlyDispute, Links
    <3>2. CASE disputes[d].status = "None" BY <3>1, <3>2 DEF CaseSound
    <3>3. CASE disputes[d].status # "None"
      <4>1. disputes[d].purchase \in PurchaseId /\ disputes[d].purchase # i
        BY <1>4, <3>1, <3>3, DisputedPurchase DEF CaseSound
      <4> QED BY <1>1, <3>1, <3>3, <4>1 DEF CaseSound, OnlyPurchase
    <3> QED BY <3>2, <3>3
  <2> QED BY <2>1, <2>2
<1>7. ASSUME NEW d \in DisputeId, d >= n + 1 PROVE disputes'[d] = NoDispute
  <2>1. d >= n /\ d # n BY <1>2, <1>7
  <2> QED BY <1>1, <2>1 DEF OnlyDispute, Links
<1> QED BY <1>1, <1>5, <1>6, <1>7 DEF Links

\* Closing a dispute closes the purchase it is about, and no other.
LEMMA ResolveKeepsLinks ==
  ASSUME Linked, Links, Sales, NEW d \in DisputeId, OpenDispute(d), NEW out \in Outcome, NEW extra,
         resolve(d, out, extra)
  PROVE  Links'
<1> DEFINE i == disputes[d].purchase
<1>1. /\ disputes[d].status # "None" /\ i \in PurchaseId
      /\ purchases[i].state = "Disputed" /\ purchases[i].dispute = d
  BY OpenDisputed
<1>2. /\ OnlyPurchase(i) /\ OnlyDispute(d)
      /\ purchases'[i].dispute = d /\ purchases'[i].state = "Settled"
      /\ SameCase(disputes[d], disputes'[d]) /\ disputes'[d].status = "Resolved"
      /\ nextDisputeId' = nextDisputeId
  BY <1>1, ResolveMoves DEF Closes
<1>3. disputes'[d].purchase = i /\ disputes'[d].bond = disputes[d].bond BY <1>2 DEF SameCase
<1> HIDE DEF i
<1>4. ASSUME NEW j \in PurchaseId PROVE InDispute(j)'
  <2>1. CASE j = i BY <1>2, <2>1 DEF InDispute
  <2>2. CASE j # i
    <3>1. purchases'[j] = purchases[j] /\ InDispute(j) BY <1>2, <2>2 DEF OnlyPurchase, Links
    <3>2. CASE purchases[j].state # "Disputed" BY <3>1, <3>2 DEF InDispute
    <3>3. CASE purchases[j].state = "Disputed"
      <4>1. purchases[j].dispute \in DisputeId /\ purchases[j].dispute # d
        BY <2>2, <3>1, <3>3 DEF InDispute, i
      <4> QED BY <1>2, <3>1, <3>3, <4>1 DEF InDispute, OpenDispute, OnlyDispute
    <3> QED BY <3>2, <3>3
  <2> QED BY <2>1, <2>2
<1>5. ASSUME NEW c \in DisputeId PROVE CaseSound(c)'
  <2>1. CASE c = d BY <1>1, <1>2, <1>3, <2>1 DEF CaseSound, Links
  <2>2. CASE c # d
    <3>1. disputes'[c] = disputes[c] /\ CaseSound(c) BY <1>2, <2>2 DEF OnlyDispute, Links
    <3>2. CASE disputes[c].status = "None" BY <3>1, <3>2 DEF CaseSound
    <3>3. CASE disputes[c].status # "None"
      <4>1. disputes[c].purchase \in PurchaseId /\ disputes[c].purchase # i
        BY <1>1, <2>2, <3>1, <3>3, DisputedPurchase DEF CaseSound
      <4> QED BY <1>2, <3>1, <3>3, <4>1 DEF CaseSound, OnlyPurchase
    <3> QED BY <3>2, <3>3
  <2> QED BY <2>1, <2>2
<1>6. ASSUME NEW c \in DisputeId, c >= nextDisputeId PROVE disputes'[c] = NoDispute
  <2>1. disputes[d] # NoDispute BY <1>1 DEF NoDispute
  <2> QED BY <1>2, <1>6, <2>1 DEF OnlyDispute, Links
<1> QED BY <1>2, <1>4, <1>5, <1>6 DEF Links

\* An open dispute that stays open keeps its links.
LEMMA CaseKeepsLinks ==
  ASSUME Linked, Links, NEW d \in DisputeId, OpenDispute(d), UNCHANGED <<purchases, nextDisputeId>>,
         OnlyDispute(d), CaseStep(disputes[d], disputes'[d])
  PROVE  Links'
<1>1. /\ SameCase(disputes[d], disputes'[d])
      /\ disputes'[d].status \in {"AwaitingSelection", "Voting"}
      /\ disputes'[d].status = "AwaitingSelection" => disputes[d].ground = "FalseDescription"
  BY DEF CaseStep
<1>2. disputes[d].status \in {"AwaitingSelection", "Voting"} BY DEF OpenDispute
<1>3. ASSUME NEW j \in PurchaseId PROVE InDispute(j)'
  <2>1. InDispute(j) BY DEF Links
  <2>2. CASE purchases[j].dispute = d BY <1>1, <2>1, <2>2 DEF InDispute, OpenDispute, SameCase
  <2>3. CASE purchases[j].dispute # d BY <2>1, <2>3 DEF InDispute, OpenDispute, OnlyDispute
  <2> QED BY <2>2, <2>3
<1>4. ASSUME NEW c \in DisputeId PROVE CaseSound(c)'
  <2>1. CaseSound(c) BY DEF Links
  <2>2. CASE c = d BY <1>1, <1>2, <2>1, <2>2 DEF CaseSound, SameCase
  <2>3. CASE c # d BY <2>1, <2>3 DEF CaseSound, OnlyDispute
  <2> QED BY <2>2, <2>3
<1>5. ASSUME NEW c \in DisputeId, c >= nextDisputeId PROVE disputes'[c] = NoDispute
  <2>1. disputes[d] # NoDispute BY <1>2 DEF NoDispute
  <2> QED BY <1>5, <2>1 DEF OnlyDispute, Links
<1> QED BY <1>3, <1>4, <1>5 DEF Links

\* The links hold through every step.
LEMMA LinksPreserved == ASSUME Linked, Links, Sales, [Next]_vars PROVE Links'
<1>1. ASSUME UNCHANGED <<purchases, disputes, nextDisputeId>> PROVE Links'
  BY <1>1 DEF Links, InDispute, CaseSound, OpenDispute
<1>2. CASE Elsewhere BY <1>1, <1>2 DEF Elsewhere
<1>3. ASSUME NEW a \in Buyers, NEW v \in VersionId, buy(a, v) PROVE Links'
  <2>1. /\ nextPurchaseId \in PurchaseId /\ OnlyPurchase(nextPurchaseId)
        /\ BuyStep(purchases[nextPurchaseId], purchases'[nextPurchaseId])
        /\ UNCHANGED <<disputes, nextDisputeId>>
    BY <1>3, BuyMoves
  <2>2. /\ purchases[nextPurchaseId].state = "None"
        /\ purchases'[nextPurchaseId].state = "Funded"
    BY <2>1 DEF BuyStep, Bought, NoPurchase
  <2> QED BY <2>1, <2>2, SaleKeepsLinks
<1>4. ASSUME NEW i \in PurchaseId,
             \/ \E s \in Signers : recordDelivery(i, s)
             \/ refundUndelivered(i) \/ finalize(i) \/ \E n \in StarChoices : rate(i, n)
      PROVE  Links'
  <2> DEFINE p == purchases[i]
             q == purchases'[i]
  <2>1. /\ DeliverStep(p, q) \/ RefundStep(p, q) \/ CloseStep(p, q) \/ RateStep(p, q)
        /\ OnlyPurchase(i) /\ UNCHANGED <<disputes, nextDisputeId>>
    BY <1>4, SaleMoves
  <2>2. q.state # "Disputed" /\ (p.state \notin {"Disputed", "Settled"} \/ RateStep(p, q))
    BY <2>1 DEF DeliverStep, RefundStep, CloseStep, RateStep, Closes
  <2> QED BY <2>1, <2>2, SaleKeepsLinks
<1>5. ASSUME NEW i \in PurchaseId, NEW g \in Grounds,
             NEW m \in SUBSET (1..purchases[i].terms.taskCount), openDispute(i, g, m)
      PROVE  Links'
  BY <1>5, OpenKeepsLinks
<1>6. ASSUME NEW d \in DisputeId,
             \/ \E u \in BOOLEAN, m \in SUBSET disputes[d].taskMask, s \in Signers :
                  resolveMechanical(d, u, m, s)
             \/ timeoutMechanical(d) \/ selectJurors(d) \/ tallyDispute(d)
             \/ \E a \in JurorPool : revealVote(d, a) \/ \E v \in {"Uphold", "Reject"} : commitVote(d, a, v)
      PROVE  Links'
  <2>1. OpenDispute(d) BY <1>6, RulingsOpen
  <2>2. purchases[disputes[d].purchase].refunded = 0 BY <2>1, OpenDisputed
  <2>3. ASSUME NEW out \in Outcome, NEW extra, resolve(d, out, extra) PROVE Links'
    BY <2>1, <2>3, ResolveKeepsLinks
  <2>4. ASSUME UNCHANGED <<purchases, nextDisputeId>>, OnlyDispute(d),
               CaseStep(disputes[d], disputes'[d])
        PROVE  Links'
    BY <2>1, <2>4, CaseKeepsLinks
  <2> QED BY <1>1, <1>6, <2>2, <2>3, <2>4, DisputeSteps
<1>7. Elsewhere \/ CaseCall BY CaseCalls
<1> QED BY <1>2, <1>3, <1>4, <1>5, <1>6, <1>7 DEF CaseCall

---------------------------------------------------------------------------
(* Panels *)

\* A seat that only was settled counts as before.
LEMMA AlikeVerdict ==
  ASSUME NEW s, NEW t, SeatsAlike(s, t)
  PROVE  /\ revealers(t) = revealers(s) /\ panelVerdict(t) = panelVerdict(s)
         /\ \A v : votersFor(t, v) = votersFor(s, v)
<1>1. revealers(t) = revealers(s) BY DEF SeatsAlike, revealers
<1>2. \A v : votersFor(t, v) = votersFor(s, v) BY <1>1 DEF SeatsAlike, votersFor, revealers
<1> QED BY <1>1, <1>2 DEF panelVerdict

\* Nobody votes on a panel that was not drawn.
LEMMA EmptyVerdict ==
  ASSUME NEW s, DOMAIN s = {} PROVE panelVerdict(s) = "None" /\ revealers(s) = {}
<1>1. revealers(s) = {} BY DEF revealers
<1>2. Cardinality({}) = 0 BY FS_EmptySet
<1> QED BY <1>1, <1>2 DEF panelVerdict

\* Panels are finite.
LEMMA SeatsFinite ==
  ASSUME Linked, NEW d \in DisputeId, NEW r \in Rounds
  PROVE  /\ DOMAIN seats[d][r] \subseteq Accounts /\ IsFiniteSet(DOMAIN seats[d][r])
         /\ Cardinality(DOMAIN seats[d][r]) \in Nat
<1>1. DOMAIN seats[d][r] \subseteq Accounts BY DEF Linked, SeatInv, TypeSeats
<1>2. IsFiniteSet(Accounts) BY ConstantsOK DEF ConstantsOK
<1> QED BY <1>1, <1>2, FS_Subset, FS_CardinalityType

\* The parties of a purchase that was made stay the same.
LEMMA PartiesKept ==
  ASSUME Linked, Links, Sales, [Next]_vars, NEW i \in PurchaseId, purchases[i].state # "None"
  PROVE  Kept(purchases[i], purchases'[i])
<1>1. ASSUME SaleStep(purchases[i], purchases'[i]) PROVE Kept(purchases[i], purchases'[i])
  <2>1. ~BuyStep(purchases[i], purchases'[i]) BY DEF BuyStep, NoPurchase
  <2> QED
    BY <1>1, <2>1
    DEF SaleStep, DeliverStep, RefundStep, DisputeStep, CloseStep, RateStep, JudgeStep
<1>2. CASE UNCHANGED purchases BY <1>2 DEF Kept
<1>3. ASSUME NEW j \in PurchaseId, OnlyPurchase(j), SaleStep(purchases[j], purchases'[j])
      PROVE  Kept(purchases[i], purchases'[i])
  <2>1. CASE j = i BY <1>1, <1>3, <2>1
  <2>2. CASE j # i BY <1>3, <2>2 DEF OnlyPurchase, Kept
  <2> QED BY <2>1, <2>2
<1> QED BY <1>2, <1>3, PurchaseSteps

\* A dispute nobody touches keeps its panels; time only helps.
LEMMA PanelKept ==
  ASSUME Linked, Links, Sales, [Next]_vars, NEW d \in DisputeId, PanelSound(d),
         disputes'[d] = disputes[d], seats'[d] = seats[d], timestamp' >= timestamp
  PROVE  PanelSound(d)'
<1> DEFINE dd == disputes[d]
           sd == seats[d]
<1>1. Drawn(dd, sd) /\ Decided(dd, sd) /\ CommitOver(dd, sd, timestamp)
      /\ Impartial(sd, purchases[dd.purchase])
  BY DEF PanelSound
<1>2. Impartial(sd, purchases'[dd.purchase])
  <2>1. CASE dd.status = "None"
    <3>1. DOMAIN sd[1] = {} /\ DOMAIN sd[2] = {} BY <1>1, <2>1 DEF Drawn, JuryCase
    <3>2. \A r \in Rounds : r = 1 \/ r = 2 BY DEF Rounds
    <3> QED BY <3>1, <3>2 DEF Impartial
  <2>2. CASE dd.status # "None"
    <3>1. dd.purchase \in PurchaseId /\ purchases[dd.purchase].state # "None"
      BY <2>2, DisputedPurchase
    <3>2. Kept(purchases[dd.purchase], purchases'[dd.purchase]) BY <3>1, PartiesKept
    <3> QED BY <1>1, <3>2 DEF Impartial, Kept
  <2> QED BY <2>1, <2>2
<1>3. CommitOver(dd, sd, timestamp')
  <2>1. timestamp \in Nat /\ timestamp' \in Nat /\ dd.commitDeadline \in Nat
    BY NextLinked DEF Linked, TypeAdmin, DisputeInv, TypeDisputes, Dispute
  <2> HIDE DEF dd
  <2>2. timestamp > dd.commitDeadline => timestamp' > dd.commitDeadline BY <2>1
  <2> QED BY <1>1, <2>2 DEF CommitOver
<1> QED BY <1>1, <1>2, <1>3 DEF PanelSound

\* A dispute that is no juror case has no panel.
LEMMA NoPanel ==
  ASSUME NEW dd, NEW sd, NEW e, Drawn(dd, sd), ~JuryCase(dd), ~JuryCase(e), NEW p, NEW now
  PROVE  Drawn(e, sd) /\ Decided(e, sd) /\ CommitOver(e, sd, now) /\ Impartial(sd, p)
<1>1. DOMAIN sd[1] = {} /\ DOMAIN sd[2] = {} BY DEF Drawn
<1>2. \A r \in Rounds : r = 1 \/ r = 2 BY DEF Rounds
<1>3. Drawn(e, sd) BY <1>1, <1>2 DEF Drawn
<1>4. Impartial(sd, p) BY <1>1, <1>2 DEF Impartial
<1> QED BY <1>3, <1>4 DEF Decided, CommitOver

\* Seats keep their jurors, so they keep out the parties.
LEMMA AlikeImpartial ==
  ASSUME NEW sd, NEW td, \A r \in Rounds : DOMAIN td[r] = DOMAIN sd[r],
         NEW p, NEW q, Kept(p, q), Impartial(sd, p)
  PROVE  Impartial(td, q)
BY DEF Impartial, Kept

\* Drawing again, or the first draw, waits for the same panel.
LEMMA PanelRearmed ==
  ASSUME NEW dd, NEW e, NEW sd, NEW now, Drawn(dd, sd), Decided(dd, sd), SameCase(dd, e),
         dd.status = "AwaitingSelection", e.status = dd.status, e.round = dd.round
  PROVE  Drawn(e, sd) /\ Decided(e, sd) /\ CommitOver(e, sd, now)
<1>1. JuryCase(e) <=> JuryCase(dd) BY DEF JuryCase, SameCase
<1> QED BY <1>1 DEF Drawn, Decided, CommitOver

\* The first round decided nothing, and no panel of the second is drawn yet.
LEMMA PanelAdvanced ==
  ASSUME NEW dd, NEW e, NEW sd, NEW td, NEW now, Drawn(dd, sd), SameCase(dd, e), JuryCase(dd),
         dd.round = 1, e.status = "AwaitingSelection", e.round = 2,
         \A r \in Rounds : DOMAIN td[r] = DOMAIN sd[r], panelVerdict(td[1]) = "None"
  PROVE  Drawn(e, td) /\ Decided(e, td) /\ CommitOver(e, td, now)
<1>1. JuryCase(e) BY DEF JuryCase, SameCase
<1>2. 1 \in Rounds /\ 2 \in Rounds BY DEF Rounds
<1>3. DOMAIN td[1] = DOMAIN sd[1] /\ DOMAIN td[2] = DOMAIN sd[2] /\ DOMAIN sd[2] = {}
  BY <1>2 DEF Drawn
<1>4. Drawn(e, td) BY <1>1, <1>3 DEF Drawn
<1> QED BY <1>1, <1>4 DEF Decided, CommitOver

\* The dispute closes by the verdict of two jurors, or by the fallback after both rounds.
LEMMA PanelClosed ==
  ASSUME NEW dd, NEW e, NEW sd, NEW td, NEW now, Drawn(dd, sd), Decided(dd, sd), SameCase(dd, e),
         JuryCase(dd), dd.round \in Rounds, e.status = "Resolved", e.round = dd.round,
         \A r \in Rounds : SeatsAlike(sd[r], td[r]),
         IF e.fallbackNoQuorum THEN dd.round = 2 /\ panelVerdict(sd[2]) = "None"
         ELSE Cardinality(votersFor(sd[dd.round], e.verdict)) >= 2
  PROVE  Drawn(e, td) /\ Decided(e, td) /\ CommitOver(e, td, now)
<1>1. JuryCase(e) BY DEF JuryCase, SameCase
<1>2. 1 \in Rounds /\ 2 \in Rounds BY DEF Rounds
<1>3. \A r \in Rounds : /\ DOMAIN td[r] = DOMAIN sd[r] /\ panelVerdict(td[r]) = panelVerdict(sd[r])
                        /\ \A v : votersFor(td[r], v) = votersFor(sd[r], v)
  BY AlikeVerdict DEF SeatsAlike
<1>4. Drawn(e, td) BY <1>1, <1>2, <1>3 DEF Drawn
<1>5. Decided(e, td)
  <2>1. dd.round = 2 => panelVerdict(td[1]) = "None" BY <1>2, <1>3 DEF Decided
  <2>2. IF e.fallbackNoQuorum THEN e.round = 2 /\ panelVerdict(td[2]) = "None"
        ELSE Cardinality(votersFor(td[e.round], e.verdict)) >= 2
    BY <1>2, <1>3
  <2> QED BY <2>1, <2>2 DEF Decided
<1> QED BY <1>4, <1>5 DEF CommitOver

\* A seat's identity and the other round are untouched by what happens in one round.
LEMMA OnlyPanelAlike ==
  ASSUME NEW d \in DisputeId, NEW r \in Rounds, OnlyPanel(d, r),
         SeatsAlike(seats[d][r], seats'[d][r])
  PROVE  \A k \in Rounds : SeatsAlike(seats[d][k], seats'[d][k])
BY DEF OnlyPanel, SeatsAlike

\* The panel of a closed juror case.
LEMMA VerdictKept ==
  ASSUME Linked, Links, Sales, [Next]_vars, NEW d \in DisputeId, PanelSound(d),
         OpenDispute(d), JuryCase(disputes[d]), NEW out \in Outcome, NEW extra,
         resolve(d, out, extra), \A k \in Rounds : SeatsAlike(seats[d][k], seats'[d][k]),
         IF out.fallback THEN disputes[d].round = 2 /\ panelVerdict(seats[d][2]) = "None"
         ELSE Cardinality(votersFor(seats[d][disputes[d].round], out.verdict)) >= 2
  PROVE  PanelSound(d)'
<1> DEFINE dd == disputes[d]
           e  == disputes'[d]
           sd == seats[d]
           td == seats'[d]
           i  == dd.purchase
<1>1. /\ dd.status # "None" /\ i \in PurchaseId /\ purchases[i].state # "None"
      /\ dd.round \in Rounds
  BY OpenDisputed, DisputedPurchase DEF JuryCase, Linked, DisputeInv, WellOpened
<1>2. /\ SameCase(dd, e) /\ e.status = "Resolved" /\ e.verdict = out.verdict
      /\ e.fallbackNoQuorum = out.fallback /\ e.round = dd.round
  BY <1>1, ResolveMoves
<1>3. Drawn(dd, sd) /\ Decided(dd, sd) /\ Impartial(sd, purchases[i]) BY DEF PanelSound
<1>4. Kept(purchases[i], purchases'[i]) BY <1>1, PartiesKept
<1>5. \A r \in Rounds : DOMAIN td[r] = DOMAIN sd[r] BY DEF SeatsAlike
<1>6. Impartial(td, purchases'[i])
  <2> HIDE DEF sd, td, i
  <2> QED BY <1>3, <1>4, <1>5 DEF Impartial, Kept
<1>7. e.purchase = i BY <1>2 DEF SameCase
<1> HIDE DEF dd, e, sd, td, i
<1>8. Drawn(e, td) /\ Decided(e, td) /\ CommitOver(e, td, timestamp')
  BY <1>1, <1>2, <1>3, PanelClosed DEF dd, e, sd, td
<1> QED BY <1>6, <1>7, <1>8 DEF PanelSound, e, td

\* The panel of a case whose first round failed.
LEMMA AdvanceKept ==
  ASSUME Linked, Links, Sales, [Next]_vars, NEW d \in DisputeId, PanelSound(d),
         JuryCase(disputes[d]), disputes[d].round = 1,
         disputes' = [disputes EXCEPT ![d] = secondRound(@)],
         \A k \in Rounds : SeatsAlike(seats[d][k], seats'[d][k]),
         panelVerdict(seats[d][1]) = "None"
  PROVE  PanelSound(d)'
<1> DEFINE dd == disputes[d]
           e  == disputes'[d]
           sd == seats[d]
           td == seats'[d]
           i  == dd.purchase
<1>1. dd.status # "None" /\ i \in PurchaseId /\ purchases[i].state # "None" /\ 1 \in Rounds
  BY DisputedPurchase DEF JuryCase, Rounds
<1>2. SameCase(dd, e) /\ e.status = "AwaitingSelection" /\ e.round = 2
  BY <1>1, AdvanceMoves
<1>3. Drawn(dd, sd) /\ Impartial(sd, purchases[i]) BY DEF PanelSound
<1>4. Kept(purchases[i], purchases'[i]) BY <1>1, PartiesKept
<1>5. \A r \in Rounds : DOMAIN td[r] = DOMAIN sd[r] BY DEF SeatsAlike
<1>6. Impartial(td, purchases'[i])
  <2> HIDE DEF sd, td, i
  <2> QED BY <1>3, <1>4, <1>5 DEF Impartial, Kept
<1>7. e.purchase = i BY <1>2 DEF SameCase
<1>8. panelVerdict(td[1]) = "None" BY <1>1, AlikeVerdict
<1> HIDE DEF dd, e, sd, td, i
<1>9. Drawn(e, td) /\ Decided(e, td) /\ CommitOver(e, td, timestamp')
  BY <1>2, <1>3, <1>5, <1>8, PanelAdvanced DEF dd
<1> QED BY <1>6, <1>7, <1>9 DEF PanelSound, e, td

\* Opening a dispute seats nobody.
LEMMA OpenPanel ==
  ASSUME Linked, Links, NEW i \in PurchaseId, NEW g \in Grounds,
         NEW m \in SUBSET (1..purchases[i].terms.taskCount), openDispute(i, g, m),
         NEW d \in DisputeId, d = nextDisputeId, PanelSound(d)
  PROVE  PanelSound(d)'
<1> DEFINE dd == disputes[d]
           e  == disputes'[d]
           sd == seats[d]
<1>1. /\ e.ground = g /\ seats' = seats
      /\ IF g = "FalseDescription" THEN e.status = "AwaitingSelection" /\ e.round = 1
         ELSE e.status = "Voting"
  BY OpenMoves
<1>2. dd.status = "None"
  <2>1. d \in Nat BY <1>1, ConstantsOK DEF ConstantsOK, DisputeId
  <2> QED BY <1>1, <2>1 DEF Links, NoDispute
<1>3. Drawn(dd, sd) /\ ~JuryCase(dd) BY <1>2 DEF PanelSound, JuryCase
<1>4. DOMAIN sd[1] = {} /\ DOMAIN sd[2] = {} BY <1>3 DEF Drawn
<1>5. 1 \in Rounds /\ 2 \in Rounds /\ \A r \in Rounds : r = 1 \/ r = 2 BY DEF Rounds
<1> HIDE DEF dd, e, sd
<1>6. \A p : Impartial(sd, p) BY <1>4, <1>5 DEF Impartial
<1>7. Drawn(e, sd) /\ Decided(e, sd) /\ CommitOver(e, sd, timestamp')
  <2>1. CASE g = "FalseDescription"
    <3>1. e.status = "AwaitingSelection" /\ e.round = 1 BY <1>1, <2>1 DEF e
    <3> QED BY <1>3, <1>4, <1>5, <3>1 DEF Drawn, Decided, CommitOver
  <2>2. CASE g # "FalseDescription"
    <3>1. ~JuryCase(e) BY <1>1, <2>2 DEF JuryCase, e
    <3> QED BY <1>3, <3>1, NoPanel
  <2> QED BY <2>1, <2>2
<1> QED BY <1>1, <1>6, <1>7 DEF PanelSound, e, sd

\* The draw seats three jurors, none a party or of the first panel.
LEMMA DrawPanel ==
  ASSUME Linked, NEW d \in DisputeId, PanelSound(d), Jury(d, "AwaitingSelection"),
         NEW chosen, seatPanel(d, chosen)
  PROVE  PanelSound(d)'
<1> DEFINE dd == disputes[d]
           e  == disputes'[d]
           sd == seats[d]
           td == seats'[d]
           r  == dd.round
           p  == purchases[dd.purchase]
<1>1. /\ SameCase(dd, e) /\ e.status = "Voting" /\ e.round = r /\ r \in Rounds
      /\ \A k \in Rounds : k # r => td[k] = sd[k]
      /\ DOMAIN td[r] = chosen /\ revealers(td[r]) = {} /\ purchases' = purchases
  BY DrawMoves DEF OnlyPanel
<1>2. JuryCase(dd) /\ dd.status = "AwaitingSelection" BY DEF Jury, JuryCase
<1>3. JuryCase(e) /\ e.purchase = dd.purchase BY <1>1, <1>2 DEF SameCase, JuryCase
<1>4. chosen \subseteq eligible(d) /\ Cardinality(chosen) = SEATS BY DEF seatPanel
<1>5. \A a \in chosen : a # p.buyer /\ a # p.seller /\ (r = 2 => a \notin DOMAIN sd[1])
  BY <1>4 DEF eligible
<1>6. Drawn(dd, sd) /\ Impartial(sd, p) /\ Decided(dd, sd) BY DEF PanelSound
<1>7. r = 1 \/ r = 2 BY <1>1 DEF Rounds
<1>8. 1 \in Rounds /\ 2 \in Rounds BY DEF Rounds
<1> HIDE DEF dd, e, sd, td, r, p
<1>9. Drawn(e, td)
  <2>1. \A k \in Rounds : Cardinality(DOMAIN td[k]) \in {0, SEATS}
    BY <1>1, <1>4, <1>6 DEF Drawn
  <2>2. r = 1 => DOMAIN sd[2] = {} BY <1>2, <1>6 DEF Drawn, r
  <2>3. DOMAIN td[1] \cap DOMAIN td[2] = {} BY <1>1, <1>5, <1>7, <1>8, <2>2
  <2>4. e.round = 1 => DOMAIN td[2] = {} BY <1>1, <1>8, <2>2
  <2>5. Cardinality(DOMAIN td[e.round]) = SEATS BY <1>1, <1>4
  <2> QED BY <1>1, <1>3, <2>1, <2>3, <2>4, <2>5 DEF Drawn
<1>10. Impartial(td, p) BY <1>1, <1>5, <1>6 DEF Impartial
<1>11. Decided(e, td) BY <1>1, <1>2, <1>6, <1>8 DEF Decided, r
<1>12. CommitOver(e, td, timestamp') BY <1>1 DEF CommitOver
<1> QED BY <1>1, <1>3, <1>9, <1>10, <1>11, <1>12 DEF PanelSound, e, td, p

\* A commitment comes before every reveal; a reveal after every commitment.
LEMMA VotePanel ==
  ASSUME Linked, NEW d \in DisputeId, PanelSound(d), NEW a, NEW v \in {"Uphold", "Reject"},
         commitVote(d, a, v) \/ revealVote(d, a), timestamp' = timestamp
  PROVE  PanelSound(d)'
<1> DEFINE dd == disputes[d]
           sd == seats[d]
           td == seats'[d]
           r  == dd.round
           p  == purchases[dd.purchase]
<1>1. /\ Jury(d, "Voting") /\ r \in Rounds /\ a \in DOMAIN sd[r]
      /\ \A k \in Rounds : k # r => td[k] = sd[k]
      /\ DOMAIN td[r] = DOMAIN sd[r]
      /\ \A b \in DOMAIN sd[r] : b # a => td[r][b] = sd[r][b]
      /\ \/ commitVote(d, a, v) /\ td[r][a].commitment = v /\ td[r][a].revealed = sd[r][a].revealed
         \/ revealVote(d, a) /\ td[r][a].commitment = sd[r][a].commitment /\ td[r][a].revealed
      /\ UNCHANGED <<purchases, disputes>>
  BY VoteMoves DEF OnlyPanel
<1>2. JuryCase(dd) /\ dd.status = "Voting" BY <1>1 DEF Jury, JuryCase
<1>3. Drawn(dd, sd) /\ Impartial(sd, p) /\ Decided(dd, sd) /\ CommitOver(dd, sd, timestamp)
  BY DEF PanelSound
<1>4. 1 \in Rounds /\ 2 \in Rounds BY DEF Rounds
<1>5. timestamp \in Nat /\ dd.commitDeadline \in Nat
  BY DEF Linked, TypeAdmin, DisputeInv, TypeDisputes, Dispute
<1>6. /\ commitVote(d, a, v) => timestamp <= dd.commitDeadline /\ sd[r][a].commitment = "None"
      /\ revealVote(d, a) => \/ timestamp > dd.commitDeadline
                             \/ \A b \in DOMAIN sd[r] : sd[r][b].commitment # "None"
  BY DEF commitVote, revealVote, allCommitted, panel
<1> DEFINE now == timestamp
           last == dd.commitDeadline
<1> HIDE DEF sd, td, r, p, now, last
<1>7. Drawn(dd, td) BY <1>1, <1>3, <1>4 DEF Drawn, r
<1>8. Impartial(td, p) BY <1>1, <1>3 DEF Impartial
<1>9. Decided(dd, td) BY <1>1, <1>2, <1>3, <1>4 DEF Decided, r
<1>10. CommitOver(dd, td, now)
  <2>1. ASSUME commitVote(d, a, v), td[r][a].revealed = sd[r][a].revealed
        PROVE  revealers(td[r]) = {}
    <3>1. ~(now > last) BY <1>5, <1>6, <2>1 DEF now, last
    <3>2. revealers(sd[r]) = {} BY <1>1, <1>2, <1>3, <1>6, <2>1, <3>1 DEF CommitOver, r, now, last
    <3> QED BY <1>1, <2>1, <3>2 DEF revealers
  <2>2. ASSUME revealVote(d, a), td[r][a].commitment = sd[r][a].commitment
        PROVE  now > last \/ \A b \in DOMAIN td[r] : td[r][b].commitment # "None"
    BY <1>1, <1>6, <2>2 DEF now, last
  <2> QED BY <1>1, <2>1, <2>2 DEF CommitOver, r, now, last
<1> QED BY <1>1, <1>7, <1>8, <1>9, <1>10 DEF PanelSound, td, p, now

\* A finding of the verifier, or none in time, is no jury's business.
LEMMA MechanicalPanel ==
  ASSUME Linked, NEW d \in DisputeId, PanelSound(d), NEW u, NEW m \in SUBSET disputes[d].taskMask,
         NEW s, resolveMechanical(d, u, m, s) \/ timeoutMechanical(d)
  PROVE  PanelSound(d)'
<1> DEFINE dd == disputes[d]
           p  == purchases[dd.purchase]
<1>1. /\ dd.status # "None" /\ ~JuryCase(dd) /\ seats' = seats
  BY DEF resolveMechanical, timeoutMechanical, Mechanical, JuryCase
<1>2. /\ dd \in Dispute /\ p \in Purchase /\ WellMade(p) /\ p.state # "None"
      /\ dd.taskMask \in SUBSET (1..p.terms.taskCount)
  BY <1>1, DisputedPurchase
<1>3. m \in SUBSET (1..p.terms.taskCount) BY <1>2
<1>4. /\ upholdOutcome(p, dd, m) \in Outcome /\ rejectOutcome(dd) \in Outcome
      /\ fallbackOutcome(dd) \in Outcome
  BY <1>2, <1>3, UpholdTyped, RejectTyped
<1>5. \E out \in Outcome : \E extra : resolve(d, out, extra)
  <2>1. CASE timeoutMechanical(d) BY <1>4, <2>1 DEF timeoutMechanical
  <2>2. CASE resolveMechanical(d, u, m, s) /\ u BY <1>4, <2>2 DEF resolveMechanical
  <2>3. CASE resolveMechanical(d, u, m, s) /\ ~u BY <1>4, <2>3 DEF resolveMechanical
  <2> QED BY <2>1, <2>2, <2>3
<1>6. PICK out \in Outcome : \E extra : resolve(d, out, extra) BY <1>5
<1>7. SameCase(dd, disputes'[d]) /\ disputes'[d].status = "Resolved"
  BY <1>1, <1>6, ResolveMoves
<1>8. ~JuryCase(disputes'[d]) BY <1>1, <1>7 DEF JuryCase, SameCase
<1>9. Drawn(dd, seats[d]) BY DEF PanelSound
<1> HIDE DEF dd, p
<1> QED BY <1>1, <1>8, <1>9, NoPanel DEF PanelSound

\* selectJurors draws again, seats a panel, or finds that it cannot be filled.
LEMMA SelectPanel ==
  ASSUME Linked, Links, Sales, [Next]_vars, NEW d \in DisputeId, PanelSound(d), selectJurors(d)
  PROVE  PanelSound(d)'
<1> DEFINE dd == disputes[d]
           sd == seats[d]
<1>1. Jury(d, "AwaitingSelection") /\ OpenDispute(d)
  BY RulingsOpen DEF selectJurors, SelectionOpen
<1>2. dd.status = "AwaitingSelection" /\ JuryCase(dd) BY <1>1 DEF Jury, JuryCase
<1>3. dd.round \in Rounds /\ dd \in Dispute
  BY <1>2, DisputedPurchase, PanelTyped, <1>1 DEF DisputeStatus
<1>4. Drawn(dd, sd) /\ Decided(dd, sd) /\ Impartial(sd, purchases[dd.purchase]) BY DEF PanelSound
<1>5. DOMAIN sd[dd.round] = {} BY <1>2, <1>4 DEF Drawn
<1>6. panelVerdict(sd[dd.round]) = "None" BY <1>5, EmptyVerdict
<1>7. ASSUME seats' = seats PROVE \A k \in Rounds : SeatsAlike(seats[d][k], seats'[d][k])
  BY <1>7 DEF SeatsAlike
<1>8. CASE rearmSelection(d)
  <2> DEFINE e == disputes'[d]
  <2>1. /\ SameCase(dd, e) /\ e.status = dd.status /\ e.round = dd.round
        /\ seats' = seats /\ purchases' = purchases
    BY <1>2, <1>8, RearmMoves
  <2>2. e.purchase = dd.purchase BY <2>1 DEF SameCase
  <2> HIDE DEF dd, sd, e
  <2>3. Drawn(e, sd) /\ Decided(e, sd) /\ CommitOver(e, sd, timestamp')
    BY <1>2, <1>4, <2>1, PanelRearmed
  <2> QED BY <1>4, <2>1, <2>2, <2>3 DEF PanelSound, e, sd
<1>9. ASSUME NEW chosen, seatPanel(d, chosen) PROVE PanelSound(d)'
  BY <1>1, <1>9, DrawPanel
<1>10. CASE panelUnfillable(d)
  <2>1. seats' = seats BY <1>10 DEF panelUnfillable
  <2>2. CASE dd.round = 1
    <3>1. disputes' = [disputes EXCEPT ![d] = secondRound(@)]
      BY <1>10, <2>2 DEF panelUnfillable
    <3>2. panelVerdict(seats[d][1]) = "None" BY <1>6, <2>2
    <3>3. \A k \in Rounds : SeatsAlike(seats[d][k], seats'[d][k]) BY <1>7, <2>1
    <3> QED BY <1>2, <2>2, <3>1, <3>2, <3>3, AdvanceKept
  <2>3. CASE dd.round # 1
    <3>1. dd.round = 2 BY <1>3, <2>3 DEF Rounds
    <3>2. resolve(d, fallbackOutcome(dd), NoExtra) BY <1>10, <2>3 DEF panelUnfillable
    <3>3. panelVerdict(seats[d][2]) = "None" BY <1>6, <3>1
    <3>4. \A k \in Rounds : SeatsAlike(seats[d][k], seats'[d][k]) BY <1>7, <2>1
    <3> DEFINE out == fallbackOutcome(dd)
    <3>5. out \in Outcome BY <1>3, RejectTyped
    <3>6. out.fallback BY DEF fallbackOutcome
    <3> HIDE DEF out
    <3>7. resolve(d, out, NoExtra) BY <3>2 DEF out
    <3> QED BY <1>1, <1>2, <3>1, <3>3, <3>4, <3>5, <3>6, <3>7, VerdictKept
  <2> QED BY <2>2, <2>3
<1> QED BY <1>8, <1>9, <1>10 DEF selectJurors

\* tallyDispute closes by the panel's verdict, advances or falls back.
LEMMA TallyPanel ==
  ASSUME Linked, Links, Sales, [Next]_vars, NEW d \in DisputeId, PanelSound(d), tallyDispute(d)
  PROVE  PanelSound(d)'
<1> DEFINE dd == disputes[d]
           pn == panel(d)
           p  == purchases[dd.purchase]
<1>1. Jury(d, "Voting") /\ OpenDispute(d)
  BY RulingsOpen DEF tallyDispute, tallyDecided, tallyFailed, TallyReady
<1>2. JuryCase(dd) BY <1>1 DEF Jury, JuryCase
<1>3. /\ dd.round \in Rounds /\ DOMAIN pn \in SUBSET Accounts /\ pn \in [DOMAIN pn -> Seat]
  BY <1>1, PanelTyped DEF DisputeStatus
<1>4. /\ dd \in Dispute /\ p \in Purchase /\ WellMade(p) /\ p.state # "None"
      /\ dd.taskMask \in SUBSET (1..p.terms.taskCount)
  BY <1>2, DisputedPurchase DEF JuryCase
<1>5. pn = seats[d][dd.round] BY DEF panel
<1>6. ASSUME NEW v, NEW per, NEW share, settleSeats(d, v, per, share)
      PROVE  \A k \in Rounds : SeatsAlike(seats[d][k], seats'[d][k])
  BY <1>1, <1>6, SettleMoves, OnlyPanelAlike
<1>7. CASE tallyDecided(d)
  <2> DEFINE verdict == panelVerdict(pn)
             out == IF verdict = "Uphold" THEN upholdOutcome(p, dd, dd.taskMask)
                    ELSE rejectOutcome(dd)
  <2>1. /\ verdict # "None" /\ \E extra : resolve(d, out, extra)
        /\ \E per, share : settleSeats(d, verdict, per, share)
    BY <1>7 DEF tallyDecided
  <2>2. \A a \in DOMAIN pn : pn[a].revealed => pn[a].commitment # "None"
    BY <1>3, <1>5 DEF Linked, SeatInv, RevealsCommitted
  <2>3. verdict \in {"Uphold", "Reject"} /\ Cardinality(votersFor(pn, verdict)) >= 2
    BY <1>3, <2>1, <2>2, MajorityPositive
  <2>4. out \in Outcome
    BY <1>4, UpholdTyped, RejectTyped
  <2>5. out.verdict = verdict /\ ~out.fallback
    BY <2>3 DEF upholdOutcome, rejectOutcome
  <2>6. \A k \in Rounds : SeatsAlike(seats[d][k], seats'[d][k]) BY <1>6, <2>1
  <2> HIDE DEF out, verdict, pn
  <2>7. PICK extra : resolve(d, out, extra) BY <2>1
  <2>8. Cardinality(votersFor(seats[d][disputes[d].round], out.verdict)) >= 2
    BY <1>5, <2>3, <2>5
  <2> QED BY <1>1, <1>2, <2>4, <2>5, <2>6, <2>7, <2>8, VerdictKept
<1>8. CASE tallyFailed(d)
  <2>1. /\ settleSeats(d, "None", 0, 0) /\ panelVerdict(pn) = "None"
    BY <1>8 DEF tallyFailed
  <2>2. \A k \in Rounds : SeatsAlike(seats[d][k], seats'[d][k]) BY <1>6, <2>1
  <2>3. CASE dd.round = 1
    <3>1. disputes' = [disputes EXCEPT ![d] = secondRound(@)] BY <1>8, <2>3 DEF tallyFailed
    <3>2. panelVerdict(seats[d][1]) = "None" BY <1>5, <2>1, <2>3
    <3> QED BY <1>2, <2>2, <2>3, <3>1, <3>2, AdvanceKept
  <2>4. CASE dd.round # 1
    <3>1. dd.round = 2 BY <1>3, <2>4 DEF Rounds
    <3> DEFINE out == fallbackOutcome(dd)
    <3>2. \E extra : resolve(d, out, extra) BY <1>8, <2>4 DEF tallyFailed
    <3>3. panelVerdict(seats[d][2]) = "None" BY <1>5, <2>1, <3>1
    <3>4. out \in Outcome BY <1>4, RejectTyped
    <3>5. out.fallback BY DEF fallbackOutcome
    <3> HIDE DEF out
    <3>6. PICK extra : resolve(d, out, extra) BY <3>2
    <3> QED BY <1>1, <1>2, <2>2, <3>1, <3>3, <3>4, <3>5, <3>6, VerdictKept
  <2> QED BY <2>3, <2>4
<1> QED BY <1>7, <1>8 DEF tallyDispute

\* A call about one dispute leaves the others, and their panels, alone.
LEMMA OtherPanels ==
  ASSUME Linked, Links, Sales, NEW d \in DisputeId,
         \/ \E u \in BOOLEAN, m \in SUBSET disputes[d].taskMask, s \in Signers :
              resolveMechanical(d, u, m, s)
         \/ timeoutMechanical(d) \/ selectJurors(d) \/ tallyDispute(d)
         \/ \E a \in JurorPool : revealVote(d, a) \/ \E v \in {"Uphold", "Reject"} : commitVote(d, a, v)
  PROVE  \A c \in DisputeId : c # d => disputes'[c] = disputes[c] /\ seats'[c] = seats[c]
<1>1. OpenDispute(d) BY RulingsOpen
<1>2. disputes[d].status # "None" /\ purchases[disputes[d].purchase].refunded = 0
  BY <1>1, OpenDisputed
<1>3. OnlyDispute(d)
  <2>1. ASSUME NEW out \in Outcome, NEW extra, resolve(d, out, extra) PROVE OnlyDispute(d)
    BY <1>2, <2>1, ResolveMoves
  <2>2. ASSUME UNCHANGED disputes PROVE OnlyDispute(d) BY <2>2 DEF OnlyDispute
  <2> QED BY <1>2, <2>1, <2>2, DisputeSteps
<1> DEFINE Alone == \A c \in DisputeId : c # d => seats'[c] = seats[c]
<1>4. Alone
  <2>1. ASSUME seats' = seats PROVE Alone BY <2>1
  <2>2. ASSUME NEW r, OnlyPanel(d, r) PROVE Alone BY <2>2 DEF OnlyPanel
  <2> HIDE DEF Alone
  <2>3. ASSUME NEW u, NEW m, NEW s, resolveMechanical(d, u, m, s) PROVE Alone
    BY <2>1, <2>3 DEF resolveMechanical
  <2>4. ASSUME timeoutMechanical(d) PROVE Alone BY <2>1, <2>4 DEF timeoutMechanical
  <2>5. ASSUME selectJurors(d) PROVE Alone
    <3>1. Jury(d, "AwaitingSelection") BY <2>5 DEF selectJurors, SelectionOpen
    <3>2. ASSUME NEW chosen, seatPanel(d, chosen) PROVE Alone
      BY <2>2, <3>1, <3>2, DrawMoves
    <3>3. CASE rearmSelection(d) \/ panelUnfillable(d)
      BY <2>1, <3>3 DEF rearmSelection, panelUnfillable
    <3> QED BY <2>5, <3>2, <3>3 DEF selectJurors
  <2>6. ASSUME tallyDispute(d) PROVE Alone
    <3>1. Jury(d, "Voting") BY <2>6 DEF tallyDispute, tallyDecided, tallyFailed, TallyReady
    <3>2. \E v, per, share : settleSeats(d, v, per, share)
      BY <2>6 DEF tallyDispute, tallyDecided, tallyFailed
    <3>3. PICK v, per, share : settleSeats(d, v, per, share) BY <3>2
    <3> QED BY <2>2, <3>1, <3>3, SettleMoves
  <2>7. ASSUME NEW a, NEW v \in {"Uphold", "Reject"}, commitVote(d, a, v) \/ revealVote(d, a)
        PROVE  Alone
    BY <2>2, <2>7, VoteMoves
  <2> QED BY <2>3, <2>4, <2>5, <2>6, <2>7, "Uphold" \in {"Uphold", "Reject"}
<1> QED BY <1>3, <1>4 DEF OnlyDispute

\* Panels stay sound through every step.
LEMMA PanelsPreserved ==
  ASSUME Linked, Links, Sales, PanelsSound, [Next]_vars PROVE PanelsSound'
<1>1. \A d \in DisputeId : PanelSound(d) BY DEF PanelsSound
<1>2. ASSUME UNCHANGED <<disputes, seats>>, timestamp' >= timestamp PROVE PanelsSound'
  BY <1>1, <1>2, PanelKept DEF PanelsSound
<1>3. CASE Elsewhere /\ timestamp' >= timestamp BY <1>2, <1>3 DEF Elsewhere
<1>4. timestamp \in Nat BY DEF Linked, TypeAdmin
<1>5. ASSUME CaseCall, timestamp' = timestamp PROVE PanelsSound'
  <2>0. timestamp' >= timestamp BY <1>4, <1>5
  <2>1. ASSUME NEW a \in Buyers, NEW v \in VersionId, buy(a, v) PROVE PanelsSound'
    BY <1>2, <2>0, <2>1, BuyMoves
  <2>2. ASSUME NEW i \in PurchaseId,
               \/ \E s \in Signers : recordDelivery(i, s)
               \/ refundUndelivered(i) \/ finalize(i) \/ \E n \in StarChoices : rate(i, n)
        PROVE  PanelsSound'
    BY <1>2, <2>0, <2>2, SaleMoves
  <2>3. ASSUME NEW i \in PurchaseId, NEW g \in Grounds,
               NEW m \in SUBSET (1..purchases[i].terms.taskCount), openDispute(i, g, m)
        PROVE  PanelsSound'
    <3>1. seats' = seats /\ OnlyDispute(nextDisputeId) BY <2>3, OpenMoves
    <3>2. ASSUME NEW d \in DisputeId PROVE PanelSound(d)'
      <4>1. CASE d = nextDisputeId BY <1>1, <2>3, <4>1, OpenPanel
      <4>2. CASE d # nextDisputeId
        <5>1. disputes'[d] = disputes[d] /\ seats'[d] = seats[d] BY <3>1, <4>2 DEF OnlyDispute
        <5> QED BY <1>1, <2>0, <5>1, PanelKept
      <4> QED BY <4>1, <4>2
    <3> QED BY <3>2 DEF PanelsSound
  <2>4. ASSUME NEW d \in DisputeId,
               \/ \E u \in BOOLEAN, m \in SUBSET disputes[d].taskMask, s \in Signers :
                    resolveMechanical(d, u, m, s)
               \/ timeoutMechanical(d) \/ selectJurors(d) \/ tallyDispute(d)
               \/ \E a \in JurorPool : revealVote(d, a) \/ \E v \in {"Uphold", "Reject"} : commitVote(d, a, v)
        PROVE  PanelsSound'
    <3>1. PanelSound(d)'
      <4>1. ASSUME NEW u \in BOOLEAN, NEW m \in SUBSET disputes[d].taskMask, NEW s \in Signers,
                   resolveMechanical(d, u, m, s)
            PROVE  PanelSound(d)'
        BY <1>1, <4>1, MechanicalPanel
      <4>2. CASE timeoutMechanical(d)
        BY <1>1, <4>2, MechanicalPanel, {} \in SUBSET disputes[d].taskMask
      <4>3. CASE selectJurors(d) BY <1>1, <4>3, SelectPanel
      <4>4. CASE tallyDispute(d) BY <1>1, <4>4, TallyPanel
      <4>5. ASSUME NEW a \in JurorPool,
                   revealVote(d, a) \/ \E v \in {"Uphold", "Reject"} : commitVote(d, a, v)
            PROVE  PanelSound(d)'
        BY <1>1, <1>5, <4>5, VotePanel, "Uphold" \in {"Uphold", "Reject"}
      <4> QED BY <2>4, <4>1, <4>2, <4>3, <4>4, <4>5
    <3>2. \A c \in DisputeId : c # d => disputes'[c] = disputes[c] /\ seats'[c] = seats[c]
      BY <2>4, OtherPanels
    <3>3. ASSUME NEW c \in DisputeId, c # d PROVE PanelSound(c)'
      BY <1>1, <2>0, <3>2, <3>3, PanelKept
    <3> QED BY <3>1, <3>3 DEF PanelsSound
  <2> QED BY <1>5, <2>1, <2>2, <2>3, <2>4 DEF CaseCall
<1> QED BY <1>3, <1>5, CaseCalls

---------------------------------------------------------------------------
(* The invariant *)

\* No purchase, no dispute and no panel.
LEMMA InitCase == Init => CaseInv
<1> SUFFICES ASSUME Init PROVE CaseInv OBVIOUS
<1>1. \A i \in PurchaseId : purchases[i].state = "None" BY DEF Init, InitPurchases, NoPurchase
<1>2. \A d \in DisputeId : disputes[d] = NoDispute /\ disputes[d].status = "None"
  BY DEF Init, InitCases, NoDispute
<1>3. Sales BY <1>1 DEF Sales, SaleSound
<1>4. Links BY <1>1, <1>2 DEF Links, InDispute, CaseSound
<1>5. ASSUME NEW d \in DisputeId PROVE PanelSound(d)
  <2>1. seats[d] = [r \in Rounds |-> [a \in {} |-> EmptySeat]] BY DEF Init, InitCases
  <2>2. 1 \in Rounds /\ 2 \in Rounds BY DEF Rounds
  <2>3. \A r \in Rounds : DOMAIN seats[d][r] = {} BY <2>1
  <2>4. Cardinality({}) = 0 BY FS_EmptySet
  <2>5. ~JuryCase(disputes[d]) BY <1>2 DEF JuryCase
  <2>6. Drawn(disputes[d], seats[d]) BY <2>2, <2>3, <2>4, <2>5 DEF Drawn
  <2> QED BY <2>3, <2>5, <2>6 DEF PanelSound, Impartial, Decided, CommitOver
<1> QED BY <1>3, <1>4, <1>5 DEF CaseInv, PanelsSound

\* The invariant is inductive.
LEMMA NextCase == Linked /\ CaseInv /\ [Next]_vars => CaseInv'
BY SalesPreserved, LinksPreserved, PanelsPreserved DEF CaseInv

\* In every reachable state, purchases, disputes and panels fit together.
THEOREM CaseHolds == Spec => [](Linked /\ CaseInv)
<1>1. Init => Linked /\ CaseInv BY InitLinked, InitCase
<1>2. Linked /\ CaseInv /\ [Next]_vars => (Linked /\ CaseInv)' BY NextLinked, NextCase
<1> QED BY <1>1, <1>2, PTL DEF Spec

---------------------------------------------------------------------------
(* What the invariant gives *)

\* The collateral buy reserves covers the case fee and the penalty, whatever the owner
\* does to the parameters afterwards.
THEOREM CollateralAlwaysCovers == Spec => []CollateralCoversCharge
<1>1. Linked /\ CaseInv => CollateralCoversCharge
  <2> SUFFICES ASSUME Linked, CaseInv, NEW i \in PurchaseId, Open(i)
               PROVE  LET p == purchases[i] IN
                      p.par.caseFee + PerBps(p.terms.price, p.par.penaltyBps) <= p.terms.collateral
    BY DEF CollateralCoversCharge
  <2> DEFINE p == purchases[i]
  <2>1. p.state # "None" BY DEF Open
  <2>2. p \in Purchase /\ WellMade(p) BY <2>1, OpenPurchase
  <2>3. p.terms.collateral >= requiredCollateral(p.terms.price, p.par)
    BY <2>1 DEF CaseInv, Sales, SaleSound
  <2>4. /\ p.terms.collateral \in Nat /\ p.par.caseFee \in Int
        /\ p.terms.price \in Int /\ p.par.penaltyBps \in Nat
    BY <2>1, <2>2, PurchaseNat
  <2> HIDE DEF p
  <2>5. PerBps(p.terms.price, p.par.penaltyBps) \in Int BY <2>4, PerBpsInt
  <2>6. p.par.caseFee + PerBps(p.terms.price, p.par.penaltyBps) <= p.terms.collateral
    BY <2>3, <2>4, <2>5 DEF requiredCollateral
  <2> QED BY <2>6 DEF p
<1> QED BY <1>1, CaseHolds, PTL

\* A purchase is in dispute exactly while a dispute about it is open, and the two
\* always name each other.
THEOREM DisputesAlwaysMatch == Spec => []DisputesMatchPurchases
<1>1. Linked /\ CaseInv => DisputesMatchPurchases
  <2> SUFFICES ASSUME Linked, CaseInv PROVE DisputesMatchPurchases OBVIOUS
  <2>1. Links /\ Sales BY DEF CaseInv
  <2>2. ASSUME NEW i \in PurchaseId, purchases[i].state = "Disputed"
        PROVE  \E d \in DisputeId : disputes[d].purchase = i /\ OpenDispute(d)
    BY <2>1, <2>2 DEF Links, InDispute
  <2>3. ASSUME NEW d \in DisputeId, OpenDispute(d)
        PROVE  purchases[disputes[d].purchase].state = "Disputed"
    BY <2>1, <2>3, OpenDisputed
  <2>4. ASSUME NEW d \in DisputeId, disputes[d].status # "None"
        PROVE  disputes[d].purchase \in PurchaseId /\ purchases[disputes[d].purchase].dispute = d
    BY <2>1, <2>4, DisputedPurchase DEF Links, CaseSound
  <2> QED BY <2>2, <2>3, <2>4 DEF DisputesMatchPurchases
<1> QED BY <1>1, CaseHolds, PTL

\* Every panel seats three jurors who are not parties, and no juror sits in both rounds.
THEOREM PanelsAlwaysImpartial == Spec => []PanelsImpartial
<1>1. CaseInv => PanelsImpartial
  BY DEF CaseInv, PanelsSound, PanelSound, Drawn, Impartial, PanelsImpartial
<1> QED BY <1>1, CaseHolds, PTL

\* A jury's verdict is that of at least two jurors; the fallback comes after two rounds
\* that decided nothing.
THEOREM VerdictsAreMajorities == Spec => []VerdictIsMajority
<1>1. CaseInv => VerdictIsMajority
  <2> SUFFICES ASSUME CaseInv, NEW d \in DisputeId, Jury(d, "Resolved")
               PROVE  IF disputes[d].fallbackNoQuorum
                      THEN /\ disputes[d].round = 2
                           /\ \A r \in Rounds : panelVerdict(seats[d][r]) = "None"
                      ELSE Cardinality(votersFor(panel(d), disputes[d].verdict)) >= 2
    BY DEF VerdictIsMajority
  <2> DEFINE dd == disputes[d]
             sd == seats[d]
  <2>1. JuryCase(dd) /\ dd.status = "Resolved" BY DEF Jury, JuryCase
  <2>2. Decided(dd, sd) BY DEF CaseInv, PanelsSound, PanelSound
  <2>3. panel(d) = sd[dd.round] /\ \A r \in Rounds : r = 1 \/ r = 2 BY DEF panel, Rounds
  <2> QED BY <2>1, <2>2, <2>3 DEF Decided
<1> QED BY <1>1, CaseHolds, PTL

---------------------------------------------------------------------------
(* What a step never does *)

\* Every step's effect on the seats of one round.
LEMMA SeatSteps ==
  ASSUME Linked, CaseInv, [Next]_vars, NEW d \in DisputeId, NEW r \in Rounds
  PROVE  \/ DOMAIN seats[d][r] = {}
         \/ SeatsAlike(seats[d][r], seats'[d][r])
         \/ /\ revealers(seats[d][r]) = {}
            /\ \E a \in JurorPool, v \in {"Uphold", "Reject"} : commitVote(d, a, v)
         \/ \A a \in DOMAIN seats[d][r] : seats'[d][r][a].commitment = seats[d][r][a].commitment
<1> DEFINE Goal ==
         \/ DOMAIN seats[d][r] = {}
         \/ SeatsAlike(seats[d][r], seats'[d][r])
         \/ /\ revealers(seats[d][r]) = {}
            /\ \E a \in JurorPool, v \in {"Uphold", "Reject"} : commitVote(d, a, v)
         \/ \A a \in DOMAIN seats[d][r] : seats'[d][r][a].commitment = seats[d][r][a].commitment
<1>0. Links /\ Sales /\ PanelSound(d) BY DEF CaseInv, PanelsSound
<1>1. ASSUME seats'[d][r] = seats[d][r] PROVE Goal BY <1>1 DEF SeatsAlike
<1>2. ASSUME Elsewhere PROVE Goal BY <1>1, <1>2 DEF Elsewhere
<1> HIDE DEF Goal
<1>3. ASSUME NEW c \in DisputeId,
             \/ \E u \in BOOLEAN, m \in SUBSET disputes[c].taskMask, s \in Signers :
                  resolveMechanical(c, u, m, s)
             \/ timeoutMechanical(c) \/ selectJurors(c) \/ tallyDispute(c)
             \/ \E a \in JurorPool : revealVote(c, a) \/ \E v \in {"Uphold", "Reject"} : commitVote(c, a, v)
      PROVE  Goal
  <2>1. CASE c # d BY <1>0, <1>1, <1>3, <2>1, OtherPanels
  <2>2. CASE c = d
    <3>1. ASSUME NEW u, NEW m, NEW s, resolveMechanical(d, u, m, s) \/ timeoutMechanical(d) PROVE Goal
      BY <1>1, <3>1 DEF resolveMechanical, timeoutMechanical
    <3>2. CASE selectJurors(d)
      <4>1. Jury(d, "AwaitingSelection") BY <3>2 DEF selectJurors, SelectionOpen
      <4>2. CASE rearmSelection(d) \/ panelUnfillable(d)
        BY <1>1, <4>2 DEF rearmSelection, panelUnfillable
      <4>3. ASSUME NEW chosen, seatPanel(d, chosen) PROVE Goal
        <5>1. OnlyPanel(d, disputes[d].round) BY <4>1, <4>3, DrawMoves
        <5>2. DOMAIN seats[d][disputes[d].round] = {}
          BY <1>0, <4>1 DEF PanelSound, Drawn, JuryCase, Jury
        <5>3. CASE r = disputes[d].round BY <5>2, <5>3 DEF Goal
        <5>4. CASE r # disputes[d].round BY <1>1, <5>1, <5>4 DEF OnlyPanel
        <5> QED BY <5>3, <5>4
      <4> QED BY <3>2, <4>2, <4>3 DEF selectJurors
    <3>3. CASE tallyDispute(d)
      <4>1. Jury(d, "Voting") BY <3>3 DEF tallyDispute, tallyDecided, tallyFailed, TallyReady
      <4>2. \E v, per, share : settleSeats(d, v, per, share)
        BY <3>3 DEF tallyDispute, tallyDecided, tallyFailed
      <4>3. PICK v, per, share : settleSeats(d, v, per, share) BY <4>2
      <4>4. SeatsAlike(seats[d][r], seats'[d][r]) BY <4>1, <4>3, SettleMoves, OnlyPanelAlike
      <4> QED BY <4>4 DEF Goal
    <3>4. ASSUME NEW a \in JurorPool, NEW v \in {"Uphold", "Reject"}, commitVote(d, a, v)
          PROVE  Goal
      <4>1. /\ Jury(d, "Voting") /\ OnlyPanel(d, disputes[d].round) BY <3>4, VoteMoves
      <4>2. CASE r # disputes[d].round BY <1>1, <4>1, <4>2 DEF OnlyPanel
      <4>3. CASE r = disputes[d].round
        <5>1. timestamp \in Nat /\ disputes[d].commitDeadline \in Nat
          BY DEF Linked, TypeAdmin, DisputeInv, TypeDisputes, Dispute
        <5>2. /\ timestamp <= disputes[d].commitDeadline /\ a \in DOMAIN seats[d][r]
              /\ seats[d][r][a].commitment = "None"
          BY <3>4, <4>3 DEF commitVote, panel
        <5>3. ~(timestamp > disputes[d].commitDeadline) BY <5>1, <5>2
        <5>4. revealers(seats[d][r]) = {}
          BY <1>0, <4>1, <4>3, <5>2, <5>3 DEF PanelSound, CommitOver, JuryCase, Jury
        <5> QED BY <3>4, <5>4 DEF Goal
      <4> QED BY <4>2, <4>3
    <3>5. ASSUME NEW a \in JurorPool, revealVote(d, a) PROVE Goal
      <4>1. /\ OnlyPanel(d, disputes[d].round)
            /\ \A b \in DOMAIN seats[d][disputes[d].round] :
                 seats'[d][disputes[d].round][b].commitment = seats[d][disputes[d].round][b].commitment
        <5>1. ~commitVote(d, a, "Uphold") BY <3>5 DEF commitVote, revealVote
        <5>2. /\ OnlyPanel(d, disputes[d].round)
              /\ \A b \in DOMAIN seats[d][disputes[d].round] :
                   b # a => seats'[d][disputes[d].round][b] = seats[d][disputes[d].round][b]
              /\ seats'[d][disputes[d].round][a].commitment = seats[d][disputes[d].round][a].commitment
          BY <3>5, <5>1, VoteMoves, "Uphold" \in {"Uphold", "Reject"}
        <5> QED BY <5>2
      <4>2. CASE r # disputes[d].round BY <1>1, <4>1, <4>2 DEF OnlyPanel
      <4>3. CASE r = disputes[d].round BY <4>1, <4>3 DEF Goal
      <4> QED BY <4>2, <4>3
    <3> QED BY <1>3, <2>2, <3>1, <3>2, <3>3, <3>4, <3>5
  <2> QED BY <2>1, <2>2
<1>4. ASSUME CaseCall PROVE Goal
  <2>1. ASSUME NEW a \in Buyers, NEW v \in VersionId, buy(a, v) PROVE Goal
    BY <1>1, <2>1, BuyMoves
  <2>2. ASSUME NEW i \in PurchaseId,
               \/ \E s \in Signers : recordDelivery(i, s)
               \/ refundUndelivered(i) \/ finalize(i) \/ \E n \in StarChoices : rate(i, n)
        PROVE  Goal
    BY <1>1, <2>2, SaleMoves
  <2>3. ASSUME NEW i \in PurchaseId, NEW g \in Grounds,
               NEW m \in SUBSET (1..purchases[i].terms.taskCount), openDispute(i, g, m)
        PROVE  Goal
    BY <1>1, <2>3, OpenMoves
  <2> QED BY <1>3, <1>4, <2>1, <2>2, <2>3 DEF CaseCall
<1>5. Goal BY <1>2, <1>4, CaseCalls
<1> QED BY <1>5 DEF Goal

\* Nobody commits, or changes a commitment, once a juror of the round has revealed.
THEOREM CommitmentsFixed == Spec => NoCommitAfterReveal
<1> DEFINE Fixed == \A d \in DisputeId : \A r \in Rounds :
       revealers(seats[d][r]) # {} =>
         \A a \in DOMAIN seats[d][r] : seats'[d][r][a].commitment = seats[d][r][a].commitment
<1>1. Linked /\ CaseInv /\ [Next]_vars => [Fixed]_vars
  <2> SUFFICES ASSUME Linked, CaseInv, [Next]_vars, NEW d \in DisputeId, NEW r \in Rounds,
                      revealers(seats[d][r]) # {}, NEW a \in DOMAIN seats[d][r]
               PROVE  seats'[d][r][a].commitment = seats[d][r][a].commitment
    OBVIOUS
  <2> QED BY SeatSteps DEF SeatsAlike
<1>2. Spec => [][Fixed]_vars BY <1>1, CaseHolds, PTL DEF Spec
<1> QED BY <1>2 DEF NoCommitAfterReveal

\* The grace deadline of a draw moves only with the round.
THEOREM GraceNeverExtended == Spec => GraceDeadlineFixed
<1> DEFINE Fixed == \A d \in DisputeId :
       disputes[d].status = "AwaitingSelection" /\ disputes'[d].round = disputes[d].round =>
         disputes'[d].selectionDeadline = disputes[d].selectionDeadline
<1>1. Linked /\ CaseInv /\ [Next]_vars => [Fixed]_vars
  <2> SUFFICES ASSUME Linked, CaseInv, [Next]_vars, NEW d \in DisputeId,
                      disputes[d].status = "AwaitingSelection",
                      disputes'[d].round = disputes[d].round
               PROVE  disputes'[d].selectionDeadline = disputes[d].selectionDeadline
    OBVIOUS
  <2> DEFINE Goal == disputes'[d].selectionDeadline = disputes[d].selectionDeadline
  <2>0. Links /\ Sales /\ OpenDispute(d) BY DEF CaseInv, OpenDispute
  <2>1. ASSUME disputes'[d] = disputes[d] PROVE Goal BY <2>1
  <2>2. ASSUME CaseStep(disputes[d], disputes'[d]) PROVE Goal BY <2>2 DEF CaseStep
  <2> HIDE DEF Goal
  <2>3. ASSUME NEW out \in Outcome, NEW extra, resolve(d, out, extra) PROVE Goal
    <3>1. disputes[d].status # "None" BY <2>0, OpenDisputed
    <3> QED BY <2>3, <3>1, ResolveMoves DEF Goal
  <2>4. ASSUME NEW c \in DisputeId,
               \/ \E u \in BOOLEAN, m \in SUBSET disputes[c].taskMask, s \in Signers :
                    resolveMechanical(c, u, m, s)
               \/ timeoutMechanical(c) \/ selectJurors(c) \/ tallyDispute(c)
               \/ \E a \in JurorPool : revealVote(c, a) \/ \E v \in {"Uphold", "Reject"} : commitVote(c, a, v)
        PROVE  Goal
    <3>1. CASE c # d BY <2>0, <2>1, <2>4, <3>1, OtherPanels
    <3>2. CASE c = d
      <4>1. purchases[disputes[d].purchase].refunded = 0 BY <2>0, OpenDisputed
      <4>2. \/ OnlyDispute(d) /\ CaseStep(disputes[d], disputes'[d])
            \/ UNCHANGED disputes
            \/ \E out \in Outcome : \E extra : resolve(d, out, extra)
        BY <2>4, <3>2, <4>1, DisputeSteps
      <4> QED BY <2>1, <2>2, <2>3, <4>2
    <3> QED BY <3>1, <3>2
  <2>5. ASSUME NEW i \in PurchaseId, NEW g \in Grounds,
               NEW m \in SUBSET (1..purchases[i].terms.taskCount), openDispute(i, g, m)
        PROVE  Goal
    <3>1. nextDisputeId \in DisputeId /\ OnlyDispute(nextDisputeId) BY <2>5, OpenMoves
    <3>2. nextDisputeId \in Nat BY <3>1, ConstantsOK DEF ConstantsOK, DisputeId
    <3>3. disputes[nextDisputeId].status = "None" BY <2>0, <3>1, <3>2 DEF Links, NoDispute
    <3>4. d # nextDisputeId BY <3>3
    <3> QED BY <2>1, <3>1, <3>4 DEF OnlyDispute
  <2>6. ASSUME CaseCall PROVE Goal
    <3>1. ASSUME NEW a \in Buyers, NEW v \in VersionId, buy(a, v) PROVE Goal
      BY <2>1, <3>1, BuyMoves
    <3>2. ASSUME NEW i \in PurchaseId,
                 \/ \E s \in Signers : recordDelivery(i, s)
                 \/ refundUndelivered(i) \/ finalize(i) \/ \E n \in StarChoices : rate(i, n)
          PROVE  Goal
      BY <2>1, <3>2, SaleMoves
    <3> QED BY <2>4, <2>5, <2>6, <3>1, <3>2 DEF CaseCall
  <2>7. ASSUME Elsewhere PROVE Goal BY <2>1, <2>7 DEF Elsewhere
  <2>8. Goal BY <2>6, <2>7, CaseCalls
  <2> QED BY <2>8 DEF Goal
<1>2. Spec => [][Fixed]_vars BY <1>1, CaseHolds, PTL DEF Spec
<1> QED BY <1>2 DEF GraceDeadlineFixed

---------------------------------------------------------------------------
(* Preview fees *)

\* What a step does to the previews.
LEMMA PreviewSteps ==
  ASSUME Linked, [Next]_vars
  PROVE  \/ previews' = previews
         \/ \E v \in VersionId, f \in PreviewFees : requestPreview(v, f)
         \/ \E v \in VersionId : \/ previews' = [previews EXCEPT ![v].reclaimed = TRUE]
                                 \/ previews' = [previews EXCEPT ![v].released = TRUE]
<1>1. CASE Selling
  <2>1. ASSUME NEW a, NEW l, NEW t, addVersion(a, l, t) PROVE previews' = previews
    BY <2>1 DEF addVersion
  <2>2. ASSUME NEW v, NEW b, setVersionActive(v, b) PROVE previews' = previews
    BY <2>2 DEF setVersionActive
  <2>3. ASSUME NEW a, NEW n, depositCollateral(a, n) \/ withdrawCollateral(a, n)
        PROVE  previews' = previews
    BY <2>3 DEF depositCollateral, withdrawCollateral
  <2>4. ASSUME NEW v \in VersionId, reclaimPreviewFee(v)
        PROVE  previews' = [previews EXCEPT ![v].reclaimed = TRUE]
    BY <2>4 DEF reclaimPreviewFee
  <2>5. ASSUME NEW v \in VersionId, NEW s, attachReport(v, s)
        PROVE  previews' = [previews EXCEPT ![v].released = TRUE]
    BY <2>5 DEF attachReport
  <2> QED BY <1>1, <2>1, <2>2, <2>3, <2>4, <2>5 DEF Selling, createListing, newVersion
<1>2. CASE NewBlock \/ Admin \/ Purchasing \/ Judging \/ UNCHANGED vars
  BY <1>2, BlockFrame, AdminFrame, PurchasingFrame, JudgingFrame DEF vars
<1> QED BY <1>1, <1>2 DEF Next

\* A step keeps fees dated, and lowers none.
LEMMA FeeSteps ==
  ASSUME Linked, FeesDated, [Next]_vars
  PROVE  FeesDated' /\ \A v \in VersionId : previews'[v].fee >= previews[v].fee
<1> DEFINE Good(p, q) == q.fee >= p.fee /\ (q.paidAt = 0 => q.fee = 0)
<1>0. /\ previews \in [VersionId -> Preview] /\ timestamp \in Nat /\ timestamp > 0
      /\ \A v \in VersionId : /\ previews[v] \in Preview
                              /\ previews[v].fee \in Nat /\ previews[v].paidAt \in Nat
                              /\ previews[v].paidAt = 0 => previews[v].fee = 0
  BY DEF Linked, CatalogInv, TypeCatalog, TypeAdmin, FeesDated, Preview
<1>1. timestamp' >= timestamp BY CaseCalls, <1>0
<1>2. timestamp' > 0
  <2>1. timestamp' \in Nat BY NextLinked DEF Linked, TypeAdmin
  <2> QED BY <1>0, <1>1, <2>1
<1>3. ASSUME NEW v \in VersionId PROVE Good(previews[v], previews[v]) BY <1>0
<1>4. ASSUME NEW v \in VersionId, NEW q, Good(previews[v], q), previews' = [previews EXCEPT ![v] = q]
      PROVE  \A w \in VersionId : Good(previews[w], previews'[w])
  <2> HIDE DEF Good
  <2> QED BY <1>0, <1>3, <1>4
<1>5. \A w \in VersionId : Good(previews[w], previews'[w])
  <2>1. CASE previews' = previews BY <1>3, <2>1
  <2>2. ASSUME NEW v \in VersionId, NEW f \in PreviewFees, requestPreview(v, f)
        PROVE  \A w \in VersionId : Good(previews[w], previews'[w])
    <3> DEFINE p == previews[v]
               q == [p EXCEPT !.fee = f, !.paidAt = timestamp, !.timeout = previewConfig.timeout,
                              !.reclaimed = FALSE]
    <3>1. /\ previews' = [previews EXCEPT ![v] = q] /\ f >= minPreviewFee(v) /\ ~outstanding(v)
      BY <2>2 DEF requestPreview
    <3>2. f \in Nat /\ previewConfig.minFee \in Nat BY CatalogConstants DEF Linked, TypeAdmin
    <3>3. q.fee = f /\ q.paidAt = timestamp BY <1>0 DEF Preview
    <3>4. f >= p.fee
      <4>1. CASE p.paidAt = 0 BY <1>0, <3>2, <4>1
      <4>2. CASE p.paidAt # 0
        <5>1. p.reclaimed BY <3>1, <4>2 DEF outstanding
        <5>2. minPreviewFee(v) = IF p.fee > previewConfig.minFee THEN p.fee ELSE previewConfig.minFee
          BY <5>1 DEF minPreviewFee
        <5> QED BY <1>0, <3>1, <3>2, <5>2
      <4> QED BY <4>1, <4>2
    <3> HIDE DEF q
    <3>5. Good(p, q) BY <1>0, <3>3, <3>4
    <3> HIDE DEF Good
    <3> QED BY <1>4, <3>1, <3>5
  <2>3. ASSUME NEW v \in VersionId, previews' = [previews EXCEPT ![v].reclaimed = TRUE]
        PROVE  \A w \in VersionId : Good(previews[w], previews'[w])
    <3> DEFINE q == [previews[v] EXCEPT !.reclaimed = TRUE]
    <3>1. previews' = [previews EXCEPT ![v] = q] BY <2>3
    <3>2. q.fee = previews[v].fee /\ q.paidAt = previews[v].paidAt BY <1>0 DEF Preview
    <3> HIDE DEF q
    <3>3. Good(previews[v], q) BY <1>0, <3>2
    <3> HIDE DEF Good
    <3> QED BY <1>4, <3>1, <3>3
  <2>4. ASSUME NEW v \in VersionId, previews' = [previews EXCEPT ![v].released = TRUE]
        PROVE  \A w \in VersionId : Good(previews[w], previews'[w])
    <3> DEFINE q == [previews[v] EXCEPT !.released = TRUE]
    <3>1. previews' = [previews EXCEPT ![v] = q] BY <2>4
    <3>2. q.fee = previews[v].fee /\ q.paidAt = previews[v].paidAt BY <1>0 DEF Preview
    <3> HIDE DEF q
    <3>3. Good(previews[v], q) BY <1>0, <3>2
    <3> HIDE DEF Good
    <3> QED BY <1>4, <3>1, <3>3
  <2> HIDE DEF Good
  <2> QED BY <2>1, <2>2, <2>3, <2>4, PreviewSteps
<1> QED BY <1>2, <1>5 DEF FeesDated

\* A seller who reclaims a preview fee and asks again never pays less.
THEOREM FeesNeverDrop == Spec => PreviewFeeNeverDrops
<1> DEFINE Rises == \A v \in VersionId : previews'[v].fee >= previews[v].fee
<1>1. Init => FeesDated
  BY ConstantsOK DEF ConstantsOK, Init, InitChain, InitCatalog, NoPreview, FeesDated
<1>2. Linked /\ FeesDated /\ [Next]_vars => FeesDated' /\ [Rises]_vars BY FeeSteps
<1> HIDE DEF Rises
<1>3. Spec => [][Rises]_vars BY <1>1, <1>2, LinkedHolds, PTL DEF Spec
<1> QED BY <1>3 DEF PreviewFeeNeverDrops, Rises

---------------------------------------------------------------------------
(* The contract implements PurchaseLifecycle *)

\* The life of a purchase is one of PurchaseLifecycle; rating it is none of its steps.
LEMMA DealSteps ==
  ASSUME NEW p \in Purchase, WellMade(p), SaleSound(p), NEW q, SaleStep(p, q)
  PROVE  LET d == dealOf(p)
             e == dealOf(q)
         IN \/ e = d
            \/ Lifecycle!Fund(d, e) \/ Lifecycle!Deliver(d, e) \/ Lifecycle!Contest(d, e)
            \/ Lifecycle!RefundInFull(d, e) \/ Lifecycle!Accept(d, e) \/ Lifecycle!Judge(d, e)
<1> DEFINE d == dealOf(p)
           e == dealOf(q)
<1>1. /\ d.stage = p.state /\ d.price = p.terms.price /\ d.cap = refundCap(p)
      /\ d.refund = p.refunded /\ d.fee = p.fee /\ d.proceeds = p.sellerProceeds
      /\ e.stage = q.state /\ e.price = q.terms.price /\ e.cap = refundCap(q)
      /\ e.refund = q.refunded /\ e.fee = q.fee /\ e.proceeds = q.sellerProceeds
  BY DEF dealOf
<1>2. ASSUME Kept(p, q) PROVE e.price = d.price /\ e.cap = d.cap
  BY <1>1, <1>2 DEF Kept, refundCap
<1>3. ASSUME PaysNothing(p, q) PROVE Lifecycle!PaysNothing(d, e)
  BY <1>1, <1>3 DEF PaysNothing, Lifecycle!PaysNothing
<1>4. CASE BuyStep(p, q)
  <2>1. d = Lifecycle!NoDeal
    <3>1. refundCap(NoPurchase) = 0
      BY DEF NoPurchase, NoTerms, NoParams, refundCap, PerBps, BPS
    <3> QED BY <1>4, <3>1 DEF BuyStep, dealOf, NoPurchase, NoTerms, Lifecycle!NoDeal
  <2>2. q.state = "Funded" /\ q \in Purchase /\ WellMade(q) /\ q.state # "None"
    BY <1>4 DEF BuyStep, Bought
  <2>3. refundCap(q) \in 0..q.terms.price /\ q.terms.price \in Nat
    BY <2>2, RefundCapBounded, PurchaseNat
  <2>4. PaysNothing(p, q) BY <1>4 DEF BuyStep, Bought, PaysNothing, NoPurchase
  <2> HIDE DEF d, e
  <2>5. e.stage = "Funded" /\ e.price >= 0 /\ e.cap \in 0..e.price BY <1>1, <2>2, <2>3
  <2>6. Lifecycle!Fund(d, e) BY <1>3, <2>1, <2>4, <2>5 DEF Lifecycle!Fund
  <2> QED BY <2>6 DEF d, e
<1>5. CASE DeliverStep(p, q)
  <2> HIDE DEF d, e
  <2>1. Lifecycle!Deliver(d, e)
    BY <1>1, <1>2, <1>3, <1>5 DEF DeliverStep, Lifecycle!Deliver, Lifecycle!Moves
  <2> QED BY <2>1 DEF d, e
<1>6. CASE DisputeStep(p, q)
  <2> HIDE DEF d, e
  <2>1. Lifecycle!Contest(d, e)
    BY <1>1, <1>2, <1>3, <1>6 DEF DisputeStep, Lifecycle!Contest, Lifecycle!Moves
  <2> QED BY <2>1 DEF d, e
<1>7. CASE RateStep(p, q)
  <2>1. e = d BY <1>7 DEF RateStep, Kept, PaysNothing, dealOf, refundCap
  <2> QED BY <2>1
<1>8. CASE RefundStep(p, q)
  <2>1. p.terms.price \in Nat /\ p.fee = 0 /\ p.sellerProceeds = 0
    BY <1>8, PurchaseNat DEF RefundStep, SaleSound
  <2> HIDE DEF d, e
  <2>2. /\ e.refund = e.price /\ e.fee = 0 /\ e.proceeds = 0 /\ e.price \in Nat
        /\ Lifecycle!Moves(d, e, "Funded", "Refunded")
    BY <1>1, <1>2, <1>8, <2>1 DEF RefundStep, Lifecycle!Moves
  <2>3. Lifecycle!RefundInFull(d, e)
    BY <2>2 DEF Lifecycle!RefundInFull, Lifecycle!SplitExactly
  <2> QED BY <2>3 DEF d, e
<1>9. ASSUME NEW refund \in 0..p.terms.price, p.state # "None", p.refunded = 0, Kept(p, q),
             Closes(p, q, refund)
      PROVE  e.stage = "Settled" /\ Lifecycle!SplitExactly(e) /\ e.refund = refund
  <2>1. /\ closeFee(p, refund) >= 0 /\ closeProceeds(p, refund) >= 0 /\ p.terms.price \in Nat
        /\ refund + closeFee(p, refund) + closeProceeds(p, refund) = p.terms.price
    BY <1>9, CloseBounded, PurchaseNat
  <2> HIDE DEF d, e
  <2>2. /\ e.refund = refund /\ e.fee = closeFee(p, refund)
        /\ e.proceeds = closeProceeds(p, refund) /\ e.price = p.terms.price
        /\ e.stage = "Settled"
    BY <1>1, <1>2, <1>9 DEF Closes
  <2> QED BY <2>1, <2>2 DEF Lifecycle!SplitExactly
<1>10. CASE CloseStep(p, q)
  <2>1. /\ p.terms.price \in Nat /\ p.refunded = 0 /\ p.state = "Delivered" /\ Kept(p, q)
        /\ Closes(p, q, 0)
    BY <1>10, PurchaseNat DEF CloseStep, SaleSound
  <2> HIDE DEF d, e
  <2>2. e.stage = "Settled" /\ Lifecycle!SplitExactly(e) /\ e.refund = 0
    BY <1>9, <2>1, 0 \in 0..p.terms.price
  <2>3. Lifecycle!Accept(d, e) BY <1>1, <1>2, <2>1, <2>2 DEF Lifecycle!Accept, Lifecycle!Moves
  <2> QED BY <2>3 DEF d, e
<1>11. CASE JudgeStep(p, q)
  <2>1. p.terms.price \in Nat /\ p.refunded = 0 /\ p.state = "Disputed" /\ Kept(p, q)
    BY <1>11, PurchaseNat DEF JudgeStep, SaleSound
  <2>2. PICK refund \in 0..refundCap(p) : Closes(p, q, refund) BY <1>11 DEF JudgeStep
  <2>3. refundCap(p) \in 0..p.terms.price BY <2>1, RefundCapBounded
  <2>4. refund \in 0..p.terms.price /\ refund <= refundCap(p) BY <2>1, <2>3
  <2> HIDE DEF d, e
  <2>5. e.stage = "Settled" /\ Lifecycle!SplitExactly(e) /\ e.refund = refund
    BY <1>9, <2>1, <2>2, <2>4
  <2>6. Lifecycle!Judge(d, e)
    BY <1>1, <1>2, <2>1, <2>4, <2>5 DEF Lifecycle!Judge, Lifecycle!Moves
  <2> QED BY <2>6 DEF d, e
<1> QED BY <1>4, <1>5, <1>6, <1>7, <1>8, <1>10, <1>11 DEF SaleStep

\* The contract's behaviours, seen as deals, are PurchaseLifecycle's: deadlines, panels,
\* parameter changes and retries never change what a purchase can pay out.
THEOREM ContractImplementsLifecycle == Spec => ImplementsLifecycle
<1>1. Init => Lifecycle!Init
  <2> SUFFICES ASSUME Init PROVE Lifecycle!Init OBVIOUS
  <2>1. refundCap(NoPurchase) = 0
    BY DEF NoPurchase, NoTerms, NoParams, refundCap, PerBps, BPS
  <2>2. dealOf(NoPurchase) = Lifecycle!NoDeal
    BY <2>1 DEF dealOf, NoPurchase, NoTerms, Lifecycle!NoDeal
  <2>3. \A i \in PurchaseId : purchases[i] = NoPurchase BY DEF Init, InitPurchases
  <2> QED BY <2>2, <2>3 DEF Lifecycle!Init, deals
<1>2. Linked /\ CaseInv /\ [Next]_vars => [Lifecycle!Next]_deals
  <2> SUFFICES ASSUME Linked, CaseInv, [Next]_vars PROVE [Lifecycle!Next]_deals OBVIOUS
  <2>1. Sales /\ Links BY DEF CaseInv
  <2>2. CASE UNCHANGED purchases BY <2>2 DEF deals
  <2>3. ASSUME NEW i \in PurchaseId, OnlyPurchase(i), SaleStep(purchases[i], purchases'[i])
        PROVE  Lifecycle!Next \/ deals' = deals
    <3> DEFINE d == dealOf(purchases[i])
               e == dealOf(purchases'[i])
    <3>1. \/ e = d
          \/ Lifecycle!Fund(d, e) \/ Lifecycle!Deliver(d, e) \/ Lifecycle!Contest(d, e)
          \/ Lifecycle!RefundInFull(d, e) \/ Lifecycle!Accept(d, e) \/ Lifecycle!Judge(d, e)
      BY <2>1, <2>3, DealSteps DEF Sales, Linked, PurchaseInv, TypePurchases
    <3>2. deals[i] = d /\ deals' = [deals EXCEPT ![i] = e] /\ deals'[i] = e
      BY <2>3 DEF OnlyPurchase, deals
    <3>3. CASE e = d BY <3>2, <3>3 DEF deals
    <3>4. CASE e # d
      <4>1. Lifecycle!Step(i) BY <3>1, <3>2, <3>4 DEF Lifecycle!Step
      <4> QED BY <4>1 DEF Lifecycle!Next
    <3> QED BY <3>3, <3>4
  <2> QED BY <2>1, <2>2, <2>3, PurchaseSteps
<1>3. Spec => Lifecycle!Init /\ [][Lifecycle!Next]_deals
  BY <1>1, <1>2, CaseHolds, PTL DEF Spec
<1> QED BY <1>3 DEF ImplementsLifecycle, Lifecycle!Spec

---------------------------------------------------------------------------
(* The contract as the preview runner takes it *)

\* A version is listed without a report, and a fee is reclaimed once the deadline it was
\* paid with has passed.
RequestsSound ==
  /\ timestamp > 0
  /\ \A v \in VersionId :
       /\ v >= nextVersionId => versions[v].seller = NoAccount /\ ~versions[v].report
       /\ previews[v].reclaimed => timestamp > previews[v].paidAt + previews[v].timeout

\* What a step makes of the preview and the report of one version, the clock included.
RequestIdle(v) ==
  previews'[v] = previews[v] /\ versions'[v].report = versions[v].report /\ timestamp' >= timestamp
RequestPaid(v) ==
  /\ ~outstanding(v) /\ ~versions[v].report /\ ~versions'[v].report
  /\ previews'[v].paidAt = timestamp /\ ~previews'[v].reclaimed /\ timestamp' = timestamp
FeeReclaimed(v) ==
  /\ outstanding(v) /\ ~versions[v].report /\ ~versions'[v].report
  /\ timestamp > previews[v].paidAt + previews[v].timeout
  /\ previews'[v] = [previews[v] EXCEPT !.reclaimed = TRUE] /\ timestamp' = timestamp
ReportAttached(v) ==
  /\ outstanding(v) /\ ~versions[v].report /\ versions'[v].report
  /\ previews'[v] = [previews[v] EXCEPT !.released = TRUE] /\ timestamp' = timestamp
RequestStep(v) == RequestIdle(v) \/ RequestPaid(v) \/ FeeReclaimed(v) \/ ReportAttached(v)

\* A step pays, reclaims or reports on one version, lists one, or leaves them as they are.
LEMMA RequestSteps ==
  ASSUME Linked, RequestsSound, [Next]_vars
  PROVE  /\ \A v \in VersionId : RequestStep(v)
         /\ \A v \in VersionId : v >= nextVersionId' =>
              versions'[v].seller = NoAccount /\ ~versions'[v].report
<1> DEFINE Rest == \A v \in VersionId : v >= nextVersionId' =>
                     versions'[v].seller = NoAccount /\ ~versions'[v].report
<1>0. /\ previews \in [VersionId -> Preview] /\ versions \in [VersionId -> Version]
      /\ timestamp \in Nat /\ nextVersionId \in Nat
      /\ \A v \in VersionId : /\ v \in Nat /\ previews[v] \in Preview /\ versions[v] \in Version
                              /\ v >= nextVersionId => versions[v].seller = NoAccount /\ ~versions[v].report
  BY DEF Linked, CatalogInv, TypeCatalog, TypeAdmin, RequestsSound, VersionId
<1>1. ASSUME previews' = previews, nextVersionId' = nextVersionId, versions' = versions,
             timestamp' >= timestamp
      PROVE  (\A v \in VersionId : RequestStep(v)) /\ Rest
  BY <1>0, <1>1 DEF RequestStep, RequestIdle
<1>2. CASE ~Selling
  <2>1. UNCHANGED <<catalog, previews>>
    BY <1>2, BlockFrame, AdminFrame, PurchasingFrame, JudgingFrame DEF Next, vars
  <2>2. timestamp' >= timestamp BY <1>0, CaseCalls
  <2> QED BY <1>1, <2>1, <2>2 DEF catalog
<1>3. CASE Selling
  <2>0. timestamp' = timestamp BY <1>3, SellingFrame DEF chain
  <2>1. ASSUME NEW a, NEW l, NEW t, addVersion(a, l, t)
        PROVE  (\A v \in VersionId : RequestStep(v)) /\ Rest
    <3> DEFINE new == [seller |-> a, listing |-> l, terms |-> effectiveTerms(t),
                       report |-> FALSE, active |-> TRUE]
    <3>1. /\ nextVersionId \in VersionId /\ nextVersionId' = nextVersionId + 1 /\ previews' = previews
          /\ versions' = [versions EXCEPT ![nextVersionId] = new]
      BY <2>1 DEF addVersion
    <3>2. new.report = FALSE OBVIOUS
    <3>3. versions[nextVersionId].report = FALSE BY <1>0, <3>1 DEF Version
    <3> HIDE DEF new
    <3>5. \A v \in VersionId : versions'[v].report = versions[v].report BY <1>0, <3>1, <3>2, <3>3
    <3>4. Rest
      <4> SUFFICES ASSUME NEW v \in VersionId, v >= nextVersionId'
                   PROVE  versions'[v].seller = NoAccount /\ ~versions'[v].report
        OBVIOUS
      <4>1. v # nextVersionId /\ v >= nextVersionId BY <1>0, <3>1
      <4> QED BY <1>0, <3>1, <4>1
    <3> QED BY <1>0, <2>0, <3>1, <3>4, <3>5 DEF RequestStep, RequestIdle
  <2>2. ASSUME NEW w \in VersionId, NEW b \in BOOLEAN, setVersionActive(w, b)
        PROVE  (\A v \in VersionId : RequestStep(v)) /\ Rest
    <3> DEFINE new == [versions[w] EXCEPT !.active = b]
    <3>1. /\ versions' = [versions EXCEPT ![w] = new] /\ nextVersionId' = nextVersionId
          /\ previews' = previews
      BY <2>2 DEF setVersionActive
    <3>2. new.report = versions[w].report /\ new.seller = versions[w].seller BY <1>0 DEF Version
    <3> HIDE DEF new
    <3>3. \A v \in VersionId : /\ versions'[v].report = versions[v].report
                               /\ versions'[v].seller = versions[v].seller
      BY <1>0, <3>1, <3>2
    <3> QED BY <1>0, <2>0, <3>1, <3>3 DEF RequestStep, RequestIdle
  <2>3. ASSUME NEW a, NEW n, depositCollateral(a, n) \/ withdrawCollateral(a, n)
        PROVE  (\A v \in VersionId : RequestStep(v)) /\ Rest
    BY <1>0, <1>1, <2>0, <2>3 DEF depositCollateral, withdrawCollateral, catalog
  <2>4. ASSUME NEW w \in VersionId, NEW f, requestPreview(w, f)
        PROVE  (\A v \in VersionId : RequestStep(v)) /\ Rest
    <3> DEFINE q == [previews[w] EXCEPT !.fee = f, !.paidAt = timestamp,
                       !.timeout = previewConfig.timeout, !.reclaimed = FALSE]
    <3>1. /\ previews' = [previews EXCEPT ![w] = q] /\ UNCHANGED <<versions, nextVersionId>>
          /\ ~outstanding(w) /\ ~versions[w].report
      BY <2>4 DEF requestPreview, catalog
    <3>2. q.paidAt = timestamp /\ ~q.reclaimed BY <1>0 DEF Preview
    <3> HIDE DEF q
    <3>3. RequestPaid(w) BY <1>0, <2>0, <3>1, <3>2 DEF RequestPaid
    <3>4. \A v \in VersionId \ {w} : RequestIdle(v) BY <1>0, <2>0, <3>1 DEF RequestIdle
    <3> QED BY <1>0, <3>1, <3>3, <3>4 DEF RequestStep
  <2>5. ASSUME NEW w \in VersionId, reclaimPreviewFee(w)
        PROVE  (\A v \in VersionId : RequestStep(v)) /\ Rest
    <3> DEFINE q == [previews[w] EXCEPT !.reclaimed = TRUE]
    <3>1. /\ previews' = [previews EXCEPT ![w] = q] /\ UNCHANGED <<versions, nextVersionId>>
          /\ outstanding(w) /\ ~versions[w].report
          /\ timestamp > previews[w].paidAt + previews[w].timeout
      BY <2>5 DEF reclaimPreviewFee, catalog
    <3>2. previews'[w] = q BY <1>0, <3>1
    <3>3. FeeReclaimed(w) BY <1>0, <2>0, <3>1, <3>2 DEF FeeReclaimed
    <3>4. \A v \in VersionId \ {w} : RequestIdle(v) BY <1>0, <2>0, <3>1 DEF RequestIdle
    <3> QED BY <1>0, <3>1, <3>3, <3>4 DEF RequestStep
  <2>6. ASSUME NEW w \in VersionId, NEW s, attachReport(w, s)
        PROVE  (\A v \in VersionId : RequestStep(v)) /\ Rest
    <3> DEFINE q == [previews[w] EXCEPT !.released = TRUE]
               new == [versions[w] EXCEPT !.report = TRUE]
    <3>1. /\ previews' = [previews EXCEPT ![w] = q] /\ versions' = [versions EXCEPT ![w] = new]
          /\ nextVersionId' = nextVersionId
          /\ versions[w].seller # NoAccount /\ outstanding(w) /\ ~versions[w].report
      BY <2>6 DEF attachReport
    <3>2. new.report BY <1>0 DEF Version
    <3> HIDE DEF new
    <3>3. previews'[w] = q /\ versions'[w].report BY <1>0, <3>1, <3>2
    <3>4. ReportAttached(w) BY <1>0, <2>0, <3>1, <3>3 DEF ReportAttached
    <3>5. \A v \in VersionId \ {w} : RequestIdle(v) BY <1>0, <2>0, <3>1 DEF RequestIdle
    <3> QED BY <1>0, <3>1, <3>4, <3>5 DEF RequestStep
  <2> QED
    BY <1>3, <2>1, <2>2, <2>3, <2>4, <2>5, <2>6, ConstantsOK
    DEF Selling, createListing, newVersion, ConstantsOK
<1> QED BY <1>2, <1>3

\* Requests stay sound: time only goes on.
LEMMA RequestsPreserved == ASSUME Linked, RequestsSound, [Next]_vars PROVE RequestsSound'
<1>0. /\ timestamp \in Nat /\ timestamp' \in Nat /\ timestamp > 0
      /\ \A v \in VersionId :
           /\ previews[v] \in Preview /\ previews[v].paidAt \in Nat /\ previews[v].timeout \in Nat
           /\ previews[v].reclaimed => timestamp > previews[v].paidAt + previews[v].timeout
  <2>1. timestamp' \in Nat BY NextLinked DEF Linked, TypeAdmin
  <2> QED BY <2>1 DEF Linked, CatalogInv, TypeCatalog, TypeAdmin, RequestsSound, Preview
<1>1. timestamp' > 0
  <2>1. timestamp' >= timestamp BY CaseCalls, <1>0
  <2> QED BY <1>0, <2>1
<1>2. ASSUME NEW v \in VersionId, previews'[v].reclaimed
      PROVE  timestamp' > previews'[v].paidAt + previews'[v].timeout
  <2>1. RequestStep(v) BY RequestSteps
  <2>2. CASE RequestIdle(v) BY <1>0, <1>2, <2>2 DEF RequestIdle
  <2>3. CASE RequestPaid(v) BY <1>2, <2>3 DEF RequestPaid
  <2>4. CASE FeeReclaimed(v) BY <1>0, <2>4 DEF FeeReclaimed, Preview
  <2>5. CASE ReportAttached(v)
    <3>1. previews[v].reclaimed BY <1>0, <1>2, <2>5 DEF ReportAttached, Preview
    <3> QED BY <2>5, <3>1 DEF ReportAttached, outstanding
  <2> QED BY <2>1, <2>2, <2>3, <2>4, <2>5 DEF RequestStep
<1> QED BY <1>1, <1>2, RequestSteps DEF RequestsSound

\* What the runner sees of a request made on another's quote.
Seen(s, c) == [state |-> s, quote |-> "foreign", inTime |-> TRUE, clock |-> c]

LEMMA SeenMoves ==
  ASSUME NEW s, NEW c
  PROVE  /\ Seen(s, c).state = s /\ Seen(s, c).quote = "foreign" /\ Seen(s, c).clock = c
         /\ \A t : [Seen(s, c) EXCEPT !.state = t] = Seen(t, c)
         /\ \A d : [Seen(s, c) EXCEPT !.clock = d] = Seen(s, d)
<1>1. Seen(s, c).state = s /\ Seen(s, c).quote = "foreign" /\ Seen(s, c).clock = c BY DEF Seen
<1>2. ASSUME NEW t PROVE [Seen(s, c) EXCEPT !.state = t] = Seen(t, c)
  <2>1. ASSUME NEW q, NEW i
        PROVE  [[state |-> s, quote |-> q, inTime |-> i, clock |-> c] EXCEPT !.state = t]
               = [state |-> t, quote |-> q, inTime |-> i, clock |-> c]
    OBVIOUS
  <2> QED BY <2>1 DEF Seen
<1>3. ASSUME NEW d PROVE [Seen(s, c) EXCEPT !.clock = d] = Seen(s, d)
  <2>1. ASSUME NEW q, NEW i
        PROVE  [[state |-> s, quote |-> q, inTime |-> i, clock |-> c] EXCEPT !.clock = d]
               = [state |-> s, quote |-> q, inTime |-> i, clock |-> d]
    OBVIOUS
  <2> QED BY <2>1 DEF Seen
<1> QED BY <1>1, <1>2, <1>3

\* A step seen by the runner is one of PreviewChain's others, or nothing it sees.
LEMMA RunnerSteps ==
  ASSUME Linked, RequestsSound, [Next]_vars
  PROVE  [Runner!OthersAct]_<<previewRequest, previewReport>>
<1> DEFINE w == WatchedVersion
           p == previews[w]
           q == previews'[w]
           lapsed == timestamp > p.paidAt + p.timeout
           lapsedNext == timestamp' > q.paidAt + q.timeout
           clk == IF p.paidAt # 0 /\ lapsed THEN "late" ELSE "early"
           clkNext == IF q.paidAt # 0 /\ lapsedNext THEN "late" ELSE "early"
           req == [v \in {w} |-> previewRequest]
           att == [v \in {w} |-> previewReport]
<1>0. /\ w \in VersionId /\ p \in Preview /\ p.paidAt \in Nat /\ p.timeout \in Nat
      /\ timestamp \in Nat /\ timestamp' \in Nat /\ timestamp > 0
      /\ p.reclaimed => lapsed
      /\ versions[w].report \in BOOLEAN /\ versions'[w].report \in BOOLEAN
  <2>1. Linked' BY NextLinked
  <2> QED BY <2>1, WatchedOK DEF Linked, CatalogInv, TypeCatalog, TypeAdmin, RequestsSound, Preview, Version
<1>1. RequestStep(w) BY <1>0, RequestSteps
<1>2. /\ previewRequest = Seen(previewState, clk) /\ previewRequest' = Seen(previewState', clkNext)
      /\ clk = IF p.paidAt # 0 /\ lapsed THEN "late" ELSE "early"
      /\ clkNext = IF q.paidAt # 0 /\ lapsedNext THEN "late" ELSE "early"
  BY DEF previewRequest, Seen
<1>3. /\ previewState = IF p.paidAt = 0 THEN "none" ELSE IF p.reclaimed THEN "reclaimed" ELSE "paid"
      /\ previewState' = IF q.paidAt = 0 THEN "none" ELSE IF q.reclaimed THEN "reclaimed" ELSE "paid"
      /\ previewReport = IF versions[w].report THEN -1 ELSE 0
      /\ previewReport' = IF versions'[w].report THEN -1 ELSE 0
  BY DEF previewState, previewReport
<1>4. /\ req[w] = previewRequest /\ att[w] = previewReport
      /\ [v \in {w} |-> previewRequest'] = [req EXCEPT ![w] = previewRequest']
      /\ [v \in {w} |-> previewReport'] = [att EXCEPT ![w] = previewReport']
  OBVIOUS
<1>5. CASE RequestIdle(w)
  <2>1. /\ previewReport' = previewReport /\ previewState' = previewState
        /\ q = p /\ timestamp' >= timestamp
    BY <1>3, <1>5 DEF RequestIdle
  <2>2. CASE clkNext = clk BY <1>2, <2>1, <2>2
  <2>3. CASE clkNext # clk
    <3>1. lapsed => lapsedNext BY <1>0, <2>1
    <3> HIDE DEF lapsed, lapsedNext
    <3>2. p.paidAt # 0 /\ ~lapsed /\ clk = "early" /\ clkNext = "late"
      BY <1>2, <2>1, <2>3, <3>1
    <3>3. previewState = "paid" BY <1>0, <1>3, <3>2
    <3> HIDE DEF clk, clkNext
    <3>4. previewRequest' = [previewRequest EXCEPT !.clock = "late"]
      BY <1>2, <2>1, <3>2, SeenMoves
    <3>5. previewRequest.state = "paid" /\ previewRequest.clock = "early"
      BY <1>2, <3>2, <3>3, SeenMoves
    <3>6. Runner!TimePasses(w)
      BY <1>4, <2>1, <3>4, <3>5 DEF Runner!TimePasses, Runner!Later
    <3> QED BY <3>6 DEF Runner!OthersAct
  <2> QED BY <2>2, <2>3
<1>6. CASE RequestPaid(w)
  <2>1. /\ ~outstanding(w) /\ ~versions[w].report /\ ~versions'[w].report
        /\ q.paidAt = timestamp /\ ~q.reclaimed /\ timestamp' = timestamp
    BY <1>6 DEF RequestPaid
  <2>2. previewState # "paid" BY <1>3, <2>1 DEF outstanding
  <2>3. previewState' = "paid" /\ previewReport = 0 /\ previewReport' = 0 BY <1>0, <1>3, <2>1
  <2>4. q.timeout \in Nat
    <3>1. Linked' BY NextLinked
    <3> QED BY <1>0, <3>1 DEF Linked, CatalogInv, TypeCatalog, Preview
  <2>5. ~lapsedNext BY <1>0, <2>1, <2>4
  <2> HIDE DEF lapsed, lapsedNext
  <2>6. clkNext = "early" BY <1>2, <2>5
  <2> HIDE DEF clk, clkNext
  <2>7. previewRequest.state # "paid" /\ previewRequest' = Seen("paid", "early")
    BY <1>2, <2>2, <2>3, <2>6, SeenMoves
  <2>8. Runner!requestElsewhere(w)
    BY <1>4, <2>3, <2>7
    DEF Runner!requestElsewhere, Runner!requestPreview, Runner!NoReport, Seen
  <2> QED BY <2>8 DEF Runner!OthersAct
<1>7. CASE FeeReclaimed(w)
  <2>1. /\ outstanding(w) /\ ~versions[w].report /\ ~versions'[w].report /\ lapsed
        /\ q.paidAt = p.paidAt /\ q.timeout = p.timeout /\ q.reclaimed /\ timestamp' = timestamp
    BY <1>0, <1>7 DEF FeeReclaimed, Preview
  <2>2. p.paidAt # 0 /\ ~p.reclaimed BY <2>1 DEF outstanding
  <2>3. /\ previewState = "paid" /\ previewState' = "reclaimed"
        /\ previewReport = 0 /\ previewReport' = 0
    BY <1>3, <2>1, <2>2
  <2>4. lapsedNext BY <2>1
  <2> HIDE DEF lapsed, lapsedNext
  <2>5. clk = "late" /\ clkNext = "late" BY <1>2, <2>1, <2>2, <2>4
  <2> HIDE DEF clk, clkNext
  <2>6. /\ previewRequest.state = "paid" /\ previewRequest.clock = "late"
        /\ previewRequest' = [previewRequest EXCEPT !.state = "reclaimed"]
    BY <1>2, <2>3, <2>5, SeenMoves
  <2>7. Runner!reclaimPreviewFee(w)
    BY <1>4, <2>3, <2>6
    DEF Runner!reclaimPreviewFee, Runner!Outstanding, Runner!NoReport
  <2> QED BY <2>7 DEF Runner!OthersAct
<1>8. CASE ReportAttached(w)
  <2>1. /\ outstanding(w) /\ ~versions[w].report /\ versions'[w].report
        /\ q.paidAt = p.paidAt /\ q.timeout = p.timeout /\ q.reclaimed = p.reclaimed
        /\ timestamp' = timestamp
    BY <1>0, <1>8 DEF ReportAttached, Preview
  <2>2. p.paidAt # 0 /\ ~p.reclaimed BY <2>1 DEF outstanding
  <2>3. /\ previewState = "paid" /\ previewState' = "paid"
        /\ previewReport = 0 /\ previewReport' = -1
    BY <1>3, <2>1, <2>2
  <2>4. clkNext = clk BY <1>2, <2>1
  <2> HIDE DEF clk, clkNext
  <2>5. previewRequest' = previewRequest /\ previewRequest.state = "paid"
        /\ previewRequest.quote = "foreign"
    BY <1>2, <2>3, <2>4, SeenMoves
  <2>6. Runner!otherAttaches(w)
    BY <1>4, <2>3, <2>5
    DEF Runner!otherAttaches, Runner!attachReport, Runner!Outstanding, Runner!NoReport, Runner!OtherReport
  <2> QED BY <2>6 DEF Runner!OthersAct
<1> QED BY <1>1, <1>5, <1>6, <1>7, <1>8 DEF RequestStep

\* For the preview runner the contract is PreviewChain: whatever is called, a fee is there
\* until its own deadline, and a report, once attached, for good.
THEOREM ContractIsPreviewChain == Spec => ImplementsPreviewChain
<1>1. Init => Runner!ChainInit /\ RequestsSound
  <2> SUFFICES ASSUME Init PROVE Runner!ChainInit /\ RequestsSound OBVIOUS
  <2>1. /\ \A v \in VersionId : /\ versions[v].seller = NoAccount /\ versions[v].report = FALSE
                                /\ previews[v].paidAt = 0 /\ previews[v].reclaimed = FALSE
        /\ timestamp > 0
    BY ConstantsOK DEF ConstantsOK, Init, InitChain, InitCatalog, NoVersion, NoPreview
  <2>2. RequestsSound BY <2>1 DEF RequestsSound
  <2>3. previewRequest = Seen("none", "early") /\ previewReport = 0
    BY <2>1, WatchedOK DEF previewRequest, previewState, previewReport, Seen
  <2> QED BY <2>2, <2>3 DEF Runner!ChainInit, Runner!NoReport, Seen
<1>2. Linked /\ RequestsSound /\ [Next]_vars =>
        RequestsSound' /\ [Runner!OthersAct]_<<previewRequest, previewReport>>
  BY RequestsPreserved, RunnerSteps
<1>3. Spec => Runner!ChainInit /\ [][Runner!OthersAct]_<<previewRequest, previewReport>>
  BY <1>1, <1>2, LinkedHolds, PTL DEF Spec
<1> QED BY <1>3 DEF ImplementsPreviewChain

---------------------------------------------------------------------------
(* The contract as the relay and the verifier take it *)

\* The times of a purchase and of a dispute: set by the calls that start them, kept by
\* the calls that end them.
LEMMA SaleTimes ==
  ASSUME Linked, NEW i \in PurchaseId
  PROVE  LET p == purchases[i]
             q == purchases'[i]
         IN /\ \A s : recordDelivery(i, s) =>
                 p.state = "Funded" /\ timestamp <= p.deliveryDeadline /\ q.deliveredAt = timestamp
            /\ refundUndelivered(i) => timestamp > p.deliveryDeadline /\ q.deliveredAt = p.deliveredAt
            /\ finalize(i) => q.deliveredAt = p.deliveredAt
            /\ \A n : rate(i, n) => q.deliveredAt = p.deliveredAt
            /\ \A g, m : openDispute(i, g, m) => q.deliveredAt = p.deliveredAt
<1> DEFINE p == purchases[i]
<1>0. purchases \in [PurchaseId -> Purchase] /\ p \in Purchase
  BY DEF Linked, PurchaseInv, TypePurchases
<1>1. ASSUME NEW q, purchases' = [purchases EXCEPT ![i] = q] PROVE purchases'[i] = q
  BY <1>0, <1>1
<1>2. ASSUME NEW s, recordDelivery(i, s)
      PROVE  /\ p.state = "Funded" /\ timestamp <= p.deliveryDeadline
             /\ purchases'[i].deliveredAt = timestamp
  <2> DEFINE q == [p EXCEPT !.state = "Delivered", !.deliveredAt = timestamp,
                            !.challengeDeadline = timestamp + p.terms.challengeWindow]
  <2>1. /\ purchases' = [purchases EXCEPT ![i] = q] /\ p.state = "Funded"
        /\ timestamp <= p.deliveryDeadline
    BY <1>2 DEF recordDelivery
  <2>2. q.deliveredAt = timestamp BY <1>0 DEF Purchase
  <2> HIDE DEF q
  <2> QED BY <1>1, <2>1, <2>2
<1>3. ASSUME refundUndelivered(i)
      PROVE  timestamp > p.deliveryDeadline /\ purchases'[i].deliveredAt = p.deliveredAt
  <2> DEFINE q == [p EXCEPT !.state = "Refunded", !.refunded = p.terms.price]
  <2>1. purchases' = [purchases EXCEPT ![i] = q] /\ timestamp > p.deliveryDeadline
    BY <1>3 DEF refundUndelivered
  <2>2. q.deliveredAt = p.deliveredAt BY <1>0 DEF Purchase
  <2> HIDE DEF q
  <2> QED BY <1>1, <2>1, <2>2
<1>4. ASSUME finalize(i) PROVE purchases'[i].deliveredAt = p.deliveredAt
  <2> DEFINE q == closed(p, 0)
  <2>1. purchases' = [purchases EXCEPT ![i] = q] BY <1>4 DEF finalize
  <2>2. q.deliveredAt = p.deliveredAt BY <1>0 DEF Purchase, closed
  <2> HIDE DEF q
  <2> QED BY <1>1, <2>1, <2>2
<1>5. ASSUME NEW n, rate(i, n) PROVE purchases'[i].deliveredAt = p.deliveredAt
  <2> DEFINE q == [p EXCEPT !.rated = TRUE, !.stars = n]
  <2>1. purchases' = [purchases EXCEPT ![i] = q] BY <1>5 DEF rate
  <2>2. q.deliveredAt = p.deliveredAt BY <1>0 DEF Purchase
  <2> HIDE DEF q
  <2> QED BY <1>1, <2>1, <2>2
<1>6. ASSUME NEW g, NEW m, openDispute(i, g, m) PROVE purchases'[i].deliveredAt = p.deliveredAt
  <2> DEFINE q == [p EXCEPT !.state = "Disputed", !.dispute = nextDisputeId]
  <2>1. purchases' = [purchases EXCEPT ![i] = q] BY <1>6 DEF openDispute
  <2>2. q.deliveredAt = p.deliveredAt BY <1>0 DEF Purchase
  <2> HIDE DEF q
  <2> QED BY <1>1, <2>1, <2>2
<1> HIDE DEF p
<1> QED BY <1>2, <1>3, <1>4, <1>5, <1>6 DEF p

LEMMA BuyTimes ==
  ASSUME Linked, NEW a \in Buyers, NEW v \in VersionId, buy(a, v)
  PROVE  /\ purchases'[nextPurchaseId].deliveredAt = 0
         /\ purchases'[nextPurchaseId].deliveryDeadline >= timestamp
<1> DEFINE t == versions[v].terms
           q == [NoPurchase EXCEPT !.state = "Funded", !.version = v, !.buyer = a,
                                   !.seller = versions[v].seller,
                                   !.terms = t, !.par = params,
                                   !.deliveryDeadline = timestamp + t.deliveryWindow]
<1>1. nextPurchaseId \in PurchaseId /\ purchases' = [purchases EXCEPT ![nextPurchaseId] = q]
  BY DEF buy
<1>2. q.deliveredAt = 0 /\ q.deliveryDeadline = timestamp + t.deliveryWindow BY DEF NoPurchase
<1>3. /\ purchases \in [PurchaseId -> Purchase] /\ timestamp \in Nat
      /\ versions[v].terms.deliveryWindow \in Nat
  BY DEF Linked, PurchaseInv, TypePurchases, TypeAdmin, CatalogInv, TypeCatalog, Version, Terms
<1> HIDE DEF q
<1>4. purchases'[nextPurchaseId] = q BY <1>1, <1>3
<1> QED BY <1>2, <1>3, <1>4

LEMMA DisputeTimes ==
  ASSUME Linked, NEW i, NEW g, NEW m, openDispute(i, g, m), g # "FalseDescription"
  PROVE  disputes'[nextDisputeId].verifierDeadline >= timestamp
<1> DEFINE e == newDispute(i, g, m)
<1>1. nextDisputeId \in DisputeId /\ disputes' = [disputes EXCEPT ![nextDisputeId] = e]
  BY DEF openDispute
<1>2. e.verifierDeadline = timestamp + params.verifierTimeout BY DEF newDispute, NoDispute
<1>3. /\ disputes \in [DisputeId -> Dispute] /\ timestamp \in Nat /\ params.verifierTimeout \in Nat
  BY DEF Linked, DisputeInv, TypeDisputes, TypeAdmin, ValidParams, Params
<1> HIDE DEF e
<1>4. disputes'[nextDisputeId] = e BY <1>1, <1>3
<1> QED BY <1>2, <1>3, <1>4

LEMMA ResolveTimes ==
  ASSUME Linked, NEW d \in DisputeId, disputes[d].status # "None", NEW out, NEW extra,
         resolve(d, out, extra)
  PROVE  /\ disputes'[d].verifierDeadline = disputes[d].verifierDeadline
         /\ disputes'[d].status = "Resolved"
         /\ purchases'[disputes[d].purchase].deliveredAt = purchases[disputes[d].purchase].deliveredAt
<1> DEFINE dd == disputes[d]
           i  == dd.purchase
           p  == purchases[i]
           e  == [dd EXCEPT !.status = "Resolved", !.verdict = out.verdict, !.refund = out.refund,
                            !.fallbackNoQuorum = out.fallback, !.confirmedMask = out.mask]
           c  == [p EXCEPT !.state = "Settled", !.refunded = @ + out.refund,
                           !.fee = closeFee(p, out.refund), !.sellerProceeds = closeProceeds(p, out.refund)]
           q  == [c EXCEPT !.remediedMask = @ \cup out.remedied, !.penalties = out.penalty]
<1>1. dd \in Dispute /\ i \in PurchaseId /\ p \in Purchase BY DisputedPurchase
<1>2. /\ disputes' = [disputes EXCEPT ![d] = e] /\ purchases' = [purchases EXCEPT ![i] = q]
  BY DEF resolve, closed
<1>3. /\ purchases \in [PurchaseId -> Purchase] /\ disputes \in [DisputeId -> Dispute]
  BY DEF Linked, PurchaseInv, TypePurchases, DisputeInv, TypeDisputes
<1>4. e.verifierDeadline = dd.verifierDeadline /\ e.status = "Resolved" BY <1>1 DEF Dispute
<1>5. DOMAIN c = DOMAIN p /\ c.deliveredAt = p.deliveredAt BY <1>1 DEF Purchase
<1>6. q.deliveredAt = c.deliveredAt
  <2>1. DOMAIN p = DOMAIN NoPurchase BY <1>1 DEF Purchase, NoPurchase
  <2> HIDE DEF c
  <2> QED BY <1>5, <2>1 DEF NoPurchase
<1> HIDE DEF e, c, q
<1>7. disputes'[d] = e BY <1>2, <1>3
<1> HIDE DEF p
<1>8. purchases'[i] = q
  <2> HIDE DEF i
  <2> QED BY <1>1, <1>2, <1>3
<1> QED BY <1>4, <1>5, <1>6, <1>7, <1>8 DEF p

\* The dispute that a purchase names is about it.
DisputeNamed == \A i \in PurchaseId : purchases[i].dispute # 0 =>
  LET d == purchases[i].dispute IN
  d \in DisputeId /\ disputes[d].status # "None" /\ disputes[d].purchase = i

\* What a step makes of one purchase and the dispute it names, times included.
CaseKept(i) == purchases[i].dispute # 0 =>
  LET d  == purchases[i].dispute
      dd == disputes[d]
      e  == disputes'[d]
  IN /\ e.purchase = dd.purchase /\ e.ground = dd.ground /\ e.status # "None"
     /\ Mechanical(d) => e = dd
Waits(i) == purchases'[i] = purchases[i] /\ CaseKept(i) /\ timestamp' >= timestamp

SameDispute(p, q) == q.dispute = p.dispute /\ UNCHANGED <<disputes, timestamp>>
BuysNow(p, q) ==
  /\ p = NoPurchase /\ q.state = "Funded" /\ q.dispute = 0 /\ q.deliveredAt = 0
  /\ q.deliveryDeadline >= timestamp /\ UNCHANGED <<disputes, timestamp>>
DeliversNow(p, q) ==
  /\ p.state = "Funded" /\ q.state = "Delivered" /\ SameDispute(p, q)
  /\ timestamp <= p.deliveryDeadline /\ q.deliveredAt = timestamp
RefundsNow(p, q) ==
  /\ p.state = "Funded" /\ q.state = "Refunded" /\ SameDispute(p, q)
  /\ timestamp > p.deliveryDeadline /\ q.deliveredAt = p.deliveredAt
ClosesNow(p, q) ==
  /\ p.state = "Delivered" /\ q.state = "Settled" /\ SameDispute(p, q)
  /\ q.deliveredAt = p.deliveredAt
RatesNow(p, q) ==
  /\ p.state = "Settled" /\ q.state = "Settled" /\ SameDispute(p, q)
  /\ q.deliveredAt = p.deliveredAt
DisputesNow(i, p, q) ==
  LET e == disputes'[q.dispute] IN
  /\ p.state = "Delivered" /\ q.state = "Disputed" /\ q.deliveredAt = p.deliveredAt
  /\ q.dispute \in DisputeId /\ e.purchase = i /\ e.status # "None" /\ timestamp' = timestamp
  /\ e.ground # "FalseDescription" => e.status = "Voting" /\ e.verifierDeadline >= timestamp
JudgedNow(p, q) ==
  LET dd == disputes[p.dispute]
      e  == disputes'[p.dispute]
  IN /\ p.state = "Disputed" /\ q.state = "Settled" /\ q.dispute = p.dispute
     /\ p.dispute \in DisputeId /\ OpenDispute(p.dispute) /\ timestamp' = timestamp
     /\ e.purchase = dd.purchase /\ e.ground = dd.ground /\ e.status = "Resolved"
     /\ e.verifierDeadline = dd.verifierDeadline /\ q.deliveredAt = p.deliveredAt

TradeStep(i) ==
  LET p == purchases[i]
      q == purchases'[i]
  IN \/ Waits(i) \/ BuysNow(p, q) \/ DeliversNow(p, q) \/ RefundsNow(p, q) \/ ClosesNow(p, q)
     \/ RatesNow(p, q) \/ DisputesNow(i, p, q) \/ JudgedNow(p, q)

\* A dispute about hashes or previews ends with the first call about it.
LEMMA MechanicalEnds ==
  ASSUME Linked, NEW d \in DisputeId, Mechanical(d), disputes[d].status # "None",
         purchases[disputes[d].purchase].refunded = 0,
         \/ \E u \in BOOLEAN, m \in SUBSET disputes[d].taskMask, s \in Signers :
              resolveMechanical(d, u, m, s)
         \/ timeoutMechanical(d) \/ selectJurors(d) \/ tallyDispute(d)
         \/ \E a \in JurorPool : revealVote(d, a) \/ \E v \in {"Uphold", "Reject"} : commitVote(d, a, v)
  PROVE  \E out \in Outcome : \E extra : resolve(d, out, extra)
<1>1. ~Jury(d, "AwaitingSelection") /\ ~Jury(d, "Voting") BY DEF Mechanical, Jury
<1>2. OpenDispute(d) BY RulingsOpen
<1>3. \E out, extra : resolve(d, out, extra)
  <2>1. ASSUME NEW u, NEW m, NEW s, resolveMechanical(d, u, m, s) PROVE \E out, extra : resolve(d, out, extra)
    BY <2>1 DEF resolveMechanical
  <2>2. ASSUME timeoutMechanical(d) PROVE \E out, extra : resolve(d, out, extra)
    BY <2>2 DEF timeoutMechanical
  <2>3. ~selectJurors(d) BY <1>1 DEF selectJurors, SelectionOpen
  <2>4. ~tallyDispute(d) BY <1>1 DEF tallyDispute, tallyDecided, tallyFailed, TallyReady
  <2>5. ASSUME NEW a, NEW v PROVE ~commitVote(d, a, v) BY <1>1 DEF commitVote
  <2>6. ASSUME NEW a PROVE ~revealVote(d, a) BY <1>1 DEF revealVote
  <2> QED BY <2>1, <2>2, <2>3, <2>4, <2>5, <2>6
<1>4. disputes'[d].status = "Resolved"
  <2>1. PICK out, extra : resolve(d, out, extra) BY <1>3
  <2> QED BY <2>1, ResolveTimes
<1>5. ~CaseStep(disputes[d], disputes'[d]) BY <1>4 DEF CaseStep
<1>6. disputes' # disputes BY <1>2, <1>4 DEF OpenDispute
<1> QED BY <1>5, <1>6, DisputeSteps

LEMMA TradeSteps ==
  ASSUME Linked, CaseInv, DisputeNamed, [Next]_vars, NEW w \in PurchaseId
  PROVE  TradeStep(w)
<1>0. /\ timestamp \in Nat /\ Links /\ Sales
      /\ purchases[w].dispute # 0 =>
           /\ purchases[w].dispute \in DisputeId
           /\ disputes[purchases[w].dispute].status # "None"
           /\ disputes[purchases[w].dispute].purchase = w
  BY DEF Linked, TypeAdmin, CaseInv, DisputeNamed
<1>1. ASSUME purchases'[w] = purchases[w], timestamp' >= timestamp,
             purchases[w].dispute # 0 => disputes'[purchases[w].dispute] = disputes[purchases[w].dispute]
      PROVE  TradeStep(w)
  BY <1>0, <1>1 DEF TradeStep, Waits, CaseKept
<1>2. CASE Elsewhere /\ timestamp' >= timestamp BY <1>1, <1>2 DEF Elsewhere
<1>3. ASSUME NEW a \in Buyers, NEW v \in VersionId, buy(a, v), timestamp' = timestamp
      PROVE  TradeStep(w)
  <2>1. /\ OnlyPurchase(nextPurchaseId) /\ disputes' = disputes
        /\ BuyStep(purchases[nextPurchaseId], purchases'[nextPurchaseId])
        /\ purchases'[nextPurchaseId].deliveredAt = 0
        /\ purchases'[nextPurchaseId].deliveryDeadline >= timestamp
    BY <1>3, BuyMoves, BuyTimes
  <2>2. CASE w = nextPurchaseId
    BY <1>3, <2>1, <2>2 DEF BuyStep, Bought, BuysNow, TradeStep
  <2>3. CASE w # nextPurchaseId BY <1>0, <1>1, <1>3, <2>1, <2>3 DEF OnlyPurchase
  <2> QED BY <2>2, <2>3
<1>4. ASSUME NEW i \in PurchaseId, timestamp' = timestamp,
             \/ \E s \in Signers : recordDelivery(i, s)
             \/ refundUndelivered(i) \/ finalize(i) \/ \E n \in StarChoices : rate(i, n)
      PROVE  TradeStep(w)
  <2>1. OnlyPurchase(i) /\ disputes' = disputes BY <1>4, SaleMoves
  <2>2. CASE w # i BY <1>0, <1>1, <1>4, <2>1, <2>2 DEF OnlyPurchase
  <2>3. CASE w = i
    <3> DEFINE p == purchases[i]
               q == purchases'[i]
    <3>1. DeliverStep(p, q) \/ RefundStep(p, q) \/ CloseStep(p, q) \/ RateStep(p, q)
      BY <1>4, SaleMoves
    <3>2. /\ p.state = "Funded" => q.state \in {"Delivered", "Refunded"}
          /\ p.state # "Funded" => p.state \in {"Delivered", "Settled"} /\ q.state = "Settled"
          /\ q.dispute = p.dispute
      BY <3>1 DEF DeliverStep, RefundStep, CloseStep, RateStep, Closes
    <3>3. ASSUME NEW s \in Signers, recordDelivery(i, s) PROVE TradeStep(w)
      <4>1. p.state = "Funded" /\ timestamp <= p.deliveryDeadline /\ q.deliveredAt = timestamp
        BY <3>3, SaleTimes
      <4>2. q.state = "Delivered"
        <5>1. purchases' = [purchases EXCEPT ![i] =
                [@ EXCEPT !.state = "Delivered", !.deliveredAt = timestamp,
                          !.challengeDeadline = timestamp + p.terms.challengeWindow]]
          BY <3>3 DEF recordDelivery
        <5> QED BY <5>1 DEF Linked, PurchaseInv, TypePurchases, Purchase
      <4> QED BY <1>4, <2>1, <2>3, <3>2, <4>1, <4>2 DEF TradeStep, DeliversNow, SameDispute
    <3>4. ASSUME refundUndelivered(i) PROVE TradeStep(w)
      <4>1. p.state = "Funded" BY <3>4 DEF refundUndelivered
      <4>2. timestamp > p.deliveryDeadline /\ q.deliveredAt = p.deliveredAt BY <3>4, SaleTimes
      <4>3. q.state = "Refunded"
        <5>1. purchases' = [purchases EXCEPT ![i] =
                [@ EXCEPT !.state = "Refunded", !.refunded = p.terms.price]]
          BY <3>4 DEF refundUndelivered
        <5> QED BY <5>1 DEF Linked, PurchaseInv, TypePurchases, Purchase
      <4> QED BY <1>4, <2>1, <2>3, <3>2, <4>1, <4>2, <4>3 DEF TradeStep, RefundsNow, SameDispute
    <3>5. ASSUME finalize(i) PROVE TradeStep(w)
      <4>1. p.state = "Delivered" BY <3>5 DEF finalize
      <4>2. q.deliveredAt = p.deliveredAt BY <3>5, SaleTimes
      <4> QED BY <1>4, <2>1, <2>3, <3>2, <4>1, <4>2 DEF TradeStep, ClosesNow, SameDispute
    <3>6. ASSUME NEW n \in StarChoices, rate(i, n) PROVE TradeStep(w)
      <4>1. p.state = "Settled" BY <3>6 DEF rate
      <4>2. q.deliveredAt = p.deliveredAt BY <3>6, SaleTimes
      <4> QED BY <1>4, <2>1, <2>3, <3>2, <4>1, <4>2 DEF TradeStep, RatesNow, SameDispute
    <3> QED BY <1>4, <3>3, <3>4, <3>5, <3>6
  <2> QED BY <2>2, <2>3
<1>5. ASSUME NEW i \in PurchaseId, NEW g \in Grounds, timestamp' = timestamp,
             NEW m \in SUBSET (1..purchases[i].terms.taskCount), openDispute(i, g, m)
      PROVE  TradeStep(w)
  <2> DEFINE n == nextDisputeId
  <2>1. /\ n \in DisputeId /\ OnlyPurchase(i) /\ OnlyDispute(n)
        /\ DisputeStep(purchases[i], purchases'[i]) /\ purchases'[i].dispute = n
        /\ disputes'[n].purchase = i /\ disputes'[n].ground = g
        /\ IF g = "FalseDescription" THEN disputes'[n].status = "AwaitingSelection"
           ELSE disputes'[n].status = "Voting"
    BY <1>5, OpenMoves
  <2>2. CASE w = i
    <3>1. purchases'[i].deliveredAt = purchases[i].deliveredAt BY <1>5, SaleTimes
    <3>2. g # "FalseDescription" => disputes'[n].verifierDeadline >= timestamp
      BY <1>5, DisputeTimes
    <3> HIDE DEF n
    <3>3. purchases[i].state = "Delivered" /\ purchases'[i].state = "Disputed"
      BY <2>1 DEF DisputeStep
    <3>4. DisputesNow(i, purchases[i], purchases'[i])
      BY <1>5, <2>1, <3>1, <3>2, <3>3 DEF DisputesNow
    <3> QED BY <2>2, <3>4 DEF TradeStep
  <2>3. CASE w # i
    <3>1. n \in Nat BY <2>1, ConstantsOK DEF ConstantsOK, DisputeId
    <3>2. disputes[n].status = "None" BY <1>0, <2>1, <3>1 DEF Links, NoDispute
    <3>3. purchases[w].dispute # 0 => purchases[w].dispute # n BY <1>0, <3>2
    <3> QED BY <1>0, <1>1, <1>5, <2>1, <2>3, <3>3 DEF OnlyPurchase, OnlyDispute
  <2> QED BY <2>2, <2>3
<1>6. ASSUME NEW d \in DisputeId, timestamp' = timestamp,
             \/ \E u \in BOOLEAN, m \in SUBSET disputes[d].taskMask, s \in Signers :
                  resolveMechanical(d, u, m, s)
             \/ timeoutMechanical(d) \/ selectJurors(d) \/ tallyDispute(d)
             \/ \E a \in JurorPool : revealVote(d, a) \/ \E v \in {"Uphold", "Reject"} : commitVote(d, a, v)
      PROVE  TradeStep(w)
  <2> DEFINE i == disputes[d].purchase
  <2>1. OpenDispute(d) BY <1>6, RulingsOpen
  <2>2. /\ disputes[d].status # "None" /\ i \in PurchaseId
        /\ purchases[i].state = "Disputed" /\ purchases[i].dispute = d /\ purchases[i].refunded = 0
    BY <1>0, <2>1, OpenDisputed
  <2>3. ASSUME NEW out \in Outcome, NEW extra, resolve(d, out, extra) PROVE TradeStep(w)
    <3>1. /\ OnlyPurchase(i) /\ OnlyDispute(d)
          /\ purchases'[i].dispute = d /\ purchases'[i].state = "Settled"
          /\ SameCase(disputes[d], disputes'[d])
      BY <2>2, <2>3, ResolveMoves DEF Closes
    <3>2. /\ disputes'[d].verifierDeadline = disputes[d].verifierDeadline
          /\ disputes'[d].status = "Resolved"
          /\ purchases'[i].deliveredAt = purchases[i].deliveredAt
      BY <2>2, <2>3, ResolveTimes
    <3>3. disputes'[d].purchase = i /\ disputes'[d].ground = disputes[d].ground
      BY <3>1 DEF SameCase
    <3>4. CASE w = i
      <4>1. JudgedNow(purchases[i], purchases'[i])
        BY <1>6, <2>1, <2>2, <3>1, <3>2, <3>3 DEF JudgedNow
      <4> QED BY <3>4, <4>1 DEF TradeStep
    <3>5. CASE w # i
      <4>1. purchases[w].dispute # 0 => purchases[w].dispute # d BY <1>0, <3>5
      <4> QED BY <1>0, <1>1, <1>6, <3>1, <3>5, <4>1 DEF OnlyPurchase, OnlyDispute
    <3> QED BY <3>4, <3>5
  <2>4. CASE Mechanical(d)
    <3>1. \E out \in Outcome : \E extra : resolve(d, out, extra)
      BY <1>6, <2>2, <2>4, MechanicalEnds
    <3> QED BY <2>3, <3>1
  <2>5. CASE ~Mechanical(d)
    <3>1. ASSUME UNCHANGED purchases, OnlyDispute(d), CaseStep(disputes[d], disputes'[d])
          PROVE  TradeStep(w)
      <4>1. /\ disputes'[d].purchase = disputes[d].purchase
            /\ disputes'[d].ground = disputes[d].ground /\ disputes'[d].status # "None"
        BY <3>1 DEF CaseStep, SameCase
      <4>2. CaseKept(w) BY <1>0, <2>5, <3>1, <4>1 DEF CaseKept, OnlyDispute
      <4> QED BY <1>0, <1>6, <3>1, <4>2 DEF TradeStep, Waits
    <3>2. ASSUME UNCHANGED <<purchases, disputes>> PROVE TradeStep(w)
      BY <1>0, <1>1, <1>6, <3>2
    <3> QED BY <1>6, <2>2, <2>3, <3>1, <3>2, DisputeSteps
  <2> QED BY <2>4, <2>5
<1>7. (Elsewhere /\ timestamp' >= timestamp) \/ (CaseCall /\ timestamp' = timestamp) BY CaseCalls
<1> QED BY <1>2, <1>3, <1>4, <1>5, <1>6, <1>7 DEF CaseCall

\* The dispute a purchase names stays its own.
LEMMA NamesPreserved ==
  ASSUME Linked, CaseInv, DisputeNamed, [Next]_vars
  PROVE  DisputeNamed'
<1> SUFFICES ASSUME NEW i \in PurchaseId, purchases'[i].dispute # 0
             PROVE  /\ purchases'[i].dispute \in DisputeId
                    /\ disputes'[purchases'[i].dispute].status # "None"
                    /\ disputes'[purchases'[i].dispute].purchase = i
  BY DEF DisputeNamed
<1> DEFINE p == purchases[i]
           q == purchases'[i]
<1>1. TradeStep(i) BY TradeSteps
<1>2. p.dispute # 0 =>
        p.dispute \in DisputeId /\ disputes[p.dispute].status # "None" /\ disputes[p.dispute].purchase = i
  BY DEF DisputeNamed
<1>3. CASE Waits(i) BY <1>2, <1>3 DEF Waits, CaseKept
<1>4. CASE BuysNow(p, q) BY <1>4 DEF BuysNow
<1>5. CASE DeliversNow(p, q) \/ RefundsNow(p, q) \/ ClosesNow(p, q) \/ RatesNow(p, q)
  BY <1>2, <1>5 DEF DeliversNow, RefundsNow, ClosesNow, RatesNow, SameDispute
<1>6. CASE DisputesNow(i, p, q) BY <1>6 DEF DisputesNow
<1>7. CASE JudgedNow(p, q) BY <1>2, <1>7 DEF JudgedNow
<1> QED BY <1>1, <1>3, <1>4, <1>5, <1>6, <1>7 DEF TradeStep

\* What the TEE sees of a purchase, and of the dispute before its verifier.
SeenSale(s, k, l) == [state |-> s, key |-> k, late |-> l]
SeenMech(s, g, l) == [status |-> s, ground |-> g, finding |-> 0, late |-> l]

LEMMA SaleFields ==
  ASSUME NEW s, NEW k, NEW l
  PROVE  SeenSale(s, k, l).state = s /\ SeenSale(s, k, l).key = k /\ SeenSale(s, k, l).late = l
BY DEF SeenSale

\* The calls of TeeChain, on what is seen of the watched purchase.
LEMMA SaleCalls ==
  ASSUME NEW s, NEW k, NEW l \in BOOLEAN, NEW t, NEW c, NEW m \in BOOLEAN,
         teeSale = SeenSale(s, k, l), teeSale' = SeenSale(t, c, m),
         UNCHANGED <<teeMech, teeLog>>
  PROVE  /\ s = "Funded" /\ l = FALSE /\ t = s /\ c = k /\ m = TRUE => TeeStep
         /\ s = "Funded" /\ l = TRUE /\ t = "Refunded" /\ c = k /\ m = l => TeeStep
         /\ s = "Funded" /\ l = FALSE /\ t = "Delivered" /\ c = -1 /\ m = l => TeeStep
         /\ s = "Delivered" /\ t = "Settled" /\ c = k /\ m = l => TeeStep
<1> DEFINE w == WatchedPurchase
           sales == [i \in {w} |-> teeSale]
           mechs == [i \in {w} |-> teeMech]
<1>1. /\ sales[w] = teeSale /\ [i \in {w} |-> teeMech'] = mechs
      /\ [i \in {w} |-> teeSale'] = [sales EXCEPT ![w] = teeSale']
  OBVIOUS
<1>2. teeSale.state = s /\ teeSale.late = l BY SaleFields
<1>3. ASSUME s = "Funded", l = FALSE, t = s, c = k, m = TRUE PROVE TeeStep
  <2>1. [SeenSale(s, k, l) EXCEPT !.late = m] = SeenSale(s, k, m) BY DEF SeenSale
  <2>2. teeSale' = [teeSale EXCEPT !.late = TRUE] BY <1>3, <2>1
  <2>3. Tee!deliveryDeadlinePasses(w)
    BY <1>1, <1>2, <1>3, <2>2 DEF Tee!deliveryDeadlinePasses, Tee!Funded
  <2> QED BY <2>3 DEF TeeStep, Tee!OthersAct
<1>4. ASSUME s = "Funded", l = TRUE, t = "Refunded", c = k, m = l PROVE TeeStep
  <2>1. [SeenSale(s, k, l) EXCEPT !.state = t] = SeenSale(t, k, l) BY DEF SeenSale
  <2>2. teeSale' = [teeSale EXCEPT !.state = t] BY <1>4, <2>1
  <2>3. Tee!refundUndelivered(w) BY <1>1, <1>2, <1>4, <2>2 DEF Tee!refundUndelivered
  <2> QED BY <2>3 DEF TeeStep, Tee!OthersAct
<1>5. ASSUME s = "Funded", l = FALSE, t = "Delivered", c = -1, m = l PROVE TeeStep
  <2>1. /\ [SeenSale(s, k, l) EXCEPT !.state = t] = SeenSale(t, k, l)
        /\ [SeenSale(t, k, l) EXCEPT !.key = c] = SeenSale(t, c, l)
    BY DEF SeenSale
  <2>2. [SeenSale(s, k, l) EXCEPT !.state = t, !.key = c] = SeenSale(t, c, l)
    <3>1. [SeenSale(s, k, l) EXCEPT !.state = t, !.key = c]
            = [[SeenSale(s, k, l) EXCEPT !.state = t] EXCEPT !.key = c]
      OBVIOUS
    <3> QED BY <2>1, <3>1
  <2>3. teeSale' = [teeSale EXCEPT !.state = t, !.key = c] BY <1>5, <2>2
  <2>4. Tee!deliveredByOther(w)
    BY <1>1, <1>2, <1>5, <2>3 DEF Tee!deliveredByOther, Tee!Funded, Tee!recordDelivery, Tee!ForeignKey
  <2> QED BY <2>4 DEF TeeStep, Tee!OthersAct
<1>6. ASSUME s = "Delivered", t = "Settled", c = k, m = l PROVE TeeStep
  <2>1. [SeenSale(s, k, l) EXCEPT !.state = t] = SeenSale(t, k, l) BY DEF SeenSale
  <2>2. teeSale' = [teeSale EXCEPT !.state = t] BY <1>6, <2>1
  <2>3. Tee!finalize(w) BY <1>1, <1>2, <1>6, <2>2 DEF Tee!finalize
  <2> QED BY <2>3 DEF TeeStep, Tee!OthersAct
<1> QED BY <1>3, <1>4, <1>5, <1>6

\* A purchase is made, or disputed before the verifier: its event is logged.
LEMMA LoggedCalls ==
  ASSUME NEW s, NEW k, NEW l, NEW t, teeSale = SeenSale(s, k, l), teeSale' = SeenSale(t, k, l)
  PROVE  /\ s = "None" /\ t = "Funded" /\ teeLog' = Append(teeLog, Tee!PurchaseJob(WatchedPurchase))
            /\ UNCHANGED teeMech => TeeStep
         /\ \A g \in Tee!TeeGrounds :
              s = "Delivered" /\ t = "Disputed"
              /\ teeLog' = Append(teeLog, Tee!DisputeJob(WatchedPurchase))
              /\ teeMech' = [teeMech EXCEPT !.status = "Voting", !.ground = g] => TeeStep
<1> DEFINE w == WatchedPurchase
           sales == [i \in {w} |-> teeSale]
           mechs == [i \in {w} |-> teeMech]
<1>1. /\ sales[w] = teeSale /\ mechs[w] = teeMech
      /\ [i \in {w} |-> teeSale'] = [sales EXCEPT ![w] = teeSale']
      /\ [i \in {w} |-> teeMech'] = [mechs EXCEPT ![w] = teeMech']
  OBVIOUS
<1>2. [SeenSale(s, k, l) EXCEPT !.state = t] = SeenSale(t, k, l) BY DEF SeenSale
<1>3. teeSale.state = s /\ teeSale' = [teeSale EXCEPT !.state = t] BY <1>2, SaleFields
<1>4. ASSUME s = "None", t = "Funded", teeLog' = Append(teeLog, Tee!PurchaseJob(w)),
             UNCHANGED teeMech
      PROVE  TeeStep
  <2>1. Tee!buy(w) BY <1>1, <1>3, <1>4 DEF Tee!buy
  <2> QED BY <2>1 DEF TeeStep, Tee!OthersAct
<1>5. ASSUME NEW g \in Tee!TeeGrounds, s = "Delivered", t = "Disputed",
             teeLog' = Append(teeLog, Tee!DisputeJob(w)),
             teeMech' = [teeMech EXCEPT !.status = "Voting", !.ground = g]
      PROVE  TeeStep
  <2>1. Tee!openDispute(w, g) BY <1>1, <1>3, <1>5 DEF Tee!openDispute
  <2> QED BY <2>1 DEF TeeStep, Tee!OthersAct
<1> QED BY <1>4, <1>5

\* The verifier's deadline passes, or the dispute before it ends.
LEMMA MechCalls ==
  ASSUME NEW a, NEW g, NEW l \in BOOLEAN, NEW b, NEW m \in BOOLEAN,
         teeMech = SeenMech(a, g, l), teeMech' = SeenMech(b, g, m), UNCHANGED teeLog
  PROVE  /\ a # "None" /\ l = FALSE /\ b = a /\ m = TRUE /\ UNCHANGED teeSale => TeeStep
         /\ a = "Voting" /\ b = "Resolved" /\ m = l
            /\ teeSale' = [teeSale EXCEPT !.state = "Settled"] => TeeStep
<1> DEFINE w == WatchedPurchase
           sales == [i \in {w} |-> teeSale]
           mechs == [i \in {w} |-> teeMech]
           Rec(x, y, n, z) == [status |-> x, ground |-> y, finding |-> n, late |-> z]
<1>1. /\ sales[w] = teeSale /\ mechs[w] = teeMech
      /\ [i \in {w} |-> teeSale'] = [sales EXCEPT ![w] = teeSale']
      /\ [i \in {w} |-> teeMech'] = [mechs EXCEPT ![w] = teeMech']
  OBVIOUS
<1>2. teeMech.status = a /\ teeMech.late = l BY DEF SeenMech
<1>3. /\ \A n : [Rec(a, g, n, l) EXCEPT !.late = m] = Rec(a, g, n, m)
      /\ \A n : [Rec(a, g, n, l) EXCEPT !.status = b] = Rec(b, g, n, l)
      /\ \A n : [Rec(b, g, n, l) EXCEPT !.finding = n] = Rec(b, g, n, l)
  OBVIOUS
<1>4. /\ SeenMech(a, g, l) = Rec(a, g, 0, l) /\ SeenMech(a, g, m) = Rec(a, g, 0, m)
      /\ SeenMech(b, g, l) = Rec(b, g, 0, l)
  BY DEF SeenMech
<1> HIDE DEF Rec
<1>5. ASSUME a # "None", l = FALSE, b = a, m = TRUE, UNCHANGED teeSale PROVE TeeStep
  <2>1. [SeenMech(a, g, l) EXCEPT !.late = m] = SeenMech(a, g, m) BY <1>3, <1>4
  <2>2. teeMech' = [teeMech EXCEPT !.late = TRUE] BY <1>5, <2>1
  <2>3. Tee!verifierDeadlinePasses(w) BY <1>1, <1>2, <1>5, <2>2 DEF Tee!verifierDeadlinePasses
  <2> QED BY <2>3 DEF TeeStep, Tee!OthersAct
<1>6. ASSUME a = "Voting", b = "Resolved", m = l, teeSale' = [teeSale EXCEPT !.state = "Settled"]
      PROVE  TeeStep
  <2>1. [SeenMech(a, g, l) EXCEPT !.status = b] = SeenMech(b, g, l) BY <1>3, <1>4
  <2>2. [SeenMech(b, g, l) EXCEPT !.finding = 0] = SeenMech(b, g, l) BY <1>3, <1>4
  <2>3. [SeenMech(a, g, l) EXCEPT !.status = b, !.finding = 0]
          = [[SeenMech(a, g, l) EXCEPT !.status = b] EXCEPT !.finding = 0]
    OBVIOUS
  <2>4. [SeenMech(a, g, l) EXCEPT !.status = b, !.finding = 0] = SeenMech(b, g, l)
    BY <2>1, <2>2, <2>3
  <2>5. teeMech' = [teeMech EXCEPT !.status = "Resolved", !.finding = Tee!None]
    BY <1>6, <2>4 DEF Tee!None
  <2>6. Tee!resolveMechanical(w, Tee!None) BY <1>1, <1>6, <2>5 DEF Tee!resolveMechanical
  <2> QED BY <1>2, <1>6, <2>6 DEF TeeStep
<1> QED BY <1>5, <1>6

\* A dispute comes before the verifier.
LEMMA MechOpens ==
  ASSUME NEW l, NEW g, NEW h
  PROVE  [SeenMech("None", g, l) EXCEPT !.status = "Voting", !.ground = h] = SeenMech("Voting", h, l)
<1> DEFINE Rec(x, y, n, z) == [status |-> x, ground |-> y, finding |-> n, late |-> z]
<1>1. ASSUME NEW x, NEW y
      PROVE  /\ \A n : [Rec(x, g, n, l) EXCEPT !.status = y] = Rec(y, g, n, l)
             /\ \A n : [Rec(x, g, n, l) EXCEPT !.ground = h] = Rec(x, h, n, l)
  OBVIOUS
<1>2. ASSUME NEW x, NEW y PROVE SeenMech(x, y, l) = Rec(x, y, 0, l) BY DEF SeenMech
<1> HIDE DEF Rec
<1>3. /\ [SeenMech("None", g, l) EXCEPT !.status = "Voting"] = SeenMech("Voting", g, l)
      /\ [SeenMech("Voting", g, l) EXCEPT !.ground = h] = SeenMech("Voting", h, l)
  BY <1>1, <1>2
<1>4. [SeenMech("None", g, l) EXCEPT !.status = "Voting", !.ground = h]
        = [[SeenMech("None", g, l) EXCEPT !.status = "Voting"] EXCEPT !.ground = h]
  OBVIOUS
<1> QED BY <1>3, <1>4
\* The log grows by one event.
LEMMA EventsAppend ==
  ASSUME NEW x, NEW y
  PROVE  /\ <<>> \o <<>> = <<>> /\ <<x>> \o <<>> = Append(<<>>, x)
         /\ <<x>> \o <<y>> = Append(<<x>> \o <<>>, y)
<1>1. <<>> \o <<>> = <<>> OBVIOUS
<1>2. <<x>> \o <<>> = <<x>> OBVIOUS
<1>3. Append(<<>>, x) = <<x>> OBVIOUS
<1>4. <<x>> \o <<y>> = Append(<<x>>, y) OBVIOUS
<1> QED BY <1>1, <1>2, <1>3, <1>4

\* A step seen by the relay and the verifier is one that TeeChain leaves to others, or the
\* end of a dispute by some verifier, or nothing they see.
LEMMA TeeSteps ==
  ASSUME Linked, CaseInv, DisputeNamed, FeesDated, [Next]_vars
  PROVE  [TeeStep]_<<teeSale, teeMech, teeLog>>
<1> DEFINE w   == WatchedPurchase
           p   == purchases[w]
           q   == purchases'[w]
           dd  == disputes[p.dispute]
           e   == disputes'[q.dispute]
           uv  == p.dispute # 0 /\ dd.ground \in {"BrokenOrHashMismatch", "PreviewNotReproducible"}
           uvN == q.dispute # 0 /\ e.ground \in {"BrokenOrHashMismatch", "PreviewNotReproducible"}
           st  == IF p.state = "Disputed" /\ ~uv THEN "Delivered" ELSE p.state
           stN == IF q.state = "Disputed" /\ ~uvN THEN "Delivered" ELSE q.state
           ky  == IF p.deliveredAt = 0 THEN 0 ELSE -1
           kyN == IF q.deliveredAt = 0 THEN 0 ELSE -1
           lt  == (p.state = "Funded" /\ timestamp > p.deliveryDeadline) \/ p.state = "Refunded"
           ltN == (q.state = "Funded" /\ timestamp' > q.deliveryDeadline) \/ q.state = "Refunded"
           ms  == IF uv THEN dd.status ELSE "None"
           msN == IF uvN THEN e.status ELSE "None"
           mg  == IF uv THEN dd.ground ELSE "BrokenOrHashMismatch"
           mgN == IF uvN THEN e.ground ELSE "BrokenOrHashMismatch"
           ml  == uv /\ timestamp > dd.verifierDeadline
           mlN == uvN /\ timestamp' > e.verifierDeadline
           first  == <<[kind |-> "purchase", id |-> w]>>
           second == <<[kind |-> "dispute", id |-> w]>>
           lg  == (IF p.state = "None" THEN <<>> ELSE first) \o (IF uv THEN second ELSE <<>>)
           lgN == (IF q.state = "None" THEN <<>> ELSE first) \o (IF uvN THEN second ELSE <<>>)
           Goal == TeeStep \/ UNCHANGED <<teeSale, teeMech, teeLog>>
<1>1. TradeStep(w) BY TradeSteps, WatchedOK
<1>2. /\ teeSale = SeenSale(st, ky, lt) /\ teeSale' = SeenSale(stN, kyN, ltN)
      /\ teeMech = SeenMech(ms, mg, ml) /\ teeMech' = SeenMech(msN, mgN, mlN)
      /\ teeLog = lg /\ teeLog' = lgN
  <2>1. watched = p /\ watched' = q /\ UnderVerifier = uv /\ UnderVerifier' = uvN
    BY DEF watched, UnderVerifier, Mechanical
  <2>2. teeSale = SeenSale(st, ky, lt) /\ teeSale' = SeenSale(stN, kyN, ltN)
    BY <2>1 DEF teeSale, SeenSale
  <2>3. teeMech = SeenMech(ms, mg, ml)
    <3>1. CASE uv
      <4>1. ms = dd.status /\ mg = dd.ground /\ ml = (timestamp > dd.verifierDeadline) BY <3>1
      <4>2. teeMech = SeenMech(dd.status, dd.ground, timestamp > dd.verifierDeadline)
        BY <2>1, <3>1 DEF teeMech, SeenMech
      <4> HIDE DEF ms, mg, ml
      <4> QED BY <4>1, <4>2
    <3>2. CASE ~uv BY <2>1, <3>2 DEF teeMech, SeenMech
    <3> QED BY <3>1, <3>2
  <2>4. teeMech' = SeenMech(msN, mgN, mlN)
    <3>1. CASE uvN
      <4>1. msN = e.status /\ mgN = e.ground /\ mlN = (timestamp' > e.verifierDeadline) BY <3>1
      <4>2. teeMech' = SeenMech(e.status, e.ground, timestamp' > e.verifierDeadline)
        BY <2>1, <3>1 DEF teeMech, SeenMech
      <4> HIDE DEF msN, mgN, mlN
      <4> QED BY <4>1, <4>2
    <3>2. CASE ~uvN BY <2>1, <3>2 DEF teeMech, SeenMech
    <3> QED BY <3>1, <3>2
  <2>5. teeLog = lg /\ teeLog' = lgN BY <2>1 DEF teeLog
  <2> QED BY <2>2, <2>3, <2>4, <2>5
<1>3. /\ timestamp \in Nat /\ timestamp' \in Nat /\ timestamp > 0
      /\ p.deliveryDeadline \in Nat /\ w \in PurchaseId
      /\ p.dispute # 0 => p.dispute \in DisputeId /\ p.state \in {"Disputed", "Settled"}
                          /\ dd.status # "None" /\ dd.verifierDeadline \in Nat
      /\ p.dispute \in DisputeId => p.dispute # 0
      /\ q.dispute \in DisputeId => q.dispute # 0
  <2>1. timestamp' \in Nat BY NextLinked DEF Linked, TypeAdmin
  <2>2. p \in Purchase /\ w \in PurchaseId /\ timestamp \in Nat /\ timestamp > 0
    BY WatchedOK DEF Linked, PurchaseInv, TypePurchases, TypeAdmin, FeesDated
  <2>3. p.deliveryDeadline \in Nat BY <2>2 DEF Purchase
  <2>4. 0 \notin DisputeId BY DEF DisputeId
  <2>5. ASSUME p.dispute # 0
        PROVE  /\ p.dispute \in DisputeId /\ p.state \in {"Disputed", "Settled"}
               /\ dd.status # "None" /\ dd.verifierDeadline \in Nat
    <3>1. p.dispute \in DisputeId /\ dd.status # "None" /\ dd.purchase = w
      BY <2>2, <2>5 DEF DisputeNamed
    <3>2. CaseSound(p.dispute) BY <3>1 DEF CaseInv, Links
    <3>3. dd \in Dispute BY <3>1 DEF Linked, DisputeInv, TypeDisputes
    <3> QED BY <3>1, <3>2, <3>3 DEF CaseSound, Dispute
  <2> QED BY <2>1, <2>2, <2>3, <2>4, <2>5
<1>4. ASSUME stN = st, kyN = ky, ltN = lt, msN = ms, mgN = mg, mlN = ml, lgN = lg PROVE Goal
  <2> HIDE DEF st, stN, ky, kyN, lt, ltN, ms, msN, mg, mgN, ml, mlN, lg, lgN
  <2> QED BY <1>2, <1>4
<1>5. CASE Waits(w)
  <2>1. /\ q = p /\ timestamp' >= timestamp
        /\ p.dispute # 0 => /\ e.purchase = dd.purchase /\ e.ground = dd.ground
                            /\ Mechanical(p.dispute) => e = dd
    BY <1>5 DEF Waits, CaseKept
  <2>2. uvN = uv /\ (uv => e = dd) BY <2>1 DEF Mechanical
  <2>3. stN = st /\ kyN = ky /\ msN = ms /\ mgN = mg /\ lgN = lg BY <2>1, <2>2
  <2>4. CASE ltN = lt /\ mlN = ml BY <1>4, <2>3, <2>4
  <2>5. CASE ltN # lt
    <3>1. p.state = "Funded" /\ lt = FALSE /\ ltN = TRUE BY <1>3, <2>1, <2>5
    <3>2. p.dispute = 0 BY <1>3, <3>1
    <3>3. ml = mlN /\ st = "Funded" BY <2>2, <3>1, <3>2
    <3>4. UNCHANGED <<teeMech, teeLog>>
      <4> HIDE DEF ms, msN, mg, mgN, ml, mlN, lg, lgN
      <4> QED BY <1>2, <2>3, <3>3
    <3>5. /\ teeSale = SeenSale(st, ky, lt) /\ teeSale' = SeenSale(stN, kyN, ltN)
          /\ lt \in BOOLEAN /\ ltN \in BOOLEAN
      BY <1>2, <3>1
    <3> HIDE DEF st, stN, ky, kyN, lt, ltN
    <3>6. TeeStep BY <2>3, <3>1, <3>3, <3>4, <3>5, SaleCalls
    <3> QED BY <3>6
  <2>6. CASE ltN = lt /\ mlN # ml
    <3>1. uv /\ ml = FALSE /\ mlN = TRUE /\ ms # "None" BY <1>3, <2>1, <2>2, <2>6
    <3>2. UNCHANGED <<teeSale, teeLog>>
      <4> HIDE DEF st, stN, ky, kyN, lt, ltN, lg, lgN
      <4> QED BY <1>2, <2>3, <2>6
    <3>3. teeMech = SeenMech(ms, mg, ml) /\ teeMech' = SeenMech(ms, mg, mlN)
      <4> HIDE DEF ms, msN, mg, mgN, ml, mlN
      <4> QED BY <1>2, <2>3
    <3>4. ml \in BOOLEAN /\ mlN \in BOOLEAN BY <3>1
    <3> HIDE DEF ms, mg, ml, mlN
    <3>5. TeeStep BY <3>1, <3>2, <3>3, <3>4, MechCalls
    <3> QED BY <3>5
  <2> QED BY <2>4, <2>5, <2>6
<1>6. CASE BuysNow(p, q)
  <2>1. /\ p.state = "None" /\ p.dispute = 0 /\ p.deliveredAt = 0 /\ q.state = "Funded"
        /\ q.dispute = 0 /\ q.deliveredAt = 0 /\ ~(timestamp' > q.deliveryDeadline)
    <3>1. q.deliveryDeadline >= timestamp /\ timestamp' = timestamp /\ q.deliveryDeadline \in Nat
      BY <1>3, <1>6, NextLinked DEF BuysNow, Linked, PurchaseInv, TypePurchases, Purchase
    <3> QED BY <1>3, <1>6, <3>1 DEF BuysNow, NoPurchase
  <2>2. /\ ky = 0 /\ kyN = 0 /\ lt = FALSE /\ ltN = FALSE /\ uv = FALSE /\ uvN = FALSE
        /\ st = "None" /\ stN = "Funded"
    BY <2>1
  <2>3. lg = <<>> \o <<>> /\ lgN = first \o <<>> BY <2>1
  <2>4. lg = <<>> /\ lgN = Append(lg, Tee!PurchaseJob(w))
    <3> HIDE DEF lg, lgN
    <3> QED BY <2>3, EventsAppend DEF Tee!PurchaseJob
  <2>5. msN = ms /\ mgN = mg /\ mlN = ml BY <2>1
  <2>6. UNCHANGED teeMech
    <3> HIDE DEF ms, msN, mg, mgN, ml, mlN
    <3> QED BY <1>2, <2>5
  <2> HIDE DEF st, stN, ky, kyN, lt, ltN, lg, lgN
  <2>7. teeSale = SeenSale(st, ky, lt) /\ teeSale' = SeenSale(stN, ky, lt) BY <1>2, <2>2
  <2>8. teeLog' = Append(teeLog, Tee!PurchaseJob(w)) BY <1>2, <2>4
  <2>9. TeeStep BY <2>2, <2>6, <2>7, <2>8, LoggedCalls
  <2> QED BY <2>9
\* The calls that move the sale and open no dispute.
<1>7. ASSUME UNCHANGED <<disputes, timestamp>>, q.dispute = p.dispute, p.state # "None", q.state # "None"
      PROVE  uvN = uv /\ msN = ms /\ mgN = mg /\ mlN = ml /\ lgN = lg /\ UNCHANGED <<teeMech, teeLog>>
  <2>1. uvN = uv /\ e = dd /\ timestamp' = timestamp BY <1>7
  <2>2. msN = ms /\ mgN = mg /\ mlN = ml /\ lgN = lg BY <1>7, <2>1
  <2>3. UNCHANGED <<teeMech, teeLog>>
    <3> HIDE DEF ms, msN, mg, mgN, ml, mlN, lg, lgN
    <3> QED BY <1>2, <2>2
  <2> QED BY <2>1, <2>2, <2>3
<1>8. /\ lt \in BOOLEAN /\ ltN \in BOOLEAN /\ ml \in BOOLEAN /\ mlN \in BOOLEAN
  OBVIOUS
<1>9. CASE DeliversNow(p, q) \/ RefundsNow(p, q) \/ ClosesNow(p, q) \/ RatesNow(p, q)
  <2>1. /\ UNCHANGED <<disputes, timestamp>> /\ q.dispute = p.dispute
        /\ p.state \in {"Funded", "Delivered", "Settled"}
        /\ q.state \in {"Delivered", "Refunded", "Settled"}
    BY <1>9 DEF DeliversNow, RefundsNow, ClosesNow, RatesNow, SameDispute
  <2>2. UNCHANGED <<teeMech, teeLog>> /\ st = p.state /\ stN = q.state BY <1>7, <2>1
  <2>3. CASE DeliversNow(p, q)
    <3>1. /\ st = "Funded" /\ stN = "Delivered" /\ lt = FALSE /\ ltN = lt /\ kyN = -1
      BY <1>3, <2>2, <2>3 DEF DeliversNow
    <3> HIDE DEF st, stN, ky, kyN, lt, ltN
    <3>2. TeeStep BY <1>2, <1>8, <2>2, <3>1, SaleCalls
    <3> QED BY <3>2
  <2>4. CASE RefundsNow(p, q)
    <3>1. /\ st = "Funded" /\ stN = "Refunded" /\ lt = TRUE /\ ltN = lt /\ kyN = ky
      BY <1>3, <2>2, <2>4 DEF RefundsNow
    <3> HIDE DEF st, stN, ky, kyN, lt, ltN
    <3>2. TeeStep BY <1>2, <1>8, <2>2, <3>1, SaleCalls
    <3> QED BY <3>2
  <2>5. CASE ClosesNow(p, q)
    <3>1. /\ st = "Delivered" /\ stN = "Settled" /\ ltN = lt /\ kyN = ky
      BY <1>3, <2>2, <2>5 DEF ClosesNow
    <3> HIDE DEF st, stN, ky, kyN, lt, ltN
    <3>2. TeeStep BY <1>2, <1>8, <2>2, <3>1, SaleCalls
    <3> QED BY <3>2
  <2>6. CASE RatesNow(p, q)
    <3>1. stN = st /\ ltN = lt /\ kyN = ky BY <1>3, <2>2, <2>6 DEF RatesNow
    <3> HIDE DEF st, stN, ky, kyN, lt, ltN
    <3>2. UNCHANGED <<teeSale, teeMech, teeLog>> BY <1>2, <2>2, <3>1
    <3> QED BY <3>2
  <2> QED BY <1>9, <2>3, <2>4, <2>5, <2>6
<1>10. CASE DisputesNow(w, p, q)
  <2>1. /\ p.state = "Delivered" /\ q.state = "Disputed" /\ q.deliveredAt = p.deliveredAt
        /\ q.dispute \in DisputeId /\ q.dispute # 0 /\ timestamp' = timestamp
        /\ e.ground # "FalseDescription" => e.status = "Voting" /\ e.verifierDeadline >= timestamp
    BY <1>3, <1>10 DEF DisputesNow
  <2>2. uv = FALSE BY <1>3, <2>1
  <2>3. /\ st = "Delivered" /\ ky = kyN /\ lt = FALSE /\ ltN = lt /\ ms = "None" /\ ml = FALSE
        /\ mg = "BrokenOrHashMismatch"
    BY <2>1, <2>2
  <2>4. lg = first \o <<>> BY <2>1, <2>2
  <2>5. CASE uvN
    <3>1. /\ e.ground \in Tee!TeeGrounds /\ e.status = "Voting" /\ ~(timestamp' > e.verifierDeadline)
      <4>1. timestamp' \in Nat /\ e.verifierDeadline \in Nat
        BY <1>3, <2>1, NextLinked DEF Linked, DisputeInv, TypeDisputes, Dispute
      <4> QED BY <2>1, <2>5, <4>1 DEF Tee!TeeGrounds
    <3>2. stN = "Disputed" /\ msN = "Voting" /\ mlN = FALSE /\ mgN = e.ground
      BY <2>1, <2>5, <3>1
    <3>3. lgN = first \o second BY <2>1, <2>5
    <3>4. lgN = Append(lg, Tee!DisputeJob(w))
      <4> HIDE DEF lg, lgN
      <4> QED BY <2>4, <3>3, EventsAppend DEF Tee!DisputeJob
    <3> HIDE DEF st, stN, ky, kyN, lt, ltN, lg, lgN, ms, msN, mg, mgN, ml, mlN, uv, uvN, e
    <3>5. teeMech = SeenMech("None", mg, ml) /\ teeMech' = SeenMech("Voting", mgN, ml)
      BY <1>2, <2>3, <3>2
    <3>6. [SeenMech("None", mg, ml) EXCEPT !.status = "Voting", !.ground = mgN]
            = SeenMech("Voting", mgN, ml)
      BY MechOpens
    <3>7. teeMech' = [teeMech EXCEPT !.status = "Voting", !.ground = mgN] BY <3>5, <3>6
    <3>8. mgN \in Tee!TeeGrounds BY <3>1, <3>2
    <3>9. teeSale = SeenSale(st, ky, lt) /\ teeSale' = SeenSale(stN, ky, lt) BY <1>2, <2>3
    <3>10. teeLog' = Append(teeLog, Tee!DisputeJob(w)) BY <1>2, <3>4
    <3>11. TeeStep BY <2>3, <3>2, <3>7, <3>8, <3>9, <3>10, LoggedCalls
    <3> QED BY <3>11
  <2>6. CASE ~uvN
    <3>1. /\ stN = "Delivered" /\ msN = "None" /\ mlN = FALSE /\ mgN = "BrokenOrHashMismatch"
          /\ lgN = first \o <<>>
      BY <2>1, <2>6
    <3> HIDE DEF st, stN, ky, kyN, lt, ltN, ms, msN, mg, mgN, ml, mlN, lg, lgN
    <3> QED BY <1>4, <2>3, <2>4, <3>1
  <2> QED BY <2>5, <2>6
<1>11. CASE JudgedNow(p, q)
  <2>1. /\ p.state = "Disputed" /\ q.state = "Settled" /\ q.dispute = p.dispute
        /\ p.dispute \in DisputeId /\ OpenDispute(p.dispute) /\ timestamp' = timestamp
        /\ e.ground = dd.ground /\ e.status = "Resolved" /\ e.verifierDeadline = dd.verifierDeadline
        /\ q.deliveredAt = p.deliveredAt
    BY <1>11 DEF JudgedNow
  <2>2. uvN = uv /\ stN = "Settled" /\ kyN = ky /\ lt = FALSE /\ ltN = lt BY <1>3, <2>1
  <2>3. lgN = lg BY <2>1, <2>2
  <2>4. CASE uv
    <3>1. dd.status = "Voting"
      <4>1. CaseSound(p.dispute) BY <2>1 DEF CaseInv, Links
      <4> QED BY <2>1, <2>4, <4>1 DEF CaseSound, OpenDispute
    <3>2. st = "Disputed" /\ ms = "Voting" /\ msN = "Resolved" /\ mgN = mg /\ mlN = ml
      BY <2>1, <2>2, <2>4, <3>1
    <3> HIDE DEF st, stN, ky, kyN, lt, ltN, ms, msN, mg, mgN, ml, mlN, lg, lgN
    <3>3. [SeenSale(st, ky, lt) EXCEPT !.state = stN] = SeenSale(stN, ky, lt) BY DEF SeenSale
    <3>4. teeSale' = [teeSale EXCEPT !.state = "Settled"] BY <1>2, <2>2, <3>3
    <3>5. /\ teeMech = SeenMech(ms, mg, ml) /\ teeMech' = SeenMech(msN, mg, ml) /\ UNCHANGED teeLog
      BY <1>2, <2>3, <3>2
    <3>6. TeeStep BY <1>8, <3>2, <3>4, <3>5, MechCalls
    <3> QED BY <3>6
  <2>5. CASE ~uv
    <3>1. st = "Delivered" /\ msN = ms /\ mgN = mg /\ mlN = ml BY <2>1, <2>2, <2>5
    <3> HIDE DEF st, stN, ky, kyN, lt, ltN, ms, msN, mg, mgN, ml, mlN, lg, lgN
    <3>2. UNCHANGED <<teeMech, teeLog>> BY <1>2, <2>3, <3>1
    <3>3. TeeStep BY <1>2, <1>8, <2>2, <3>1, <3>2, SaleCalls
    <3> QED BY <3>3
  <2> QED BY <2>4, <2>5
<1> QED BY <1>1, <1>5, <1>6, <1>9, <1>10, <1>11 DEF TradeStep

\* For the relay and the verifier the contract is TeeChain: whatever is called, the watched
\* purchase and the dispute before the verifier go through the states they expect, and each
\* event comes with the state it announces.
THEOREM ContractIsTeeChain == Spec => ImplementsTeeChain
<1>1. Init => Tee!ChainInit /\ DisputeNamed /\ FeesDated
  <2> SUFFICES ASSUME Init PROVE Tee!ChainInit /\ DisputeNamed /\ FeesDated OBVIOUS
  <2>1. \A i \in PurchaseId : purchases[i] = NoPurchase BY DEF Init, InitPurchases
  <2>2. \A i \in PurchaseId : /\ purchases[i].state = "None" /\ purchases[i].dispute = 0
                              /\ purchases[i].deliveredAt = 0
    BY <2>1 DEF NoPurchase
  <2>3. DisputeNamed BY <2>2 DEF DisputeNamed
  <2>4. FeesDated
    BY ConstantsOK DEF ConstantsOK, Init, InitChain, InitCatalog, NoPreview, FeesDated
  <2>5. watched.state = "None" /\ watched.dispute = 0 /\ watched.deliveredAt = 0
    BY <2>2, WatchedOK DEF watched
  <2>6. teeSale = [state |-> "None", key |-> 0, late |-> FALSE] BY <2>5 DEF teeSale
  <2>7. teeMech = [status |-> "None", ground |-> "BrokenOrHashMismatch", finding |-> 0, late |-> FALSE]
    BY <2>5 DEF teeMech, UnderVerifier
  <2>8. teeLog = <<>> \o <<>> BY <2>5 DEF teeLog, UnderVerifier
  <2> QED BY <2>3, <2>4, <2>6, <2>7, <2>8, EventsAppend DEF Tee!ChainInit, Tee!None
<1>2. Linked /\ CaseInv /\ DisputeNamed /\ FeesDated /\ [Next]_vars =>
        DisputeNamed' /\ FeesDated' /\ [TeeStep]_<<teeSale, teeMech, teeLog>>
  BY NamesPreserved, FeeSteps, TeeSteps
<1>3. Spec => Tee!ChainInit /\ [][TeeStep]_<<teeSale, teeMech, teeLog>>
  BY <1>1, <1>2, CaseHolds, PTL DEF Spec
<1> QED BY <1>3 DEF ImplementsTeeChain
=============================================================================
