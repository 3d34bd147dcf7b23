------------------------ MODULE EnvMarketClientsProofs ------------------------
(***************************************************************************)
(* What the market's clients may rely on, for every value of its           *)
(* constants: the figures, promises and buttons of the web app's pages,    *)
(* and the juror services' view of a panel.                                *)
(***************************************************************************)
EXTENDS EnvMarketMoneyProofs, WebPages

---------------------------------------------------------------------------
(* What a seller's page counts *)

\* A page's sums over a seller's qualifying sales are those RepInv keeps.
LEMMA PagesCount == Linked /\ CaseInv /\ RepInv => ConcentrationMatches
<1> SUFFICES ASSUME Linked, CaseInv, RepInv, NEW a \in Accounts
             PROVE  concentration(a) = [count |-> sellerStats[a].qualifyingTx,
                                        totalRetained |-> sellerStats[a].retainedVolume]
  BY DEF ConcentrationMatches
<1> DEFINE mine == {i \in salesOf(a) : tradeRow(i).settled /\ tradeRow(i).retained > 0}
           volume == [i \in mine |-> tradeRow(i).retained]
           sales == ofSeller(a, "qualifyingTx")
           kept == ofSeller(a, "retainedVolume")
<1>1. /\ sellerStats[a].qualifyingTx = SumFunction(sales)
      /\ sellerStats[a].retainedVolume = SumFunction(kept)
  <2>1. "qualifyingTx" \in SellerFields /\ "retainedVolume" \in SellerFields BY DEF SellerFields
  <2> QED BY <2>1 DEF RepInv, SellersCount
<1>2. sales \in [PurchaseId -> Int] /\ kept \in [PurchaseId -> Int]
  BY RepTyped DEF RepNumbers, SellerFields
<1>3. ASSUME NEW i \in PurchaseId
      PROVE  /\ i \in mine => tradeRow(i).retained = kept[i]
             /\ i \notin mine => kept[i] = 0
             /\ sales[i] = IF i \in mine THEN 1 ELSE 0
  <2> DEFINE p == purchases[i]
  <2>0. p \in Purchase /\ SaleSound(p)
    BY DEF Linked, PurchaseInv, TypePurchases, CaseInv, Sales
  <2>1. p.terms.price \in Int /\ p.refunded \in Int BY <2>0 DEF Purchase, Terms
  <2>2. p.state = "Settled" => p.refunded \in 0..p.terms.price BY <2>0 DEF SaleSound
  <2>3. /\ tradeRow(i).settled = (p.state = "Settled")
        /\ tradeRow(i).retained = p.terms.price - p.refunded
    BY DEF tradeRow
  <2>4. i \in mine <=> p.seller = a /\ p.state = "Settled" /\ p.terms.price - p.refunded > 0
    BY <2>3 DEF salesOf
  <2>5. /\ kept[i] = (IF p.seller = a THEN keptOf(p) ELSE 0)
        /\ sales[i] = (IF p.seller = a THEN one(keptOf(p) > 0) ELSE 0)
    BY RepEntries, CountedFields DEF inSeller, gainsOf
  <2> HIDE DEF mine, sales, kept, p
  <2> QED BY <2>1, <2>2, <2>3, <2>4, <2>5 DEF keptOf, one
<1>4. mine \in SUBSET PurchaseId BY DEF salesOf
<1> HIDE DEF mine, sales, kept
<1>5. SumFunction(sales) = Cardinality(mine) BY <1>2, <1>3, <1>4, CountIsSum
<1>6. SumFunction(volume) = SumFunction(kept)
  <2>1. volume \in [mine -> Int] /\ \A i \in mine : volume[i] = kept[i] BY <1>2, <1>3, <1>4
  <2>2. \A i \in PurchaseId \ mine : kept[i] = 0 BY <1>3
  <2> HIDE DEF volume
  <2> QED BY <1>2, <1>4, <2>1, <2>2, SumRestricted, IdsFinite
<1>7. concentration(a) = [count |-> Cardinality(mine), totalRetained |-> SumFunction(volume)]
  BY DEF concentration, mine
<1> HIDE DEF volume
<1> QED BY <1>1, <1>5, <1>6, <1>7

\* What a seller's page counts from events is always what the contract counted: every
\* qualifying sale once, at the volume it retained, whatever was refunded or disputed.
THEOREM PagesCountAsContract == Spec => []ConcentrationMatches
<1>1. Linked /\ CaseInv /\ RepInv => ConcentrationMatches BY PagesCount
<1> QED BY <1>1, RepHolds, PTL

---------------------------------------------------------------------------
(* What each call writes on a record and credits to an account *)

\* A purchase starts with nothing delivered and nothing remedied.
LEMMA BuyRecord ==
  ASSUME Linked, NEW a \in Buyers, NEW v \in VersionId, buy(a, v)
  PROVE  LET q == purchases'[nextPurchaseId] IN
         /\ purchases[nextPurchaseId] = NoPurchase
         /\ q.state = "Funded" /\ q.deliveredAt = 0 /\ q.remediedMask = {} /\ q.dispute = 0
         /\ OnlyPurchase(nextPurchaseId) /\ UNCHANGED <<disputes, seats, claimable, timestamp>>
<1> DEFINE i == nextPurchaseId
           q == [NoPurchase EXCEPT !.state = "Funded", !.version = v, !.buyer = a,
                   !.seller = versions[v].seller, !.terms = versions[v].terms, !.par = params,
                   !.deliveryDeadline = timestamp + versions[v].terms.deliveryWindow]
<1>1. i \in PurchaseId /\ purchases' = [purchases EXCEPT ![i] = q] BY DEF buy
<1>2. purchases \in [PurchaseId -> Purchase] /\ purchases[i] = NoPurchase
  BY <1>1 DEF Linked, PurchaseInv, TypePurchases, PurchaseId
<1>3. q.state = "Funded" /\ q.deliveredAt = 0 /\ q.remediedMask = {} /\ q.dispute = 0
  BY DEF NoPurchase
<1> HIDE DEF q
<1>4. purchases'[i] = q /\ OnlyPurchase(i) BY <1>1, <1>2 DEF OnlyPurchase
<1> QED BY <1>2, <1>3, <1>4 DEF buy, cases, chain

\* What the calls on a sale without a dispute write beside what SaleMoves says.
LEMMA SaleRecords ==
  ASSUME Linked, NEW i \in PurchaseId
  PROVE  LET p == purchases[i]
             q == purchases'[i]
         IN /\ \A s : recordDelivery(i, s) =>
                 /\ p.state = "Funded" /\ q.state = "Delivered" /\ q.dispute = p.dispute
                 /\ q.deliveredAt = timestamp /\ q.remediedMask = p.remediedMask
                 /\ UNCHANGED <<claimable, timestamp>>
            /\ refundUndelivered(i) =>
                 /\ p.state = "Funded" /\ q.state = "Refunded" /\ q.dispute = p.dispute
                 /\ claimable' = credit(claimable, p.buyer, p.terms.price) /\ timestamp' = timestamp
            /\ finalize(i) =>
                 /\ p.state = "Delivered" /\ q.state = "Settled" /\ q.dispute = p.dispute
                 /\ q.deliveredAt = p.deliveredAt /\ q.challengeDeadline = p.challengeDeadline
                 /\ claimable' = credit(claimable, p.seller, closeProceeds(p, 0))
                 /\ timestamp' = timestamp
            /\ \A n : rate(i, n) =>
                 /\ p.state = "Settled" /\ q.state = "Settled" /\ q.dispute = p.dispute
                 /\ q.deliveredAt = p.deliveredAt /\ q.challengeDeadline = p.challengeDeadline
                 /\ UNCHANGED <<claimable, timestamp>>
            /\ \A g, m : openDispute(i, g, m) =>
                 /\ p.state = "Delivered" /\ q.state = "Disputed"
                 /\ q.remediedMask = p.remediedMask /\ q.deliveredAt = p.deliveredAt
                 /\ q.challengeDeadline = p.challengeDeadline /\ timestamp <= p.challengeDeadline
                 /\ UNCHANGED <<claimable, timestamp>>
<1> DEFINE p == purchases[i]
           q == purchases'[i]
<1>1. purchases \in [PurchaseId -> Purchase] BY DEF Linked, PurchaseInv, TypePurchases
<1>2. p \in Purchase BY <1>1
<1>3. ASSUME NEW s, recordDelivery(i, s)
      PROVE  /\ p.state = "Funded" /\ q.state = "Delivered" /\ q.dispute = p.dispute
             /\ q.deliveredAt = timestamp /\ q.remediedMask = p.remediedMask
             /\ UNCHANGED <<claimable, timestamp>>
  <2> DEFINE w == [p EXCEPT !.state = "Delivered", !.deliveredAt = timestamp,
                           !.challengeDeadline = timestamp + p.terms.challengeWindow]
  <2>1. /\ w.state = "Delivered" /\ w.dispute = p.dispute
        /\ w.deliveredAt = timestamp /\ w.remediedMask = p.remediedMask
    BY <1>2 DEF Purchase
  <2>2. /\ purchases' = [purchases EXCEPT ![i] = w]
        /\ p.state = "Funded" /\ UNCHANGED <<claimable, timestamp>>
    BY <1>3 DEF recordDelivery, chain
  <2> HIDE DEF w
  <2> QED BY <1>1, <2>1, <2>2
<1>4. ASSUME refundUndelivered(i)
      PROVE  /\ p.state = "Funded" /\ q.state = "Refunded" /\ q.dispute = p.dispute
             /\ claimable' = credit(claimable, p.buyer, p.terms.price) /\ timestamp' = timestamp
  <2> DEFINE w == [p EXCEPT !.state = "Refunded", !.refunded = p.terms.price]
  <2>1. w.state = "Refunded" /\ w.dispute = p.dispute BY <1>2 DEF Purchase
  <2>2. /\ purchases' = [purchases EXCEPT ![i] = w]
        /\ p.state = "Funded" /\ timestamp' = timestamp
        /\ claimable' = credit(claimable, p.buyer, p.terms.price)
    BY <1>4 DEF refundUndelivered, chain
  <2> HIDE DEF w
  <2> QED BY <1>1, <2>1, <2>2
<1>5. ASSUME finalize(i)
      PROVE  /\ p.state = "Delivered" /\ q.state = "Settled" /\ q.dispute = p.dispute
             /\ q.deliveredAt = p.deliveredAt /\ q.challengeDeadline = p.challengeDeadline
             /\ claimable' = credit(claimable, p.seller, closeProceeds(p, 0))
             /\ timestamp' = timestamp
  <2> DEFINE w == closed(p, 0)
  <2>1. /\ w.state = "Settled" /\ w.dispute = p.dispute
        /\ w.deliveredAt = p.deliveredAt /\ w.challengeDeadline = p.challengeDeadline
    BY <1>2 DEF closed, Purchase
  <2>2. /\ purchases' = [purchases EXCEPT ![i] = w]
        /\ p.state = "Delivered" /\ timestamp' = timestamp
        /\ claimable' = credit(claimable, p.seller, closeProceeds(p, 0))
    BY <1>5 DEF finalize, chain
  <2> HIDE DEF w
  <2> QED BY <1>1, <2>1, <2>2
<1>6. ASSUME NEW n, rate(i, n)
      PROVE  /\ p.state = "Settled" /\ q.state = "Settled" /\ q.dispute = p.dispute
             /\ q.deliveredAt = p.deliveredAt /\ q.challengeDeadline = p.challengeDeadline
             /\ UNCHANGED <<claimable, timestamp>>
  <2> DEFINE w == [p EXCEPT !.rated = TRUE, !.stars = n]
  <2>1. /\ w.state = p.state /\ w.dispute = p.dispute
        /\ w.deliveredAt = p.deliveredAt /\ w.challengeDeadline = p.challengeDeadline
    BY <1>2 DEF Purchase
  <2>2. /\ purchases' = [purchases EXCEPT ![i] = w]
        /\ p.state = "Settled" /\ UNCHANGED <<claimable, timestamp>>
    BY <1>6 DEF rate, chain
  <2> HIDE DEF w
  <2> QED BY <1>1, <2>1, <2>2
<1>7. ASSUME NEW g, NEW m, openDispute(i, g, m)
      PROVE  /\ p.state = "Delivered" /\ q.state = "Disputed"
             /\ q.remediedMask = p.remediedMask /\ q.deliveredAt = p.deliveredAt
             /\ q.challengeDeadline = p.challengeDeadline /\ timestamp <= p.challengeDeadline
             /\ UNCHANGED <<claimable, timestamp>>
  <2> DEFINE w == [p EXCEPT !.state = "Disputed", !.dispute = nextDisputeId]
  <2>1. /\ w.state = "Disputed" /\ w.remediedMask = p.remediedMask
        /\ w.deliveredAt = p.deliveredAt /\ w.challengeDeadline = p.challengeDeadline
    BY <1>2 DEF Purchase
  <2>2. /\ purchases' = [purchases EXCEPT ![i] = w]
        /\ p.state = "Delivered" /\ timestamp <= p.challengeDeadline
        /\ UNCHANGED <<claimable, timestamp>>
    BY <1>7 DEF openDispute, chain
  <2> HIDE DEF w
  <2> QED BY <1>1, <2>1, <2>2
<1> QED BY <1>3, <1>4, <1>5, <1>6, <1>7

\* A dispute records the quote of the tasks it names, and its bond is paid in.
LEMMA OpenRecord ==
  ASSUME Linked, NEW i \in PurchaseId, NEW g, NEW m, openDispute(i, g, m)
  PROVE  LET e == disputes'[nextDisputeId]
             p == purchases[i]
         IN /\ e.taskMask = m /\ m # {} /\ e.requested = requestedRefund(p, m)
            /\ e.caseFee = p.par.caseFee /\ e.bond = bondFor(p, m)
            /\ balance' = balance + bondFor(p, m) /\ seats' = seats
<1> DEFINE p == purchases[i]
           d == nextDisputeId
           base == [NoDispute EXCEPT !.purchase = i, !.ground = g, !.taskMask = m,
                      !.requested = requestedRefund(p, m), !.bond = bondFor(p, m),
                      !.caseFee = p.par.caseFee, !.par = params]
           jury == [base EXCEPT !.status = "AwaitingSelection", !.round = 1]
           armed == armSelection(jury)
           mech == [base EXCEPT !.status = "Voting",
                                !.verifierDeadline = timestamp + params.verifierTimeout]
           e == IF g = "FalseDescription" THEN armed ELSE mech
<1>1. d \in DisputeId /\ disputes' = [disputes EXCEPT ![d] = newDispute(i, g, m)] BY DEF openDispute
<1>2. newDispute(i, g, m) = e BY DEF newDispute
<1>3. /\ base.taskMask = m /\ base.requested = requestedRefund(p, m)
      /\ base.caseFee = p.par.caseFee /\ base.bond = bondFor(p, m)
      /\ DOMAIN base = DOMAIN NoDispute
  BY DEF NoDispute
<1>4. /\ mech.taskMask = base.taskMask /\ mech.requested = base.requested
      /\ mech.caseFee = base.caseFee /\ mech.bond = base.bond
  BY DEF NoDispute
<1>5. /\ armed.taskMask = base.taskMask /\ armed.requested = base.requested
      /\ armed.caseFee = base.caseFee /\ armed.bond = base.bond
  BY DEF NoDispute, armSelection
<1> HIDE DEF base, mech, armed
<1>6. /\ e.taskMask = m /\ e.requested = requestedRefund(p, m)
      /\ e.caseFee = p.par.caseFee /\ e.bond = bondFor(p, m)
  BY <1>3, <1>4, <1>5
<1> HIDE DEF e
<1>7. disputes \in [DisputeId -> Dispute] BY DEF Linked, DisputeInv, TypeDisputes
<1>8. disputes'[d] = e BY <1>1, <1>2, <1>7
<1>9. m # {} /\ balance' = balance + bondFor(p, m) /\ seats' = seats BY DEF openDispute
<1> QED BY <1>6, <1>8, <1>9

\* A resolution records its outcome and leaves the times of its purchase alone.
LEMMA ResolveRecord ==
  ASSUME Linked, NEW d \in DisputeId, disputes[d].status # "None", NEW out, NEW extra,
         resolve(d, out, extra)
  PROVE  LET e == disputes'[d]
             p == purchases[disputes[d].purchase]
             q == purchases'[disputes[d].purchase]
         IN /\ e.confirmedMask = out.mask /\ e.refund = out.refund
            /\ e.requested = disputes[d].requested
            /\ q.challengeDeadline = p.challengeDeadline /\ q.penalties = out.penalty
            /\ timestamp' = timestamp
<1> DEFINE dd == disputes[d]
           i == dd.purchase
           p == purchases[i]
           e == [dd EXCEPT !.status = "Resolved", !.verdict = out.verdict, !.refund = out.refund,
                           !.fallbackNoQuorum = out.fallback, !.confirmedMask = out.mask]
           q == [closed(p, out.refund) EXCEPT !.remediedMask = @ \cup out.remedied,
                                              !.penalties = out.penalty]
<1>1. dd \in Dispute /\ i \in PurchaseId /\ p \in Purchase BY DisputedPurchase
<1>2. /\ disputes \in [DisputeId -> Dispute] /\ purchases \in [PurchaseId -> Purchase]
  BY DEF Linked, DisputeInv, TypeDisputes, PurchaseInv, TypePurchases
<1>3. /\ disputes' = [disputes EXCEPT ![d] = e] /\ purchases' = [purchases EXCEPT ![i] = q]
      /\ timestamp' = timestamp
  BY DEF resolve, chain
<1>4. e.confirmedMask = out.mask /\ e.refund = out.refund /\ e.requested = dd.requested
  BY <1>1 DEF Dispute
<1>5. q.challengeDeadline = p.challengeDeadline /\ q.penalties = out.penalty
  BY <1>1 DEF closed, Purchase
<1> HIDE DEF e, q
<1>6. disputes'[d] = e /\ purchases'[i] = q BY <1>1, <1>2, <1>3
<1> QED BY <1>3, <1>4, <1>5, <1>6

---------------------------------------------------------------------------
(* The progress bars *)

\* The steps of a purchase's bar as a function of its record and the time.
stepsDone(p, t) ==
  LET settled == p.state = "Settled"
      inWindow == p.deliveredAt # 0 /\ t <= p.challengeDeadline
  IN IF p.state = "Refunded" /\ p.deliveredAt = 0 THEN {"paid", "undelivered", "refunded"}
     ELSE {"paid"}
       \cup (IF p.deliveredAt # 0 THEN {"delivered"} ELSE {})
       \cup (IF p.dispute # 0 /\ p.state # "Disputed" THEN {"reported"} ELSE {})
       \cup (IF p.dispute # 0 /\ settled THEN {"decided"} ELSE {})
       \cup (IF p.dispute = 0 /\ p.deliveredAt # 0 /\ (settled \/ ~inWindow) THEN {"window"} ELSE {})
       \cup (IF p.dispute = 0 /\ settled THEN {"complete"} ELSE {})

\* The page computes its steps from nothing else, now as in the next state.
LEMMA TrackerIs ==
  ASSUME NEW i \in PurchaseId
  PROVE  /\ Tracker(i).done = stepsDone(purchases[i], timestamp)
         /\ Tracker(i)'.done = stepsDone(purchases'[i], timestamp')
<1>1. Tracker(i).done = stepsDone(purchases[i], timestamp) BY DEF Tracker, stepsDone, now
<1>2. Tracker(i)'.done = stepsDone(purchases'[i], timestamp') BY DEF Tracker, stepsDone, now
<1> QED BY <1>1, <1>2

\* Time alone takes no step back.
LEMMA TrackerWaits ==
  ASSUME NEW p \in Purchase, NEW t \in Nat, NEW u \in Nat, u >= t
  PROVE  stepsDone(p, t) \subseteq stepsDone(p, u)
<1>1. p.challengeDeadline \in Nat BY DEF Purchase
<1>2. u <= p.challengeDeadline => t <= p.challengeDeadline BY <1>1
<1> QED BY <1>2 DEF stepsDone

\* Nor does a call on the purchase.
LEMMA TrackerMoves ==
  ASSUME NEW p, NEW q, NEW t,
         \/ p.state = "Funded" /\ p.deliveredAt = 0 /\ p.dispute = 0
         \/ /\ q.deliveredAt = p.deliveredAt /\ q.challengeDeadline = p.challengeDeadline
            /\ \/ p.state \in {"Delivered", "Settled"} /\ q.state = "Settled" /\ q.dispute = p.dispute
               \/ p.state = "Delivered" /\ p.dispute = 0 /\ q.state = "Disputed"
                    /\ t <= p.challengeDeadline
               \/ p.state = "Disputed" /\ q.state = "Settled" /\ p.dispute # 0 /\ q.dispute # 0
  PROVE  stepsDone(p, t) \subseteq stepsDone(q, t)
<1>1. CASE p.state = "Funded" /\ p.deliveredAt = 0 /\ p.dispute = 0
  <2>1. stepsDone(p, t) = {"paid"} BY <1>1 DEF stepsDone
  <2>2. "paid" \in stepsDone(q, t) BY DEF stepsDone
  <2> QED BY <2>1, <2>2
<1>2. CASE /\ q.deliveredAt = p.deliveredAt /\ q.challengeDeadline = p.challengeDeadline
           /\ p.state \in {"Delivered", "Settled"} /\ q.state = "Settled" /\ q.dispute = p.dispute
  BY <1>2 DEF stepsDone
<1>3. CASE /\ q.deliveredAt = p.deliveredAt /\ q.challengeDeadline = p.challengeDeadline
           /\ p.state = "Delivered" /\ p.dispute = 0 /\ q.state = "Disputed"
           /\ t <= p.challengeDeadline
  BY <1>3 DEF stepsDone
<1>4. CASE /\ q.deliveredAt = p.deliveredAt /\ q.challengeDeadline = p.challengeDeadline
           /\ p.state = "Disputed" /\ q.state = "Settled" /\ p.dispute # 0 /\ q.dispute # 0
  BY <1>4 DEF stepsDone
<1> QED BY <1>1, <1>2, <1>3, <1>4

\* The stages of a dispute as a function of its record, its seats and the time.
casting(dd, sd, t) ==
  /\ dd.ground = "FalseDescription" /\ dd.status = "Voting" /\ t <= dd.commitDeadline
  /\ \E a \in DOMAIN sd[dd.round] : sd[dd.round][a].commitment = "None"
cast(dd, sd, t) ==
  dd.ground = "FalseDescription" /\ dd.status = "Voting" /\ ~casting(dd, sd, t)

AllStages == {"reported", "drawn", "cast", "revealed", "decided"}

\* Before it is decided, what Stages holds for done.
LEMMA StagesOpen ==
  ASSUME NEW d \in DisputeId
  PROVE  /\ disputes[d].status # "Resolved" =>
              Stages(d).done = {"reported"}
                \cup (IF disputes[d].status # "AwaitingSelection"
                         /\ DOMAIN seats[d][1] \cup DOMAIN seats[d][2] # {} THEN {"drawn"} ELSE {})
                \cup (IF cast(disputes[d], seats[d], timestamp) THEN {"cast"} ELSE {})
                \cup (IF cast(disputes[d], seats[d], timestamp)
                         /\ \A a \in DOMAIN panel(d) : panel(d)[a].revealed THEN {"revealed"} ELSE {})
         /\ disputes'[d].status # "Resolved" =>
              Stages(d)'.done = {"reported"}
                \cup (IF disputes'[d].status # "AwaitingSelection"
                         /\ DOMAIN seats'[d][1] \cup DOMAIN seats'[d][2] # {} THEN {"drawn"} ELSE {})
                \cup (IF cast(disputes'[d], seats'[d], timestamp') THEN {"cast"} ELSE {})
                \cup (IF cast(disputes'[d], seats'[d], timestamp')
                         /\ \A a \in DOMAIN panel(d)' : panel(d)'[a].revealed THEN {"revealed"} ELSE {})
<1>1. ASSUME disputes[d].status # "Resolved"
      PROVE  Stages(d).done = {"reported"}
                \cup (IF disputes[d].status # "AwaitingSelection"
                         /\ DOMAIN seats[d][1] \cup DOMAIN seats[d][2] # {} THEN {"drawn"} ELSE {})
                \cup (IF cast(disputes[d], seats[d], timestamp) THEN {"cast"} ELSE {})
                \cup (IF cast(disputes[d], seats[d], timestamp)
                         /\ \A a \in DOMAIN panel(d) : panel(d)[a].revealed THEN {"revealed"} ELSE {})
  BY <1>1 DEF Stages, cast, casting, Jury, allCommitted, allRevealed, panel, now
<1>2. ASSUME disputes'[d].status # "Resolved"
      PROVE  Stages(d)'.done = {"reported"}
                \cup (IF disputes'[d].status # "AwaitingSelection"
                         /\ DOMAIN seats'[d][1] \cup DOMAIN seats'[d][2] # {} THEN {"drawn"} ELSE {})
                \cup (IF cast(disputes'[d], seats'[d], timestamp') THEN {"cast"} ELSE {})
                \cup (IF cast(disputes'[d], seats'[d], timestamp')
                         /\ \A a \in DOMAIN panel(d)' : panel(d)'[a].revealed THEN {"revealed"} ELSE {})
  BY <1>2 DEF Stages, cast, casting, Jury, allCommitted, allRevealed, panel, now
<1> QED BY <1>1, <1>2

\* Once decided, every stage is done or was skipped.
LEMMA StagesClosed ==
  ASSUME NEW d \in DisputeId
  PROVE  /\ Stages(d).done \subseteq AllStages
         /\ disputes'[d].status = "Resolved" => Stages(d)'.done \cup Stages(d)'.skipped = AllStages
<1>1. Stages(d).done \subseteq AllStages BY DEF Stages, AllStages
<1>2. disputes'[d].status = "Resolved" => Stages(d)'.done \cup Stages(d)'.skipped = AllStages
  BY DEF Stages, AllStages
<1> QED BY <1>1, <1>2

StagesKept(d) ==
  disputes[d].ground = "FalseDescription" /\ disputes'[d].round = disputes[d].round =>
    Stages(d).done \subseteq Stages(d)'.done \cup Stages(d)'.skipped

\* No stage is lost by a decision, nor while a panel is awaited.
LEMMA StagesRuled ==
  ASSUME NEW d \in DisputeId, disputes'[d].status = "Resolved" PROVE StagesKept(d)
BY StagesClosed DEF StagesKept

LEMMA StagesAwaited ==
  ASSUME NEW d \in DisputeId, disputes[d].status = "AwaitingSelection" PROVE StagesKept(d)
<1>1. CASE disputes'[d].status = "Resolved" BY <1>1, StagesRuled
<1>2. CASE disputes'[d].status # "Resolved"
  <2>1. Stages(d).done = {"reported"} BY StagesOpen DEF cast
  <2>2. "reported" \in Stages(d)'.done BY <1>2, StagesOpen
  <2> QED BY <2>1, <2>2 DEF StagesKept
<1> QED BY <1>1, <1>2

\* Nor while nobody calls and the deadlines pass.
LEMMA StagesWait ==
  ASSUME NEW d \in DisputeId, disputes'[d] = disputes[d], seats'[d] = seats[d],
         disputes[d] \in Dispute, timestamp \in Nat, timestamp' \in Nat, timestamp' >= timestamp
  PROVE  StagesKept(d)
<1>1. CASE disputes'[d].status = "Resolved" BY <1>1, StagesRuled
<1>2. CASE disputes'[d].status # "Resolved"
  <2>1. disputes[d].commitDeadline \in Nat BY DEF Dispute
  <2>2. cast(disputes[d], seats[d], timestamp) => cast(disputes'[d], seats'[d], timestamp')
    BY <2>1 DEF cast, casting
  <2>3. panel(d)' = panel(d) BY DEF panel
  <2> DEFINE S == Stages(d).done
             T == Stages(d)'.done
  <2>4. S \subseteq T BY <1>2, <2>2, <2>3, StagesOpen
  <2> QED BY <2>4 DEF StagesKept
<1> QED BY <1>1, <1>2

\* A vote is committed while votes are cast, and revealed before all are.
LEMMA StagesVoted ==
  ASSUME Linked, NEW d \in DisputeId, NEW a, NEW v \in {"Uphold", "Reject"},
         commitVote(d, a, v) \/ revealVote(d, a)
  PROVE  StagesKept(d) /\ timestamp' = timestamp
<1> DEFINE r == disputes[d].round
           sd == seats[d][r]
           td == seats'[d][r]
<1>1. /\ Jury(d, "Voting") /\ r \in Rounds /\ OnlyPanel(d, r) /\ a \in DOMAIN sd
      /\ DOMAIN td = DOMAIN sd /\ disputes' = disputes
      /\ \A b \in DOMAIN sd : b # a => td[b] = sd[b]
      /\ \/ commitVote(d, a, v)
         \/ revealVote(d, a) /\ td[a].commitment = sd[a].commitment /\ td[a].revealed
  BY VoteMoves
<1>2. timestamp' = timestamp BY DEF commitVote, revealVote, chain
<1>3. panel(d) = sd /\ panel(d)' = td BY <1>1 DEF panel
<1>4. disputes[d].status = "Voting" /\ disputes'[d] = disputes[d] BY <1>1 DEF Jury
<1>5. DOMAIN seats'[d][1] \cup DOMAIN seats'[d][2] = DOMAIN seats[d][1] \cup DOMAIN seats[d][2]
  <2>1. \A k \in Rounds : DOMAIN seats'[d][k] = DOMAIN seats[d][k] BY <1>1 DEF OnlyPanel
  <2> QED BY <2>1 DEF Rounds
<1>6. cast(disputes[d], seats[d], timestamp) => cast(disputes'[d], seats'[d], timestamp')
  <2>1. CASE commitVote(d, a, v)
    <3>1. casting(disputes[d], seats[d], timestamp)
      BY <2>1 DEF commitVote, casting, Jury, panel
    <3> QED BY <3>1 DEF cast
  <2>2. CASE revealVote(d, a) /\ td[a].commitment = sd[a].commitment
    <3>1. \A b \in DOMAIN sd : td[b].commitment = sd[b].commitment BY <1>1, <2>2
    <3> QED BY <1>1, <1>2, <1>4, <3>1 DEF cast, casting
  <2> QED BY <1>1, <2>1, <2>2
<1>7. cast(disputes[d], seats[d], timestamp) => ~\A b \in DOMAIN sd : sd[b].revealed
  <2>1. CASE commitVote(d, a, v)
    <3>1. casting(disputes[d], seats[d], timestamp)
      BY <2>1 DEF commitVote, casting, Jury, panel
    <3> QED BY <3>1 DEF cast
  <2>2. CASE revealVote(d, a) BY <1>1, <2>2 DEF revealVote, panel
  <2> QED BY <2>1, <2>2
<1> HIDE DEF sd, td
<1> DEFINE S == Stages(d).done
           T == Stages(d)'.done
           drawn == DOMAIN seats[d][1] \cup DOMAIN seats[d][2] # {}
<1>8. S \subseteq {"reported"} \cup (IF drawn THEN {"drawn"} ELSE {})
             \cup (IF cast(disputes[d], seats[d], timestamp) THEN {"cast"} ELSE {})
  BY <1>3, <1>4, <1>7, StagesOpen
<1>9. {"reported"} \cup (IF drawn THEN {"drawn"} ELSE {})
        \cup (IF cast(disputes'[d], seats'[d], timestamp') THEN {"cast"} ELSE {}) \subseteq T
  BY <1>4, <1>5, StagesOpen
<1>10. S \subseteq T BY <1>6, <1>8, <1>9
<1> HIDE DEF S, T
<1> QED BY <1>2, <1>10 DEF StagesKept, S, T

---------------------------------------------------------------------------
(* What the quotes rest on *)

\* Nothing is remedied on a sale that is still open, and a funded one is undelivered.
SaleQuoted(p) ==
  /\ p.state \in {"Funded", "Delivered", "Disputed"} => p.remediedMask = {}
  /\ p.state = "Funded" => p.deliveredAt = 0

\* An open dispute asks for the refund its tasks were quoted at, at the sale's case fee.
CaseQuoted(d) ==
  LET dd == disputes[d]
      p  == purchases[dd.purchase]
  IN OpenDispute(d) =>
       /\ dd.taskMask # {} /\ dd.requested = requestedRefund(p, dd.taskMask)
       /\ dd.caseFee = p.par.caseFee

\* Nobody is paid for a panel before the verdict.
SlashesNat(d) == \A r \in Rounds : \A a \in DOMAIN seats[d][r] : seats[d][r][a].slashed >= 0
SeatsUnpaid(d) == \A r \in Rounds : \A a \in DOMAIN seats[d][r] : seats[d][r][a].reward = 0

Quoted ==
  /\ \A i \in PurchaseId : SaleQuoted(purchases[i])
  /\ \A d \in DisputeId : /\ CaseQuoted(d) /\ SlashesNat(d)
                          /\ disputes[d].status # "Resolved" => SeatsUnpaid(d)

\* A dispute record is written once; a resolution adds its outcome.
SameQuote(dd, e) == SameCase(dd, e) /\ e.requested = dd.requested

DisputeCall(d) ==
  \/ \E u \in BOOLEAN, m \in SUBSET disputes[d].taskMask, s \in Signers :
       resolveMechanical(d, u, m, s)
  \/ timeoutMechanical(d) \/ selectJurors(d) \/ tallyDispute(d)
  \/ \E a \in JurorPool : revealVote(d, a) \/ \E v \in {"Uphold", "Reject"} : commitVote(d, a, v)

\* A call that does not decide its dispute ...
Continues(d) ==
  /\ UNCHANGED <<purchases, claimable, timestamp>> /\ OpenDispute(d)'
  /\ SameQuote(disputes[d], disputes'[d]) /\ SlashesNat(d)' /\ SeatsUnpaid(d)' /\ StagesKept(d)

\* ... and one that does: the outcome, and what jurors get and lose by it.
OutcomeFor(d, out) ==
  LET dd == disputes[d]
      p  == purchases[dd.purchase]
  IN \/ \E m \in SUBSET dd.taskMask : m # {} /\ out = upholdOutcome(p, dd, m)
     \/ out = rejectOutcome(dd)
     \/ out = fallbackOutcome(dd)
PaidWithin(d, out) ==
  LET paid == OutcomeCard(d)'.jurorPaid IN
  /\ paid <= purchases[disputes[d].purchase].par.caseFee + OutcomeCard(d)'.jurorSlashed
  /\ out.fallback => paid = 0
Rules(d) ==
  \E out \in Outcome, extra \in Extra :
    /\ resolve(d, out, extra) /\ OutcomeFor(d, out)
    /\ extra.pay[purchases[disputes[d].purchase].buyer] = 0
    /\ extra.pay[purchases[disputes[d].purchase].seller] = 0
    /\ SlashesNat(d)' /\ PaidWithin(d, out)

\* The seats of a round that was not decided add nothing up, and have lost no less.
LEMMA UnpaidSums ==
  ASSUME NEW pn, NEW D \in SUBSET Accounts, pn \in [D -> Seat],
         \A a \in D : pn[a].reward = 0 /\ pn[a].slashed >= 0
  PROVE  /\ SumFunction([a \in DOMAIN pn |-> pn[a].reward]) = 0
         /\ SumFunction([a \in DOMAIN pn |-> pn[a].slashed]) \in Int
         /\ SumFunction([a \in DOMAIN pn |-> pn[a].slashed]) >= 0
<1> DEFINE lost == [a \in D |-> pn[a].slashed]
<1>1. IsFiniteSet(D) BY ConstantsOK, FS_Subset
<1>2. [a \in D |-> pn[a].reward] = [a \in D |-> 0] OBVIOUS
<1>3. lost \in [D -> Int] /\ \A a \in D : lost[a] >= 0 BY DEF Seat
<1> HIDE DEF lost
<1>4. SumFunction([a \in D |-> pn[a].reward]) = 0 BY <1>1, <1>2, SumZero
<1>5. SumFunction(lost) \in Int /\ SumFunction(lost) >= 0 BY <1>1, <1>3, SumTyped, SumNat
<1>6. DOMAIN pn = D OBVIOUS
<1> QED BY <1>4, <1>5, <1>6 DEF lost

\* A decision on which no juror is paid.
LEMMA NobodyPaid ==
  ASSUME Linked', NEW d \in DisputeId, SeatsUnpaid(d)', SlashesNat(d)', NEW out,
         purchases[disputes[d].purchase].par.caseFee \in Nat
  PROVE  PaidWithin(d, out)
<1>1. \A r \in Rounds : /\ DOMAIN seats'[d][r] \in SUBSET Accounts
                        /\ seats'[d][r] \in [DOMAIN seats'[d][r] -> Seat]
  BY DEF Linked, SeatInv, TypeSeats
<1>2. \A r \in Rounds : \A a \in DOMAIN seats'[d][r] :
        seats'[d][r][a].reward = 0 /\ seats'[d][r][a].slashed >= 0
  BY DEF SeatsUnpaid, SlashesNat
<1> DEFINE paid(r) == SumFunction([a \in DOMAIN seats'[d][r] |-> seats'[d][r][a].reward])
           lost(r) == SumFunction([a \in DOMAIN seats'[d][r] |-> seats'[d][r][a].slashed])
<1>3. \A r \in Rounds : paid(r) = 0 /\ lost(r) \in Int /\ lost(r) >= 0
  BY <1>1, <1>2, UnpaidSums
<1>4. OutcomeCard(d)'.jurorPaid = paid(1) + paid(2) /\ OutcomeCard(d)'.jurorSlashed = lost(1) + lost(2)
  BY DEF OutcomeCard
<1> HIDE DEF paid, lost
<1>5. paid(1) = 0 /\ paid(2) = 0 /\ lost(1) \in Nat /\ lost(2) \in Nat BY <1>3 DEF Rounds
<1> QED BY <1>4, <1>5 DEF PaidWithin

\* A decision that pays no juror has what Rules asks.
LEMMA PlainRules ==
  ASSUME Linked, Linked', NEW d \in DisputeId, disputes[d].status # "None",
         NEW out \in Outcome, OutcomeFor(d, out), NEW extra \in Extra, extra.pay = NoPay,
         resolve(d, out, extra), SeatsUnpaid(d)', SlashesNat(d)'
  PROVE  Rules(d)
<1> DEFINE p == purchases[disputes[d].purchase]
<1>1. p.par.caseFee \in Nat /\ p.buyer \in Accounts /\ p.seller \in Accounts
  <2>1. p \in Purchase /\ WellMade(p) /\ p.state # "None" BY DisputedPurchase
  <2> HIDE DEF p
  <2> QED BY <2>1, PurchaseNat
<1>2. PaidWithin(d, out) BY <1>1, NobodyPaid
<1>3. extra.pay[p.buyer] = 0 /\ extra.pay[p.seller] = 0 BY <1>1 DEF NoPay
<1> QED BY <1>2, <1>3 DEF Rules

\* The seats of a dispute whose panels a call leaves alone stay as they are.
LEMMA SeatsAsBefore ==
  ASSUME Quoted, NEW d \in DisputeId, disputes[d].status # "Resolved", seats' = seats
  PROVE  SeatsUnpaid(d)' /\ SlashesNat(d)'
BY DEF Quoted, SeatsUnpaid, SlashesNat

LEMMA MechanicalRules ==
  ASSUME Linked, Linked', Quoted, NEW d \in DisputeId, NEW u \in BOOLEAN,
         NEW m \in SUBSET disputes[d].taskMask, NEW s,
         resolveMechanical(d, u, m, s) \/ timeoutMechanical(d)
  PROVE  Rules(d)
<1> DEFINE dd == disputes[d]
           p  == purchases[dd.purchase]
<1>1. dd.status = "Voting" /\ seats' = seats BY DEF resolveMechanical, timeoutMechanical
<1>2. /\ dd \in Dispute /\ p \in Purchase /\ WellMade(p) /\ p.state # "None"
      /\ dd.taskMask \in SUBSET (1..p.terms.taskCount)
  BY <1>1, DisputedPurchase
<1>3. SeatsUnpaid(d)' /\ SlashesNat(d)' BY <1>1, SeatsAsBefore
<1>4. CASE resolveMechanical(d, u, m, s)
  <2> DEFINE out == IF u THEN upholdOutcome(p, dd, m) ELSE rejectOutcome(dd)
             extra == [NoExtra EXCEPT !.treasury = out.caseFee]
  <2>1. resolve(d, out, extra) /\ (u => m # {}) BY <1>4 DEF resolveMechanical
  <2>2. out \in Outcome BY <1>2, UpholdTyped, RejectTyped
  <2>3. OutcomeFor(d, out) BY <2>1 DEF OutcomeFor
  <2> HIDE DEF out
  <2>4. out.caseFee \in Int BY <2>2 DEF Outcome
  <2>5. extra \in Extra BY <2>4, NoExtraTyped
  <2>6. extra.pay = NoPay BY DEF NoExtra
  <2> HIDE DEF extra
  <2> QED BY <1>1, <1>3, <2>1, <2>2, <2>3, <2>5, <2>6, PlainRules
<1>5. CASE timeoutMechanical(d)
  <2>1. resolve(d, fallbackOutcome(dd), NoExtra) BY <1>5 DEF timeoutMechanical
  <2>2. fallbackOutcome(dd) \in Outcome /\ NoExtra \in Extra BY <1>2, RejectTyped, NoExtraTyped
  <2>3. OutcomeFor(d, fallbackOutcome(dd)) BY DEF OutcomeFor
  <2>4. NoExtra.pay = NoPay BY DEF NoExtra
  <2> QED BY <1>1, <1>3, <2>1, <2>2, <2>3, <2>4, PlainRules
<1> QED BY <1>4, <1>5

\* A stale selection is armed again, a panel drawn, a second round opened.
LEMMA ArmedQuote ==
  ASSUME NEW dd \in Dispute
  PROVE  /\ \A n : LET e == [dd EXCEPT !.selectionBlock = n] IN
              SameQuote(dd, e) /\ e.status = dd.status
         /\ SameQuote(dd, secondRound(dd)) /\ secondRound(dd).status = "AwaitingSelection"
         /\ secondRound(dd).round = 2
<1>1. \A n : LET e == [dd EXCEPT !.selectionBlock = n] IN
        SameQuote(dd, e) /\ e.status = dd.status
  BY DEF SameQuote, SameCase, Dispute
<1>2. /\ SameQuote(dd, secondRound(dd)) /\ secondRound(dd).status = "AwaitingSelection"
      /\ secondRound(dd).round = 2
  BY DEF SameQuote, SameCase, Dispute, secondRound, armSelection
<1> QED BY <1>1, <1>2

LEMMA DrawnQuote ==
  ASSUME NEW dd \in Dispute, NEW n, NEW k, NEW e,
         e = [dd EXCEPT !.status = "Voting", !.commitDeadline = n, !.revealDeadline = k]
  PROVE  SameQuote(dd, e) /\ e.status = "Voting"
BY DEF SameQuote, SameCase, Dispute

LEMMA SelectContinues ==
  ASSUME Linked, Linked', Quoted, NEW d \in DisputeId, selectJurors(d)
  PROVE  Continues(d) \/ Rules(d)
<1> DEFINE dd == disputes[d]
           e  == disputes'[d]
<1>1. /\ dd.status = "AwaitingSelection" /\ Jury(d, "AwaitingSelection")
      /\ dd.ground = "FalseDescription"
  BY DEF selectJurors, SelectionOpen, Jury
<1>2. dd \in Dispute /\ disputes \in [DisputeId -> Dispute] /\ dd.round \in Rounds
  BY <1>1, DisputedPurchase, PanelTyped DEF Linked, DisputeInv, TypeDisputes, DisputeStatus
<1>3. StagesKept(d) BY <1>1, StagesAwaited
<1>4. CASE rearmSelection(d)
  <2>1. /\ disputes' = [disputes EXCEPT ![d].selectionBlock = blockNumber + 2]
        /\ UNCHANGED <<purchases, claimable, timestamp, seats>>
    BY <1>4 DEF rearmSelection, chain
  <2>2. e = [dd EXCEPT !.selectionBlock = blockNumber + 2] BY <1>2, <2>1
  <2> HIDE DEF e
  <2>3. SameQuote(dd, e) /\ e.status = dd.status BY <1>2, <2>2, ArmedQuote
  <2>4. SeatsUnpaid(d)' /\ SlashesNat(d)' BY <1>1, <2>1, SeatsAsBefore
  <2> QED BY <1>1, <1>3, <2>1, <2>3, <2>4 DEF Continues, OpenDispute, e
<1>5. ASSUME NEW chosen \in SUBSET eligible(d), seatPanel(d, chosen) PROVE Continues(d)
  <2>1. /\ disputes' = [disputes EXCEPT ![d] =
              [dd EXCEPT !.status = "Voting", !.commitDeadline = timestamp + dd.par.commitWindow,
                 !.revealDeadline = timestamp + dd.par.commitWindow + dd.par.revealWindow]]
        /\ UNCHANGED <<purchases, claimable, timestamp>>
        /\ seats' = [seats EXCEPT ![d][dd.round] = [a \in chosen |-> EmptySeat]]
    BY <1>5 DEF seatPanel, chain
  <2>2. e = [dd EXCEPT !.status = "Voting", !.commitDeadline = timestamp + dd.par.commitWindow,
               !.revealDeadline = timestamp + dd.par.commitWindow + dd.par.revealWindow]
    BY <1>2, <2>1
  <2> HIDE DEF e
  <2>3. SameQuote(dd, e) /\ e.status = "Voting" BY <1>2, <2>2, DrawnQuote
  <2>4. /\ DOMAIN seats = DisputeId /\ DOMAIN seats[d] = Rounds
    BY DEF Linked, SeatInv, TypeSeats
  <2>5. \A r \in Rounds : seats'[d][r] = IF r = dd.round THEN [a \in chosen |-> EmptySeat] ELSE seats[d][r]
    BY <1>2, <2>1, <2>4
  <2>6. SeatsUnpaid(d) /\ SlashesNat(d) BY <1>1 DEF Quoted
  <2>7. EmptySeat.reward = 0 /\ EmptySeat.slashed = 0 BY DEF EmptySeat
  <2>8. SeatsUnpaid(d)' /\ SlashesNat(d)' BY <2>5, <2>6, <2>7 DEF SeatsUnpaid, SlashesNat
  <2> QED BY <1>3, <2>1, <2>3, <2>8 DEF Continues, OpenDispute, e
<1>6. CASE panelUnfillable(d)
  <2>1. seats' = seats BY <1>6 DEF panelUnfillable
  <2>2. SeatsUnpaid(d)' /\ SlashesNat(d)' BY <1>1, <2>1, SeatsAsBefore
  <2>3. CASE dd.round = 1
    <3>1. disputes' = [disputes EXCEPT ![d] = secondRound(dd)]
          /\ UNCHANGED <<purchases, claimable, timestamp>>
      BY <1>6, <2>3 DEF panelUnfillable, chain
    <3>2. e = secondRound(dd) BY <1>2, <3>1
    <3> HIDE DEF e
    <3>3. SameQuote(dd, e) /\ e.status = "AwaitingSelection" BY <1>2, <3>2, ArmedQuote
    <3> QED BY <1>3, <2>2, <3>1, <3>3 DEF Continues, OpenDispute, e
  <2>4. CASE dd.round # 1
    <3>1. resolve(d, fallbackOutcome(dd), NoExtra) BY <1>6, <2>4 DEF panelUnfillable
    <3>2. fallbackOutcome(dd) \in Outcome /\ NoExtra \in Extra BY <1>2, RejectTyped, NoExtraTyped
    <3>3. OutcomeFor(d, fallbackOutcome(dd)) BY DEF OutcomeFor
    <3>4. NoExtra.pay = NoPay BY DEF NoExtra
    <3> QED BY <1>1, <2>2, <3>1, <3>2, <3>3, <3>4, PlainRules
  <2> QED BY <2>3, <2>4
<1> QED BY <1>4, <1>5, <1>6 DEF selectJurors

\* A vote pays and slashes nobody.
LEMMA VoteContinues ==
  ASSUME Linked, Quoted, NEW d \in DisputeId, NEW a, NEW v \in {"Uphold", "Reject"},
         commitVote(d, a, v) \/ revealVote(d, a)
  PROVE  Continues(d)
<1> DEFINE dd == disputes[d]
           sd == seats[d][dd.round]
           td == seats'[d][dd.round]
<1>1. /\ Jury(d, "Voting") /\ dd.round \in Rounds /\ OnlyPanel(d, dd.round) /\ a \in DOMAIN sd
      /\ DOMAIN td = DOMAIN sd /\ UNCHANGED <<purchases, disputes>>
      /\ \A b \in DOMAIN sd : b # a => td[b] = sd[b]
  BY VoteMoves
<1>2. UNCHANGED <<claimable, timestamp>> BY DEF commitVote, revealVote, chain
<1>3. /\ DOMAIN seats = DisputeId /\ DOMAIN seats[d] = Rounds /\ sd \in [DOMAIN sd -> Seat]
      /\ sd[a] \in Seat
  BY <1>1 DEF Linked, SeatInv, TypeSeats
<1>4. td[a].reward = sd[a].reward /\ td[a].slashed = sd[a].slashed
  <2>1. CASE commitVote(d, a, v)
    <3> DEFINE s == [sd[a] EXCEPT !.commitment = v]
    <3>1. seats' = [seats EXCEPT ![d][dd.round][a].commitment = v] BY <2>1 DEF commitVote
    <3>2. td[a] = s BY <1>1, <1>3, <3>1
    <3>3. s.reward = sd[a].reward /\ s.slashed = sd[a].slashed BY <1>3 DEF Seat
    <3> HIDE DEF s
    <3> QED BY <3>2, <3>3
  <2>2. CASE revealVote(d, a)
    <3> DEFINE s == [sd[a] EXCEPT !.revealed = TRUE]
    <3>1. seats' = [seats EXCEPT ![d][dd.round][a].revealed = TRUE] BY <2>2 DEF revealVote
    <3>2. td[a] = s BY <1>1, <1>3, <3>1
    <3>3. s.reward = sd[a].reward /\ s.slashed = sd[a].slashed BY <1>3 DEF Seat
    <3> HIDE DEF s
    <3> QED BY <3>2, <3>3
  <2> QED BY <2>1, <2>2
<1>5. dd.status = "Voting" BY <1>1 DEF Jury
<1>6. SeatsUnpaid(d) /\ SlashesNat(d) BY <1>5 DEF Quoted
<1>7. \A r \in Rounds : r # dd.round => seats'[d][r] = seats[d][r] BY <1>1 DEF OnlyPanel
<1>8. \A b \in DOMAIN td : td[b].reward = sd[b].reward /\ td[b].slashed = sd[b].slashed
  BY <1>1, <1>4
<1>9. SeatsUnpaid(d)' /\ SlashesNat(d)'
  <2> SUFFICES ASSUME NEW r \in Rounds, NEW b \in DOMAIN seats'[d][r]
               PROVE  seats'[d][r][b].reward = 0 /\ seats'[d][r][b].slashed >= 0
    BY DEF SeatsUnpaid, SlashesNat
  <2>1. CASE r = dd.round BY <1>1, <1>6, <1>8, <2>1 DEF SeatsUnpaid, SlashesNat
  <2>2. CASE r # dd.round BY <1>6, <1>7, <2>2 DEF SeatsUnpaid, SlashesNat
  <2> QED BY <2>1, <2>2
<1>10. StagesKept(d) BY StagesVoted
<1>11. SameQuote(dd, disputes'[d]) BY <1>1 DEF SameQuote, SameCase
<1> QED BY <1>1, <1>2, <1>5, <1>9, <1>10, <1>11 DEF Continues, OpenDispute

\* What a settled round's seats earn and lose, seat by seat and in all.
LEMMA SettledSeats ==
  ASSUME Linked, NEW d \in DisputeId, Jury(d, "Voting"), NEW v, NEW per \in Int, NEW share \in Int,
         settleSeats(d, v, per, share)
  PROVE  LET r  == disputes[d].round
             pn == panel(d)
         IN /\ DOMAIN seats'[d][r] = DOMAIN pn /\ r \in Rounds
            /\ \A a \in DOMAIN pn :
                 /\ seats'[d][r][a].slashed = seatSlash(disputes[d], pn[a], v)
                 /\ seats'[d][r][a].reward = seatReward(disputes[d], pn[a], v, per, share)
            /\ \A k \in Rounds : k # r => seats'[d][k] = seats[d][k]
<1> DEFINE dd == disputes[d]
           r == dd.round
           pn == panel(d)
           slash(a) == seatSlash(dd, pn[a], v)
           reward(a) == seatReward(dd, pn[a], v, per, share)
           new == [a \in DOMAIN pn |-> [pn[a] EXCEPT !.slashed = slash(a), !.reward = reward(a)]]
<1>1. r \in Rounds /\ pn \in [DOMAIN pn -> Seat] BY PanelTyped DEF DisputeStatus
<1>2. DOMAIN seats = DisputeId /\ DOMAIN seats[d] = Rounds BY DEF Linked, SeatInv, TypeSeats
<1>3. seats' = [seats EXCEPT ![d][r] = new] BY DEF settleSeats
<1>4. \A a \in DOMAIN pn : new[a].slashed = slash(a) /\ new[a].reward = reward(a)
  <2> SUFFICES ASSUME NEW a \in DOMAIN pn
               PROVE  new[a].slashed = slash(a) /\ new[a].reward = reward(a)
    OBVIOUS
  <2>1. pn[a] \in Seat BY <1>1
  <2> HIDE DEF slash, reward
  <2>2. new[a] = [pn[a] EXCEPT !.slashed = slash(a), !.reward = reward(a)] OBVIOUS
  <2> QED BY <2>1, <2>2 DEF Seat
<1>5. DOMAIN new = DOMAIN pn OBVIOUS
<1> HIDE DEF new, slash, reward
<1>6. seats'[d][r] = new /\ \A k \in Rounds : k # r => seats'[d][k] = seats[d][k]
  BY <1>1, <1>2, <1>3
<1> QED BY <1>1, <1>4, <1>5, <1>6 DEF slash, reward

\* The round that is not settled stays unpaid, and no slash is negative.
LEMMA SettledSlashes ==
  ASSUME Linked, Quoted, NEW d \in DisputeId, Jury(d, "Voting"), NEW v,
         NEW per \in Int, NEW share \in Int, settleSeats(d, v, per, share)
  PROVE  /\ SlashesNat(d)'
         /\ v = "None" => SeatsUnpaid(d)'
         /\ \A k \in Rounds : k # disputes[d].round =>
              \A a \in DOMAIN seats'[d][k] : seats'[d][k][a].reward = 0
<1> DEFINE dd == disputes[d]
           r == dd.round
           pn == panel(d)
<1>1. /\ DOMAIN seats'[d][r] = DOMAIN pn
      /\ \A a \in DOMAIN pn :
           /\ seats'[d][r][a].slashed = seatSlash(dd, pn[a], v)
           /\ seats'[d][r][a].reward = seatReward(dd, pn[a], v, per, share)
      /\ \A k \in Rounds : k # r => seats'[d][k] = seats[d][k]
  BY SettledSeats
<1>2. dd.status = "Voting" BY DEF Jury
<1>3. SeatsUnpaid(d) /\ SlashesNat(d) BY <1>2 DEF Quoted
<1>4. dd \in Dispute /\ ValidParams(dd.par) BY <1>2, DisputedPurchase
<1>5. \A seat : seatSlash(dd, seat, v) >= 0
  <2>1. seatStake(dd) \in Nat /\ \A seat : seatSlash(dd, seat, v) \in 0..seatStake(dd)
    BY <1>4, SlashBounded
  <2> QED BY <2>1
<1>6. ASSUME NEW k \in Rounds, k # r, NEW a \in DOMAIN seats'[d][k]
      PROVE  seats'[d][k][a].reward = 0 /\ seats'[d][k][a].slashed >= 0
  BY <1>1, <1>3, <1>6 DEF SeatsUnpaid, SlashesNat
<1>7. \A a \in DOMAIN seats'[d][r] : seats'[d][r][a].slashed >= 0 BY <1>1, <1>5
<1>8. v = "None" => \A a \in DOMAIN seats'[d][r] : seats'[d][r][a].reward = 0
  BY <1>1 DEF seatReward
<1>9. SlashesNat(d)' BY <1>6, <1>7 DEF SlashesNat
<1>10. v = "None" => SeatsUnpaid(d)' BY <1>6, <1>8 DEF SeatsUnpaid
<1> QED BY <1>6, <1>9, <1>10

\* The rewards and slashes of the settled round, summed as the page sums them.
LEMMA SettledSums ==
  ASSUME Linked, CaseInv, NEW d \in DisputeId, Jury(d, "Voting"), NEW v, v # "None",
         NEW per \in Int, NEW share \in Int, settleSeats(d, v, per, share)
  PROVE  LET dd == disputes[d]
             pn == panel(d)
             sd == seats'[d][dd.round]
             reveals == Cardinality(revealers(pn))
             majority == Cardinality(votersFor(pn, v))
         IN /\ SumFunction([a \in DOMAIN sd |-> sd[a].reward]) = per * reveals + share * majority
            /\ SumFunction([a \in DOMAIN sd |-> sd[a].slashed])
                 = (SEATS - reveals) * nonRevealSlash(dd) + (reveals - majority) * minoritySlash(dd)
<1> DEFINE dd == disputes[d]
           pn == panel(d)
           D  == DOMAIN pn
           sd == seats'[d][dd.round]
           reward(a) == seatReward(dd, pn[a], v, per, share)
           slash(a) == seatSlash(dd, pn[a], v)
           gains == rewardsOf(dd, pn, v, per, share)
           losses == slashesOf(dd, pn, v)
           paid == [a \in D |-> reward(a)]
           lost == [a \in D |-> slash(a)]
           reveals == Cardinality(revealers(pn))
           majority == Cardinality(votersFor(pn, v))
           missing == (SEATS - reveals) * nonRevealSlash(dd)
           minority == (reveals - majority) * minoritySlash(dd)
<1>1. /\ dd.status = "Voting" /\ JuryCase(dd) /\ "Voting" \in DisputeStatus
  BY DEF Jury, JuryCase, DisputeStatus
<1>2. dd \in Dispute /\ ValidParams(dd.par) BY <1>1, DisputedPurchase
<1>3. /\ dd.round \in Rounds /\ D \in SUBSET Accounts /\ pn \in [D -> Seat]
      /\ pn = seats[d][dd.round]
  BY <1>1, PanelTyped DEF panel
<1>4. Cardinality(D) = SEATS BY <1>1, <1>3 DEF CaseInv, PanelsSound, PanelSound, Drawn
<1> HIDE DEF missing, minority, reveals, majority
<1>5. /\ gains \in [Accounts -> Int] /\ losses \in [Accounts -> Int]
      /\ SumFunction(losses) = missing + minority
      /\ SumFunction(gains) = per * reveals + share * majority
  <2>1. /\ gains \in [Accounts -> Int] /\ losses \in [Accounts -> Int]
    BY <1>2, <1>3, <1>4, PanelSums
  <2>2. SumFunction(gains) = per * Cardinality(revealers(pn)) + share * Cardinality(votersFor(pn, v))
    BY <1>2, <1>3, <1>4, PanelSums
  <2>3. SumFunction(losses) = (SEATS - Cardinality(revealers(pn))) * nonRevealSlash(dd)
                + (Cardinality(revealers(pn)) - Cardinality(votersFor(pn, v))) * minoritySlash(dd)
    BY <1>2, <1>3, <1>4, PanelSums
  <2> QED BY <2>1, <2>2, <2>3 DEF missing, minority, reveals, majority
<1>6. /\ \A a \in D : gains[a] = reward(a) /\ losses[a] = slash(a)
      /\ \A a \in Accounts \ D : gains[a] = 0 /\ losses[a] = 0
  BY <1>3 DEF rewardsOf, slashesOf
<1>7. DOMAIN sd = D /\ \A a \in D : sd[a].slashed = slash(a) /\ sd[a].reward = reward(a)
  BY SettledSeats
<1> HIDE DEF gains, losses, sd
<1>8. paid \in [D -> Int] /\ lost \in [D -> Int]
  <2>1. \A a \in D : gains[a] \in Int /\ losses[a] \in Int BY <1>3, <1>5
  <2>2. \A a \in D : reward(a) \in Int /\ slash(a) \in Int BY <1>6, <2>1
  <2> HIDE DEF reward, slash
  <2> QED BY <2>2
<1>9. [a \in DOMAIN sd |-> sd[a].reward] = paid /\ [a \in DOMAIN sd |-> sd[a].slashed] = lost
  BY <1>7
<1>10. SumFunction(paid) = SumFunction(gains)
  <2>1. \A a \in D : paid[a] = gains[a] BY <1>6
  <2> HIDE DEF paid
  <2> QED BY <1>3, <1>5, <1>6, <1>8, <2>1, SumRestricted, ConstantsOK
<1>11. SumFunction(lost) = SumFunction(losses)
  <2>1. \A a \in D : lost[a] = losses[a] BY <1>6
  <2> HIDE DEF lost
  <2> QED BY <1>3, <1>5, <1>6, <1>8, <2>1, SumRestricted, ConstantsOK
<1> HIDE DEF paid, lost
<1> QED BY <1>5, <1>9, <1>10, <1>11 DEF sd, missing, minority, reveals, majority

\* What the majority and the participants are paid is within the pot and the slashes.
LEMMA PotSuffices ==
  ASSUME NEW dd \in Dispute, ValidParams(dd.par), NEW pot \in Nat, NEW fee \in Nat, pot <= fee,
         NEW reveals \in {2, 3}, NEW majority \in {2, 3}, majority <= reveals,
         NEW per, per = participationPay(dd, pot, reveals),
         NEW share, share = bonusShare(dd, pot, reveals, majority)
  PROVE  /\ per \in Int /\ share \in Int /\ per >= 0 /\ share >= 0
         /\ bonusPool(dd, pot, reveals, majority) \in Int
         /\ per * reveals + share * majority
              <= fee + ((SEATS - reveals) * nonRevealSlash(dd)
                          + (reveals - majority) * minoritySlash(dd))
<1> DEFINE pool == bonusPool(dd, pot, reveals, majority)
           n == nonRevealSlash(dd)
           k == minoritySlash(dd)
<1>1. /\ per \in Int /\ share \in Int /\ pool \in Int
  <2>1. reveals \in Nat /\ reveals > 0 /\ majority \in Nat /\ majority > 0 /\ pot \in Int OBVIOUS
  <2> QED BY <2>1, PayTyped
<1>2. per >= 0 /\ share >= 0 /\ pool - share * majority >= 0 BY PayBounded
<1>3. pool = pot - per * reveals + k * (reveals - majority) BY DEF bonusPool
<1>4. n \in Nat /\ k \in Nat
  <2>1. /\ seatStake(dd) \in Nat /\ n \in 0..seatStake(dd) /\ k \in 0..seatStake(dd)
    BY SlashBounded
  <2> QED BY <2>1
<1> HIDE DEF pool, n, k
<1>5. (SEATS - reveals) * n >= 0
  <2>1. CASE reveals = 2 BY <1>4, <2>1 DEF SEATS
  <2>2. CASE reveals = 3 BY <1>4, <2>2 DEF SEATS
  <2> QED BY <2>1, <2>2
<1>6. per * reveals + share * majority <= fee + ((SEATS - reveals) * n + (reveals - majority) * k)
  <2> DEFINE x == per * reveals
             y == share * majority
             z == (reveals - majority) * k
             w == (SEATS - reveals) * n
  <2>1. x \in Int /\ y \in Int /\ z \in Int /\ w \in Int BY <1>1, <1>4 DEF SEATS
  <2>2. pool = pot - x + z
    <3>1. CASE reveals = majority BY <1>3, <1>4, <3>1
    <3>2. CASE reveals = 3 /\ majority = 2 BY <1>3, <1>4, <3>2
    <3> QED BY <3>1, <3>2
  <2>3. pool - y >= 0 /\ w >= 0 BY <1>2, <1>5
  <2> HIDE DEF x, y, z, w
  <2>4. x + y <= fee + (w + z) BY <1>1, <2>1, <2>2, <2>3
  <2> QED BY <2>4 DEF x, y, z, w
<1> QED BY <1>1, <1>2, <1>6 DEF pool, n, k

\* A majority's decision: what jurors get is theirs and within the case fee and the slashes.
LEMMA DecidedRules ==
  ASSUME Linked, Linked', CaseInv, Quoted, NEW d \in DisputeId, tallyDecided(d)
  PROVE  Rules(d)
<1> DEFINE dd == disputes[d]
           p  == purchases[dd.purchase]
           pn == panel(d)
           D  == DOMAIN pn
           verdict == panelVerdict(pn)
           reveals == Cardinality(revealers(pn))
           majority == Cardinality(votersFor(pn, verdict))
           out == IF verdict = "Uphold" THEN upholdOutcome(p, dd, dd.taskMask)
                  ELSE rejectOutcome(dd)
           per == participationPay(dd, out.caseFee, reveals)
           share == bonusShare(dd, out.caseFee, reveals, majority)
           pool == bonusPool(dd, out.caseFee, reveals, majority)
           missing == (SEATS - reveals) * nonRevealSlash(dd)
           slashes == (reveals - majority) * minoritySlash(dd)
           extra == [treasury |-> 0, reserve |-> missing + (pool - share * majority),
                     jurorStake |-> missing + slashes,
                     claimable |-> per * reveals + share * majority,
                     pay |-> [a \in Accounts |-> IF a \in DOMAIN pn
                                THEN seatReward(dd, pn[a], verdict, per, share) ELSE 0]]
<1>1. /\ Jury(d, "Voting") /\ dd.status = "Voting" /\ "Voting" \in DisputeStatus
      /\ OpenDispute(d) /\ JuryCase(dd)
  BY DEF tallyDecided, TallyReady, Jury, DisputeStatus, OpenDispute, JuryCase
<1>2. /\ dd \in Dispute /\ p \in Purchase /\ WellMade(p) /\ p.state # "None"
      /\ dd.taskMask \in SUBSET (1..p.terms.taskCount) /\ ValidParams(dd.par)
      /\ p.refunded = 0 /\ dd.bond >= 0
  BY <1>1, DisputedPurchase, OpenDisputed DEF CaseInv, Links, CaseSound
<1>3. /\ dd.round \in Rounds /\ D \in SUBSET Accounts /\ pn \in [D -> Seat] /\ reveals \in Nat
      /\ revealers(pn) \subseteq D /\ pn = seats[d][dd.round]
  BY <1>1, PanelTyped DEF panel
<1>4. \A a \in D : pn[a].revealed => pn[a].commitment # "None"
  BY <1>3 DEF Linked, SeatInv, RevealsCommitted
<1>5. Cardinality(D) = SEATS BY <1>1, <1>3 DEF CaseInv, PanelsSound, PanelSound, Drawn
<1>6. reveals <= 3
  <2>1. IsFiniteSet(D) BY <1>3, SeatsFinite
  <2> QED BY <1>3, <1>5, <2>1, FS_Subset DEF SEATS
<1>7. resolve(d, out, extra) /\ verdict # "None" /\ settleSeats(d, verdict, per, share)
  BY DEF tallyDecided
<1>8. majority \in {2, 3} /\ reveals \in {2, 3} /\ majority <= reveals
  <2>1. majority \in Nat /\ majority >= 2 /\ reveals >= 2 /\ majority <= reveals
    BY <1>3, <1>4, <1>7, MajorityPositive
  <2> HIDE DEF majority, reveals
  <2> QED BY <1>3, <1>6, <2>1
<1>9. out \in Outcome /\ Affordable(out, p)
  BY <1>2, UpholdTyped, RejectTyped, OutcomesAffordable
<1>10. OutcomeFor(d, out) /\ ~out.fallback /\ out.caseFee <= p.par.caseFee
  <2>1. dd.taskMask # {} /\ dd.caseFee = p.par.caseFee BY <1>1 DEF Quoted, CaseQuoted
  <2>2. p.par.caseFee \in Nat /\ dd.bond \in Int /\ p.terms.collateral \in Nat
    BY <1>2, PurchaseNat DEF Dispute
  <2>3. CASE verdict = "Uphold"
    <3>1. out = upholdOutcome(p, dd, dd.taskMask) BY <2>3
    <3>2. out.caseFee = upheldCaseFee(p) /\ out.fallback = FALSE BY <3>1 DEF upholdOutcome
    <3> QED BY <2>1, <2>2, <3>1, <3>2 DEF OutcomeFor, upheldCaseFee, Least
  <2>4. CASE verdict # "Uphold"
    <3>1. out = rejectOutcome(dd) BY <2>4
    <3>2. out.caseFee = Least(dd.caseFee, dd.bond) /\ out.fallback = FALSE BY <3>1 DEF rejectOutcome
    <3> QED BY <2>1, <2>2, <3>1, <3>2 DEF OutcomeFor, Least
  <2> QED BY <2>3, <2>4
<1>11. out.caseFee \in Nat /\ p.par.caseFee \in Nat BY <1>2, <1>9, PurchaseNat DEF Outcome, Affordable
<1> HIDE DEF out, verdict, majority, reveals
<1>12. /\ per \in Int /\ share \in Int /\ per >= 0 /\ share >= 0 /\ pool \in Int
       /\ per * reveals + share * majority <= p.par.caseFee + (missing + slashes)
  <2>1. per = participationPay(dd, out.caseFee, reveals) OBVIOUS
  <2>2. share = bonusShare(dd, out.caseFee, reveals, majority) OBVIOUS
  <2>3. dd \in Dispute /\ ValidParams(dd.par) BY <1>2
  <2> DEFINE fee == p.par.caseFee
  <2>4. out.caseFee \in Nat /\ fee \in Nat /\ out.caseFee <= fee BY <1>10, <1>11
  <2> HIDE DEF per, share, dd, fee
  <2>5. /\ per \in Int /\ share \in Int /\ per >= 0 /\ share >= 0
        /\ bonusPool(dd, out.caseFee, reveals, majority) \in Int
    BY <1>8, <2>1, <2>2, <2>3, <2>4, PotSuffices
  <2>6. per * reveals + share * majority
          <= fee + ((SEATS - reveals) * nonRevealSlash(dd) + (reveals - majority) * minoritySlash(dd))
    BY <1>8, <2>1, <2>2, <2>3, <2>4, PotSuffices
  <2> QED BY <2>5, <2>6 DEF fee, dd
<1>13. nonRevealSlash(dd) \in Int /\ minoritySlash(dd) \in Int BY <1>2, SlashInt
<1>14. /\ missing \in Int /\ slashes \in Int /\ per * reveals \in Int /\ share * majority \in Int
  BY <1>8, <1>12, <1>13 DEF SEATS
<1> HIDE DEF per, share, pool
<1>15. extra \in Extra /\ \A a \in Accounts : a \notin D => extra.pay[a] = 0
  <2>1. \A seat : seatReward(dd, seat, verdict, per, share) \in Int BY <1>12 DEF seatReward
  <2>2. /\ missing + (pool - share * majority) \in Int /\ missing + slashes \in Int
        /\ per * reveals + share * majority \in Int
    BY <1>12, <1>14
  <2> HIDE DEF missing, slashes
  <2> QED BY <2>1, <2>2 DEF Extra
<1>16. p.buyer \in Accounts /\ p.seller \in Accounts /\ p.buyer \notin D /\ p.seller \notin D
  <2>1. Impartial(seats[d], p) BY DEF CaseInv, PanelsSound, PanelSound
  <2>2. p.buyer \notin D /\ p.seller \notin D BY <1>3, <2>1 DEF Impartial
  <2> QED BY <1>2, <2>2, PurchaseNat
<1>17. SlashesNat(d)' BY <1>1, <1>7, <1>12, SettledSlashes
<1>18. PaidWithin(d, out)
  <2> DEFINE paid(r) == SumFunction([a \in DOMAIN seats'[d][r] |-> seats'[d][r][a].reward])
             lost(r) == SumFunction([a \in DOMAIN seats'[d][r] |-> seats'[d][r][a].slashed])
  <2>1. /\ paid(dd.round) = per * reveals + share * majority
        /\ lost(dd.round) = missing + slashes
    BY <1>1, <1>7, <1>12, SettledSums DEF reveals, majority
  <2>2. \A k \in Rounds : k # dd.round => paid(k) = 0 /\ lost(k) \in Int /\ lost(k) >= 0
    <3> SUFFICES ASSUME NEW k \in Rounds, k # dd.round
                 PROVE  paid(k) = 0 /\ lost(k) \in Int /\ lost(k) >= 0
      OBVIOUS
    <3>1. DOMAIN seats'[d][k] \in SUBSET Accounts /\ seats'[d][k] \in [DOMAIN seats'[d][k] -> Seat]
      BY DEF Linked, SeatInv, TypeSeats
    <3>2. \A a \in DOMAIN seats'[d][k] : seats'[d][k][a].reward = 0
      BY <1>1, <1>7, <1>12, SettledSlashes
    <3>3. \A a \in DOMAIN seats'[d][k] : seats'[d][k][a].slashed >= 0 BY <1>17 DEF SlashesNat
    <3> QED BY <3>1, <3>2, <3>3, UnpaidSums
  <2>3. OutcomeCard(d)'.jurorPaid = paid(1) + paid(2) /\ OutcomeCard(d)'.jurorSlashed = lost(1) + lost(2)
    BY DEF OutcomeCard
  <2> HIDE DEF paid, lost, missing, slashes
  <2>4. paid(1) + paid(2) <= p.par.caseFee + (lost(1) + lost(2))
    <3>1. CASE dd.round = 1
      <4>1. paid(2) = 0 /\ lost(2) \in Int /\ lost(2) >= 0 BY <2>2, <3>1 DEF Rounds
      <4> QED BY <1>11, <1>12, <1>14, <2>1, <3>1, <4>1
    <3>2. CASE dd.round = 2
      <4>1. paid(1) = 0 /\ lost(1) \in Int /\ lost(1) >= 0 BY <2>2, <3>2 DEF Rounds
      <4> QED BY <1>11, <1>12, <1>14, <2>1, <3>2, <4>1
    <3> QED BY <1>3, <3>1, <3>2 DEF Rounds
  <2> QED BY <1>10, <2>3, <2>4 DEF PaidWithin
<1> HIDE DEF extra
<1> QED BY <1>7, <1>9, <1>10, <1>15, <1>16, <1>17, <1>18 DEF Rules

\* Without a majority nobody is paid, whether the round is followed by another or not.
LEMMA FailedContinues ==
  ASSUME Linked, Linked', CaseInv, Quoted, NEW d \in DisputeId, tallyFailed(d)
  PROVE  Continues(d) \/ Rules(d)
<1> DEFINE dd == disputes[d]
           e  == disputes'[d]
           missing == (SEATS - Cardinality(revealers(panel(d)))) * nonRevealSlash(dd)
<1>1. /\ Jury(d, "Voting") /\ dd.status = "Voting" /\ "Voting" \in DisputeStatus
      /\ settleSeats(d, "None", 0, 0)
  BY DEF tallyFailed, TallyReady, Jury, DisputeStatus
<1>2. /\ dd \in Dispute /\ ValidParams(dd.par) /\ disputes \in [DisputeId -> Dispute]
      /\ dd.round \in Rounds /\ Cardinality(revealers(panel(d))) \in Nat
  BY <1>1, DisputedPurchase, PanelTyped DEF Linked, DisputeInv, TypeDisputes
<1>3. SlashesNat(d)' /\ SeatsUnpaid(d)' BY <1>1, 0 \in Int, SettledSlashes
<1>4. CASE dd.round = 1
  <2>1. /\ disputes' = [disputes EXCEPT ![d] = secondRound(dd)]
        /\ UNCHANGED <<purchases, claimable, timestamp>>
    BY <1>4 DEF tallyFailed, chain
  <2>2. e = secondRound(dd) BY <1>2, <2>1
  <2> HIDE DEF e
  <2>3. SameQuote(dd, e) /\ e.status = "AwaitingSelection" /\ e.round = 2 BY <1>2, <2>2, ArmedQuote
  <2>4. StagesKept(d) BY <1>4, <2>3 DEF StagesKept, e
  <2> QED BY <1>3, <2>1, <2>3, <2>4 DEF Continues, OpenDispute, e
<1>5. CASE dd.round # 1
  <2> DEFINE extra == [NoExtra EXCEPT !.reserve = missing, !.jurorStake = missing]
  <2>1. resolve(d, fallbackOutcome(dd), extra) BY <1>5 DEF tallyFailed
  <2>2. missing \in Int
    <3>1. nonRevealSlash(dd) \in Int BY <1>2, SlashInt
    <3> QED BY <1>2, <3>1 DEF SEATS
  <2> HIDE DEF missing
  <2>3. extra \in Extra /\ extra.pay = NoPay
    <3>1. extra \in Extra BY <2>2, NoExtraTyped DEF Extra
    <3>2. extra.pay = NoPay BY DEF NoExtra
    <3> QED BY <3>1, <3>2
  <2>4. fallbackOutcome(dd) \in Outcome /\ OutcomeFor(d, fallbackOutcome(dd))
    BY <1>2, RejectTyped DEF OutcomeFor
  <2> HIDE DEF extra
  <2> QED BY <1>1, <1>3, <2>1, <2>3, <2>4, PlainRules
<1> QED BY <1>4, <1>5

\* Every call on a dispute leaves it open as quoted, or decides it within its means.
LEMMA DisputeCalls ==
  ASSUME Linked, Linked', CaseInv, Quoted, NEW d \in DisputeId, DisputeCall(d)
  PROVE  Continues(d) \/ Rules(d)
<1>1. CASE \/ \E u \in BOOLEAN, m \in SUBSET disputes[d].taskMask, s \in Signers :
                resolveMechanical(d, u, m, s)
           \/ timeoutMechanical(d)
  <2>1. CASE timeoutMechanical(d)
    <3>1. {} \in SUBSET disputes[d].taskMask /\ TRUE \in BOOLEAN OBVIOUS
    <3> QED BY <2>1, <3>1, MechanicalRules
  <2> QED BY <1>1, <2>1, MechanicalRules
<1>2. CASE selectJurors(d) BY <1>2, SelectContinues
<1>3. CASE tallyDispute(d) BY <1>3, DecidedRules, FailedContinues DEF tallyDispute
<1>4. CASE \E a \in JurorPool : revealVote(d, a) \/ \E v \in {"Uphold", "Reject"} : commitVote(d, a, v)
  BY <1>4, VoteContinues
<1> QED BY <1>1, <1>2, <1>3, <1>4 DEF DisputeCall

---------------------------------------------------------------------------
(* The quotes stay true *)

\* A sale that is delivered or funded has no dispute.
LEMMA Undisputed ==
  ASSUME CaseInv, DisputeNamed, NEW i \in PurchaseId, purchases[i].state \in {"Funded", "Delivered"}
  PROVE  purchases[i].dispute = 0
<1> SUFFICES ASSUME purchases[i].dispute # 0 PROVE FALSE OBVIOUS
<1> DEFINE d == purchases[i].dispute
<1>1. d \in DisputeId /\ disputes[d].status # "None" /\ disputes[d].purchase = i BY DEF DisputeNamed
<1>2. purchases[i].state \in {"Settled", "Disputed"} BY <1>1 DEF CaseInv, Links, CaseSound
<1> QED BY <1>2

\* A quote depends on the sale's terms alone.
LEMMA QuoteOfTerms ==
  ASSUME NEW p, NEW q, Kept(p, q), NEW m
  PROVE  requestedRefund(q, m) = requestedRefund(p, m)
BY DEF Kept, requestedRefund, taskValue, refundCap

\* A dispute nobody touches is as quoted as before.
LEMMA QuoteStill ==
  ASSUME Linked, CaseInv, Quoted, [Next]_vars, NEW d \in DisputeId,
         disputes'[d] = disputes[d], seats'[d] = seats[d]
  PROVE  /\ CaseQuoted(d)' /\ SlashesNat(d)'
         /\ disputes'[d].status # "Resolved" => SeatsUnpaid(d)'
<1> DEFINE i == disputes[d].purchase
<1>1. SlashesNat(d)' BY DEF Quoted, SlashesNat
<1>2. disputes'[d].status # "Resolved" => SeatsUnpaid(d)' BY DEF Quoted, SeatsUnpaid
<1>3. CaseQuoted(d)'
  <2> SUFFICES ASSUME OpenDispute(d) PROVE CaseQuoted(d)' BY DEF CaseQuoted, OpenDispute
  <2>1. i \in PurchaseId /\ purchases[i].state # "None" BY DisputedPurchase DEF OpenDispute
  <2>2. Kept(purchases[i], purchases'[i]) BY <2>1, PartiesKept DEF CaseInv
  <2>3. /\ disputes[d].taskMask # {} /\ disputes[d].caseFee = purchases[i].par.caseFee
        /\ disputes[d].requested = requestedRefund(purchases[i], disputes[d].taskMask)
    BY DEF Quoted, CaseQuoted
  <2>4. requestedRefund(purchases'[i], disputes[d].taskMask)
          = requestedRefund(purchases[i], disputes[d].taskMask)
    BY <2>2, QuoteOfTerms
  <2>5. purchases'[i].par = purchases[i].par BY <2>2 DEF Kept
  <2> QED BY <2>3, <2>4, <2>5 DEF CaseQuoted
<1> QED BY <1>1, <1>2, <1>3

\* A new dispute starts from its quote, with no seat taken or paid.
LEMMA QuoteOpened ==
  ASSUME Linked, CaseInv, Quoted, NEW i \in PurchaseId, NEW g \in Grounds,
         NEW m \in SUBSET (1..purchases[i].terms.taskCount), openDispute(i, g, m),
         NEW d, d = nextDisputeId
  PROVE  CaseQuoted(d)' /\ SlashesNat(d)' /\ SeatsUnpaid(d)'
<1> DEFINE e == disputes'[d]
<1>1. /\ d \in DisputeId /\ e.purchase = i /\ Kept(purchases[i], purchases'[i])
  BY OpenMoves DEF DisputeStep
<1>2. /\ e.taskMask = m /\ m # {} /\ e.requested = requestedRefund(purchases[i], m)
      /\ e.caseFee = purchases[i].par.caseFee /\ seats' = seats
  BY OpenRecord
<1>3. requestedRefund(purchases'[i], m) = requestedRefund(purchases[i], m) BY <1>1, QuoteOfTerms
<1>4. CaseQuoted(d)' BY <1>1, <1>2, <1>3 DEF CaseQuoted, Kept
<1>5. disputes[d] = NoDispute
  <2>1. d \in Nat /\ d >= nextDisputeId BY <1>1, ConstantsOK DEF DisputeId
  <2> QED BY <1>1, <2>1 DEF CaseInv, Links
<1>6. SeatsUnpaid(d) /\ SlashesNat(d) BY <1>1, <1>5 DEF Quoted, NoDispute
<1> QED BY <1>2, <1>4, <1>6 DEF SeatsUnpaid, SlashesNat

\* So does one that is called on.
LEMMA QuoteCalled ==
  ASSUME Linked, CaseInv, Quoted, NEW d \in DisputeId, OpenDispute(d), Continues(d) \/ Rules(d)
  PROVE  /\ CaseQuoted(d)' /\ SlashesNat(d)'
         /\ disputes'[d].status # "Resolved" => SeatsUnpaid(d)'
<1>1. CASE Continues(d)
  <2>1. /\ disputes'[d].purchase = disputes[d].purchase /\ purchases' = purchases
        /\ disputes'[d].taskMask = disputes[d].taskMask
        /\ disputes'[d].caseFee = disputes[d].caseFee
        /\ disputes'[d].requested = disputes[d].requested
        /\ SlashesNat(d)' /\ SeatsUnpaid(d)'
    BY <1>1 DEF Continues, SameQuote, SameCase
  <2>2. CaseQuoted(d) BY DEF Quoted
  <2>3. CaseQuoted(d)' BY <2>1, <2>2 DEF CaseQuoted
  <2> QED BY <2>1, <2>3
<1>2. CASE Rules(d)
  <2>1. PICK out \in Outcome, extra \in Extra : resolve(d, out, extra) /\ SlashesNat(d)'
    BY <1>2 DEF Rules
  <2>2. disputes'[d].status = "Resolved" BY <2>1, ResolveTimes DEF OpenDispute
  <2> QED BY <2>1, <2>2 DEF CaseQuoted, OpenDispute
<1> QED BY <1>1, <1>2

\* The sale a ruling closes.
LEMMA RulingCloses ==
  ASSUME Linked, NEW d \in DisputeId, OpenDispute(d), Continues(d) \/ Rules(d), NEW j \in PurchaseId
  PROVE  purchases'[j] = purchases[j] \/ purchases'[j].state = "Settled"
<1>1. CASE Continues(d) BY <1>1 DEF Continues
<1>2. CASE Rules(d)
  <2>1. PICK out \in Outcome, extra \in Extra : resolve(d, out, extra) BY <1>2 DEF Rules
  <2>2. OnlyPurchase(disputes[d].purchase) /\ purchases'[disputes[d].purchase].state = "Settled"
    BY <2>1, ResolveMoves DEF OpenDispute, Closes
  <2> QED BY <2>2 DEF OnlyPurchase
<1> QED BY <1>1, <1>2

\* Whatever is called, quotes stay true: nothing is remedied on an open sale, and nobody is
\* paid for a panel that has not decided.
LEMMA QuotedPreserved ==
  ASSUME Linked, Linked', CaseInv, DisputeNamed, Quoted, [Next]_vars PROVE Quoted'
<1>1. CASE Elsewhere
  <2>1. \A i \in PurchaseId : SaleQuoted(purchases'[i]) BY <1>1 DEF Elsewhere, Quoted
  <2>2. \A d \in DisputeId : disputes'[d] = disputes[d] /\ seats'[d] = seats[d]
    BY <1>1 DEF Elsewhere
  <2> QED BY <2>1, <2>2, QuoteStill DEF Quoted
<1>2. ASSUME NEW a \in Buyers, NEW v \in VersionId, buy(a, v) PROVE Quoted'
  <2>1. /\ OnlyPurchase(nextPurchaseId) /\ UNCHANGED <<disputes, seats>>
        /\ SaleQuoted(purchases'[nextPurchaseId])
    BY <1>2, BuyRecord DEF SaleQuoted
  <2>2. \A i \in PurchaseId : SaleQuoted(purchases'[i]) BY <2>1 DEF OnlyPurchase, Quoted
  <2> QED BY <2>1, <2>2, QuoteStill DEF Quoted
<1>3. ASSUME NEW i \in PurchaseId,
             \/ \E s \in Signers : recordDelivery(i, s)
             \/ refundUndelivered(i) \/ finalize(i) \/ \E n \in StarChoices : rate(i, n)
      PROVE  Quoted'
  <2>1. OnlyPurchase(i) /\ UNCHANGED <<disputes, seats>> BY <1>3, SaleMoves
  <2>2. SaleQuoted(purchases'[i])
    <3>1. CASE \E s \in Signers : recordDelivery(i, s)
      BY <3>1, SaleRecords DEF Quoted, SaleQuoted
    <3>2. CASE refundUndelivered(i) \/ finalize(i) \/ \E n \in StarChoices : rate(i, n)
      <4>1. purchases'[i].state \in {"Refunded", "Settled"} BY <3>2, SaleRecords
      <4> QED BY <4>1 DEF SaleQuoted
    <3> QED BY <1>3, <3>1, <3>2
  <2>3. \A j \in PurchaseId : SaleQuoted(purchases'[j]) BY <2>1, <2>2 DEF OnlyPurchase, Quoted
  <2> QED BY <2>1, <2>3, QuoteStill DEF Quoted
<1>4. ASSUME NEW i \in PurchaseId, NEW g \in Grounds,
             NEW m \in SUBSET (1..purchases[i].terms.taskCount), openDispute(i, g, m)
      PROVE  Quoted'
  <2>1. /\ OnlyPurchase(i) /\ OnlyDispute(nextDisputeId) /\ seats' = seats
    BY <1>4, OpenMoves
  <2>2. SaleQuoted(purchases'[i]) BY <1>4, SaleRecords DEF Quoted, SaleQuoted
  <2>3. \A j \in PurchaseId : SaleQuoted(purchases'[j]) BY <2>1, <2>2 DEF OnlyPurchase, Quoted
  <2>4. ASSUME NEW d \in DisputeId
        PROVE  /\ CaseQuoted(d)' /\ SlashesNat(d)'
               /\ disputes'[d].status # "Resolved" => SeatsUnpaid(d)'
    <3>1. CASE d = nextDisputeId BY <1>4, <3>1, QuoteOpened
    <3>2. CASE d # nextDisputeId BY <2>1, <3>2, QuoteStill DEF OnlyDispute
    <3> QED BY <3>1, <3>2
  <2> QED BY <2>3, <2>4 DEF Quoted
<1>5. ASSUME NEW d \in DisputeId, DisputeCall(d) PROVE Quoted'
  <2>1. OpenDispute(d) BY <1>5, RulingsOpen DEF DisputeCall
  <2>2. Continues(d) \/ Rules(d) BY <1>5, DisputeCalls
  <2>3. \A c \in DisputeId : c # d => disputes'[c] = disputes[c] /\ seats'[c] = seats[c]
    BY <1>5, OtherPanels DEF DisputeCall, CaseInv
  <2>4. \A j \in PurchaseId : SaleQuoted(purchases'[j])
    BY <2>1, <2>2, RulingCloses DEF Quoted, SaleQuoted
  <2>5. ASSUME NEW c \in DisputeId
        PROVE  /\ CaseQuoted(c)' /\ SlashesNat(c)'
               /\ disputes'[c].status # "Resolved" => SeatsUnpaid(c)'
    <3>1. CASE c = d BY <2>1, <2>2, <3>1, QuoteCalled
    <3>2. CASE c # d BY <2>3, <3>2, QuoteStill
    <3> QED BY <3>1, <3>2
  <2> QED BY <2>4, <2>5 DEF Quoted
<1> QED BY <1>1, <1>2, <1>3, <1>4, <1>5, CaseCalls DEF CaseCall, DisputeCall

LEMMA InitQuoted == Init => Quoted
BY DEF Init, InitPurchases, InitCases, Quoted, SaleQuoted, CaseQuoted, SlashesNat, SeatsUnpaid,
       OpenDispute, NoPurchase, NoDispute

---------------------------------------------------------------------------
(* What a page announced is what a call does *)

\* The promises about one sale ...
CreditsOf(i) ==
  LET p == purchases[i] IN
  /\ p.state # "Refunded" /\ purchases'[i].state = "Refunded" => credited(p.buyer) = p.terms.price
  /\ closes(i) /\ (p.dispute = 0 \/ disputes'[p.dispute].fallbackNoQuorum) =>
       /\ credited(p.seller) = toSeller(i)
       /\ p.dispute # 0 => credited(p.buyer) = disputes[p.dispute].bond
BarKept(i) == purchases[i].state # "None" => Tracker(i).done \subseteq Tracker(i)'.done
SalePromise(i) == CreditsOf(i) /\ BarKept(i)

\* ... and about one dispute.
OpensAsQuoted(d) ==
  disputes[d].status = "None" /\ disputes'[d].status # "None" =>
    LET quote == quoteDispute(disputes'[d].purchase, disputes'[d].taskMask) IN
    /\ quote = [requested |-> disputes'[d].requested, bond |-> disputes'[d].bond]
    /\ balance' - balance = quote.bond
PaysAsQuoted(d) ==
  decided(d) /\ disputes'[d].confirmedMask = disputes[d].taskMask =>
    disputes'[d].refund = disputes[d].requested
RowsAddUp(d) ==
  decided(d) =>
    LET out == OutcomeCard(d)'
        p == purchases[disputes[d].purchase]
        depositBack == credited(p.buyer) - out.refund
    IN /\ out.refund + out.proceeds + out.fee = p.terms.price
       /\ depositBack = IF disputes'[d].verdict = "Uphold" \/ disputes'[d].fallbackNoQuorum
                        THEN disputes[d].bond ELSE 0
       /\ credited(p.seller) = out.proceeds
       /\ out.jurorPaid <= p.par.caseFee + out.jurorSlashed
       /\ disputes'[d].fallbackNoQuorum => out.jurorPaid = 0
CasePromise(d) == OpensAsQuoted(d) /\ PaysAsQuoted(d) /\ RowsAddUp(d) /\ StagesKept(d)

Promised == CreditsAsShown /\ QuoteKept /\ OutcomeAddsUp /\ ProgressForward

LEMMA PromisedEach ==
  ASSUME \A i \in PurchaseId : SalePromise(i), \A d \in DisputeId : CasePromise(d)
  PROVE  Promised
<1>1. CreditsAsShown BY DEF SalePromise, CreditsOf, CreditsAsShown
<1>2. QuoteKept BY DEF CasePromise, OpensAsQuoted, PaysAsQuoted, QuoteKept
<1>3. OutcomeAddsUp BY DEF CasePromise, RowsAddUp, OutcomeAddsUp
<1>4. ProgressForward BY DEF SalePromise, BarKept, CasePromise, StagesKept, ProgressForward
<1> QED BY <1>1, <1>2, <1>3, <1>4 DEF Promised

\* A sale or a dispute that nobody calls on is promised nothing but time.
LEMMA SaleStill ==
  ASSUME Linked, Linked', timestamp' >= timestamp,
         NEW i \in PurchaseId, purchases'[i] = purchases[i]
  PROVE  SalePromise(i)
<1>1. purchases[i] \in Purchase /\ timestamp \in Nat /\ timestamp' \in Nat
  BY DEF Linked, PurchaseInv, TypePurchases, TypeAdmin
<1>2. CreditsOf(i) BY DEF CreditsOf, closes
<1>3. stepsDone(purchases[i], timestamp) \subseteq stepsDone(purchases'[i], timestamp')
  BY <1>1, TrackerWaits
<1>4. BarKept(i) BY <1>3, TrackerIs DEF BarKept
<1> QED BY <1>2, <1>4 DEF SalePromise

LEMMA CaseStill ==
  ASSUME Linked, Linked', timestamp' >= timestamp,
         NEW d \in DisputeId, disputes'[d] = disputes[d], seats'[d] = seats[d]
  PROVE  CasePromise(d)
<1>1. disputes[d] \in Dispute /\ timestamp \in Nat /\ timestamp' \in Nat
  BY DEF Linked, DisputeInv, TypeDisputes, TypeAdmin
<1>2. StagesKept(d) BY <1>1, StagesWait
<1>3. OpensAsQuoted(d) /\ ~decided(d) BY DEF OpensAsQuoted, decided
<1> QED BY <1>2, <1>3 DEF CasePromise, PaysAsQuoted, RowsAddUp

\* The steps of a sale's bar after a call on it.
LEMMA SaleMovesBar ==
  ASSUME NEW i \in PurchaseId, timestamp' = timestamp,
         stepsDone(purchases[i], timestamp) \subseteq stepsDone(purchases'[i], timestamp)
  PROVE  BarKept(i)
BY TrackerIs DEF BarKept

\* A payment to one account is what it is credited with.
LEMMA CreditedOne ==
  ASSUME claimable \in [Accounts -> Int], NEW a \in Accounts, NEW n \in Int,
         claimable' = credit(claimable, a, n)
  PROVE  credited(a) = n
<1>1. claimable'[a] = claimable[a] + n BY DEF credit
<1>2. claimable[a] \in Int OBVIOUS
<1> QED BY <1>1, <1>2 DEF credited

\* The calls on a sale without a dispute: the refund and the release credit what the page
\* shows, and the bar moves on.
LEMMA SaleCallKeeps ==
  ASSUME Linked, Linked', CaseInv, DisputeNamed, Quoted, NEW i \in PurchaseId,
         \/ \E s \in Signers : recordDelivery(i, s)
         \/ refundUndelivered(i) \/ finalize(i) \/ \E n \in StarChoices : rate(i, n)
  PROVE  SalePromise(i) /\ timestamp' = timestamp
<1> DEFINE p == purchases[i]
           q == purchases'[i]
<1>1. p \in Purchase /\ (p.state # "None" => WellMade(p)) /\ SaleQuoted(p)
  BY DEF Linked, PurchaseInv, TypePurchases, Quoted
<1>2. claimable \in [Accounts -> Int] BY DEF Linked, TypeFunds
<1>3. p.state \in {"Funded", "Delivered"} => p.dispute = 0 BY Undisputed
<1>4. ASSUME NEW s, recordDelivery(i, s) PROVE SalePromise(i) /\ timestamp' = timestamp
  <2>1. p.state = "Funded" /\ q.state = "Delivered" /\ timestamp' = timestamp BY <1>4, SaleRecords
  <2>2. p.deliveredAt = 0 /\ p.dispute = 0 BY <1>1, <1>3, <2>1 DEF SaleQuoted
  <2>3. BarKept(i) BY <2>1, <2>2, TrackerMoves, SaleMovesBar
  <2>4. CreditsOf(i) BY <2>1 DEF CreditsOf, closes
  <2> QED BY <2>1, <2>3, <2>4 DEF SalePromise
<1>5. CASE refundUndelivered(i)
  <2>1. /\ p.state = "Funded" /\ q.state = "Refunded" /\ timestamp' = timestamp
        /\ claimable' = credit(claimable, p.buyer, p.terms.price)
    BY <1>5, SaleRecords
  <2>2. p.deliveredAt = 0 /\ p.dispute = 0 BY <1>1, <1>3, <2>1 DEF SaleQuoted
  <2>3. BarKept(i) BY <2>1, <2>2, TrackerMoves, SaleMovesBar
  <2>4. p.buyer \in Accounts /\ p.terms.price \in Int
    <3> HIDE DEF p
    <3> QED BY <1>1, <2>1, PurchaseNat
  <2>5. credited(p.buyer) = p.terms.price BY <1>2, <2>1, <2>4, CreditedOne
  <2>6. CreditsOf(i) BY <2>1, <2>5 DEF CreditsOf, closes
  <2> QED BY <2>1, <2>3, <2>6 DEF SalePromise
<1>6. CASE finalize(i)
  <2>1. /\ p.state = "Delivered" /\ q.state = "Settled" /\ q.dispute = p.dispute
        /\ q.deliveredAt = p.deliveredAt /\ q.challengeDeadline = p.challengeDeadline
        /\ timestamp' = timestamp /\ claimable' = credit(claimable, p.seller, closeProceeds(p, 0))
    BY <1>6, SaleRecords
  <2>2. BarKept(i) BY <2>1, TrackerMoves, SaleMovesBar
  <2>3. /\ p.seller \in Accounts /\ closeProceeds(p, 0) \in Int /\ p.terms.price \in Int
    <3> HIDE DEF p
    <3> QED BY <1>1, <2>1, PurchaseNat, CloseInt, 0 \in Int
  <2>4. credited(p.seller) = closeProceeds(p, 0) BY <1>2, <2>1, <2>3, CreditedOne
  <2>5. closeProceeds(p, 0) = toSeller(i)
    <3>1. p.terms.price - 0 = p.terms.price BY <2>3
    <3> QED BY <3>1 DEF closeProceeds, closeFee, toSeller
  <2>6. CreditsOf(i) BY <1>3, <2>1, <2>4, <2>5 DEF CreditsOf, closes
  <2> QED BY <2>1, <2>2, <2>6 DEF SalePromise
<1>7. ASSUME NEW n, rate(i, n) PROVE SalePromise(i) /\ timestamp' = timestamp
  <2>1. /\ p.state = "Settled" /\ q.state = "Settled" /\ q.dispute = p.dispute
        /\ q.deliveredAt = p.deliveredAt /\ q.challengeDeadline = p.challengeDeadline
        /\ timestamp' = timestamp
    BY <1>7, SaleRecords
  <2>2. BarKept(i) BY <2>1, TrackerMoves, SaleMovesBar
  <2>3. CreditsOf(i) BY <2>1 DEF CreditsOf, closes
  <2> QED BY <2>1, <2>2, <2>3 DEF SalePromise
<1> QED BY <1>4, <1>5, <1>6, <1>7

\* A purchase that is made had no bar, and pays nobody.
LEMMA BuyKeeps ==
  ASSUME Linked, Linked', NEW a \in Buyers, NEW v \in VersionId, buy(a, v) PROVE Promised
<1>1. /\ purchases[nextPurchaseId] = NoPurchase /\ purchases'[nextPurchaseId].state = "Funded"
      /\ OnlyPurchase(nextPurchaseId) /\ UNCHANGED <<disputes, seats, timestamp>>
  BY BuyRecord
<1>2. timestamp' >= timestamp BY <1>1 DEF Linked, TypeAdmin
<1>3. ASSUME NEW i \in PurchaseId PROVE SalePromise(i)
  <2>1. CASE i = nextPurchaseId
    <3>1. purchases[i].state = "None" BY <1>1, <2>1 DEF NoPurchase
    <3> QED BY <1>1, <2>1, <3>1 DEF SalePromise, CreditsOf, BarKept, closes
  <2>2. CASE i # nextPurchaseId BY <1>1, <1>2, <2>2, SaleStill DEF OnlyPurchase
  <2> QED BY <2>1, <2>2
<1>4. \A d \in DisputeId : CasePromise(d) BY <1>1, <1>2, CaseStill
<1> QED BY <1>3, <1>4, PromisedEach

\* A dispute is opened as the form quoted it.
LEMMA OpenKeeps ==
  ASSUME Linked, Linked', CaseInv, DisputeNamed, Quoted, NEW i \in PurchaseId, NEW g \in Grounds,
         NEW m \in SUBSET (1..purchases[i].terms.taskCount), openDispute(i, g, m)
  PROVE  Promised
<1> DEFINE p == purchases[i]
           q == purchases'[i]
           n == nextDisputeId
           e == disputes'[n]
<1>1. /\ n \in DisputeId /\ OnlyPurchase(i) /\ OnlyDispute(n) /\ e.purchase = i
      /\ e.bond = bondFor(p, m)
  BY OpenMoves
<1>2. /\ p.state = "Delivered" /\ q.state = "Disputed" /\ q.deliveredAt = p.deliveredAt
      /\ q.challengeDeadline = p.challengeDeadline /\ timestamp <= p.challengeDeadline
      /\ timestamp' = timestamp
  BY SaleRecords
<1>3. /\ e.taskMask = m /\ e.requested = requestedRefund(p, m)
      /\ balance' = balance + bondFor(p, m) /\ seats' = seats
  BY OpenRecord
<1>4. timestamp' >= timestamp BY <1>2 DEF Linked, TypeAdmin
<1>5. disputes[n] = NoDispute
  <2>1. n \in Nat /\ n >= nextDisputeId BY <1>1, ConstantsOK DEF DisputeId
  <2> QED BY <1>1, <2>1 DEF CaseInv, Links
<1>6. disputes[n].status = "None" /\ disputes[n].ground # "FalseDescription"
  BY <1>5 DEF NoDispute
<1>7. SalePromise(i)
  <2>1. p.dispute = 0 BY <1>2, Undisputed
  <2>2. BarKept(i) BY <1>2, <2>1, TrackerMoves, SaleMovesBar
  <2>3. CreditsOf(i) BY <1>2 DEF CreditsOf, closes
  <2> QED BY <2>2, <2>3 DEF SalePromise
<1>8. OpensAsQuoted(n)
  <2>1. p \in Purchase /\ WellMade(p) /\ m \in SUBSET (1..p.terms.taskCount)
    BY <1>2 DEF Linked, PurchaseInv, TypePurchases
  <2>2. bondFor(p, m) \in Int
    <3> HIDE DEF p
    <3> QED BY <1>2, <2>1, BondInt
  <2>3. balance \in Int BY DEF Linked, TypeFunds
  <2>4. balance' - balance = bondFor(p, m) BY <1>3, <2>2, <2>3
  <2>5. quoteDispute(e.purchase, e.taskMask) = [requested |-> requestedRefund(p, m), bond |-> bondFor(p, m)]
    BY <1>1, <1>3 DEF quoteDispute
  <2> QED BY <1>1, <1>3, <2>4, <2>5 DEF OpensAsQuoted
<1>9. CasePromise(n)
  <2>1. ~decided(n)
    <3>1. e.status # "Resolved" BY OpenMoves
    <3> QED BY <3>1 DEF decided
  <2>2. StagesKept(n) BY <1>6 DEF StagesKept
  <2> QED BY <1>8, <2>1, <2>2 DEF CasePromise, PaysAsQuoted, RowsAddUp
<1>10. \A j \in PurchaseId : SalePromise(j)
  BY <1>1, <1>4, <1>7, SaleStill DEF OnlyPurchase
<1>11. \A d \in DisputeId : CasePromise(d)
  BY <1>1, <1>3, <1>4, <1>9, CaseStill DEF OnlyDispute
<1> QED BY <1>10, <1>11, PromisedEach

\* A call that does not decide its dispute keeps every promise.
LEMMA ContinuingKeeps ==
  ASSUME Linked, Linked', NEW d \in DisputeId, OpenDispute(d), Continues(d),
         \A c \in DisputeId : c # d => disputes'[c] = disputes[c] /\ seats'[c] = seats[c]
  PROVE  Promised
<1>1. UNCHANGED <<purchases, timestamp>> /\ StagesKept(d) BY DEF Continues
<1>2. disputes[d].status # "None" /\ disputes'[d].status # "Resolved"
  BY DEF Continues, OpenDispute
<1>3. timestamp' >= timestamp BY <1>1 DEF Linked, TypeAdmin
<1>4. CasePromise(d)
  BY <1>1, <1>2 DEF CasePromise, OpensAsQuoted, PaysAsQuoted, RowsAddUp, decided
<1>5. \A c \in DisputeId : CasePromise(c) BY <1>3, <1>4, CaseStill
<1>6. \A i \in PurchaseId : SalePromise(i) BY <1>1, <1>3, SaleStill
<1> QED BY <1>5, <1>6, PromisedEach

\* A resolution credits the seller with the proceeds, and the buyer with what its outcome
\* says: jurors' pay goes to neither.
LEMMA ResolveCredits ==
  ASSUME Linked, CaseInv, NEW d \in DisputeId, OpenDispute(d), NEW out \in Outcome,
         NEW extra \in Extra, resolve(d, out, extra),
         extra.pay[purchases[disputes[d].purchase].buyer] = 0,
         extra.pay[purchases[disputes[d].purchase].seller] = 0
  PROVE  LET p == purchases[disputes[d].purchase] IN
         /\ credited(p.seller) = closeProceeds(p, out.refund)
         /\ credited(p.buyer) = out.toBuyer
<1> DEFINE p == purchases[disputes[d].purchase]
           proceeds == closeProceeds(p, out.refund)
           paid == credit(claimable, p.seller, proceeds)
           made == credit(paid, p.buyer, out.toBuyer)
<1>1. /\ p \in Purchase /\ WellMade(p) /\ p.state # "None" /\ disputes[d].purchase \in PurchaseId
  BY DisputedPurchase DEF OpenDispute
<1>2. p.buyer \in Accounts /\ p.seller \in Accounts /\ p.buyer # p.seller
  <2>1. p.buyer # p.seller BY <1>1 DEF CaseInv, Sales, SaleSound
  <2> HIDE DEF p
  <2> QED BY <1>1, <2>1, PurchaseNat
<1>3. out.toBuyer \in Int /\ out.refund \in Int BY DEF Outcome
<1>4. proceeds \in Int
  <2> HIDE DEF p
  <2> QED BY <1>1, <1>3, CloseInt
<1>5. claimable \in [Accounts -> Int] BY DEF Linked, TypeFunds
<1>6. claimable' = [a \in Accounts |-> made[a] + extra.pay[a]] BY DEF resolve
<1>7. extra.pay[p.buyer] = 0 /\ extra.pay[p.seller] = 0 OBVIOUS
<1> HIDE DEF p, proceeds
<1>8. /\ made[p.seller] = claimable[p.seller] + proceeds
      /\ made[p.buyer] = claimable[p.buyer] + out.toBuyer
  BY <1>2, <1>5 DEF credit
<1>9. claimable[p.seller] \in Int /\ claimable[p.buyer] \in Int BY <1>2, <1>5
<1> HIDE DEF made
<1>10. /\ claimable'[p.seller] = claimable[p.seller] + proceeds + 0
       /\ claimable'[p.buyer] = claimable[p.buyer] + out.toBuyer + 0
  BY <1>2, <1>6, <1>7, <1>8
<1>11. credited(p.seller) = proceeds /\ credited(p.buyer) = out.toBuyer
  BY <1>3, <1>4, <1>9, <1>10 DEF credited
<1> QED BY <1>11 DEF p, proceeds

\* A dispute upheld on every task it names is refunded what it asked for.
LEMMA UpheldInFull ==
  ASSUME NEW p \in Purchase, WellMade(p), p.state # "None", p.refunded = 0, p.remediedMask = {},
         NEW dd, NEW m \in SUBSET (1..p.terms.taskCount)
  PROVE  upholdOutcome(p, dd, m).refund = requestedRefund(p, m)
<1>1. refundCap(p) \in Nat
  <2>1. refundCap(p) \in 0..p.terms.price /\ p.terms.price \in Nat BY RefundCapBounded, PurchaseNat
  <2> QED BY <2>1
<1>2. (IF refundCap(p) > p.refunded THEN refundCap(p) - p.refunded ELSE 0) = refundCap(p)
  BY <1>1
<1>3. m \ p.remediedMask = m OBVIOUS
<1>4. upheldRefund(p, m) = Least(taskValue(p, m), refundCap(p)) BY <1>2, <1>3 DEF upheldRefund
<1> QED BY <1>4 DEF upholdOutcome, requestedRefund

\* What an outcome gives the buyer is the refund, and the bond unless the claim was rejected.
LEMMA OutcomeDeposit ==
  ASSUME Linked, NEW d \in DisputeId, disputes[d].status # "None",
         NEW out \in Outcome, OutcomeFor(d, out)
  PROVE  /\ out.toBuyer - out.refund =
              IF out.verdict = "Uphold" \/ out.fallback THEN disputes[d].bond ELSE 0
         /\ out.fallback => out.refund = 0 /\ out.toBuyer = disputes[d].bond
<1> DEFINE dd == disputes[d]
           p  == purchases[dd.purchase]
<1>1. dd.bond \in Int /\ out.refund \in Int /\ out.toBuyer \in Int
  <2>1. dd \in Dispute BY DisputedPurchase
  <2> QED BY <2>1 DEF Dispute, Outcome
<1> DEFINE bond == dd.bond
<1>2. ASSUME NEW m, out = upholdOutcome(p, dd, m)
      PROVE  out.toBuyer = out.refund + bond /\ out.verdict = "Uphold" /\ ~out.fallback
  BY <1>2 DEF upholdOutcome
<1>3. ASSUME out = rejectOutcome(dd)
      PROVE  out.toBuyer = 0 /\ out.refund = 0 /\ out.verdict = "Reject" /\ ~out.fallback
  BY <1>3 DEF rejectOutcome
<1>4. ASSUME out = fallbackOutcome(dd)
      PROVE  out.toBuyer = bond /\ out.refund = 0 /\ out.fallback
  BY <1>4 DEF fallbackOutcome
<1>5. \/ out.toBuyer = out.refund + bond /\ out.verdict = "Uphold" /\ ~out.fallback
      \/ out.toBuyer = 0 /\ out.refund = 0 /\ out.verdict = "Reject" /\ ~out.fallback
      \/ out.toBuyer = bond /\ out.refund = 0 /\ out.fallback
  BY <1>2, <1>3, <1>4 DEF OutcomeFor
<1>6. bond \in Int BY <1>1
<1> HIDE DEF bond
<1>7. /\ out.toBuyer - out.refund = IF out.verdict = "Uphold" \/ out.fallback THEN bond ELSE 0
      /\ out.fallback => out.refund = 0 /\ out.toBuyer = bond
  BY <1>1, <1>5, <1>6
<1> QED BY <1>7 DEF bond

\* A decision keeps what the pages said of it: the fallback pays as no dispute would have, a
\* claim proved right on every task pays its quote, and the rows of the outcome add up.
LEMMA RulingPromises ==
  ASSUME Linked, CaseInv, Quoted, NEW d \in DisputeId, OpenDispute(d), NEW out \in Outcome,
         NEW extra \in Extra, resolve(d, out, extra), OutcomeFor(d, out), PaidWithin(d, out),
         extra.pay[purchases[disputes[d].purchase].buyer] = 0,
         extra.pay[purchases[disputes[d].purchase].seller] = 0
  PROVE  CasePromise(d) /\ SalePromise(disputes[d].purchase)
<1> DEFINE dd == disputes[d]
           e  == disputes'[d]
           i  == dd.purchase
           p  == purchases[i]
           q  == purchases'[i]
           card == OutcomeCard(d)'
<1>1. /\ dd.status # "None" /\ i \in PurchaseId /\ p.state = "Disputed" /\ p.dispute = d
      /\ p.refunded = 0
  BY OpenDisputed DEF CaseInv
<1>2. /\ p \in Purchase /\ WellMade(p) /\ dd \in Dispute
      /\ dd.taskMask \in SUBSET (1..p.terms.taskCount)
  BY <1>1, DisputedPurchase
<1>3. /\ Closes(p, q, out.refund) /\ q.dispute = p.dispute /\ e.purchase = i
      /\ e.status = "Resolved" /\ e.verdict = out.verdict /\ e.fallbackNoQuorum = out.fallback
  BY <1>1, ResolveMoves DEF SameCase
<1>4. /\ e.confirmedMask = out.mask /\ e.refund = out.refund
      /\ q.challengeDeadline = p.challengeDeadline /\ timestamp' = timestamp
  BY <1>1, ResolveRecord
<1>5. q.deliveredAt = p.deliveredAt BY <1>1, ResolveTimes
<1>6. credited(p.seller) = closeProceeds(p, out.refund) /\ credited(p.buyer) = out.toBuyer
  BY ResolveCredits
<1>7. /\ out.toBuyer - out.refund =
           IF out.verdict = "Uphold" \/ out.fallback THEN dd.bond ELSE 0
      /\ out.fallback => out.refund = 0 /\ out.toBuyer = dd.bond
  BY <1>1, OutcomeDeposit
<1>8. q.state = "Settled" /\ q.fee = closeFee(p, out.refund)
      /\ q.sellerProceeds = closeProceeds(p, out.refund)
  BY <1>3 DEF Closes
<1>9. out.refund \in 0..p.terms.price
  <2>1. dd.bond >= 0 BY <1>1 DEF CaseInv, Links, CaseSound
  <2>2. {} \in SUBSET (1..p.terms.taskCount) OBVIOUS
  <2>3. OutcomeFor(d, out) OBVIOUS
  <2>4. \/ \E m \in SUBSET (1..p.terms.taskCount) : out = upholdOutcome(p, dd, m)
        \/ out = rejectOutcome(dd) \/ out = fallbackOutcome(dd)
    BY <1>2, <2>3 DEF OutcomeFor
  <2>5. p.state # "None" BY <1>1
  <2> HIDE DEF p, dd
  <2> QED BY <1>1, <1>2, <2>1, <2>2, <2>4, <2>5, OutcomesAffordable DEF Affordable
<1>10. BarKept(i)
  <2>1. p.dispute # 0 /\ q.dispute # 0 BY <1>1, <1>3, ConstantsOK DEF DisputeId
  <2>2. stepsDone(p, timestamp) \subseteq stepsDone(q, timestamp)
    BY <1>1, <1>4, <1>5, <1>8, <2>1, TrackerMoves
  <2> QED BY <1>1, <1>4, <2>2, SaleMovesBar
<1>11. CreditsOf(i)
  <2>1. q.state # "Refunded" BY <1>8
  <2>2. ASSUME p.dispute = 0 \/ disputes'[p.dispute].fallbackNoQuorum
        PROVE  credited(p.seller) = toSeller(i) /\ credited(p.buyer) = disputes[p.dispute].bond
    <3>1. out.fallback BY <1>1, <1>3, <2>2, ConstantsOK DEF DisputeId
    <3>2. closeProceeds(p, 0) = toSeller(i)
      <4>1. p.terms.price \in Int
        <5> HIDE DEF p
        <5> QED BY <1>1, <1>2, PurchaseNat
      <4>2. p.terms.price - 0 = p.terms.price BY <4>1
      <4> QED BY <4>2 DEF closeProceeds, closeFee, toSeller
    <3> QED BY <1>1, <1>6, <1>7, <3>1, <3>2
  <2> QED BY <2>1, <2>2 DEF CreditsOf
<1>12. PaysAsQuoted(d)
  <2> SUFFICES ASSUME out.mask = dd.taskMask PROVE out.refund = dd.requested
    BY <1>4 DEF PaysAsQuoted
  <2>1. /\ dd.taskMask # {} /\ dd.requested = requestedRefund(p, dd.taskMask)
        /\ p.remediedMask = {}
    BY <1>1 DEF Quoted, CaseQuoted, SaleQuoted
  <2>2. out = upholdOutcome(p, dd, dd.taskMask)
    BY <2>1 DEF OutcomeFor, upholdOutcome, rejectOutcome, fallbackOutcome
  <2>3. p.state # "None" BY <1>1
  <2>4. upholdOutcome(p, dd, dd.taskMask).refund = requestedRefund(p, dd.taskMask)
    <3> DEFINE m == dd.taskMask
    <3>1. m \in SUBSET (1..p.terms.taskCount) BY <1>2
    <3> HIDE DEF p, m
    <3>2. upholdOutcome(p, dd, m).refund = requestedRefund(p, m)
      BY <1>1, <1>2, <2>1, <2>3, <3>1, UpheldInFull
    <3> QED BY <3>2 DEF m
  <2> QED BY <2>1, <2>2, <2>4
<1>13. RowsAddUp(d)
  <2>1. /\ card.refund = out.refund /\ card.proceeds = q.sellerProceeds /\ card.fee = q.fee
    BY <1>3, <1>4 DEF OutcomeCard
  <2>2. out.refund + closeFee(p, out.refund) + closeProceeds(p, out.refund) = p.terms.price
    <3>1. p.state # "None" BY <1>1
    <3> HIDE DEF p
    <3> QED BY <1>2, <1>9, <3>1, CloseBounded
  <2>3. out.refund + closeProceeds(p, out.refund) + closeFee(p, out.refund) = p.terms.price
    <3>1. p.state # "None" /\ out.refund \in Int BY <1>1 DEF Outcome
    <3> HIDE DEF p
    <3>2. closeFee(p, out.refund) \in Int /\ closeProceeds(p, out.refund) \in Int
      BY <1>2, <3>1, CloseInt
    <3> QED BY <2>2, <3>1, <3>2
  <2>4. /\ card.jurorPaid <= p.par.caseFee + card.jurorSlashed
        /\ out.fallback => card.jurorPaid = 0
    BY DEF PaidWithin
  <2> HIDE DEF card
  <2> QED BY <1>3, <1>6, <1>7, <1>8, <2>1, <2>3, <2>4 DEF RowsAddUp, card
<1>14. StagesKept(d) BY <1>3, StagesRuled
<1>15. OpensAsQuoted(d) BY <1>1 DEF OpensAsQuoted
<1> QED BY <1>10, <1>11, <1>12, <1>13, <1>14, <1>15 DEF CasePromise, SalePromise

LEMMA RulingKeeps ==
  ASSUME Linked, Linked', CaseInv, Quoted, NEW d \in DisputeId, OpenDispute(d), Rules(d),
         \A c \in DisputeId : c # d => disputes'[c] = disputes[c] /\ seats'[c] = seats[c]
  PROVE  Promised
<1> DEFINE i == disputes[d].purchase
<1>1. PICK out \in Outcome, extra \in Extra :
        /\ resolve(d, out, extra) /\ OutcomeFor(d, out) /\ PaidWithin(d, out)
        /\ extra.pay[purchases[i].buyer] = 0 /\ extra.pay[purchases[i].seller] = 0
  BY DEF Rules
<1>2. disputes[d].status # "None" BY DEF OpenDispute
<1>3. OnlyPurchase(i) BY <1>1, <1>2, ResolveMoves
<1>4. timestamp' = timestamp BY <1>1, <1>2, ResolveRecord
<1>5. timestamp' >= timestamp BY <1>4 DEF Linked, TypeAdmin
<1>6. CasePromise(d) /\ SalePromise(i) BY <1>1, RulingPromises
<1>7. \A c \in DisputeId : CasePromise(c) BY <1>5, <1>6, CaseStill
<1>8. \A j \in PurchaseId : SalePromise(j) BY <1>3, <1>5, <1>6, SaleStill DEF OnlyPurchase
<1> QED BY <1>7, <1>8, PromisedEach

\* Whatever is called, and however late, every promise is kept.
LEMMA PromisesKept ==
  ASSUME Linked, Linked', CaseInv, DisputeNamed, Quoted, [Next]_vars PROVE Promised
<1>1. ASSUME Elsewhere, timestamp' >= timestamp PROVE Promised
  <2>1. UNCHANGED <<purchases, disputes, seats>> BY <1>1 DEF Elsewhere
  <2> QED BY <1>1, <2>1, SaleStill, CaseStill, PromisedEach
<1>2. ASSUME NEW i \in PurchaseId,
             \/ \E s \in Signers : recordDelivery(i, s)
             \/ refundUndelivered(i) \/ finalize(i) \/ \E n \in StarChoices : rate(i, n)
      PROVE  Promised
  <2>1. OnlyPurchase(i) /\ UNCHANGED <<disputes, seats>> BY <1>2, SaleMoves
  <2>2. SalePromise(i) /\ timestamp' = timestamp BY <1>2, SaleCallKeeps
  <2>3. timestamp' >= timestamp BY <2>2 DEF Linked, TypeAdmin
  <2>4. \A j \in PurchaseId : SalePromise(j) BY <2>1, <2>2, <2>3, SaleStill DEF OnlyPurchase
  <2>5. \A d \in DisputeId : CasePromise(d) BY <2>1, <2>3, CaseStill
  <2> QED BY <2>4, <2>5, PromisedEach
<1>3. ASSUME NEW d \in DisputeId, DisputeCall(d) PROVE Promised
  <2>1. OpenDispute(d) BY <1>3, RulingsOpen DEF DisputeCall
  <2>2. \A c \in DisputeId : c # d => disputes'[c] = disputes[c] /\ seats'[c] = seats[c]
    BY <1>3, OtherPanels DEF DisputeCall, CaseInv
  <2>3. Continues(d) \/ Rules(d) BY <1>3, DisputeCalls
  <2> QED BY <2>1, <2>2, <2>3, ContinuingKeeps, RulingKeeps
<1> QED BY <1>1, <1>2, <1>3, BuyKeeps, OpenKeeps, CaseCalls DEF CaseCall, DisputeCall

---------------------------------------------------------------------------
(* No page hides what its visitor may do. *)

\* A purchase that has not ended is in its seller's list of open sales.
LEMMA OpenListed ==
  ASSUME NEW i \in PurchaseId, purchases[i].state \in {"Funded", "Delivered", "Disputed"}
  PROVE  i \in openSales(purchases[i].seller)
BY DEF openSales, salesOf, tradeRow

\* Whatever happens to a purchase, its page had the button.
LEMMA SalesOffered ==
  ASSUME Linked, CaseInv, DisputeNamed, [Next]_vars, NEW w \in PurchaseId
  PROVE  SaleOffered(w)
<1> DEFINE p == purchases[w]
           q == purchases'[w]
<1>0. p \in Purchase BY DEF Linked, PurchaseInv, TypePurchases
<1>1. ASSUME q = p PROVE SaleOffered(w) BY <1>1 DEF SaleOffered, closes
<1>2. ASSUME NEW i \in PurchaseId, i # w, OnlyPurchase(i) PROVE SaleOffered(w)
  BY <1>1, <1>2 DEF OnlyPurchase
<1>3. ASSUME NEW a \in Buyers, NEW v \in VersionId, buy(a, v) PROVE SaleOffered(w)
  <2>1. /\ OnlyPurchase(nextPurchaseId) /\ nextPurchaseId \in PurchaseId
        /\ BuyStep(purchases[nextPurchaseId], purchases'[nextPurchaseId])
        /\ purchases'[nextPurchaseId].seller = versions[v].seller
        /\ purchases'[nextPurchaseId].version = v
    BY <1>3, BuyMoves
  <2>2. CASE w = nextPurchaseId
    <3>1. p.state = "None" /\ q.state = "Funded" /\ ~q.rated /\ q.buyer # versions[v].seller
      BY <2>1, <2>2 DEF BuyStep, Bought, NoPurchase
    <3>2. BuyPanel(q.buyer, v)
      BY <1>3, <3>1 DEF buy, BuyPanel, sellerStake
    <3> QED BY <2>1, <2>2, <3>1, <3>2 DEF SaleOffered, closes
  <2> QED BY <1>2, <2>1, <2>2
<1>4. ASSUME NEW s \in Signers, recordDelivery(w, s) PROVE SaleOffered(w)
  <2>1. p.state = "Funded" /\ q.state = "Delivered" BY <1>4, SaleRecords
  <2>2. DeliverStep(p, q) BY <1>4, <2>1, SaleMoves DEF RefundStep, CloseStep, RateStep
  <2> QED BY <2>1, <2>2 DEF SaleOffered, closes, DeliverStep
<1>5. ASSUME refundUndelivered(w) PROVE SaleOffered(w)
  <2>1. p.state = "Funded" /\ q.state = "Refunded" BY <1>5, SaleRecords
  <2>2. q.rated = p.rated BY <1>5, <2>1, SaleMoves DEF DeliverStep, RefundStep, CloseStep, RateStep
  <2>3. timestamp > p.deliveryDeadline BY <1>5 DEF refundUndelivered
  <2> QED BY <2>1, <2>2, <2>3, OpenListed DEF SaleOffered, closes, NextAction, KeeperRow, now
<1>6. ASSUME finalize(w) PROVE SaleOffered(w)
  <2>1. p.state = "Delivered" /\ q.state = "Settled" BY <1>6, SaleRecords
  <2>2. q.rated = p.rated BY <1>6, <2>1, SaleMoves DEF DeliverStep, RefundStep, CloseStep, RateStep
  <2>3. timestamp > p.challengeDeadline BY <1>6 DEF finalize
  <2>4. p.dispute = 0 BY <2>1, Undisputed
  <2> QED BY <2>1, <2>2, <2>3, <2>4, OpenListed DEF SaleOffered, closes, NextAction, KeeperRow, now
<1>7. ASSUME NEW n \in StarChoices, rate(w, n) PROVE SaleOffered(w)
  <2>1. p.state = "Settled" /\ q.state = "Settled" BY <1>7, SaleRecords
  <2>2. p.deliveredAt # 0 /\ ~p.rated BY <1>7 DEF rate
  <2>3. p.deliveredAt > 0 BY <1>0, <2>2 DEF Purchase
  <2> QED BY <2>1, <2>2, <2>3 DEF SaleOffered, closes, NextAction, RateBlock
<1>8. ASSUME NEW g \in Grounds, NEW m \in SUBSET (1..p.terms.taskCount), openDispute(w, g, m)
      PROVE  SaleOffered(w)
  <2>1. p.state = "Delivered" /\ q.state = "Disputed" /\ timestamp <= p.challengeDeadline
    BY <1>8, SaleRecords
  <2>2. q.rated = p.rated BY <1>8, OpenMoves DEF DisputeStep
  <2> QED BY <2>1, <2>2 DEF SaleOffered, closes, NextAction, now
<1>9. ASSUME NEW d \in DisputeId, DisputeCall(d) PROVE SaleOffered(w)
  <2>1. OpenDispute(d) BY <1>9, RulingsOpen DEF DisputeCall
  <2>2. /\ disputes[d].status # "None" /\ disputes[d].purchase \in PurchaseId
        /\ purchases[disputes[d].purchase].state = "Disputed"
        /\ purchases[disputes[d].purchase].dispute = d /\ purchases[disputes[d].purchase].refunded = 0
    BY <2>1, OpenDisputed DEF CaseInv
  <2>3. \/ UNCHANGED purchases
        \/ \E out \in Outcome : \E extra :
             resolve(d, out, extra) /\ out.refund \in 0..refundCap(purchases[disputes[d].purchase])
    BY <1>9, <2>2, DisputeSteps DEF DisputeCall
  <2>4. ASSUME NEW out \in Outcome, NEW extra, resolve(d, out, extra),
               out.refund \in 0..refundCap(purchases[disputes[d].purchase])
        PROVE  SaleOffered(w)
    <3>1. /\ JudgeStep(purchases[disputes[d].purchase], purchases'[disputes[d].purchase])
          /\ OnlyPurchase(disputes[d].purchase)
      BY <2>2, <2>4, JudgeMoves
    <3>2. CASE w = disputes[d].purchase
      <4>1. p.state = "Disputed" /\ q.state = "Settled" /\ q.rated = p.rated /\ p.dispute = d
        BY <2>2, <3>1, <3>2 DEF JudgeStep, Closes
      <4>2. d # 0 BY DEF DisputeId
      <4> QED BY <4>1, <4>2, OpenListed DEF SaleOffered, closes
    <3> QED BY <1>2, <2>2, <3>1, <3>2
  <2> QED BY <1>1, <2>3, <2>4
<1>10. ASSUME CaseCall PROVE SaleOffered(w)
  <2>1. ASSUME NEW i \in PurchaseId, i # w,
               \/ \E s \in Signers : recordDelivery(i, s)
               \/ refundUndelivered(i) \/ finalize(i) \/ \E n \in StarChoices : rate(i, n)
        PROVE  SaleOffered(w)
    BY <1>2, <2>1, SaleMoves
  <2>2. ASSUME NEW i \in PurchaseId, i # w, NEW g \in Grounds,
               NEW m \in SUBSET (1..purchases[i].terms.taskCount), openDispute(i, g, m)
        PROVE  SaleOffered(w)
    BY <1>2, <2>2, OpenMoves
  <2> QED BY <1>3, <1>4, <1>5, <1>6, <1>7, <1>8, <1>9, <1>10, <2>1, <2>2 DEF CaseCall, DisputeCall
<1> QED BY <1>1, <1>10, CaseCalls DEF Elsewhere

\* So had the page of a dispute, for those who may call.
LEMMA PanelsOffered ==
  ASSUME Linked, CaseInv, [Next]_vars, NEW c \in DisputeId
  PROVE  PanelOffered(c)
<1> DEFINE dd == disputes[c]
           e  == disputes'[c]
           r  == dd.round
<1>1. ASSUME e = dd, seats'[c] = seats[c] PROVE PanelOffered(c)
  BY <1>1 DEF PanelOffered, panel
<1>2. ASSUME Elsewhere PROVE PanelOffered(c) BY <1>1, <1>2 DEF Elsewhere
<1>3. ASSUME NEW i \in PurchaseId, NEW g \in Grounds,
             NEW m \in SUBSET (1..purchases[i].terms.taskCount), openDispute(i, g, m)
      PROVE  PanelOffered(c)
  <2>1. nextDisputeId \in DisputeId /\ OnlyDispute(nextDisputeId) /\ seats' = seats
    BY <1>3, OpenMoves
  <2>2. CASE c = nextDisputeId
    <3>1. dd = NoDispute BY <2>1, <2>2 DEF CaseInv, Links, DisputeId
    <3>2. dd.ground = "None" BY <3>1 DEF NoDispute
    <3> QED BY <3>2 DEF PanelOffered, Mechanical, Jury
  <2>3. CASE c # nextDisputeId BY <1>1, <2>1, <2>3 DEF OnlyDispute
  <2> QED BY <2>2, <2>3
<1>4. ASSUME NEW d \in DisputeId, d # c, DisputeCall(d) PROVE PanelOffered(c)
  BY <1>1, <1>4, OtherPanels DEF DisputeCall, CaseInv
<1>5. ASSUME NEW u, NEW m, NEW s, resolveMechanical(c, u, m, s) PROVE PanelOffered(c)
  <2>1. Mechanical(c) /\ dd.status # "None" BY <1>5 DEF resolveMechanical
  <2>2. ~e.fallbackNoQuorum
    <3>1. PICK out, extra : resolve(c, out, extra) /\ ~out.fallback
      BY <1>5 DEF resolveMechanical, upholdOutcome, rejectOutcome
    <3>2. disputes \in [DisputeId -> Dispute] BY DEF Linked, DisputeInv, TypeDisputes
    <3> DEFINE x == [dd EXCEPT !.status = "Resolved", !.verdict = out.verdict, !.refund = out.refund,
                           !.fallbackNoQuorum = out.fallback, !.confirmedMask = out.mask]
    <3>3. disputes' = [disputes EXCEPT ![c] = x] BY <3>1 DEF resolve
    <3>4. x.fallbackNoQuorum = out.fallback BY <3>2 DEF Dispute
    <3> HIDE DEF x
    <3> QED BY <3>1, <3>2, <3>3, <3>4
  <2> QED BY <2>1, <2>2 DEF PanelOffered, Mechanical, Jury
<1>6. ASSUME timeoutMechanical(c) PROVE PanelOffered(c)
  <2>1. /\ Mechanical(c) /\ dd.status = "Voting" /\ timestamp > dd.verifierDeadline
    BY <1>6 DEF timeoutMechanical
  <2> QED BY <2>1 DEF PanelOffered, Mechanical, Jury, MechanicalCard, now
<1>7. ASSUME selectJurors(c) PROVE PanelOffered(c)
  <2>1. Jury(c, "AwaitingSelection") /\ blockNumber > dd.selectionBlock
    BY <1>7 DEF selectJurors, SelectionOpen
  <2> QED BY <2>1 DEF PanelOffered, Mechanical, Jury, JuryCard, latestBlock
<1>8. ASSUME tallyDispute(c) PROVE PanelOffered(c)
  <2>1. TallyReady(c) /\ \E v, per, share : settleSeats(c, v, per, share)
    BY <1>8 DEF tallyDispute, tallyDecided, tallyFailed
  <2>2. PICK v, per, share : settleSeats(c, v, per, share) BY <2>1
  <2>3. Jury(c, "Voting") BY <2>1 DEF TallyReady
  <2>4. SeatsAlike(panel(c), seats'[c][r]) BY <2>2, <2>3, SettleMoves DEF panel
  <2>5. JuryCard(c).tallyDispute
    BY <2>1, <2>3 DEF TallyReady, JuryCard, allRevealed, revealers, now
  <2> QED BY <2>3, <2>4, <2>5 DEF PanelOffered, Mechanical, Jury, SeatsAlike
<1>9. ASSUME NEW a \in JurorPool, NEW v \in {"Uphold", "Reject"}, commitVote(c, a, v)
      PROVE  PanelOffered(c)
  <2>1. /\ Jury(c, "Voting") /\ a \in DOMAIN panel(c) /\ panel(c)[a].commitment = "None"
        /\ timestamp <= dd.commitDeadline
    BY <1>9 DEF commitVote
  <2>2. /\ \A b \in DOMAIN panel(c) : b # a => seats'[c][r][b] = panel(c)[b]
        /\ seats'[c][r][a].revealed = panel(c)[a].revealed /\ e = dd
    <3>1. ~revealVote(c, a) BY <2>1 DEF revealVote
    <3> QED BY <1>9, <3>1, VoteMoves DEF panel
  <2>3. MyJurySeat(a, c).commitVote /\ Stages(c).casting
    BY <2>1 DEF MyJurySeat, Stages, allCommitted, now
  <2> QED BY <2>1, <2>2, <2>3 DEF PanelOffered, Mechanical, Jury
<1>10. ASSUME NEW a \in JurorPool, revealVote(c, a) PROVE PanelOffered(c)
  <2>1. /\ Jury(c, "Voting") /\ a \in DOMAIN panel(c) /\ panel(c)[a].commitment # "None"
        /\ ~panel(c)[a].revealed /\ timestamp <= dd.revealDeadline
        /\ timestamp > dd.commitDeadline \/ allCommitted(c)
    BY <1>10 DEF revealVote
  <2>2. /\ \A b \in DOMAIN panel(c) : b # a => seats'[c][r][b] = panel(c)[b]
        /\ seats'[c][r][a].commitment = panel(c)[a].commitment /\ e = dd
    <3>1. ~commitVote(c, a, "Uphold") BY <2>1 DEF commitVote
    <3> QED BY <1>10, <3>1, VoteMoves, "Uphold" \in {"Uphold", "Reject"} DEF panel
  <2>3. MyJurySeat(a, c).revealVote BY <2>1 DEF MyJurySeat, now
  <2> QED BY <2>1, <2>2, <2>3 DEF PanelOffered, Mechanical, Jury
<1>11. ASSUME DisputeCall(c) PROVE PanelOffered(c)
  BY <1>5, <1>6, <1>7, <1>8, <1>9, <1>10, <1>11 DEF DisputeCall
<1>12. ASSUME CaseCall PROVE PanelOffered(c)
  <2>1. ASSUME NEW a \in Buyers, NEW v \in VersionId, buy(a, v) PROVE PanelOffered(c)
    BY <1>1, <2>1, BuyMoves
  <2>2. ASSUME NEW i \in PurchaseId,
               \/ \E s \in Signers : recordDelivery(i, s)
               \/ refundUndelivered(i) \/ finalize(i) \/ \E n \in StarChoices : rate(i, n)
        PROVE  PanelOffered(c)
    BY <1>1, <2>2, SaleMoves
  <2>3. ASSUME NEW d \in DisputeId, DisputeCall(d) PROVE PanelOffered(c) BY <1>4, <1>11, <2>3
  <2> QED BY <1>3, <1>12, <2>1, <2>2, <2>3 DEF CaseCall, DisputeCall
<1> QED BY <1>2, <1>12, CaseCalls

\* A fee is released to the runner with the report it paid for.
ReleasedReported == \A v \in VersionId : previews[v].released => versions[v].report

LEMMA ReleasesPreserved ==
  ASSUME Linked, RequestsSound, ReleasedReported, [Next]_vars PROVE ReleasedReported'
<1> SUFFICES ASSUME NEW v \in VersionId, previews'[v].released PROVE versions'[v].report
  BY DEF ReleasedReported
<1> DEFINE pv == previews[v]
           rv == previews'[v]
<1>1. previews \in [VersionId -> Preview] /\ pv \in Preview BY DEF Linked, CatalogInv, TypeCatalog
<1>2. pv.released => versions[v].report BY DEF ReleasedReported
<1>3. RequestStep(v) BY RequestSteps
<1>4. CASE RequestIdle(v) BY <1>2, <1>4 DEF RequestIdle
<1>5. CASE RequestPaid(v)
  <2>1. ~pv.released BY <1>2, <1>5 DEF RequestPaid
  <2>2. ASSUME NEW w \in VersionId, NEW f, requestPreview(w, f) PROVE rv.released = pv.released
    <3> DEFINE x == [previews[w] EXCEPT !.fee = f, !.paidAt = timestamp,
                       !.timeout = previewConfig.timeout, !.reclaimed = FALSE]
    <3>1. previews' = [previews EXCEPT ![w] = x] BY <2>2 DEF requestPreview
    <3>2. x.released = previews[w].released BY <1>1 DEF Preview
    <3> HIDE DEF x
    <3> QED BY <1>1, <3>1, <3>2
  <2>3. ASSUME NEW w \in VersionId, previews' = [previews EXCEPT ![w].reclaimed = TRUE]
        PROVE  rv.released = pv.released
    BY <1>1, <2>3 DEF Preview
  <2>4. ASSUME NEW w \in VersionId, previews' = [previews EXCEPT ![w].released = TRUE]
        PROVE  rv.reclaimed = pv.reclaimed /\ rv.paidAt = pv.paidAt
    BY <1>1, <2>4 DEF Preview
  <2>5. ASSUME NEW w \in VersionId, previews' = [previews EXCEPT ![w].released = TRUE],
               rv.released # pv.released
        PROVE  FALSE
    <3>1. rv.paidAt = timestamp /\ ~rv.reclaimed /\ ~outstanding(v) BY <1>5 DEF RequestPaid
    <3>2. timestamp > 0 BY DEF RequestsSound
    <3>3. timestamp \in Nat BY DEF Linked, TypeAdmin
    <3> QED BY <2>4, <2>5, <3>1, <3>2, <3>3 DEF outstanding
  <2> QED BY <2>1, <2>2, <2>3, <2>5, PreviewSteps
<1>6. CASE FeeReclaimed(v)
  <2>1. rv.released = pv.released BY <1>1, <1>6 DEF FeeReclaimed, Preview
  <2>2. ~pv.released BY <1>2, <1>6 DEF FeeReclaimed
  <2> QED BY <2>1, <2>2
<1>7. CASE ReportAttached(v) BY <1>7 DEF ReportAttached
<1> QED BY <1>3, <1>4, <1>5, <1>6, <1>7 DEF RequestStep

\* And the page of a listing, for its seller.
LEMMA PreviewsOffered ==
  ASSUME Linked, RequestsSound, ReleasedReported, [Next]_vars, NEW v \in VersionId
  PROVE  PreviewOffered(v)
<1> DEFINE pv == previews[v]
           rv == previews'[v]
<1>1. pv \in Preview /\ timestamp \in Nat BY DEF Linked, CatalogInv, TypeCatalog, TypeAdmin
<1>2. /\ previewInfo(v).paid = (pv.paidAt > 0 /\ ~pv.reclaimed)
      /\ previewInfo(v)'.paid = (rv.paidAt > 0 /\ ~rv.reclaimed)
  BY DEF previewInfo
<1>3. RequestStep(v) BY RequestSteps
<1>4. CASE RequestIdle(v) BY <1>2, <1>4 DEF RequestIdle, PreviewOffered
<1>5. CASE RequestPaid(v)
  <2>1. ~versions[v].report /\ (pv.paidAt = 0 \/ pv.reclaimed)
    BY <1>5 DEF RequestPaid, outstanding
  <2>2. ~(pv.paidAt > 0 /\ ~pv.reclaimed) BY <2>1
  <2>3. ~previewInfo(v).paid BY <1>2, <2>2, Zenon
  <2> QED BY <2>1, <2>3 DEF PreviewOffered, PreviewActions
<1>6. CASE FeeReclaimed(v)
  <2>1. /\ pv.paidAt # 0 /\ ~pv.reclaimed /\ ~versions[v].report
        /\ timestamp > pv.paidAt + pv.timeout /\ rv = [pv EXCEPT !.reclaimed = TRUE]
    BY <1>6 DEF FeeReclaimed, outstanding
  <2>2. rv.reclaimed BY <1>1, <2>1 DEF Preview
  <2>3. ~pv.released BY <2>1 DEF ReleasedReported
  <2>4. pv.paidAt > 0 BY <1>1, <2>1 DEF Preview
  <2>5. previewInfo(v).paid BY <1>2, <2>1, <2>4, Zenon
  <2>6. previewInfo(v).deadline = pv.paidAt + pv.timeout /\ previewInfo(v).released = pv.released
    BY <2>1 DEF previewInfo
  <2>7. PreviewActions(versions[v].seller, v).reclaimPreviewFee
    BY <2>1, <2>3, <2>5, <2>6 DEF PreviewActions, now
  <2> QED BY <2>5, <2>7 DEF PreviewOffered
<1>7. CASE ReportAttached(v)
  <2>1. rv = [pv EXCEPT !.released = TRUE] BY <1>7 DEF ReportAttached
  <2>2. rv.paidAt = pv.paidAt /\ rv.reclaimed = pv.reclaimed BY <1>1, <2>1 DEF Preview
  <2> QED BY <1>2, <2>2 DEF PreviewOffered
<1> QED BY <1>3, <1>4, <1>5, <1>6, <1>7 DEF RequestStep

\* Whatever is called, a page had a button for it.
LEMMA NeverHidden ==
  ASSUME Linked, CaseInv, DisputeNamed, RequestsSound, ReleasedReported, [Next]_vars
  PROVE  NothingHidden
BY SalesOffered, PanelsOffered, PreviewsOffered DEF NothingHidden

\* What the pages' promises rest on, in the first state.
LEMMA InitPromises == Init => DisputeNamed /\ Quoted /\ RequestsSound /\ ReleasedReported
<1> SUFFICES ASSUME Init PROVE DisputeNamed /\ Quoted /\ RequestsSound /\ ReleasedReported
  OBVIOUS
<1>1. DisputeNamed BY DEF Init, InitPurchases, DisputeNamed, NoPurchase
<1>2. /\ timestamp > 0 /\ \A v \in VersionId : versions[v] = NoVersion /\ previews[v] = NoPreview
  BY ConstantsOK DEF ConstantsOK, Init, InitChain, InitCatalog
<1>3. RequestsSound BY <1>2 DEF RequestsSound, NoVersion, NoPreview
<1>4. ReleasedReported BY <1>2 DEF ReleasedReported, NoPreview
<1> QED BY <1>1, <1>3, <1>4, InitQuoted

\* What a page showed before a call is what the call does, in every market: the amounts on
\* its buttons, the quote of a dispute, the rows of its outcome, and progress bars that never
\* run backwards.  And whatever becomes of a purchase, a dispute or a preview, the page of
\* whoever may bring it about offered it just before: no deadline, draw, vote or refund is
\* hidden.
THEOREM PagesKeepTheirPromises == Spec => PagesKeepPromises
<1> DEFINE Inv == DisputeNamed /\ Quoted /\ RequestsSound /\ ReleasedReported
           AllKept == CreditsAsShown /\ QuoteKept /\ OutcomeAddsUp /\ ProgressForward /\ NothingHidden
<1>1. Init => Inv BY InitPromises
<1>2. Linked /\ Linked' /\ CaseInv /\ Inv /\ [Next]_vars => Inv'
  BY NamesPreserved, QuotedPreserved, RequestsPreserved, ReleasesPreserved
<1>3. Linked /\ Linked' /\ CaseInv /\ Inv /\ [Next]_vars => AllKept
  BY PromisesKept, NeverHidden DEF Promised
<1>4. Spec => [][AllKept]_vars
  <2> HIDE DEF Inv, AllKept
  <2> QED BY <1>1, <1>2, <1>3, CaseHolds, PTL DEF Spec
<1> QED BY <1>4 DEF PagesKeepPromises

---------------------------------------------------------------------------
(* The juror services' view of a panel *)

\* The watched jurors do nothing but judge, and whoever disputes wants a jury.
JurorsOnlyJudge ==
  /\ Grounds \subseteq {"FalseDescription"}
  /\ WatchedJurors \cap (Sellers \cup Buyers \cup FeeRecipients) = {}

\* None of them is a party to anything that pays.
Apart ==
  /\ previewConfig.recipient \notin WatchedJurors
  /\ \A v \in VersionId : versions[v].seller \notin WatchedJurors
  /\ \A i \in PurchaseId : /\ purchases[i].buyer \notin WatchedJurors
                           /\ purchases[i].seller \notin WatchedJurors

\* Disputes are opened one after the other, each before a jury, with time to reveal.
BeforeJuries == \A d \in DisputeId :
  /\ disputes[d].status # "None" => disputes[d].ground = "FalseDescription"
  /\ d < nextDisputeId => disputes[d].status # "None"
  /\ disputes[d].status = "Voting" => disputes[d].commitDeadline <= disputes[d].revealDeadline

\* The sellers of versions and the recipient of preview fees are named once.
LEMMA SellersKept ==
  ASSUME Linked, JurorsOnlyJudge, Apart, [Next]_vars
  PROVE  /\ previewConfig'.recipient \notin WatchedJurors
         /\ \A v \in VersionId : versions'[v].seller \notin WatchedJurors
<1> USE DEF Apart
<1>0. versions \in [VersionId -> Version] /\ nextVersionId \in Nat
  BY ConstantsOK DEF ConstantsOK, Linked, CatalogInv, TypeCatalog
<1>1. ASSUME UNCHANGED admin
      PROVE  previewConfig'.recipient \notin WatchedJurors
  BY <1>1 DEF admin
<1>2. ASSUME UNCHANGED versions
      PROVE  \A v \in VersionId : versions'[v].seller \notin WatchedJurors
  BY <1>2
<1>3. ASSUME Admin
      PROVE  previewConfig'.recipient \notin WatchedJurors
  <2>1. ASSUME NEW a, NEW f, NEW t, setPreviewConfig(a, f, t), a \notin WatchedJurors
        PROVE  previewConfig'.recipient \notin WatchedJurors
    BY <2>1 DEF setPreviewConfig
  <2>2. \A a \in FeeRecipients : a \notin WatchedJurors BY DEF JurorsOnlyJudge
  <2>3. ASSUME \/ \E a \in FeeRecipients : setPreviewFeeRecipient(a)
               \/ \E f \in MinPreviewFees : setMinPreviewFee(f)
               \/ \E t \in PreviewTimeouts : setPreviewTimeout(t)
        PROVE  previewConfig'.recipient \notin WatchedJurors
    BY <2>1, <2>2, <2>3 DEF setPreviewFeeRecipient, setMinPreviewFee, setPreviewTimeout
  <2>4. ASSUME NEW q, setParams(q) PROVE UNCHANGED previewConfig BY <2>4 DEF setParams
  <2>5. ASSUME NEW s, NEW b, setRunner(s, b) \/ setRelay(s, b) \/ setVerifier(s, b)
        PROVE  UNCHANGED previewConfig
    BY <2>5 DEF setRunner, setRelay, setVerifier
  <2>6. ASSUME NEW a, NEW b, approveJuror(a, b) PROVE UNCHANGED previewConfig
    BY <2>6 DEF approveJuror, admin
  <2>7. ASSUME NEW n, withdrawTreasury(n) \/ withdrawReserve(n) PROVE UNCHANGED previewConfig
    BY <2>7 DEF withdrawTreasury, withdrawReserve, admin
  <2> QED BY <1>3, <2>3, <2>4, <2>5, <2>6, <2>7 DEF Admin
<1>4. ASSUME Selling PROVE \A v \in VersionId : versions'[v].seller \notin WatchedJurors
  <2>1. ASSUME NEW a \in Sellers, NEW l, NEW t, addVersion(a, l, t)
        PROVE  \A v \in VersionId : versions'[v].seller \notin WatchedJurors
    <3> DEFINE new == [seller |-> a, listing |-> l, terms |-> effectiveTerms(t),
                       report |-> FALSE, active |-> TRUE]
    <3>1. versions' = [versions EXCEPT ![nextVersionId] = new] BY <2>1 DEF addVersion
    <3>2. new.seller \notin WatchedJurors BY DEF JurorsOnlyJudge
    <3> HIDE DEF new
    <3> QED BY <1>0, <3>1, <3>2
  <2>2. ASSUME NEW v \in VersionId, NEW b,
               versions' \in { [versions EXCEPT ![v].active = b], [versions EXCEPT ![v].report = b] }
        PROVE  \A w \in VersionId : versions'[w].seller \notin WatchedJurors
    <3>1. ASSUME NEW w \in VersionId PROVE versions'[w].seller = versions[w].seller
      BY <1>0, <2>2 DEF Version
    <3> QED BY <3>1
  <2>3. ASSUME NEW a \in Sellers, NEW t \in TermChoices,
               createListing(a, t) \/ \E l \in VersionId : newVersion(a, l, t)
        PROVE  \A v \in VersionId : versions'[v].seller \notin WatchedJurors
    BY <2>1, <2>3 DEF createListing, newVersion
  <2>4. ASSUME NEW v \in VersionId, \/ \E b \in ActiveChoices : setVersionActive(v, b)
                                    \/ \E s \in Signers : attachReport(v, s)
        PROVE  \A w \in VersionId : versions'[w].seller \notin WatchedJurors
    BY <2>2, <2>4 DEF setVersionActive, attachReport
  <2>5. ASSUME NEW v, \/ \E f \in PreviewFees : requestPreview(v, f)
                      \/ reclaimPreviewFee(v)
        PROVE  UNCHANGED versions
    BY <2>5 DEF requestPreview, reclaimPreviewFee, catalog
  <2>6. ASSUME NEW a, NEW n, depositCollateral(a, n) \/ withdrawCollateral(a, n)
        PROVE  UNCHANGED versions
    BY <2>6 DEF depositCollateral, withdrawCollateral, catalog
  <2> QED BY <1>2, <1>4, <2>3, <2>4, <2>5, <2>6 DEF Selling
<1>5. CASE Admin
  <2>1. UNCHANGED versions BY <1>5, AdminFrame DEF catalog
  <2> QED BY <1>2, <1>3, <1>5, <2>1
<1>6. CASE Selling
  <2>1. UNCHANGED admin BY <1>6, SellingFrame
  <2> QED BY <1>1, <1>4, <1>6, <2>1
<1>7. CASE NewBlock \/ Purchasing \/ Judging \/ UNCHANGED vars
  <2>1. UNCHANGED admin /\ UNCHANGED versions
    BY <1>7, BlockFrame, PurchasingFrame, JudgingFrame DEF catalog, vars
  <2> QED BY <1>1, <1>2, <2>1
<1> QED BY <1>5, <1>6, <1>7 DEF Next

\* A purchase names its parties once, and they are no jurors.
LEMMA BuyersKept ==
  ASSUME Linked, CaseInv, JurorsOnlyJudge, Apart, [Next]_vars
  PROVE  \A i \in PurchaseId : /\ purchases'[i].buyer \notin WatchedJurors
                               /\ purchases'[i].seller \notin WatchedJurors
<1> DEFINE Stranger(p) == p.buyer \notin WatchedJurors /\ p.seller \notin WatchedJurors
<1>0. \A i \in PurchaseId : Stranger(purchases[i]) BY DEF Apart
<1>1. ASSUME NEW p, NEW q, Stranger(p), Kept(p, q) PROVE Stranger(q) BY <1>1 DEF Kept
<1>2. ASSUME NEW a \in Buyers, NEW v \in VersionId, buy(a, v)
      PROVE  \A i \in PurchaseId : Stranger(purchases'[i])
  <2> DEFINE q == [NoPurchase EXCEPT !.state = "Funded", !.version = v, !.buyer = a,
                     !.seller = versions[v].seller, !.terms = versions[v].terms, !.par = params,
                     !.deliveryDeadline = timestamp + versions[v].terms.deliveryWindow]
  <2>1. purchases' = [purchases EXCEPT ![nextPurchaseId] = q] BY <1>2 DEF buy
  <2>2. q.buyer = a /\ q.seller = versions[v].seller BY DEF NoPurchase
  <2>3. Stranger(q) BY <2>2 DEF JurorsOnlyJudge, Apart
  <2>4. purchases \in [PurchaseId -> Purchase] BY DEF Linked, PurchaseInv, TypePurchases
  <2> HIDE DEF q, Stranger
  <2> QED BY <1>0, <2>1, <2>3, <2>4
<1>3. ASSUME NEW i \in PurchaseId, OnlyPurchase(i), Kept(purchases[i], purchases'[i])
      PROVE  \A j \in PurchaseId : Stranger(purchases'[j])
  <2> HIDE DEF Stranger
  <2> QED BY <1>0, <1>1, <1>3 DEF OnlyPurchase
<1>4. ASSUME UNCHANGED purchases PROVE \A j \in PurchaseId : Stranger(purchases'[j])
  <2> HIDE DEF Stranger
  <2> QED BY <1>0, <1>4
<1> HIDE DEF Stranger
<1>5. ASSUME NEW i \in PurchaseId,
             \/ \E s \in Signers : recordDelivery(i, s)
             \/ refundUndelivered(i) \/ finalize(i) \/ \E n \in StarChoices : rate(i, n)
      PROVE  \A j \in PurchaseId : Stranger(purchases'[j])
  <2>1. OnlyPurchase(i) /\ Kept(purchases[i], purchases'[i])
    BY <1>5, SaleMoves DEF DeliverStep, RefundStep, CloseStep, RateStep
  <2> QED BY <1>3, <2>1
<1>6. ASSUME NEW i \in PurchaseId, NEW g \in Grounds,
             NEW m \in SUBSET (1..purchases[i].terms.taskCount), openDispute(i, g, m)
      PROVE  \A j \in PurchaseId : Stranger(purchases'[j])
  <2>1. OnlyPurchase(i) /\ Kept(purchases[i], purchases'[i]) BY <1>6, OpenMoves DEF DisputeStep
  <2> QED BY <1>3, <2>1
<1>7. ASSUME NEW d \in DisputeId, DisputeCall(d)
      PROVE  \A j \in PurchaseId : Stranger(purchases'[j])
  <2>1. OpenDispute(d) BY <1>7, RulingsOpen DEF DisputeCall
  <2>2. disputes[d].status # "None" /\ purchases[disputes[d].purchase].refunded = 0
    BY <2>1, OpenDisputed DEF CaseInv
  <2>3. \/ UNCHANGED purchases
        \/ \E out \in Outcome : \E extra : resolve(d, out, extra)
    BY <1>7, <2>2, DisputeSteps DEF DisputeCall
  <2>4. ASSUME NEW out \in Outcome, NEW extra, resolve(d, out, extra)
        PROVE  \A j \in PurchaseId : Stranger(purchases'[j])
    BY <1>3, <2>2, <2>4, ResolveMoves
  <2> QED BY <1>4, <2>3, <2>4
<1>8. \A i \in PurchaseId : Stranger(purchases'[i])
  BY <1>2, <1>4, <1>5, <1>6, <1>7, CaseCalls DEF CaseCall, DisputeCall, Elsewhere
<1> QED BY <1>8 DEF Stranger

---------------------------------------------------------------------------
(* What a call does to a dispute before a jury, and to the watched jurors *)

\* What is no call's doing: the clock and other disputes; the ground and who else disputed.
OthersKept(d) ==
  /\ UNCHANGED <<blockNumber, timestamp>> /\ OnlyDispute(d)
  /\ \A c \in DisputeId : c # d => seats'[c] = seats[c]
Filed(d) == nextDisputeId' = nextDisputeId /\ disputes'[d].ground = disputes[d].ground
PayKept == \A j \in WatchedJurors : claimable'[j] = claimable[j]
Sitting(d) == \A r \in Rounds : SeatsAlike(seats[d][r], seats'[d][r])

Drawable(d) == disputes[d].status = "AwaitingSelection" /\ blockNumber > disputes[d].selectionBlock
Rearms(d) ==
  LET e == disputes'[d] IN
  /\ Drawable(d) /\ e.status = "AwaitingSelection" /\ e.round = disputes[d].round
  /\ e.selectionBlock = blockNumber + 2 /\ UNCHANGED seats /\ PayKept
Draws(d, chosen) ==
  LET dd == disputes[d]
      e  == disputes'[d]
  IN /\ Drawable(d) /\ Cardinality(chosen) = SEATS
     /\ e.status = "Voting" /\ e.round = dd.round
     /\ e.commitDeadline >= timestamp /\ e.revealDeadline >= e.commitDeadline
     /\ seats'[d] = [seats[d] EXCEPT ![dd.round] = [a \in chosen |-> EmptySeat]] /\ PayKept
Fails(d) ==
  LET dd == disputes[d]
      e  == disputes'[d]
  IN /\ \/ Drawable(d) /\ timestamp > dd.selectionDeadline
        \/ TallyReady(d) /\ panelVerdict(panel(d)) = "None"
     /\ IF dd.round = 1
        THEN e.status = "AwaitingSelection" /\ e.round = 2 /\ e.selectionBlock = blockNumber + 2
        ELSE e.status = "Resolved" /\ e.round = 2
     /\ Sitting(d) /\ PayKept
Settles(d) ==
  LET e == disputes'[d] IN
  /\ TallyReady(d) /\ panelVerdict(panel(d)) # "None"
  /\ e.status = "Resolved" /\ e.round = disputes[d].round
  /\ Sitting(d)
  /\ \E paid \in SUBSET revealers(panel(d)) :
       \A j \in WatchedJurors : claimable'[j] > 0 <=> claimable[j] > 0 \/ j \in paid
Votes(d) ==
  /\ \E a \in JurorPool : revealVote(d, a) \/ \E v \in {"Uphold", "Reject"} : commitVote(d, a, v)
  /\ disputes'[d] = disputes[d] /\ PayKept

\* A dispute that closes pays its parties, who are not watched, and the jurors.
LEMMA PartiesUnseen ==
  ASSUME Linked, Apart, NEW d \in DisputeId, disputes[d].status # "None",
         NEW out \in Outcome, NEW extra \in Extra, resolve(d, out, extra)
  PROVE  \A j \in WatchedJurors : claimable'[j] = claimable[j] + extra.pay[j]
<1> DEFINE i == disputes[d].purchase
           p == purchases[i]
           paid == credit(claimable, p.seller, closeProceeds(p, out.refund))
           made == credit(paid, p.buyer, out.toBuyer)
<1>1. i \in PurchaseId /\ p \in Purchase /\ WellMade(p) /\ p.state # "None" BY DisputedPurchase
<1>2. p.buyer \notin WatchedJurors /\ p.seller \notin WatchedJurors BY <1>1 DEF Apart
<1>3. claimable' = [a \in Accounts |-> made[a] + extra.pay[a]] BY DEF resolve
<1>4. claimable \in [Accounts -> Int] BY DEF Linked, TypeFunds
<1>5. p.seller \in Accounts /\ p.buyer \in Accounts BY <1>1, PurchaseNat
<1>6. closeProceeds(p, out.refund) \in Int /\ out.toBuyer \in Int
  <2>1. out.refund \in Int /\ out.toBuyer \in Int /\ p.state # "None" BY <1>1 DEF Outcome
  <2> HIDE DEF p
  <2> QED BY <1>1, <2>1, CloseInt
<1>7. paid \in [Accounts -> Int]
  <2> HIDE DEF p
  <2> QED BY <1>4, <1>5, <1>6, CreditTyped
<1>8. ASSUME NEW j \in WatchedJurors PROVE made[j] = claimable[j]
  <2>1. j \in Accounts /\ j # p.buyer /\ j # p.seller BY <1>2, WatchedOK
  <2>2. paid[j] = claimable[j] BY <1>4, <2>1 DEF credit
  <2> HIDE DEF paid
  <2>3. made[j] = paid[j] BY <1>7, <2>1 DEF credit
  <2> QED BY <2>2, <2>3
<1> HIDE DEF made
<1> QED BY <1>3, <1>8, WatchedOK

\* The record of a selection that was armed, for a first or another draw.
LEMMA ArmedBlock ==
  ASSUME NEW dd \in Dispute
  PROVE  /\ secondRound(dd).selectionBlock = blockNumber + 2
         /\ [dd EXCEPT !.selectionBlock = blockNumber + 2].selectionBlock = blockNumber + 2
<1> DEFINE m == [dd EXCEPT !.round = 2, !.status = "AwaitingSelection",
                           !.commitDeadline = 0, !.revealDeadline = 0]
<1>1. m \in Dispute
  <2>1. "AwaitingSelection" \in DisputeStatus /\ 2 \in 0..2 BY DEF DisputeStatus
  <2> QED BY <2>1 DEF Dispute
<1>2. secondRound(dd) = armSelection(m) BY DEF secondRound
<1> HIDE DEF m
<1>3. armSelection(m).selectionBlock = blockNumber + 2 BY <1>1 DEF armSelection, Dispute
<1> QED BY <1>2, <1>3 DEF Dispute

\* A first round that fails arms the second.
LEMMA AdvanceFails ==
  ASSUME Linked, NEW d \in DisputeId, disputes[d].status # "None", disputes[d].round = 1,
         disputes' = [disputes EXCEPT ![d] = secondRound(@)]
  PROVE  LET e == disputes'[d] IN
         e.status = "AwaitingSelection" /\ e.round = 2 /\ e.selectionBlock = blockNumber + 2
<1>1. disputes \in [DisputeId -> Dispute] BY DEF Linked, DisputeInv, TypeDisputes
<1>2. disputes'[d] = secondRound(disputes[d]) BY <1>1
<1> QED BY <1>1, <1>2, AdvanceMoves, ArmedBlock

\* Seats nobody touches.
LEMMA SeatsSit == ASSUME NEW d, seats' = seats PROVE Sitting(d)
BY DEF Sitting, SeatsAlike

\* Drawing a panel.
LEMMA SelectCalls ==
  ASSUME Linked, Apart, NEW d \in DisputeId, selectJurors(d)
  PROVE  Rearms(d) \/ Fails(d) \/ \E chosen \in SUBSET Accounts : Draws(d, chosen)
<1> DEFINE dd == disputes[d]
           e  == disputes'[d]
<1>1. Drawable(d) /\ Jury(d, "AwaitingSelection") /\ dd.status # "None"
  BY DEF selectJurors, SelectionOpen, Jury, Drawable
<1>2. dd \in Dispute /\ disputes \in [DisputeId -> Dispute] /\ dd.round \in Rounds /\ ValidParams(dd.par)
  BY <1>1, DisputedPurchase, PanelTyped DEF Linked, DisputeInv, TypeDisputes, DisputeStatus
<1>3. CASE rearmSelection(d)
  <2>1. /\ disputes' = [disputes EXCEPT ![d].selectionBlock = blockNumber + 2]
        /\ UNCHANGED <<seats, claimable>>
    BY <1>3 DEF rearmSelection
  <2>2. e = [dd EXCEPT !.selectionBlock = blockNumber + 2] BY <1>2, <2>1
  <2>3. e.selectionBlock = blockNumber + 2 BY <1>2, <2>2, ArmedBlock
  <2>4. e.status = dd.status /\ e.round = dd.round BY <1>1, <1>3, RearmMoves
  <2> QED BY <1>1, <2>1, <2>3, <2>4 DEF Rearms, Drawable, PayKept
<1>4. ASSUME NEW chosen \in SUBSET eligible(d), seatPanel(d, chosen) PROVE Draws(d, chosen)
  <2> DEFINE w == dd.par.commitWindow
             x == dd.par.revealWindow
  <2>1. /\ disputes' = [disputes EXCEPT ![d] =
              [dd EXCEPT !.status = "Voting", !.commitDeadline = timestamp + w,
                 !.revealDeadline = timestamp + w + x]]
        /\ UNCHANGED claimable /\ Cardinality(chosen) = SEATS
        /\ seats' = [seats EXCEPT ![d][dd.round] = [a \in chosen |-> EmptySeat]]
    BY <1>4 DEF seatPanel
  <2>2. e = [dd EXCEPT !.status = "Voting", !.commitDeadline = timestamp + w,
               !.revealDeadline = timestamp + w + x]
    BY <1>2, <2>1
  <2>3. w \in Nat /\ x \in Nat /\ timestamp \in Nat
    BY <1>2, ParamsNat DEF Linked, TypeAdmin
  <2> HIDE DEF e, w, x
  <2>4. e.commitDeadline = timestamp + w /\ e.revealDeadline = timestamp + w + x
    BY <1>2, <2>2 DEF Dispute
  <2>5. e.commitDeadline >= timestamp /\ e.revealDeadline >= e.commitDeadline
    BY <2>3, <2>4
  <2>6. e.status = "Voting" /\ e.round = dd.round BY <1>1, <1>4, DrawMoves DEF e
  <2>7. DOMAIN seats = DisputeId BY DEF Linked, SeatInv, TypeSeats
  <2>8. seats'[d] = [seats[d] EXCEPT ![dd.round] = [a \in chosen |-> EmptySeat]] BY <2>1, <2>7
  <2> QED BY <1>1, <2>1, <2>5, <2>6, <2>8 DEF Draws, PayKept, e
<1>5. CASE panelUnfillable(d)
  <2>1. Sitting(d) /\ timestamp > dd.selectionDeadline BY <1>5, SeatsSit DEF panelUnfillable
  <2>2. CASE dd.round = 1
    <3>1. disputes' = [disputes EXCEPT ![d] = secondRound(@)] /\ UNCHANGED claimable
      BY <1>5, <2>2 DEF panelUnfillable
    <3> QED BY <1>1, <2>1, <2>2, <3>1, AdvanceFails DEF Fails, PayKept
  <2>3. CASE dd.round # 1
    <3>1. resolve(d, fallbackOutcome(dd), NoExtra) BY <1>5, <2>3 DEF panelUnfillable
    <3>2. fallbackOutcome(dd) \in Outcome /\ NoExtra \in Extra BY <1>2, RejectTyped, NoExtraTyped
    <3>3. e.status = "Resolved" /\ e.round = dd.round BY <1>1, <3>1, <3>2, ResolveMoves
    <3>4. dd.round = 2 BY <1>2, <2>3 DEF Rounds
    <3>5. \A j \in WatchedJurors : NoExtra.pay[j] = 0 BY WatchedOK DEF NoExtra, NoPay
    <3>6. \A j \in WatchedJurors : claimable'[j] = claimable[j] + NoExtra.pay[j]
      BY <1>1, <3>1, <3>2, PartiesUnseen
    <3>7. \A j \in WatchedJurors : claimable[j] \in Int BY WatchedOK DEF Linked, TypeFunds
    <3>8. PayKept BY <3>5, <3>6, <3>7 DEF PayKept
    <3> QED BY <1>1, <2>1, <2>3, <3>3, <3>4, <3>8 DEF Fails
  <2> QED BY <2>2, <2>3
<1>6. eligible(d) \subseteq Accounts BY DEF eligible, jurorList
<1> QED BY <1>3, <1>4, <1>5, <1>6 DEF selectJurors

\* A tally keeps every vote of every round.
LEMMA TallySits ==
  ASSUME Linked, NEW d \in DisputeId, Jury(d, "Voting"), NEW v, NEW per, NEW share,
         settleSeats(d, v, per, share)
  PROVE  Sitting(d)
<1> DEFINE r == disputes[d].round
<1>1. OnlyPanel(d, r) /\ SeatsAlike(seats[d][r], seats'[d][r]) BY SettleMoves
<1> HIDE DEF r
<1>2. \A k \in Rounds : k # r => seats'[d][k] = seats[d][k] BY <1>1 DEF OnlyPanel
<1>3. \A k \in Rounds : k # r => SeatsAlike(seats[d][k], seats'[d][k]) BY <1>2 DEF SeatsAlike
<1> QED BY <1>1, <1>3 DEF Sitting

\* A tally without a majority.
LEMMA FailedCalls ==
  ASSUME Linked, Apart, NEW d \in DisputeId, tallyFailed(d) PROVE Fails(d)
<1> DEFINE dd == disputes[d]
           e  == disputes'[d]
           missing == (SEATS - Cardinality(revealers(panel(d)))) * nonRevealSlash(dd)
<1>1. /\ Jury(d, "Voting") /\ dd.status # "None" /\ "Voting" \in DisputeStatus
      /\ TallyReady(d) /\ panelVerdict(panel(d)) = "None" /\ settleSeats(d, "None", 0, 0)
  BY DEF tallyFailed, TallyReady, Jury, DisputeStatus
<1>2. /\ dd \in Dispute /\ ValidParams(dd.par) /\ dd.round \in Rounds
      /\ Cardinality(revealers(panel(d))) \in Nat
  BY <1>1, DisputedPurchase, PanelTyped
<1>3. Sitting(d) BY <1>1, TallySits
<1>4. CASE dd.round = 1
  <2>1. disputes' = [disputes EXCEPT ![d] = secondRound(@)] /\ UNCHANGED claimable
    BY <1>4 DEF tallyFailed
  <2> QED BY <1>1, <1>3, <1>4, <2>1, AdvanceFails DEF Fails, PayKept
<1>5. CASE dd.round # 1
  <2> DEFINE extra == [NoExtra EXCEPT !.reserve = missing, !.jurorStake = missing]
  <2>1. resolve(d, fallbackOutcome(dd), extra) BY <1>5 DEF tallyFailed
  <2>2. missing \in Int
    <3>1. nonRevealSlash(dd) \in Int BY <1>2, SlashInt
    <3> QED BY <1>2, <3>1 DEF SEATS
  <2> HIDE DEF missing
  <2>3. extra \in Extra /\ extra.pay = NoPay
    <3>1. extra \in Extra BY <2>2, NoExtraTyped DEF Extra
    <3>2. extra.pay = NoPay BY DEF NoExtra
    <3> QED BY <3>1, <3>2
  <2>4. fallbackOutcome(dd) \in Outcome BY <1>2, RejectTyped
  <2> HIDE DEF extra
  <2>5. e.status = "Resolved" /\ e.round = dd.round BY <1>1, <2>1, <2>4, ResolveMoves
  <2>6. \A j \in WatchedJurors : claimable'[j] = claimable[j] + extra.pay[j]
    BY <1>1, <2>1, <2>3, <2>4, PartiesUnseen
  <2>7. \A j \in WatchedJurors : extra.pay[j] = 0 /\ claimable[j] \in Int
    BY <2>3, WatchedOK DEF NoPay, Linked, TypeFunds
  <2>8. PayKept BY <2>6, <2>7 DEF PayKept
  <2>9. dd.round = 2 BY <1>2, <1>5 DEF Rounds
  <2> QED BY <1>1, <1>3, <1>5, <2>5, <2>8, <2>9 DEF Fails
<1> QED BY <1>4, <1>5

\* A tally with a majority pays those who revealed, and no watched juror otherwise.
LEMMA DecidedCalls ==
  ASSUME Linked, CaseInv, MoneyInv, Apart, NEW d \in DisputeId, tallyDecided(d) PROVE Settles(d)
<1> DEFINE dd == disputes[d]
           p  == purchases[dd.purchase]
           pn == panel(d)
           D  == DOMAIN pn
           verdict == panelVerdict(pn)
           reveals == Cardinality(revealers(pn))
           majority == Cardinality(votersFor(pn, verdict))
           out == IF verdict = "Uphold" THEN upholdOutcome(p, dd, dd.taskMask)
                  ELSE rejectOutcome(dd)
           per == participationPay(dd, out.caseFee, reveals)
           share == bonusShare(dd, out.caseFee, reveals, majority)
           pool == bonusPool(dd, out.caseFee, reveals, majority)
           missing == (SEATS - reveals) * nonRevealSlash(dd)
           slashes == (reveals - majority) * minoritySlash(dd)
           reward(a) == seatReward(dd, pn[a], verdict, per, share)
           extra == [treasury |-> 0, reserve |-> missing + (pool - share * majority),
                     jurorStake |-> missing + slashes,
                     claimable |-> per * reveals + share * majority,
                     pay |-> [a \in Accounts |-> IF a \in DOMAIN pn THEN reward(a) ELSE 0]]
<1>1. /\ Jury(d, "Voting") /\ dd.status = "Voting" /\ "Voting" \in DisputeStatus
      /\ OpenDispute(d) /\ JuryCase(dd) /\ TallyReady(d)
  BY DEF tallyDecided, TallyReady, Jury, DisputeStatus, OpenDispute, JuryCase
<1>2. /\ dd \in Dispute /\ p \in Purchase /\ WellMade(p) /\ p.state # "None"
      /\ dd.taskMask \in SUBSET (1..p.terms.taskCount) /\ ValidParams(dd.par)
      /\ p.refunded = 0 /\ dd.bond >= 0
  BY <1>1, DisputedPurchase, OpenDisputed DEF CaseInv, Links, CaseSound
<1>3. /\ dd.round \in Rounds /\ D \in SUBSET Accounts /\ pn \in [D -> Seat] /\ reveals \in Nat
      /\ revealers(pn) \subseteq D /\ pn = seats[d][dd.round]
  BY <1>1, PanelTyped DEF panel
<1>4. \A a \in D : pn[a].revealed => pn[a].commitment # "None"
  BY <1>3 DEF Linked, SeatInv, RevealsCommitted
<1>5. Cardinality(D) = SEATS BY <1>1, <1>3 DEF CaseInv, PanelsSound, PanelSound, Drawn
<1>6. reveals <= 3
  <2>1. IsFiniteSet(D) BY <1>3, SeatsFinite
  <2> QED BY <1>3, <1>5, <2>1, FS_Subset DEF SEATS
<1>7. resolve(d, out, extra) /\ verdict # "None" /\ settleSeats(d, verdict, per, share)
  BY DEF tallyDecided
<1>8. majority \in {2, 3} /\ reveals \in {2, 3} /\ majority <= reveals
  <2>1. majority \in Nat /\ majority >= 2 /\ reveals >= 2 /\ majority <= reveals
    BY <1>3, <1>4, <1>7, MajorityPositive
  <2> HIDE DEF majority, reveals
  <2> QED BY <1>3, <1>6, <2>1
<1>9. out \in Outcome /\ out.caseFee \in Nat
  <2>1. out \in Outcome /\ Affordable(out, p) BY <1>2, UpholdTyped, RejectTyped, OutcomesAffordable
  <2> QED BY <2>1 DEF Outcome, Affordable
<1> HIDE DEF out, verdict, majority, reveals
<1>10. per \in Int /\ share \in Int /\ per >= 0 /\ share >= 0 /\ pool \in Int
  <2>1. per = participationPay(dd, out.caseFee, reveals) OBVIOUS
  <2>2. share = bonusShare(dd, out.caseFee, reveals, majority) OBVIOUS
  <2>3. ValidParams(dd.par) /\ dd \in Dispute BY <1>2
  <2>4. out.caseFee <= out.caseFee BY <1>9
  <2> HIDE DEF per, share, dd
  <2> QED BY <1>8, <1>9, <2>1, <2>2, <2>3, <2>4, PotSuffices
<1>11. nonRevealSlash(dd) \in Int /\ minoritySlash(dd) \in Int BY <1>2, SlashInt
<1>12. /\ missing \in Int /\ slashes \in Int /\ per * reveals \in Int /\ share * majority \in Int
  BY <1>8, <1>10, <1>11 DEF SEATS
<1> HIDE DEF per, share, pool
<1>13. \A a : /\ reward(a) \in Int /\ reward(a) >= 0
              /\ reward(a) > 0 => pn[a].revealed
  BY <1>10 DEF seatReward
<1> HIDE DEF reward
<1>14. extra \in Extra
  <2>1. /\ missing + (pool - share * majority) \in Int /\ missing + slashes \in Int
        /\ per * reveals + share * majority \in Int
    BY <1>10, <1>12
  <2> HIDE DEF missing, slashes
  <2> QED BY <1>13, <2>1 DEF Extra
<1> DEFINE paid == {a \in D : reward(a) > 0}
<1>15. paid \in SUBSET revealers(pn) BY <1>13 DEF revealers
<1>16. \A a \in Accounts : extra.pay[a] = IF a \in D THEN reward(a) ELSE 0 OBVIOUS
<1> HIDE DEF extra
<1>17. \A j \in WatchedJurors : claimable'[j] = claimable[j] + extra.pay[j]
  BY <1>1, <1>7, <1>9, <1>14, PartiesUnseen
<1>18. \A j \in WatchedJurors : claimable'[j] > 0 <=> claimable[j] > 0 \/ j \in paid
  <2> SUFFICES ASSUME NEW j \in WatchedJurors
               PROVE  claimable'[j] > 0 <=> claimable[j] > 0 \/ j \in paid
    OBVIOUS
  <2>1. j \in Accounts /\ claimable[j] \in Int /\ claimable[j] >= 0
    BY WatchedOK DEF Linked, TypeFunds, MoneyInv, Covered
  <2>2. extra.pay[j] \in Int /\ extra.pay[j] >= 0 /\ (extra.pay[j] > 0 <=> j \in paid)
    <3>1. CASE j \in D BY <1>13, <1>16, <2>1, <3>1
    <3>2. CASE j \notin D BY <1>16, <2>1, <3>2
    <3> QED BY <3>1, <3>2
  <2> HIDE DEF paid
  <2> QED BY <1>17, <2>1, <2>2
<1> HIDE DEF paid
<1>19. disputes'[d].status = "Resolved" /\ disputes'[d].round = dd.round
  BY <1>1, <1>7, <1>9, ResolveMoves
<1>20. Sitting(d) BY <1>1, <1>7, TallySits
<1> QED BY <1>1, <1>7, <1>15, <1>18, <1>19, <1>20 DEF Settles, verdict

\* Every call on a dispute before a jury draws, fails, settles or votes.
LEMMA JuryCalls ==
  ASSUME Linked, CaseInv, MoneyInv, Apart, BeforeJuries, NEW d \in DisputeId, DisputeCall(d)
  PROVE  /\ OthersKept(d) /\ Filed(d)
         /\ \/ Rearms(d) \/ Fails(d) \/ Settles(d) \/ Votes(d)
            \/ \E chosen \in SUBSET Accounts : Draws(d, chosen)
<1>1. OpenDispute(d) BY RulingsOpen DEF DisputeCall
<1>2. /\ disputes[d].status # "None" /\ disputes[d].ground = "FalseDescription"
      /\ purchases[disputes[d].purchase].refunded = 0
  BY <1>1, OpenDisputed DEF CaseInv, BeforeJuries
<1>3. OthersKept(d) /\ Filed(d)
  <2>1. Judging BY DEF DisputeCall, Judging, Deciding
  <2>2. UNCHANGED <<blockNumber, timestamp, nextDisputeId>> BY <2>1, JudgingFrame DEF chain
  <2>3. \A c \in DisputeId : c # d => disputes'[c] = disputes[c] /\ seats'[c] = seats[c]
    BY OtherPanels DEF DisputeCall, CaseInv
  <2>4. disputes'[d].ground = disputes[d].ground
    <3>1. CASE CaseStep(disputes[d], disputes'[d]) BY <3>1 DEF CaseStep, SameCase
    <3>2. ASSUME NEW out \in Outcome, NEW extra, resolve(d, out, extra)
          PROVE  disputes'[d].ground = disputes[d].ground
      BY <1>2, <3>2, ResolveMoves DEF SameCase
    <3> QED BY <1>2, <3>1, <3>2, DisputeSteps DEF DisputeCall
  <2> QED BY <2>2, <2>3, <2>4 DEF OthersKept, Filed, OnlyDispute
<1>4. ~Mechanical(d) BY <1>2 DEF Mechanical
<1>5. CASE selectJurors(d) BY <1>3, <1>5, SelectCalls
<1>6. CASE tallyDispute(d) BY <1>3, <1>6, FailedCalls, DecidedCalls DEF tallyDispute
<1>7. ASSUME NEW a, revealVote(d, a) \/ \E v \in {"Uphold", "Reject"} : commitVote(d, a, v)
      PROVE  disputes'[d] = disputes[d] /\ PayKept
  BY <1>7 DEF commitVote, revealVote, PayKept
<1>8. CASE \E a \in JurorPool : revealVote(d, a) \/ \E v \in {"Uphold", "Reject"} : commitVote(d, a, v)
  <2>1. Votes(d) BY <1>7, <1>8 DEF Votes
  <2> QED BY <1>3, <2>1
<1> QED BY <1>3, <1>4, <1>5, <1>6, <1>8 DEF DisputeCall, resolveMechanical, timeoutMechanical

\* What a dispute before a jury is known to be stays known.
LEMMA JuriesPreserved ==
  ASSUME Linked, CaseInv, MoneyInv, JurorsOnlyJudge, Apart, BeforeJuries, [Next]_vars
  PROVE  BeforeJuries'
<1> DEFINE Known(dd) == /\ dd.status # "None" => dd.ground = "FalseDescription"
                        /\ dd.status = "Voting" => dd.commitDeadline <= dd.revealDeadline
<1>0. /\ \A d \in DisputeId : Known(disputes[d])
      /\ \A d \in DisputeId : d < nextDisputeId => disputes[d].status # "None"
  BY DEF BeforeJuries
<1>1. ASSUME UNCHANGED <<disputes, nextDisputeId>> PROVE BeforeJuries'
  BY <1>1 DEF BeforeJuries
<1>2. ASSUME NEW i \in PurchaseId, NEW g \in Grounds,
             NEW m \in SUBSET (1..purchases[i].terms.taskCount), openDispute(i, g, m)
      PROVE  BeforeJuries'
  <2> DEFINE d == nextDisputeId
             e == disputes'[d]
  <2>1. g = "FalseDescription" BY DEF JurorsOnlyJudge
  <2>2. /\ d \in DisputeId /\ OnlyDispute(d) /\ nextDisputeId' = d + 1
        /\ e.ground = g /\ e.status = "AwaitingSelection"
    BY <1>2, <2>1, OpenMoves
  <2>3. Known(e) /\ e.status # "None" BY <2>1, <2>2
  <2>4. \A c \in DisputeId : c < d + 1 => c < d \/ c = d
    BY <2>2, ConstantsOK DEF ConstantsOK, DisputeId
  <2> HIDE DEF Known, d
  <2>5. \A c \in DisputeId : Known(disputes'[c]) BY <1>0, <2>2, <2>3 DEF OnlyDispute
  <2>6. \A c \in DisputeId : c < nextDisputeId' => disputes'[c].status # "None"
    BY <1>0, <2>2, <2>3, <2>4 DEF OnlyDispute, d
  <2> QED BY <2>5, <2>6 DEF BeforeJuries, Known
<1>3. ASSUME NEW d \in DisputeId, DisputeCall(d) PROVE BeforeJuries'
  <2> DEFINE e == disputes'[d]
  <2>1. /\ OthersKept(d) /\ Filed(d)
        /\ \/ Rearms(d) \/ Fails(d) \/ Settles(d) \/ Votes(d)
           \/ \E chosen \in SUBSET Accounts : Draws(d, chosen)
    BY <1>3, JuryCalls
  <2>2. disputes[d].ground = "FalseDescription"
    <3>1. OpenDispute(d) BY <1>3, RulingsOpen DEF DisputeCall
    <3> QED BY <3>1 DEF OpenDispute, BeforeJuries
  <2>3. e.ground = "FalseDescription" BY <2>1, <2>2 DEF Filed
  <2>4. e.status # "None" /\ Known(e)
    <3>1. CASE Rearms(d) BY <2>3, <3>1 DEF Rearms
    <3>2. CASE Fails(d) BY <2>3, <3>2 DEF Fails
    <3>3. CASE Settles(d) BY <2>3, <3>3 DEF Settles
    <3>4. CASE Votes(d)
      <4>1. disputes[d].status # "None"
        <5>1. OpenDispute(d) BY <1>3, RulingsOpen DEF DisputeCall
        <5> QED BY <5>1 DEF OpenDispute
      <4>2. e = disputes[d] BY <3>4 DEF Votes
      <4> HIDE DEF Known, e
      <4> QED BY <1>0, <4>1, <4>2
    <3>5. ASSUME NEW chosen, Draws(d, chosen) PROVE e.status # "None" /\ Known(e)
      <4>1. e.status = "Voting" /\ e.revealDeadline >= e.commitDeadline BY <3>5 DEF Draws
      <4>2. e.revealDeadline \in Nat /\ e.commitDeadline \in Nat
        <5>1. Linked' BY NextLinked
        <5>2. e \in Dispute BY <5>1 DEF Linked, DisputeInv, TypeDisputes
        <5> QED BY <5>2 DEF Dispute
      <4> HIDE DEF e
      <4> QED BY <2>3, <4>1, <4>2 DEF e
    <3> QED BY <2>1, <3>1, <3>2, <3>3, <3>4, <3>5
  <2>5. nextDisputeId' = nextDisputeId /\ OnlyDispute(d) BY <2>1 DEF OthersKept, Filed
  <2> HIDE DEF Known
  <2>6. \A c \in DisputeId : Known(disputes'[c]) BY <1>0, <2>4, <2>5 DEF OnlyDispute
  <2>7. \A c \in DisputeId : c < nextDisputeId' => disputes'[c].status # "None"
    BY <1>0, <2>4, <2>5 DEF OnlyDispute
  <2> QED BY <2>6, <2>7 DEF BeforeJuries, Known
<1>4. ASSUME NEW a \in Buyers, NEW v \in VersionId, buy(a, v) PROVE BeforeJuries'
  BY <1>1, <1>4, BuyMoves
<1>5. ASSUME NEW i \in PurchaseId,
             \/ \E s \in Signers : recordDelivery(i, s)
             \/ refundUndelivered(i) \/ finalize(i) \/ \E n \in StarChoices : rate(i, n)
      PROVE  BeforeJuries'
  BY <1>1, <1>5, SaleMoves
<1> QED BY <1>1, <1>2, <1>3, <1>4, <1>5, CaseCalls DEF CaseCall, DisputeCall, Elsewhere

---------------------------------------------------------------------------
(* What the juror services see of a dispute *)

SeenCase(s, r, c, o) == [status |-> s, round |-> r, clock |-> c, others |-> o]
RoundSeen(dd) == IF dd.round = 2 THEN 2 ELSE 1

\* How far the seats of a panel that are not watched have got.
Heard(pn) ==
  LET others == {pn[a] : a \in DOMAIN pn \ WatchedJurors} IN
  IF others = {} \/ \E s \in others : s.commitment = "None" THEN "empty"
  ELSE IF \E s \in others : ~s.revealed THEN "committed" ELSE "revealed"

LEMMA HeardCases ==
  ASSUME NEW pn
  PROVE  LET others == DOMAIN pn \ WatchedJurors IN
         /\ Heard(pn) = "empty" <=> others = {} \/ \E a \in others : pn[a].commitment = "None"
         /\ Heard(pn) = "committed" <=>
              /\ \A a \in others : pn[a].commitment # "None"
              /\ \E a \in others : ~pn[a].revealed
         /\ Heard(pn) = "revealed" <=>
              /\ others # {}
              /\ \A a \in others : pn[a].commitment # "None" /\ pn[a].revealed
<1> DEFINE others == DOMAIN pn \ WatchedJurors
           said == {pn[a] : a \in others}
<1>1. said = {} <=> others = {} OBVIOUS
<1>2. /\ (\E s \in said : s.commitment = "None") <=> \E a \in others : pn[a].commitment = "None"
      /\ (\E s \in said : ~s.revealed) <=> \E a \in others : ~pn[a].revealed
  OBVIOUS
<1>3. Heard(pn) = IF said = {} \/ \E s \in said : s.commitment = "None" THEN "empty"
                  ELSE IF \E s \in said : ~s.revealed THEN "committed" ELSE "revealed"
  BY DEF Heard
<1> HIDE DEF said, others
<1> QED BY <1>1, <1>2, <1>3 DEF others

\* A settled panel is heard as before.
LEMMA HeardAlike == ASSUME NEW s, NEW t, SeatsAlike(s, t) PROVE Heard(t) = Heard(s)
<1> DEFINE others == DOMAIN s \ WatchedJurors
<1>1. DOMAIN t \ WatchedJurors = others BY DEF SeatsAlike
<1>2. \A a \in others : t[a].commitment = s[a].commitment /\ t[a].revealed = s[a].revealed
  BY DEF SeatsAlike
<1>3. Heard(s) \in {"empty", "committed", "revealed"} BY DEF Heard
<1>4. Heard(t) \in {"empty", "committed", "revealed"} BY DEF Heard
<1> QED BY <1>1, <1>2, <1>3, <1>4, HeardCases

\* A dispute and a seat as the services see them, before and after a step.
LEMMA CaseSeen ==
  ASSUME NEW d \in DisputeId
  PROVE  /\ juryDispute[d] = SeenCase(disputes[d].status, RoundSeen(disputes[d]), phase(d), otherSeats(d))
         /\ juryDispute'[d] = SeenCase(disputes'[d].status, RoundSeen(disputes'[d]), phase(d)', otherSeats(d)')
         /\ otherSeats(d) = Heard(IF DOMAIN seats[d][2] # {} THEN seats[d][2] ELSE seats[d][1])
         /\ otherSeats(d)' = Heard(IF DOMAIN seats'[d][2] # {} THEN seats'[d][2] ELSE seats'[d][1])
BY DEF juryDispute, SeenCase, RoundSeen, otherSeats, Heard

LEMMA SeatSeen ==
  ASSUME NEW d \in DisputeId, NEW j \in WatchedJurors
  PROVE  /\ DOMAIN seats[d][1] \cap DOMAIN seats[d][2] = {} =>
            jurySeat[d][j] = IF j \in DOMAIN seats[d][1] THEN seatIn(1, seats[d][1][j])
                             ELSE IF j \in DOMAIN seats[d][2] THEN seatIn(2, seats[d][2][j])
                             ELSE seatIn(0, EmptySeat)
         /\ DOMAIN seats'[d][1] \cap DOMAIN seats'[d][2] = {} =>
            jurySeat'[d][j] = IF j \in DOMAIN seats'[d][1] THEN seatIn(1, seats'[d][1][j])
                              ELSE IF j \in DOMAIN seats'[d][2] THEN seatIn(2, seats'[d][2][j])
                              ELSE seatIn(0, EmptySeat)
<1>1. jurySeat[d][j] = CASE j \in DOMAIN seats[d][1] -> seatIn(1, seats[d][1][j])
                         [] j \in DOMAIN seats[d][2] -> seatIn(2, seats[d][2][j])
                         [] OTHER -> seatIn(0, EmptySeat)
  BY DEF jurySeat
<1>2. jurySeat'[d][j] = CASE j \in DOMAIN seats'[d][1] -> seatIn(1, seats'[d][1][j])
                          [] j \in DOMAIN seats'[d][2] -> seatIn(2, seats'[d][2][j])
                          [] OTHER -> seatIn(0, EmptySeat)
  BY DEF jurySeat
<1>3. ASSUME NEW A, NEW B, NEW x, NEW y, NEW z, A \cap B = {}
      PROVE  (CASE j \in A -> x [] j \in B -> y [] OTHER -> z)
             = IF j \in A THEN x ELSE IF j \in B THEN y ELSE z
  <2>1. CASE j \in A BY <1>3, <2>1
  <2>2. CASE j \in B BY <1>3, <2>2
  <2>3. CASE j \notin A /\ j \notin B BY <2>3
  <2> QED BY <2>1, <2>2, <2>3
<1> QED BY <1>1, <1>2, <1>3

\* Their module counts as this one does.
LEMMA SameCount == \A S : Panels!Cardinality(S) = Cardinality(S)
BY DEF Cardinality, IsFiniteSet, Panels!Cardinality, Panels!IsFiniteSet

\* The votes as the services write them.
LEMMA VotesSeen ==
  /\ seatIn(0, EmptySeat) = [round |-> 0, commitment |-> Panels!NoVote, revealed |-> FALSE]
  /\ \A r, s : /\ seatIn(r, s).round = r /\ seatIn(r, s).revealed = s.revealed
               /\ seatIn(r, s).commitment = sealed(s.commitment)
  /\ \A v : sealed(v).verdict = v /\ (sealed(v) = Panels!NoVote <=> v = "None")
  /\ \A v \in {"Uphold", "Reject"} : sealed(v) \in Panels!Votes
BY DEF seatIn, EmptySeat, sealed, Panels!NoVote, Panels!None, Panels!Votes, Panels!Verdicts,
       Panels!Derived

\* A panel that votes is the seats its services read, and others.
LEMMA PanelSeen ==
  ASSUME Linked, CaseInv, NEW d \in DisputeId, Jury(d, "Voting")
  PROVE  LET pn == panel(d)
             D  == DOMAIN pn
             r  == disputes[d].round
         IN /\ juryDispute[d] = SeenCase("Voting", r, phase(d), Heard(pn))
            /\ r \in Rounds /\ pn \in [D -> Seat] /\ Panels!Panel(d) = D \cap WatchedJurors
            /\ \A j \in D \cap WatchedJurors : jurySeat[d][j] = seatIn(r, pn[j])
            /\ IsFiniteSet(D) /\ Cardinality(D) = 3
            /\ Cardinality(D \cap WatchedJurors) \in Nat
            /\ Cardinality(D \cap WatchedJurors) + Cardinality(D \ WatchedJurors) = 3
            /\ Panels!Full(d) <=> D \subseteq WatchedJurors
            /\ \A a \in D : pn[a].revealed => pn[a].commitment # "None"
<1> DEFINE dd == disputes[d]
           sd == seats[d]
           r  == dd.round
           pn == panel(d)
           D  == DOMAIN pn
           W  == D \cap WatchedJurors
<1>1. /\ "Voting" \in DisputeStatus /\ dd.status = "Voting" /\ dd.ground = "FalseDescription"
  BY DEF Jury, DisputeStatus
<1>2. r \in Rounds /\ pn = sd[r] /\ pn \in [D -> Seat] BY <1>1, PanelTyped DEF panel
<1>3. /\ DOMAIN sd[1] \cap DOMAIN sd[2] = {} /\ Cardinality(DOMAIN sd[r]) = 3
      /\ r = 1 => DOMAIN sd[2] = {}
  BY <1>1 DEF CaseInv, PanelsSound, PanelSound, Drawn, JuryCase, SEATS
<1>4. IsFiniteSet(D) /\ Cardinality(D) = 3 BY <1>2, <1>3, SeatsFinite
<1>5. r = 1 \/ r = 2 BY <1>2 DEF Rounds
<1>6. \A a \in D : pn[a].revealed => pn[a].commitment # "None"
  BY <1>2 DEF Linked, SeatInv, RevealsCommitted
<1>7. otherSeats(d) = Heard(pn)
  <2>1. CASE r = 1 BY <1>2, <1>3, <2>1, CaseSeen
  <2>2. CASE r = 2
    <3>1. DOMAIN sd[2] # {} BY <1>3, <2>2, FS_EmptySet
    <3> QED BY <1>2, <2>2, <3>1, CaseSeen
  <2> QED BY <1>5, <2>1, <2>2
<1>8. juryDispute[d] = SeenCase("Voting", r, phase(d), Heard(pn))
  BY <1>1, <1>5, <1>7, CaseSeen DEF RoundSeen
<1>9. ASSUME NEW j \in WatchedJurors
      PROVE  /\ j \in D => jurySeat[d][j] = seatIn(r, pn[j])
             /\ jurySeat[d][j].round = r <=> j \in D
  <2>1. jurySeat[d][j] = IF j \in DOMAIN sd[1] THEN seatIn(1, sd[1][j])
                         ELSE IF j \in DOMAIN sd[2] THEN seatIn(2, sd[2][j])
                         ELSE seatIn(0, EmptySeat)
    BY <1>3, SeatSeen
  <2>2. j \in D => jurySeat[d][j] = seatIn(r, pn[j])
    BY <1>2, <1>3, <1>5, <2>1
  <2>3. j \notin D => jurySeat[d][j].round # r
    BY <1>2, <1>5, <2>1, VotesSeen
  <2> QED BY <2>2, <2>3, VotesSeen
<1>10. Panels!Panel(d) = W
  <2>1. juryDispute[d].round = r BY <1>8 DEF SeenCase
  <2> QED BY <1>9, <2>1 DEF Panels!Panel
<1>11. Cardinality(W) \in Nat /\ Cardinality(W) + Cardinality(D \ WatchedJurors) = 3
  <2>1. W \subseteq D /\ D \ WatchedJurors = D \ W OBVIOUS
  <2> HIDE DEF D
  <2>2. /\ Cardinality(W) \in Nat
        /\ Cardinality(D \ W) = Cardinality(D) - Cardinality(D \cap W)
    BY <1>4, <2>1, FS_Subset, FS_CardinalityType, FS_Difference
  <2>3. D \cap W = W OBVIOUS
  <2> QED BY <1>4, <2>1, <2>2, <2>3
<1>12. Panels!Full(d) <=> D \subseteq WatchedJurors
  <2>1. Panels!Full(d) <=> Cardinality(W) = 3 BY <1>10, SameCount DEF Panels!Full, Panels!SEATS
  <2>2. IsFiniteSet(D \ WatchedJurors) BY <1>4, FS_Difference
  <2>3. Cardinality(D \ WatchedJurors) = 0 <=> D \ WatchedJurors = {} BY <2>2, FS_EmptySet
  <2>4. Cardinality(D \ WatchedJurors) \in Nat BY <2>2, FS_CardinalityType
  <2>5. D \ WatchedJurors = {} <=> D \subseteq WatchedJurors OBVIOUS
  <2> HIDE DEF D, W
  <2> QED BY <1>11, <2>1, <2>3, <2>4, <2>5
<1> HIDE DEF pn, r
<1> QED BY <1>2, <1>4, <1>6, <1>8, <1>9, <1>10, <1>11, <1>12 DEF pn, r

\* Whether all have committed, or revealed, shows.
LEMMA AllSeen ==
  ASSUME Linked, CaseInv, NEW d \in DisputeId, Jury(d, "Voting")
  PROVE  /\ Panels!AllCommitted(d) <=> allCommitted(d)
         /\ Panels!AllRevealed(d) <=> revealers(panel(d)) = DOMAIN panel(d)
<1> DEFINE pn == panel(d)
           D  == DOMAIN pn
           W  == D \cap WatchedJurors
           others == D \ WatchedJurors
<1>0. /\ juryDispute[d] = SeenCase("Voting", disputes[d].round, phase(d), Heard(pn))
      /\ Panels!Panel(d) = W
      /\ \A j \in W : jurySeat[d][j] = seatIn(disputes[d].round, pn[j])
      /\ \A a \in D : pn[a].revealed => pn[a].commitment # "None"
      /\ Panels!Full(d) <=> D \subseteq WatchedJurors
  BY PanelSeen
<1> HIDE DEF pn
<1>1. /\ juryDispute[d].others = Heard(pn) /\ Panels!Panel(d) = W
      /\ Panels!Full(d) <=> others = {}
      /\ \A j \in W : /\ jurySeat[d][j].commitment = sealed(pn[j].commitment)
                      /\ jurySeat[d][j].revealed = pn[j].revealed
      /\ \A a \in D : pn[a].revealed => pn[a].commitment # "None"
  <2>1. juryDispute[d].others = Heard(pn) BY <1>0 DEF SeenCase
  <2>2. \A j \in W : /\ jurySeat[d][j].commitment = sealed(pn[j].commitment)
                     /\ jurySeat[d][j].revealed = pn[j].revealed
    BY <1>0, VotesSeen
  <2> QED BY <1>0, <2>1, <2>2
<1>2. \A j \in W : jurySeat[d][j].commitment # Panels!NoVote <=> pn[j].commitment # "None"
  BY <1>1, VotesSeen
<1> HIDE DEF pn
<1>3. Heard(pn) # "empty" <=> others # {} /\ \A a \in others : pn[a].commitment # "None"
  BY HeardCases
<1>4. Heard(pn) = "revealed" <=> others # {} /\ \A a \in others : pn[a].revealed
  BY <1>1, HeardCases
<1>5. Panels!AllCommitted(d) <=> \A a \in D : pn[a].commitment # "None"
  <2>1. Panels!AllCommitted(d) <=> /\ others = {} \/ Heard(pn) # "empty"
                                   /\ \A j \in W : pn[j].commitment # "None"
    BY <1>1, <1>2 DEF Panels!AllCommitted
  <2> QED BY <1>3, <2>1
<1>6. Panels!AllRevealed(d) <=> \A a \in D : pn[a].revealed
  <2>1. Panels!AllRevealed(d) <=> /\ others = {} \/ Heard(pn) = "revealed"
                                  /\ \A j \in W : pn[j].revealed
    BY <1>1 DEF Panels!AllRevealed
  <2> QED BY <1>4, <2>1
<1> QED BY <1>5, <1>6 DEF allCommitted, revealers, pn

\* When a vote may be cast, opened and counted, as the services read the clock.
LEMMA TimesSeen ==
  ASSUME Linked, CaseInv, BeforeJuries, NEW d \in DisputeId, Jury(d, "Voting")
  PROVE  /\ timestamp <= disputes[d].commitDeadline => juryDispute[d].clock = "commit"
         /\ /\ timestamp <= disputes[d].revealDeadline
            /\ timestamp > disputes[d].commitDeadline \/ allCommitted(d)
            => Panels!RevealOpen(d)
         /\ TallyReady(d) => Panels!TallyOpen(d)
         /\ Panels!Voting(d)
<1> DEFINE dd == disputes[d]
<1>1. dd.status = "Voting" /\ dd.commitDeadline <= dd.revealDeadline
  BY DEF Jury, BeforeJuries
<1>2. dd.commitDeadline \in Nat /\ dd.revealDeadline \in Nat /\ timestamp \in Nat
  BY DEF Linked, TypeAdmin, DisputeInv, TypeDisputes, Dispute
<1>3. juryDispute[d] = SeenCase("Voting", dd.round, phase(d), Heard(panel(d))) BY PanelSeen
<1>4. juryDispute[d].status = "Voting" /\ juryDispute[d].clock = phase(d) BY <1>3 DEF SeenCase
<1>5. phase(d) = IF timestamp <= dd.commitDeadline THEN "commit"
                 ELSE IF timestamp <= dd.revealDeadline THEN "reveal" ELSE "over"
  BY <1>1 DEF phase
<1> HIDE DEF dd
<1>6. timestamp > dd.revealDeadline => phase(d) = "over" BY <1>1, <1>2, <1>5
<1>7. /\ timestamp <= dd.commitDeadline => phase(d) = "commit"
      /\ timestamp <= dd.revealDeadline /\ timestamp > dd.commitDeadline => phase(d) = "reveal"
      /\ timestamp > dd.commitDeadline \/ timestamp <= dd.commitDeadline
  BY <1>1, <1>2, <1>5
<1>8. TallyReady(d) => Panels!TallyOpen(d)
  BY <1>4, <1>6, AllSeen DEF TallyReady, Panels!TallyOpen, dd
<1>9. /\ timestamp <= dd.revealDeadline /\ (timestamp > dd.commitDeadline \/ allCommitted(d))
      => Panels!RevealOpen(d)
  BY <1>4, <1>7, AllSeen DEF Panels!RevealOpen
<1> QED BY <1>4, <1>7, <1>8, <1>9 DEF Panels!Voting, dd

\* What a step leaves alone is seen as before.
LEMMA OthersSeen ==
  ASSUME NEW d \in DisputeId, OthersKept(d)
  PROVE  /\ juryDispute' = [juryDispute EXCEPT ![d] = juryDispute'[d]]
         /\ jurySeat' = [jurySeat EXCEPT ![d] = jurySeat'[d]]
<1>1. ASSUME NEW c \in DisputeId, c # d
      PROVE  juryDispute'[c] = juryDispute[c] /\ jurySeat'[c] = jurySeat[c]
  <2>1. disputes'[c] = disputes[c] /\ seats'[c] = seats[c] /\ UNCHANGED <<blockNumber, timestamp>>
    BY <1>1 DEF OthersKept, OnlyDispute
  <2>2. phase(c)' = phase(c) BY <2>1 DEF phase
  <2>3. otherSeats(c)' = otherSeats(c) BY <2>1, CaseSeen
  <2>4. juryDispute'[c] = juryDispute[c] BY <2>1, <2>2, <2>3, CaseSeen DEF RoundSeen
  <2>5. jurySeat'[c] = jurySeat[c] BY <2>1 DEF jurySeat
  <2> QED BY <2>4, <2>5
<1>2. /\ DOMAIN juryDispute = DisputeId /\ DOMAIN juryDispute' = DisputeId
      /\ DOMAIN jurySeat = DisputeId /\ DOMAIN jurySeat' = DisputeId
      /\ juryDispute = [c \in DisputeId |-> juryDispute[c]]
      /\ juryDispute' = [c \in DisputeId |-> juryDispute'[c]]
      /\ jurySeat = [c \in DisputeId |-> jurySeat[c]]
      /\ jurySeat' = [c \in DisputeId |-> jurySeat'[c]]
  BY DEF juryDispute, jurySeat
<1>3. juryDispute' = [juryDispute EXCEPT ![d] = juryDispute'[d]] BY <1>1, <1>2
<1>4. jurySeat' = [jurySeat EXCEPT ![d] = jurySeat'[d]] BY <1>1, <1>2
<1> QED BY <1>3, <1>4

LEMMA PaySeen == PayKept => juryPay' = juryPay
BY DEF PayKept, juryPay

\* Seats that nobody moves are seen, and heard, as before.
LEMMA SittingSeen ==
  ASSUME NEW d \in DisputeId, Sitting(d), DOMAIN seats[d][1] \cap DOMAIN seats[d][2] = {}
  PROVE  jurySeat'[d] = jurySeat[d] /\ otherSeats(d)' = otherSeats(d)
<1> DEFINE s == seats[d]
           t == seats'[d]
<1>1. SeatsAlike(s[1], t[1]) /\ SeatsAlike(s[2], t[2]) BY DEF Sitting, Rounds
<1>2. DOMAIN t[1] = DOMAIN s[1] /\ DOMAIN t[2] = DOMAIN s[2] BY <1>1 DEF SeatsAlike
<1>3. otherSeats(d)' = otherSeats(d) BY <1>1, <1>2, CaseSeen, HeardAlike
<1>4. \A a \in DOMAIN s[1] : seatIn(1, t[1][a]) = seatIn(1, s[1][a])
  BY <1>1 DEF SeatsAlike, seatIn
<1>5. \A a \in DOMAIN s[2] : seatIn(2, t[2][a]) = seatIn(2, s[2][a])
  BY <1>1 DEF SeatsAlike, seatIn
<1>6. ASSUME NEW j \in WatchedJurors PROVE jurySeat'[d][j] = jurySeat[d][j]
  BY <1>2, <1>4, <1>5, SeatSeen
<1>7. /\ jurySeat[d] = [j \in WatchedJurors |-> jurySeat[d][j]]
      /\ jurySeat'[d] = [j \in WatchedJurors |-> jurySeat'[d][j]]
  BY DEF jurySeat
<1> QED BY <1>3, <1>6, <1>7

\* A dispute seen to move, and no other.
LEMMA CaseShown ==
  ASSUME NEW d \in DisputeId, OthersKept(d), NEW g, g = [c \in DisputeId |-> g[c]],
         \A c \in DisputeId : c # d => g[c] = juryDispute[c], g[d] = juryDispute'[d]
  PROVE  juryDispute' = g
<1>1. /\ DOMAIN juryDispute = DisputeId
      /\ juryDispute' = [c \in DisputeId |-> juryDispute'[c]]
  BY DEF juryDispute
<1>2. juryDispute' = [juryDispute EXCEPT ![d] = juryDispute'[d]] BY OthersSeen
<1>3. \A c \in DisputeId : c # d => juryDispute'[c] = juryDispute[c]
  BY <1>1, <1>2
<1>4. \A c \in DisputeId : juryDispute'[c] = g[c] BY <1>3
<1> QED BY <1>1, <1>4

LEMMA CaseUnmoved ==
  ASSUME NEW d \in DisputeId, OthersKept(d), juryDispute'[d] = juryDispute[d]
  PROVE  juryDispute' = juryDispute
<1>1. juryDispute = [c \in DisputeId |-> juryDispute[c]] BY DEF juryDispute
<1> QED BY <1>1, CaseShown

\* Anybody may draw a panel that is due, and tally one that is done.
LEMMA AnyoneKeeps ==
  ASSUME NEW d \in DisputeId,
         \/ /\ juryDispute[d].status = "AwaitingSelection" /\ juryDispute[d].clock # "early"
            /\ Panels!selectJurors(d)
         \/ Panels!Voting(d) /\ Panels!TallyOpen(d) /\ Panels!tallyDispute(d)
  PROVE  JuryStep
<1>1. Panels!othersKeep(d) BY DEF Panels!othersKeep
<1> QED BY <1>1 DEF JuryStep, Panels!OthersAct

\* A panel that is due, as the services see it.
LEMMA DueSeen ==
  ASSUME Linked, CaseInv, NEW d \in DisputeId, Drawable(d)
  PROVE  /\ juryDispute[d] = SeenCase("AwaitingSelection", RoundSeen(disputes[d]), phase(d), otherSeats(d))
         /\ phase(d) # "early"
         /\ timestamp > disputes[d].selectionDeadline => phase(d) = "late"
         /\ DOMAIN seats[d][1] \cap DOMAIN seats[d][2] = {} /\ DOMAIN juryDispute = DisputeId
<1> DEFINE dd == disputes[d]
<1>1. dd.status = "AwaitingSelection" /\ blockNumber > dd.selectionBlock BY DEF Drawable
<1>2. /\ dd.selectionBlock \in Nat /\ dd.selectionDeadline \in Nat
      /\ timestamp \in Nat /\ blockNumber \in Nat
  BY DEF Linked, TypeAdmin, DisputeInv, TypeDisputes, Dispute
<1>3. phase(d) = IF blockNumber <= dd.selectionBlock THEN "early"
                 ELSE IF timestamp <= dd.selectionDeadline THEN "ready" ELSE "late"
  BY <1>1 DEF phase
<1> HIDE DEF dd
<1>4. phase(d) # "early" /\ (timestamp > dd.selectionDeadline => phase(d) = "late")
  BY <1>1, <1>2, <1>3
<1>5. juryDispute[d] = SeenCase("AwaitingSelection", RoundSeen(dd), phase(d), otherSeats(d))
  BY <1>1, CaseSeen DEF dd
<1>6. DOMAIN seats[d][1] \cap DOMAIN seats[d][2] = {}
  BY DEF CaseInv, PanelsSound, PanelSound, Drawn
<1>7. DOMAIN juryDispute = DisputeId BY DEF juryDispute
<1> QED BY <1>4, <1>5, <1>6, <1>7 DEF dd

\* A draw that waits for another block.
LEMMA RearmsSeen ==
  ASSUME Linked, CaseInv, NEW d \in DisputeId, OthersKept(d), Rearms(d) PROVE JuryStep
<1> DEFINE e == disputes'[d]
           r == RoundSeen(disputes[d])
           o == otherSeats(d)
<1>1. /\ Drawable(d) /\ e.status = "AwaitingSelection" /\ e.round = disputes[d].round
      /\ e.selectionBlock = blockNumber + 2 /\ blockNumber' = blockNumber
  BY DEF Rearms, OthersKept
<1>2. /\ juryDispute[d] = SeenCase("AwaitingSelection", r, phase(d), o)
      /\ phase(d) # "early" /\ DOMAIN juryDispute = DisputeId
      /\ DOMAIN seats[d][1] \cap DOMAIN seats[d][2] = {}
  BY <1>1, DueSeen
<1>3. blockNumber \in Nat BY DEF Linked, TypeAdmin
<1>4. phase(d)' = "early"
  <2>1. phase(d)' = IF blockNumber' <= e.selectionBlock THEN "early"
                    ELSE IF timestamp' <= e.selectionDeadline THEN "ready" ELSE "late"
    BY <1>1 DEF phase
  <2> HIDE DEF e
  <2> QED BY <1>1, <1>3, <2>1
<1>5. Sitting(d) /\ juryPay' = juryPay BY SeatsSit, PaySeen DEF Rearms
<1>6. jurySeat'[d] = jurySeat[d] /\ otherSeats(d)' = o BY <1>2, <1>5, SittingSeen
<1>7. juryDispute'[d] = SeenCase("AwaitingSelection", r, "early", o)
  BY <1>1, <1>4, <1>6, CaseSeen DEF RoundSeen
<1>8. jurySeat' = jurySeat BY <1>6, OthersSeen DEF jurySeat
<1>9. juryDispute' = [juryDispute EXCEPT ![d].clock = "early"]
  <2> DEFINE g == [juryDispute EXCEPT ![d].clock = "early"]
  <2> HIDE DEF r, o
  <2>1. g = [c \in DisputeId |-> g[c]] /\ \A c \in DisputeId : c # d => g[c] = juryDispute[c]
    BY <1>2
  <2>2. g[d] = SeenCase("AwaitingSelection", r, "early", o) BY <1>2 DEF SeenCase
  <2> HIDE DEF g
  <2>3. juryDispute' = g BY <1>7, <2>1, <2>2, CaseShown
  <2> QED BY <2>3 DEF g
<1>10. Panels!rearmSelection(d) BY <1>5, <1>8, <1>9 DEF Panels!rearmSelection
<1>11. juryDispute[d].status = "AwaitingSelection" /\ juryDispute[d].clock # "early"
  BY <1>2 DEF SeenCase
<1> QED BY <1>10, <1>11, AnyoneKeeps DEF Panels!selectJurors

\* A round that fails, drawn or voted.
LEMMA FailsSeen ==
  ASSUME Linked, CaseInv, BeforeJuries, NEW d \in DisputeId, OthersKept(d), Fails(d),
         TallyReady(d) => revealers(panel(d)) # DOMAIN panel(d) /\
                          \A v \in {"Uphold", "Reject"} : Cardinality(Panels!VotesFor(d, v)) < 2
  PROVE  JuryStep
<1> DEFINE dd == disputes[d]
           e  == disputes'[d]
           r == RoundSeen(dd)
           o == otherSeats(d)
           next == IF r = 1 THEN "AwaitingSelection" ELSE "Resolved"
<1>1. /\ Sitting(d) /\ juryPay' = juryPay /\ blockNumber' = blockNumber
      /\ IF dd.round = 1
         THEN e.status = "AwaitingSelection" /\ e.round = 2 /\ e.selectionBlock = blockNumber + 2
         ELSE e.status = "Resolved" /\ e.round = 2
      /\ \/ Drawable(d) /\ timestamp > dd.selectionDeadline
         \/ TallyReady(d)
  BY PaySeen DEF Fails, OthersKept
<1>2. /\ DOMAIN seats[d][1] \cap DOMAIN seats[d][2] = {} /\ DOMAIN juryDispute = DisputeId
  BY DEF CaseInv, PanelsSound, PanelSound, Drawn, juryDispute
<1>3. juryDispute[d] = SeenCase(dd.status, r, phase(d), o) BY CaseSeen
<1>4. dd.round \in Rounds
  <2>1. "Voting" \in DisputeStatus /\ "AwaitingSelection" \in DisputeStatus BY DEF DisputeStatus
  <2>2. CASE TallyReady(d) BY <2>1, <2>2, PanelTyped DEF TallyReady
  <2>3. CASE Drawable(d)
    <3>1. dd.status = "AwaitingSelection" BY <2>3 DEF Drawable
    <3>2. Jury(d, "AwaitingSelection") BY <3>1 DEF Jury, BeforeJuries
    <3> QED BY <2>1, <3>2, PanelTyped
  <2> QED BY <1>1, <2>2, <2>3
<1>5. r = dd.round BY <1>4 DEF RoundSeen, Rounds
<1>6. e.status = next /\ e.round = 2 BY <1>1, <1>5
<1>7. phase(d)' = "early"
  <2>1. blockNumber \in Nat BY DEF Linked, TypeAdmin
  <2>2. CASE dd.round = 1
    <3>1. phase(d)' = IF blockNumber' <= e.selectionBlock THEN "early"
                      ELSE IF timestamp' <= e.selectionDeadline THEN "ready" ELSE "late"
      BY <1>1, <2>2 DEF phase
    <3>2. e.selectionBlock = blockNumber + 2 BY <1>1, <2>2
    <3> HIDE DEF e
    <3> QED BY <1>1, <2>1, <3>1, <3>2
  <2>3. CASE dd.round # 1
    <3>1. e.status = "Resolved" BY <1>1, <2>3
    <3> QED BY <3>1 DEF phase
  <2> QED BY <2>2, <2>3
<1>8. jurySeat'[d] = jurySeat[d] /\ otherSeats(d)' = o BY <1>1, <1>2, SittingSeen
<1>9. juryDispute'[d] = SeenCase(next, 2, "early", o)
  BY <1>6, <1>7, <1>8, CaseSeen DEF RoundSeen
<1>10. jurySeat' = jurySeat BY <1>8, OthersSeen DEF jurySeat
<1> HIDE DEF r, o, next
<1>11. juryDispute' = [juryDispute EXCEPT ![d].status = next, ![d].round = 2, ![d].clock = "early"]
  <2> DEFINE g1 == [juryDispute EXCEPT ![d].status = next]
             g2 == [g1 EXCEPT ![d].round = 2]
             g  == [g2 EXCEPT ![d].clock = "early"]
  <2>1. g = [c \in DisputeId |-> g[c]] /\ \A c \in DisputeId : c # d => g[c] = juryDispute[c]
    BY <1>2
  <2>2. g[d] = SeenCase(next, 2, "early", o)
    <3>1. DOMAIN g1 = DisputeId /\ g1[d] = SeenCase(next, r, phase(d), o)
      BY <1>2, <1>3 DEF SeenCase
    <3> HIDE DEF g1
    <3>2. DOMAIN g2 = DisputeId /\ g2[d] = SeenCase(next, 2, phase(d), o) BY <3>1 DEF SeenCase
    <3> HIDE DEF g2
    <3> QED BY <3>2 DEF SeenCase
  <2>3. juryDispute' = g
    <3> HIDE DEF g
    <3> QED BY <1>9, <2>1, <2>2, CaseShown
  <2> QED BY <2>3
<1>12. juryDispute[d].round = r BY <1>3 DEF SeenCase
<1>13. Panels!failRound(d)
  BY <1>1, <1>10, <1>11, <1>12 DEF Panels!failRound, next
<1>14. CASE TallyReady(d)
  <2>1. Jury(d, "Voting") BY <1>14 DEF TallyReady
  <2>2. ~Panels!AllRevealed(d) BY <1>14, <2>1, AllSeen
  <2>3. \A v \in {"Uphold", "Reject"} : Panels!Cardinality(Panels!VotesFor(d, v)) < 2
    BY <1>14, SameCount
  <2>4. Panels!tallyDispute(d)
    BY <1>13, <2>2, <2>3 DEF Panels!tallyDispute, Panels!Verdicts
  <2> QED BY <1>14, <2>1, <2>4, TimesSeen, AnyoneKeeps
<1>15. CASE Drawable(d) /\ timestamp > dd.selectionDeadline
  <2>1. juryDispute[d].status = "AwaitingSelection" /\ juryDispute[d].clock = "late"
    <3>1. phase(d) = "late" /\ juryDispute[d] = SeenCase("AwaitingSelection", r, phase(d), o)
      BY <1>15, DueSeen DEF r, o
    <3> QED BY <3>1 DEF SeenCase
  <2>2. Panels!selectJurors(d) BY <1>13, <2>1 DEF Panels!selectJurors
  <2> QED BY <2>1, <2>2, AnyoneKeeps
<1> QED BY <1>1, <1>14, <1>15

\* A panel of three is drawn, some of them watched.
LEMMA DrawsSeen ==
  ASSUME Linked, CaseInv, CaseInv', BeforeJuries, NEW d \in DisputeId, OthersKept(d),
         NEW chosen \in SUBSET Accounts, Draws(d, chosen)
  PROVE  JuryStep
<1> DEFINE dd == disputes[d]
           e  == disputes'[d]
           sd == seats[d]
           td == seats'[d]
           r  == dd.round
           o  == otherSeats(d)
           new == [a \in chosen |-> EmptySeat]
           p  == chosen \cap WatchedJurors
           old == {j \in WatchedJurors : jurySeat[d][j].round # 0}
<1>1. /\ Drawable(d) /\ dd.status = "AwaitingSelection" /\ dd.ground = "FalseDescription"
      /\ Jury(d, "AwaitingSelection") /\ "AwaitingSelection" \in DisputeStatus
      /\ Cardinality(chosen) = 3
      /\ e.status = "Voting" /\ e.round = r /\ e.commitDeadline >= timestamp
      /\ td = [sd EXCEPT ![r] = new] /\ PayKept /\ timestamp' = timestamp
  BY DEF Draws, Drawable, Jury, DisputeStatus, BeforeJuries, SEATS, OthersKept
<1>2. r \in Rounds BY <1>1, PanelTyped
<1>3. r = 1 \/ r = 2 BY <1>2 DEF Rounds
<1>4. /\ DOMAIN sd[1] \cap DOMAIN sd[2] = {} /\ DOMAIN sd[r] = {}
      /\ r = 1 => DOMAIN sd[2] = {}
  BY <1>1 DEF CaseInv, PanelsSound, PanelSound, Drawn, JuryCase
<1>5. DOMAIN td[1] \cap DOMAIN td[2] = {} BY DEF CaseInv, PanelsSound, PanelSound, Drawn
<1>6. DOMAIN sd = Rounds BY DEF Linked, SeatInv, TypeSeats
<1>7. /\ td[r] = new /\ DOMAIN new = chosen
      /\ r = 1 => td[2] = sd[2]
      /\ r = 2 => td[1] = sd[1]
  BY <1>1, <1>2, <1>3, <1>6 DEF Rounds
<1>8. chosen # {}
  <2>1. Cardinality({}) = 0 BY FS_EmptySet
  <2> QED BY <1>1, <2>1
<1>9. /\ jurySeat'[d] = [j \in WatchedJurors |->
         IF j \in p THEN [jurySeat[d][j] EXCEPT !.round = r] ELSE jurySeat[d][j]]
      /\ \A j \in WatchedJurors : jurySeat[d][j].round = 0 <=> j \notin DOMAIN sd[1] \cup DOMAIN sd[2]
      /\ \A j \in p : jurySeat[d][j].round = 0
  <2>1. ASSUME NEW j \in WatchedJurors
        PROVE  /\ jurySeat'[d][j] = IF j \in p THEN [jurySeat[d][j] EXCEPT !.round = r]
                                    ELSE jurySeat[d][j]
               /\ jurySeat[d][j].round = 0 <=> j \notin DOMAIN sd[1] \cup DOMAIN sd[2]
               /\ j \in p => jurySeat[d][j].round = 0
    <3>1. jurySeat[d][j] = IF j \in DOMAIN sd[1] THEN seatIn(1, sd[1][j])
                           ELSE IF j \in DOMAIN sd[2] THEN seatIn(2, sd[2][j])
                           ELSE seatIn(0, EmptySeat)
      BY <1>4, SeatSeen
    <3>2. jurySeat'[d][j] = IF j \in DOMAIN td[1] THEN seatIn(1, td[1][j])
                            ELSE IF j \in DOMAIN td[2] THEN seatIn(2, td[2][j])
                            ELSE seatIn(0, EmptySeat)
      BY <1>5, SeatSeen
    <3>3. jurySeat[d][j].round = 0 <=> j \notin DOMAIN sd[1] \cup DOMAIN sd[2]
      BY <3>1, VotesSeen
    <3>4. j \in p => j \notin DOMAIN sd[1] \cup DOMAIN sd[2] BY <1>3, <1>4, <1>5, <1>7
    <3>5. j \in p => [seatIn(0, EmptySeat) EXCEPT !.round = r] = seatIn(r, new[j])
      BY DEF seatIn
    <3> HIDE DEF new, sd, td, r
    <3>6. CASE j \in p
      <4>1. jurySeat[d][j] = seatIn(0, EmptySeat) BY <3>1, <3>4, <3>6
      <4>2. jurySeat'[d][j] = seatIn(r, new[j])
        <5>1. r = 1 => j \in DOMAIN td[1] /\ td[1][j] = new[j] BY <1>7, <3>6
        <5>2. r = 2 => j \notin DOMAIN td[1] /\ j \in DOMAIN td[2] /\ td[2][j] = new[j]
          BY <1>5, <1>7, <3>6
        <5> QED BY <1>3, <3>2, <5>1, <5>2
      <4> QED BY <3>3, <3>4, <3>5, <3>6, <4>1, <4>2
    <3>7. CASE j \notin p
      <4>1. r = 1 => j \notin DOMAIN td[1] /\ td[2] = sd[2] BY <1>7, <3>7
      <4>2. r = 2 => td[1] = sd[1] /\ j \notin DOMAIN td[2] BY <1>7, <3>7
      <4>3. r = 1 => j \notin DOMAIN sd[1] BY <1>4
      <4>4. r = 2 => j \notin DOMAIN sd[2] BY <1>4
      <4> QED BY <1>3, <3>1, <3>2, <3>3, <3>7, <4>1, <4>2, <4>3, <4>4
    <3> QED BY <3>6, <3>7
  <2>2. jurySeat'[d] = [j \in WatchedJurors |-> jurySeat'[d][j]] BY DEF jurySeat
  <2> HIDE DEF p
  <2>3. \A j \in p : j \in WatchedJurors BY DEF p
  <2> QED BY <2>1, <2>2, <2>3
<1>10. Cardinality(p) <= 3 /\ Cardinality(p \cup old) <= 6
  <2>1. IsFiniteSet(chosen) BY ConstantsOK, FS_Subset DEF ConstantsOK
  <2>2. Cardinality(p) <= 3 BY <1>1, <2>1, FS_Subset
  <2>3. /\ IsFiniteSet(DOMAIN sd[1]) /\ IsFiniteSet(DOMAIN sd[2])
        /\ Cardinality(DOMAIN sd[1]) \in {0, 3}
    BY SeatsFinite DEF CaseInv, PanelsSound, PanelSound, Drawn, Rounds, SEATS
  <2>4. p \cup old \subseteq chosen \cup DOMAIN sd[1] BY <1>3, <1>4, <1>9
  <2> HIDE DEF sd, p, old
  <2>5. IsFiniteSet(chosen \cup DOMAIN sd[1]) /\ Cardinality(chosen \cup DOMAIN sd[1]) <= 6
    <3>1. chosen \cap DOMAIN sd[1] \subseteq chosen OBVIOUS
    <3>2. Cardinality(chosen \cap DOMAIN sd[1]) \in Nat BY <2>1, <3>1, FS_Subset, FS_CardinalityType
    <3>3. /\ IsFiniteSet(chosen \cup DOMAIN sd[1])
          /\ Cardinality(chosen \cup DOMAIN sd[1])
             = Cardinality(chosen) + Cardinality(DOMAIN sd[1]) - Cardinality(chosen \cap DOMAIN sd[1])
      BY <2>1, <2>3, FS_Union
    <3> QED BY <1>1, <2>3, <3>2, <3>3
  <2>6. Cardinality(p \cup old) <= Cardinality(chosen \cup DOMAIN sd[1]) BY <2>4, <2>5, FS_Subset
  <2>7. IsFiniteSet(p \cup old) BY <2>4, <2>5, FS_Subset
  <2>8. Cardinality(p \cup old) \in Nat /\ Cardinality(chosen \cup DOMAIN sd[1]) \in Nat
    BY <2>5, <2>7, FS_CardinalityType
  <2> QED BY <2>2, <2>5, <2>6, <2>8
<1>11. otherSeats(d)' = "empty"
  <2>1. otherSeats(d)' = Heard(new)
    <3>1. r = 1 => DOMAIN td[2] = {} /\ td[1] = new BY <1>4, <1>7
    <3>2. r = 2 => DOMAIN td[2] # {} /\ td[2] = new BY <1>7, <1>8
    <3> HIDE DEF new, td
    <3> QED BY <1>3, <3>1, <3>2, CaseSeen DEF td
  <2>2. \A a \in chosen : new[a].commitment = "None" BY DEF EmptySeat
  <2>3. DOMAIN new = chosen OBVIOUS
  <2> HIDE DEF new
  <2>4. DOMAIN new \ WatchedJurors = {} \/ \E a \in DOMAIN new \ WatchedJurors : new[a].commitment = "None"
    BY <2>2, <2>3
  <2> QED BY <2>1, <2>4, HeardCases
<1>12. phase(d)' = "commit"
  <2>1. phase(d)' = IF timestamp' <= e.commitDeadline THEN "commit"
                    ELSE IF timestamp' <= e.revealDeadline THEN "reveal" ELSE "over"
    BY <1>1 DEF phase
  <2>2. timestamp \in Nat /\ e.commitDeadline >= timestamp BY <1>1 DEF Linked, TypeAdmin
  <2>3. timestamp <= e.commitDeadline BY <2>2
  <2> QED BY <1>1, <2>1, <2>3
<1>13. /\ juryDispute[d] = SeenCase("AwaitingSelection", r, phase(d), o) /\ phase(d) # "early"
       /\ DOMAIN juryDispute = DisputeId
       /\ juryDispute'[d] = SeenCase("Voting", r, "commit", "empty")
  BY <1>1, <1>3, <1>11, <1>12, DueSeen, CaseSeen DEF RoundSeen
<1>14. jurySeat' = [jurySeat EXCEPT ![d] = [j \in WatchedJurors |->
         IF j \in p THEN [jurySeat[d][j] EXCEPT !.round = r] ELSE jurySeat[d][j]]]
  BY <1>9, OthersSeen
<1>15. juryDispute' = [juryDispute EXCEPT ![d].status = "Voting", ![d].clock = "commit",
                                          ![d].others = "empty"]
  <2> HIDE DEF r, o
  <2> DEFINE g1 == [juryDispute EXCEPT ![d].status = "Voting"]
             g2 == [g1 EXCEPT ![d].clock = "commit"]
             g  == [g2 EXCEPT ![d].others = "empty"]
  <2>1. g = [c \in DisputeId |-> g[c]] /\ \A c \in DisputeId : c # d => g[c] = juryDispute[c]
    BY <1>13
  <2>2. g[d] = SeenCase("Voting", r, "commit", "empty")
    <3>1. DOMAIN g1 = DisputeId /\ g1[d] = SeenCase("Voting", r, phase(d), o)
      BY <1>13 DEF SeenCase
    <3> HIDE DEF g1
    <3>2. DOMAIN g2 = DisputeId /\ g2[d] = SeenCase("Voting", r, "commit", o)
      BY <3>1 DEF SeenCase
    <3> HIDE DEF g2
    <3> QED BY <3>2 DEF SeenCase
  <2>3. juryDispute' = g
    <3> HIDE DEF g
    <3> QED BY <1>13, <2>1, <2>2, CaseShown
  <2> QED BY <2>3
<1>16. juryDispute[d].round = r /\ juryDispute[d].status = "AwaitingSelection"
       /\ juryDispute[d].clock # "early"
  BY <1>13 DEF SeenCase
<1>17. p \in SUBSET {j \in WatchedJurors : jurySeat[d][j].round = 0} BY <1>9
<1>18. juryPay' = juryPay BY <1>1, PaySeen
<1> HIDE DEF p, r
<1>19. Panels!seatPanel(d)
  <2>1. Panels!Cardinality(p) <= 3 /\ Panels!Cardinality(p \cup old) <= 2 * 3 BY <1>10, SameCount
  <2>2. jurySeat' = [jurySeat EXCEPT ![d] = [j \in WatchedJurors |->
          IF j \in p THEN [jurySeat[d][j] EXCEPT !.round = juryDispute[d].round] ELSE jurySeat[d][j]]]
    BY <1>14, <1>16
  <2> QED BY <1>15, <1>17, <1>18, <2>1, <2>2 DEF Panels!seatPanel, Panels!SEATS, SEATS
<1> QED BY <1>16, <1>19, AnyoneKeeps DEF Panels!selectJurors

\* The votes that are seen are those of the watched seats.
LEMMA BallotsSeen ==
  ASSUME Linked, CaseInv, NEW d \in DisputeId, Jury(d, "Voting"), NEW v
  PROVE  Panels!VotesFor(d, v) = votersFor(panel(d), v) \cap WatchedJurors
<1> DEFINE pn == panel(d)
           W  == DOMAIN pn \cap WatchedJurors
<1>1. Panels!Panel(d) = W /\ \A j \in W : jurySeat[d][j] = seatIn(disputes[d].round, pn[j])
  BY PanelSeen
<1>2. \A j \in W : /\ jurySeat[d][j].revealed = pn[j].revealed
                   /\ jurySeat[d][j].commitment.verdict = pn[j].commitment
  BY <1>1, VotesSeen
<1>3. Panels!VotesFor(d, v) = {j \in W : jurySeat[d][j].revealed /\ jurySeat[d][j].commitment.verdict = v}
  BY <1>1 DEF Panels!VotesFor
<1>4. votersFor(pn, v) = {j \in DOMAIN pn : pn[j].revealed /\ pn[j].commitment = v}
  BY DEF votersFor, revealers
<1> HIDE DEF pn
<1> QED BY <1>2, <1>3, <1>4 DEF pn

\* Without a majority somebody has not revealed, and no verdict has two votes.
LEMMA NoMajority ==
  ASSUME Linked, CaseInv, NEW d \in DisputeId, Jury(d, "Voting"), panelVerdict(panel(d)) = "None"
  PROVE  /\ revealers(panel(d)) # DOMAIN panel(d)
         /\ \A v \in {"Uphold", "Reject"} : Cardinality(Panels!VotesFor(d, v)) < 2
<1> DEFINE pn == panel(d)
           D == DOMAIN pn
           R == revealers(pn)
           U == votersFor(pn, "Uphold")
           J == votersFor(pn, "Reject")
<1>1. /\ IsFiniteSet(D) /\ Cardinality(D) = 3 /\ pn \in [D -> Seat]
      /\ \A a \in D : pn[a].revealed => pn[a].commitment # "None"
  BY PanelSeen
<1>2. R \subseteq D /\ U \subseteq R /\ J \subseteq R BY DEF revealers, votersFor
<1>3. J = R \ U BY <1>1 DEF revealers, votersFor, Seat, Verdict
<1>4. IF Cardinality(R) < 2 \/ Cardinality(U) = Cardinality(R) - Cardinality(U) THEN TRUE
      ELSE FALSE
  BY DEF panelVerdict
<1>5. /\ \A v : Panels!VotesFor(d, v) = votersFor(pn, v) \cap WatchedJurors BY BallotsSeen
<1> HIDE DEF D, R, U, J, pn
<1>6. IsFiniteSet(R) /\ IsFiniteSet(U) /\ IsFiniteSet(J) /\ Cardinality(R) <= 3
  BY <1>1, <1>2, FS_Subset
<1>7. /\ Cardinality(R) \in Nat /\ Cardinality(U) \in Nat /\ Cardinality(J) \in Nat
      /\ Cardinality(J) = Cardinality(R) - Cardinality(U)
  <2>1. R \cap U = U BY <1>2
  <2>2. Cardinality(R \ U) = Cardinality(R) - Cardinality(R \cap U) BY <1>6, FS_Difference
  <2> QED BY <1>3, <1>6, <2>1, <2>2, FS_CardinalityType
<1>8. Cardinality(U) < 2 /\ Cardinality(J) < 2 /\ Cardinality(R) # 3 BY <1>4, <1>6, <1>7
<1>9. R # D BY <1>1, <1>8
<1>10. ASSUME NEW S, IsFiniteSet(S), Cardinality(S) < 2
       PROVE  Cardinality(S \cap WatchedJurors) < 2
  <2>1. /\ Cardinality(S \cap WatchedJurors) <= Cardinality(S)
        /\ IsFiniteSet(S \cap WatchedJurors)
    BY <1>10, FS_Subset
  <2>2. Cardinality(S) \in Nat /\ Cardinality(S \cap WatchedJurors) \in Nat
    BY <1>10, <2>1, FS_CardinalityType
  <2> QED BY <1>10, <2>1, <2>2
<1>11. /\ Cardinality(Panels!VotesFor(d, "Uphold")) < 2
       /\ Cardinality(Panels!VotesFor(d, "Reject")) < 2
  BY <1>5, <1>6, <1>8, <1>10 DEF U, J
<1> QED BY <1>9, <1>11 DEF R, D, pn

\* A tally with a majority.
LEMMA SettlesSeen ==
  ASSUME Linked, CaseInv, BeforeJuries, NEW d \in DisputeId, OthersKept(d), Settles(d)
  PROVE  JuryStep
<1> DEFINE dd == disputes[d]
           e  == disputes'[d]
           pn == panel(d)
           D  == DOMAIN pn
           W  == D \cap WatchedJurors
           r  == dd.round
           o  == otherSeats(d)
           v  == panelVerdict(pn)
<1>1. /\ TallyReady(d) /\ v # "None" /\ Jury(d, "Voting") /\ dd.status = "Voting"
      /\ e.status = "Resolved" /\ e.round = r /\ Sitting(d)
  BY DEF Settles, TallyReady, Jury
<1>2. PICK paid \in SUBSET revealers(pn) :
        \A j \in WatchedJurors : claimable'[j] > 0 <=> claimable[j] > 0 \/ j \in paid
  BY DEF Settles
<1>3. /\ r \in Rounds /\ pn \in [D -> Seat] /\ Panels!Panel(d) = W
      /\ \A j \in W : jurySeat[d][j] = seatIn(r, pn[j])
      /\ IsFiniteSet(D) /\ Cardinality(W) \in Nat
      /\ Cardinality(W) + Cardinality(D \ WatchedJurors) = 3
      /\ \A a \in D : pn[a].revealed => pn[a].commitment # "None"
  BY <1>1, PanelSeen
<1>4. DOMAIN seats[d][1] \cap DOMAIN seats[d][2] = {} /\ DOMAIN juryDispute = DisputeId
  BY DEF CaseInv, PanelsSound, PanelSound, Drawn, juryDispute
<1>5. jurySeat'[d] = jurySeat[d] /\ otherSeats(d)' = o BY <1>1, <1>4, SittingSeen
<1>6. jurySeat' = jurySeat BY <1>5, OthersSeen DEF jurySeat
<1>7. phase(d)' = "early" BY <1>1 DEF phase
<1>8. r = 1 \/ r = 2 BY <1>3 DEF Rounds
<1>9. /\ juryDispute[d] = SeenCase("Voting", r, phase(d), o)
      /\ juryDispute'[d] = SeenCase("Resolved", r, "early", o)
  BY <1>1, <1>5, <1>7, <1>8, CaseSeen DEF RoundSeen
<1>10. juryDispute' = [juryDispute EXCEPT ![d].status = "Resolved", ![d].clock = "early"]
  <2> HIDE DEF r, o
  <2> DEFINE g1 == [juryDispute EXCEPT ![d].status = "Resolved"]
             g  == [g1 EXCEPT ![d].clock = "early"]
  <2>1. g = [c \in DisputeId |-> g[c]] /\ \A c \in DisputeId : c # d => g[c] = juryDispute[c]
    BY <1>4
  <2>2. g[d] = SeenCase("Resolved", r, "early", o)
    <3>1. DOMAIN g1 = DisputeId /\ g1[d] = SeenCase("Resolved", r, phase(d), o)
      BY <1>4, <1>9 DEF SeenCase
    <3> HIDE DEF g1
    <3> QED BY <3>1 DEF SeenCase
  <2>3. juryDispute' = g
    <3> HIDE DEF g
    <3> QED BY <1>9, <2>1, <2>2, CaseShown
  <2> QED BY <2>3
<1>11. /\ v \in {"Uphold", "Reject"} /\ IsFiniteSet(votersFor(pn, v))
       /\ Cardinality(votersFor(pn, v)) >= 2
  <2>1. D \in SUBSET Accounts BY <1>1, PanelTyped DEF DisputeStatus
  <2>2. votersFor(pn, v) \subseteq D BY DEF votersFor, revealers
  <2>3. IsFiniteSet(votersFor(pn, v)) BY <1>3, <2>2, FS_Subset
  <2> QED BY <1>1, <1>3, <2>1, <2>3, MajorityPositive
<1>12. Cardinality(Panels!VotesFor(d, v)) + 3 - Cardinality(W) >= 2
  <2> DEFINE S == votersFor(pn, v)
             T == D \ WatchedJurors
  <2>1. Panels!VotesFor(d, v) = S \cap WatchedJurors BY <1>1, BallotsSeen
  <2>2. S \ (S \cap WatchedJurors) \subseteq T BY DEF votersFor, revealers
  <2>3. IsFiniteSet(T) BY <1>3, FS_Difference
  <2> HIDE DEF T, v
  <2>4. Cardinality(S \ (S \cap WatchedJurors)) <= Cardinality(T) BY <2>2, <2>3, FS_Subset
  <2>5. /\ Cardinality(S \ (S \cap WatchedJurors)) = Cardinality(S) - Cardinality(S \cap WatchedJurors)
        /\ Cardinality(S) \in Nat /\ Cardinality(S \cap WatchedJurors) \in Nat
    <3>1. S \cap (S \cap WatchedJurors) = S \cap WatchedJurors OBVIOUS
    <3>2. IsFiniteSet(S \cap WatchedJurors) BY <1>11, FS_Subset
    <3>3. Cardinality(S \ (S \cap WatchedJurors)) = Cardinality(S) - Cardinality(S \cap (S \cap WatchedJurors))
      BY <1>11, FS_Difference
    <3> QED BY <1>11, <3>1, <3>2, <3>3, FS_CardinalityType
  <2>6. Cardinality(T) \in Nat BY <2>3, FS_CardinalityType
  <2>7. Cardinality(W) + Cardinality(T) = 3 BY <1>3 DEF T
  <2> HIDE DEF S, W
  <2> QED BY <1>3, <1>11, <2>1, <2>4, <2>5, <2>6, <2>7 DEF S
<1>13. (paid \cap WatchedJurors) \in SUBSET {j \in Panels!Panel(d) : jurySeat[d][j].revealed}
  <2>1. \A j \in W : jurySeat[d][j].revealed = pn[j].revealed BY <1>3, VotesSeen
  <2> QED BY <1>3, <2>1 DEF revealers
<1>14. juryPay' = [j \in WatchedJurors |-> juryPay[j] \/ j \in paid \cap WatchedJurors]
  <2>1. \A j \in WatchedJurors : (claimable'[j] > 0) = (claimable[j] > 0 \/ j \in paid)
    BY <1>2
  <2> QED BY <2>1, Zenon DEF juryPay
<1>15. Panels!tallyDispute(d)
  <2>1. v \in Panels!Verdicts
        /\ Panels!Cardinality(Panels!VotesFor(d, v)) + 3 - Panels!Cardinality(Panels!Panel(d)) >= 2
    BY <1>3, <1>11, <1>12, SameCount DEF Panels!Verdicts
  <2> HIDE DEF v
  <2> QED BY <1>6, <1>10, <1>13, <1>14, <2>1 DEF Panels!tallyDispute, Panels!SEATS
<1> QED BY <1>1, <1>15, TimesSeen, AnyoneKeeps

\* Only the seats that are not watched are heard.
LEMMA HeardOthers ==
  ASSUME NEW s, NEW t, DOMAIN t = DOMAIN s, \A a \in DOMAIN s \ WatchedJurors : t[a] = s[a]
  PROVE  Heard(t) = Heard(s)
<1>1. {t[a] : a \in DOMAIN t \ WatchedJurors} = {s[a] : a \in DOMAIN s \ WatchedJurors} OBVIOUS
<1> QED BY <1>1 DEF Heard

\* A vote is that of a watched juror, or heard among the others.
LEMMA VotesShown ==
  ASSUME Linked, Linked', CaseInv, CaseInv', BeforeJuries, NEW d \in DisputeId, OthersKept(d), Votes(d)
  PROVE  JuryStep \/ juryView' = juryView
<1> PICK a \in JurorPool : revealVote(d, a) \/ \E v \in {"Uphold", "Reject"} : commitVote(d, a, v)
  BY DEF Votes
<1> DEFINE dd == disputes[d]
           r  == dd.round
           s  == seats[d][r]
           t  == seats'[d][r]
           o  == otherSeats(d)
<1>1. /\ disputes'[d] = dd /\ juryPay' = juryPay
      /\ UNCHANGED <<blockNumber, timestamp>>
  BY PaySeen DEF Votes, OthersKept
<1>2. PICK v \in {"Uphold", "Reject"} : commitVote(d, a, v) \/ revealVote(d, a) OBVIOUS
<1>3. /\ Jury(d, "Voting") /\ r \in Rounds /\ a \in DOMAIN s /\ DOMAIN t = DOMAIN s
      /\ \A k \in Rounds : k # r => seats'[d][k] = seats[d][k]
      /\ \A b \in DOMAIN s : b # a => t[b] = s[b]
      /\ \/ commitVote(d, a, v) /\ t[a].commitment = v /\ t[a].revealed = s[a].revealed
         \/ revealVote(d, a) /\ t[a].commitment = s[a].commitment /\ t[a].revealed
  BY <1>2, VoteMoves DEF OnlyPanel
<1>4. r = 1 \/ r = 2 BY <1>3 DEF Rounds
<1>5. DOMAIN seats[d][1] \cap DOMAIN seats[d][2] = {} /\ DOMAIN seats'[d][1] \cap DOMAIN seats'[d][2] = {}
  BY DEF CaseInv, PanelsSound, PanelSound, Drawn
<1>6. /\ juryDispute[d] = SeenCase("Voting", r, phase(d), Heard(s))
      /\ \A j \in DOMAIN s \cap WatchedJurors : jurySeat[d][j] = seatIn(r, s[j])
      /\ s \in [DOMAIN s -> Seat] /\ Panels!Panel(d) = DOMAIN s \cap WatchedJurors
      /\ Panels!Full(d) <=> DOMAIN s \subseteq WatchedJurors
      /\ \A b \in DOMAIN s : s[b].revealed => s[b].commitment # "None"
  BY <1>3, PanelSeen DEF panel
<1>7. juryDispute'[d] = SeenCase("Voting", r, phase(d), Heard(t))
  <2>1. phase(d)' = phase(d) BY <1>1 DEF phase
  <2>2. dd.status = "Voting" BY <1>3 DEF Jury
  <2>3. otherSeats(d)' = Heard(t)
    <3>1. /\ r = 1 => DOMAIN seats'[d][2] = {}
          /\ r = 2 => DOMAIN seats'[d][2] # {}
      <4>1. r = 1 => seats'[d][2] = seats[d][2] BY <1>3 DEF Rounds
      <4>2. r = 1 => DOMAIN seats[d][2] = {}
        BY <1>3 DEF CaseInv, PanelsSound, PanelSound, Drawn, JuryCase, Jury
      <4> QED BY <1>3, <4>1, <4>2
    <3> QED BY <1>4, <3>1, CaseSeen
  <2> QED BY <1>1, <1>4, <2>1, <2>2, <2>3, CaseSeen DEF RoundSeen
<1>8. /\ \A j \in WatchedJurors : j # a => jurySeat'[d][j] = jurySeat[d][j]
      /\ a \in WatchedJurors => jurySeat'[d][a] = seatIn(r, t[a])
  <2>1. ASSUME NEW j \in WatchedJurors
        PROVE  /\ jurySeat[d][j] = IF j \in DOMAIN seats[d][1] THEN seatIn(1, seats[d][1][j])
                                   ELSE IF j \in DOMAIN seats[d][2] THEN seatIn(2, seats[d][2][j])
                                   ELSE seatIn(0, EmptySeat)
               /\ jurySeat'[d][j] = IF j \in DOMAIN seats'[d][1] THEN seatIn(1, seats'[d][1][j])
                                    ELSE IF j \in DOMAIN seats'[d][2] THEN seatIn(2, seats'[d][2][j])
                                    ELSE seatIn(0, EmptySeat)
    BY <1>5, SeatSeen
  <2>2. \A k \in Rounds : /\ DOMAIN seats'[d][k] = DOMAIN seats[d][k]
                          /\ \A j \in DOMAIN seats[d][k] :
                               (j # a \/ k # r) => seats'[d][k][j] = seats[d][k][j]
    BY <1>3
  <2>3. 1 \in Rounds /\ 2 \in Rounds BY DEF Rounds
  <2>4. a \in DOMAIN seats[d][r] /\ (r = 2 => a \notin DOMAIN seats[d][1]) BY <1>3, <1>5
  <2> QED BY <1>4, <2>1, <2>2, <2>3, <2>4
<1>9. CASE a \in WatchedJurors
  <2>1. Heard(t) = Heard(s) BY <1>3, <1>9, HeardOthers
  <2>2. juryDispute' = juryDispute BY <1>6, <1>7, <2>1, CaseUnmoved
  <2> DEFINE before == jurySeat[d][a]
             after  == jurySeat'[d][a]
  <2>3. /\ before = seatIn(r, s[a]) /\ after = seatIn(r, t[a])
        /\ before.commitment = sealed(s[a].commitment) /\ before.revealed = s[a].revealed
    <3>1. before = seatIn(r, s[a]) /\ after = seatIn(r, t[a]) BY <1>3, <1>6, <1>8, <1>9
    <3> HIDE DEF before, after, s, t, r
    <3> QED BY <3>1, VotesSeen
  <2>4. /\ DOMAIN jurySeat = DisputeId /\ DOMAIN jurySeat[d] = WatchedJurors
        /\ jurySeat'[d] = [j \in WatchedJurors |-> jurySeat'[d][j]]
        /\ jurySeat[d] = [j \in WatchedJurors |-> jurySeat[d][j]]
    BY DEF jurySeat
  <2>5. jurySeat'[d] = [jurySeat[d] EXCEPT ![a] = after]
    BY <1>8, <1>9, <2>4
  <2>6. jurySeat' = [jurySeat EXCEPT ![d] = jurySeat'[d]] BY OthersSeen
  <2>7. jurySeat' = [jurySeat EXCEPT ![d] = [jurySeat[d] EXCEPT ![a] = after]] BY <2>5, <2>6
  <2>8. Panels!Voting(d) /\ a \in Panels!Panel(d) BY <1>3, <1>6, <1>9, TimesSeen
  <2>9. CASE commitVote(d, a, v)
    <3> DEFINE c == [fn |-> "commitVote", id |-> d, vote |-> sealed(v)]
    <3>1. timestamp <= dd.commitDeadline /\ s[a].commitment = "None"
      BY <2>9 DEF commitVote, panel
    <3>2. t[a].commitment = v /\ t[a].revealed = s[a].revealed
      <4>1. s[a].commitment = "None" /\ v # "None" BY <3>1
      <4>2. ~revealVote(d, a) BY <4>1 DEF revealVote, panel
      <4> QED BY <1>3, <4>2
    <3>3. after = [before EXCEPT !.commitment = sealed(v)] BY <2>3, <3>2 DEF seatIn
    <3>4. jurySeat' = [jurySeat EXCEPT ![d][a].commitment = sealed(v)]
      <4> HIDE DEF before, after
      <4>1. jurySeat' = [jurySeat EXCEPT ![d] = [jurySeat[d] EXCEPT
                           ![a] = [before EXCEPT !.commitment = sealed(v)]]]
        BY <2>7, <3>3
      <4> QED BY <4>1 DEF before
    <3>5. juryDispute[d].clock = "commit" BY <1>3, <3>1, TimesSeen
    <3>6. before.commitment = Panels!NoVote BY <2>3, <3>1, VotesSeen
    <3>7. c \in Panels!Calls BY VotesSeen DEF Panels!Calls
    <3>8. Panels!Accepted(a, c) BY <2>8, <3>5, <3>6 DEF Panels!Accepted
    <3>9. Panels!execute(a, c) BY <1>1, <2>2, <3>4 DEF Panels!execute, Panels!commitVote
    <3> HIDE DEF c
    <3>10. c.fn = "commitVote" BY DEF c
    <3> QED BY <1>9, <3>7, <3>8, <3>9, <3>10 DEF JuryStep
  <2>10. CASE revealVote(d, a)
    <3> DEFINE c == [fn |-> "revealVote", id |-> d, vote |-> sealed(s[a].commitment)]
    <3>1. /\ timestamp <= dd.revealDeadline /\ s[a].commitment # "None" /\ ~s[a].revealed
          /\ timestamp > dd.commitDeadline \/ allCommitted(d)
      BY <2>10 DEF revealVote, panel
    <3>2. t[a].commitment = s[a].commitment /\ t[a].revealed
      <4>1. ~commitVote(d, a, v) BY <3>1 DEF commitVote, panel
      <4> QED BY <1>3, <4>1
    <3>3. after = [before EXCEPT !.revealed = TRUE]
      <4>1. t[a].revealed = TRUE
        <5>1. t \in [DOMAIN t -> Seat] BY <1>3 DEF Linked, SeatInv, TypeSeats
        <5>2. t[a].revealed \in BOOLEAN BY <1>3, <5>1 DEF Seat
        <5> QED BY <3>2, <5>2
      <4> HIDE DEF before, after, s, t, r
      <4>2. after = [round |-> r, commitment |-> sealed(s[a].commitment), revealed |-> TRUE]
        BY <2>3, <3>2, <4>1, Zenon DEF seatIn
      <4>3. before = [round |-> r, commitment |-> sealed(s[a].commitment), revealed |-> s[a].revealed]
        BY <2>3 DEF seatIn
      <4>4. ASSUME NEW k, NEW x, NEW y
            PROVE  [[round |-> r, commitment |-> k, revealed |-> x] EXCEPT !.revealed = y]
                   = [round |-> r, commitment |-> k, revealed |-> y]
        OBVIOUS
      <4> QED BY <4>2, <4>3, <4>4, Zenon
    <3>4. jurySeat' = [jurySeat EXCEPT ![d][a].revealed = TRUE]
      <4> HIDE DEF before, after
      <4>1. jurySeat' = [jurySeat EXCEPT ![d] = [jurySeat[d] EXCEPT
                           ![a] = [before EXCEPT !.revealed = TRUE]]]
        BY <2>7, <3>3
      <4> QED BY <4>1 DEF before
    <3>5. Panels!RevealOpen(d) BY <1>3, <3>1, TimesSeen
    <3>6. s[a].commitment \in {"Uphold", "Reject"} BY <1>3, <1>6, <3>1 DEF Seat, Verdict
    <3>7. c \in Panels!Calls BY <3>6, VotesSeen DEF Panels!Calls
    <3>8. Panels!Accepted(a, c) BY <2>3, <2>8, <3>1, <3>5 DEF Panels!Accepted
    <3>9. Panels!execute(a, c) BY <1>1, <2>2, <3>4 DEF Panels!execute, Panels!revealVote
    <3> HIDE DEF c
    <3>10. c.fn = "revealVote" BY DEF c
    <3> QED BY <1>9, <3>7, <3>8, <3>9, <3>10 DEF JuryStep
  <2> QED BY <1>3, <2>9, <2>10
<1>10. CASE a \notin WatchedJurors
  <2>1. jurySeat' = jurySeat
    <3>1. jurySeat'[d] = jurySeat[d] BY <1>8, <1>10 DEF jurySeat
    <3> QED BY <3>1, OthersSeen DEF jurySeat
  <2>2. CASE Heard(t) = Heard(s)
    <3>1. juryDispute' = juryDispute BY <1>6, <1>7, <2>2, CaseUnmoved
    <3> QED BY <1>1, <2>1, <3>1 DEF juryView
  <2>3. CASE Heard(t) # Heard(s)
    <3> DEFINE others == DOMAIN s \ WatchedJurors
    <3>0. a \in others BY <1>3, <1>10
    <3>1. /\ Heard(s) \in {"empty", "committed", "revealed"}
          /\ Heard(t) \in {"empty", "committed", "revealed"}
      BY DEF Heard
    <3>2. \/ /\ Heard(s) = "empty" /\ Heard(t) = "committed"
             /\ timestamp <= dd.commitDeadline
          \/ /\ Heard(s) = "committed" /\ Heard(t) = "revealed"
             /\ timestamp <= dd.revealDeadline
             /\ timestamp > dd.commitDeadline \/ allCommitted(d)
      <4>1. CASE commitVote(d, a, v)
        <5>1. timestamp <= dd.commitDeadline /\ s[a].commitment = "None"
          BY <4>1 DEF commitVote, panel
        <5>2. ~s[a].revealed BY <1>3, <1>6, <5>1
        <5>3. ~revealVote(d, a) BY <5>1 DEF revealVote, panel
        <5>4. ~t[a].revealed BY <1>3, <5>2, <5>3
        <5>5. Heard(s) = "empty" BY <3>0, <5>1, HeardCases
        <5>6. Heard(t) # "revealed" BY <1>3, <3>0, <5>4, HeardCases
        <5> QED BY <2>3, <3>1, <5>1, <5>5, <5>6
      <4>2. CASE revealVote(d, a)
        <5>1. /\ timestamp <= dd.revealDeadline /\ s[a].commitment # "None" /\ ~s[a].revealed
              /\ timestamp > dd.commitDeadline \/ allCommitted(d)
          BY <4>2 DEF revealVote, panel
        <5>2. ~commitVote(d, a, v) BY <5>1 DEF commitVote, panel
        <5>3. \A b \in others : t[b].commitment = s[b].commitment BY <1>3, <5>2
        <5>4. Heard(t) = "empty" <=> Heard(s) = "empty"
          <6>1. DOMAIN t \ WatchedJurors = others BY <1>3
          <6> HIDE DEF s, t
          <6>2. Heard(s) = "empty" <=> others = {} \/ \E b \in others : s[b].commitment = "None"
            BY HeardCases
          <6>3. Heard(t) = "empty" <=> others = {} \/ \E b \in others : t[b].commitment = "None"
            BY <6>1, HeardCases
          <6> QED BY <5>3, <6>2, <6>3
        <5>5. Heard(s) # "revealed" BY <3>0, <5>1, HeardCases
        <5> QED BY <2>3, <3>1, <5>1, <5>4, <5>5
      <4> QED BY <1>3, <4>1, <4>2
    <3>3. /\ DOMAIN juryDispute = DisputeId /\ juryDispute[d].others = Heard(s)
          /\ Panels!Voting(d) /\ ~Panels!Full(d)
      BY <1>3, <1>6, <3>0, TimesSeen DEF SeenCase, juryDispute
    <3>4. juryDispute' = [juryDispute EXCEPT ![d].others = Heard(t)]
      <4> DEFINE g == [juryDispute EXCEPT ![d].others = Heard(t)]
      <4> HIDE DEF s, t
      <4>1. g = [c \in DisputeId |-> g[c]] /\ \A c \in DisputeId : c # d => g[c] = juryDispute[c]
        BY <3>3
      <4>2. g[d] = SeenCase("Voting", r, phase(d), Heard(t)) BY <1>6, <3>3 DEF SeenCase
      <4> HIDE DEF g
      <4>3. juryDispute' = g BY <1>7, <4>1, <4>2, CaseShown
      <4> QED BY <4>3 DEF g
    <3>5. \/ /\ juryDispute[d].others = "empty" /\ Heard(t) = "committed"
             /\ juryDispute[d].clock = "commit"
          \/ /\ juryDispute[d].others = "committed" /\ Heard(t) = "revealed"
             /\ Panels!RevealOpen(d)
      BY <1>3, <3>2, <3>3, TimesSeen
    <3>6. Panels!othersVote(d)
      <4> HIDE DEF t, s
      <4> QED BY <1>1, <2>1, <3>3, <3>4, <3>5 DEF Panels!othersVote
    <3> QED BY <3>6 DEF JuryStep, Panels!OthersAct
  <2> QED BY <2>2, <2>3
<1> QED BY <1>9, <1>10

\* Every call on a dispute is one the services expect.
LEMMA CallsShown ==
  ASSUME Linked, Linked', CaseInv, CaseInv', MoneyInv, Apart, BeforeJuries,
         NEW d \in DisputeId, DisputeCall(d)
  PROVE  JuryStep \/ juryView' = juryView
<1>1. /\ OthersKept(d)
      /\ \/ Rearms(d) \/ Fails(d) \/ Settles(d) \/ Votes(d)
         \/ \E chosen \in SUBSET Accounts : Draws(d, chosen)
  BY JuryCalls
<1>2. ASSUME Fails(d), TallyReady(d)
      PROVE  /\ revealers(panel(d)) # DOMAIN panel(d)
             /\ \A v \in {"Uphold", "Reject"} : Cardinality(Panels!VotesFor(d, v)) < 2
  <2>1. Jury(d, "Voting") /\ ~Drawable(d) BY <1>2 DEF TallyReady, Jury, Drawable
  <2>2. panelVerdict(panel(d)) = "None" BY <1>2, <2>1 DEF Fails
  <2> QED BY <2>1, <2>2, NoMajority
<1>3. CASE Fails(d) BY <1>1, <1>2, <1>3, FailsSeen
<1> QED BY <1>1, <1>3, RearmsSeen, SettlesSeen, DrawsSeen, VotesShown

\* Time moves the phase of every dispute on.
LEMMA TimeSeen ==
  ASSUME Linked, CaseInv, BeforeJuries, NewBlock PROVE JuryStep
<1>1. /\ UNCHANGED <<disputes, seats, claimable>>
      /\ timestamp' >= timestamp /\ blockNumber' >= blockNumber
      /\ timestamp \in Nat /\ timestamp' \in Nat /\ blockNumber \in Nat /\ blockNumber' \in Nat
  BY ConstantsOK, BlockFrame DEF NewBlock, ConstantsOK, cases, Linked, TypeAdmin
<1>2. UNCHANGED <<jurySeat, juryPay>> BY <1>1 DEF jurySeat, juryPay
<1> DEFINE c == [d \in DisputeId |-> phase(d)']
<1>3. ASSUME NEW d \in DisputeId
      PROVE  /\ phase(d)' \in Panels!Clocks
             /\ phase(d)' \in IF Panels!Underway(d) THEN Panels!Later(juryDispute[d].clock)
                              ELSE {juryDispute[d].clock}
             /\ juryDispute'[d] = [juryDispute[d] EXCEPT !.clock = phase(d)']
  <2> DEFINE dd == disputes[d]
  <2>1. /\ dd.selectionBlock \in Nat /\ dd.selectionDeadline \in Nat
        /\ dd.commitDeadline \in Nat /\ dd.revealDeadline \in Nat
        /\ dd.status \in DisputeStatus /\ disputes' = disputes
    BY <1>1 DEF Linked, DisputeInv, TypeDisputes, Dispute
  <2>2. juryDispute[d] = SeenCase(dd.status, RoundSeen(dd), phase(d), otherSeats(d)) BY CaseSeen
  <2>3. otherSeats(d)' = otherSeats(d) BY <1>1, CaseSeen
  <2>4. juryDispute'[d] = SeenCase(dd.status, RoundSeen(dd), phase(d)', otherSeats(d))
    BY <1>1, <2>3, CaseSeen DEF RoundSeen
  <2>5. juryDispute'[d] = [juryDispute[d] EXCEPT !.clock = phase(d)'] BY <2>2, <2>4 DEF SeenCase
  <2>6. juryDispute[d].status = dd.status /\ juryDispute[d].clock = phase(d) BY <2>2 DEF SeenCase
  <2>7. CASE dd.status = "AwaitingSelection"
    <3>1. phase(d) = IF blockNumber <= dd.selectionBlock THEN "early"
                     ELSE IF timestamp <= dd.selectionDeadline THEN "ready" ELSE "late"
      BY <2>7 DEF phase
    <3>2. phase(d)' = IF blockNumber' <= dd.selectionBlock THEN "early"
                      ELSE IF timestamp' <= dd.selectionDeadline THEN "ready" ELSE "late"
      BY <2>1, <2>7 DEF phase
    <3> HIDE DEF dd
    <3>3. /\ phase(d)' \in {"early", "ready", "late"}
          /\ phase(d) = "ready" => phase(d)' \in {"ready", "late"}
          /\ phase(d) = "late" => phase(d)' = "late"
          /\ phase(d) \in {"early", "ready", "late"}
      BY <1>1, <2>1, <3>1, <3>2
    <3>4. phase(d)' \in Panels!Later(phase(d)) /\ phase(d)' \in Panels!Clocks
      BY <3>3 DEF Panels!Later, Panels!Clocks
    <3> QED BY <2>5, <2>6, <2>7, <3>4 DEF Panels!Underway
  <2>8. CASE dd.status = "Voting"
    <3>1. phase(d) = IF timestamp <= dd.commitDeadline THEN "commit"
                     ELSE IF timestamp <= dd.revealDeadline THEN "reveal" ELSE "over"
      BY <2>8 DEF phase
    <3>2. phase(d)' = IF timestamp' <= dd.commitDeadline THEN "commit"
                      ELSE IF timestamp' <= dd.revealDeadline THEN "reveal" ELSE "over"
      BY <2>1, <2>8 DEF phase
    <3>0. dd.commitDeadline <= dd.revealDeadline BY <2>8 DEF BeforeJuries
    <3> HIDE DEF dd
    <3>3. /\ phase(d)' \in {"commit", "reveal", "over"}
          /\ phase(d) = "reveal" => phase(d)' \in {"reveal", "over"}
          /\ phase(d) = "over" => phase(d)' = "over"
          /\ phase(d) \in {"commit", "reveal", "over"}
      BY <1>1, <2>1, <3>0, <3>1, <3>2
    <3>4. phase(d)' \in Panels!Later(phase(d)) /\ phase(d)' \in Panels!Clocks
      BY <3>3 DEF Panels!Later, Panels!Clocks
    <3> QED BY <2>5, <2>6, <2>8, <3>4 DEF Panels!Underway
  <2>9. CASE dd.status # "AwaitingSelection" /\ dd.status # "Voting"
    <3>1. phase(d) = "early" /\ phase(d)' = "early" BY <2>1, <2>9 DEF phase
    <3>2. ~Panels!Underway(d) BY <2>6, <2>9 DEF Panels!Underway
    <3> HIDE DEF dd
    <3> QED BY <2>5, <2>6, <3>1, <3>2 DEF Panels!Clocks
  <2> QED BY <2>7, <2>8, <2>9
<1>4. juryDispute' = [d \in DisputeId |-> [juryDispute[d] EXCEPT !.clock = c[d]]]
  <2>1. juryDispute' = [d \in DisputeId |-> juryDispute'[d]] BY DEF juryDispute
  <2>2. \A d \in DisputeId : juryDispute'[d] = [juryDispute[d] EXCEPT !.clock = c[d]] BY <1>3
  <2> HIDE DEF c
  <2> QED BY <2>1, <2>2
<1>5. /\ c \in [DisputeId -> Panels!Clocks]
      /\ \A d \in DisputeId : c[d] \in IF Panels!Underway(d) THEN Panels!Later(juryDispute[d].clock)
                                       ELSE {juryDispute[d].clock}
  BY <1>3
<1> HIDE DEF c
<1>6. Panels!TimePasses BY <1>2, <1>4, <1>5 DEF Panels!TimePasses
<1> QED BY <1>6 DEF JuryStep, Panels!OthersAct

\* A dispute is opened after all others, for a first draw.
LEMMA OpeningSeen ==
  ASSUME Linked, CaseInv, BeforeJuries, JurorsOnlyJudge, NEW i \in PurchaseId, NEW g \in Grounds,
         NEW m \in SUBSET (1..purchases[i].terms.taskCount), openDispute(i, g, m),
         NEW d \in DisputeId, d = nextDisputeId
  PROVE  JuryStep
<1> DEFINE e == disputes'[d]
           p == purchases[i]
           base == [NoDispute EXCEPT !.purchase = i, !.ground = g, !.taskMask = m,
                      !.requested = requestedRefund(p, m), !.bond = bondFor(p, m),
                      !.caseFee = p.par.caseFee, !.par = params]
           jury == [base EXCEPT !.status = "AwaitingSelection", !.round = 1]
<1>1. g = "FalseDescription" BY DEF JurorsOnlyJudge
<1>2. /\ d \in DisputeId /\ OnlyDispute(d) /\ e.status = "AwaitingSelection" /\ e.round = 1
      /\ seats' = seats
  BY <1>1, OpenMoves
<1>3. UNCHANGED <<blockNumber, timestamp, claimable>> BY DEF openDispute, chain
<1>4. OthersKept(d) BY <1>2, <1>3 DEF OthersKept
<1>5. e.selectionBlock = blockNumber + 2
  <2>1. jury.selectionBlock = 0 /\ DOMAIN jury = DOMAIN NoDispute BY DEF NoDispute
  <2>2. newDispute(i, g, m) = armSelection(jury) BY <1>1 DEF newDispute
  <2>3. disputes' = [disputes EXCEPT ![d] = newDispute(i, g, m)] BY DEF openDispute
  <2>4. DOMAIN disputes = DisputeId BY DEF Linked, DisputeInv, TypeDisputes
  <2>5. e = armSelection(jury) BY <1>2, <2>2, <2>3, <2>4
  <2>6. "selectionBlock" \in DOMAIN jury BY <2>1 DEF NoDispute
  <2>7. armSelection(jury).selectionBlock = blockNumber + 2
    BY DEF armSelection, NoDispute
  <2> QED BY <2>5, <2>7
<1>6. /\ disputes[d] = NoDispute /\ DOMAIN seats[d][1] = {} /\ DOMAIN seats[d][2] = {}
  <2>1. d \in Nat BY <1>2, ConstantsOK DEF ConstantsOK, DisputeId
  <2>2. disputes[d] = NoDispute BY <1>2, <2>1 DEF CaseInv, Links
  <2>3. ~JuryCase(disputes[d]) BY <2>2 DEF JuryCase, NoDispute
  <2>4. Drawn(disputes[d], seats[d]) BY <1>2 DEF CaseInv, PanelsSound, PanelSound
  <2> QED BY <2>2, <2>3, <2>4 DEF Drawn
<1>7. Sitting(d) BY <1>2, SeatsSit
<1>8. juryPay' = juryPay BY <1>3 DEF juryPay
<1>9. /\ jurySeat' = jurySeat /\ otherSeats(d)' = otherSeats(d)
  <2>1. jurySeat'[d] = jurySeat[d] /\ otherSeats(d)' = otherSeats(d)
    BY <1>2, <1>6, <1>7, SittingSeen
  <2> QED BY <1>2, <1>4, <2>1, OthersSeen DEF jurySeat
<1>10. phase(d) = "early" /\ phase(d)' = "early"
  <2>1. phase(d) = "early" BY <1>6 DEF phase, NoDispute
  <2>2. blockNumber \in Nat BY DEF Linked, TypeAdmin
  <2>3. phase(d)' = IF blockNumber' <= e.selectionBlock THEN "early"
                    ELSE IF timestamp' <= e.selectionDeadline THEN "ready" ELSE "late"
    BY <1>2 DEF phase
  <2>4. blockNumber' <= e.selectionBlock
    <3> HIDE DEF e
    <3> QED BY <1>3, <1>5, <2>2
  <2> QED BY <2>1, <2>3, <2>4
<1>11. /\ juryDispute[d] = SeenCase("None", 1, "early", otherSeats(d))
       /\ juryDispute'[d] = SeenCase("AwaitingSelection", 1, "early", otherSeats(d))
       /\ DOMAIN juryDispute = DisputeId
  <2>1. RoundSeen(disputes[d]) = 1 /\ disputes[d].status = "None" BY <1>6 DEF RoundSeen, NoDispute
  <2>2. RoundSeen(e) = 1 BY <1>2 DEF RoundSeen
  <2>3. juryDispute[d] = SeenCase("None", 1, "early", otherSeats(d)) BY <1>2, <1>10, <2>1, CaseSeen
  <2>4. juryDispute'[d] = SeenCase("AwaitingSelection", 1, "early", otherSeats(d))
    <3>1. /\ juryDispute'[d] = SeenCase(e.status, RoundSeen(e), phase(d)', otherSeats(d)')
      BY <1>2, CaseSeen
    <3> QED BY <1>2, <1>9, <1>10, <2>2, <3>1
  <2> QED BY <2>3, <2>4 DEF juryDispute
<1>12. juryDispute' = [juryDispute EXCEPT ![d].status = "AwaitingSelection"]
  <2> DEFINE h == [juryDispute EXCEPT ![d].status = "AwaitingSelection"]
  <2>1. h = [c \in DisputeId |-> h[c]] /\ \A c \in DisputeId : c # d => h[c] = juryDispute[c]
    BY <1>11
  <2>2. h[d] = SeenCase("AwaitingSelection", 1, "early", otherSeats(d)) BY <1>2, <1>11 DEF SeenCase
  <2> HIDE DEF h
  <2>3. juryDispute' = h BY <1>2, <1>4, <1>11, <2>1, <2>2, CaseShown
  <2> QED BY <2>3 DEF h
<1>13. juryDispute[d].status = "None" BY <1>11 DEF SeenCase
<1>14. \A c \in 1..d-1 : juryDispute[c].status # "None"
  <2> SUFFICES ASSUME NEW c \in 1..d-1 PROVE juryDispute[c].status # "None" OBVIOUS
  <2>1. c \in DisputeId /\ c < d BY <1>2, ConstantsOK DEF ConstantsOK, DisputeId
  <2>2. disputes[c].status # "None" BY <2>1 DEF BeforeJuries
  <2> QED BY <2>1, <2>2 DEF juryDispute
<1>15. Panels!openDispute(d)
  BY <1>8, <1>9, <1>12, <1>13, <1>14 DEF Panels!openDispute, Panels!None
<1> QED BY <1>2, <1>15 DEF JuryStep, Panels!OthersAct

\* A reward is taken by its juror.
LEMMA WithdrawalSeen ==
  ASSUME Linked, CaseInv, MoneyInv, NEW a \in Accounts, withdraw(a)
  PROVE  JuryStep \/ juryView' = juryView
<1>1. /\ claimable \in [Accounts -> Int] /\ claimable[a] # 0 /\ claimable[a] >= 0
      /\ claimable' = [claimable EXCEPT ![a] = 0]
      /\ UNCHANGED <<blockNumber, timestamp, disputes, seats>>
  BY DEF withdraw, chain, cases, Linked, TypeFunds, MoneyInv, Covered
<1>2. UNCHANGED <<juryDispute, jurySeat>> BY <1>1 DEF juryDispute, jurySeat, phase, otherSeats
<1>3. CASE a \notin WatchedJurors
  <2>1. PayKept BY <1>1, <1>3, WatchedOK DEF PayKept
  <2> QED BY <1>2, <2>1, PaySeen DEF juryView
<1>4. CASE a \in WatchedJurors
  <2> DEFINE c == [fn |-> "withdraw", id |-> WatchedPurchase, vote |-> Panels!NoVote]
  <2>1. WatchedPurchase \in DisputeId BY WatchedOK DEF DisputeId, PurchaseId
  <2>2. c \in Panels!Calls BY <2>1 DEF Panels!Calls
  <2>3. juryPay[a]
    <3>1. claimable[a] > 0 BY <1>1
    <3> QED BY <1>4, <3>1, Zenon DEF juryPay
  <2>4. juryPay' = [juryPay EXCEPT ![a] = FALSE]
    <3>1. ASSUME NEW j \in WatchedJurors
          PROVE  (claimable'[j] > 0) = (IF j = a THEN FALSE ELSE claimable[j] > 0)
      <4>1. CASE j = a
        <5>1. ~(claimable'[j] > 0) BY <1>1, <4>1, WatchedOK
        <5>2. (IF j = a THEN FALSE ELSE claimable[j] > 0) = FALSE BY <4>1, Zenon
        <5>3. (claimable'[j] > 0) = FALSE BY <5>1
        <5> QED BY <5>2, <5>3, Zenon
      <4>2. CASE j # a
        <5>1. claimable'[j] = claimable[j] BY <1>1, <4>2, WatchedOK
        <5> QED BY <4>2, <5>1, Zenon
      <4> QED BY <4>1, <4>2
    <3>2. juryPay' = [j \in WatchedJurors |-> IF j = a THEN FALSE ELSE claimable[j] > 0]
      BY <3>1, Zenon DEF juryPay
    <3>3. \A j \in WatchedJurors : juryPay[j] = (claimable[j] > 0) BY Zenon DEF juryPay
    <3>4. juryPay' = [j \in WatchedJurors |-> IF j = a THEN FALSE ELSE juryPay[j]]
      BY <3>2, <3>3, Zenon
    <3>5. juryPay = [j \in WatchedJurors |-> juryPay[j]] BY Zenon DEF juryPay
    <3> HIDE DEF c
    <3>6. ASSUME NEW f, f = [j \in WatchedJurors |-> f[j]], NEW x
          PROVE  [j \in WatchedJurors |-> IF j = a THEN x ELSE f[j]] = [f EXCEPT ![a] = x]
      <4>1. DOMAIN f = WatchedJurors BY <3>6
      <4> QED BY <4>1
    <3> QED BY <3>4, <3>5, <3>6, Zenon
  <2>5. Panels!Accepted(a, c) BY <2>3 DEF Panels!Accepted
  <2>6. Panels!execute(a, c) BY <1>2, <2>4 DEF Panels!execute, Panels!withdraw
  <2> HIDE DEF c
  <2>7. c.fn = "withdraw" BY DEF c
  <2> QED BY <1>4, <2>2, <2>5, <2>6, <2>7 DEF JuryStep
<1> QED BY <1>3, <1>4

\* Nothing else is seen.
LEMMA NothingSeen ==
  ASSUME UNCHANGED <<blockNumber, timestamp, disputes, seats>>, PayKept PROVE juryView' = juryView
<1>1. UNCHANGED <<juryDispute, jurySeat>> BY DEF juryDispute, jurySeat, phase, otherSeats
<1> QED BY <1>1, PaySeen DEF juryView

\* What is credited to strangers is no juror's.
LEMMA StrangerPaid ==
  ASSUME Linked, NEW b, b \notin WatchedJurors, NEW n, claimable' = credit(claimable, b, n)
  PROVE  PayKept
<1>1. claimable \in [Accounts -> Int] BY DEF Linked, TypeFunds
<1> QED BY <1>1, WatchedOK DEF credit, PayKept

\* Every step is one the services expect, or one they do not see.
LEMMA StepsSeen ==
  ASSUME Linked, CaseInv, MoneyInv, JurorsOnlyJudge, Apart, BeforeJuries, [Next]_vars
  PROVE  JuryStep \/ juryView' = juryView
<1>0. Linked' /\ CaseInv' BY NextLinked, NextCase
<1> DEFINE Still == UNCHANGED <<blockNumber, timestamp, disputes, seats>>
<1>1. CASE UNCHANGED vars
  <2>1. Still /\ PayKept BY <1>1 DEF vars, chain, cases, PayKept
  <2> QED BY <2>1, NothingSeen
<1>2. CASE NewBlock BY <1>2, TimeSeen
<1>3. CASE Admin
  <2>1. Still /\ PayKept BY <1>3, AdminFrame DEF chain, cases, PayKept
  <2> QED BY <2>1, NothingSeen
<1>4. CASE Selling
  <2>0. Still BY <1>4, SellingFrame DEF chain, cases
  <2>1. ASSUME NEW v \in VersionId, \/ reclaimPreviewFee(v) \/ \E s \in Signers : attachReport(v, s)
        PROVE  PayKept
    <3>1. versions[v].seller \notin WatchedJurors /\ previewConfig.recipient \notin WatchedJurors
      BY DEF Apart
    <3>2. \/ claimable' = credit(claimable, versions[v].seller, previews[v].fee)
          \/ claimable' = credit(claimable, previewConfig.recipient, previews[v].fee)
      BY <2>1 DEF reclaimPreviewFee, attachReport
    <3> QED BY <3>1, <3>2, StrangerPaid
  <2>2. ASSUME \/ \E a \in Sellers, t \in TermChoices :
                    createListing(a, t) \/ \E l \in VersionId : newVersion(a, l, t)
               \/ \E v \in VersionId, b \in ActiveChoices : setVersionActive(v, b)
               \/ \E v \in VersionId, f \in PreviewFees : requestPreview(v, f)
               \/ \E a \in Sellers, n \in Amounts : depositCollateral(a, n) \/ withdrawCollateral(a, n)
        PROVE  PayKept
    <3>1. claimable' = claimable
      BY <2>2 DEF createListing, newVersion, addVersion, setVersionActive, requestPreview,
                  depositCollateral, withdrawCollateral
    <3> QED BY <3>1 DEF PayKept
  <2>3. PayKept BY <1>4, <2>1, <2>2 DEF Selling
  <2> QED BY <2>0, <2>3, NothingSeen
<1>5. ASSUME NEW a \in Buyers, NEW v \in VersionId, buy(a, v) PROVE juryView' = juryView
  <2>1. Still /\ PayKept BY <1>5 DEF buy, chain, cases, PayKept
  <2> QED BY <2>1, NothingSeen
<1>6. ASSUME NEW i \in PurchaseId,
             \/ \E s \in Signers : recordDelivery(i, s)
             \/ refundUndelivered(i) \/ finalize(i) \/ \E n \in StarChoices : rate(i, n)
      PROVE  juryView' = juryView
  <2>1. purchases[i].buyer \notin WatchedJurors /\ purchases[i].seller \notin WatchedJurors
    BY DEF Apart
  <2>2. Still BY <1>6 DEF recordDelivery, refundUndelivered, finalize, rate, chain, cases
  <2>3. ASSUME \/ \E s \in Signers : recordDelivery(i, s)
               \/ \E n \in StarChoices : rate(i, n)
        PROVE  PayKept
    BY <2>3 DEF recordDelivery, rate, PayKept
  <2>4. ASSUME refundUndelivered(i) \/ finalize(i) PROVE PayKept
    <3>1. \/ claimable' = credit(claimable, purchases[i].buyer, purchases[i].terms.price)
          \/ claimable' = credit(claimable, purchases[i].seller, closeProceeds(purchases[i], 0))
      BY <2>4 DEF refundUndelivered, finalize
    <3> QED BY <2>1, <3>1, StrangerPaid
  <2>5. PayKept BY <1>6, <2>3, <2>4
  <2> QED BY <2>2, <2>5, NothingSeen
<1>7. ASSUME NEW i \in PurchaseId, NEW g \in Grounds,
             NEW m \in SUBSET (1..purchases[i].terms.taskCount), openDispute(i, g, m)
      PROVE  JuryStep
  <2>1. nextDisputeId \in DisputeId BY <1>7 DEF openDispute
  <2> QED BY <1>7, <2>1, OpeningSeen
<1>8. ASSUME NEW a \in Withdrawers, withdraw(a) PROVE JuryStep \/ juryView' = juryView
  BY <1>8, WithdrawalSeen, ConstantsOK DEF ConstantsOK
<1>9. CASE Purchasing BY <1>5, <1>6, <1>7, <1>8, <1>9 DEF Purchasing
<1>10. ASSUME NEW d \in DisputeId, DisputeCall(d) PROVE JuryStep \/ juryView' = juryView
  BY <1>0, <1>10, CallsShown
<1>11. ASSUME NEW a, NEW n, depositJurorStake(a, n) \/ withdrawJurorStake(a, n)
       PROVE  juryView' = juryView
  <2>1. Still /\ PayKept
    BY <1>11 DEF depositJurorStake, withdrawJurorStake, chain, cases, PayKept
  <2> QED BY <2>1, NothingSeen
<1>12. CASE Judging BY <1>10, <1>11, <1>12 DEF Judging, Deciding, DisputeCall
<1> QED BY <1>1, <1>2, <1>3, <1>4, <1>9, <1>12 DEF Next

\* Before a dispute is opened, none is seen.
LEMMA NoneSeen ==
  Init => (nextDisputeId = 1 => \A d \in DisputeId :
             juryDispute[d] = [status |-> "None", round |-> 1, clock |-> "early", others |-> "empty"])
<1> SUFFICES ASSUME Init, NEW d \in DisputeId
             PROVE  juryDispute[d] = SeenCase("None", 1, "early", "empty")
  BY DEF SeenCase
<1>1. disputes[d] = NoDispute /\ DOMAIN seats[d][1] = {} /\ DOMAIN seats[d][2] = {}
  BY DEF Init, InitCases, Rounds
<1>2. RoundSeen(disputes[d]) = 1 /\ disputes[d].status = "None" BY <1>1 DEF RoundSeen, NoDispute
<1>3. phase(d) = "early" BY <1>2 DEF phase
<1>4. otherSeats(d) = Heard(seats[d][1]) BY <1>1, CaseSeen
<1>5. Heard(seats[d][1]) = "empty" BY <1>1, HeardCases
<1> QED BY <1>2, <1>3, <1>4, <1>5, CaseSeen

\* Before a jury and with jurors who only judge, the market is the chain the juror services
\* are specified against: every call, of theirs or of anybody, changes the disputes, seats and
\* rewards they read as JurorChain says, or not at all (EnvMarket.sol, juror.ts).
THEOREM ContractIsJurorChain ==
  ASSUME JurorsOnlyJudge
  PROVE  Spec /\ previewConfig.recipient \notin WatchedJurors => ImplementsJurorChain
<1> DEFINE apart == previewConfig.recipient \notin WatchedJurors
           Inv == Apart /\ BeforeJuries
<1>1. Init /\ apart => Inv
  <2> SUFFICES ASSUME Init, apart PROVE Inv OBVIOUS
  <2>1. /\ \A v \in VersionId : versions[v].seller = NoAccount
        /\ \A i \in PurchaseId : purchases[i].buyer = NoAccount /\ purchases[i].seller = NoAccount
    BY DEF Init, InitCatalog, InitPurchases, NoVersion, NoPurchase
  <2>2. NoAccount \notin WatchedJurors BY WatchedOK, ConstantsOK DEF ConstantsOK
  <2>3. \A d \in DisputeId : disputes[d] = NoDispute BY DEF Init, InitCases
  <2>4. nextDisputeId = 1 /\ \A d \in DisputeId : ~(d < 1)
    BY ConstantsOK DEF Init, InitCases, ConstantsOK, DisputeId
  <2>5. Apart BY <2>1, <2>2 DEF Apart
  <2>6. BeforeJuries BY <2>3, <2>4 DEF BeforeJuries, NoDispute
  <2> QED BY <2>5, <2>6
<1>2. Linked /\ CaseInv /\ MoneyInv /\ Inv /\ [Next]_vars => Inv'
  <2> SUFFICES ASSUME Linked, CaseInv, MoneyInv, Apart, BeforeJuries, [Next]_vars PROVE Inv' OBVIOUS
  <2>1. Apart' BY SellersKept, BuyersKept DEF Apart
  <2>2. BeforeJuries' BY JuriesPreserved
  <2> QED BY <2>1, <2>2
<1>3. Linked /\ CaseInv /\ MoneyInv /\ Inv /\ [Next]_vars => (juryView' # juryView => JuryStep)
  BY StepsSeen
<1> HIDE DEF apart, Inv
<1>4. Spec /\ apart => ImplementsJurorChain
  BY <1>1, <1>2, <1>3, NoneSeen, MoneyHolds, PTL DEF Spec, ImplementsJurorChain
<1> QED BY <1>4 DEF apart
=============================================================================
