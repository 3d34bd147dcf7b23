------------------------- MODULE EnvMarketTypeProofs -------------------------
(***************************************************************************)
(* Type correctness of EnvMarket for every value of its constants.  TypeOK *)
(* is not inductive: that a settled amount is a number depends on the      *)
(* purchase a dispute names, the task count a version was listed with and  *)
(* the majority of a panel.  Linked adds these facts.                      *)
(***************************************************************************)
EXTENDS EnvMarket, FiniteSetTheorems, TLAPS

\* A listed version passed addVersion's checks.
VersionsValid ==
  /\ nextListingId <= nextVersionId
  /\ \A v \in VersionId :
       versions[v].seller # NoAccount => versions[v].terms.taskCount \in 1..256

\* A purchase was made by buy, of a listed version.
WellMade(p) == p.state # "None" =>
  /\ p.version \in VersionId /\ p.buyer \in Accounts /\ p.seller \in Accounts
  /\ p.terms.taskCount \in 1..256
  /\ ValidParams(p.par)

\* A dispute was opened by openDispute, on a purchase, over some of its tasks.
WellOpened(dd, ps) == dd.status # "None" =>
  /\ dd.purchase \in PurchaseId /\ ps[dd.purchase].state # "None"
  /\ dd.taskMask \subseteq 1..ps[dd.purchase].terms.taskCount
  /\ ValidParams(dd.par)
  /\ dd.ground = "FalseDescription" => dd.round \in Rounds

\* Only a committed verdict is revealed.
RevealsCommitted ==
  \A d \in DisputeId : \A r \in Rounds : \A a \in DOMAIN seats[d][r] :
    seats[d][r][a].revealed => seats[d][r][a].commitment # "None"

CatalogInv  == TypeCatalog /\ VersionsValid
PurchaseInv == /\ TypePurchases
               /\ \A i \in PurchaseId : WellMade(purchases[i])
               /\ \A i \in PurchaseId : i >= nextPurchaseId => purchases[i] = NoPurchase
DisputeInv  == TypeDisputes /\ \A d \in DisputeId : WellOpened(disputes[d], purchases)
SeatInv     == TypeSeats /\ RevealsCommitted

\* The inductive invariant.
Linked == /\ TypeAdmin /\ CatalogInv /\ PurchaseInv /\ DisputeInv /\ SeatInv
          /\ TypeFunds /\ TypeRecords

---------------------------------------------------------------------------
(* What each group of actions leaves alone. *)

\* Settling a dispute touches no listing, no parameter and no id counter.
LEMMA ResolveFrame ==
  ASSUME NEW d, NEW out, NEW extra, resolve(d, out, extra)
  PROVE  UNCHANGED <<chain, balance, admin, catalog, previews, nextPurchaseId, nextDisputeId>>
BY DEF resolve

\* A block only moves the clock.
LEMMA BlockFrame ==
  NewBlock => UNCHANGED <<balance, admin, catalog, previews, purchases, nextPurchaseId, cases,
                          stakes, jurors, claimable, bucket, stats>>
BY DEF NewBlock

\* The owner's calls touch parameters, roles, the juror list, treasury and reserve.
LEMMA AdminFrame ==
  Admin => UNCHANGED <<chain, catalog, previews, purchases, nextPurchaseId, cases, stakes,
                       claimable, stats>>
<1> DEFINE Same == UNCHANGED <<chain, catalog, previews, purchases, nextPurchaseId, cases, stakes,
                               claimable, stats>>
<1>1. ASSUME NEW q, setParams(q) PROVE Same BY <1>1 DEF setParams
<1>2. ASSUME NEW r, NEW f, NEW t, setPreviewConfig(r, f, t) PROVE Same
  BY <1>2 DEF setPreviewConfig
<1>3. ASSUME NEW s, NEW b, setRunner(s, b) \/ setRelay(s, b) \/ setVerifier(s, b) PROVE Same
  BY <1>3 DEF setRunner, setRelay, setVerifier
<1>4. ASSUME NEW a, NEW b, approveJuror(a, b) PROVE Same BY <1>4 DEF approveJuror
<1>5. ASSUME NEW n, withdrawTreasury(n) \/ withdrawReserve(n) PROVE Same
  BY <1>5 DEF withdrawTreasury, withdrawReserve
<1> QED
  BY <1>1, <1>2, <1>3, <1>4, <1>5
  DEF Admin, setPreviewFeeRecipient, setMinPreviewFee, setPreviewTimeout

\* Sellers' calls touch the catalog, previews and collateral.
LEMMA SellingFrame ==
  Selling => UNCHANGED <<chain, admin, purchases, nextPurchaseId, cases, jurors, stats>>
<1> DEFINE Same == UNCHANGED <<chain, admin, purchases, nextPurchaseId, cases, jurors, stats>>
<1>1. ASSUME NEW a, NEW l, NEW t, addVersion(a, l, t) PROVE Same BY <1>1 DEF addVersion
<1>2. ASSUME NEW v, NEW b, setVersionActive(v, b) PROVE Same BY <1>2 DEF setVersionActive
<1>3. ASSUME NEW v, NEW f, requestPreview(v, f) PROVE Same BY <1>3 DEF requestPreview
<1>4. ASSUME NEW v, reclaimPreviewFee(v) PROVE Same BY <1>4 DEF reclaimPreviewFee
<1>5. ASSUME NEW v, NEW s, attachReport(v, s) PROVE Same BY <1>5 DEF attachReport
<1>6. ASSUME NEW a, NEW n, depositCollateral(a, n) \/ withdrawCollateral(a, n) PROVE Same
  BY <1>6 DEF depositCollateral, withdrawCollateral
<1> QED
  BY <1>1, <1>2, <1>3, <1>4, <1>5, <1>6 DEF Selling, createListing, newVersion

\* Purchases and payouts touch neither catalog nor panels.
LEMMA PurchasingFrame == Purchasing => UNCHANGED <<chain, admin, catalog, previews, seats, jurors>>
<1> DEFINE Same == UNCHANGED <<chain, admin, catalog, previews, seats, jurors>>
<1>1. ASSUME NEW a, NEW v, buy(a, v) PROVE Same BY <1>1 DEF buy, cases
<1>2. ASSUME NEW i, NEW s, recordDelivery(i, s) PROVE Same BY <1>2 DEF recordDelivery, cases
<1>3. ASSUME NEW i, refundUndelivered(i) PROVE Same BY <1>3 DEF refundUndelivered, cases
<1>4. ASSUME NEW i, finalize(i) PROVE Same BY <1>4 DEF finalize, cases
<1>5. ASSUME NEW i, NEW g, NEW m, openDispute(i, g, m) PROVE Same BY <1>5 DEF openDispute
<1>6. ASSUME NEW i, NEW n, rate(i, n) PROVE Same BY <1>6 DEF rate, cases
<1>7. ASSUME NEW a, withdraw(a) PROVE Same BY <1>7 DEF withdraw, cases
<1> QED BY <1>1, <1>2, <1>3, <1>4, <1>5, <1>6, <1>7 DEF Purchasing

\* Judging touches neither catalog nor parameters, and makes no purchase or dispute.
LEMMA JudgingFrame ==
  Judging => UNCHANGED <<chain, admin, catalog, previews, nextPurchaseId, nextDisputeId>>
<1> DEFINE Same == UNCHANGED <<chain, admin, catalog, previews, nextPurchaseId, nextDisputeId>>
<1>0. ASSUME NEW d, NEW out, NEW extra, resolve(d, out, extra) PROVE Same
  BY <1>0, ResolveFrame
<1>1. ASSUME NEW d, NEW u, NEW m, NEW s, resolveMechanical(d, u, m, s) PROVE Same
  BY <1>0, <1>1 DEF resolveMechanical
<1>2. ASSUME NEW d, timeoutMechanical(d) PROVE Same BY <1>0, <1>2 DEF timeoutMechanical
<1>3. ASSUME NEW d, rearmSelection(d) PROVE Same BY <1>3 DEF rearmSelection
<1>4. ASSUME NEW d, NEW c, seatPanel(d, c) PROVE Same BY <1>4 DEF seatPanel
<1>5. ASSUME NEW d, panelUnfillable(d) PROVE Same BY <1>0, <1>5 DEF panelUnfillable
<1>6. ASSUME NEW d, NEW a, NEW v, commitVote(d, a, v) \/ revealVote(d, a) PROVE Same
  BY <1>6 DEF commitVote, revealVote
<1>7. ASSUME NEW d, tallyDecided(d) PROVE Same BY <1>0, <1>7 DEF tallyDecided
<1>8. ASSUME NEW d, tallyFailed(d) PROVE Same BY <1>0, <1>8 DEF tallyFailed
<1>9. ASSUME NEW a, NEW n, depositJurorStake(a, n) \/ withdrawJurorStake(a, n) PROVE Same
  BY <1>9 DEF depositJurorStake, withdrawJurorStake, cases
<1> QED
  BY <1>1, <1>2, <1>3, <1>4, <1>5, <1>6, <1>7, <1>8, <1>9 DEF Judging, Deciding, selectJurors, tallyDispute

---------------------------------------------------------------------------
(* The clock, the parameters and the roles *)

\* setParams checks what it is given; everything else leaves parameters alone.
LEMMA AdminPreserved == ASSUME TypeAdmin, [Next]_vars PROVE TypeAdmin'
<1> USE ConstantsOK DEF TypeAdmin, chain, admin
<1>1. ASSUME UNCHANGED <<chain, admin>> PROVE TypeAdmin'
  BY <1>1 DEF ValidParams
<1>2. ASSUME NewBlock PROVE TypeAdmin'
  BY <1>2 DEF NewBlock, ValidParams
<1>3. ASSUME NEW q \in ParamChoices, setParams(q) PROVE TypeAdmin'
  BY <1>3 DEF setParams, ValidParams
<1>4. ASSUME NEW r \in Accounts, NEW f \in Nat, NEW t \in Nat, setPreviewConfig(r, f, t)
      PROVE  TypeAdmin'
  BY <1>4 DEF setPreviewConfig, ValidParams
<1>5. ASSUME NEW s \in RoleChanges, NEW b \in BOOLEAN,
             setRunner(s, b) \/ setRelay(s, b) \/ setVerifier(s, b)
      PROVE  TypeAdmin'
  BY <1>5 DEF setRunner, setRelay, setVerifier, Allow, ValidParams
<1>6. ASSUME NEW a, NEW b, approveJuror(a, b) PROVE TypeAdmin'
  BY <1>6, <1>1 DEF approveJuror
<1>7. ASSUME NEW n, withdrawTreasury(n) \/ withdrawReserve(n) PROVE TypeAdmin'
  BY <1>7, <1>1 DEF withdrawTreasury, withdrawReserve
<1>8. ASSUME Admin PROVE TypeAdmin'
  BY <1>3, <1>4, <1>5, <1>6, <1>7, <1>8
  DEF Admin, setPreviewFeeRecipient, setMinPreviewFee, setPreviewTimeout
<1> QED
  BY <1>1, <1>2, <1>8, SellingFrame, PurchasingFrame, JudgingFrame DEF Next, vars

---------------------------------------------------------------------------
(* Listings, versions and previews *)

\* The constants a version or a preview is made from.
LEMMA CatalogConstants ==
  /\ Sellers \subseteq Accounts /\ NoAccount \notin Accounts
  /\ TermChoices \subseteq Terms /\ ActiveChoices \subseteq BOOLEAN /\ PreviewFees \subseteq Nat
  /\ MaxVersions \in Nat
BY ConstantsOK DEF ConstantsOK

\* A window given as 0 is replaced by a parameter, so the terms stay terms.
LEMMA EffectiveTermsTyped ==
  ASSUME NEW t \in TermChoices, TypeAdmin PROVE effectiveTerms(t) \in Terms
<1>1. t \in Terms BY CatalogConstants
<1>2. params.challengeWindow \in Nat /\ params.deliveryWindow \in Nat
  BY DEF TypeAdmin, ValidParams, Params
<1> QED BY <1>1, <1>2 DEF effectiveTerms, Terms

\* A new version takes the next id and passed validTerms.
LEMMA AddVersionTyped ==
  ASSUME CatalogInv, TypeAdmin, NEW a \in Sellers, NEW t \in TermChoices, NEW l \in Nat,
         addVersion(a, l, t), nextListingId' \in {nextListingId, nextListingId + 1},
         listingSeller' \in [VersionId -> Accounts \cup {NoAccount}]
  PROVE  CatalogInv'
<1> DEFINE new == [seller |-> a, listing |-> l, terms |-> effectiveTerms(t),
                   report |-> FALSE, active |-> TRUE]
<1>1. new \in Version BY EffectiveTermsTyped, CatalogConstants DEF Version
<1>2. new.terms.taskCount \in 1..256 BY DEF addVersion, validTerms
<1> HIDE DEF new
<1>3. /\ versions' = [versions EXCEPT ![nextVersionId] = new]
      /\ nextVersionId' = nextVersionId + 1
      /\ nextVersionId \in VersionId /\ previews' = previews
  BY DEF addVersion, new
<1>4. /\ nextVersionId' \in 1..MaxVersions + 1 /\ nextListingId' \in 1..MaxVersions + 1
      /\ nextListingId' <= nextVersionId'
  BY <1>3, CatalogConstants DEF CatalogInv, TypeCatalog, VersionsValid, VersionId
<1>5. versions' \in [VersionId -> Version] BY <1>1, <1>3 DEF CatalogInv, TypeCatalog
<1>6. \A v \in VersionId :
        versions'[v].seller # NoAccount => versions'[v].terms.taskCount \in 1..256
  BY <1>2, <1>3 DEF CatalogInv, TypeCatalog, VersionsValid
<1> QED BY <1>3, <1>4, <1>5, <1>6 DEF CatalogInv, TypeCatalog, VersionsValid

\* A version is only ever added through addVersion, which checks its terms.
LEMMA CatalogPreserved == ASSUME CatalogInv, TypeAdmin, [Next]_vars PROVE CatalogInv'
<1>1. ASSUME UNCHANGED <<catalog, previews>> PROVE CatalogInv'
  BY <1>1 DEF catalog, CatalogInv, TypeCatalog, VersionsValid
<1>2. ASSUME UNCHANGED <<listingSeller, nextListingId, nextVersionId>>,
             NEW v \in VersionId, NEW b \in BOOLEAN,
             versions' \in { [versions EXCEPT ![v].active = b], [versions EXCEPT ![v].report = b] },
             previews' \in [VersionId -> Preview]
      PROVE CatalogInv'
  <2>1. versions' \in [VersionId -> Version]
    BY <1>2 DEF CatalogInv, TypeCatalog, Version
  <2>2. \A w \in VersionId : /\ versions'[w].seller = versions[w].seller
                             /\ versions'[w].terms = versions[w].terms
    BY <1>2 DEF CatalogInv, TypeCatalog, Version
  <2> QED BY <1>2, <2>1, <2>2 DEF CatalogInv, TypeCatalog, VersionsValid
<1>3. ASSUME NEW v \in VersionId, NEW b \in ActiveChoices, setVersionActive(v, b) PROVE CatalogInv'
  <2>1. b \in BOOLEAN BY CatalogConstants
  <2>2. previews' \in [VersionId -> Preview] BY <1>3 DEF setVersionActive, CatalogInv, TypeCatalog
  <2> QED BY <1>3, <1>2, <2>1, <2>2 DEF setVersionActive
<1>4. ASSUME UNCHANGED catalog, previews' \in [VersionId -> Preview] PROVE CatalogInv'
  BY <1>4 DEF catalog, CatalogInv, TypeCatalog, VersionsValid
<1>5. ASSUME NEW v \in VersionId, NEW f \in PreviewFees, requestPreview(v, f) PROVE CatalogInv'
  <2>1. f \in Nat /\ timestamp \in Nat /\ previewConfig.timeout \in Nat
    BY CatalogConstants DEF TypeAdmin
  <2>2. previews' \in [VersionId -> Preview]
    BY <1>5, <2>1 DEF requestPreview, Preview, CatalogInv, TypeCatalog
  <2> QED BY <1>4, <1>5, <2>2 DEF requestPreview
<1>6. ASSUME NEW v \in VersionId, reclaimPreviewFee(v) PROVE CatalogInv'
  <2>1. previews' \in [VersionId -> Preview]
    BY <1>6 DEF reclaimPreviewFee, Preview, CatalogInv, TypeCatalog
  <2> QED BY <1>4, <1>6, <2>1 DEF reclaimPreviewFee
<1>7. ASSUME NEW v \in VersionId, NEW s \in Signers, attachReport(v, s) PROVE CatalogInv'
  <2>1. previews' \in [VersionId -> Preview]
    BY <1>7 DEF attachReport, Preview, CatalogInv, TypeCatalog
  <2> QED BY <1>2, <1>7, <2>1 DEF attachReport
<1>8. ASSUME NEW a \in Sellers, NEW t \in TermChoices, createListing(a, t) PROVE CatalogInv'
  <2>1. nextListingId \in Nat BY CatalogConstants DEF CatalogInv, TypeCatalog
  <2>2. listingSeller' \in [VersionId -> Accounts \cup {NoAccount}]
    BY <1>8, CatalogConstants DEF createListing, CatalogInv, TypeCatalog
  <2> QED BY <1>8, <2>1, <2>2, AddVersionTyped DEF createListing
<1>9. ASSUME NEW a \in Sellers, NEW t \in TermChoices, NEW l \in VersionId, newVersion(a, l, t)
      PROVE  CatalogInv'
  <2>1. l \in Nat BY CatalogConstants DEF VersionId
  <2>2. listingSeller' \in [VersionId -> Accounts \cup {NoAccount}]
    BY <1>9 DEF newVersion, CatalogInv, TypeCatalog
  <2> QED BY <1>9, <2>1, <2>2, AddVersionTyped DEF newVersion
<1>10. ASSUME NEW a, NEW n, depositCollateral(a, n) \/ withdrawCollateral(a, n) PROVE CatalogInv'
  <2>1. UNCHANGED <<catalog, previews>>
    BY <1>10 DEF depositCollateral, withdrawCollateral
  <2> QED BY <2>1, <1>1
<1>11. ASSUME Selling PROVE CatalogInv'
  BY <1>3, <1>5, <1>6, <1>7, <1>8, <1>9, <1>10, <1>11 DEF Selling
<1>12. ASSUME NewBlock \/ Admin \/ Purchasing \/ Judging \/ UNCHANGED vars PROVE CatalogInv'
  <2>1. UNCHANGED <<catalog, previews>>
    BY <1>12, BlockFrame, AdminFrame, PurchasingFrame, JudgingFrame DEF vars
  <2> QED BY <2>1, <1>1
<1> QED BY <1>11, <1>12 DEF Next

---------------------------------------------------------------------------
(* The amounts of a settlement are numbers. *)

\* What _resolve is given: outcome and its caller's part.
Outcome == [verdict: Verdict, fallback: BOOLEAN, mask: SUBSET Nat, remedied: SUBSET Nat,
            refund: Int, caseFee: Int, penalty: Int, fromSeller: Int, toBuyer: Int,
            toReserve: Int]
Extra == [treasury: Int, reserve: Int, jurorStake: Int, claimable: Int, pay: [Accounts -> Int]]

\* Basis points of a number are a number.
LEMMA PerBpsInt == ASSUME NEW x \in Int, NEW b \in Nat PROVE PerBps(x, b) \in Int
BY DEF PerBps, BPS

\* The lesser of two numbers is one of them.
LEMMA LeastInt == ASSUME NEW a \in Int, NEW b \in Int PROVE Least(a, b) \in Int
BY DEF Least

\* A set of tasks is finite: its popcount is a number, at most the task count.
LEMMA MaskFinite ==
  ASSUME NEW n \in Nat, NEW mask \in SUBSET (1..n)
  PROVE  IsFiniteSet(mask) /\ Cardinality(mask) \in 0..n
<1>1. IsFiniteSet(1..n) /\ Cardinality(1..n) = n BY FS_Interval
<1>2. IsFiniteSet(mask) /\ Cardinality(mask) <= n BY <1>1, FS_Subset
<1>3. Cardinality(mask) \in Nat BY <1>2, FS_CardinalityType
<1> QED BY <1>2, <1>3

\* The fields of valid parameters that amounts depend on.
LEMMA ParamsNat ==
  ASSUME NEW q, ValidParams(q)
  PROVE  /\ q.caseFee \in Nat /\ q.jurorStake \in Nat /\ q.participationFee \in Nat
         /\ q.bondFloor \in Nat /\ q.bondCap \in Nat
         /\ q.refundCapBps \in Nat /\ q.penaltyBps \in Nat /\ q.feeBps \in Nat
         /\ q.minoritySlashBps \in Nat /\ q.nonRevealSlashBps \in Nat
         /\ q.penaltyThresholdBps \in Nat
         /\ q.commitWindow \in Nat /\ q.revealWindow \in Nat /\ q.verifierTimeout \in Nat
<1>1. q \in Params BY DEF ValidParams
<1> QED BY <1>1 DEF Params

\* The same for a purchase, its terms and its snapshot of the parameters.
LEMMA PurchaseNat ==
  ASSUME NEW p \in Purchase, WellMade(p), p.state # "None"
  PROVE  /\ p.terms.price \in Nat /\ p.terms.collateral \in Nat
         /\ p.terms.taskCount \in Nat /\ p.terms.taskCount > 0
         /\ p.refunded \in Int /\ p.remediedMask \in SUBSET Nat
         /\ p.buyer \in Accounts /\ p.seller \in Accounts /\ p.version \in VersionId
         /\ p.par.caseFee \in Nat /\ p.par.penaltyBps \in Nat /\ p.par.feeBps \in Nat
         /\ p.par.penaltyThresholdBps \in Nat /\ p.par.refundCapBps \in Nat
         /\ p.par.bondFloor \in Nat /\ p.par.bondCap \in Nat
<1>1. /\ p.terms \in Terms /\ p.refunded \in Int /\ p.remediedMask \in SUBSET Nat
  BY DEF Purchase
<1>2. p.terms.price \in Nat /\ p.terms.collateral \in Nat /\ p.terms.taskCount \in Nat
  BY <1>1 DEF Terms
<1>3. /\ p.terms.taskCount \in 1..256 /\ ValidParams(p.par)
      /\ p.buyer \in Accounts /\ p.seller \in Accounts /\ p.version \in VersionId
  BY DEF WellMade
<1>4. p.terms.taskCount > 0 BY <1>2, <1>3
<1>5. /\ p.par.caseFee \in Nat /\ p.par.penaltyBps \in Nat /\ p.par.feeBps \in Nat
      /\ p.par.penaltyThresholdBps \in Nat /\ p.par.refundCapBps \in Nat
      /\ p.par.bondFloor \in Nat /\ p.par.bondCap \in Nat
  BY <1>3, ParamsNat
<1> QED BY <1>1, <1>2, <1>3, <1>4, <1>5

\* taskValue divides by a task count addVersion has checked.
LEMMA TaskValueInt ==
  ASSUME NEW p \in Purchase, WellMade(p), p.state # "None",
         NEW mask \in SUBSET (1..p.terms.taskCount)
  PROVE  taskValue(p, mask) \in Int
<1>1. p.terms.price \in Nat /\ p.terms.taskCount \in Nat /\ p.terms.taskCount > 0
  BY PurchaseNat
<1>3. Cardinality(mask) \in Nat BY <1>1, MaskFinite
<1>2. p.terms.price \div p.terms.taskCount \in Int BY <1>1
<1> QED BY <1>2, <1>3 DEF taskValue

\* The refund cap is a number.
LEMMA RefundCapInt ==
  ASSUME NEW p \in Purchase, WellMade(p), p.state # "None" PROVE refundCap(p) \in Int
<1>1. p.terms.price \in Int /\ p.par.refundCapBps \in Nat
  BY PurchaseNat
<1> QED BY <1>1, PerBpsInt DEF refundCap

\* openDispute's bond and request are numbers.
LEMMA BondInt ==
  ASSUME NEW p \in Purchase, WellMade(p), p.state # "None",
         NEW mask \in SUBSET (1..p.terms.taskCount)
  PROVE  requestedRefund(p, mask) \in Int /\ bondFor(p, mask) \in Int
<1>1. requestedRefund(p, mask) \in Int
  BY TaskValueInt, RefundCapInt, LeastInt DEF requestedRefund
<1>2. p.par.bondFloor \in Int /\ p.par.bondCap \in Int BY PurchaseNat
<1>3. Least(requestedRefund(p, mask), p.par.bondCap) \in Int BY <1>1, <1>2, LeastInt
<1> QED BY <1>1, <1>2, <1>3 DEF bondFor

\* What an upheld, a rejected and a fallback outcome decide.
LEMMA UpholdTyped ==
  ASSUME NEW p \in Purchase, WellMade(p), p.state # "None", NEW dd \in Dispute,
         NEW mask \in SUBSET (1..p.terms.taskCount)
  PROVE  upholdOutcome(p, dd, mask) \in Outcome
<1>1. /\ p.terms.price \in Int /\ p.terms.collateral \in Int /\ p.terms.taskCount \in Nat
      /\ p.refunded \in Int /\ p.par.caseFee \in Int /\ p.par.penaltyBps \in Nat
      /\ p.par.penaltyThresholdBps \in Nat
  BY PurchaseNat
<1>0. dd.bond \in Int BY DEF Dispute
<1>2. mask \ p.remediedMask \in SUBSET (1..p.terms.taskCount) OBVIOUS
<1>3. taskValue(p, mask \ p.remediedMask) \in Int BY <1>2, TaskValueInt
<1>4. refundCap(p) \in Int BY RefundCapInt
<1>5. (IF refundCap(p) > p.refunded THEN refundCap(p) - p.refunded ELSE 0) \in Int BY <1>1, <1>4
<1>6. upheldRefund(p, mask) \in Int BY <1>3, <1>5, LeastInt DEF upheldRefund
<1>7. upheldCaseFee(p) \in Int BY <1>1, LeastInt DEF upheldCaseFee
<1>8. PerBps(p.terms.price, p.par.penaltyBps) \in Int BY <1>1, PerBpsInt
<1>13. p.terms.collateral - upheldCaseFee(p) \in Int BY <1>1, <1>7
<1>9. Least(PerBps(p.terms.price, p.par.penaltyBps), p.terms.collateral - upheldCaseFee(p)) \in Int
  BY <1>13, <1>8, LeastInt
<1>10. upheldPenalty(p, mask) \in Int BY <1>9 DEF upheldPenalty
<1>11. mask \in SUBSET Nat /\ mask \ p.remediedMask \in SUBSET Nat
  BY 1..p.terms.taskCount \subseteq Nat
<1>12. upheldRefund(p, mask) + dd.bond \in Int /\ upheldCaseFee(p) + upheldPenalty(p, mask) \in Int
  BY <1>0, <1>6, <1>7, <1>10
<1> QED BY <1>6, <1>7, <1>10, <1>11, <1>12 DEF upholdOutcome, Outcome, Verdict

\* A rejected dispute and a fallback move the bond.
LEMMA RejectTyped ==
  ASSUME NEW dd \in Dispute
  PROVE  rejectOutcome(dd) \in Outcome /\ fallbackOutcome(dd) \in Outcome
<1>1. dd.bond \in Int /\ dd.caseFee \in Int BY DEF Dispute
<1>2. Least(dd.caseFee, dd.bond) \in Int BY <1>1, LeastInt
<1>3. dd.bond - Least(dd.caseFee, dd.bond) \in Int BY <1>1, <1>2
<1> QED BY <1>1, <1>2, <1>3 DEF rejectOutcome, fallbackOutcome, Outcome, Verdict

\* What is added to an outcome without a panel.
LEMMA NoExtraTyped == NoExtra \in Extra /\ \A n \in Int : [NoExtra EXCEPT !.treasury = n] \in Extra
BY DEF NoExtra, NoPay, Extra

\* The split of the price is in numbers.
LEMMA CloseInt ==
  ASSUME NEW p \in Purchase, WellMade(p), p.state # "None", NEW refund \in Int
  PROVE  closeFee(p, refund) \in Int /\ closeProceeds(p, refund) \in Int
<1>1. p.terms.price \in Int /\ p.par.feeBps \in Nat BY PurchaseNat
<1>3. p.terms.price - refund \in Int BY <1>1
<1>2. closeFee(p, refund) \in Int BY <1>1, <1>3, PerBpsInt DEF closeFee
<1> QED BY <1>2, <1>3 DEF closeProceeds

---------------------------------------------------------------------------
(* _closePurchase and _resolve *)

\* Closing keeps a purchase a purchase.
LEMMA ClosedTyped ==
  ASSUME NEW p \in Purchase, WellMade(p), p.state # "None", NEW refund \in Int
  PROVE  /\ closed(p, refund) \in Purchase /\ WellMade(closed(p, refund))
         /\ closed(p, refund).state = "Settled" /\ closed(p, refund).terms = p.terms
<1>1. closeFee(p, refund) \in Int /\ closeProceeds(p, refund) \in Int BY CloseInt
<1>2. p.refunded + refund \in Int BY PurchaseNat
<1>3. closed(p, refund) \in Purchase BY <1>1, <1>2 DEF closed, Purchase, PurchaseState
<1>4. /\ closed(p, refund).state = "Settled" /\ closed(p, refund).terms = p.terms
      /\ closed(p, refund).version = p.version /\ closed(p, refund).buyer = p.buyer
      /\ closed(p, refund).seller = p.seller /\ closed(p, refund).par = p.par
  BY DEF closed, Purchase
<1> QED BY <1>3, <1>4 DEF WellMade

\* Statistics stay statistics.
LEMMA StatsTyped ==
  ASSUME NEW p \in Purchase, WellMade(p), p.state # "None", NEW refund \in Int,
         NEW upheld \in BOOLEAN
  PROVE  /\ \A vs \in VersionStats : closedVersionStats(vs, p, refund, upheld) \in VersionStats
         /\ \A ss \in SellerStats : closedSellerStats(ss, p, refund, upheld) \in SellerStats
<1>1. p.terms.price \in Int BY PurchaseNat
<1>2. p.terms.price - refund \in Int BY <1>1
<1>3. ASSUME NEW vs \in VersionStats PROVE closedVersionStats(vs, p, refund, upheld) \in VersionStats
  <2>1. /\ vs.settledCount + 1 \in Nat
        /\ vs.retainedVolume + (p.terms.price - refund) \in Int
        /\ (IF upheld THEN vs.disputesUpheld + 1 ELSE vs.disputesUpheld) \in Nat
    BY <1>2 DEF VersionStats
  <2> QED BY <2>1 DEF closedVersionStats, VersionStats
<1>4. ASSUME NEW ss \in SellerStats PROVE closedSellerStats(ss, p, refund, upheld) \in SellerStats
  <2>1. /\ (IF p.terms.price - refund > 0 THEN ss.qualifyingTx + 1 ELSE ss.qualifyingTx) \in Nat
        /\ ss.retainedVolume + (p.terms.price - refund) \in Int
        /\ (IF upheld THEN ss.disputesUpheld + 1 ELSE ss.disputesUpheld) \in Nat
    BY <1>2 DEF SellerStats
  <2> QED BY <2>1 DEF closedSellerStats, SellerStats
<1> QED BY <1>3, <1>4

\* Crediting keeps claimable balances numbers.
LEMMA CreditTyped ==
  ASSUME NEW c \in [Accounts -> Int], NEW a \in Accounts, NEW n \in Int
  PROVE  credit(c, a, n) \in [Accounts -> Int]
BY DEF credit

\* The purchase of a dispute.
LEMMA DisputedPurchase ==
  ASSUME Linked, NEW d \in DisputeId, disputes[d].status # "None"
  PROVE  /\ disputes[d] \in Dispute /\ disputes[d].purchase \in PurchaseId
         /\ purchases[disputes[d].purchase] \in Purchase
         /\ WellMade(purchases[disputes[d].purchase])
         /\ purchases[disputes[d].purchase].state # "None"
         /\ disputes[d].taskMask \in SUBSET (1..purchases[disputes[d].purchase].terms.taskCount)
         /\ ValidParams(disputes[d].par)
BY DEF Linked, DisputeInv, TypeDisputes, WellOpened, PurchaseInv, TypePurchases

\* A dispute keeps pointing at its purchase when that purchase moves on.
LEMMA PurchaseMoves ==
  ASSUME PurchaseInv, DisputeInv, NEW i \in PurchaseId, NEW q \in Purchase, WellMade(q),
         q.state # "None", purchases[i].state = "None" \/ q.terms = purchases[i].terms,
         purchases' = [purchases EXCEPT ![i] = q]
  PROVE  /\ purchases' \in [PurchaseId -> Purchase]
         /\ \A j \in PurchaseId : WellMade(purchases'[j])
         /\ \A dd \in Dispute : WellOpened(dd, purchases) => WellOpened(dd, purchases')
<1>1. purchases \in [PurchaseId -> Purchase] BY DEF PurchaseInv, TypePurchases
<1>2. purchases' \in [PurchaseId -> Purchase] BY <1>1
<1>3. \A j \in PurchaseId : WellMade(purchases'[j])
  BY <1>1 DEF PurchaseInv
<1>4. ASSUME NEW dd \in Dispute, WellOpened(dd, purchases)
      PROVE  WellOpened(dd, purchases')
  BY <1>1, <1>4 DEF WellOpened, PurchaseId
<1> QED BY <1>2, <1>3, <1>4

\* A step that moves one purchase that was made before.
LEMMA OnePurchaseMoves ==
  ASSUME Linked, NEW i \in PurchaseId, NEW q \in Purchase, WellMade(q), q.state # "None",
         purchases[i].state # "None" /\ q.terms = purchases[i].terms,
         purchases' = [purchases EXCEPT ![i] = q], nextPurchaseId' = nextPurchaseId
  PROVE  /\ PurchaseInv'
         /\ \A dd \in Dispute : WellOpened(dd, purchases) => WellOpened(dd, purchases')
         /\ UNCHANGED <<disputes, nextDisputeId>> => DisputeInv'
<1>1. /\ purchases' \in [PurchaseId -> Purchase]
      /\ \A j \in PurchaseId : WellMade(purchases'[j])
      /\ \A dd \in Dispute : WellOpened(dd, purchases) => WellOpened(dd, purchases')
  BY PurchaseMoves DEF Linked
<1>2. NoPurchase.state = "None" BY DEF NoPurchase
<1>3. PurchaseInv'
  BY <1>1, <1>2 DEF PurchaseInv, TypePurchases, Linked
<1>4. UNCHANGED <<disputes, nextDisputeId>> => DisputeInv'
  BY <1>1 DEF Linked, DisputeInv, TypeDisputes
<1> QED BY <1>1, <1>3, <1>4

\* A purchase in a state other than None is one that buy made.
LEMMA OpenPurchase ==
  ASSUME Linked, NEW i \in PurchaseId, purchases[i].state # "None"
  PROVE  /\ purchases[i] \in Purchase /\ WellMade(purchases[i])
         /\ nextPurchaseId \in 1..MaxPurchases + 1
BY DEF Linked, PurchaseInv, TypePurchases

\* Settling a dispute keeps purchases, disputes, balances and records typed.
LEMMA ResolveTyped ==
  ASSUME Linked, NEW d \in DisputeId, disputes[d].status # "None",
         NEW out \in Outcome, NEW extra \in Extra, resolve(d, out, extra)
  PROVE  /\ PurchaseInv' /\ DisputeInv' /\ TypeRecords'
         /\ stakes' \in [Accounts -> Stake] /\ bucket' \in Buckets
         /\ claimable' \in [Accounts -> Int] /\ balance' = balance
<1> DEFINE i == disputes[d].purchase
           p == purchases[i]
           dd == disputes[d]
           newp == [closed(p, out.refund) EXCEPT !.remediedMask = @ \cup out.remedied,
                                                 !.penalties = out.penalty]
           newd == [dd EXCEPT !.status = "Resolved", !.verdict = out.verdict,
                      !.refund = out.refund, !.fallbackNoQuorum = out.fallback,
                      !.confirmedMask = out.mask]
<1>1. /\ dd \in Dispute /\ i \in PurchaseId /\ p \in Purchase /\ WellMade(p) /\ p.state # "None"
  BY DisputedPurchase
<1>2. /\ out.refund \in Int /\ out.penalty \in Int /\ out.remedied \in SUBSET Nat
      /\ out.verdict \in Verdict /\ out.fallback \in BOOLEAN /\ out.mask \in SUBSET Nat
      /\ out.toBuyer \in Int /\ out.fromSeller \in Int /\ out.toReserve \in Int
  BY DEF Outcome
<1>3. newp \in Purchase /\ WellMade(newp) /\ newp.state = "Settled" /\ newp.terms = p.terms
  <2>1. /\ closed(p, out.refund) \in Purchase /\ WellMade(closed(p, out.refund))
        /\ closed(p, out.refund).state = "Settled" /\ closed(p, out.refund).terms = p.terms
    BY <1>1, <1>2, ClosedTyped
  <2> HIDE DEF p
  <2>2. closed(p, out.refund).remediedMask \cup out.remedied \in SUBSET Nat
    BY <1>2, <2>1 DEF Purchase
  <2> QED BY <1>2, <2>1, <2>2 DEF Purchase, WellMade
<1>4. purchases' = [purchases EXCEPT ![i] = newp] BY DEF resolve
<1>5. newd \in Dispute BY <1>1, <1>2 DEF Dispute, DisputeStatus
<1>6. disputes' = [disputes EXCEPT ![d] = newd] /\ nextDisputeId' = nextDisputeId
      /\ nextPurchaseId' = nextPurchaseId
  BY DEF resolve
<1>7. /\ newd.purchase = dd.purchase /\ newd.taskMask = dd.taskMask /\ newd.par = dd.par
      /\ newd.ground = dd.ground /\ newd.round = dd.round
  BY <1>1 DEF Dispute
<1> HIDE DEF newp, newd
<1>8. PurchaseInv'
  BY <1>1, <1>3, <1>4, <1>6, OnePurchaseMoves
<1>9. DisputeInv'
  <2>1. \A e \in Dispute : WellOpened(e, purchases) => WellOpened(e, purchases')
    BY <1>1, <1>3, <1>4, <1>6, OnePurchaseMoves
  <2>2. /\ disputes \in [DisputeId -> Dispute]
        /\ \A e \in DisputeId : WellOpened(disputes[e], purchases)
    BY DEF Linked, DisputeInv, TypeDisputes
  <2>3. WellOpened(dd, purchases') BY <1>1, <2>1, <2>2
  <2>4. WellOpened(newd, purchases') BY <1>7, <2>3 DEF WellOpened
  <2>5. ASSUME NEW e \in DisputeId PROVE WellOpened(disputes'[e], purchases')
    <3>1. CASE e = d BY <3>1, <1>6, <2>2, <2>4
    <3>2. CASE e # d BY <3>2, <1>6, <2>1, <2>2
    <3> QED BY <3>1, <3>2
  <2>6. disputes' \in [DisputeId -> Dispute] BY <1>5, <1>6, <2>2
  <2> QED BY <1>6, <2>5, <2>6 DEF DisputeInv, TypeDisputes, Linked
<1>10. closeFee(p, out.refund) \in Int /\ closeProceeds(p, out.refund) \in Int
  BY <1>1, <1>2, CloseInt
<1>11. /\ p.terms.price \in Int /\ p.terms.collateral \in Int
       /\ p.seller \in Accounts /\ p.buyer \in Accounts /\ p.version \in VersionId
       /\ dd.bond \in Int
  BY <1>1, PurchaseNat DEF Dispute
<1>12. /\ extra.treasury \in Int /\ extra.reserve \in Int /\ extra.jurorStake \in Int
       /\ extra.claimable \in Int /\ extra.pay \in [Accounts -> Int]
  BY DEF Extra
<1>13. TypeFunds /\ TypeRecords BY DEF Linked
<1> HIDE DEF i, p, dd
<1>14. bucket' \in Buckets
  <2>1. bucket' = [bucket EXCEPT
       !.escrow = @ - p.terms.price,
       !.bonds = @ - dd.bond,
       !.collateral = @ - out.fromSeller,
       !.jurorStake = @ - extra.jurorStake,
       !.treasury = @ + closeFee(p, out.refund) + extra.treasury,
       !.reserve = @ + out.toReserve + extra.reserve,
       !.claimable = @ + closeProceeds(p, out.refund) + out.toBuyer + extra.claimable]
    BY DEF resolve, i, p, dd
  <2>2. bucket \in Buckets BY <1>13 DEF TypeFunds
  <2>3. /\ bucket.escrow - p.terms.price \in Int /\ bucket.bonds - dd.bond \in Int
        /\ bucket.collateral - out.fromSeller \in Int
        /\ bucket.jurorStake - extra.jurorStake \in Int
        /\ bucket.treasury + closeFee(p, out.refund) + extra.treasury \in Int
        /\ bucket.reserve + out.toReserve + extra.reserve \in Int
        /\ bucket.claimable + closeProceeds(p, out.refund) + out.toBuyer + extra.claimable \in Int
    BY <1>2, <1>10, <1>11, <1>12, <2>2 DEF Buckets
  <2> QED BY <2>1, <2>2, <2>3 DEF Buckets
<1>15. claimable' \in [Accounts -> Int]
  <2> DEFINE paid == credit(claimable, p.seller, closeProceeds(p, out.refund))
             made == credit(paid, p.buyer, out.toBuyer)
  <2>1. paid \in [Accounts -> Int] BY <1>10, <1>11, <1>13, CreditTyped DEF TypeFunds
  <2> HIDE DEF paid
  <2>2. made \in [Accounts -> Int] BY <1>2, <1>11, <2>1, CreditTyped
  <2> HIDE DEF made
  <2>3. claimable' = [a \in Accounts |-> made[a] + extra.pay[a]]
    BY DEF resolve, i, p, paid, made
  <2> QED BY <1>12, <2>2, <2>3
<1>16. stakes' \in [Accounts -> Stake]
  <2>1. releaseCollateral(p) \in [Accounts -> Stake]
    BY <1>11, <1>13 DEF releaseCollateral, TypeFunds, Stake
  <2>2. stakes' = [releaseCollateral(p) EXCEPT ![p.seller].total = @ - out.fromSeller]
    BY DEF resolve, i, p
  <2> QED BY <1>2, <1>11, <2>1, <2>2 DEF Stake
<1>17. TypeRecords'
  <2> DEFINE upheld == out.verdict = "Uphold"
  <2>1. /\ versionStats' = [versionStats EXCEPT
             ![p.version] = closedVersionStats(@, p, out.refund, upheld)]
        /\ sellerStats' = [sellerStats EXCEPT
             ![p.seller] = closedSellerStats(@, p, out.refund, upheld)]
    BY DEF resolve, i, p
  <2>2. upheld \in BOOLEAN OBVIOUS
  <2>3. /\ \A vs \in VersionStats : closedVersionStats(vs, p, out.refund, upheld) \in VersionStats
        /\ \A ss \in SellerStats : closedSellerStats(ss, p, out.refund, upheld) \in SellerStats
    BY <1>1, <1>2, <2>2, StatsTyped
  <2> QED BY <1>11, <1>13, <2>1, <2>3 DEF TypeRecords
<1>18. balance' = balance BY ResolveFrame
<1> QED BY <1>8, <1>9, <1>14, <1>15, <1>16, <1>17, <1>18

---------------------------------------------------------------------------
(* Purchasing *)

\* A purchase is made with the terms and parameters of its moment.
LEMMA BuyTyped ==
  ASSUME Linked, NEW a \in Buyers, NEW v \in VersionId, buy(a, v)
  PROVE  PurchaseInv' /\ DisputeInv' /\ TypeFunds'
<1> DEFINE t == versions[v].terms
           s == versions[v].seller
           q == [NoPurchase EXCEPT !.state = "Funded", !.version = v, !.buyer = a, !.seller = s,
                   !.terms = t, !.par = params, !.deliveryDeadline = timestamp + t.deliveryWindow]
<1>1. t \in Terms /\ s \in Accounts /\ a \in Accounts /\ t.taskCount \in 1..256
  <2>1. versions[v] \in Version /\ s # NoAccount
    BY DEF Linked, CatalogInv, TypeCatalog, buy
  <2>2. a \in Accounts BY ConstantsOK DEF ConstantsOK
  <2>3. t.taskCount \in 1..256 BY <2>1 DEF Linked, CatalogInv, VersionsValid
  <2> QED BY <2>1, <2>2, <2>3 DEF Version
<1>2. /\ t.price \in Nat /\ t.collateral \in Nat /\ t.deliveryWindow \in Nat
  BY <1>1 DEF Terms
<1>3. /\ ValidParams(params) /\ params \in Params /\ timestamp \in Nat
  BY DEF Linked, TypeAdmin, ValidParams
<1>4. v \in 0..MaxVersions BY ConstantsOK DEF ConstantsOK, VersionId
<1>5. /\ nextPurchaseId \in PurchaseId /\ nextPurchaseId' = nextPurchaseId + 1
      /\ stakes' = [stakes EXCEPT ![s].reserved = @ + t.collateral]
      /\ purchases' = [purchases EXCEPT ![nextPurchaseId] = q]
      /\ bucket' = [bucket EXCEPT !.escrow = @ + t.price]
      /\ balance' = balance + t.price
      /\ UNCHANGED <<disputes, nextDisputeId, jurors, claimable>>
  BY DEF buy, cases
<1> HIDE DEF t, s
<1>6. timestamp + t.deliveryWindow \in Nat BY <1>2, <1>3
<1>7. NoPurchase \in Purchase
  BY ConstantsOK DEF ConstantsOK, NoPurchase, Purchase, PurchaseState, NoTerms, Terms, NoParams, Params
<1>8. q \in Purchase BY <1>1, <1>3, <1>4, <1>6, <1>7 DEF Purchase, PurchaseState
<1>9. /\ q.state = "Funded" /\ q.version = v /\ q.buyer = a /\ q.seller = s /\ q.terms = t
      /\ q.par = params
  BY <1>7 DEF Purchase
<1> HIDE DEF q
<1>10. WellMade(q) BY <1>1, <1>3, <1>9 DEF WellMade
<1>11. nextPurchaseId' \in 1..MaxPurchases + 1 BY <1>5, ConstantsOK DEF ConstantsOK, PurchaseId
<1>12. /\ purchases \in [PurchaseId -> Purchase] /\ purchases[nextPurchaseId].state = "None"
  BY <1>5 DEF Linked, PurchaseInv, TypePurchases, NoPurchase, PurchaseId
<1>13. /\ purchases' \in [PurchaseId -> Purchase]
       /\ \A j \in PurchaseId : WellMade(purchases'[j])
       /\ \A dd \in Dispute : WellOpened(dd, purchases) => WellOpened(dd, purchases')
  BY <1>5, <1>8, <1>9, <1>10, <1>12, PurchaseMoves DEF Linked
<1>14. \A j \in PurchaseId : j >= nextPurchaseId' => purchases'[j] = NoPurchase
  BY <1>5, <1>12 DEF Linked, PurchaseInv, PurchaseId
<1>15. PurchaseInv' BY <1>11, <1>13, <1>14 DEF PurchaseInv, TypePurchases
<1>16. DisputeInv' BY <1>5, <1>13 DEF Linked, DisputeInv, TypeDisputes
<1>17. TypeFunds'
  BY <1>1, <1>2, <1>5 DEF Linked, TypeFunds, Buckets, Stake
<1> QED BY <1>15, <1>16, <1>17

\* A receipt opens the challenge window.
LEMMA DeliveryTyped ==
  ASSUME Linked, NEW i \in PurchaseId, NEW g, recordDelivery(i, g)
  PROVE  PurchaseInv' /\ DisputeInv'
<1> DEFINE p == purchases[i]
           q == [p EXCEPT !.state = "Delivered", !.deliveredAt = timestamp,
                          !.challengeDeadline = timestamp + p.terms.challengeWindow]
<1>1. p \in Purchase /\ WellMade(p) /\ p.state # "None" BY OpenPurchase DEF recordDelivery
<1>2. timestamp \in Nat /\ p.terms.challengeWindow \in Nat
  BY <1>1 DEF Linked, TypeAdmin, Purchase, Terms
<1>3. /\ purchases' = [purchases EXCEPT ![i] = q]
      /\ UNCHANGED <<nextPurchaseId, disputes, nextDisputeId>>
  BY DEF recordDelivery, cases
<1>4. timestamp + p.terms.challengeWindow \in Nat BY <1>2
<1> HIDE DEF p
<1>5. q \in Purchase /\ q.state = "Delivered" /\ q.terms = p.terms /\ WellMade(q)
  BY <1>1, <1>2, <1>4 DEF Purchase, PurchaseState, WellMade
<1> QED BY <1>1, <1>3, <1>5, OnePurchaseMoves DEF p

\* releaseCollateral keeps stakes typed.
LEMMA ReleaseTyped ==
  ASSUME Linked, NEW p \in Purchase, WellMade(p), p.state # "None"
  PROVE  releaseCollateral(p) \in [Accounts -> Stake]
<1>1. p.seller \in Accounts /\ p.terms.collateral \in Int BY PurchaseNat
<1> QED BY <1>1 DEF Linked, TypeFunds, Stake, releaseCollateral

\* An undelivered purchase is refunded.
LEMMA RefundTyped ==
  ASSUME Linked, NEW i \in PurchaseId, refundUndelivered(i)
  PROVE  PurchaseInv' /\ DisputeInv' /\ TypeFunds' /\ TypeRecords'
<1> DEFINE p == purchases[i]
           q == [p EXCEPT !.state = "Refunded", !.refunded = p.terms.price]
<1>1. p \in Purchase /\ WellMade(p) /\ p.state # "None" BY OpenPurchase DEF refundUndelivered
<1>2. p.terms.price \in Int /\ p.seller \in Accounts /\ p.buyer \in Accounts BY <1>1, PurchaseNat
<1>3. /\ purchases' = [purchases EXCEPT ![i] = q]
      /\ stakes' = releaseCollateral(p)
      /\ bucket' = [bucket EXCEPT !.escrow = @ - p.terms.price, !.claimable = @ + p.terms.price]
      /\ sellerStats' = [sellerStats EXCEPT ![p.seller].fullRefunds = @ + 1]
      /\ claimable' = credit(claimable, p.buyer, p.terms.price)
      /\ UNCHANGED <<nextPurchaseId, disputes, nextDisputeId, balance, jurors, versionStats>>
  BY DEF refundUndelivered, cases
<1> HIDE DEF p
<1>4. q \in Purchase /\ q.state = "Refunded" /\ q.terms = p.terms /\ WellMade(q)
  BY <1>1, <1>2 DEF Purchase, PurchaseState, WellMade
<1>5. PurchaseInv' /\ DisputeInv' BY <1>1, <1>3, <1>4, OnePurchaseMoves DEF p
<1>6. TypeFunds'
  <2>1. TypeFunds BY DEF Linked
  <2>5. bucket \in Buckets BY <2>1 DEF TypeFunds
  <2>6. bucket.escrow - p.terms.price \in Int /\ bucket.claimable + p.terms.price \in Int
    BY <1>2, <2>5 DEF Buckets
  <2>2. bucket' \in Buckets BY <1>3, <2>5, <2>6 DEF Buckets
  <2>3. claimable' \in [Accounts -> Int] BY <1>2, <1>3, <2>1, CreditTyped DEF TypeFunds
  <2>4. stakes' \in [Accounts -> Stake] BY <1>1, <1>3, ReleaseTyped
  <2> QED BY <1>3, <2>1, <2>2, <2>3, <2>4 DEF TypeFunds
<1>7. TypeRecords' BY <1>2, <1>3 DEF Linked, TypeRecords, SellerStats
<1> QED BY <1>5, <1>6, <1>7

\* An uncontested purchase pays the seller.
LEMMA FinalizeTyped ==
  ASSUME Linked, NEW i \in PurchaseId, finalize(i)
  PROVE  PurchaseInv' /\ DisputeInv' /\ TypeFunds' /\ TypeRecords'
<1> DEFINE p == purchases[i]
<1>1. p \in Purchase /\ WellMade(p) /\ p.state # "None" BY OpenPurchase DEF finalize
<1>2. /\ p.terms.price \in Int /\ p.seller \in Accounts /\ p.version \in VersionId
      /\ closeFee(p, 0) \in Int /\ closeProceeds(p, 0) \in Int
  BY <1>1, PurchaseNat, CloseInt
<1>3. /\ purchases' = [purchases EXCEPT ![i] = closed(p, 0)]
      /\ stakes' = releaseCollateral(p)
      /\ bucket' = [bucket EXCEPT !.escrow = @ - p.terms.price,
                                  !.treasury = @ + closeFee(p, 0),
                                  !.claimable = @ + closeProceeds(p, 0)]
      /\ claimable' = credit(claimable, p.seller, closeProceeds(p, 0))
      /\ versionStats' = [versionStats EXCEPT ![p.version] = closedVersionStats(@, p, 0, FALSE)]
      /\ sellerStats' = [sellerStats EXCEPT ![p.seller] = closedSellerStats(@, p, 0, FALSE)]
      /\ UNCHANGED <<nextPurchaseId, disputes, nextDisputeId, balance, jurors>>
  BY DEF finalize, cases
<1> HIDE DEF p
<1>4. /\ closed(p, 0) \in Purchase /\ WellMade(closed(p, 0))
      /\ closed(p, 0).state = "Settled" /\ closed(p, 0).terms = p.terms
  BY <1>1, ClosedTyped
<1>5. PurchaseInv' /\ DisputeInv' BY <1>1, <1>3, <1>4, OnePurchaseMoves DEF p
<1>6. TypeFunds'
  <2>1. TypeFunds BY DEF Linked
  <2>5. bucket \in Buckets BY <2>1 DEF TypeFunds
  <2>6. /\ bucket.escrow - p.terms.price \in Int /\ bucket.treasury + closeFee(p, 0) \in Int
        /\ bucket.claimable + closeProceeds(p, 0) \in Int
    BY <1>2, <2>5 DEF Buckets
  <2>2. bucket' \in Buckets BY <1>3, <2>5, <2>6 DEF Buckets
  <2>3. claimable' \in [Accounts -> Int] BY <1>2, <1>3, <2>1, CreditTyped DEF TypeFunds
  <2>4. stakes' \in [Accounts -> Stake] BY <1>1, <1>3, ReleaseTyped
  <2> QED BY <1>3, <2>1, <2>2, <2>3, <2>4 DEF TypeFunds
<1>7. TypeRecords'
  <2>1. /\ \A vs \in VersionStats : closedVersionStats(vs, p, 0, FALSE) \in VersionStats
        /\ \A ss \in SellerStats : closedSellerStats(ss, p, 0, FALSE) \in SellerStats
    BY <1>1, 0 \in Int, FALSE \in BOOLEAN, StatsTyped
  <2> QED BY <1>2, <1>3, <2>1 DEF Linked, TypeRecords
<1> QED BY <1>5, <1>6, <1>7

\* A dispute is recorded with the purchase it is about and a bond that is a number.
LEMMA OpenDisputeTyped ==
  ASSUME Linked, NEW i \in PurchaseId, NEW g \in Grounds,
         NEW m \in SUBSET (1..purchases[i].terms.taskCount), openDispute(i, g, m)
  PROVE  PurchaseInv' /\ DisputeInv' /\ TypeFunds' /\ TypeRecords'
<1> DEFINE p == purchases[i]
           q == [p EXCEPT !.state = "Disputed", !.dispute = nextDisputeId]
           e == newDispute(i, g, m)
<1>1. p \in Purchase /\ WellMade(p) /\ p.state # "None" BY OpenPurchase DEF openDispute
<1>2. /\ p.seller \in Accounts /\ p.version \in VersionId /\ p.par.caseFee \in Nat
      /\ requestedRefund(p, m) \in Int /\ bondFor(p, m) \in Int
      /\ p.terms.taskCount \in Nat /\ i \in 0..MaxPurchases
  BY <1>1, PurchaseNat, BondInt, ConstantsOK DEF ConstantsOK, PurchaseId
<1>3. /\ disputes' = [disputes EXCEPT ![nextDisputeId] = e]
      /\ purchases' = [purchases EXCEPT ![i] = q]
      /\ nextDisputeId \in DisputeId /\ nextDisputeId' = nextDisputeId + 1
      /\ bucket' = [bucket EXCEPT !.bonds = @ + bondFor(p, m)]
      /\ balance' = balance + bondFor(p, m)
      /\ versionStats' = [versionStats EXCEPT ![p.version].disputesOpened = @ + 1]
      /\ sellerStats' = [sellerStats EXCEPT ![p.seller].disputesOpened = @ + 1]
      /\ UNCHANGED <<nextPurchaseId, stakes, jurors, claimable>>
  BY DEF openDispute
<1>4. g \in Ground /\ g # "None" BY ConstantsOK DEF ConstantsOK, openDispute
<1>5. nextDisputeId \in 0..MaxPurchases /\ nextDisputeId' \in 1..MaxPurchases + 1
  BY <1>3, ConstantsOK DEF ConstantsOK, DisputeId
<1>6. q \in Purchase /\ q.state = "Disputed" /\ q.terms = p.terms /\ WellMade(q)
  <2> HIDE DEF p
  <2> QED BY <1>1, <1>5 DEF Purchase, PurchaseState, WellMade
<1>7. e \in Dispute /\ WellOpened(e, purchases)
  <2> DEFINE base == [NoDispute EXCEPT !.purchase = i, !.ground = g, !.taskMask = m,
                        !.requested = requestedRefund(p, m), !.bond = bondFor(p, m),
                        !.caseFee = p.par.caseFee, !.par = params]
             voting == [base EXCEPT !.status = "Voting",
                          !.verifierDeadline = timestamp + params.verifierTimeout]
             first == [base EXCEPT !.status = "AwaitingSelection", !.round = 1]
             armed == armSelection(first)
  <2>1. /\ ValidParams(params) /\ params \in Params /\ timestamp \in Nat /\ blockNumber \in Nat
        /\ params.commitWindow \in Nat /\ params.revealWindow \in Nat
        /\ params.verifierTimeout \in Nat
    BY ParamsNat DEF Linked, TypeAdmin, ValidParams
  <2>2. NoDispute \in Dispute
    BY ConstantsOK DEF ConstantsOK, NoDispute, Dispute, Ground, DisputeStatus, Verdict, NoParams, Params
  <2>3. m \in SUBSET Nat BY <1>2
  <2>4. base \in Dispute BY <1>2, <1>4, <2>1, <2>2, <2>3 DEF Dispute
  <2>5. base.purchase = i /\ base.ground = g /\ base.taskMask = m /\ base.par = params
    BY <2>2 DEF Dispute
  <2> HIDE DEF base
  <2>6. timestamp + params.verifierTimeout \in Nat /\ blockNumber + 2 \in Nat
        /\ timestamp + params.commitWindow + params.revealWindow \in Nat
    BY <2>1
  <2>7. voting \in Dispute BY <2>4, <2>6 DEF Dispute, DisputeStatus
  <2>16. "AwaitingSelection" \in DisputeStatus /\ 1 \in 0..2 BY DEF DisputeStatus
  <2>13. first \in Dispute BY <2>4, <2>16 DEF Dispute
  <2>14. first.purchase = i /\ first.taskMask = m /\ first.par = params
    BY <2>4, <2>5 DEF Dispute
  <2>15. first.round = 1 BY <2>4 DEF Dispute
  <2>12. /\ first \in Dispute /\ first.purchase = i /\ first.taskMask = m /\ first.par = params
         /\ first.round = 1
    BY <2>13, <2>14, <2>15
  <2> HIDE DEF first
  <2>8. armed \in Dispute BY <2>6, <2>12 DEF Dispute, armSelection
  <2>9. /\ voting.purchase = i /\ voting.ground = g /\ voting.taskMask = m /\ voting.par = params
        /\ armed.purchase = i /\ armed.taskMask = m /\ armed.par = params /\ armed.round = 1
    BY <2>4, <2>5, <2>12 DEF Dispute, armSelection
  <2>10. e = IF g = "FalseDescription" THEN armed ELSE voting BY DEF newDispute, base, first
  <2> HIDE DEF voting, armed
  <2>11. WellOpened(e, purchases)
    <3>1. CASE g = "FalseDescription"
      <4>1. e = armed /\ armed.round \in Rounds BY <2>9, <2>10, <3>1 DEF Rounds
      <4> HIDE DEF e
      <4> QED BY <1>1, <2>1, <2>9, <4>1 DEF WellOpened
    <3>2. CASE g # "FalseDescription"
      BY <1>1, <2>1, <2>9, <2>10, <3>2 DEF WellOpened
    <3> HIDE DEF e
    <3> QED BY <3>1, <3>2
  <2> QED BY <2>7, <2>8, <2>10, <2>11
<1> HIDE DEF e, q
<1>8. /\ PurchaseInv'
      /\ \A dd \in Dispute : WellOpened(dd, purchases) => WellOpened(dd, purchases')
  BY <1>1, <1>3, <1>6, OnePurchaseMoves
<1>9. DisputeInv'
  <2>1. disputes' \in [DisputeId -> Dispute]
    BY <1>3, <1>7 DEF Linked, DisputeInv, TypeDisputes
  <2>2. ASSUME NEW d \in DisputeId PROVE WellOpened(disputes'[d], purchases')
    BY <1>3, <1>7, <1>8 DEF Linked, DisputeInv, TypeDisputes
  <2> QED BY <1>5, <2>1, <2>2 DEF DisputeInv, TypeDisputes
<1> HIDE DEF p
<1>10. TypeFunds'
  BY <1>2, <1>3 DEF Linked, TypeFunds, Buckets
<1>11. TypeRecords'
  <2>1. versionStats' \in [VersionId -> VersionStats]
    BY <1>2, <1>3 DEF Linked, TypeRecords, VersionStats
  <2>2. sellerStats' \in [Accounts -> SellerStats]
    BY <1>2, <1>3 DEF Linked, TypeRecords, SellerStats
  <2> QED BY <2>1, <2>2 DEF TypeRecords
<1> QED BY <1>8, <1>9, <1>10, <1>11

\* A rating is counted on a settled purchase.
LEMMA RateTyped ==
  ASSUME Linked, NEW i \in PurchaseId, NEW n \in StarChoices, rate(i, n)
  PROVE  PurchaseInv' /\ DisputeInv' /\ TypeRecords'
<1> DEFINE p == purchases[i]
           q == [p EXCEPT !.rated = TRUE, !.stars = n]
           retained == p.terms.price - p.refunded
           vs == [versionStats[p.version] EXCEPT !.ratingSum = @ + n, !.ratingCount = @ + 1]
           ss == [sellerStats[p.seller] EXCEPT !.weightedRatingSum = @ + retained * n,
                                               !.ratedRetained = @ + retained]
<1>1. p \in Purchase /\ WellMade(p) /\ p.state # "None" BY OpenPurchase DEF rate
<1>2. /\ p.terms.price \in Int /\ p.refunded \in Int /\ p.seller \in Accounts
      /\ p.version \in VersionId /\ n \in 1..5
  BY <1>1, PurchaseNat DEF rate
<1>3. /\ purchases' = [purchases EXCEPT ![i] = q]
      /\ versionStats' = [versionStats EXCEPT ![p.version] = vs]
      /\ sellerStats' = [sellerStats EXCEPT ![p.seller] = ss]
      /\ UNCHANGED <<nextPurchaseId, disputes, nextDisputeId>>
  BY DEF rate, cases
<1>4. retained \in Int /\ retained * n \in Int BY <1>2
<1> HIDE DEF retained
<1>5. q \in Purchase /\ q.state = p.state /\ q.terms = p.terms /\ WellMade(q)
  <2> HIDE DEF p
  <2>1. n \in 0..5 BY <1>2
  <2>2. q \in Purchase BY <1>1, <2>1 DEF Purchase
  <2>3. /\ q.state = p.state /\ q.terms = p.terms /\ q.version = p.version
        /\ q.buyer = p.buyer /\ q.seller = p.seller /\ q.par = p.par
    BY <1>1 DEF Purchase
  <2> HIDE DEF q
  <2> QED BY <1>1, <2>2, <2>3 DEF WellMade
<1>6. PurchaseInv' /\ DisputeInv' BY <1>1, <1>3, <1>5, OnePurchaseMoves
<1> HIDE DEF p
<1>7. TypeRecords'
  <2>1. versionStats[p.version] \in VersionStats /\ sellerStats[p.seller] \in SellerStats
    BY <1>2 DEF Linked, TypeRecords
  <2>2. /\ versionStats[p.version].ratingSum + n \in Nat
        /\ versionStats[p.version].ratingCount + 1 \in Nat
    BY <1>2, <2>1 DEF VersionStats
  <2>3. /\ sellerStats[p.seller].weightedRatingSum + retained * n \in Int
        /\ sellerStats[p.seller].ratedRetained + retained \in Int
    BY <1>4, <2>1 DEF SellerStats
  <2>4. vs \in VersionStats BY <2>1, <2>2 DEF VersionStats
  <2>5. ss \in SellerStats BY <2>1, <2>3 DEF SellerStats
  <2> HIDE DEF vs, ss
  <2> QED BY <1>2, <1>3, <2>4, <2>5 DEF Linked, TypeRecords
<1> QED BY <1>6, <1>7

\* A withdrawal moves numbers.
LEMMA WithdrawTyped ==
  ASSUME Linked, NEW a \in Accounts, withdraw(a)
  PROVE  TypeFunds' /\ UNCHANGED <<purchases, nextPurchaseId, disputes, nextDisputeId, stats>>
<1>1. claimable[a] \in Int BY DEF Linked, TypeFunds
<1> QED BY <1>1 DEF withdraw, Linked, TypeFunds, Buckets, cases

---------------------------------------------------------------------------
(* Owner and sellers: money only *)

\* The owner's calls move numbers.
LEMMA AdminFunds == ASSUME Linked, Admin PROVE TypeFunds'
<1>1. TypeFunds /\ OwnerAmounts \subseteq Nat /\ ApprovalPool \subseteq Accounts
  BY ConstantsOK DEF ConstantsOK, Linked
<1>2. ASSUME UNCHANGED <<balance, bucket, stakes, jurors, claimable>> PROVE TypeFunds'
  BY <1>1, <1>2 DEF TypeFunds
<1>3. ASSUME NEW q, setParams(q) PROVE TypeFunds' BY <1>2, <1>3 DEF setParams
<1>4. ASSUME NEW r, NEW f, NEW t, setPreviewConfig(r, f, t) PROVE TypeFunds'
  BY <1>2, <1>4 DEF setPreviewConfig
<1>5. ASSUME NEW s, NEW b, setRunner(s, b) \/ setRelay(s, b) \/ setVerifier(s, b) PROVE TypeFunds'
  BY <1>2, <1>5 DEF setRunner, setRelay, setVerifier
<1>6. ASSUME NEW a \in ApprovalPool, NEW b \in BOOLEAN, approveJuror(a, b) PROVE TypeFunds'
  BY <1>1, <1>6 DEF approveJuror, TypeFunds, JurorInfo
<1>7. ASSUME NEW n \in OwnerAmounts, withdrawTreasury(n) \/ withdrawReserve(n) PROVE TypeFunds'
  <2>1. n \in Int BY <1>1
  <2> QED BY <1>1, <1>7, <2>1 DEF withdrawTreasury, withdrawReserve, TypeFunds, Buckets
<1> QED
  BY <1>3, <1>4, <1>5, <1>6, <1>7
  DEF Admin, setPreviewFeeRecipient, setMinPreviewFee, setPreviewTimeout

\* Sellers' calls move numbers.
LEMMA SellingFunds == ASSUME Linked, Selling PROVE TypeFunds'
<1>1. /\ TypeFunds /\ PreviewFees \subseteq Nat /\ Amounts \subseteq Nat
      /\ Sellers \subseteq Accounts
  BY ConstantsOK DEF ConstantsOK, Linked
<1>2. ASSUME UNCHANGED <<balance, bucket, stakes, jurors, claimable>> PROVE TypeFunds'
  BY <1>1, <1>2 DEF TypeFunds
<1>3. ASSUME NEW a, NEW l, NEW t, addVersion(a, l, t) PROVE TypeFunds'
  BY <1>2, <1>3 DEF addVersion
<1>4. ASSUME NEW v, NEW b, setVersionActive(v, b) PROVE TypeFunds'
  BY <1>2, <1>4 DEF setVersionActive
<1>5. ASSUME NEW v, NEW f \in PreviewFees, requestPreview(v, f) PROVE TypeFunds'
  <2>1. f \in Int BY <1>1
  <2> QED BY <1>1, <1>5, <2>1 DEF requestPreview, TypeFunds, Buckets
<1>6. ASSUME NEW v \in VersionId, NEW a \in Accounts, balance' = balance,
             UNCHANGED <<stakes, jurors>>,
             bucket' = [bucket EXCEPT !.previewFees = @ - previews[v].fee,
                                      !.claimable = @ + previews[v].fee],
             claimable' = credit(claimable, a, previews[v].fee)
      PROVE  TypeFunds'
  <2>1. previews[v].fee \in Int BY DEF Linked, CatalogInv, TypeCatalog, Preview
  <2>2. bucket \in Buckets /\ claimable \in [Accounts -> Int] BY <1>1 DEF TypeFunds
  <2>3. /\ bucket.previewFees - previews[v].fee \in Int
        /\ bucket.claimable + previews[v].fee \in Int
    BY <2>1, <2>2 DEF Buckets
  <2>4. bucket' \in Buckets BY <1>6, <2>2, <2>3 DEF Buckets
  <2>5. claimable' \in [Accounts -> Int] BY <1>6, <2>1, <2>2, CreditTyped
  <2> QED BY <1>1, <1>6, <2>4, <2>5 DEF TypeFunds
<1>7. ASSUME NEW v \in VersionId, reclaimPreviewFee(v) PROVE TypeFunds'
  <2>1. versions[v].seller \in Accounts
    BY <1>7 DEF reclaimPreviewFee, Linked, CatalogInv, TypeCatalog, Version
  <2> QED BY <1>6, <1>7, <2>1 DEF reclaimPreviewFee
<1>8. ASSUME NEW v \in VersionId, NEW s, attachReport(v, s) PROVE TypeFunds'
  <2>1. previewConfig.recipient \in Accounts BY DEF Linked, TypeAdmin
  <2> QED BY <1>6, <1>8, <2>1 DEF attachReport
<1>9. ASSUME NEW a \in Sellers, NEW n \in Amounts, depositCollateral(a, n) \/ withdrawCollateral(a, n)
      PROVE  TypeFunds'
  <2>1. n \in Int /\ a \in Accounts BY <1>1
  <2>2. CASE depositCollateral(a, n)
    BY <1>1, <2>1, <2>2 DEF depositCollateral, TypeFunds, Buckets, Stake
  <2>3. CASE withdrawCollateral(a, n)
    BY <1>1, <2>1, <2>3 DEF withdrawCollateral, TypeFunds, Buckets, Stake
  <2> QED BY <1>9, <2>2, <2>3
<1> QED
  BY <1>3, <1>4, <1>5, <1>7, <1>8, <1>9 DEF Selling, createListing, newVersion

---------------------------------------------------------------------------
(* Judging *)

\* A step that only moves one dispute on, to a record about the same case.
LEMMA OneDisputeMoves ==
  ASSUME Linked, NEW d \in DisputeId, disputes[d].status # "None", NEW e \in Dispute,
         e.purchase = disputes[d].purchase, e.taskMask = disputes[d].taskMask,
         e.par = disputes[d].par, e.round \in Rounds,
         disputes' = [disputes EXCEPT ![d] = e], UNCHANGED <<purchases, nextDisputeId>>
  PROVE  DisputeInv'
<1>1. WellOpened(disputes[d], purchases) BY DEF Linked, DisputeInv
<1>2. WellOpened(e, purchases) BY <1>1 DEF WellOpened
<1> QED BY <1>2 DEF Linked, DisputeInv, TypeDisputes

\* The panel of a jury dispute, and what may be counted on it.
LEMMA PanelTyped ==
  ASSUME Linked, NEW d \in DisputeId, NEW s \in DisputeStatus, s # "None", Jury(d, s)
  PROVE  /\ disputes[d].round \in Rounds
         /\ DOMAIN panel(d) \subseteq Accounts /\ panel(d) \in [DOMAIN panel(d) -> Seat]
         /\ revealers(panel(d)) \subseteq DOMAIN panel(d)
         /\ Cardinality(revealers(panel(d))) \in Nat
         /\ \A v : /\ Cardinality(votersFor(panel(d), v)) \in Nat
                   /\ votersFor(panel(d), v) \subseteq revealers(panel(d))
<1>1. disputes[d].round \in Rounds BY DEF Jury, Linked, DisputeInv, WellOpened
<1>2. DOMAIN panel(d) \subseteq Accounts /\ panel(d) \in [DOMAIN panel(d) -> Seat]
  BY <1>1 DEF panel, Linked, SeatInv, TypeSeats
<1>3. \A v : votersFor(panel(d), v) \subseteq revealers(panel(d)) BY DEF votersFor
<1>4. revealers(panel(d)) \subseteq DOMAIN panel(d) BY DEF revealers
<1>5. IsFiniteSet(Accounts) BY ConstantsOK DEF ConstantsOK
<1>6. \A S \in SUBSET Accounts : Cardinality(S) \in Nat
  BY <1>5, FS_Subset, FS_CardinalityType
<1> QED BY <1>1, <1>2, <1>3, <1>4, <1>6

\* Slashes are numbers.
LEMMA SlashInt ==
  ASSUME NEW dd \in Dispute, ValidParams(dd.par)
  PROVE  /\ nonRevealSlash(dd) \in Int /\ minoritySlash(dd) \in Int /\ seatStake(dd) \in Int
         /\ \A seat, v : seatSlash(dd, seat, v) \in Int
<1>1. /\ dd.par.jurorStake \in Int /\ dd.par.nonRevealSlashBps \in Nat
      /\ dd.par.minoritySlashBps \in Nat
  BY ParamsNat
<1>2. nonRevealSlash(dd) \in Int BY <1>1, PerBpsInt DEF nonRevealSlash
<1>3. minoritySlash(dd) \in Int BY <1>1, PerBpsInt DEF minoritySlash
<1> QED BY <1>1, <1>2, <1>3 DEF seatSlash, seatStake

\* Settling the seats of a panel leaves jurors and seats typed.
LEMMA SettleTyped ==
  ASSUME Linked, NEW d \in DisputeId, Jury(d, "Voting"), NEW v, NEW per \in Int, NEW share \in Int,
         settleSeats(d, v, per, share)
  PROVE  SeatInv' /\ jurors' \in [Accounts -> JurorInfo]
<1> DEFINE dd == disputes[d]
           pn == panel(d)
           new == [a \in DOMAIN pn |->
                    [pn[a] EXCEPT !.slashed = seatSlash(dd, pn[a], v),
                                  !.reward = seatReward(dd, pn[a], v, per, share)]]
<1>1. "Voting" \in DisputeStatus BY DEF DisputeStatus
<1>2. dd.round \in Rounds /\ DOMAIN pn \subseteq Accounts /\ pn \in [DOMAIN pn -> Seat]
  BY <1>1, PanelTyped
<1>3. dd \in Dispute /\ ValidParams(dd.par) BY DisputedPurchase DEF Jury
<1>4. seatStake(dd) \in Int /\ \A seat : seatSlash(dd, seat, v) \in Int BY <1>3, SlashInt
<1>5. \A seat : seatReward(dd, seat, v, per, share) \in Int BY DEF seatReward
<1>6. seats' = [seats EXCEPT ![d][dd.round] = new] BY DEF settleSeats
<1>7. jurors' = [a \in Accounts |->
        IF a \in DOMAIN pn
        THEN [jurors[a] EXCEPT !.locked = @ - seatStake(dd), !.total = @ - seatSlash(dd, pn[a], v)]
        ELSE jurors[a]]
  BY DEF settleSeats
<1>8. pn = seats[d][dd.round] BY DEF panel
<1> HIDE DEF dd, pn
<1>9. jurors' \in [Accounts -> JurorInfo]
  <2>1. ASSUME NEW a \in Accounts PROVE jurors'[a] \in JurorInfo
    <3>1. jurors[a] \in JurorInfo BY DEF Linked, TypeFunds
    <3>2. jurors[a].locked - seatStake(dd) \in Int /\ jurors[a].total - seatSlash(dd, pn[a], v) \in Int
      BY <1>4, <3>1 DEF JurorInfo
    <3> QED BY <1>7, <3>1, <3>2 DEF JurorInfo
  <2> QED BY <1>7, <2>1
<1>10. /\ new \in [DOMAIN pn -> Seat] /\ DOMAIN new = DOMAIN pn
       /\ \A a \in DOMAIN pn : /\ new[a].revealed = pn[a].revealed
                               /\ new[a].commitment = pn[a].commitment
  <2>1. ASSUME NEW a \in DOMAIN pn
        PROVE /\ new[a] \in Seat /\ new[a].revealed = pn[a].revealed
              /\ new[a].commitment = pn[a].commitment
    <3>1. pn[a] \in Seat BY <1>2
    <3> QED BY <1>4, <1>5, <3>1 DEF Seat
  <2> QED BY <2>1
<1> HIDE DEF new
<1>11. SeatInv'
  BY <1>2, <1>6, <1>8, <1>10 DEF Linked, SeatInv, TypeSeats, RevealsCommitted
<1> QED BY <1>9, <1>11

\* A majority is not empty, so the bonus is divided among somebody.
LEMMA MajorityPositive ==
  ASSUME NEW pn, NEW D \in SUBSET Accounts, pn \in [D -> Seat],
         \A a \in D : pn[a].revealed => pn[a].commitment # "None",
         panelVerdict(pn) # "None"
  PROVE  /\ panelVerdict(pn) \in {"Uphold", "Reject"}
         /\ Cardinality(revealers(pn)) \in Nat /\ Cardinality(revealers(pn)) >= 2
         /\ Cardinality(votersFor(pn, panelVerdict(pn))) \in Nat
         /\ Cardinality(votersFor(pn, panelVerdict(pn))) >= 2
         /\ Cardinality(votersFor(pn, panelVerdict(pn))) <= Cardinality(revealers(pn))
<1> DEFINE R == revealers(pn)
           U == votersFor(pn, "Uphold")
           J == votersFor(pn, "Reject")
<1>1. IsFiniteSet(Accounts) BY ConstantsOK DEF ConstantsOK
<1>2. R \subseteq D /\ U \subseteq R /\ J \subseteq R BY DEF revealers, votersFor
<1>3. J = R \ U
  BY DEF revealers, votersFor, Seat, Verdict
<1>4. IsFiniteSet(R) BY <1>1, <1>2, FS_Subset
<1>5. IsFiniteSet(U) /\ IsFiniteSet(J) BY <1>2, <1>4, FS_Subset
<1>6. Cardinality(R) \in Nat /\ Cardinality(U) \in Nat /\ Cardinality(J) \in Nat
  BY <1>4, <1>5, FS_CardinalityType
<1>7. R \cap U = U BY <1>2
<1>8. Cardinality(J) = Cardinality(R) - Cardinality(U) BY <1>3, <1>4, <1>7, FS_Difference
<1> HIDE DEF R, U, J
<1>9. panelVerdict(pn) =
        IF Cardinality(R) < 2 \/ Cardinality(U) = Cardinality(R) - Cardinality(U) THEN "None"
        ELSE IF Cardinality(U) > Cardinality(R) - Cardinality(U) THEN "Uphold" ELSE "Reject"
  BY DEF panelVerdict, R, U
<1>10. CASE panelVerdict(pn) = "Uphold"
  <2>1. Cardinality(U) > Cardinality(R) - Cardinality(U) /\ Cardinality(R) >= 2
    BY <1>6, <1>9, <1>10
  <2>2. Cardinality(U) >= 2 /\ Cardinality(U) <= Cardinality(R) BY <1>6, <1>8, <2>1
  <2> QED BY <1>6, <1>10, <2>1, <2>2 DEF R, U
<1>11. CASE panelVerdict(pn) = "Reject"
  <2>1. /\ ~(Cardinality(U) >= Cardinality(R) - Cardinality(U)) /\ Cardinality(R) >= 2
    BY <1>6, <1>9, <1>11
  <2>2. Cardinality(J) >= 2 /\ Cardinality(J) <= Cardinality(R) BY <1>6, <1>8, <2>1
  <2> QED BY <1>6, <1>11, <2>1, <2>2 DEF R, J
<1> QED BY <1>9, <1>10, <1>11

\* What each step of Judging other than a settlement does to disputes and seats.
LEMMA SeatPanelTyped ==
  ASSUME Linked, NEW d \in DisputeId, Jury(d, "AwaitingSelection"), NEW c, seatPanel(d, c)
  PROVE  /\ DisputeInv' /\ SeatInv' /\ jurors' \in [Accounts -> JurorInfo]
         /\ UNCHANGED <<purchases, nextPurchaseId, balance, bucket, stakes, claimable, stats>>
<1> DEFINE dd == disputes[d]
           new == [a \in c |-> EmptySeat]
           e == [dd EXCEPT !.status = "Voting",
                   !.commitDeadline = timestamp + dd.par.commitWindow,
                   !.revealDeadline = timestamp + dd.par.commitWindow + dd.par.revealWindow]
<1>1. /\ dd \in Dispute /\ ValidParams(dd.par) /\ dd.status # "None"
  BY DisputedPurchase DEF Jury
<1>2. dd.round \in Rounds BY <1>1 DEF Jury, Linked, DisputeInv, WellOpened
<1>3. c \subseteq Accounts BY DEF seatPanel, eligible, jurorList
<1>4. seatStake(dd) \in Int BY <1>1, SlashInt
<1>5. /\ timestamp + dd.par.commitWindow \in Nat
      /\ timestamp + dd.par.commitWindow + dd.par.revealWindow \in Nat
  BY <1>1, ParamsNat DEF Linked, TypeAdmin
<1>6. /\ seats' = [seats EXCEPT ![d][dd.round] = new]
      /\ disputes' = [disputes EXCEPT ![d] = e]
      /\ jurors' = [a \in Accounts |->
           IF a \in c THEN [jurors[a] EXCEPT !.locked = @ + seatStake(dd)] ELSE jurors[a]]
      /\ UNCHANGED <<purchases, nextPurchaseId, nextDisputeId, balance, bucket, stakes,
                     claimable, stats>>
  BY DEF seatPanel
<1> HIDE DEF dd
<1>7. /\ e \in Dispute /\ e.purchase = dd.purchase /\ e.taskMask = dd.taskMask
      /\ e.par = dd.par /\ e.round = dd.round
  BY <1>1, <1>5 DEF Dispute, DisputeStatus
<1> HIDE DEF e
<1>8. DisputeInv' BY <1>1, <1>2, <1>6, <1>7, OneDisputeMoves DEF dd
<1>9. jurors' \in [Accounts -> JurorInfo]
  BY <1>4, <1>6 DEF Linked, TypeFunds, JurorInfo
<1>10. /\ new \in [c -> Seat] /\ DOMAIN new = c
       /\ \A a \in c : ~new[a].revealed
  BY DEF EmptySeat, Seat, Verdict
<1> HIDE DEF new
<1>11. SeatInv'
  BY <1>2, <1>3, <1>6, <1>10 DEF Linked, SeatInv, TypeSeats, RevealsCommitted
<1> QED BY <1>6, <1>8, <1>9, <1>11

\* Committing and revealing change one seat.
LEMMA VoteTyped ==
  ASSUME Linked, NEW d \in DisputeId, NEW a, NEW v \in {"Uphold", "Reject"},
         commitVote(d, a, v) \/ revealVote(d, a)
  PROVE  /\ SeatInv'
         /\ UNCHANGED <<purchases, nextPurchaseId, disputes, nextDisputeId, balance, bucket,
                        stakes, jurors, claimable, stats>>
<1> DEFINE r == disputes[d].round
           seat == seats[d][r][a]
<1>0. "Voting" \in DisputeStatus BY DEF DisputeStatus
<1>1. r \in Rounds BY <1>0, PanelTyped DEF commitVote, revealVote
<1>2. a \in DOMAIN seats[d][r] BY DEF commitVote, revealVote, panel
<1>3. seat \in Seat BY <1>1, <1>2 DEF Linked, SeatInv, TypeSeats
<1>4. UNCHANGED <<purchases, nextPurchaseId, disputes, nextDisputeId, balance, bucket,
                  stakes, jurors, claimable, stats>>
  BY DEF commitVote, revealVote
<1>5. PICK new \in Seat : /\ seats' = [seats EXCEPT ![d][r][a] = new]
                          /\ new.revealed => new.commitment # "None"
  <2>1. CASE commitVote(d, a, v)
    <3>1. seats' = [seats EXCEPT ![d][r][a] = [seat EXCEPT !.commitment = v]]
      BY <2>1 DEF commitVote
    <3>2. [seat EXCEPT !.commitment = v] \in Seat BY <1>3 DEF Seat, Verdict
    <3>3. [seat EXCEPT !.commitment = v].commitment # "None" BY <1>3 DEF Seat
    <3> QED BY <3>1, <3>2, <3>3
  <2>2. CASE revealVote(d, a)
    <3>1. seats' = [seats EXCEPT ![d][r][a] = [seat EXCEPT !.revealed = TRUE]]
      BY <2>2 DEF revealVote
    <3>2. seat.commitment # "None" BY <2>2 DEF revealVote, panel
    <3>3. [seat EXCEPT !.revealed = TRUE] \in Seat
          /\ [seat EXCEPT !.revealed = TRUE].commitment # "None"
      BY <1>3, <3>2 DEF Seat
    <3> QED BY <3>1, <3>3
  <2> QED BY <2>1, <2>2
<1> HIDE DEF r
<1>6. SeatInv'
  BY <1>1, <1>2, <1>5 DEF Linked, SeatInv, TypeSeats, RevealsCommitted
<1> QED BY <1>4, <1>6

\* What a step of the core must keep, beyond clock, parameters and catalog.
CoreInv == PurchaseInv /\ DisputeInv /\ SeatInv /\ TypeFunds /\ TypeRecords

\* A settlement without a panel.
LEMMA PlainResolve ==
  ASSUME Linked, NEW d \in DisputeId, disputes[d].status # "None", NEW out \in Outcome,
         NEW extra \in Extra, resolve(d, out, extra), UNCHANGED <<seats, jurors>>
  PROVE  CoreInv'
<1>1. /\ PurchaseInv' /\ DisputeInv' /\ TypeRecords'
      /\ stakes' \in [Accounts -> Stake] /\ bucket' \in Buckets
      /\ claimable' \in [Accounts -> Int] /\ balance' = balance
  BY ResolveTyped
<1>2. SeatInv' BY DEF Linked, SeatInv, TypeSeats, RevealsCommitted
<1>3. TypeFunds' BY <1>1 DEF Linked, TypeFunds
<1> QED BY <1>1, <1>2, <1>3 DEF CoreInv

\* The verifier's finding, or its silence, settles a mechanical dispute.
LEMMA MechanicalTyped ==
  ASSUME Linked, NEW d \in DisputeId, NEW u \in BOOLEAN, NEW m \in SUBSET disputes[d].taskMask,
         NEW s, resolveMechanical(d, u, m, s) \/ timeoutMechanical(d)
  PROVE  CoreInv'
<1> DEFINE dd == disputes[d]
           p  == purchases[dd.purchase]
<1>1. dd.status # "None" BY DEF resolveMechanical, timeoutMechanical
<1>2. /\ dd \in Dispute /\ p \in Purchase /\ WellMade(p) /\ p.state # "None"
      /\ dd.taskMask \in SUBSET (1..p.terms.taskCount)
  BY <1>1, DisputedPurchase
<1>3. m \in SUBSET (1..p.terms.taskCount) BY <1>2
<1>4. /\ upholdOutcome(p, dd, m) \in Outcome /\ rejectOutcome(dd) \in Outcome
      /\ fallbackOutcome(dd) \in Outcome
  BY <1>2, <1>3, UpholdTyped, RejectTyped
<1>5. CASE resolveMechanical(d, u, m, s)
  <2> DEFINE out == IF u THEN upholdOutcome(p, dd, m) ELSE rejectOutcome(dd)
             extra == [NoExtra EXCEPT !.treasury = out.caseFee]
  <2>1. out \in Outcome BY <1>4
  <2>2. resolve(d, out, extra) /\ UNCHANGED <<seats, jurors>> BY <1>5 DEF resolveMechanical
  <2> HIDE DEF out
  <2>3. out.caseFee \in Int BY <2>1 DEF Outcome
  <2>4. extra \in Extra BY <2>3, NoExtraTyped
  <2> HIDE DEF extra
  <2> QED BY <1>1, <2>1, <2>2, <2>4, PlainResolve
<1>6. CASE timeoutMechanical(d)
  BY <1>1, <1>4, <1>6, NoExtraTyped, PlainResolve DEF timeoutMechanical
<1> QED BY <1>5, <1>6

\* The second round keeps the case.
LEMMA SecondRoundTyped ==
  ASSUME Linked, NEW d \in DisputeId, disputes[d].status # "None",
         disputes' = [disputes EXCEPT ![d] = secondRound(@)],
         UNCHANGED <<purchases, nextDisputeId>>
  PROVE  DisputeInv'
<1> DEFINE dd == disputes[d]
           next == [dd EXCEPT !.round = 2, !.status = "AwaitingSelection",
                              !.commitDeadline = 0, !.revealDeadline = 0]
<1>1. dd \in Dispute /\ ValidParams(dd.par) BY DisputedPurchase
<1>2. /\ blockNumber + 2 \in Nat
      /\ timestamp + dd.par.commitWindow + dd.par.revealWindow \in Nat
  BY <1>1, ParamsNat DEF Linked, TypeAdmin
<1> HIDE DEF dd
<1>3. "AwaitingSelection" \in DisputeStatus /\ 2 \in 0..2 BY DEF DisputeStatus
<1>4. /\ next \in Dispute /\ next.purchase = dd.purchase /\ next.taskMask = dd.taskMask
      /\ next.par = dd.par /\ next.round = 2
  BY <1>1, <1>3 DEF Dispute
<1>5. secondRound(dd) = armSelection(next) BY DEF secondRound
<1> HIDE DEF next
<1>6. /\ armSelection(next) \in Dispute /\ armSelection(next).purchase = dd.purchase
      /\ armSelection(next).taskMask = dd.taskMask /\ armSelection(next).par = dd.par
      /\ armSelection(next).round = 2
  BY <1>2, <1>4 DEF Dispute, armSelection
<1> DEFINE e == armSelection(next)
<1>7. disputes' = [disputes EXCEPT ![d] = e] BY <1>5 DEF dd
<1>8. /\ e \in Dispute /\ e.purchase = dd.purchase /\ e.taskMask = dd.taskMask /\ e.par = dd.par
      /\ e.round \in Rounds
  BY <1>6 DEF Rounds
<1> HIDE DEF e
<1> QED BY <1>7, <1>8, OneDisputeMoves DEF dd

\* A seat is drawn, re-armed, or given up.
LEMMA SelectTyped ==
  ASSUME Linked, NEW d \in DisputeId, selectJurors(d)
  PROVE  CoreInv' /\ nextPurchaseId' = nextPurchaseId
<1> DEFINE dd == disputes[d]
<1>1. /\ dd.status # "None" /\ Jury(d, "AwaitingSelection")
      /\ "AwaitingSelection" \in DisputeStatus
  BY DEF selectJurors, SelectionOpen, Jury, DisputeStatus
<1>2. dd \in Dispute /\ dd.round \in Rounds BY <1>1, DisputedPurchase, PanelTyped
<1>3. ASSUME DisputeInv', UNCHANGED <<purchases, nextPurchaseId, seats, balance, bucket, stakes,
                                      jurors, claimable, stats>>
      PROVE  CoreInv'
  BY <1>3 DEF CoreInv, Linked, PurchaseInv, TypePurchases, SeatInv, TypeSeats, RevealsCommitted,
     TypeFunds, TypeRecords, stats
<1>4. CASE rearmSelection(d)
  <2> DEFINE e == [dd EXCEPT !.selectionBlock = blockNumber + 2]
  <2>1. blockNumber + 2 \in Nat BY DEF Linked, TypeAdmin
  <2>2. /\ disputes' = [disputes EXCEPT ![d] = e]
        /\ UNCHANGED <<purchases, nextPurchaseId, nextDisputeId, seats, balance, bucket, stakes,
                       jurors, claimable, stats>>
    BY <1>4 DEF rearmSelection
  <2> HIDE DEF dd
  <2>3. /\ e \in Dispute /\ e.purchase = dd.purchase /\ e.taskMask = dd.taskMask
        /\ e.par = dd.par /\ e.round = dd.round
    BY <1>2, <2>1 DEF Dispute
  <2> HIDE DEF e
  <2>4. DisputeInv' BY <1>1, <1>2, <2>2, <2>3, OneDisputeMoves DEF dd
  <2> QED BY <1>3, <2>2, <2>4
<1>5. ASSUME NEW c, seatPanel(d, c) PROVE CoreInv' /\ nextPurchaseId' = nextPurchaseId
  <2>1. /\ DisputeInv' /\ SeatInv' /\ jurors' \in [Accounts -> JurorInfo]
        /\ UNCHANGED <<purchases, nextPurchaseId, balance, bucket, stakes, claimable, stats>>
    BY <1>1, <1>5, SeatPanelTyped
  <2> QED BY <2>1 DEF CoreInv, Linked, PurchaseInv, TypePurchases, TypeFunds, TypeRecords, stats
<1>6. CASE panelUnfillable(d)
  <2>1. CASE dd.round = 1
    <3>1. /\ disputes' = [disputes EXCEPT ![d] = secondRound(@)]
          /\ UNCHANGED <<purchases, nextPurchaseId, nextDisputeId, seats, balance, bucket, stakes,
                         jurors, claimable, stats>>
      BY <1>6, <2>1 DEF panelUnfillable
    <3>2. DisputeInv' BY <1>1, <3>1, SecondRoundTyped
    <3> QED BY <1>3, <3>1, <3>2
  <2>2. CASE dd.round # 1
    <3>1. /\ resolve(d, fallbackOutcome(dd), NoExtra) /\ UNCHANGED <<seats, jurors>>
      BY <1>6, <2>2 DEF panelUnfillable
    <3>2. CoreInv' BY <1>1, <1>2, <3>1, RejectTyped, NoExtraTyped, PlainResolve
    <3> QED BY <3>1, <3>2, ResolveFrame
  <2> QED BY <2>1, <2>2
<1> QED BY <1>4, <1>5, <1>6 DEF selectJurors, rearmSelection, panelUnfillable

\* What a decided tally pays is in numbers: the bonus is divided by a real majority.
LEMMA PayTyped ==
  ASSUME NEW dd \in Dispute, ValidParams(dd.par), NEW pot \in Int,
         NEW reveals \in Nat, reveals > 0, NEW majority \in Nat, majority > 0
  PROVE  /\ participationPay(dd, pot, reveals) \in Int
         /\ bonusPool(dd, pot, reveals, majority) \in Int
         /\ bonusShare(dd, pot, reveals, majority) \in Int
<1>1. dd.par.participationFee \in Int /\ minoritySlash(dd) \in Int
  BY ParamsNat, SlashInt
<1>2. participationPay(dd, pot, reveals) \in Int BY <1>1 DEF participationPay
<1> DEFINE per == participationPay(dd, pot, reveals)
           slashed == minoritySlash(dd)
<1> HIDE DEF per, slashed
<1>3. per \in Int /\ slashed \in Int BY <1>1, <1>2 DEF per, slashed
<1>4. per * reveals \in Int /\ slashed * (reveals - majority) \in Int BY <1>3
<1>5. pot - per * reveals + slashed * (reveals - majority) \in Int BY <1>4
<1>6. bonusPool(dd, pot, reveals, majority) \in Int BY <1>5 DEF bonusPool, per, slashed
<1>7. bonusShare(dd, pot, reveals, majority) \in Int BY <1>6 DEF bonusShare
<1> QED BY <1>2, <1>6, <1>7

\* A tally settles the seats and, once decided or out of rounds, the dispute.
LEMMA TallyTyped ==
  ASSUME Linked, NEW d \in DisputeId, tallyDispute(d)
  PROVE  CoreInv' /\ nextPurchaseId' = nextPurchaseId
<1> DEFINE dd == disputes[d]
           p  == purchases[dd.purchase]
           pn == panel(d)
           D  == DOMAIN pn
           reveals == Cardinality(revealers(pn))
<1>1. /\ Jury(d, "Voting") /\ dd.status # "None" /\ "Voting" \in DisputeStatus
  BY DEF tallyDispute, tallyDecided, tallyFailed, TallyReady, Jury, DisputeStatus
<1>2. /\ dd \in Dispute /\ p \in Purchase /\ WellMade(p) /\ p.state # "None"
      /\ dd.taskMask \in SUBSET (1..p.terms.taskCount) /\ ValidParams(dd.par)
  BY <1>1, DisputedPurchase
<1>3. /\ dd.round \in Rounds /\ D \in SUBSET Accounts /\ pn \in [D -> Seat] /\ reveals \in Nat
  BY <1>1, PanelTyped
<1>4. \A a \in D : pn[a].revealed => pn[a].commitment # "None"
  BY <1>3 DEF panel, Linked, SeatInv, RevealsCommitted
<1>5. nonRevealSlash(dd) \in Int /\ minoritySlash(dd) \in Int BY <1>2, SlashInt
<1>6. /\ upholdOutcome(p, dd, dd.taskMask) \in Outcome /\ rejectOutcome(dd) \in Outcome
      /\ fallbackOutcome(dd) \in Outcome
  BY <1>2, UpholdTyped, RejectTyped
<1>7. ASSUME NEW out \in Outcome, NEW extra \in Extra, resolve(d, out, extra),
             SeatInv', jurors' \in [Accounts -> JurorInfo]
      PROVE  CoreInv' /\ nextPurchaseId' = nextPurchaseId
  <2>1. /\ PurchaseInv' /\ DisputeInv' /\ TypeRecords'
        /\ stakes' \in [Accounts -> Stake] /\ bucket' \in Buckets
        /\ claimable' \in [Accounts -> Int] /\ balance' = balance
    BY <1>1, <1>7, ResolveTyped
  <2>2. TypeFunds' BY <1>7, <2>1 DEF Linked, TypeFunds
  <2> QED BY <1>7, <2>1, <2>2, ResolveFrame DEF CoreInv
<1>8. CASE tallyDecided(d)
  <2> DEFINE verdict == panelVerdict(pn)
             out == IF verdict = "Uphold" THEN upholdOutcome(p, dd, dd.taskMask)
                    ELSE rejectOutcome(dd)
             majority == Cardinality(votersFor(pn, verdict))
             per == participationPay(dd, out.caseFee, reveals)
             share == bonusShare(dd, out.caseFee, reveals, majority)
             missing == (SEATS - reveals) * nonRevealSlash(dd)
             dust == bonusPool(dd, out.caseFee, reveals, majority) - share * majority
             extra == [treasury |-> 0, reserve |-> missing + dust,
                       jurorStake |-> missing + (reveals - majority) * minoritySlash(dd),
                       claimable |-> per * reveals + share * majority,
                       pay |-> [a \in Accounts |-> IF a \in DOMAIN pn
                                  THEN seatReward(dd, pn[a], verdict, per, share) ELSE 0]]
  <2>1. settleSeats(d, verdict, per, share) /\ resolve(d, out, extra) /\ verdict # "None"
    BY <1>8 DEF tallyDecided
  <2>2. majority \in Nat /\ majority >= 2 /\ reveals >= 2
    BY <1>3, <1>4, <2>1, MajorityPositive
  <2>3. out \in Outcome BY <1>6
  <2> HIDE DEF out, verdict, majority
  <2>4. out.caseFee \in Int BY <2>3 DEF Outcome
  <2>5. per \in Int /\ share \in Int /\ bonusPool(dd, out.caseFee, reveals, majority) \in Int
    BY <1>2, <1>3, <2>2, <2>4, PayTyped
  <2> HIDE DEF per, share
  <2>6. SeatInv' /\ jurors' \in [Accounts -> JurorInfo]
    BY <1>1, <2>1, <2>5, SettleTyped
  <2>7. extra \in Extra
    <3>1. missing \in Int BY <1>3, <1>5 DEF SEATS
    <3>2. share * majority \in Int /\ per * reveals \in Int
          /\ (reveals - majority) * minoritySlash(dd) \in Int
      BY <1>3, <1>5, <2>2, <2>5
    <3>3. dust \in Int BY <2>5, <3>2
    <3>4. \A seat : seatReward(dd, seat, verdict, per, share) \in Int BY <2>5 DEF seatReward
    <3> HIDE DEF missing, dust
    <3>5. /\ missing + dust \in Int
          /\ missing + (reveals - majority) * minoritySlash(dd) \in Int
          /\ per * reveals + share * majority \in Int
      BY <3>1, <3>2, <3>3
    <3> QED BY <3>4, <3>5 DEF Extra
  <2> HIDE DEF extra
  <2> QED BY <1>7, <2>1, <2>3, <2>6, <2>7
<1>9. CASE tallyFailed(d)
  <2> DEFINE missing == (SEATS - reveals) * nonRevealSlash(dd)
  <2>1. missing \in Int BY <1>3, <1>5 DEF SEATS
  <2>2. settleSeats(d, "None", 0, 0) BY <1>9 DEF tallyFailed
  <2>3. SeatInv' /\ jurors' \in [Accounts -> JurorInfo]
    BY <1>1, <2>2, SettleTyped, 0 \in Int
  <2>4. CASE dd.round = 1
    <3>1. /\ disputes' = [disputes EXCEPT ![d] = secondRound(@)]
          /\ bucket' = [bucket EXCEPT !.jurorStake = @ - missing, !.reserve = @ + missing]
          /\ UNCHANGED <<balance, purchases, nextPurchaseId, nextDisputeId, stakes, claimable, stats>>
      BY <1>9, <2>4 DEF tallyFailed
    <3> HIDE DEF missing
    <3>2. DisputeInv' BY <1>1, <3>1, SecondRoundTyped
    <3>6. bucket \in Buckets BY DEF Linked, TypeFunds
    <3>7. bucket.jurorStake - missing \in Int /\ bucket.reserve + missing \in Int
      BY <2>1, <3>6 DEF Buckets, missing
    <3>3. bucket' \in Buckets BY <3>1, <3>6, <3>7 DEF Buckets
    <3>4. PurchaseInv' /\ TypeRecords'
      BY <3>1 DEF Linked, PurchaseInv, TypePurchases, TypeRecords, stats
    <3>5. TypeFunds' BY <2>3, <3>1, <3>3 DEF Linked, TypeFunds
    <3> QED BY <2>3, <3>1, <3>2, <3>4, <3>5 DEF CoreInv
  <2>5. CASE dd.round # 1
    <3> DEFINE extra == [NoExtra EXCEPT !.reserve = missing, !.jurorStake = missing]
    <3>1. resolve(d, fallbackOutcome(dd), extra) BY <1>9, <2>5 DEF tallyFailed
    <3>2. extra \in Extra BY <2>1, NoExtraTyped DEF Extra
    <3> HIDE DEF extra
    <3> QED BY <1>6, <1>7, <2>3, <3>1, <3>2
  <2> QED BY <2>4, <2>5
<1> QED BY <1>8, <1>9 DEF tallyDispute

\* Every step of Judging.
LEMMA JudgingTyped == ASSUME Linked, Judging PROVE CoreInv'
<1>1. ASSUME NEW d \in DisputeId, NEW u \in BOOLEAN, NEW m \in SUBSET disputes[d].taskMask, NEW s,
             resolveMechanical(d, u, m, s)
      PROVE  CoreInv'
  BY <1>1, MechanicalTyped
<1>2. ASSUME NEW d \in DisputeId, timeoutMechanical(d) PROVE CoreInv'
  BY <1>2, MechanicalTyped, {} \in SUBSET disputes[d].taskMask, TRUE \in BOOLEAN
<1>3. ASSUME NEW d \in DisputeId, selectJurors(d) \/ tallyDispute(d) PROVE CoreInv'
  BY <1>3, SelectTyped, TallyTyped
<1>4. ASSUME NEW d \in DisputeId, NEW a, NEW v \in {"Uphold", "Reject"},
             commitVote(d, a, v) \/ revealVote(d, a)
      PROVE  CoreInv'
  <2>1. /\ SeatInv'
        /\ UNCHANGED <<purchases, nextPurchaseId, disputes, nextDisputeId, balance, bucket,
                       stakes, jurors, claimable, stats>>
    BY <1>4, VoteTyped
  <2> QED
    BY <2>1 DEF CoreInv, Linked, PurchaseInv, TypePurchases, DisputeInv, TypeDisputes, TypeFunds,
       TypeRecords, stats
<1>5. ASSUME NEW a \in JurorPool, NEW n \in Amounts,
             depositJurorStake(a, n) \/ withdrawJurorStake(a, n)
      PROVE  CoreInv'
  <2>1. n \in Int /\ a \in Accounts BY ConstantsOK DEF ConstantsOK
  <2>2. TypeFunds'
    <3>1. TypeFunds /\ blockNumber \in Nat BY DEF Linked, TypeAdmin
    <3>2. jurors[a] \in JurorInfo BY <2>1, <3>1 DEF TypeFunds
    <3>3. CASE depositJurorStake(a, n)
      <4> DEFINE ji == [jurors[a] EXCEPT !.total = @ + n, !.stakeBlock = blockNumber]
      <4>0. jurors[a].total + n \in Int BY <2>1, <3>2 DEF JurorInfo
      <4>1. ji \in JurorInfo BY <3>1, <3>2, <4>0 DEF JurorInfo
      <4>2. /\ jurors' = [jurors EXCEPT ![a] = ji]
            /\ bucket' = [bucket EXCEPT !.jurorStake = @ + n]
            /\ balance' = balance + n /\ UNCHANGED <<stakes, claimable>>
        BY <3>3 DEF depositJurorStake
      <4> HIDE DEF ji
      <4> QED BY <2>1, <3>1, <4>1, <4>2 DEF TypeFunds, Buckets
    <3>4. CASE withdrawJurorStake(a, n)
      BY <2>1, <3>1, <3>4 DEF withdrawJurorStake, TypeFunds, Buckets, JurorInfo
    <3> QED BY <1>5, <3>3, <3>4
  <2>3. UNCHANGED <<purchases, nextPurchaseId, disputes, nextDisputeId, seats, stats>>
    BY <1>5 DEF depositJurorStake, withdrawJurorStake, cases
  <2> QED
    BY <2>2, <2>3 DEF CoreInv, Linked, PurchaseInv, TypePurchases, DisputeInv, TypeDisputes,
       SeatInv, TypeSeats, RevealsCommitted, TypeRecords, stats
<1> QED BY <1>1, <1>2, <1>3, <1>4, <1>5 DEF Judging, Deciding

\* Every step of Purchasing.
LEMMA PurchasingTyped == ASSUME Linked, Purchasing PROVE CoreInv'
<1>0. SeatInv' BY PurchasingFrame DEF Linked, SeatInv, TypeSeats, RevealsCommitted
<1>1. ASSUME NEW a \in Buyers, NEW v \in VersionId, buy(a, v) PROVE CoreInv'
  <2>1. TypeRecords' BY <1>1 DEF buy, Linked, TypeRecords, stats
  <2> QED BY <1>0, <1>1, <2>1, BuyTyped DEF CoreInv
<1>2. ASSUME NEW i \in PurchaseId, NEW s, recordDelivery(i, s) PROVE CoreInv'
  <2>1. TypeRecords' /\ TypeFunds'
    BY <1>2 DEF recordDelivery, Linked, TypeRecords, TypeFunds, stats
  <2> QED BY <1>0, <1>2, <2>1, DeliveryTyped DEF CoreInv
<1>3. ASSUME NEW i \in PurchaseId, refundUndelivered(i) \/ finalize(i) PROVE CoreInv'
  BY <1>0, <1>3, RefundTyped, FinalizeTyped DEF CoreInv
<1>4. ASSUME NEW i \in PurchaseId, NEW g \in Grounds,
             NEW m \in SUBSET (1..purchases[i].terms.taskCount), openDispute(i, g, m)
      PROVE  CoreInv'
  BY <1>0, <1>4, OpenDisputeTyped DEF CoreInv
<1>5. ASSUME NEW i \in PurchaseId, NEW n \in StarChoices, rate(i, n) PROVE CoreInv'
  <2>1. TypeFunds' BY <1>5 DEF rate, Linked, TypeFunds
  <2> QED BY <1>0, <1>5, <2>1, RateTyped DEF CoreInv
<1>6. ASSUME NEW a \in Withdrawers, withdraw(a) PROVE CoreInv'
  <2>1. a \in Accounts BY ConstantsOK DEF ConstantsOK
  <2>2. TypeFunds' /\ UNCHANGED <<purchases, nextPurchaseId, disputes, nextDisputeId, stats>>
    BY <1>6, <2>1, WithdrawTyped
  <2> QED
    BY <1>0, <2>2 DEF CoreInv, Linked, PurchaseInv, TypePurchases, DisputeInv, TypeDisputes,
       TypeRecords, stats
<1> QED BY <1>1, <1>2, <1>3, <1>4, <1>5, <1>6 DEF Purchasing

---------------------------------------------------------------------------
(* The invariant *)

\* The constructor's state satisfies the invariant.
LEMMA InitLinked == Init => Linked
<1> SUFFICES ASSUME Init PROVE Linked OBVIOUS
<1>0. /\ MaxVersions \in Nat /\ MaxPurchases \in Nat /\ BlockTime \in Nat
      /\ ValidParams(InitParams)
  BY ConstantsOK DEF ConstantsOK
<1>1. TypeAdmin BY <1>0 DEF Init, InitChain, InitAdmin, TypeAdmin
<1>2. CatalogInv
  BY <1>0 DEF Init, InitCatalog, CatalogInv, TypeCatalog, VersionsValid, Version, NoVersion, Terms,
     NoTerms, Preview, NoPreview
<1>3. PurchaseInv
  <2>1. NoPurchase \in Purchase
    BY <1>0 DEF NoPurchase, Purchase, PurchaseState, NoTerms, Terms, NoParams, Params
  <2>2. WellMade(NoPurchase) BY DEF NoPurchase, WellMade
  <2> QED BY <1>0, <2>1, <2>2 DEF Init, InitPurchases, PurchaseInv, TypePurchases
<1>4. DisputeInv
  <2>1. NoDispute \in Dispute
    BY <1>0 DEF NoDispute, Dispute, Ground, DisputeStatus, Verdict, NoParams, Params
  <2>2. WellOpened(NoDispute, purchases) BY DEF NoDispute, WellOpened
  <2> QED BY <1>0, <2>1, <2>2 DEF Init, InitCases, DisputeInv, TypeDisputes
<1>5. SeatInv BY DEF Init, InitCases, SeatInv, TypeSeats, RevealsCommitted
<1>6. TypeFunds
  BY DEF Init, InitFunds, InitRecords, TypeFunds, Buckets, NoBuckets, Stake, JurorInfo, NoJuror
<1>7. TypeRecords
  BY DEF Init, InitRecords, TypeRecords, VersionStats, NoVersionStats, SellerStats, NoSellerStats
<1> QED BY <1>1, <1>2, <1>3, <1>4, <1>5, <1>6, <1>7 DEF Linked

\* The invariant is inductive.
LEMMA NextLinked == Linked /\ [Next]_vars => Linked'
<1> SUFFICES ASSUME Linked, [Next]_vars PROVE Linked' OBVIOUS
<1>1. TypeAdmin' BY AdminPreserved DEF Linked
<1>2. CatalogInv' BY CatalogPreserved DEF Linked
<1>3. ASSUME UNCHANGED <<purchases, nextPurchaseId, cases, stats>>, TypeFunds' PROVE CoreInv'
  BY <1>3 DEF CoreInv, Linked, PurchaseInv, TypePurchases, DisputeInv, TypeDisputes,
     SeatInv, TypeSeats, RevealsCommitted, TypeRecords, stats, cases
<1>4. CASE UNCHANGED vars
  <2>1. TypeFunds' BY <1>4 DEF vars, Linked, TypeFunds
  <2> QED BY <1>1, <1>2, <1>3, <1>4, <2>1 DEF vars, CoreInv, Linked
<1>5. CASE NewBlock
  <2>1. TypeFunds' BY <1>5, BlockFrame DEF Linked, TypeFunds
  <2> QED BY <1>1, <1>2, <1>3, <1>5, <2>1, BlockFrame DEF CoreInv, Linked
<1>6. CASE Admin BY <1>1, <1>2, <1>3, <1>6, AdminFrame, AdminFunds DEF CoreInv, Linked
<1>7. CASE Selling BY <1>1, <1>2, <1>3, <1>7, SellingFrame, SellingFunds DEF CoreInv, Linked
<1>8. CASE Purchasing BY <1>1, <1>2, <1>8, PurchasingTyped DEF CoreInv, Linked
<1>9. CASE Judging BY <1>1, <1>2, <1>9, JudgingTyped DEF CoreInv, Linked
<1> QED BY <1>4, <1>5, <1>6, <1>7, <1>8, <1>9 DEF Next

\* Every reachable state is linked: a dispute is about a purchase that was made and over
\* tasks that purchase has, a purchase is of a version, with 1..256 tasks and valid
\* parameters in its snapshot, ids not yet given out are unused, and only a committed
\* vote is revealed.  So no settlement reads an empty record or divides by zero.
THEOREM LinkedHolds == Spec => []Linked
BY InitLinked, NextLinked, PTL DEF Spec

\* Every reachable state is well typed: whatever the owner, the sellers, the buyers and the
\* jurors call, records have their fields, ids their ranges, and the parameters in force
\* those setParams accepts.
THEOREM TypeCorrect == Spec => []TypeOK
<1>1. Linked => TypeOK
  BY DEF Linked, TypeOK, CatalogInv, PurchaseInv, DisputeInv, SeatInv
<1> QED BY <1>1, LinkedHolds, PTL
=============================================================================
