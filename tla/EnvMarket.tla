------------------------------ MODULE EnvMarket ------------------------------
(***************************************************************************)
(* The EnvMarket contract: every state-changing external function as an    *)
(* action, the specification, and the properties that make it correct.     *)
(***************************************************************************)
EXTENDS EnvMarketJury, Functions

Admin ==
  \/ \E q \in ParamChoices : setParams(q)
  \/ \E a \in FeeRecipients : setPreviewFeeRecipient(a)
  \/ \E f \in MinPreviewFees : setMinPreviewFee(f)
  \/ \E t \in PreviewTimeouts : setPreviewTimeout(t)
  \/ \E s \in RoleChanges, b \in BOOLEAN : setRunner(s, b) \/ setRelay(s, b) \/ setVerifier(s, b)
  \/ \E a \in ApprovalPool, b \in BOOLEAN : approveJuror(a, b)
  \/ \E n \in OwnerAmounts : withdrawTreasury(n) \/ withdrawReserve(n)

Selling ==
  \/ \E a \in Sellers, t \in TermChoices :
       createListing(a, t) \/ \E l \in VersionId : newVersion(a, l, t)
  \/ \E v \in VersionId, b \in ActiveChoices : setVersionActive(v, b)
  \/ \E v \in VersionId, f \in PreviewFees : requestPreview(v, f)
  \/ \E v \in VersionId : reclaimPreviewFee(v) \/ \E s \in Signers : attachReport(v, s)
  \/ \E a \in Sellers, n \in Amounts : depositCollateral(a, n) \/ withdrawCollateral(a, n)

Purchasing ==
  \/ \E a \in Buyers, v \in VersionId : buy(a, v)
  \/ \E i \in PurchaseId :
       \/ \E s \in Signers : recordDelivery(i, s)
       \/ refundUndelivered(i)
       \/ finalize(i)
       \/ \E g \in Grounds, m \in SUBSET (1..purchases[i].terms.taskCount) : openDispute(i, g, m)
       \/ \E n \in StarChoices : rate(i, n)
  \/ \E a \in Withdrawers : withdraw(a)

Deciding ==
  \E d \in DisputeId :
       \/ \E u \in BOOLEAN, m \in SUBSET disputes[d].taskMask, s \in Signers :
            resolveMechanical(d, u, m, s)
       \/ timeoutMechanical(d)
       \/ selectJurors(d)
       \/ \E a \in JurorPool : revealVote(d, a) \/ \E v \in {"Uphold", "Reject"} : commitVote(d, a, v)
       \/ tallyDispute(d)

Judging ==
  \/ Deciding
  \/ \E a \in JurorPool, n \in Amounts : depositJurorStake(a, n) \/ withdrawJurorStake(a, n)

Next == NewBlock \/ Admin \/ Selling \/ Purchasing \/ Judging

Spec == Init /\ [][Next]_vars

(***************************************************************************)
(* The steps that end a purchase need nobody's permission: blocks keep     *)
(* coming and somebody calls a timeout or a tally once it is possible.     *)
(***************************************************************************)
SomebodyCalls ==
  /\ \A i \in PurchaseId : WF_vars(refundUndelivered(i)) /\ WF_vars(finalize(i))
  /\ \A d \in DisputeId : /\ WF_vars(timeoutMechanical(d))
                          /\ WF_vars(selectJurors(d))
                          /\ WF_vars(tallyDispute(d))
FairSpec == Spec /\ WF_vars(NewBlock) /\ SomebodyCalls

---------------------------------------------------------------------------
(* Invariants *)

Open(i) == purchases[i].state \in {"Funded", "Delivered", "Disputed"}
OpenDispute(d) == disputes[d].status \in {"AwaitingSelection", "Voting"}
Seated(d) == IF Jury(d, "Voting") THEN DOMAIN panel(d) ELSE {}

TypeAdmin ==
  /\ blockNumber \in Nat /\ timestamp \in Nat
  /\ ValidParams(params)
  /\ previewConfig \in [recipient: Accounts, minFee: Nat, timeout: Nat]
  /\ isRunner \subseteq Signers /\ isRelay \subseteq Signers /\ isVerifier \subseteq Signers

TypeCatalog ==
  /\ listingSeller \in [VersionId -> Accounts \cup {NoAccount}]
  /\ nextListingId \in 1..MaxVersions + 1 /\ nextVersionId \in 1..MaxVersions + 1
  /\ versions \in [VersionId -> Version]
  /\ previews \in [VersionId -> Preview]

TypePurchases ==
  /\ purchases \in [PurchaseId -> Purchase]
  /\ nextPurchaseId \in 1..MaxPurchases + 1

TypeDisputes ==
  /\ disputes \in [DisputeId -> Dispute]
  /\ nextDisputeId \in 1..MaxPurchases + 1

TypeSeats ==
  /\ DOMAIN seats = DisputeId
  /\ \A d \in DisputeId :
       /\ DOMAIN seats[d] = Rounds
       /\ \A r \in Rounds : /\ DOMAIN seats[d][r] \subseteq Accounts
                            /\ seats[d][r] \in [DOMAIN seats[d][r] -> Seat]

TypeFunds ==
  /\ balance \in Int /\ bucket \in Buckets
  /\ stakes \in [Accounts -> Stake]
  /\ jurors \in [Accounts -> JurorInfo]
  /\ claimable \in [Accounts -> Int]

TypeRecords ==
  /\ versionStats \in [VersionId -> VersionStats]
  /\ sellerStats \in [Accounts -> SellerStats]

\* Every variable holds a value of its Solidity type; amounts may be any
\* integer here, NoUnderflow says that none is negative.
TypeOK == /\ TypeAdmin /\ TypeCatalog /\ TypePurchases /\ TypeDisputes /\ TypeSeats
          /\ TypeFunds /\ TypeRecords

\* The accounting identity of EnvMarketStorage.sol: the tokens the market holds
\* are exactly its buckets, so every payout it owes is covered.
Solvent ==
  balance = bucket.escrow + bucket.collateral + bucket.bonds + bucket.jurorStake
            + bucket.treasury + bucket.reserve + bucket.claimable + bucket.previewFees

\* What each purchase, dispute or version has in a bucket or in a hold.
escrowed == [i \in PurchaseId |-> IF Open(i) THEN purchases[i].terms.price ELSE 0]
bonded   == [d \in DisputeId |-> IF OpenDispute(d) THEN disputes[d].bond ELSE 0]
feeHeld  == [v \in VersionId |-> IF outstanding(v) /\ ~versions[v].report THEN previews[v].fee ELSE 0]
reservedFor(a) ==
  [i \in PurchaseId |->
     IF Open(i) /\ purchases[i].seller = a THEN purchases[i].terms.collateral ELSE 0]
lockedFor(a) == [d \in DisputeId |-> IF a \in Seated(d) THEN disputes[d].par.jurorStake ELSE 0]

\* Each bucket is the sum of what it is said to hold: totalEscrow of the prices of
\* open purchases, totalBonds of the bonds of open disputes, totalCollateral,
\* totalJurorStake and totalClaimable of the accounts' balances, the preview bucket
\* of the fees neither released nor reclaimed.
BucketsAccounted ==
  /\ bucket.escrow = SumFunction(escrowed)
  /\ bucket.bonds = SumFunction(bonded)
  /\ bucket.collateral = SumFunction([a \in Accounts |-> stakes[a].total])
  /\ bucket.jurorStake = SumFunction([a \in Accounts |-> jurors[a].total])
  /\ bucket.claimable = SumFunction(claimable)
  /\ bucket.previewFees = SumFunction(feeHeld)

\* A seller's reserved collateral is that of its open purchases, and a juror's
\* locked stake that of the panels it sits on: releases are exact, on every path.  Both
\* are covered by the stake they are part of, across concurrent purchases and panels:
\* slashing in one dispute never eats stake locked in another.
HoldsAccounted ==
  \A a \in Accounts :
    /\ stakes[a].reserved = SumFunction(reservedFor(a))
    /\ jurors[a].locked = SumFunction(lockedFor(a))
    /\ stakes[a].reserved <= stakes[a].total
    /\ jurors[a].locked <= jurors[a].total

\* No checked subtraction of the contract ever underflows, so no settlement path
\* can be blocked by one.
NoUnderflow ==
  /\ \A b \in DOMAIN bucket : bucket[b] >= 0
  /\ \A a \in Accounts : /\ stakes[a].reserved >= 0
                         /\ jurors[a].locked >= 0
                         /\ claimable[a] >= 0

\* The collateral reserved by buy covers the whole charge an upheld dispute makes,
\* whatever the owner does to the parameters in between: neither the case fee nor
\* the penalty is cut short.
CollateralCoversCharge ==
  \A i \in PurchaseId :
    LET p == purchases[i] IN
    Open(i) => p.par.caseFee + PerBps(p.terms.price, p.par.penaltyBps) <= p.terms.collateral

\* Purchases and disputes point at each other, and a purchase is in dispute exactly
\* while its dispute is open.
DisputesMatchPurchases ==
  /\ \A i \in PurchaseId : purchases[i].state = "Disputed" <=>
       \E d \in DisputeId : disputes[d].purchase = i /\ OpenDispute(d)
  /\ \A d \in DisputeId : disputes[d].status # "None" =>
       disputes[d].purchase \in PurchaseId /\ purchases[disputes[d].purchase].dispute = d

\* Panels are of three, never seat a party, and the two rounds share nobody.
PanelsImpartial ==
  \A d \in DisputeId :
    /\ \A r \in Rounds : Cardinality(DOMAIN seats[d][r]) \in {0, SEATS}
    /\ DOMAIN seats[d][1] \cap DOMAIN seats[d][2] = {}
    /\ \A r \in Rounds : \A a \in DOMAIN seats[d][r] :
         LET p == purchases[disputes[d].purchase] IN a # p.buyer /\ a # p.seller

\* A jury's verdict is that of at least two jurors of its last panel; without one
\* the dispute ends only by the fallback, after both rounds.
VerdictIsMajority ==
  \A d \in DisputeId : Jury(d, "Resolved") =>
    LET dd == disputes[d] IN
    IF dd.fallbackNoQuorum
    THEN dd.round = 2 /\ \A r \in Rounds : panelVerdict(seats[d][r]) = "None"
    ELSE Cardinality(votersFor(panel(d), dd.verdict)) >= 2

\* What the jurors of a panel earned, what its minority lost, and the case fee that the
\* loser of a decided dispute paid.
earned(pn) == SumFunction([a \in DOMAIN pn |-> pn[a].reward])
minorityLost(pn, verdict) ==
  SumFunction([a \in revealers(pn) \ votersFor(pn, verdict) |-> pn[a].slashed])
feeCollected(d) ==
  IF disputes[d].verdict = "Uphold" THEN upheldCaseFee(purchases[disputes[d].purchase])
  ELSE rejectOutcome(disputes[d]).caseFee

\* A decided dispute pays the last panel the loser's case fee and the minority's slashes,
\* all but the dust of the division, whatever the fees were when the purchase was made and
\* when it was disputed; nobody of the minority earns more than the majority.  Nobody earns
\* by silence, in a round that failed, or by a fallback.
PotFullyPaid ==
  \A d \in DisputeId :
    LET dd == disputes[d]
        decided == Jury(d, "Resolved") /\ ~dd.fallbackNoQuorum
    IN /\ \A r \in Rounds : \A a \in DOMAIN seats[d][r] :
            seats[d][r][a].reward # 0 => decided /\ r = dd.round /\ seats[d][r][a].revealed
       /\ decided =>
            LET pn == panel(d)
                winners == votersFor(pn, dd.verdict)
            IN /\ feeCollected(d) + minorityLost(pn, dd.verdict) - earned(pn)
                    \in 0..Cardinality(winners) - 1
               /\ \A a \in winners, b \in DOMAIN pn : pn[b].reward <= pn[a].reward

\* What purchase p has added to the statistics by now; upheld says that its dispute, if
\* any, was decided for the buyer.
one(b) == IF b THEN 1 ELSE 0
counted(p, upheld) ==
  LET kept  == IF p.state = "Settled" THEN p.terms.price - p.refunded ELSE 0
      stars == IF p.rated THEN p.stars ELSE 0
  IN [settledCount |-> one(p.state = "Settled"), fullRefunds |-> one(p.state = "Refunded"),
      retainedVolume |-> kept, qualifyingTx |-> one(kept > 0),
      disputesOpened |-> one(p.dispute # 0), disputesUpheld |-> one(upheld),
      ratingCount |-> one(p.rated), ratingSum |-> stars,
      ratedRetained |-> IF p.rated THEN kept ELSE 0, weightedRatingSum |-> kept * stars]

upheldFor(d) == d # 0 /\ disputes[d].status = "Resolved" /\ disputes[d].verdict = "Uphold"
worth(i)     == counted(purchases[i], upheldFor(purchases[i].dispute))
copiesOf(v)  == {i \in PurchaseId : purchases[i].version = v}
salesBy(a)   == {i \in PurchaseId : purchases[i].seller = a}
catalogOf(a) == {v \in VersionId : versions[v].seller = a}

\* Reputation is exactly that of the purchases, each counted once in every figure of its
\* version and of its seller, on whichever path it closed: settlements, full refunds,
\* disputes opened and upheld, the volume kept after refunds, and ratings weighed by it.
\* A seller's disputes and volume are those of its versions together.
ReputationConsistent ==
  /\ \A v \in VersionId : \A k \in DOMAIN versionStats[v] :
       versionStats[v][k] = SumFunction([i \in copiesOf(v) |-> worth(i)[k]])
  /\ \A a \in Accounts : \A k \in DOMAIN sellerStats[a] :
       sellerStats[a][k] = SumFunction([i \in salesBy(a) |-> worth(i)[k]])
  /\ \A a \in Accounts : \A k \in {"disputesOpened", "disputesUpheld", "retainedVolume"} :
       sellerStats[a][k] = SumFunction([v \in catalogOf(a) |-> versionStats[v][k]])

---------------------------------------------------------------------------
(* Action properties *)

\* Once a juror of a round has revealed, no commitment of that round changes: nobody
\* chooses a verdict having seen another's (commitVote's and revealVote's guards).
NoCommitAfterReveal ==
  [][\A d \in DisputeId : \A r \in Rounds :
       revealers(seats[d][r]) # {} =>
         \A a \in DOMAIN seats[d][r] : seats'[d][r][a].commitment = seats[d][r][a].commitment]_vars

\* Re-arming a stale selection does not move the grace deadline, so a panel nobody
\* can fill still fails over (selectJurors, "no permanent lock").
GraceDeadlineFixed ==
  [][\A d \in DisputeId :
       disputes[d].status = "AwaitingSelection" /\ disputes'[d].round = disputes[d].round =>
         disputes'[d].selectionDeadline = disputes[d].selectionDeadline]_vars

\* A seller who reclaims a fee and asks again never pays less (requestPreview).
PreviewFeeNeverDrops ==
  [][\A v \in VersionId : previews'[v].fee >= previews[v].fee]_vars

---------------------------------------------------------------------------
(* Refinement: what the contract promises about each purchase. *)
dealOf(p) == [stage |-> p.state, price |-> p.terms.price, cap |-> refundCap(p),
              refund |-> p.refunded, fee |-> p.fee, proceeds |-> p.sellerProceeds]
deals == [i \in PurchaseId |-> dealOf(purchases[i])]
Lifecycle == INSTANCE PurchaseLifecycle WITH Purchases <- PurchaseId, deal <- deals

\* Every behaviour of the contract is one of PurchaseLifecycle: deadlines, panels,
\* parameter changes and retries never change what a purchase can pay out.
ImplementsLifecycle == Lifecycle!Spec

---------------------------------------------------------------------------
(* Liveness *)

\* Every purchase is closed: money in escrow is never stuck, with any number of
\* jurors, verifiers and relays silent.
EveryPurchaseCloses ==
  \A i \in PurchaseId : Open(i) ~> purchases[i].state \in {"Settled", "Refunded"}
=============================================================================
