------------------------------ MODULE WebPages ------------------------------
(***************************************************************************)
(* The web app: what its pages let a visitor do, and what they say will    *)
(* follow.  Each page computes that again, in the browser, from a record   *)
(* it reads through EnvMarketViews, so it has to agree with the contract.  *)
(* The browser's clock and block number are taken for those of the latest  *)
(* block; a page that is out of date offers a call that useTx simulates    *)
(* first and the contract refuses.  A card is a record: the buttons it     *)
(* offers, or the figures it shows.                                        *)
(***************************************************************************)
EXTENDS EnvMarketClients

now == timestamp            \* useNow
latestBlock == blockNumber  \* useBlockNumber

---------------------------------------------------------------------------
(* EnvMarketViews, as the pages use it *)

sellerStake(a) == [reserved |-> stakes[a].reserved, available |-> freeCollateral(a)]

jurorInfo(a) == [approved |-> jurors[a].approved, free |-> jurors[a].total - jurors[a].locked]

previewInfo(v) ==
  LET pv == previews[v] IN
  [paid |-> pv.paidAt > 0 /\ ~pv.reclaimed, released |-> pv.released,
   deadline |-> IF pv.paidAt = 0 THEN 0 ELSE pv.paidAt + pv.timeout]

quoteDispute(i, mask) ==
  [requested |-> requestedRefund(purchases[i], mask), bond |-> bondFor(purchases[i], mask)]

---------------------------------------------------------------------------
(* /purchase/i, seen by a *)

RateBlock(a, i) == a = purchases[i].buyer /\ ~purchases[i].rated

NextAction(a, i) ==
  LET p == purchases[i] IN
  [refundUndelivered |-> p.state = "Funded" /\ now > p.deliveryDeadline,
   finalize          |-> p.state = "Delivered" /\ now > p.challengeDeadline,
   openDispute       |-> p.state = "Delivered" /\ now <= p.challengeDeadline /\ a = p.buyer,
   rate              |-> p.state = "Settled" /\ p.deliveredAt > 0 /\ RateBlock(a, i)]

\* The banner of every page of the visitor's own.
ClaimBanner(a) == claimable[a] # 0

\* What "release payment" and the no-fault close are said to give the seller.
toSeller(i) == purchases[i].terms.price - PerBps(purchases[i].terms.price, purchases[i].par.feeBps)

\* The progress bar: steps done, and the one under way if any.
Tracker(i) ==
  LET p == purchases[i]
      settled == p.state = "Settled"
      inWindow == p.deliveredAt # 0 /\ now <= p.challengeDeadline
      done == {"paid"}
        \cup (IF p.deliveredAt # 0 THEN {"delivered"} ELSE {})
        \cup (IF p.dispute # 0 /\ p.state # "Disputed" THEN {"reported"} ELSE {})
        \cup (IF p.dispute # 0 /\ settled THEN {"decided"} ELSE {})
        \cup (IF p.dispute = 0 /\ p.deliveredAt # 0 /\ (settled \/ ~inWindow) THEN {"window"} ELSE {})
        \cup (IF p.dispute = 0 /\ settled THEN {"complete"} ELSE {})
  IN IF p.state = "Refunded" /\ p.deliveredAt = 0
     THEN [done |-> {"paid", "undelivered", "refunded"}, active |-> {}]
     ELSE [done |-> done,
           active |-> (IF p.deliveredAt = 0 THEN {"delivered"} ELSE {})
                        \cup (IF p.state = "Disputed" THEN {"reported"} ELSE {})
                        \cup (IF p.dispute = 0 /\ inWindow /\ ~settled THEN {"window"} ELSE {})]

---------------------------------------------------------------------------
(* /dispute/d, seen by a *)

MechanicalCard(d) ==
  [timeoutMechanical |-> Mechanical(d) /\ disputes[d].status = "Voting"
                           /\ now > disputes[d].verifierDeadline]

allRevealed(d) == \A a \in DOMAIN panel(d) : panel(d)[a].revealed

JuryCard(d) ==
  LET dd == disputes[d] IN
  [selectJurors |-> Jury(d, "AwaitingSelection") /\ latestBlock > dd.selectionBlock,
   tallyDispute |-> Jury(d, "Voting") /\ (now > dd.revealDeadline \/ allRevealed(d))]

MyJurySeat_untilDeadline(a, d) ==
  LET dd == disputes[d]
      seated == Jury(d, "Voting") /\ a \in DOMAIN panel(d)
      committed == panel(d)[a].commitment # "None"
  IN
  [commitVote |-> seated /\ ~committed /\ now <= dd.commitDeadline,
   revealVote |-> seated /\ committed /\ ~panel(d)[a].revealed
                    /\ now > dd.commitDeadline /\ now <= dd.revealDeadline]

\* A seat's holder, in the browser that has the secret of its vote.
MyJurySeat(a, d) ==
  LET dd == disputes[d]
      seated == Jury(d, "Voting") /\ a \in DOMAIN panel(d)
      committed == panel(d)[a].commitment # "None"
  IN
  [commitVote |-> seated /\ ~committed /\ now <= dd.commitDeadline,
   revealVote |-> seated /\ committed /\ ~panel(d)[a].revealed
                    /\ (now > dd.commitDeadline \/ allCommitted(d)) /\ now <= dd.revealDeadline]

\* The stages of a jury's dispute.
Stages(d) ==
  LET dd == disputes[d]
      all == DOMAIN seats[d][1] \cup DOMAIN seats[d][2]
      seat(a) == IF a \in DOMAIN seats[d][1] THEN seats[d][1][a] ELSE seats[d][2][a]
      resolved == dd.status = "Resolved"
      voting   == Jury(d, "Voting")
      casting  == voting /\ ~allCommitted(d) /\ now <= dd.commitDeadline
      anyCommit == \E a \in all : seat(a).commitment # "None"
      anyReveal == \E a \in all : seat(a).revealed
      done == {"reported"}
        \cup (IF dd.status # "AwaitingSelection" /\ all # {} THEN {"drawn"} ELSE {})
        \cup (IF (voting /\ ~casting) \/ (resolved /\ anyCommit) THEN {"cast"} ELSE {})
        \cup (IF (voting /\ ~casting /\ allRevealed(d)) \/ (resolved /\ anyReveal)
              THEN {"revealed"} ELSE {})
        \cup (IF resolved THEN {"decided"} ELSE {})
  IN [done |-> done, casting |-> casting,
      skipped |-> IF resolved THEN {"drawn", "cast", "revealed"} \ done ELSE {}]

\* OutcomeCard, but for the deposit: that is what the resolving transaction credited.
OutcomeCard(d) ==
  LET dd == disputes[d]
      p == purchases[dd.purchase]
      rewards(r) == SumFunction([a \in DOMAIN seats[d][r] |-> seats[d][r][a].reward])
      slashes(r) == SumFunction([a \in DOMAIN seats[d][r] |-> seats[d][r][a].slashed])
  IN [refund |-> dd.refund, proceeds |-> p.sellerProceeds, fee |-> p.fee, penalty |-> p.penalties,
      jurorPaid |-> rewards(1) + rewards(2), jurorSlashed |-> slashes(1) + slashes(2)]

---------------------------------------------------------------------------
(* /seller/s and its environments *)

\* tradeRows, from the events of a purchase: each is emitted where its state is set.
tradeRow(i) ==
  LET p == purchases[i]
      settled == p.state = "Settled"
      retained == p.terms.price - p.refunded
  IN [settled |-> settled, retained |-> retained,
      fullRefund |-> p.state = "Refunded" \/ (settled /\ retained = 0)]

salesOf(s) == {i \in PurchaseId : purchases[i].state # "None" /\ purchases[i].seller = s}
openSales(s) == {i \in salesOf(s) : ~tradeRow(i).settled /\ ~tradeRow(i).fullRefund}

concentration(s) ==
  LET mine == {i \in salesOf(s) : tradeRow(i).settled /\ tradeRow(i).retained > 0}
  IN [count |-> Cardinality(mine),
      totalRetained |-> SumFunction([i \in mine |-> tradeRow(i).retained])]

KeeperRow(i) ==
  LET p == purchases[i] IN
  [finalize |-> p.state = "Delivered" /\ now > p.challengeDeadline /\ p.dispute = 0,
   refundUndelivered |-> p.state = "Funded" /\ now > p.deliveryDeadline]

\* VersionRow and PreviewActions; the fee paid is the one the TEE quoted.
PreviewActions(a, v) ==
  LET info == previewInfo(v)
      shown == a = versions[v].seller /\ ~versions[v].report
  IN [requestPreview |-> shown /\ ~info.paid,
      reclaimPreviewFee |-> shown /\ info.paid /\ ~info.released /\ now > info.deadline]

\* BuyPanel has no blocker for a, and DepositAction/WithdrawAction their largest amounts.
BuyPanel(a, v) ==
  /\ versions[v].active /\ versions[v].report
  /\ sellerStake(versions[v].seller).available >= versions[v].terms.collateral
  /\ a # versions[v].seller

WithdrawAction(a) ==
  [collateral |-> sellerStake(a).available,
   jurorStake |-> IF jurorInfo(a).approved THEN jurorInfo(a).free ELSE 0]

---------------------------------------------------------------------------
(* What the pages compute agrees with the contract's own records. *)

\* A seller's page counts its sales and their volume again from the events; whatever was
\* refunded, disputed or rated in between, it arrives at the contract's statistics.
ConcentrationMatches ==
  \A a \in Accounts :
    concentration(a) = [count |-> sellerStats[a].qualifyingTx,
                        totalRetained |-> sellerStats[a].retainedVolume]

---------------------------------------------------------------------------
(* A button is offered exactly when the call would be accepted. *)

PurchasePageMatches ==
  \A i \in PurchaseId :
    LET p == purchases[i]
        refund == ENABLED refundUndelivered(i)
        release == ENABLED finalize(i)
        report == \E m \in SUBSET (1..p.terms.taskCount) : ENABLED openDispute(i, "FalseDescription", m)
        rating == ENABLED rate(i, 5)
    IN /\ \A a \in Accounts :
            NextAction(a, i) = [refundUndelivered |-> refund, finalize |-> release,
                                openDispute |-> report /\ a = p.buyer,
                                rate |-> rating /\ a = p.buyer]
       /\ KeeperRow(i) = [finalize |-> release, refundUndelivered |-> refund]
       /\ (release \/ refund) => i \in openSales(p.seller)

DisputePageMatches ==
  \A d \in DisputeId :
    LET fillable == Cardinality(eligible(d)) >= SEATS \/ timestamp > disputes[d].selectionDeadline
    IN /\ MechanicalCard(d).timeoutMechanical <=> ENABLED timeoutMechanical(d)
       /\ JuryCard(d).tallyDispute <=> ENABLED tallyDispute(d)
       /\ ENABLED selectJurors(d) => JuryCard(d).selectJurors
       \* the page does not know who is eligible: an early draw may still fail
       /\ JuryCard(d).selectJurors /\ (fillable \/ Stale(d)) => ENABLED selectJurors(d)
       /\ \A a \in JurorPool :
            MyJurySeat(a, d) = [commitVote |-> ENABLED commitVote(d, a, "Uphold"),
                                revealVote |-> ENABLED revealVote(d, a)]
       /\ Stages(d).casting <=> \E a \in JurorPool : MyJurySeat(a, d).commitVote

SellerPageMatches ==
  /\ \A v \in VersionId : versions[v].seller # NoAccount =>
       LET request == ENABLED requestPreview(v, minPreviewFee(v))
           reclaim == ENABLED reclaimPreviewFee(v)
       IN \A a \in Accounts :
            PreviewActions(a, v) = [requestPreview |-> request /\ a = versions[v].seller,
                                    reclaimPreviewFee |-> reclaim /\ a = versions[v].seller]
  /\ \A a \in Accounts :
       /\ \A n \in 1..MaxStake :
            /\ n <= WithdrawAction(a).collateral <=> ENABLED withdrawCollateral(a, n)
            \* a juror whose approval was taken back has no card to withdraw from
            /\ n <= WithdrawAction(a).jurorStake <=> jurors[a].approved /\ ENABLED withdrawJurorStake(a, n)
       /\ ClaimBanner(a) <=> ENABLED withdraw(a)

\* The panel checks the seller's stake, but not that the collateral still covers what
\* the owner asks for since.
ListingPageMatches ==
  nextPurchaseId \in PurchaseId =>
    \A v \in VersionId, a \in Accounts :
      /\ ENABLED buy(a, v) => BuyPanel(a, v)
      /\ BuyPanel(a, v) /\ ~ENABLED buy(a, v) =>
           versions[v].terms.collateral < requiredCollateral(versions[v].terms.price, params)

\* Every page offers a step when the contract takes it and not otherwise, so nobody is
\* told to wait for a deadline that has passed, or invited to a call that reverts.
PagesMatchMarket ==
  /\ PurchasePageMatches /\ DisputePageMatches /\ SellerPageMatches /\ ListingPageMatches

---------------------------------------------------------------------------
(* What the pages announce is what happens. *)

credited(a) == claimable'[a] - claimable[a]
closes(i) == purchases[i].state # "Settled" /\ purchases'[i].state = "Settled"
decided(d) == disputes[d].status # "Resolved" /\ disputes'[d].status = "Resolved"

\* The refund of a key that never came, the release of a payment, the no-fault close.
CreditsAsShown ==
  \A i \in PurchaseId :
    LET p == purchases[i] IN
    /\ p.state # "Refunded" /\ purchases'[i].state = "Refunded" => credited(p.buyer) = p.terms.price
    /\ closes(i) /\ (p.dispute = 0 \/ disputes'[p.dispute].fallbackNoQuorum) =>
         /\ credited(p.seller) = toSeller(i)
         /\ p.dispute # 0 => credited(p.buyer) = disputes[p.dispute].bond

\* The form's quote is what openDispute takes and asks for, and what a buyer proved
\* right on every task gets back.
QuoteKept ==
  \A d \in DisputeId :
    /\ disputes[d].status = "None" /\ disputes'[d].status # "None" =>
         LET quote == quoteDispute(disputes'[d].purchase, disputes'[d].taskMask) IN
         /\ quote = [requested |-> disputes'[d].requested, bond |-> disputes'[d].bond]
         /\ balance' - balance = quote.bond
    /\ decided(d) /\ disputes'[d].confirmedMask = disputes[d].taskMask =>
         disputes'[d].refund = disputes[d].requested

\* The outcome adds up: the rows split the price, the deposit comes back whole or not at
\* all, and the jurors get no more than the case fee and what jurors lost.
OutcomeAddsUp ==
  \A d \in DisputeId : decided(d) =>
    LET out == OutcomeCard(d)'
        p == purchases[disputes[d].purchase]
        depositBack == credited(p.buyer) - out.refund
    IN /\ out.refund + out.proceeds + out.fee = p.terms.price
       /\ depositBack = IF disputes'[d].verdict = "Uphold" \/ disputes'[d].fallbackNoQuorum
                        THEN disputes[d].bond ELSE 0
       /\ credited(p.seller) = out.proceeds
       /\ out.jurorPaid <= p.par.caseFee + out.jurorSlashed
       /\ disputes'[d].fallbackNoQuorum => out.jurorPaid = 0

\* A progress bar never goes back, but for the stages of a jury's second round and those
\* nobody took part in.
ProgressForward ==
  /\ \A i \in PurchaseId : purchases[i].state # "None" => Tracker(i).done \subseteq Tracker(i)'.done
  /\ \A d \in DisputeId : disputes[d].ground = "FalseDescription" /\ disputes'[d].round = disputes[d].round =>
       Stages(d).done \subseteq Stages(d)'.done \cup Stages(d)'.skipped

\* Nothing that happens was hidden from those who could make it happen.
SaleOffered(i) ==
  LET p == purchases[i]
      q == purchases'[i]
      page == NextAction(p.buyer, i)
      refunded == p.state # "Refunded" /\ q.state = "Refunded"
  IN /\ refunded => page.refundUndelivered /\ KeeperRow(i).refundUndelivered
     /\ closes(i) /\ p.dispute = 0 => page.finalize /\ KeeperRow(i).finalize
     /\ refunded \/ closes(i) => i \in openSales(p.seller)
     /\ q.state = "Disputed" => p.state = "Disputed" \/ page.openDispute
     /\ q.rated => p.rated \/ page.rate
     /\ p.state = "None" => q.state = "None" \/ BuyPanel(q.buyer, q.version)

PanelOffered(d) ==
  LET was == disputes[d]
      is  == disputes'[d]
  IN /\ Mechanical(d) /\ is.fallbackNoQuorum => was = is \/ MechanicalCard(d).timeoutMechanical
     /\ Jury(d, "AwaitingSelection") => was = is \/ JuryCard(d).selectJurors
     /\ Jury(d, "Voting") =>
          /\ was = is \/ JuryCard(d).tallyDispute
          /\ \A a \in DOMAIN panel(d) :
               LET seat == panel(d)[a]
                   cast == seats'[d][was.round][a]
               IN /\ cast.commitment # seat.commitment =>
                       MyJurySeat(a, d).commitVote /\ Stages(d).casting
                  /\ cast.revealed # seat.revealed => MyJurySeat(a, d).revealVote

PreviewOffered(v) ==
  LET page == PreviewActions(versions[v].seller, v)
      paid == previewInfo(v).paid
  IN /\ ~paid /\ previewInfo(v)'.paid => page.requestPreview
     /\ paid /\ ~previewInfo(v)'.paid => page.reclaimPreviewFee

\* Whatever becomes of a purchase, a dispute or a preview by a visitor's call, the page of a
\* visitor who may make that call offered it just before, however parameters have changed.
NothingHidden ==
  /\ \A i \in PurchaseId : SaleOffered(i)
  /\ \A d \in DisputeId : PanelOffered(d)
  /\ \A v \in VersionId : PreviewOffered(v)

\* What a page showed before a call is what the call does: the amounts on its buttons, the
\* quote of a dispute, the outcome's rows, and progress that does not run backwards.  And
\* nothing happens that no page had a button for.
PagesKeepPromises ==
  [][CreditsAsShown /\ QuoteKept /\ OutcomeAddsUp /\ ProgressForward /\ NothingHidden]_vars
=============================================================================
