---------------------------- MODULE EnvMarketJury ----------------------------
(***************************************************************************)
(* EnvMarket.sol, the section "jurors": stake, the draw of a panel, commit *)
(* and reveal, the tally, and the second round or fallback.                *)
(***************************************************************************)
EXTENDS EnvMarketPurchases

depositJurorStake(a, amount) ==
  /\ jurors[a].approved
  /\ amount # 0 /\ jurors[a].total + amount <= MaxStake
  /\ jurors' = [jurors EXCEPT ![a] =
       [jurors[a] EXCEPT !.total = @ + amount, !.stakeBlock = blockNumber]]
  /\ bucket' = [bucket EXCEPT !.jurorStake = @ + amount]
  /\ balance' = balance + amount
  /\ UNCHANGED <<chain, admin, catalog, previews, purchases, nextPurchaseId, cases,
                 stakes, claimable, stats>>

withdrawJurorStake(a, amount) ==
  /\ amount # 0 /\ amount <= jurors[a].total - jurors[a].locked
  /\ jurors' = [jurors EXCEPT ![a].total = @ - amount]
  /\ bucket' = [bucket EXCEPT !.jurorStake = @ - amount]
  /\ balance' = balance - amount
  /\ UNCHANGED <<chain, admin, catalog, previews, purchases, nextPurchaseId, cases,
                 stakes, claimable, stats>>

\* The stake a seat locks, as snapshotted by openDispute.
seatStake_current(dd) == params.jurorStake
seatStake(dd) == dd.par.jurorStake

Jury(d, status) == disputes[d].ground = "FalseDescription" /\ disputes[d].status = status

panel(d) == seats[d][disputes[d].round]

eligible_anyRound(d) ==
  LET dd == disputes[d]
      p  == purchases[dd.purchase]
  IN {a \in jurorList :
        /\ jurors[a].approved
        /\ jurors[a].total - jurors[a].locked >= seatStake(dd)
        /\ a # p.buyer /\ a # p.seller
        /\ jurors[a].stakeBlock <= dd.selectionBlock}

\* Jurors the draw considers.
eligible(d) ==
  LET dd == disputes[d]
      p  == purchases[dd.purchase]
  IN {a \in jurorList :
        /\ jurors[a].approved
        /\ jurors[a].total - jurors[a].locked >= seatStake(dd)
        /\ a # p.buyer /\ a # p.seller
        /\ jurors[a].stakeBlock <= dd.selectionBlock
        /\ dd.round = 2 => a \notin DOMAIN seats[d][1]}

\* _advanceOrFallback in round 1: a second round is armed.
secondRound(dd) ==
  armSelection([dd EXCEPT !.round = 2, !.status = "AwaitingSelection",
                          !.commitDeadline = 0, !.revealDeadline = 0])

\* The checks selectJurors opens with; its three outcomes follow.
SelectionOpen(d) == Jury(d, "AwaitingSelection") /\ blockNumber > disputes[d].selectionBlock

\* blockhash(selectionBlock) = 0
Stale(d) == blockNumber > disputes[d].selectionBlock + BLOCKHASH_WINDOW

rearmSelection_movesDeadline(d) ==
  /\ Stale(d)
  /\ disputes' = [disputes EXCEPT ![d] = armSelection(@)]
  /\ UNCHANGED <<chain, balance, admin, catalog, previews, purchases, nextPurchaseId, seats,
                 nextDisputeId, stakes, jurors, claimable, bucket, stats>>

\* selectJurors on a stale selection block: the grace deadline does not move.
rearmSelection(d) ==
  /\ Stale(d)
  /\ disputes' = [disputes EXCEPT ![d].selectionBlock = blockNumber + 2]
  /\ UNCHANGED <<chain, balance, admin, catalog, previews, purchases, nextPurchaseId, seats,
                 nextDisputeId, stakes, jurors, claimable, bucket, stats>>

\* selectJurors: the three lowest draws of a hash are any three eligible jurors.
seatPanel(d, chosen) ==
  LET dd == disputes[d] IN
  /\ ~Stale(d)
  /\ chosen \subseteq eligible(d) /\ Cardinality(chosen) = SEATS
  /\ seats' = [seats EXCEPT ![d][dd.round] = [a \in chosen |-> EmptySeat]]
  /\ jurors' = [a \in Accounts |->
       IF a \in chosen THEN [jurors[a] EXCEPT !.locked = @ + seatStake(dd)] ELSE jurors[a]]
  /\ disputes' = [disputes EXCEPT ![d] =
       [@ EXCEPT !.status = "Voting",
                 !.commitDeadline = timestamp + dd.par.commitWindow,
                 !.revealDeadline = timestamp + dd.par.commitWindow + dd.par.revealWindow]]
  /\ UNCHANGED <<chain, balance, admin, catalog, previews, purchases, nextPurchaseId,
                 nextDisputeId, stakes, claimable, bucket, stats>>

\* selectJurors when too few are eligible and the grace deadline has passed.
panelUnfillable(d) ==
  /\ ~Stale(d)
  /\ Cardinality(eligible(d)) < SEATS
  /\ timestamp > disputes[d].selectionDeadline
  /\ IF disputes[d].round = 1
     THEN /\ disputes' = [disputes EXCEPT ![d] = secondRound(@)]
          /\ UNCHANGED <<chain, balance, admin, catalog, previews, purchases, nextPurchaseId,
                         nextDisputeId, stakes, claimable, bucket, stats>>
     ELSE resolve(d, fallbackOutcome(disputes[d]), NoExtra)
  /\ UNCHANGED <<seats, jurors>>

selectJurors(d) ==
  /\ SelectionOpen(d)
  /\ \/ rearmSelection(d)
     \/ \E chosen \in SUBSET eligible(d) : seatPanel(d, chosen)
     \/ panelUnfillable(d)

allCommitted_some(d) == \E a \in DOMAIN panel(d) : panel(d)[a].commitment # "None"
allCommitted(d) == \A a \in DOMAIN panel(d) : panel(d)[a].commitment # "None"

commitVote(d, a, verdict) ==
  LET dd == disputes[d] IN
  /\ Jury(d, "Voting")
  /\ timestamp <= dd.commitDeadline
  /\ a \in DOMAIN panel(d) /\ panel(d)[a].commitment = "None"
  /\ seats' = [seats EXCEPT ![d][dd.round][a].commitment = verdict]
  /\ UNCHANGED <<chain, balance, admin, catalog, previews, purchases, nextPurchaseId, disputes,
                 nextDisputeId, stakes, jurors, claimable, bucket, stats>>

revealVote_anyTime(d, a) ==
  LET dd == disputes[d] IN
  /\ Jury(d, "Voting")
  /\ timestamp > dd.commitDeadline \/ allCommitted(d)
  /\ a \in DOMAIN panel(d)
  /\ panel(d)[a].commitment # "None" /\ ~panel(d)[a].revealed
  /\ seats' = [seats EXCEPT ![d][dd.round][a].revealed = TRUE]
  /\ UNCHANGED <<chain, balance, admin, catalog, previews, purchases, nextPurchaseId, disputes,
                 nextDisputeId, stakes, jurors, claimable, bucket, stats>>

revealVote(d, a) ==
  LET dd == disputes[d] IN
  /\ Jury(d, "Voting")
  /\ timestamp <= dd.revealDeadline
  /\ timestamp > dd.commitDeadline \/ allCommitted(d)
  /\ a \in DOMAIN panel(d)
  /\ panel(d)[a].commitment # "None" /\ ~panel(d)[a].revealed
  /\ seats' = [seats EXCEPT ![d][dd.round][a].revealed = TRUE]
  /\ UNCHANGED <<chain, balance, admin, catalog, previews, purchases, nextPurchaseId, disputes,
                 nextDisputeId, stakes, jurors, claimable, bucket, stats>>

(***************************************************************************)
(* tallyDispute.  The seat of a juror after the tally: what it earns and   *)
(* loses given the verdict ("None" when the round failed).                 *)
(***************************************************************************)
seatSlash(dd, seat, verdict) ==
  IF ~seat.revealed THEN nonRevealSlash(dd)
  ELSE IF verdict # "None" /\ seat.commitment # verdict THEN minoritySlash(dd) ELSE 0

seatReward(dd, seat, verdict, per, share) ==
  IF ~seat.revealed \/ verdict = "None" THEN 0
  ELSE per + (IF seat.commitment = verdict THEN share ELSE 0)

TallyReady_allReveal(d) == Jury(d, "Voting") /\ revealers(panel(d)) = DOMAIN panel(d)

TallyReady(d) ==
  /\ Jury(d, "Voting")
  /\ timestamp > disputes[d].revealDeadline \/ revealers(panel(d)) = DOMAIN panel(d)

\* Every seat of the round is unlocked, the slashed ones at a loss.
settleSeats(d, verdict, per, share) ==
  LET dd == disputes[d]
      pn == panel(d)
  IN
  /\ seats' = [seats EXCEPT ![d][dd.round] = [a \in DOMAIN pn |->
       [pn[a] EXCEPT !.slashed = seatSlash(dd, pn[a], verdict),
                     !.reward = seatReward(dd, pn[a], verdict, per, share)]]]
  /\ jurors' = [a \in Accounts |->
       IF a \in DOMAIN pn
       THEN [jurors[a] EXCEPT !.locked = @ - seatStake(dd),
                              !.total = @ - seatSlash(dd, pn[a], verdict)]
       ELSE jurors[a]]

\* A majority: the loser's case fee and the minority's slashes pay the jurors.
tallyDecided(d) ==
  LET dd == disputes[d]
      pn == panel(d)
      verdict  == panelVerdict(pn)
      out == IF verdict = "Uphold" THEN upholdOutcome(purchases[dd.purchase], dd, dd.taskMask)
             ELSE rejectOutcome(dd)
      reveals  == Cardinality(revealers(pn))
      majority == Cardinality(votersFor(pn, verdict))
      per   == participationPay(dd, out.caseFee, reveals)
      share == bonusShare(dd, out.caseFee, reveals, majority)
      missing == (SEATS - reveals) * nonRevealSlash(dd)
      dust == bonusPool(dd, out.caseFee, reveals, majority) - share * majority
  IN
  /\ TallyReady(d) /\ verdict # "None"
  /\ settleSeats(d, verdict, per, share)
  /\ resolve(d, out,
       [treasury |-> 0,
        reserve |-> missing + dust,
        jurorStake |-> missing + (reveals - majority) * minoritySlash(dd),
        claimable |-> per * reveals + share * majority,
        pay |-> [a \in Accounts |-> IF a \in DOMAIN pn
                                    THEN seatReward(dd, pn[a], verdict, per, share) ELSE 0]])

\* No majority: only non-revealers lose, and the round advances or falls back.
tallyFailed(d) ==
  LET dd == disputes[d]
      missing == (SEATS - Cardinality(revealers(panel(d)))) * nonRevealSlash(dd)
  IN
  /\ TallyReady(d) /\ panelVerdict(panel(d)) = "None"
  /\ settleSeats(d, "None", 0, 0)
  /\ IF dd.round = 1
     THEN /\ disputes' = [disputes EXCEPT ![d] = secondRound(@)]
          /\ bucket' = [bucket EXCEPT !.jurorStake = @ - missing, !.reserve = @ + missing]
          /\ UNCHANGED <<chain, balance, admin, catalog, previews, purchases, nextPurchaseId,
                         nextDisputeId, stakes, claimable, stats>>
     ELSE resolve(d, fallbackOutcome(dd),
                  [NoExtra EXCEPT !.reserve = missing, !.jurorStake = missing])

tallyDispute(d) == tallyDecided(d) \/ tallyFailed(d)
=============================================================================
