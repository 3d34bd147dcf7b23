-------------------------- MODULE EnvMarketListings --------------------------
(***************************************************************************)
(* EnvMarket.sol, the sections ADMIN, PULL PAYMENTS, LISTINGS/VERSIONS,    *)
(* seller-paid previews and COLLATERAL.  A call whose checks fail reverts, *)
(* so an action is a call that succeeds; arguments that only a check reads *)
(* are left out.                                                           *)
(***************************************************************************)
EXTENDS EnvMarketMath

\* A block: its number and timestamp advance together.
NewBlock ==
  /\ blockNumber < MaxBlock
  /\ blockNumber' = blockNumber + 1
  /\ timestamp' = timestamp + BlockTime
  /\ UNCHANGED <<balance, admin, catalog, previews, purchases, nextPurchaseId, cases,
                 stakes, jurors, claimable, bucket, stats>>

---------------------------------------------------------------------------
(* _credit: pull-payment balances c after amount is credited to a.         *)
credit(c, a, amount) == [c EXCEPT ![a] = @ + amount]

---------------------------------------------------------------------------
(* ADMIN: onlyOwner.                                                       *)
setParams_unchecked(p) ==
  /\ params' = p
  /\ UNCHANGED <<chain, balance, previewConfig, isRunner, isRelay, isVerifier, catalog, previews,
                 purchases, nextPurchaseId, cases, stakes, jurors, claimable, bucket, stats>>

setParams(p) ==
  /\ ValidParams(p)
  /\ params' = p
  /\ UNCHANGED <<chain, balance, previewConfig, isRunner, isRelay, isVerifier, catalog, previews,
                 purchases, nextPurchaseId, cases, stakes, jurors, claimable, bucket, stats>>

setPreviewConfig(recipient, minFee, timeout) ==
  /\ timeout # 0
  /\ previewConfig' = [recipient |-> recipient, minFee |-> minFee, timeout |-> timeout]
  /\ UNCHANGED <<chain, balance, params, isRunner, isRelay, isVerifier, catalog, previews,
                 purchases, nextPurchaseId, cases, stakes, jurors, claimable, bucket, stats>>

setPreviewFeeRecipient(a) == setPreviewConfig(a, previewConfig.minFee, previewConfig.timeout)
setMinPreviewFee(fee)     == setPreviewConfig(previewConfig.recipient, fee, previewConfig.timeout)
setPreviewTimeout(t)      == setPreviewConfig(previewConfig.recipient, previewConfig.minFee, t)

Allow(role, a, allowed) == IF allowed THEN role \cup {a} ELSE role \ {a}

setRunner(a, allowed) ==
  /\ isRunner' = Allow(isRunner, a, allowed)
  /\ UNCHANGED <<chain, balance, params, previewConfig, isRelay, isVerifier, catalog, previews,
                 purchases, nextPurchaseId, cases, stakes, jurors, claimable, bucket, stats>>

setRelay(a, allowed) ==
  /\ isRelay' = Allow(isRelay, a, allowed)
  /\ UNCHANGED <<chain, balance, params, previewConfig, isRunner, isVerifier, catalog, previews,
                 purchases, nextPurchaseId, cases, stakes, jurors, claimable, bucket, stats>>

setVerifier(a, allowed) ==
  /\ isVerifier' = Allow(isVerifier, a, allowed)
  /\ UNCHANGED <<chain, balance, params, previewConfig, isRunner, isRelay, catalog, previews,
                 purchases, nextPurchaseId, cases, stakes, jurors, claimable, bucket, stats>>

jurorList == {a \in Accounts : jurors[a].listed}

approveJuror(a, approved) ==
  /\ jurors[a].listed \/ Cardinality(jurorList) < MAX_JURORS
  /\ jurors' = [jurors EXCEPT ![a] = [@ EXCEPT !.listed = TRUE, !.approved = approved]]
  /\ UNCHANGED <<chain, balance, admin, catalog, previews, purchases, nextPurchaseId, cases,
                 stakes, claimable, bucket, stats>>

withdrawTreasury_unchecked(amount) ==
  /\ bucket' = [bucket EXCEPT !.treasury = @ - amount]
  /\ balance' = balance - amount
  /\ UNCHANGED <<chain, admin, catalog, previews, purchases, nextPurchaseId, cases,
                 stakes, jurors, claimable, stats>>

withdrawTreasury(amount) ==
  /\ amount <= bucket.treasury
  /\ bucket' = [bucket EXCEPT !.treasury = @ - amount]
  /\ balance' = balance - amount
  /\ UNCHANGED <<chain, admin, catalog, previews, purchases, nextPurchaseId, cases,
                 stakes, jurors, claimable, stats>>

withdrawReserve(amount) ==
  /\ amount <= bucket.reserve
  /\ bucket' = [bucket EXCEPT !.reserve = @ - amount]
  /\ balance' = balance - amount
  /\ UNCHANGED <<chain, admin, catalog, previews, purchases, nextPurchaseId, cases,
                 stakes, jurors, claimable, stats>>

\* withdraw: the caller takes its whole claimable balance.
withdraw(a) ==
  /\ claimable[a] # 0
  /\ claimable' = [claimable EXCEPT ![a] = 0]
  /\ bucket' = [bucket EXCEPT !.claimable = @ - claimable[a]]
  /\ balance' = balance - claimable[a]
  /\ UNCHANGED <<chain, admin, catalog, previews, purchases, nextPurchaseId, cases,
                 stakes, jurors, stats>>

---------------------------------------------------------------------------
(* LISTINGS/VERSIONS *)

\* _addVersion's defaults for windows given as 0.
effectiveTerms(t) ==
  [t EXCEPT !.challengeWindow = IF @ = 0 THEN params.challengeWindow ELSE @,
            !.deliveryWindow  = IF @ = 0 THEN params.deliveryWindow ELSE @]

validTerms(t) ==
  /\ t.taskCount \in 1..256 /\ t.price # 0
  /\ t.challengeWindow >= params.challengeWindow
  /\ t.deliveryWindow <= params.deliveryWindow

addVersion(a, listing, input) ==
  LET t == effectiveTerms(input) IN
  /\ nextVersionId \in VersionId
  /\ validTerms(t)
  /\ versions' = [versions EXCEPT ![nextVersionId] =
       [seller |-> a, listing |-> listing, terms |-> t, report |-> FALSE, active |-> TRUE]]
  /\ nextVersionId' = nextVersionId + 1
  /\ UNCHANGED <<chain, balance, admin, previews, purchases, nextPurchaseId, cases,
                 stakes, jurors, claimable, bucket, stats>>

createListing(a, input) ==
  /\ addVersion(a, nextListingId, input)
  /\ listingSeller' = [listingSeller EXCEPT ![nextListingId] = a]
  /\ nextListingId' = nextListingId + 1

newVersion(a, listing, input) ==
  /\ listingSeller[listing] = a
  /\ addVersion(a, listing, input)
  /\ UNCHANGED <<listingSeller, nextListingId>>

setVersionActive(v, active) ==
  /\ versions[v].seller # NoAccount
  /\ versions' = [versions EXCEPT ![v].active = active]
  /\ UNCHANGED <<chain, balance, admin, listingSeller, nextListingId, nextVersionId, previews,
                 purchases, nextPurchaseId, cases, stakes, jurors, claimable, bucket, stats>>

---------------------------------------------------------------------------
(* Seller-paid previews; the seller of v calls the first two. *)

outstanding_reclaimedToo(v) == previews[v].paidAt # 0

outstanding(v) == previews[v].paidAt # 0 /\ ~previews[v].reclaimed

minPreviewFee_forgets(v) == previewConfig.minFee

\* After a reclaim the next request pays at least the reclaimed fee.
minPreviewFee(v) ==
  IF previews[v].reclaimed /\ previews[v].fee > previewConfig.minFee
  THEN previews[v].fee ELSE previewConfig.minFee

requestPreview(v, fee) ==
  /\ versions[v].seller # NoAccount
  /\ ~versions[v].report
  /\ ~outstanding(v)
  /\ fee >= minPreviewFee(v)
  /\ previews' = [previews EXCEPT ![v] =
       [@ EXCEPT !.fee = fee, !.paidAt = timestamp, !.timeout = previewConfig.timeout,
                 !.reclaimed = FALSE]]
  /\ bucket' = [bucket EXCEPT !.previewFees = @ + fee]
  /\ balance' = balance + fee
  /\ UNCHANGED <<chain, admin, catalog, purchases, nextPurchaseId, cases,
                 stakes, jurors, claimable, stats>>

reclaimPreviewFee(v) ==
  LET pv == previews[v] IN
  /\ versions[v].seller # NoAccount
  /\ ~versions[v].report
  /\ outstanding(v)
  /\ timestamp > pv.paidAt + pv.timeout
  /\ previews' = [previews EXCEPT ![v].reclaimed = TRUE]
  /\ bucket' = [bucket EXCEPT !.previewFees = @ - pv.fee, !.claimable = @ + pv.fee]
  /\ claimable' = credit(claimable, versions[v].seller, pv.fee)
  /\ UNCHANGED <<chain, balance, admin, catalog, purchases, nextPurchaseId, cases,
                 stakes, jurors, stats>>

\* Anyone submits a report that a runner signed for this version.
attachReport(v, signer) ==
  LET pv == previews[v] IN
  /\ versions[v].seller # NoAccount
  /\ ~versions[v].report
  /\ outstanding(v)
  /\ signer \in isRunner
  /\ versions' = [versions EXCEPT ![v].report = TRUE]
  /\ previews' = [previews EXCEPT ![v].released = TRUE]
  /\ bucket' = [bucket EXCEPT !.previewFees = @ - pv.fee, !.claimable = @ + pv.fee]
  /\ claimable' = credit(claimable, previewConfig.recipient, pv.fee)
  /\ UNCHANGED <<chain, balance, admin, listingSeller, nextListingId, nextVersionId,
                 purchases, nextPurchaseId, cases, stakes, jurors, stats>>

---------------------------------------------------------------------------
(* COLLATERAL *)
freeCollateral(a) == stakes[a].total - stakes[a].reserved

depositCollateral(a, amount) ==
  /\ amount # 0 /\ stakes[a].total + amount <= MaxStake
  /\ stakes' = [stakes EXCEPT ![a].total = @ + amount]
  /\ bucket' = [bucket EXCEPT !.collateral = @ + amount]
  /\ balance' = balance + amount
  /\ UNCHANGED <<chain, admin, catalog, previews, purchases, nextPurchaseId, cases,
                 jurors, claimable, stats>>

withdrawCollateral(a, amount) ==
  /\ amount # 0 /\ amount <= freeCollateral(a)
  /\ stakes' = [stakes EXCEPT ![a].total = @ - amount]
  /\ bucket' = [bucket EXCEPT !.collateral = @ - amount]
  /\ balance' = balance - amount
  /\ UNCHANGED <<chain, admin, catalog, previews, purchases, nextPurchaseId, cases,
                 jurors, claimable, stats>>
=============================================================================
