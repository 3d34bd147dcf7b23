-------------------------- MODULE EnvMarketStorage --------------------------
(***************************************************************************)
(* The storage of the EnvMarket contract (contracts/src/                   *)
(* EnvMarketStorage.sol) and the chain it runs on.  A Solidity mapping is  *)
(* a total function whose unwritten entries hold the zero struct.          *)
(*                                                                         *)
(* Left out of the structs: hashes and strings nobody compares on chain,   *)
(* timestamps that are written and never read by a guard (fundedAt,        *)
(* openedAt, settledAt, resolvedAt) and the id lists that only views read. *)
(* Sums are unbounded integers; a checked subtraction that would underflow *)
(* reverts in Solidity, here it would make a field negative, which the     *)
(* invariant NoUnderflow of EnvMarket forbids.                             *)
(***************************************************************************)
EXTENDS Integers, FiniteSets

CONSTANTS
  Accounts,          \* addresses that hold stakes, bonds and claimable balances
  NoAccount,         \* address(0)
  Sellers, Buyers, JurorPool,  \* the accounts that list, buy and may be approved as jurors
  Signers,           \* keys that sign reports, receipts and findings
  RoleChanges,       \* keys whose roles the owner grants and revokes
  ParamChoices,      \* arguments the owner passes to setParams
  InitParams,        \* the constructor's Params
  TermChoices,       \* VersionInput arguments of createListing / newVersion
  ActiveChoices,     \* arguments of setVersionActive
  ApprovalPool,      \* accounts the owner approves and revokes as jurors
  PreviewFees,       \* fee arguments of requestPreview
  FeeRecipients,     \* arguments of setPreviewFeeRecipient
  MinPreviewFees,    \* arguments of setMinPreviewFee
  PreviewTimeouts,   \* arguments of setPreviewTimeout
  Withdrawers,       \* accounts that collect their claimable balance
  Amounts,           \* amounts of collateral or juror stake moved in one call
  OwnerAmounts,      \* amounts the owner takes from treasury or reserve
  Grounds,           \* grounds buyers dispute on
  StarChoices,       \* ratings buyers give
  MAX_JURORS,        \* EnvMarketStorage.sol: 200
  BLOCKHASH_WINDOW,  \* the EVM serves the hashes of the last 256 blocks
  BlockTime,         \* seconds between two blocks
  MaxVersions,       \* bound: versions created
  MaxPurchases,      \* bound: purchases made
  MaxStake,          \* bound: stake one account deposits, collateral or juror
  MaxBlock           \* bound: blocks produced

BPS == 10000
SEATS == 3

VersionId  == 1..MaxVersions
PurchaseId == 1..MaxPurchases
DisputeId  == 1..MaxPurchases   \* a purchase is disputed at most once
Rounds     == 1..2

PurchaseState == {"None", "Funded", "Delivered", "Disputed", "Refunded", "Settled"}
Ground        == {"None", "BrokenOrHashMismatch", "FalseDescription", "PreviewNotReproducible"}
DisputeStatus == {"None", "AwaitingSelection", "Voting", "Resolved"}
Verdict       == {"None", "Uphold", "Reject"}   \* Uphold: the buyer wins

\* struct Params
Params == [challengeWindow: Nat, deliveryWindow: Nat, refundCapBps: Nat,
           penaltyThresholdBps: Nat, penaltyBps: Nat, feeBps: Nat,
           bondFloor: Nat, bondCap: Nat, caseFee: Nat, participationFee: Nat,
           jurorStake: Nat, minoritySlashBps: Nat, nonRevealSlashBps: Nat,
           commitWindow: Nat, revealWindow: Nat, verifierTimeout: Nat]

NoParams == [challengeWindow |-> 0, deliveryWindow |-> 0, refundCapBps |-> 0,
             penaltyThresholdBps |-> 0, penaltyBps |-> 0, feeBps |-> 0,
             bondFloor |-> 0, bondCap |-> 0, caseFee |-> 0, participationFee |-> 0,
             jurorStake |-> 0, minoritySlashBps |-> 0, nonRevealSlashBps |-> 0,
             commitWindow |-> 0, revealWindow |-> 0, verifierTimeout |-> 0]

\* The checks of _setParams: the only values _params ever holds.
ValidParams(q) ==
  /\ q \in Params
  /\ q.refundCapBps <= BPS /\ q.penaltyThresholdBps <= BPS /\ q.penaltyBps <= BPS
  /\ q.feeBps <= BPS /\ q.minoritySlashBps <= BPS /\ q.nonRevealSlashBps <= BPS
  /\ q.bondFloor <= q.bondCap
  /\ q.challengeWindow # 0 /\ q.deliveryWindow # 0 /\ q.commitWindow # 0
  /\ q.revealWindow # 0 /\ q.verifierTimeout # 0 /\ q.jurorStake # 0
  /\ q.participationFee * SEATS <= q.caseFee

\* The part of VersionInput / VersionTerms that guards and amounts depend on.
Terms == [price: Nat, collateral: Nat, taskCount: Nat,
          deliveryWindow: Nat, challengeWindow: Nat]
NoTerms == [price |-> 0, collateral |-> 0, taskCount |-> 0,
            deliveryWindow |-> 0, challengeWindow |-> 0]

\* struct VersionTerms; report stands for reportHash # 0
Version == [seller: Accounts \cup {NoAccount}, listing: Nat, terms: Terms,
            report: BOOLEAN, active: BOOLEAN]
NoVersion == [seller |-> NoAccount, listing |-> 0, terms |-> NoTerms,
              report |-> FALSE, active |-> FALSE]

\* struct Preview
Preview == [fee: Nat, paidAt: Nat, timeout: Nat, released: BOOLEAN, reclaimed: BOOLEAN]
NoPreview == [fee |-> 0, paidAt |-> 0, timeout |-> 0, released |-> FALSE, reclaimed |-> FALSE]

\* struct Purchase; par is the snapshot of _params taken by buy
Purchase == [state: PurchaseState, version: 0..MaxVersions,
             buyer: Accounts \cup {NoAccount}, seller: Accounts \cup {NoAccount},
             terms: Terms, par: Params, deliveryDeadline: Nat, deliveredAt: Nat,
             challengeDeadline: Nat, dispute: 0..MaxPurchases, remediedMask: SUBSET Nat,
             refunded: Int, sellerProceeds: Int, fee: Int, penalties: Int,
             rated: BOOLEAN, stars: 0..5]
NoPurchase == [state |-> "None", version |-> 0, buyer |-> NoAccount, seller |-> NoAccount,
               terms |-> NoTerms, par |-> NoParams, deliveryDeadline |-> 0, deliveredAt |-> 0,
               challengeDeadline |-> 0, dispute |-> 0, remediedMask |-> {},
               refunded |-> 0, sellerProceeds |-> 0, fee |-> 0, penalties |-> 0,
               rated |-> FALSE, stars |-> 0]

\* struct Dispute; par is the snapshot of _params taken by openDispute
Dispute == [purchase: 0..MaxPurchases, ground: Ground, status: DisputeStatus,
            verdict: Verdict, round: 0..2, fallbackNoQuorum: BOOLEAN,
            taskMask: SUBSET Nat, confirmedMask: SUBSET Nat,
            requested: Int, bond: Int, refund: Int, caseFee: Nat, par: Params,
            selectionBlock: Nat, selectionDeadline: Nat, commitDeadline: Nat,
            revealDeadline: Nat, verifierDeadline: Nat]
NoDispute == [purchase |-> 0, ground |-> "None", status |-> "None",
              verdict |-> "None", round |-> 0, fallbackNoQuorum |-> FALSE,
              taskMask |-> {}, confirmedMask |-> {},
              requested |-> 0, bond |-> 0, refund |-> 0, caseFee |-> 0, par |-> NoParams,
              selectionBlock |-> 0, selectionDeadline |-> 0, commitDeadline |-> 0,
              revealDeadline |-> 0, verifierDeadline |-> 0]

\* struct Seat.  commitmentFor hashes dispute, round, juror, salt and verdict, so
\* a commitment opens only to the verdict it was made for and stands for it here;
\* vote is that verdict once revealed.
Seat == [commitment: Verdict, revealed: BOOLEAN, reward: Int, slashed: Int]
EmptySeat == [commitment |-> "None", revealed |-> FALSE, reward |-> 0, slashed |-> 0]

\* struct JurorInfo, struct Stake
JurorInfo == [approved: BOOLEAN, listed: BOOLEAN, total: Int, locked: Int, stakeBlock: Nat]
NoJuror == [approved |-> FALSE, listed |-> FALSE, total |-> 0, locked |-> 0, stakeBlock |-> 0]
Stake == [total: Int, reserved: Int]

\* struct VersionStats, struct SellerStats
VersionStats == [ratingSum: Nat, ratingCount: Nat, settledCount: Nat,
                 disputesOpened: Nat, disputesUpheld: Nat, retainedVolume: Int]
NoVersionStats == [ratingSum |-> 0, ratingCount |-> 0, settledCount |-> 0,
                   disputesOpened |-> 0, disputesUpheld |-> 0, retainedVolume |-> 0]
SellerStats == [qualifyingTx: Nat, disputesOpened: Nat, disputesUpheld: Nat,
                fullRefunds: Nat, retainedVolume: Int,
                weightedRatingSum: Int, ratedRetained: Int]
NoSellerStats == [qualifyingTx |-> 0, disputesOpened |-> 0, disputesUpheld |-> 0,
                  fullRefunds |-> 0, retainedVolume |-> 0,
                  weightedRatingSum |-> 0, ratedRetained |-> 0]

\* The accounting buckets totalEscrow, totalCollateral, totalBonds,
\* totalJurorStake, treasury, reserve, totalClaimable and _totalPreviewFees.
Buckets == [escrow: Int, collateral: Int, bonds: Int, jurorStake: Int,
            treasury: Int, reserve: Int, claimable: Int, previewFees: Int]
NoBuckets == [escrow |-> 0, collateral |-> 0, bonds |-> 0, jurorStake |-> 0,
              treasury |-> 0, reserve |-> 0, claimable |-> 0, previewFees |-> 0]

VARIABLES
  blockNumber, timestamp,     \* block.number, block.timestamp
  balance,                    \* token.balanceOf(market), kept by the external ERC-20
  params,                     \* _params
  previewConfig,              \* _previewFeeRecipient, _minPreviewFee, _previewTimeout
  isRunner, isRelay, isVerifier,
  listingSeller, nextListingId,
  versions, nextVersionId,
  previews,
  purchases, nextPurchaseId,
  disputes, nextDisputeId,
  seats,                      \* per dispute and round: the panel's seats, by juror
  stakes, jurors, claimable, bucket,
  versionStats, sellerStats

chain   == <<blockNumber, timestamp>>
admin   == <<params, previewConfig, isRunner, isRelay, isVerifier>>
catalog == <<listingSeller, nextListingId, versions, nextVersionId>>
cases   == <<disputes, nextDisputeId, seats>>
stats   == <<versionStats, sellerStats>>
vars == <<chain, balance, admin, catalog, previews, purchases, nextPurchaseId, cases,
          stakes, jurors, claimable, bucket, stats>>

\* The state the constructor leaves: no key allowed, nothing listed or held.
InitChain == blockNumber = 1 /\ timestamp = BlockTime

InitAdmin ==
  /\ params = InitParams
  /\ \E owner \in Accounts : previewConfig = [recipient |-> owner, minFee |-> 0, timeout |-> 3600]
  /\ isRunner = {} /\ isRelay = {} /\ isVerifier = {}

InitCatalog ==
  /\ listingSeller = [l \in VersionId |-> NoAccount] /\ nextListingId = 1
  /\ versions = [v \in VersionId |-> NoVersion] /\ nextVersionId = 1
  /\ previews = [v \in VersionId |-> NoPreview]

InitPurchases == purchases = [i \in PurchaseId |-> NoPurchase] /\ nextPurchaseId = 1

InitCases ==
  /\ disputes = [d \in DisputeId |-> NoDispute] /\ nextDisputeId = 1
  /\ seats = [d \in DisputeId |-> [r \in Rounds |-> [a \in {} |-> EmptySeat]]]

InitFunds ==
  /\ stakes = [a \in Accounts |-> [total |-> 0, reserved |-> 0]]
  /\ jurors = [a \in Accounts |-> NoJuror]
  /\ bucket = NoBuckets /\ balance = 0

InitRecords ==
  /\ claimable = [a \in Accounts |-> 0]
  /\ versionStats = [v \in VersionId |-> NoVersionStats]
  /\ sellerStats = [a \in Accounts |-> NoSellerStats]

Init == /\ InitChain /\ InitAdmin /\ InitCatalog /\ InitPurchases /\ InitCases
        /\ InitFunds /\ InitRecords

ASSUME ConstantsOK ==
  /\ IsFiniteSet(Accounts) /\ NoAccount \notin Accounts
  /\ Sellers \subseteq Accounts /\ Buyers \subseteq Accounts /\ JurorPool \subseteq Accounts
  /\ Withdrawers \subseteq Accounts
  /\ RoleChanges \subseteq Signers /\ ActiveChoices \subseteq BOOLEAN
  /\ ApprovalPool \subseteq Accounts
  /\ Grounds \subseteq Ground /\ StarChoices \subseteq Nat
  /\ ValidParams(InitParams)
  /\ ParamChoices \subseteq Params
  /\ TermChoices \subseteq Terms
  /\ PreviewFees \subseteq Nat /\ MinPreviewFees \subseteq Nat /\ PreviewTimeouts \subseteq Nat
  /\ FeeRecipients \subseteq Accounts
  /\ Amounts \subseteq Nat /\ OwnerAmounts \subseteq Nat
  /\ MAX_JURORS \in Nat /\ BLOCKHASH_WINDOW \in Nat
  /\ BlockTime \in Nat \ {0}
  /\ MaxVersions \in Nat /\ MaxPurchases \in Nat /\ MaxStake \in Nat /\ MaxBlock \in Nat
=============================================================================
