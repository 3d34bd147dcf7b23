# A TLA+ model of the environment market

The repository is a marketplace for reinforcement-learning environments: sellers list
versions of an environment, a TEE service runs a preview of each and signs the report,
buyers pay into escrow, the TEE relays the decryption key, and a disputed delivery is
decided by a TEE verifier or by a panel of staked jurors.  All money and every right
lives in one contract, `contracts/src/EnvMarket.sol`; the services, agents and web pages
around it only read its state and send it transactions.  This directory specifies the
contract in full, the TEE's relay, verifier, watcher and preview runner, the juror
services, the buyer's spending commands and what the web pages offer; it model-checks
them on small instances and proves their safety for every value of the constants.

## Inventory

| component | state it keeps | operations | interacts through |
|---|---|---|---|
| `EnvMarket` contract | params, roles, listings, versions, previews, purchases, disputes, seats, stakes, jurors, claimable balances, eight accounting buckets, reputation | owner calls; listing, preview and collateral calls of sellers; buy, deliver, refund, finalize, dispute, rate, withdraw; resolve, timeout, select, commit, reveal, tally | ERC-20 transfers; events; signatures of runner, relay and verifier keys |
| `EnvMarketViews` | none of its own (delegatecall) | read-only | the market's storage layout |
| `TestUSDC` | balances, last faucet time | mint once a day | the market's token |
| TEE chain watcher (`watcher.ts`) | cursor file; retry queue in memory | poll, enqueue, drain, fail | market events; hands jobs to relay and verifier |
| TEE relay (`relay.ts`, `chain.ts`) | delivery records on disk; transaction queue | handlePurchased, serveDelivery | `recordDelivery` on the market |
| TEE verifier (`verifier.ts`) | verification records; in-flight set | handleDisputeOpened, verifyDispute | `resolveMechanical` on the market |
| TEE preview runner and cache (`preview.ts`, `cache.ts`) | stored reports; cache; in-flight map | quote, previewVersion, attachStoredReport | preview fee and `attachReport` on the market |
| TEE evidence access (`evidence.ts`, `rationales.ts`) | used nonces, rationales | casePacket, post rationale | juror services; seats on the market |
| Juror service (`juror.ts`, `state.ts`, `commit.ts`) | one JSON state file per juror with decisions, salts and prepared votes; a lock file | tick: scan logs, commit, reveal, publish, withdraw | `commitVote`, `revealVote`, `withdraw`; evidence packets |
| Juror workflow (`jurors-vercel`) | memory of one run; salts derived, not stored | sweep, plan, steps | the same calls, and `selectJurors`, `tallyDispute` |
| Buyer agent (`agents/src/buyer`) | ledger file | commands that buy, dispute and set the budget | wallet, allowance, the market's calls |
| Web app (`apps/web`) | none that matters here | pages offer calls and announce their effect | `EnvMarketViews`, the visitor's wallet |
| Seller agent, shared library, harness | files of one command; none | command-line flows, Merkle commitments, grading | the market's calls |

What makes them correct:

* *EnvMarket*: it holds exactly what it owes (`Solvent`, `BucketsAccounted`); holds on
  stake are exact and covered, and no call is blocked by an underflow (`HoldsAccounted`,
  `NoUnderflow`, `CollateralCoversCharge`), a panel is paid what was collected, but for dust
  (`PotFullyPaid`); each purchase ends once with
  its price split as promised (`ImplementsLifecycle`, `EveryPurchaseCloses`); panels are
  impartial, nobody votes having seen a vote, and a verdict is the majority's
  (`PanelsImpartial`, `NoCommitAfterReveal`, `VerdictIsMajority`); a draw nobody can fill
  still ends (`GraceDeadlineFixed`); preview fees never drop (`PreviewFeeNeverDrops`);
  statistics can be summed again from the purchases (`ReputationConsistent`).
* *Contract and services*: each service is specified against a small chain of its own, and
  the contract is such a chain (`ImplementsTeeChain`, `ImplementsPreviewChain`,
  `ImplementsJurorChain`).
* *TEE service*: one key and one finding per purchase, on disk before they are on chain
  (`DeliveredMatchesRecord`, `FindingOnRecord`, `RecordedOutcomeTrue`), a key served only
  once delivered (`NoKeyWithRefund`), every purchase and mechanical dispute answered in
  time or given up aloud (`EveryPurchaseAnswered`, `EveryDisputeAnswered`).
* *Preview runner*: one evaluation per version, begun only for a fee that is there, whose
  stored report is the one attached (`OneRunPerVersion`, `RunsBeginPaid`,
  `AttachedIsStored`, `PaidPreviewSettles`).
* *Juror service and workflow*: a commitment can always be opened again and is
  (`CommitmentOpens`, `CommittedRevealed`), no rationale precedes its vote
  (`NoEarlyRationale`), a dispute is driven on (`DisputesDriven`), whoever revealed
  publishes and is paid (`RevealersFinish`).
* *Buyer agent*: the ledger holds only spends, commands in turn keep the budget
  (`LedgerSound`, `BudgetKept`).
* *Web app*: a page offers a call exactly when the contract takes it, the call does what
  the page announced, and what a page counts from events is what the contract counted
  (`PagesMatchMarket`, `PagesKeepPromises`, `ConcentrationMatches`).

What is hard here:

* **Order of calls.** Anyone may call the permissionless functions at any block, the
  owner may change every parameter between two steps of a purchase, and records keep
  snapshots of some parameters but not of others (`buy` and `openDispute` each take one).
* **Four settlement paths** (upheld, rejected, fallback, jury tally) move money between
  seven buckets; each must be exact, or the market owes more than it holds.
* **Checked arithmetic.** An underflow does not corrupt the state, it makes a call revert
  for ever, and a tally that always reverts locks a purchase.
* **Deadlines.** Every wait for a relay, verifier or juror needs a way out by timeout,
  through a re-armed selection, a second panel and the fallback.
* **Juror secrecy.** Reveals may begin early, so commits must have ended by then.
* Off chain: crashes between a durable write and the action it announces, transactions
  that are mined after their sender gave up, state read minutes before it is used, several
  processes on one ledger.

`PROJECT.json` lists each hazard at its line with the properties that would catch it.

## Modules

| module | models |
|---|---|
| `EnvMarketStorage` | `EnvMarketStorage.sol`: structs as record sets, mappings as total functions, the constructor's state, the constants and their assumption `ConstantsOK` |
| `EnvMarketMath` | the settlement arithmetic: quote, the three outcomes of a dispute, the split of the price, the jurors' pay |
| `EnvMarketListings` | sections ADMIN, PULL PAYMENTS, LISTINGS, previews, COLLATERAL, and the clock |
| `EnvMarketPurchases` | sections PURCHASES, DISPUTES (opening, mechanical grounds), REPUTATION, `_resolve`, `_closePurchase` |
| `EnvMarketJury` | section *jurors*: stake, draw, commit, reveal, tally, second round |
| `EnvMarket` | next-state relation (`Admin`, `Selling`, `Purchasing`, `Judging`, `Deciding`), fairness, and every property |
| `PurchaseLifecycle` | abstract specification: what buyer and seller are promised about one purchase |
| `EnvMarketClients` | what the services take the market for: refinement mappings to `TeeChain`, `PreviewChain` and `JurorChain` |
| `TeeChain` | the market as relay and verifier see it: purchase and dispute states, event log, the service's transactions |
| `TeeHandlers`, `TeeService` | `relay.ts`, `verifier.ts`, the transaction queue of `chain.ts`; `watcher.ts` composed with them and the chain, with crashes |
| `PreviewChain` | the market as a preview sees it: the fee paid for it and the report attached |
| `PreviewRunner`, `PreviewService` | quotes, payment check, run or cached copy, signing, attaching; the routes of the TEE and the seller's command composed with them |
| `JurorChain` | the market and the TEE as the juror services see them: disputes, seats, rewards, mempool, rationales |
| `JurorAgent`, `JurorWorkflow`, `JurorServices` | the juror process with its file; the workflow with a run per dispute; both on one market |
| `BuyerAgent` | the buyer's commands, their ledger, the wallet and the market they spend through |
| `WebPages` | what the purchase, dispute, seller and listing pages offer and announce, as operators on the contract's state |
| `MCMarket`, `MCJury`, `MCLiveness`, `MCTee`, `MCPreviewService`, `MCJurors`, `MCBuyer` | instances for TLC |
| `EnvMarketTypeProofs`, `EnvMarketCaseProofs`, `EnvMarketMoneyProofs`, `EnvMarketClientsProofs`, `TeeProofs`, `PreviewProofs`, `JurorProofs`, `BuyerProofs` | theorems |

### Correspondence

The contract:

* One action per external function, with the function's name.  A call whose `require`
  fails reverts and changes nothing, so only successful calls are actions; each guard is
  one of the function's checks, in its order.  Internal functions (`_resolve`,
  `_closePurchase`, `_armSelection`, `_credit`, ...) are operators their callers use, so
  one action makes all the changes of the call.
* Contracts run one transaction at a time: an action is a transaction.  `NewBlock`
  advances block number and timestamp; several transactions may share a block.
* `selectJurors`, `tallyDispute` and `_advanceOrFallback` branch; the branches are the
  disjuncts `rearmSelection`, `seatPanel`, `panelUnfillable`, `tallyDecided`,
  `tallyFailed`.
* A task mask is the set of its bits.  A commitment stands for the verdict it opens to
  (it hashes the verdict with a salt and the contract verifies the opening; a juror who
  cannot open it is one who never reveals).  The draw of three jurors by block hash is
  any three of the eligible ones.  A signature check is membership of the signer in the
  role set.
* Amounts are unbounded integers and subtraction may go below zero: `NoUnderflow` says
  that it never does, which is what Solidity's checked arithmetic would turn into a
  revert.
* A definition `X_suffix` is a faulty version of `X` that nothing uses: it records a
  mistake the named property of `PROJECT.json` would catch.

The services:

* An action ends where the code awaits; what the code does between two awaits is one
  step, and chain, clock and other handlers move in between.  Variables are marked as on
  disk (they survive a crash) or in memory.  A transaction's sender is answered by its
  receipt or by a failure that may come before or after the broadcast, so a transaction
  reported as failed may still be mined.
* TEE: wrapped keys and findings are numbered as they are made, because each contains a
  random nonce or a time stamp.  Deadlines are flags; a dispute has the number of its
  purchase.  One block holds one event, and an event becomes visible to the scan by
  `Confirm` (depth two).
* Previews: a fee is known by the quote it was paid on, time by what still fits before the
  deadline.  The harness's result is a fresh report number; which models serve is a panel
  that may change at any time.
* Jurors: the seats of other jurors count only together, times are phases the clock moves
  to, the verdict of a language model is any verdict.  A salt is one drawn at random and
  kept on file (process) or derived from the key (workflow).
* Buyer: several commands may run at once, each an operating-system process; reading and
  writing the ledger is one step because the code does it without an await.
* Where the model is coarser: a workflow run remembers that too few jurors were eligible
  until it ends, not per round and selection block, so it may wait for the grace deadline
  where the code tries once more; the buyer's allowance is read and approved in one step;
  the checks before a preview run are read together (they are read again, one by one, when
  the run begins).
* Web pages: a page is what it computes from the record it read.  The browser's clock and
  block number are those of the latest block; a page that is out of date offers a call
  which `useTx` simulates first and the contract refuses.  The secret of a vote is assumed
  present in the browser's storage.

### How the contract implements its clients' chains

`EnvMarketClients` watches one purchase, one version and some jurors, which stand for any.

* `ImplementsTeeChain`: all deliveries are made by others (key -1), a jury's dispute is one
  the TEE has no business with and its purchase is seen as undisputed; the verifier's
  resolution may be any verifier's.
* `ImplementsPreviewChain`: all requests are paid on foreign quotes and all reports come
  from others; the clock is early until the deadline set at payment has passed, then late.
* `ImplementsJurorChain`: where every dispute is before a jury and juror accounts are
  credited by tallies only.  Its initial condition is asked only of states without a
  dispute, because two of the scenarios of the run begin inside one.  It is stated over the
  steps that change what the jurors see (`juryView' # juryView`), which is the same and
  spares TLC the steps that do not.

So what is proved of a service on its small chain is not lost on the contract: every
behaviour of the contract, seen through the mapping, is one of the chain's steps of others.

## Runs

All bounds are constants of the modules (`MaxVersions`, `MaxPurchases`, `MaxStake`,
`MaxBlock`, `MaxTxs`, `MaxFaults`, ...) and guards name them.  Runs that start from a
listed version, a delivery or a failed first panel use an `Init` of their own in the MC
module, a state that the calls named there lead to.

| run | shows | instance |
|---|---|---|
| `market` | `TypeOK`, `Solvent`, `BucketsAccounted`, `NoUnderflow`, `CollateralCoversCharge`, `ReputationConsistent`, `ConcentrationMatches`, `HoldsAccounted`, `DisputesMatchPurchases`, `ImplementsLifecycle`, `ImplementsPreviewChain`, `PreviewFeeNeverDrops` | three small markets without jurors: listings, settlement, two purchases |
| `jury` | `VerdictIsMajority`, `PotFullyPaid`, `PanelsImpartial`, `HoldsAccounted`, `ImplementsJurorChain`, `NoCommitAfterReveal`, `GraceDeadlineFixed` | from a delivery, from a failed first panel, and with two panels of the same jurors |
| `every_purchase_closes` | `EveryPurchaseCloses`, `ImplementsTeeChain`, `PagesMatchMarket`, `PagesKeepPromises` | one purchase to its end, every ground, nobody cooperates; a seller and owner managing versions |
| `tee_service` | `DeliveredMatchesRecord`, `NoKeyWithRefund`, `FindingOnRecord`, `RecordedOutcomeTrue`, `EveryPurchaseAnswered`, `EveryDisputeAnswered` | one purchase and dispute, a crash, an unreadable cursor, another relay |
| `tee_forgets` | `FailedHandlersRetried` is violated | the same with one crash |
| `tee_blames_other_relay` | `OthersNotBlamed` is violated | one purchase, another relay |
| `juror_services` | `CommitmentOpens`, `NoEarlyRationale`, `CommittedRevealed`, `DisputesDriven`, `RevealersFinish` | one dispute, one juror with a process, one hosted by the workflow, one fault |
| `rewards_left` | `RewardsCollected` is violated | the same |
| `preview_runner` | `AttachedIsStored`, `OneRunPerVersion`, `RunsBeginPaid`, `PaidPreviewSettles` | one version, two panels of models, seller and another caller, one fault |
| `spend_quoted` | `SpendQuoted` is violated | the same without faults |
| `buyer_budget` | `LedgerSound`, `BudgetKept` | two commands, two versions, two purchases, one fault |
| `buyer_overspends` | `SpendWithinBudget` is violated | one command, one version, one fault |

The five violated properties are findings, each quoting what a document or a comment says:

* `tee_forgets`: the retry queue is in memory and the saved cursor has passed the event, so
  a crash after a failed delivery (or between the saved cursor and the first attempt) ends
  the retries that `watcher.ts` announces, while the purchase could still be delivered.
* `tee_blames_other_relay`: when two keys hold the relay role, the verifier beside the relay
  that prepared a delivery but lost the race takes the other's valid delivery for a key
  mismatch and confirms every masked task, although without a record of its own it says
  such a delivery cannot be judged.
* `rewards_left`: a juror process closes the record of a resolved dispute before it asks for
  its reward; if it stops in between or the request fails, the reward stays in the market.
* `spend_quoted`: a quote issued while no models could be had prices none of them and pays
  for a run of the whole panel later.
* `buyer_overspends`: a purchase whose receipt comes too late is not on the ledger; the same
  command run again buys beyond the budget.

### Bounds, and why they are enough

The amounts are chosen so that every truncation, cap and `min` of the arithmetic is taken
on both sides (price 11 is divisible by neither its task count nor the fee; collateral 6
exactly covers one parameter set and not the other); the clock lets every deadline pass at
least once with blocks to spare; two purchases are enough for one to disturb another
because they share only the seller's stake, the buckets and the counters; three seats are
fixed by the code, and three jurors beside the first panel make exactly one second panel.

* `market` (232,636 states).  *Listings* runs from the constructor's state to block 3, with
  parameters, stakes, relay and verifier fixed; the account the preview fees go to keeps
  its balance; versions are deactivated only in the last block and while no preview fee was
  paid.  *Settlement* has one buyer and one purchase; the preview settings and runner are
  fixed, the first parameters do not come back, relay and verifier change only in the last
  block and if nothing was bought.  *Two purchases*: the listed version stays active, no
  other is added, nobody rates, the second buyer leaves its balance.  The owner takes two
  units at a time.
* `jury` (150,054 states).  `BLOCKHASH_WINDOW` is 2, so selection blocks go stale.  While a
  panel votes one of its jurors keeps its approval; once everything is resolved only
  balances are withdrawn.  Watched jurors: one of the first panel and the three of the second.
* `every_purchase_closes` (7,275 states).  The clock runs only while a guard waits for it,
  so no bound on it can stop a deadline from passing.  A second scenario, for the pages:
  nothing is bought, a second version gets its preview and report, the owner moves the
  parameters and takes back a juror's approval, to block 4.
* `tee_service` (282,106 states).  Behaviours without a crash are complete for two attempts
  per job and four transactions; with the crash no job had failed before it, no back-off
  ends after it, two transactions are sent in all and no other relay delivers.  Two
  transactions let a retry overtake a lost one; one crash is enough because a restart has
  the same state wherever the crash was.
* `juror_services` (153,979 states).  One of the two jurors is drawn (`MaxDrawn`), two
  transactions of a key wait at most, one fault, a step is given up after one failure.
  Draws are re-armed, and others than the workflow draw and tally, only in the first round
  and while nothing has failed (`KeepersRest`); the first salt drawn is called s1.
* `preview_runner` (420,908 states).  One version; imports supply the cache hits another
  version of the same content would.
* `buyer_budget` (2,000,208 states).  Prices 1 and 2, budgets 1 and 3; only the version of
  price 1 leaves the sale; two interchangeable commands.  A purchase beyond the bound is
  one the market refuses.

Deadlock is not checked where the instance simply runs out of blocks, purchases or things
to do (`CHECK_DEADLOCK FALSE`): a contract may rest in any state.

### Fairness

* `EveryPurchaseCloses`: blocks keep coming while something waits for them, and *somebody*
  eventually calls `refundUndelivered`, `finalize`, `timeoutMechanical`, `selectJurors` and
  `tallyDispute` when possible (weak fairness of each).  They are permissionless, the juror
  services and the buyer's agent call them, and whoever is owed money has a reason to.
  Nothing is assumed of relay, verifier, sellers, buyers or jurors.
* TEE service: the event loop runs what it can, an await ends with an answer or a time-out,
  blocks come, and the node does not fail every `getLogs` for ever (strong fairness of
  scanning).  No transaction need be mined: an attempt may fail every time, and is then
  given up after `ATTEMPTS`.
* Juror services: transactions of a key are included (weak fairness of `Mine` per key), a
  process goes on with its tick, sweeps come round and runs advance.  Nobody else has to
  vote, no deadline has to pass, and a juror process need not draw or tally.
* Previews: a run goes on, the seller repeats its command, its requests are handled.

## Theorems

Proved with TLAPS for every value of the constants that satisfies the named assumptions
(`ConstantsOK`, `WatchedOK`, `TeeChainOK`, ...), which only say what kind of value each is,
and for `ConstantsOK` that `InitParams` passed `_setParams`.  No fairness is used.

**The contract.**  Every safety invariant, action property and refinement that the runs
check of the contract is a theorem, except `PotFullyPaid`.  Four inductive invariants carry
them, each resting on the one before.

* `Linked` (`EnvMarketTypeProofs`, `LinkedHolds`; `TypeCorrect` follows).  `TypeOK` is not
  inductive: that an amount
  is a number depends on facts across records.  `Linked` adds that a listed version has 1 to
  256 tasks (the refund divides by it), that a purchase was made from a listed version with
  valid parameters and unused ids hold no purchase, that a dispute names a purchase that was
  made and a subset of its tasks, and that only a committed verdict is revealed (otherwise a
  majority could be empty and the bonus divided by zero).
* `CaseInv` (`EnvMarketCaseProofs`, `CaseHolds`) is `Sales /\ Links /\ PanelsSound`: what a
  purchase looks like at each stage (its terms were checked against its own snapshot,
  nothing is paid out of the price before it closes), that an open dispute and a disputed
  purchase name each other and unused ids hold nothing, and for each panel when it was
  drawn, that it seats neither party and nobody twice, that reveals begin when commits have
  ended, and which verdicts a first round may have had.  From it follow
  `CollateralAlwaysCovers`, `DisputesAlwaysMatch`, `PanelsAlwaysImpartial`,
  `VerdictsAreMajorities`, `CommitmentsFixed` and `GraceNeverExtended`.
  `FeesNeverDrop` needs `FeesDated` beside it: the clock is past zero, and a preview without
  a date has no fee (a fee paid at timestamp zero would look unpaid).
* Money (`EnvMarketMoneyProofs`, `MoneyHolds`).  `AlwaysSolvent` needs only `Linked`: each
  outcome gives out what it takes (`Balanced`), its caller routes exactly the case fee and
  the stake it slashes (`Routed`), so a call keeps the sum of the buckets in step with the
  tokens.  `MoneyInv` says what each bucket is made of: `BucketsAccounted`, `HoldsAccounted`,
  that every lock is covered by its stake (`Covered`), and that a version not yet listed has
  no seller and no preview (`Unlisted`; listing one must move no fee).  The
  argument is the same for every call: it moves a bucket and exactly one entry of the sum
  behind it (`OneMoves`, `SumMoves`), or, for a tally, the entries of one panel
  (`PanelSums`).  Every bucket is then a sum of naturals, so `NeverUnderflows` follows, and a
  slash takes at most the stake its seat locked.
* Reputation (`ReputationAlwaysConsistent`).  The property re-derives every figure: what a
  purchase is worth in each is read off its state, dispute and rating (`counted`), a
  version's and a seller's figures are the sums over their purchases (`VersionsCount`,
  `SellersCount`), and a seller's disputes and volume those of its versions
  (`CatalogCount`).  `RepInv` adds that a purchase is of a version of its seller
  (`SellersMatch`) and that the dispute it names is about it (`DisputeNamed`), else a verdict
  could count for another purchase.  A call is then shown to add to the figures of one
  version and one seller what it adds to one purchase's (`StatsFollow`), and to none other.

`EnvMarketMoneyProofs` begins with the lemmas about `SumFunction` that these proofs cite: a
sum follows the one entry that moves, a sum of naturals is one and bounds its entries, equal
functions have equal sums, entries of zero may be left out (`SumRestricted`).  The induction
they need is over the finite set that is summed; since the library's induction theorems take
an operator as a parameter, each is proved by a minimal counterexample of a well-founded
order instead.

**Refinements.**  Each is an initial condition and a step simulation.

* `ContractImplementsLifecycle`: every call moves at most one purchase, by one of the steps
  `SaleStep` lists, and `DealSteps` maps each to a step of `PurchaseLifecycle` or none.
* `ContractIsPreviewChain`: `RequestStep` lists what a call may do to one preview (nothing, a
  fee paid, reclaimed, a report attached, time passing its deadline).  The invariant
  `RequestsSound` is needed for reclaiming: the deadline of the fee reclaimed has passed, and
  a version not listed has neither seller nor report.
* `ContractIsTeeChain`: `TradeStep` lists what a call may do to one purchase and its dispute,
  times included; `TeeSteps` maps each to a step of `TeeChain`, or none where only a jury's
  dispute moves.  `DisputeNamed`, an invariant of its own, says that the dispute a purchase
  names is about it also after both have ended, so that nothing the verifier sees changes
  any more; `CaseInv` gives that a mechanical dispute is never awaiting a panel.
* `ContractIsJurorChain` (`EnvMarketClientsProofs`) has two hypotheses, which are those of
  the mapping.  `JurorsOnlyJudge`, about the constants: every dispute is before a jury, since
  `JurorChain` knows no other, and the watched jurors neither sell, buy nor receive preview
  fees, since there they are paid by tallies only.  And the preview fees do not go to one of
  them when the market starts.  Nothing is assumed of other jurors, panels or parameters; the
  `jury` run satisfies both.  Two invariants are added to the others, checked by TLC on that
  run before they were proved: `Apart`, no watched juror is party to a version or purchase or
  takes preview fees; and `BeforeJuries`, every dispute is before a jury, ids are used in
  order, and reveals end no earlier than commits.  `JuryCalls` lists what a call may do to
  one panel; `RearmsSeen`, `FailsSeen`, `DrawsSeen`, `VotesShown` and `SettlesSeen` map each
  to a step of the chain; `TimeSeen` shows that time moves every phase as the chain's clock
  would, for all disputes at once.

**The web pages** (`EnvMarketClientsProofs`).

* `PagesCountAsContract`: the sum a seller's page takes over the events of its sales is the
  one `RepInv` keeps, so `ConcentrationMatches` follows.
* `PagesKeepTheirPromises`: the property relates what was shown before a call to what the
  call did, so it needs more than the shape of a state.  `Quoted` says that a dispute that is
  open still asks for the refund its tasks were quoted at, at the sale's own case fee, that no
  seat of it has been paid yet (the outcome card adds up all seats of both rounds), that
  slashes are never negative, that no task of an open sale is remedied and a funded one is
  undelivered.  `Continues` and `Rules` list what a call may do to a dispute: go on, or be
  ruled with an outcome whose sums over the seats `SettledSums` computes.  The two progress
  bars are functions of one record each (`TrackerIs`, `StagesOpen`, `StagesClosed`), which
  every such step moves forward.
  Its last part, `NothingHidden`, says that whatever happened had been offered by the page
  of whoever could bring it about: each effect a call can have on a purchase, a dispute or
  a preview is traced to the calls that have it, and their guards compared with what the
  pages compute. Beside `CaseInv` it needs `DisputeNamed` (a delivered purchase names no
  dispute, which the keeper's row tests), `RequestsSound` and `ReleasedReported`: a
  preview fee is released only with its report, so a seller who may reclaim is not shown a
  released fee.

**The services.**  None of the properties is inductive, because a record, the call made from
it, its transaction and the chain are written at different times.

* `TeeProofs`: `Coherent` says what holds in between.  Every call queued or sent carries the
  key or finding of its record and a successful one is on chain (`QueueCoherent`); at most
  one delivery is queued and the relay waits for it (`OneDelivery`); what a handler read
  before an await is still so, and a verification at work has no finding yet
  (`HandlersCoherent`); a key is on record only for what was delivered, a finding only for
  what was resolved (`ChainCoherent`); the jobs of a drain stay in the retry map
  (`DrainCoherent`).
* `JurorProofs`: a `Coherent` of its own.  Every vote on its way to the chain or on it is the
  one on file, or one whose salt can be derived again; files follow what was confirmed.
* `PreviewProofs`: `IInv` is `TypeOK /\ ChainSound /\ SellerSound /\ JobsSound`.  A run that
  has not signed found no report, so a report on disk is never replaced and whoever holds
  one holds that one; what was begun and not signed was lost to a fault; a fee that was
  taken back is past its deadline.
* `BuyerProofs`: `IInv` is `Safe` (what the ledger holds was spent, bonds are held, commands
  act on amounts they fixed, late transactions are accounted for) and, while no fault and no
  overlap disturbs the commands, `InTurn`: everything spent is on the ledger and within the
  highest budget set.  `CommandsAlwaysSound` states the part about amounts.

Each proof has a lemma per action or group of actions that leaves the same things alone, and
a last step that combines them.

### Only model-checked

* Liveness, which needs fairness and ENABLED: `EveryPurchaseCloses`, `EveryPurchaseAnswered`,
  `EveryDisputeAnswered`, `CommittedRevealed`, `DisputesDriven`, `RevealersFinish`,
  `PaidPreviewSettles`.
* `PotFullyPaid`: when a panel decides, the rewards of its seats are the case fee collected
  and the stake the revealing minority lost, but for less than one unit per winner; no other
  seat is rewarded.  It needs the exact product and quotient of `_payJurors` over a panel.
* `PagesMatchMarket`, which is about ENABLED.  One of its two directions is proved
  as `NothingHidden` in `PagesKeepPromises`, without ENABLED, over steps: whatever happens
  had been offered.  That whatever is offered would be accepted stays with TLC.
* The five violations: each is a behaviour TLC shows.

## Not modelled, and why

* In the contract: hashes, signatures, encryption and strings; gas; events other than those
  the services scan; the ERC-20 itself (a transfer that fails reverts the call, `balance` is
  the market's holding); reentrancy (the token is trusted and the code is `nonReentrant`).
  Timestamps that no guard reads and the id arrays only views read are left out of the
  structs.  Of the views, plain getters and the reputation score.
* `TestUSDC` and its faucet: one mint per address and day.
* TEE: chain reorganisations (a key is served on the newest block although events are
  scanned two blocks deep), what the harness measures and what it costs, two versions of one
  environment requested together, the sealed format of cache entries, upload checks of
  bundles, attestation, the sandbox, the nonce ledger and contents of case packets.
* Jurors: the register and disclosure commands (one transaction each), the lock file,
  `run-all.ts`, the screening of a rationale's text.
* Agents: browsing, inspecting, receiving and rating by the buyer; packaging, uploading and
  listing by the seller, and its keeper.
* Web app: rendering, wallets, downloads and their decryption, report verification, proxies,
  the generated bindings.  These, the library vendored into several packages and the model
  clients are most of the repository's lines, which is why the definitions stand for a
  small share of them.
* Shared library (Merkle commitments, tar, model clients) and the coding harness.

## Plan

1. **Done.** The contract, its properties, the abstract lifecycle.
2. **Done.** The TEE's watcher, relay and verifier; the preview runner; the juror services;
   the buyer's commands; the web pages; the contract as a chain for each service.
3. **Done.** Type correctness and safety of the contract and of the four services; the
   refinements of `PurchaseLifecycle`, `PreviewChain`, `TeeChain` and `JurorChain`; what the
   web pages announce and count.
4. Left: the types of the buyer's and the preview service's clients when their other
   commands are modelled; the parts listed above as not modelled.
