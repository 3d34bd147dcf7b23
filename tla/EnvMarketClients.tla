--------------------------- MODULE EnvMarketClients ---------------------------
(***************************************************************************)
(* What the services take the market for.  Each service is specified       *)
(* against a small chain of its own; here the contract is shown to be such *)
(* a chain: whatever anybody calls, the state a service sees changes as    *)
(* its chain module says, or not at all.  One purchase, one version and   *)
(* some jurors are watched, which stand for any.                           *)
(***************************************************************************)
EXTENDS EnvMarket, Sequences

CONSTANTS WatchedPurchase, WatchedVersion, WatchedJurors

ASSUME WatchedOK == /\ WatchedPurchase \in PurchaseId /\ WatchedVersion \in VersionId
                    /\ WatchedJurors \subseteq Accounts

---------------------------------------------------------------------------
(* The TEE's relay and verifier *)

watched == purchases[WatchedPurchase]
UnderVerifier == watched.dispute # 0 /\ Mechanical(watched.dispute)

\* A purchase before a jury is one the TEE has no business with, as if undisputed.
teeSale ==
  [state |-> IF watched.state = "Disputed" /\ ~UnderVerifier THEN "Delivered" ELSE watched.state,
   key   |-> IF watched.deliveredAt = 0 THEN 0 ELSE -1,
   late  |-> \/ watched.state = "Funded" /\ timestamp > watched.deliveryDeadline
             \/ watched.state = "Refunded"]

teeMech ==
  IF ~UnderVerifier
  THEN [status |-> "None", ground |-> "BrokenOrHashMismatch", finding |-> 0, late |-> FALSE]
  ELSE LET dd == disputes[watched.dispute] IN
       [status |-> dd.status, ground |-> dd.ground, finding |-> 0,
        late |-> timestamp > dd.verifierDeadline]

teeLog ==
  (IF watched.state = "None" THEN <<>> ELSE <<[kind |-> "purchase", id |-> WatchedPurchase]>>)
    \o (IF UnderVerifier THEN <<[kind |-> "dispute", id |-> WatchedPurchase]>> ELSE <<>>)

Tee == INSTANCE TeeChain WITH
  Sales <- {WatchedPurchase}, OtherRelay <- TRUE, MaxTxs <- 0,
  sale <- [i \in {WatchedPurchase} |-> teeSale], mech <- [i \in {WatchedPurchase} |-> teeMech],
  log <- teeLog, confirmed <- 0, txs <- <<>>

TeeStep ==
  \/ Tee!OthersAct
  \/ /\ teeMech.status = "Voting" /\ Tee!resolveMechanical(WatchedPurchase, Tee!None)
     /\ UNCHANGED teeLog

\* For the relay and the verifier the contract is TeeChain, with all deliveries made by
\* others: a purchase they read as funded, delivered or under a verifier has been so, and
\* ended, as they expect, also while panels decide and roles and parameters change.
ImplementsTeeChain == Tee!ChainInit /\ [][TeeStep]_<<teeSale, teeMech, teeLog>>

---------------------------------------------------------------------------
(* The TEE's preview runner *)

previewState ==
  LET pv == previews[WatchedVersion] IN
  IF pv.paidAt = 0 THEN "none" ELSE IF pv.reclaimed THEN "reclaimed" ELSE "paid"

previewRequest ==
  LET pv == previews[WatchedVersion] IN
  [state |-> previewState, quote |-> "foreign", inTime |-> TRUE,
   clock |-> IF pv.paidAt # 0 /\ timestamp > pv.paidAt + pv.timeout THEN "late" ELSE "early"]

previewReport == IF versions[WatchedVersion].report THEN -1 ELSE 0

Runner == INSTANCE PreviewChain WITH
  Versions <- {WatchedVersion}, MaxFaults <- 0,
  request <- [v \in {WatchedVersion} |-> previewRequest],
  attached <- [v \in {WatchedVersion} |-> previewReport], late <- {}, faults <- 0

\* For the preview runner the contract is PreviewChain, with all requests on quotes and all
\* reports of others: once attached a report stays, a fee is there until the deadline that
\* was set when it was paid, and nothing is attached for one that was reclaimed.
ImplementsPreviewChain ==
  Runner!ChainInit /\ [][Runner!OthersAct]_<<previewRequest, previewReport>>

---------------------------------------------------------------------------
(* The juror services, where every dispute is before a jury *)

phase(d) ==
  LET dd == disputes[d] IN
  CASE dd.status = "AwaitingSelection" ->
         IF blockNumber <= dd.selectionBlock THEN "early"
         ELSE IF timestamp <= dd.selectionDeadline THEN "ready" ELSE "late"
    [] dd.status = "Voting" ->
         IF timestamp <= dd.commitDeadline THEN "commit"
         ELSE IF timestamp <= dd.revealDeadline THEN "reveal" ELSE "over"
    [] OTHER -> "early"

otherSeats(d) ==
  LET pn == IF DOMAIN seats[d][2] # {} THEN seats[d][2] ELSE seats[d][1]
      others == {pn[a] : a \in DOMAIN pn \ WatchedJurors} IN
  IF others = {} \/ \E s \in others : s.commitment = "None" THEN "empty"
  ELSE IF \E s \in others : ~s.revealed THEN "committed" ELSE "revealed"

juryDispute ==
  [d \in DisputeId |->
    [status |-> disputes[d].status, round |-> IF disputes[d].round = 2 THEN 2 ELSE 1,
     clock |-> phase(d), others |-> otherSeats(d)]]

\* A commitment is known by its verdict.
sealed(verdict) ==
  [verdict |-> verdict, salt |-> IF verdict = "None" THEN "None" ELSE "derived"]
seatIn(round, s) == [round |-> round, commitment |-> sealed(s.commitment), revealed |-> s.revealed]
jurySeat ==
  [d \in DisputeId |-> [j \in WatchedJurors |->
    CASE j \in DOMAIN seats[d][1] -> seatIn(1, seats[d][1][j])
      [] j \in DOMAIN seats[d][2] -> seatIn(2, seats[d][2][j])
      [] OTHER -> seatIn(0, EmptySeat)]]

juryPay == [j \in WatchedJurors |-> claimable[j] > 0]

Panels == INSTANCE JurorChain WITH
  Jurors <- WatchedJurors, Disputes <- DisputeId, Salts <- {}, MaxDrawn <- 2 * SEATS,
  MaxPending <- 0, MaxFaults <- 0,
  dispute <- juryDispute, seat <- jurySeat, claimable <- juryPay,
  mempool <- <<>>, receipt <- <<>>, posted <- <<>>, faults <- 0

juryView == <<juryDispute, jurySeat, juryPay>>
JuryStep ==
  \/ Panels!OthersAct
  \/ \E j \in WatchedJurors, c \in Panels!Calls :
       /\ c.fn \in {"commitVote", "revealVote", "withdraw"}
       /\ Panels!Accepted(j, c) /\ Panels!execute(j, c)

\* For the juror services the contract is JurorChain: a seat is drawn, opened and paid only as
\* the services expect, whatever the other seats, other disputes and stake do meanwhile.
ImplementsJurorChain ==
  /\ nextDisputeId = 1 =>
       \A d \in DisputeId : juryDispute[d] = [status |-> "None", round |-> 1, clock |-> "early", others |-> "empty"]
  /\ [][juryView' # juryView => JuryStep]_vars
=============================================================================
