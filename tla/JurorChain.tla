------------------------------ MODULE JurorChain ------------------------------
(***************************************************************************)
(* The market and the TEE as the juror services see them: the              *)
(* FalseDescription disputes, the seats of our jurors, their rewards, the  *)
(* transactions of their keys and the rationales they post.  EnvMarketJury *)
(* specifies the contract in full; here the seats of other jurors count    *)
(* only together, a time is a phase the clock moves to, and a juror sits   *)
(* at most once in a dispute (PanelsImpartial of EnvMarket).               *)
(***************************************************************************)
EXTENDS Integers, Sequences, FiniteSets

CONSTANTS
  Jurors,      \* the jurors our services run, each with a key of its own
  Disputes,    \* the ids 1..n of the disputes
  Salts,       \* salts drawn at random
  MaxDrawn,    \* bound: our jurors drawn for a dispute
  MaxPending,  \* bound: transactions of one key waiting to be included
  MaxFaults    \* bound: crashes, failed or lost requests, receipts that come too late

SEATS == 3

ASSUME JurorChainOK == /\ IsFiniteSet(Disputes) /\ \A d \in Disputes : d \in Nat \ {0} /\ 1..d \subseteq Disputes
                       /\ IsFiniteSet(Jurors) /\ MaxPending \in Nat /\ MaxDrawn \in Nat /\ MaxFaults \in Nat

VARIABLES
  dispute,     \* id -> status, round, clock, progress of the other seats
  seat,        \* id -> juror -> round it sits in (0: none), commitment, revealed
  claimable,   \* juror -> it has a reward to withdraw
  mempool,     \* juror -> its transactions not yet included, in nonce order
  receipt,     \* juror -> id -> the call its service waits for, and its fate
  posted,      \* id -> juror -> verdict that the rationale the TEE lists was written for
  faults       \* faults so far

marketVars == <<dispute, seat, claimable>>
chainVars == <<dispute, seat, claimable, mempool, receipt, posted, faults>>

Rounds == 1..2
Verdicts == {"Uphold", "Reject"}
Derived == "derived"   \* the salt the workflow derives from key, dispute and round
None == "None"

\* A commitment is an injective image of verdict and salt: it is modelled by them.
Votes == [verdict : Verdicts, salt : Salts \cup {Derived}]
NoVote == [verdict |-> None, salt |-> None]
Calls == [fn : {"selectJurors", "commitVote", "revealVote", "tallyDispute", "withdraw"},
          id : Disputes, vote : Votes \cup {NoVote}]
Fates == {"pending", "success", "reverted"}
Call(fn, d) == [fn |-> fn, id |-> d, vote |-> NoVote]
NoReceipt == [awaits |-> None, fate |-> None]

ChainInit ==
  /\ dispute = [d \in Disputes |-> [status |-> None, round |-> 1, clock |-> "early", others |-> "empty"]]
  /\ seat = [d \in Disputes |-> [j \in Jurors |-> [round |-> 0, commitment |-> NoVote, revealed |-> FALSE]]]
  /\ claimable = [j \in Jurors |-> FALSE]
  /\ mempool = [j \in Jurors |-> <<>>]
  /\ receipt = [j \in Jurors |-> [d \in Disputes |-> NoReceipt]]
  /\ posted = [d \in Disputes |-> [j \in Jurors |-> None]]
  /\ faults = 0

Statuses == {None, "AwaitingSelection", "Voting", "Resolved"}
Clocks == {"early", "ready", "late", "commit", "reveal", "over"}
Seats == [round : {0} \cup Rounds, commitment : Votes \cup {NoVote}, revealed : BOOLEAN]
Receipts == [awaits : {"selectJurors", "commitVote", "revealVote", "tallyDispute", "withdraw"},
             fate : Fates] \cup {NoReceipt}

MarketTypeOK ==
  /\ dispute \in [Disputes -> [status : Statuses, round : Rounds, clock : Clocks,
                               others : {"empty", "committed", "revealed"}]]
  /\ seat \in [Disputes -> [Jurors -> Seats]]
  /\ claimable \in [Jurors -> BOOLEAN]
ChainTypeOK ==
  /\ MarketTypeOK
  /\ mempool \in [Jurors -> Seq(Calls)]
  /\ receipt \in [Jurors -> [Disputes -> Receipts]]
  /\ posted \in [Disputes -> [Jurors -> Verdicts \cup {None}]]
  /\ faults \in 0..MaxFaults

---------------------------------------------------------------------------
(* Views *)

Panel(d) == {j \in Jurors : seat[d][j].round = dispute[d].round}
Voting(d) == dispute[d].status = "Voting"
Full(d) == Cardinality(Panel(d)) = SEATS
AllCommitted(d) ==
  /\ Full(d) \/ dispute[d].others # "empty"
  /\ \A j \in Panel(d) : seat[d][j].commitment # NoVote
AllRevealed(d) ==
  /\ Full(d) \/ dispute[d].others = "revealed"
  /\ \A j \in Panel(d) : seat[d][j].revealed
RevealOpen(d) == dispute[d].clock = "reveal" \/ (dispute[d].clock = "commit" /\ AllCommitted(d))
TallyOpen(d) == dispute[d].clock = "over" \/ AllRevealed(d)
VotesFor(d, v) == {j \in Panel(d) : seat[d][j].revealed /\ seat[d][j].commitment.verdict = v}

---------------------------------------------------------------------------
(* The calls of our jurors *)

\* A call does not revert; before its deadline a selection may also lack jurors.
Accepted(j, c) ==
  LET d == c.id IN
  \/ c.fn = "selectJurors" /\ dispute[d].status = "AwaitingSelection" /\ dispute[d].clock # "early"
  \/ /\ c.fn = "commitVote" /\ Voting(d) /\ dispute[d].clock = "commit"
     /\ j \in Panel(d) /\ seat[d][j].commitment = NoVote
  \/ /\ c.fn = "revealVote" /\ Voting(d) /\ RevealOpen(d)
     /\ j \in Panel(d) /\ ~seat[d][j].revealed /\ seat[d][j].commitment = c.vote
  \/ c.fn = "tallyDispute" /\ Voting(d) /\ TallyOpen(d)
  \/ c.fn = "withdraw" /\ claimable[j]

NotEnoughJurors(c) == c.fn = "selectJurors" /\ dispute[c.id].clock = "ready"

seatPanel(d) ==
  \E p \in SUBSET {j \in Jurors : seat[d][j].round = 0} :
    /\ Cardinality(p) <= SEATS /\ Cardinality(p \cup {j \in Jurors : seat[d][j].round # 0}) <= MaxDrawn
    /\ seat' = [seat EXCEPT ![d] = [j \in Jurors |->
                  IF j \in p THEN [seat[d][j] EXCEPT !.round = dispute[d].round] ELSE seat[d][j]]]
    /\ dispute' = [dispute EXCEPT ![d].status = "Voting", ![d].clock = "commit", ![d].others = "empty"]
    /\ UNCHANGED claimable

\* The first round gives way to the second, the second to the fallback.
failRound(d) ==
  /\ dispute' = [dispute EXCEPT
       ![d].status = IF dispute[d].round = 1 THEN "AwaitingSelection" ELSE "Resolved",
       ![d].round = 2, ![d].clock = "early"]
  /\ UNCHANGED <<seat, claimable>>

\* The hash of the selection block is no longer served: another block is awaited.
rearmSelection(d) ==
  /\ dispute' = [dispute EXCEPT ![d].clock = "early"] /\ UNCHANGED <<seat, claimable>>

selectJurors(d) ==
  seatPanel(d) \/ (dispute[d].clock = "late" /\ failRound(d)) \/ rearmSelection(d)
commitVote(j, d, v) ==
  seat' = [seat EXCEPT ![d][j].commitment = v] /\ UNCHANGED <<dispute, claimable>>
revealVote(j, d) ==
  seat' = [seat EXCEPT ![d][j].revealed = TRUE] /\ UNCHANGED <<dispute, claimable>>

\* Two equal votes decide, and the other seats may have cast them.  Whoever revealed is paid,
\* unless its part is nothing.
tallyDispute(d) ==
  \/ /\ \E v \in Verdicts : Cardinality(VotesFor(d, v)) + SEATS - Cardinality(Panel(d)) >= 2
     /\ dispute' = [dispute EXCEPT ![d].status = "Resolved", ![d].clock = "early"]
     /\ \E paid \in SUBSET {j \in Panel(d) : seat[d][j].revealed} :
          claimable' = [j \in Jurors |-> claimable[j] \/ j \in paid]
     /\ UNCHANGED seat
  \/ /\ ~AllRevealed(d) /\ \A v \in Verdicts : Cardinality(VotesFor(d, v)) < 2
     /\ failRound(d)
withdraw(j) == claimable' = [claimable EXCEPT ![j] = FALSE] /\ UNCHANGED <<dispute, seat>>

execute(j, c) ==
  \/ c.fn = "selectJurors" /\ selectJurors(c.id)
  \/ c.fn = "commitVote" /\ commitVote(j, c.id, c.vote)
  \/ c.fn = "revealVote" /\ revealVote(j, c.id)
  \/ c.fn = "tallyDispute" /\ tallyDispute(c.id)
  \/ c.fn = "withdraw" /\ withdraw(j)

\* The next transaction of a key is included; the last one of a dispute is the one waited for.
Mine(j) ==
  /\ mempool[j] # <<>>
  /\ mempool' = [mempool EXCEPT ![j] = Tail(mempool[j])]
  /\ LET c == Head(mempool[j])
         awaited == /\ receipt[j][c.id].awaits = c.fn
                    /\ \A i \in 2..Len(mempool[j]) : mempool[j][i].id # c.id
         answered(fate) ==
           receipt' = IF awaited THEN [receipt EXCEPT ![j][c.id].fate = fate] ELSE receipt
     IN \/ Accepted(j, c) /\ execute(j, c) /\ answered("success")
        \/ /\ ~Accepted(j, c) \/ NotEnoughJurors(c)
           /\ answered("reverted") /\ UNCHANGED marketVars
  /\ UNCHANGED <<posted, faults>>

\* MarketIO.send: simulate, broadcast, wait for the receipt; nothing is sent that reverts now.
send(j, c) ==
  /\ Accepted(j, c) /\ Len(mempool[j]) < MaxPending
  /\ mempool' = [mempool EXCEPT ![j] = Append(mempool[j], c)]
  /\ receipt' = [receipt EXCEPT ![j][c.id] = [awaits |-> c.fn, fate |-> "pending"]]
  /\ UNCHANGED marketVars
sendNothing == UNCHANGED <<dispute, seat, claimable, mempool, receipt>>

answer(j, d) ==
  /\ receipt' = [receipt EXCEPT ![j][d] = NoReceipt]
  /\ UNCHANGED <<dispute, seat, claimable, mempool>>

noFault == UNCHANGED faults
fault == faults < MaxFaults /\ faults' = faults + 1

---------------------------------------------------------------------------
(* The TEE *)

\* Case packets are for the current panel.
servesEvidence(d, j) == dispute[d].round = seat[d][j].round

\* Mutant: a committed vote is enough.
acceptsRationale_committed(d, j, verdict) == seat[d][j].commitment.verdict = verdict

\* A rationale is listed once its juror's reveal is on the chain with that verdict.
acceptsRationale(d, j, verdict) == seat[d][j].revealed /\ seat[d][j].commitment.verdict = verdict
storeRationale(d, j, decision) == posted' = [posted EXCEPT ![d][j] = decision]

---------------------------------------------------------------------------
(* What everybody else does, and time *)

openDispute(d) ==
  /\ dispute[d].status = None /\ \A e \in 1..d-1 : dispute[e].status # None
  /\ dispute' = [dispute EXCEPT ![d].status = "AwaitingSelection"]
  /\ UNCHANGED <<seat, claimable, mempool, receipt, posted, faults>>

othersVote(d) ==
  /\ Voting(d) /\ ~Full(d)
  /\ \/ dispute[d].others = "empty" /\ dispute[d].clock = "commit"
        /\ dispute' = [dispute EXCEPT ![d].others = "committed"]
     \/ dispute[d].others = "committed" /\ RevealOpen(d)
        /\ dispute' = [dispute EXCEPT ![d].others = "revealed"]
  /\ UNCHANGED <<seat, claimable, mempool, receipt, posted, faults>>

\* Drawing a panel and tallying are open to anyone.
othersKeep(d) ==
  /\ \/ dispute[d].status = "AwaitingSelection" /\ dispute[d].clock # "early" /\ selectJurors(d)
     \/ Voting(d) /\ TallyOpen(d) /\ tallyDispute(d)
  /\ UNCHANGED <<mempool, receipt, posted, faults>>

\* Any time may go by between two steps, for every dispute.
Later(clock) ==
  CASE clock = "early" -> {"early", "ready", "late"} [] clock = "ready" -> {"ready", "late"}
    [] clock = "commit" -> {"commit", "reveal", "over"} [] clock = "reveal" -> {"reveal", "over"}
    [] OTHER -> {clock}
Underway(d) == dispute[d].status \in {"AwaitingSelection", "Voting"}
TimePasses ==
  /\ UNCHANGED <<seat, claimable, mempool, receipt, posted, faults>>
  /\ \E c \in [Disputes -> Clocks] :
       /\ \A d \in Disputes : c[d] \in IF Underway(d) THEN Later(dispute[d].clock) ELSE {dispute[d].clock}
       /\ dispute' = [d \in Disputes |-> [dispute[d] EXCEPT !.clock = c[d]]]

OthersAct == TimePasses \/ \E d \in Disputes : openDispute(d) \/ othersVote(d) \/ othersKeep(d)
=============================================================================
