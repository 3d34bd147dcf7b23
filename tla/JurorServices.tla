---------------------------- MODULE JurorServices ----------------------------
(***************************************************************************)
(* Juror processes and the juror workflow on one market: both act as       *)
(* jurors and both may draw panels and tally.                              *)
(***************************************************************************)
EXTENDS JurorAgent, JurorWorkflow

ASSUME ServicesOK == Agents \cup Hosted = Jurors /\ Agents \cap Hosted = {}

vars == <<chainVars, agentVars, run>>

Init == ChainInit /\ AgentInit /\ WorkflowInit

AgentActs == \E a \in Agents : AgentStep(a) /\ UNCHANGED run
WorkflowActs == \E d \in Disputes : WorkflowStep(d) /\ UNCHANGED agentVars
MarketActs ==
  /\ OthersAct \/ \E j \in Jurors : Mine(j)
  /\ UNCHANGED <<agentVars, run>>

Next == AgentActs \/ WorkflowActs \/ MarketActs

Spec == Init /\ [][Next]_vars

\* Transactions are included, sweeps come round, processes and runs go on.  Nobody
\* else has to vote, no deadline has to pass, and a juror process need not keep.
Fairness ==
  /\ \A j \in Jurors : WF_vars(Mine(j) /\ UNCHANGED <<agentVars, run>>)
  /\ \A a \in Agents : WF_vars(AgentWork(a) /\ UNCHANGED run)
  /\ \A d \in Disputes : /\ WF_vars(wake(d) /\ UNCHANGED agentVars)
                         /\ WF_vars(advance(d) /\ UNCHANGED agentVars)
LiveSpec == Spec /\ Fairness

---------------------------------------------------------------------------
\* Market, disks and runs are well typed: no service acts on a vote it never fixed.
TypeOK == ChainTypeOK /\ AgentTypeOK /\ WorkflowTypeOK

\* The service of juror j can open commitment c in dispute d whatever it forgets from now on.
Opens(j, d, c) ==
  IF j \in Agents THEN disk[j][d].secret = c ELSE recoverVerdict(c) # {}

\* Whatever was lost between fixing a vote, sending it and seeing it confirmed, every
\* commitment of ours on the chain or on its way there can be opened (commit.ts, salt.ts).
CommitmentOpens ==
  \A j \in Jurors :
    /\ \A d \in Disputes : seat[d][j].commitment # NoVote => Opens(j, d, seat[d][j].commitment)
    /\ \A i \in 1..Len(mempool[j]) :
         mempool[j][i].fn = "commitVote" => Opens(j, mempool[j][i].id, mempool[j][i].vote)

\* No rationale leaves a service before its juror's vote is public: the TEE lists none, and
\* a juror process hands none over while the dispute can still be voted on (publish.ts).
NoEarlyRationale ==
  \A d \in Disputes :
    /\ \A j \in Jurors : posted[d][j] # None => seat[d][j].revealed
    /\ \A a \in Agents : disk[a][d].published => seat[d][a].revealed \/ dispute[d].status = "Resolved"

\* Once votes can be revealed, all of our jurors that have committed reveal while the phase
\* lasts, through crashes, lost runs, requests that fail and receipts that come too late.
CommittedRevealed ==
  \A d \in Disputes :
    (Voting(d) /\ RevealOpen(d))
      ~> \/ dispute[d].clock = "over" \/ ~Voting(d)
         \/ \A j \in Panel(d) : seat[d][j].commitment # NoVote => seat[d][j].revealed

\* The workflow alone moves every dispute on: a draw whose deadline has passed and a vote
\* that can be tallied are not left as they are (planner.ts, sweep.ts).
Stuck(d) == \/ dispute[d].status = "AwaitingSelection" /\ dispute[d].clock = "late"
            \/ Voting(d) /\ TallyOpen(d)
DisputesDriven == \A d \in Disputes : Stuck(d) ~> ~Stuck(d)

\* While nothing fails, a juror that revealed has its rationale listed and its reward
\* withdrawn after the dispute is resolved, with no run or tick forgetting either.
RevealersFinish ==
  \A d \in Disputes :
    (dispute[d].status = "Resolved" /\ faults = 0)
      ~> \/ faults > 0
         \/ \A j \in Jurors : seat[d][j].revealed => posted[d][j] # None /\ ~claimable[j]

\* BUILD_SPEC.md:475, "They auto-withdraw() after resolution": a reward is withdrawn in the end.
RewardsCollected == \A a \in Agents : claimable[a] ~> ~claimable[a]
=============================================================================
