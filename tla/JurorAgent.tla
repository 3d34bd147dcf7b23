------------------------------ MODULE JurorAgent ------------------------------
(***************************************************************************)
(* The juror process (services/jurors): it keeps its progress in a file    *)
(* written before every transaction, polls the chain and drives each       *)
(* dispute it knows.  A tick drives the disputes one after the other and   *)
(* waits for every receipt; deliberations run beside it and are lost when  *)
(* the process stops.                                                      *)
(***************************************************************************)
EXTENDS JurorChain

CONSTANT Agents      \* the jurors run by such a process

ASSUME AgentsOK == Agents \subseteq Jurors

VARIABLES
  disk,              \* juror -> dispute -> what its file says of it
  jobs               \* juror -> disputes it is deliberating on

agentVars == <<disk, jobs>>

NoRecord == [known |-> FALSE, resolved |-> FALSE, decision |-> None, secret |-> NoVote,
             published |-> FALSE]
Records == [known : BOOLEAN, resolved : BOOLEAN, decision : Verdicts \cup {None},
            secret : Votes \cup {NoVote}, published : BOOLEAN]

AgentInit == /\ disk = [a \in Agents |-> [d \in Disputes |-> NoRecord]]
             /\ jobs = [a \in Agents |-> {}]

AgentTypeOK == /\ disk \in [Agents -> [Disputes -> Records]]
               /\ jobs \in [Agents -> SUBSET Disputes]

Free(a) == \A d \in Disputes : receipt[a][d].awaits = None
Driven(a, d) == Free(a) /\ disk[a][d].known /\ ~disk[a][d].resolved
Committing(a, d) == /\ Driven(a, d) /\ Voting(d) /\ dispute[d].clock = "commit"
                    /\ a \in Panel(d) /\ seat[d][a].commitment = NoVote

---------------------------------------------------------------------------
scanLogs(a) ==
  /\ Free(a) /\ \E d \in Disputes : ~disk[a][d].known /\ dispute[d].status # None
  /\ disk' = [disk EXCEPT ![a] = [d \in Disputes |->
                [disk[a][d] EXCEPT !.known = disk[a][d].known \/ dispute[d].status # None]]]
  /\ UNCHANGED <<jobs, chainVars>>

startDecision(a, d) ==
  /\ Committing(a, d) /\ disk[a][d].decision = None /\ d \notin jobs[a]
  /\ jobs' = [jobs EXCEPT ![a] = jobs[a] \cup {d}]
  /\ UNCHANGED <<disk, chainVars>>

\* A decision on disk is never overwritten.
makeDecision(a, d) ==
  /\ d \in jobs[a] /\ jobs' = [jobs EXCEPT ![a] = jobs[a] \ {d}]
  /\ \/ /\ servesEvidence(d, a) /\ noFault
        /\ \E v \in Verdicts :
             disk' = [disk EXCEPT ![a][d].decision = IF disk[a][d].decision = None THEN v ELSE disk[a][d].decision]
     \/ (IF servesEvidence(d, a) THEN fault ELSE noFault) /\ UNCHANGED disk
  /\ UNCHANGED <<marketVars, mempool, receipt, posted>>

\* Mutant: a new salt for every attempt.
prepareCommit_regenerates(a, d, salt) == [verdict |-> disk[a][d].decision, salt |-> salt]

\* The secret the file holds, or a fresh one.
prepareCommit(a, d, salt) ==
  IF disk[a][d].secret # NoVote THEN disk[a][d].secret
  ELSE [verdict |-> disk[a][d].decision, salt |-> salt]

\* The secret is on disk before the transaction is sent, and stays when it is not.
commitPhase(a, d) ==
  /\ Committing(a, d) /\ disk[a][d].decision # None
  /\ \E salt \in Salts :
       LET secret == prepareCommit(a, d, salt) IN
       /\ disk' = [disk EXCEPT ![a][d].secret = secret]
       /\ \/ send(a, [fn |-> "commitVote", id |-> d, vote |-> secret]) /\ noFault
          \/ sendNothing /\ fault
  /\ UNCHANGED <<jobs, posted>>

CanReveal(a, d) == disk[a][d].secret # NoVote /\ disk[a][d].secret = seat[d][a].commitment
revealPhase(a, d) ==
  /\ Driven(a, d) /\ Voting(d) /\ RevealOpen(d)
  /\ a \in Panel(d) /\ seat[d][a].commitment # NoVote /\ ~seat[d][a].revealed
  /\ CanReveal(a, d)
  /\ \/ send(a, [fn |-> "revealVote", id |-> d, vote |-> disk[a][d].secret]) /\ noFault
     \/ sendNothing /\ fault
  /\ UNCHANGED <<disk, jobs, posted>>

Publishable(a, d) ==
  disk[a][d].decision # None /\ disk[a][d].secret # NoVote /\ ~disk[a][d].published

\* Marked published whether or not the TEE got it.
maybePublish(a, d, uploaded) ==
  IF Publishable(a, d) /\ acceptsRationale(d, a, disk[a][d].secret.verdict) /\ uploaded
  THEN storeRationale(d, a, disk[a][d].decision) ELSE UNCHANGED posted

publishRevealed(a, d) ==
  /\ Driven(a, d) /\ Voting(d) /\ a \in Panel(d) /\ seat[d][a].revealed /\ Publishable(a, d)
  /\ \E uploaded \in BOOLEAN : /\ maybePublish(a, d, uploaded)
                               /\ IF uploaded THEN noFault ELSE fault
  /\ disk' = [disk EXCEPT ![a][d].published = TRUE]
  /\ UNCHANGED <<jobs, marketVars, mempool, receipt>>

\* An option: any juror process may also draw the panel and tally.
keep(a, d) ==
  /\ Driven(a, d)
  /\ \/ send(a, Call("selectJurors", d))
     \/ /\ ~(a \in Panel(d) /\ seat[d][a].revealed /\ Publishable(a, d))
        /\ send(a, Call("tallyDispute", d))
  /\ UNCHANGED <<disk, jobs, posted, faults>>

\* The record is closed before the reward is asked for.
onResolved(a, d) ==
  /\ Driven(a, d) /\ dispute[d].status = "Resolved"
  /\ LET seated == seat[d][a].round # 0
         publishes == seated /\ Publishable(a, d) IN
     /\ disk' = [disk EXCEPT ![a][d].resolved = TRUE, ![a][d].published = publishes \/ disk[a][d].published]
     /\ \E uploaded, asked \in BOOLEAN :
          /\ IF seated THEN maybePublish(a, d, uploaded) ELSE UNCHANGED posted
          /\ IF seated /\ claimable[a] /\ asked THEN send(a, Call("withdraw", d)) ELSE sendNothing
          /\ IF uploaded /\ asked THEN noFault ELSE fault
  /\ UNCHANGED jobs

\* The receipt of the transaction waited for; after a reveal the rationale is published.
outcome(a, d) ==
  /\ receipt[a][d].fate \in {"success", "reverted"}
  /\ answer(a, d)
  /\ IF receipt[a][d].awaits = "revealVote" /\ receipt[a][d].fate = "success" /\ Publishable(a, d)
     THEN /\ disk' = [disk EXCEPT ![a][d].published = TRUE]
          /\ \E uploaded \in BOOLEAN : /\ maybePublish(a, d, uploaded)
                                       /\ IF uploaded THEN noFault ELSE fault
     ELSE UNCHANGED <<disk, posted, faults>>
  /\ UNCHANGED jobs

\* The receipt does not come in time: the tick goes on, the transaction stays in the mempool.
receiptTimeout(a, d) ==
  receipt[a][d].fate = "pending" /\ answer(a, d) /\ fault /\ UNCHANGED <<disk, jobs, posted>>

restart(a) ==
  /\ jobs' = [jobs EXCEPT ![a] = {}]
  /\ receipt' = [receipt EXCEPT ![a] = [d \in Disputes |-> NoReceipt]]
  /\ fault /\ UNCHANGED <<disk, marketVars, mempool, posted>>

drive(a, d) == \/ startDecision(a, d) \/ commitPhase(a, d) \/ revealPhase(a, d)
               \/ publishRevealed(a, d) \/ onResolved(a, d)
AgentWork(a) == scanLogs(a) \/ \E d \in Disputes : drive(a, d) \/ makeDecision(a, d) \/ outcome(a, d)
AgentStep(a) == \/ AgentWork(a) \/ restart(a)
                \/ \E d \in Disputes : keep(a, d) \/ receiptTimeout(a, d)
=============================================================================
