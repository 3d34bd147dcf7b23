---------------------------- MODULE JurorWorkflow ----------------------------
(***************************************************************************)
(* The juror workflow (services/jurors-vercel): one durable run per        *)
(* dispute that reads the chain, plans, executes the planned steps at the  *)
(* same time and plans again.  What a run remembers is lost with it: the   *)
(* salts are derived from the keys and the verdict is recovered from the   *)
(* commitment on the chain.                                                *)
(***************************************************************************)
EXTENDS JurorChain

CONSTANTS
  Hosted,            \* the jurors whose keys the workflow holds
  Keeper,            \* KEEPER_JUROR: the key that draws panels and tallies
  MaxScan,           \* MAX_SCAN: disputes a sweep looks at
  MaxFailures        \* MAX_..._FAILURES: kind of step -> failures after which it is given up

Retried == {"deliberate", "publish", "withdraw"}

ASSUME HostedOK == /\ Hosted \subseteq Jurors /\ Keeper \in Hosted /\ MaxScan \in Nat
                   /\ MaxFailures \in [Retried -> Nat \ {0}]

VARIABLE run         \* dispute -> its run: alive, the steps under way, what it remembers

Kinds == Retried \cup {"select", "tally", "prepare", "commit", "reveal"}
Step(kind, j) == [kind |-> kind, juror |-> j]
Steps == [kind : Kinds, juror : Hosted]

NoRun == [on |-> FALSE, todo |-> {}, tooFew |-> FALSE,
          decision |-> [j \in Hosted |-> None], prepared |-> [j \in Hosted |-> None],
          published |-> [j \in Hosted |-> FALSE],
          failures |-> [k \in Retried |-> [j \in Hosted |-> 0]]]
Runs == [on : BOOLEAN, todo : SUBSET Steps, tooFew : BOOLEAN,
         decision : [Hosted -> Verdicts \cup {None}], prepared : [Hosted -> Verdicts \cup {None}],
         published : [Hosted -> BOOLEAN], failures : [Retried -> [Hosted -> Nat]]]

WorkflowInit == run = [d \in Disputes |-> NoRun]
WorkflowTypeOK == run \in [Disputes -> Runs]

---------------------------------------------------------------------------
(* The plan *)

Tries(kind, d, j) == run[d].failures[kind][j] < MaxFailures[kind]
Unpublished(d, j) == /\ seat[d][j].revealed /\ run[d].decision[j] # None
                     /\ ~run[d].published[j] /\ Tries("publish", d, j)

\* Mutant: a run that sees its dispute resolved only withdraws.
planResolved_noLeftovers(d) ==
  {Step("withdraw", j) : j \in {i \in Hosted : claimable[i] /\ Tries("withdraw", d, i)}}

planResolved(d) ==
  {Step("publish", j) : j \in {i \in Hosted : Unpublished(d, i)}}
    \cup {Step("withdraw", j) : j \in {i \in Hosted : claimable[i] /\ Tries("withdraw", d, i)}}

\* Mutant: after NotEnoughJurors the draw is not tried again.
planSelection_once(d) ==
  {Step("select", k) : k \in {i \in {Keeper} : dispute[d].clock # "early" /\ ~run[d].tooFew}}

\* After NotEnoughJurors the draw waits for the selection deadline.
planSelection(d) ==
  {Step("select", k) : k \in {i \in {Keeper} : \/ dispute[d].clock = "late"
                                               \/ dispute[d].clock = "ready" /\ ~run[d].tooFew}}

\* Mutant: only a vote prepared in this run is revealed.
planSeat_remembered(d, j) ==
  CASE seat[d][j].commitment = NoVote /\ dispute[d].clock = "commit" ->
         IF run[d].prepared[j] # None THEN {Step("commit", j)}
         ELSE IF run[d].decision[j] # None THEN {Step("prepare", j)}
         ELSE IF Tries("deliberate", d, j) THEN {Step("deliberate", j)} ELSE {}
    [] seat[d][j].commitment # NoVote /\ ~seat[d][j].revealed ->
         IF RevealOpen(d) /\ run[d].prepared[j] # None THEN {Step("reveal", j)} ELSE {}
    [] OTHER -> IF Unpublished(d, j) THEN {Step("publish", j)} ELSE {}

planSeat(d, j) ==
  CASE seat[d][j].commitment = NoVote /\ dispute[d].clock = "commit" ->
         IF run[d].prepared[j] # None THEN {Step("commit", j)}
         ELSE IF run[d].decision[j] # None THEN {Step("prepare", j)}
         ELSE IF Tries("deliberate", d, j) THEN {Step("deliberate", j)} ELSE {}
    [] seat[d][j].commitment # NoVote /\ ~seat[d][j].revealed ->
         IF RevealOpen(d) THEN {Step("reveal", j)} ELSE {}
    [] OTHER -> IF Unpublished(d, j) THEN {Step("publish", j)} ELSE {}

planVoting(d) ==
  (UNION {planSeat(d, j) : j \in Hosted \cap Panel(d)})
    \cup (IF TallyOpen(d) THEN {Step("tally", Keeper)} ELSE {})

planNext(d) ==
  CASE dispute[d].status = "Resolved" -> planResolved(d)
    [] dispute[d].status = "AwaitingSelection" -> planSelection(d)
    [] dispute[d].status = "Voting" -> planVoting(d)
    [] OTHER -> {}

---------------------------------------------------------------------------
(* The run.  Only one run of a dispute gets past its hook. *)

Newest(d) == Cardinality({e \in Disputes : e > d /\ dispute[e].status # None}) < MaxScan
wake(d) ==
  /\ dispute[d].status \in {"AwaitingSelection", "Voting"} /\ Newest(d) /\ ~run[d].on
  /\ run' = [run EXCEPT ![d] = [NoRun EXCEPT !.on = TRUE]]
  /\ UNCHANGED chainVars

driveDispute(d) ==
  /\ run[d].on /\ run[d].todo = {}
  /\ IF dispute[d].status = "Resolved" /\ planNext(d) = {}
     THEN run' = [run EXCEPT ![d] = NoRun]
     ELSE planNext(d) # {} /\ run' = [run EXCEPT ![d].todo = planNext(d)]
  /\ UNCHANGED chainVars

\* A step is over: what the run remembers of it.
apply(d, x, r) ==
  run' = [run EXCEPT ![d] = [r EXCEPT !.todo = r.todo \ {x}]]
failed(d, x) ==
  apply(d, x, IF x.kind \in Retried
              THEN [run[d] EXCEPT !.failures[x.kind][x.juror] = run[d].failures[x.kind][x.juror] + 1]
              ELSE run[d])
done(d, x) == apply(d, x, run[d])

Idle(d, x) == x \in run[d].todo /\ receipt[x.juror][d].awaits = None
NeedsVote(d, j) == Voting(d) /\ j \in Panel(d) /\ seat[d][j].commitment = NoVote

\* Every step reads the chain again before it acts.
deliberate(d, x) ==
  /\ x.kind = "deliberate"
  /\ \/ /\ NeedsVote(d, x.juror) /\ noFault
        /\ \E v \in Verdicts : apply(d, x, [run[d] EXCEPT !.decision[x.juror] = v])
     \/ failed(d, x) /\ (IF NeedsVote(d, x.juror) THEN fault ELSE noFault)
  /\ sendNothing /\ UNCHANGED posted

prepareVote(d, x) ==
  /\ x.kind = "prepare" /\ apply(d, x, [run[d] EXCEPT !.prepared[x.juror] = run[d].decision[x.juror]])
  /\ sendNothing /\ noFault /\ UNCHANGED posted

derivedVote(d, j) == [verdict |-> run[d].prepared[j], salt |-> Derived]
recoverVerdict(c) == {v \in Verdicts : c = [verdict |-> v, salt |-> Derived]}

\* The transaction of a step, if the chain still calls for it.
call(d, x) ==
  CASE x.kind = "select" -> {Call("selectJurors", d)}
    [] x.kind = "tally" -> {Call("tallyDispute", d)}
    [] x.kind = "withdraw" -> {Call("withdraw", d)}
    [] x.kind = "commit" -> {[fn |-> "commitVote", id |-> d, vote |-> derivedVote(d, x.juror)]}
    [] x.kind = "reveal" -> {[fn |-> "revealVote", id |-> d, vote |-> [verdict |-> v, salt |-> Derived]] :
                               v \in recoverVerdict(seat[d][x.juror].commitment)}
    [] OTHER -> {}

\* NotEnoughJurors before the deadline is remembered.
keeperSelectReverts(d, x) ==
  /\ x.kind = "select" /\ dispute[d].clock = "ready"
  /\ apply(d, x, [run[d] EXCEPT !.tooFew = TRUE])

\* Nothing is sent when the simulation reverts.
transact(d, x) ==
  /\ x.kind \in {"select", "tally", "withdraw", "commit", "reveal"} /\ UNCHANGED posted
  /\ \/ \E c \in call(d, x) : send(x.juror, c) /\ noFault /\ UNCHANGED run
     \/ /\ \A c \in call(d, x) : ~Accepted(x.juror, c)
        /\ done(d, x) /\ noFault /\ sendNothing
     \/ keeperSelectReverts(d, x) /\ noFault /\ sendNothing
     \/ failed(d, x) /\ fault /\ sendNothing

publishRationale(d, x) ==
  /\ x.kind = "publish" /\ sendNothing
  /\ \/ /\ seat[d][x.juror].revealed /\ noFault
        /\ acceptsRationale(d, x.juror, seat[d][x.juror].commitment.verdict)
        /\ storeRationale(d, x.juror, run[d].decision[x.juror])
        /\ apply(d, x, [run[d] EXCEPT !.published[x.juror] = TRUE])
     \/ failed(d, x) /\ fault /\ UNCHANGED posted

runStep(d, x) == Idle(d, x) /\ (deliberate(d, x) \/ prepareVote(d, x) \/ transact(d, x) \/ publishRationale(d, x))

\* The receipt comes; or it comes too late, and the step is retried or given up.
Awaits == [select |-> "selectJurors", tally |-> "tallyDispute", withdraw |-> "withdraw",
           commit |-> "commitVote", reveal |-> "revealVote"]
settle(d, x) ==
  /\ x \in run[d].todo /\ x.kind \in DOMAIN Awaits /\ receipt[x.juror][d].awaits = Awaits[x.kind]
  /\ answer(x.juror, d) /\ UNCHANGED posted
  /\ \/ receipt[x.juror][d].fate = "success" /\ done(d, x) /\ noFault
     \/ receipt[x.juror][d].fate = "reverted" /\ failed(d, x) /\ noFault
     \/ receipt[x.juror][d].fate = "pending" /\ (failed(d, x) \/ UNCHANGED run) /\ fault

\* A run ends with its memory: lost, or stopped after its last iteration.
runLost(d) ==
  /\ run[d].on /\ run' = [run EXCEPT ![d] = NoRun]
  /\ receipt' = [j \in Jurors |-> IF j \in Hosted THEN [receipt[j] EXCEPT ![d] = NoReceipt] ELSE receipt[j]]
  /\ fault /\ UNCHANGED <<marketVars, mempool, posted>>

advance(d) == driveDispute(d) \/ \E x \in run[d].todo : runStep(d, x) \/ settle(d, x)
WorkflowStep(d) == wake(d) \/ advance(d) \/ runLost(d)
=============================================================================
