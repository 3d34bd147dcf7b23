------------------------------ MODULE TeeService ------------------------------
(***************************************************************************)
(* The chain watcher of the TEE service (watcher.ts) composed with the     *)
(* handlers it dispatches to and the chain they act on, with crashes.      *)
(***************************************************************************)
EXTENDS TeeHandlers, FiniteSetsExt

CONSTANTS
  CHUNK,             \* blocks per getLogs (2000)
  ATTEMPTS,          \* failures after which a job is abandoned (8)
  CursorUnreadable,  \* whether a restart may find the cursor file unreadable
  MaxCrashes         \* bound: crashes of the process

ASSUME TeeServiceOK ==
  /\ CHUNK \in Nat \ {0} /\ ATTEMPTS \in Nat \ {0}
  /\ CursorUnreadable \in BOOLEAN /\ MaxCrashes \in Nat

VARIABLES
  cursor,     \* on disk: events scanned
  poll,       \* in memory: where pollOnce is
  retry,      \* in memory: job -> failures so far, back-off over
  abandoned,  \* jobs logged as abandoned
  crashes     \* crashes so far

watcherVars == <<cursor, poll, retry, abandoned, crashes>>
vars == <<chainVars, handlerVars, watcherVars>>

Asleep == [at |-> "idle", from |-> 0, head |-> 0, jobs |-> <<>>]
FirstTry == [attempts |-> 0, ready |-> TRUE]

Init ==
  /\ ChainInit /\ HandlersInit
  /\ cursor = 0 /\ crashes = 0 /\ abandoned = {}
  /\ poll = Asleep /\ retry = <<>>

inFlight(i) == verifying[i].at # "idle"
removed(j) == [k \in DOMAIN retry \ {j} |-> retry[k]]
kept(j, n) == [k \in DOMAIN retry \cup {j} |->
                 IF k = j THEN [attempts |-> n, ready |-> FALSE] ELSE retry[k]]
enqueued(jobs) == [k \in DOMAIN retry \cup jobs |->
                     IF k \in DOMAIN retry THEN retry[k] ELSE FirstTry]

\* Faulty: a failed job is dropped.
fail_forgets(j, n) ==
  /\ retry' = removed(j)
  /\ abandoned' = IF n >= ATTEMPTS THEN abandoned \cup {j} ELSE abandoned

\* The job has failed for the n-th time.
fail(j, n) ==
  \/ n < ATTEMPTS /\ retry' = kept(j, n) /\ UNCHANGED abandoned
  \/ n >= ATTEMPTS /\ retry' = removed(j) /\ abandoned' = abandoned \cup {j}

---------------------------------------------------------------------------
(* pollOnce; poll.at = "idle" between polls is what #running guards *)

\* A cursor file that a restart finds unreadable is START_BLOCK.
pollStarts ==
  /\ poll.at = "idle"
  /\ \E f \in IF CursorUnreadable /\ crashes > 0 THEN {0, cursor} ELSE {cursor} :
       poll' = [at |-> "scan", from |-> f, head |-> confirmed, jobs |-> <<>>]
  /\ UNCHANGED <<chainVars, handlerVars, cursor, retry, abandoned, crashes>>

chunkEnd == Min({poll.from + CHUNK, poll.head})
chunkJobs == {log[n] : n \in poll.from + 1..chunkEnd}

\* Faulty: the saved cursor passes one event too many.
scanChunk_skipsOne ==
  /\ poll.at = "scan" /\ poll.from < poll.head
  /\ retry' = enqueued(chunkJobs)
  /\ cursor' = chunkEnd + 1
  /\ poll' = [poll EXCEPT !.from = chunkEnd]
  /\ UNCHANGED <<chainVars, handlerVars, abandoned, crashes>>

\* The jobs are in memory when the cursor that passes them is saved.
scanChunk ==
  /\ poll.at = "scan" /\ poll.from < poll.head
  /\ retry' = enqueued(chunkJobs)
  /\ cursor' = chunkEnd
  /\ poll' = [poll EXCEPT !.from = chunkEnd]
  /\ UNCHANGED <<chainVars, handlerVars, abandoned, crashes>>

\* The node, or saving the cursor, fails: this poll ends without handling anything.
scanFails ==
  /\ poll.at = "scan"
  /\ poll' = Asleep
  /\ \/ UNCHANGED retry
     \/ poll.from < poll.head /\ retry' = enqueued(chunkJobs)
  /\ UNCHANGED <<chainVars, handlerVars, cursor, abandoned, crashes>>

\* The jobs whose back-off is over, with their failures at this moment.
dueJobs == [j \in {k \in DOMAIN retry : retry[k].ready} |-> retry[j].attempts]

drainStarts ==
  /\ poll.at = "scan" /\ poll.from >= poll.head
  /\ poll' = [poll EXCEPT !.at = "drain", !.jobs = dueJobs]
  /\ UNCHANGED <<chainVars, handlerVars, cursor, retry, abandoned, crashes>>

purchasesLeft == {j \in DOMAIN poll.jobs : j.kind = "purchase"}

\* Deliveries first, one at a time and awaited.
drainRelays(j) ==
  /\ poll.at = "drain" /\ relay.at = "idle" /\ j \in purchasesLeft
  /\ relay' = [Resting EXCEPT !.at = "read", !.id = j.id]
  /\ poll' = [poll EXCEPT !.jobs = [k \in DOMAIN @ \ {j} |-> @[k]]]
  /\ UNCHANGED <<chainVars, diskVars, verifying, txq, sent, cursor, retry, abandoned, crashes>>

relayReturns ==
  LET j == PurchaseJob(relay.id) IN
  /\ relay.at \in {"done", "failed"}
  /\ \/ relay.at = "done" /\ retry' = removed(j) /\ UNCHANGED abandoned
     \/ relay.at = "failed" /\ fail(j, retry[j].attempts + 1)
  /\ relay' = Resting
  /\ UNCHANGED <<chainVars, diskVars, verifying, txq, sent, cursor, poll, crashes>>

\* Then every dispute at once, in the background; a verification already in flight is
\* joined.
drainDisputes ==
  LET started == {j.id : j \in DOMAIN poll.jobs} IN
  /\ poll.at = "drain" /\ relay.at = "idle" /\ purchasesLeft = {}
  /\ \A i \in Sales : verifying[i].at # "failed"
  /\ retry' = [k \in DOMAIN retry \ DOMAIN poll.jobs |-> retry[k]]
  /\ verifying' = [i \in Sales |->
       IF i \notin started THEN verifying[i]
       ELSE [verifying[i] EXCEPT !.at = IF inFlight(i) THEN @ ELSE "read",
                                 !.attempts = poll.jobs[DisputeJob(i)]]]
  /\ poll' = Asleep
  /\ UNCHANGED <<chainVars, diskVars, relay, txq, sent, cursor, abandoned, crashes>>

\* The catch of a verification started in the background.
verifierCaught(i) ==
  /\ verifying[i].at = "failed"
  /\ fail(DisputeJob(i), verifying[i].attempts + 1)
  /\ verifying' = [verifying EXCEPT ![i] = NotVerifying]
  /\ UNCHANGED <<chainVars, diskVars, relay, txq, sent, cursor, poll, crashes>>

backOffOver(j) ==
  /\ j \in DOMAIN retry /\ ~retry[j].ready
  /\ retry' = [retry EXCEPT ![j].ready = TRUE]
  /\ UNCHANGED <<chainVars, handlerVars, cursor, poll, abandoned, crashes>>

---------------------------------------------------------------------------
(* A crash and restart keeps what is on disk, and the chain goes on. *)
crash ==
  /\ crashes < MaxCrashes /\ crashes' = crashes + 1
  /\ relay' = Resting /\ verifying' = [i \in Sales |-> NotVerifying]
  /\ txq' = <<>> /\ sent' = 0
  /\ poll' = Asleep /\ retry' = <<>>
  /\ UNCHANGED <<chainVars, diskVars, cursor, abandoned>>

Handling == \/ RelaySteps \/ QueueSteps
            \/ \E i \in Sales : VerifierSteps(i)

Next ==
  \/ /\ OthersAct \/ Confirm \/ Mine
     /\ UNCHANGED <<handlerVars, watcherVars>>
  \/ /\ Handling \/ \E i \in Sales : serveDelivery(i)
     /\ UNCHANGED watcherVars
  \/ pollStarts \/ scanChunk \/ scanFails \/ drainStarts
  \/ \E j \in Jobs : drainRelays(j) \/ backOffOver(j)
  \/ relayReturns \/ drainDisputes
  \/ \E i \in Sales : verifierCaught(i)
  \/ crash

Spec == Init /\ [][Next]_vars

(***************************************************************************)
(* The event loop runs what it can: a poll follows a poll, an await ends   *)
(* with an answer or a time-out, blocks come.  Scanning is strongly fair:  *)
(* the node does not fail every getLogs for ever.                          *)
(***************************************************************************)
Fairness ==
  /\ WF_vars(Confirm /\ UNCHANGED <<handlerVars, watcherVars>>)
  /\ WF_vars(pollStarts) /\ SF_vars(scanChunk) /\ SF_vars(drainStarts)
  /\ \A j \in Jobs : WF_vars(backOffOver(j)) /\ WF_vars(drainRelays(j))
  /\ WF_vars(relayReturns) /\ WF_vars(drainDisputes)
  /\ \A i \in Sales : /\ WF_vars(verifierCaught(i))
                      /\ WF_vars(VerifierSteps(i) /\ UNCHANGED watcherVars)
  /\ WF_vars(RelaySteps /\ UNCHANGED watcherVars)
  /\ WF_vars((writeConfirmed \/ writeFails) /\ UNCHANGED watcherVars)
FairSpec == Spec /\ Fairness

---------------------------------------------------------------------------
(* Properties *)

\* Memory, disk and chain hold values of their types.
TypeOK ==
  /\ sale \in [Sales -> [state : States, key : Int, late : BOOLEAN]]
  /\ mech \in [Sales -> [status : {"None", "Voting", "Resolved"}, ground : TeeGrounds,
                         finding : Nat, late : BOOLEAN]]
  /\ log \in Seq(Jobs) /\ confirmed \in 0..Len(log) /\ cursor \in 0..Len(log)
  /\ uploaded \subseteq Sales
  /\ deliveries \in [Sales -> [key : Nat, status : {"none", "prepared", "delivered",
                                                     "failed", "expired"}]]
  /\ findings \in [Sales -> [hash : Nat, mismatch : BOOLEAN, tx : BOOLEAN]]
  /\ DOMAIN retry \subseteq Jobs /\ abandoned \subseteq Jobs
  /\ Len(txs) <= MaxTxs /\ sent \in 0..Len(txs) /\ served \in [Sales -> Int]

\* "After a restart it reuses the stored record, so the on-chain hashes always match
\* what it serves" (README): a key this relay put on chain is the one on its disk, with
\* crashes, retries and transactions mined after their time-out.
DeliveredMatchesRecord ==
  \A i \in Sales : sale[i].key \notin {None, ForeignKey} => sale[i].key = deliveries[i].key

\* A buyer gets a key only for a purchase whose delivery is on chain, so nobody has
\* both the key and the refund of an undelivered purchase (serveDelivery).
NoKeyWithRefund ==
  \A i \in Sales : served[i] # None => /\ sale[i].state \in {"Delivered", "Disputed", "Settled"}
                                       /\ sale[i].key = served[i]

\* The finding on chain is the one on disk, and is published: a verification is not
\* done twice with different results, and never announced before it is saved.
FindingOnRecord ==
  \A i \in Sales : mech[i].finding # None => /\ findings[i].hash = mech[i].finding
                                             /\ mech[i].finding \in blobs

\* What the disk says was done was done: a record is marked delivered, a finding sent,
\* only when the chain has that very key or finding, with several calls queued, reverted
\* or timed out (write, handlePurchased, verifyDispute).
RecordedOutcomeTrue ==
  \A i \in Sales : /\ deliveries[i].status = "delivered" => sale[i].key = deliveries[i].key
                   /\ findings[i].tx => mech[i].finding = findings[i].hash

\* A delivery that this relay did not make is not taken for a broken one: "delivery was
\* not produced by this relay; key validity cannot be re-derived" (verifyBroken).
OthersNotBlamed ==
  \A i \in Sales : sale[i].key = ForeignKey => ~findings[i].mismatch

\* Unless the process crashes, every purchase the service can deliver is delivered before it
\* is too late, or given up with an error in the log (drain, fail, handlePurchased).
EveryPurchaseAnswered ==
  \A i \in Sales :
    (i \in uploaded /\ sale[i].state = "Funded" /\ crashes = 0) ~>
      (~Funded(i) \/ PurchaseJob(i) \in abandoned \/ crashes > 0)

\* So is every mechanical dispute: decided, or late, or given up with an error in the log.
EveryDisputeAnswered ==
  \A i \in Sales : (mech[i].status = "Voting" /\ crashes = 0) ~>
    (mech[i].status = "Resolved" \/ mech[i].late \/ DisputeJob(i) \in abandoned \/ crashes > 0)

\* "Failed handlers are retried on later polls (bounded)" (watcher.ts): a delivery that
\* failed is tried again while it can still be made, or given up with an error in the log.
FailedHandlersRetried ==
  \A i \in Sales :
    (PurchaseJob(i) \in DOMAIN retry /\ retry[PurchaseJob(i)].attempts > 0) ~>
      (relay.id = i \/ PurchaseJob(i) \in abandoned \/ ~Funded(i))
=============================================================================
