----------------------------- MODULE TeeHandlers -----------------------------
(***************************************************************************)
(* The handlers of the TEE service: the relay (relay.ts) delivers the key  *)
(* of a purchase, the verifier (verifier.ts) decides a mechanical dispute, *)
(* and both send their transactions through one queue (chain.ts, write).   *)
(* Steps end where the code awaits, so chain, clock and the other handlers *)
(* move between them.                                                      *)
(***************************************************************************)
EXTENDS TeeChain

CONSTANT MaxFresh   \* bound: wrapped keys and findings made

ASSUME TeeHandlersOK == MaxFresh \in Nat

VARIABLES
  uploaded,    \* on disk: sales whose bundle key, blob and buyer key are usable
  deliveries,  \* on disk: purchase -> wrapped key, status
  findings,    \* on disk: dispute -> hash, key or payload mismatch found, tx confirmed
  blobs,       \* on disk: published findings
  served,      \* purchase -> wrapped key the buyer downloaded
  relay,       \* in memory: the purchase being handled and where
  verifying,   \* in memory: dispute -> where its verification is, and its job's attempts
  txq,         \* in memory: calls waiting in write()'s promise queue
  sent,        \* in memory: nonce of the queue's first call once broadcast, or 0
  fresh        \* keys and findings made so far

diskVars == <<uploaded, deliveries, findings, blobs, served, fresh>>
memoryVars == <<relay, verifying, txq, sent>>
handlerVars == <<diskVars, memoryVars>>

NoDelivery == [key |-> None, status |-> "none"]
NoFinding == [hash |-> None, mismatch |-> FALSE, tx |-> FALSE]
Resting == [at |-> "idle", id |-> None, state |-> "None", key |-> None]
NotVerifying == [at |-> "idle", status |-> "None", attempts |-> 0]

MemoryInit ==
  /\ relay = Resting
  /\ verifying = [i \in Sales |-> NotVerifying]
  /\ txq = <<>> /\ sent = 0

HandlersInit ==
  /\ uploaded \in SUBSET Sales
  /\ deliveries = [i \in Sales |-> NoDelivery]
  /\ findings = [i \in Sales |-> NoFinding]
  /\ blobs = {} /\ fresh = 0
  /\ served = [i \in Sales |-> None]
  /\ MemoryInit

prepared(i) == deliveries[i].key # None

---------------------------------------------------------------------------
(* chain.ts: one call at a time is simulated, sent and waited for *)

enqueue(fn, i, arg) == txq' = Append(txq, [fn |-> fn, id |-> i, arg |-> arg])

\* The call's promise settles and its handler goes on.
settle(ok) ==
  LET c == Head(txq) IN
  /\ txq' = Tail(txq) /\ sent' = 0
  /\ \/ /\ c.fn = "recordDelivery"
        /\ deliveries' = [deliveries EXCEPT ![c.id].status = IF ok THEN "delivered" ELSE "failed"]
        /\ relay' = [relay EXCEPT !.at = IF ok THEN "done" ELSE "failed"]
        /\ UNCHANGED <<findings, verifying>>
     \/ /\ c.fn = "resolveMechanical"
        /\ findings' = [findings EXCEPT ![c.id].tx = ok]
        /\ verifying' = [verifying EXCEPT ![c.id].at = IF ok THEN "idle" ELSE "failed"]
        /\ UNCHANGED <<deliveries, relay>>
  /\ UNCHANGED <<uploaded, blobs, served, fresh>>

broadcast ==
  /\ txq # <<>> /\ sent = 0 /\ Len(txs) < MaxTxs
  /\ Accepted(Head(txq))     \* simulateContract
  /\ txs' = Append(txs, [call |-> Head(txq), status |-> "pending"])
  /\ UNCHANGED <<sale, mech, log, confirmed>>

writeSends ==
  /\ broadcast /\ sent' = Len(txs')
  /\ UNCHANGED <<diskVars, relay, verifying, txq>>

\* The node took the transaction but its answer was lost.
writeLosesAnswer == broadcast /\ settle(FALSE)

\* Faulty: the receipt's status is not looked at.
writeConfirmed_anyReceipt ==
  /\ sent # 0 /\ txs[sent].status # "pending"
  /\ settle(TRUE)
  /\ UNCHANGED chainVars

writeConfirmed ==
  /\ sent # 0 /\ txs[sent].status = "success"
  /\ settle(TRUE)
  /\ UNCHANGED chainVars

\* The simulation or the transaction reverts, the node fails, or 180 seconds pass.
writeFails ==
  /\ txq # <<>>
  /\ settle(FALSE)
  /\ UNCHANGED chainVars

---------------------------------------------------------------------------
(* relay.ts, handlePurchased: the watcher starts it with relay.at = "read" *)

relayReads ==
  /\ relay.at = "read"
  /\ relay' = [relay EXCEPT !.at = "decide", !.state = sale[relay.id].state,
                            !.key = sale[relay.id].key]
  /\ UNCHANGED <<diskVars, verifying, txq, sent>>

\* State and clock are looked at after the answer has come in.
relayDecides ==
  LET i == relay.id IN
  /\ relay.at = "decide"
  /\ \/ /\ relay.state # "Funded"
        /\ deliveries' =
             IF prepared(i) /\ relay.state # "Refunded" /\ relay.key = deliveries[i].key
             THEN [deliveries EXCEPT ![i].status = "delivered"] ELSE deliveries
        /\ relay' = [relay EXCEPT !.at = "done"]
     \/ /\ relay.state = "Funded" /\ sale[i].late
        /\ deliveries' = IF prepared(i) THEN [deliveries EXCEPT ![i].status = "expired"]
                         ELSE deliveries
        /\ relay' = [relay EXCEPT !.at = "done"]
     \/ /\ relay.state = "Funded" /\ ~sale[i].late
        /\ relay' = [relay EXCEPT !.at = "prepare"]
        /\ UNCHANGED deliveries
  /\ UNCHANGED <<uploaded, findings, blobs, served, fresh, verifying, txq, sent>>

\* Faulty: every attempt wraps the key anew.
relayPrepares_newKey ==
  LET i == relay.id IN
  /\ relay.at = "prepare"
  /\ \/ /\ i \notin uploaded
        /\ relay' = [relay EXCEPT !.at = "done"]
        /\ UNCHANGED <<deliveries, fresh>>
     \/ /\ i \in uploaded /\ fresh < MaxFresh
        /\ fresh' = fresh + 1
        /\ deliveries' = [deliveries EXCEPT ![i] = [key |-> fresh + 1, status |-> "prepared"]]
        /\ relay' = [relay EXCEPT !.at = "sign", !.key = fresh + 1]
  /\ UNCHANGED <<uploaded, findings, blobs, served, verifying, txq, sent>>

\* The record is on disk before anything is signed; one that is there is used again.
relayPrepares ==
  LET i == relay.id IN
  /\ relay.at = "prepare"
  /\ \/ /\ i \notin uploaded    \* nothing to deliver: the handler returns
        /\ relay' = [relay EXCEPT !.at = "done"]
        /\ UNCHANGED <<deliveries, fresh>>
     \/ /\ i \in uploaded /\ prepared(i)
        /\ relay' = [relay EXCEPT !.at = "sign", !.key = deliveries[i].key]
        /\ UNCHANGED <<deliveries, fresh>>
     \/ /\ i \in uploaded /\ ~prepared(i) /\ fresh < MaxFresh
        /\ fresh' = fresh + 1
        /\ deliveries' = [deliveries EXCEPT ![i] = [key |-> fresh + 1, status |-> "prepared"]]
        /\ relay' = [relay EXCEPT !.at = "sign", !.key = fresh + 1]
  /\ UNCHANGED <<uploaded, findings, blobs, served, verifying, txq, sent>>

relaySigns ==
  /\ relay.at = "sign"
  /\ enqueue("recordDelivery", relay.id, relay.key)
  /\ relay' = [relay EXCEPT !.at = "write"]
  /\ UNCHANGED <<diskVars, verifying, sent>>

\* A read of the chain fails.
relayReadFails ==
  /\ relay.at \in {"read", "prepare"}
  /\ relay' = [relay EXCEPT !.at = "failed"]
  /\ UNCHANGED <<diskVars, verifying, txq, sent>>

RelaySteps == /\ \/ relayReads \/ relayDecides \/ relayPrepares \/ relaySigns \/ relayReadFails
              /\ UNCHANGED chainVars

\* Faulty: a prepared record is enough.
serveDelivery_early(i) ==
  /\ prepared(i)
  /\ served' = [served EXCEPT ![i] = deliveries[i].key]
  /\ UNCHANGED <<chainVars, uploaded, deliveries, findings, blobs, fresh, memoryVars>>

\* GET /deliveries/:purchaseId (serveDelivery)
serveDelivery(i) ==
  /\ prepared(i)
  /\ sale[i].state \in {"Delivered", "Disputed", "Settled"}
  /\ sale[i].key = deliveries[i].key
  /\ served' = [served EXCEPT ![i] = deliveries[i].key]
  /\ UNCHANGED <<chainVars, uploaded, deliveries, findings, blobs, fresh, memoryVars>>

---------------------------------------------------------------------------
(* verifier.ts, verifyDispute: the watcher starts it with "read" *)

verifierReads(i) ==
  /\ verifying[i].at = "read"
  /\ verifying' = [verifying EXCEPT ![i].at = "decide", ![i].status = mech[i].status]
  /\ UNCHANGED <<diskVars, relay, txq, sent>>

\* Faulty: a finding on disk is not used again.
verifierDecides_again(i) ==
  /\ verifying[i].at = "decide"
  /\ verifying' = [verifying EXCEPT ![i].at =
       IF verifying[i].status # "Voting" \/ mech[i].late THEN "idle" ELSE "work"]
  /\ UNCHANGED <<diskVars, relay, txq, sent>>

\* Status as it was read, deadline as it is now.
verifierDecides(i) ==
  LET rec == findings[i]
      goOn(step) == verifying' = [verifying EXCEPT ![i].at = step]
  IN /\ verifying[i].at = "decide"
     /\ \/ /\ verifying[i].status # "Voting" \/ mech[i].late \/ rec.tx
           /\ goOn("idle") /\ UNCHANGED txq
        \/ /\ verifying[i].status = "Voting" /\ ~mech[i].late /\ ~rec.tx
           /\ \/ rec = NoFinding /\ goOn("work") /\ UNCHANGED txq
              \/ rec # NoFinding /\ goOn("write") /\ enqueue("resolveMechanical", i, rec.hash)
     /\ UNCHANGED <<diskVars, relay, sent>>

\* Compared with this relay's record, if there is one (verifyBroken).
keyMismatch(i) == /\ mech[i].ground = "BrokenOrHashMismatch"
                  /\ prepared(i) /\ deliveries[i].key # sale[i].key

\* Minutes later: the finding is published and put on disk, then sent.
verifierFinds(i) ==
  /\ verifying[i].at = "work" /\ fresh < MaxFresh
  /\ fresh' = fresh + 1
  /\ blobs' = blobs \cup {fresh + 1}
  /\ findings' = [findings EXCEPT ![i] =
                    [hash |-> fresh + 1, mismatch |-> keyMismatch(i), tx |-> FALSE]]
  /\ enqueue("resolveMechanical", i, fresh + 1)
  /\ verifying' = [verifying EXCEPT ![i].at = "write"]
  /\ UNCHANGED <<uploaded, deliveries, served, relay, sent>>

\* A read of the chain or the work itself fails.
verifierFails(i) ==
  /\ verifying[i].at \in {"read", "work"}
  /\ verifying' = [verifying EXCEPT ![i].at = "failed"]
  /\ UNCHANGED <<diskVars, relay, txq, sent>>

VerifierSteps(i) ==
  /\ verifierReads(i) \/ verifierDecides(i) \/ verifierFinds(i) \/ verifierFails(i)
  /\ UNCHANGED chainVars

QueueSteps == writeSends \/ writeLosesAnswer \/ writeConfirmed \/ writeFails
=============================================================================
