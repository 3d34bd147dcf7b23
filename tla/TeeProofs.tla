------------------------------ MODULE TeeProofs ------------------------------
(***************************************************************************)
(* What the TEE service keeps true, for any purchases, bounds, crashes and *)
(* interleavings: disk, memory and chain agree on keys and findings.       *)
(***************************************************************************)
EXTENDS TeeService, TLAPS

---------------------------------------------------------------------------
(* The inductive invariant.  What a step only reads is a parameter.        *)

Calls == [fn : {"recordDelivery", "resolveMechanical"}, id : Sales, arg : Nat]
Txs == [call : Calls, status : {"pending", "success", "reverted"}]
Deliveries == [key : Nat, status : {"none", "prepared", "delivered", "failed", "expired"}]
Findings == [hash : Nat, mismatch : BOOLEAN, tx : BOOLEAN]
RelayAt == {"idle", "read", "decide", "prepare", "sign", "write", "done", "failed"}
VerifierAt == {"idle", "read", "decide", "work", "write", "failed"}
Delivering == {"Delivered", "Disputed", "Settled"}

ChainTyped ==
  /\ sale \in [Sales -> [state : States, key : Int, late : BOOLEAN]]
  /\ mech \in [Sales -> [status : {"None", "Voting", "Resolved"}, ground : TeeGrounds,
                         finding : Nat, late : BOOLEAN]]

\* A key is on record for what was delivered, a finding for a dispute that is over.
ChainCoherent ==
  /\ ChainTyped
  /\ \A i \in Sales :
       /\ sale[i].key # None => sale[i].state \in Delivering
       /\ mech[i].status = "Voting" => sale[i].state = "Disputed"
       /\ mech[i].status = "Resolved" => sale[i].state = "Settled"
       /\ mech[i].finding # None => mech[i].status = "Resolved"

DiskTyped ==
  /\ uploaded \subseteq Sales /\ fresh \in Nat
  /\ deliveries \in [Sales -> Deliveries] /\ findings \in [Sales -> Findings]
  /\ served \in [Sales -> Int]

MemoryTyped ==
  /\ relay \in [at : RelayAt, id : Sales \cup {None}, state : States, key : Int]
  /\ relay.at # "idle" => relay.id \in Sales
  /\ verifying \in [Sales -> [at : VerifierAt, status : {"None", "Voting", "Resolved"},
                              attempts : Nat]]
  /\ txq \in Seq(Calls) /\ txs \in Seq(Txs)
  /\ sent \in 0..Len(txs) /\ Len(txs) <= MaxTxs

\* A call the service makes is the one its records say it prepared.
Recorded(c, dels, finds) ==
  /\ c.arg # None
  /\ c.fn = "recordDelivery" => c.arg = dels[c.id].key
  /\ c.fn = "resolveMechanical" => c.arg = finds[c.id].hash

\* It is on chain.
Done(c, sales, mechs) ==
  /\ c.fn = "recordDelivery" => sales[c.id].key = c.arg
  /\ c.fn = "resolveMechanical" => mechs[c.id].finding = c.arg

QueueCoherent ==
  /\ \A n \in 1..Len(txq) : Recorded(txq[n], deliveries, findings)
  /\ \A n \in 1..Len(txs) : /\ Recorded(txs[n].call, deliveries, findings)
                            /\ txs[n].status = "success" => Done(txs[n].call, sale, mech)
  /\ sent # 0 => txq # <<>> /\ txs[sent].call = txq[1]

\* The delivery in the queue is the one the relay waits for.
OneDelivery ==
  /\ \A n \in 1..Len(txq) :
       txq[n].fn = "recordDelivery" => relay.at = "write" /\ relay.id = txq[n].id
  /\ \A m, n \in 1..Len(txq) :
       txq[m].fn = "recordDelivery" /\ txq[n].fn = "recordDelivery" => m = n

\* What a handler remembers across an await is still so.
HandlersCoherent ==
  /\ relay.at = "decide" /\ relay.key # None => sale[relay.id].key = relay.key
  /\ relay.at = "sign" => relay.key # None /\ relay.key = deliveries[relay.id].key
  /\ \A i \in Sales : /\ verifying[i].at = "work" => findings[i] = NoFinding
                      /\ deliveries[i].key = None => deliveries[i] = NoDelivery
                      /\ findings[i].hash = None => findings[i] = NoFinding
                      /\ findings[i].hash # None => findings[i].hash \in blobs

Records == DeliveredMatchesRecord /\ NoKeyWithRefund /\ FindingOnRecord /\ RecordedOutcomeTrue

WatcherTyped ==
  /\ log \in Seq(Jobs) /\ confirmed \in 0..Len(log) /\ cursor \in 0..confirmed
  /\ abandoned \subseteq Jobs
  /\ DOMAIN retry \subseteq Jobs
  /\ \A j \in DOMAIN retry : retry[j] \in [attempts : Nat, ready : BOOLEAN]
  /\ poll = [at |-> poll.at, from |-> poll.from, head |-> poll.head, jobs |-> poll.jobs]
  /\ poll.head \in 0..confirmed /\ poll.from \in 0..poll.head
  /\ DOMAIN poll.jobs \subseteq Jobs /\ \A j \in DOMAIN poll.jobs : poll.jobs[j] \in Nat

\* The purchases of a drain stay in the retry map until they are handled.
DrainCoherent ==
  /\ poll.at # "drain" => relay.at = "idle" /\ DOMAIN poll.jobs = {}
  /\ purchasesLeft \subseteq DOMAIN retry
  /\ relay.at # "idle" => /\ PurchaseJob(relay.id) \in DOMAIN retry
                          /\ PurchaseJob(relay.id) \notin DOMAIN poll.jobs

Coherent == /\ ChainCoherent /\ DiskTyped /\ MemoryTyped /\ QueueCoherent /\ OneDelivery
            /\ HandlersCoherent /\ Records /\ WatcherTyped /\ DrainCoherent

---------------------------------------------------------------------------
(* The chain *)

\* A key or finding on record stays, and a new one is a foreign key or what the service
\* prepared.
KeysStay(dels, finds) ==
  \A i \in Sales :
    /\ \/ sale'[i].key = sale[i].key
       \/ sale[i].key = None /\ sale'[i].key \in {ForeignKey, dels[i].key}
    /\ \/ mech'[i].finding = mech[i].finding
       \/ mech[i].finding = None /\ mech'[i].finding = finds[i].hash

\* Everybody else moves purchases and disputes along their states.
LEMMA OthersChain ==
  ASSUME ChainCoherent, OthersAct \/ Confirm
  PROVE  /\ ChainCoherent' /\ KeysStay(deliveries, findings) /\ txs' = txs
<1>1. CASE Confirm BY <1>1 DEF Confirm, ChainCoherent, ChainTyped, KeysStay
<1>2. ASSUME NEW i \in Sales, buy(i) PROVE ChainCoherent' /\ KeysStay(deliveries, findings) /\ txs' = txs
  BY <1>2 DEF buy, ChainCoherent, ChainTyped, KeysStay, States, Delivering
<1>3. ASSUME NEW i \in Sales, deliveryDeadlinePasses(i)
      PROVE ChainCoherent' /\ KeysStay(deliveries, findings) /\ txs' = txs
  BY <1>3 DEF deliveryDeadlinePasses, ChainCoherent, ChainTyped, KeysStay, States, Delivering
<1>4. ASSUME NEW i \in Sales, refundUndelivered(i)
      PROVE ChainCoherent' /\ KeysStay(deliveries, findings) /\ txs' = txs
  BY <1>4 DEF refundUndelivered, ChainCoherent, ChainTyped, KeysStay, States, Delivering
<1>5. ASSUME NEW i \in Sales, deliveredByOther(i)
      PROVE ChainCoherent' /\ KeysStay(deliveries, findings) /\ txs' = txs
  BY <1>5 DEF deliveredByOther, recordDelivery, Funded, ForeignKey, None, ChainCoherent,
              ChainTyped, KeysStay, States, Delivering
<1>6. ASSUME NEW i \in Sales, finalize(i)
      PROVE ChainCoherent' /\ KeysStay(deliveries, findings) /\ txs' = txs
  BY <1>6 DEF finalize, ChainCoherent, ChainTyped, KeysStay, States, Delivering
<1>7. ASSUME NEW i \in Sales, NEW g \in TeeGrounds, openDispute(i, g)
      PROVE ChainCoherent' /\ KeysStay(deliveries, findings) /\ txs' = txs
  <2>1. ChainTyped'
    <3> DEFINE S == [state : States, key : Int, late : BOOLEAN]
               M == [status : {"None", "Voting", "Resolved"}, ground : TeeGrounds,
                     finding : Nat, late : BOOLEAN]
    <3>1. sale \in [Sales -> S] /\ mech \in [Sales -> M] BY DEF ChainCoherent, ChainTyped
    <3>2. sale[i] \in S /\ mech[i] \in M BY <3>1
    <3>3. [sale[i] EXCEPT !.state = "Disputed"] \in S BY <3>2 DEF States
    <3>4. [mech[i] EXCEPT !.status = "Voting", !.ground = g] \in M BY <3>2
    <3>5. /\ sale' = [sale EXCEPT ![i] = [sale[i] EXCEPT !.state = "Disputed"]]
          /\ mech' = [mech EXCEPT ![i] = [mech[i] EXCEPT !.status = "Voting", !.ground = g]]
      BY <1>7, <3>1 DEF openDispute
    <3> HIDE DEF S, M
    <3>6. sale' \in [Sales -> S] /\ mech' \in [Sales -> M] BY <3>1, <3>3, <3>4, <3>5
    <3> QED BY <3>6 DEF S, M, ChainTyped
  <2>2. \A j \in Sales :
          /\ sale'[j].key = sale[j].key /\ mech'[j].finding = mech[j].finding
          /\ sale'[j].state = IF j = i THEN "Disputed" ELSE sale[j].state
          /\ mech'[j].status = IF j = i THEN "Voting" ELSE mech[j].status
    BY <1>7 DEF openDispute, ChainCoherent, ChainTyped
  <2>3. sale[i].state = "Delivered" /\ txs' = txs BY <1>7 DEF openDispute
  <2> QED BY <2>1, <2>2, <2>3 DEF ChainCoherent, KeysStay, Delivering
<1>8. ASSUME NEW i \in Sales, verifierDeadlinePasses(i)
      PROVE ChainCoherent' /\ KeysStay(deliveries, findings) /\ txs' = txs
  BY <1>8 DEF verifierDeadlinePasses, ChainCoherent, ChainTyped, KeysStay, Delivering
<1>9. ASSUME NEW i \in Sales, timeoutMechanical(i)
      PROVE ChainCoherent' /\ KeysStay(deliveries, findings) /\ txs' = txs
  <2>1. ChainTyped' BY <1>9 DEF timeoutMechanical, ChainCoherent, ChainTyped, States
  <2>2. \A j \in Sales :
          /\ sale'[j].key = sale[j].key /\ mech'[j].finding = mech[j].finding
          /\ sale'[j].state = IF j = i THEN "Settled" ELSE sale[j].state
          /\ mech'[j].status = IF j = i THEN "Resolved" ELSE mech[j].status
    BY <1>9 DEF timeoutMechanical, ChainCoherent, ChainTyped
  <2>3. mech[i].status = "Voting" /\ txs' = txs BY <1>9 DEF timeoutMechanical
  <2> QED BY <2>1, <2>2, <2>3 DEF ChainCoherent, KeysStay, Delivering
<1> QED BY <1>1, <1>2, <1>3, <1>4, <1>5, <1>6, <1>7, <1>8, <1>9 DEF OthersAct

\* What a delivery and a finding change.
LEMMA CallChanges ==
  ASSUME ChainTyped, NEW i \in Sales, NEW n \in Nat
  PROVE  /\ recordDelivery(i, n) =>
              /\ ChainTyped' /\ mech' = mech
              /\ \A j \in Sales : /\ sale'[j].key = IF j = i THEN n ELSE sale[j].key
                                 /\ sale'[j].state = IF j = i THEN "Delivered" ELSE sale[j].state
         /\ resolveMechanical(i, n) =>
              /\ ChainTyped'
              /\ \A j \in Sales :
                   /\ sale'[j].key = sale[j].key
                   /\ sale'[j].state = IF j = i THEN "Settled" ELSE sale[j].state
                   /\ mech'[j].status = IF j = i THEN "Resolved" ELSE mech[j].status
                   /\ mech'[j].finding = IF j = i THEN n ELSE mech[j].finding
<1>1. ASSUME recordDelivery(i, n)
      PROVE  /\ ChainTyped' /\ mech' = mech
             /\ \A j \in Sales : /\ sale'[j].key = IF j = i THEN n ELSE sale[j].key
                                /\ sale'[j].state = IF j = i THEN "Delivered" ELSE sale[j].state
  <2>1. mech' = mech BY <1>1 DEF recordDelivery
  <2>2. sale' \in [Sales -> [state : States, key : Int, late : BOOLEAN]]
    <3> DEFINE R == [state : States, key : Int, late : BOOLEAN]
    <3>1. sale \in [Sales -> R] BY DEF ChainTyped
    <3>2. [sale[i] EXCEPT !.state = "Delivered", !.key = n] \in R
      <4>1. sale[i] \in R /\ n \in Int /\ "Delivered" \in States BY <3>1 DEF States
      <4> QED BY <4>1
    <3>3. sale' = [sale EXCEPT ![i] = [sale[i] EXCEPT !.state = "Delivered", !.key = n]]
      BY <1>1 DEF recordDelivery, ChainTyped
    <3> HIDE DEF R
    <3>4. sale' \in [Sales -> R] BY <3>1, <3>2, <3>3
    <3> QED BY <3>4 DEF R
  <2> QED BY <1>1, <2>1, <2>2 DEF recordDelivery, ChainTyped
<1>2. ASSUME resolveMechanical(i, n)
      PROVE  /\ ChainTyped'
             /\ \A j \in Sales :
                  /\ sale'[j].key = sale[j].key
                  /\ sale'[j].state = IF j = i THEN "Settled" ELSE sale[j].state
                  /\ mech'[j].status = IF j = i THEN "Resolved" ELSE mech[j].status
                  /\ mech'[j].finding = IF j = i THEN n ELSE mech[j].finding
  <2>1. sale' \in [Sales -> [state : States, key : Int, late : BOOLEAN]]
    BY <1>2 DEF resolveMechanical, ChainTyped, States
  <2>2. mech' \in [Sales -> [status : {"None", "Voting", "Resolved"}, ground : TeeGrounds,
                             finding : Nat, late : BOOLEAN]]
    <3> DEFINE R == [status : {"None", "Voting", "Resolved"}, ground : TeeGrounds,
                     finding : Nat, late : BOOLEAN]
    <3>1. mech \in [Sales -> R] BY DEF ChainTyped
    <3>2. [mech[i] EXCEPT !.status = "Resolved", !.finding = n] \in R BY <3>1
    <3>3. mech' = [mech EXCEPT ![i] = [mech[i] EXCEPT !.status = "Resolved", !.finding = n]]
      BY <1>2 DEF resolveMechanical, ChainTyped
    <3> HIDE DEF R
    <3>4. mech' \in [Sales -> R] BY <3>1, <3>2, <3>3
    <3> QED BY <3>4 DEF R
  <2> QED BY <1>2, <2>1, <2>2 DEF resolveMechanical, ChainTyped
<1> QED BY <1>1, <1>2

\* So does the service's next transaction, with what its records hold.
LEMMA MineChain ==
  ASSUME ChainCoherent, MemoryTyped, QueueCoherent, Mine
  PROVE  /\ ChainCoherent' /\ KeysStay(deliveries, findings)
         /\ txs' \in Seq(Txs) /\ Len(txs') = Len(txs)
         /\ \A n \in 1..Len(txs) : /\ txs'[n].call = txs[n].call
                                   /\ txs'[n].status = "success" =>
                                        txs[n].status = "success" \/ Done(txs[n].call, sale', mech')
<1>1. PICK n \in 1..Len(txs) :
        \/ /\ Accepted(txs[n].call)
           /\ \/ txs[n].call.fn = "recordDelivery" /\ recordDelivery(txs[n].call.id, txs[n].call.arg)
              \/ /\ txs[n].call.fn = "resolveMechanical"
                 /\ resolveMechanical(txs[n].call.id, txs[n].call.arg)
           /\ txs' = [txs EXCEPT ![n].status = "success"]
        \/ /\ txs' = [txs EXCEPT ![n].status = "reverted"]
           /\ UNCHANGED <<sale, mech>>
  <2>1. DOMAIN txs = 1..Len(txs) BY DEF MemoryTyped
  <2> QED BY <2>1 DEF Mine
<1> DEFINE c == txs[n].call
<1>2. /\ txs[n] \in Txs /\ c \in Calls /\ c.id \in Sales /\ c.arg \in Nat
      /\ c.fn \in {"recordDelivery", "resolveMechanical"}
      /\ Recorded(c, deliveries, findings)
  <2>1. txs[n] \in Txs BY <1>1 DEF MemoryTyped
  <2> QED BY <2>1, <1>1 DEF Txs, Calls, QueueCoherent
<1>3. /\ txs' \in Seq(Txs) /\ Len(txs') = Len(txs)
      /\ \A m \in 1..Len(txs) : /\ txs'[m].call = txs[m].call
                                /\ m # n => txs'[m] = txs[m]
  <2>1. /\ [txs[n] EXCEPT !.status = "success"] \in Txs
        /\ [txs[n] EXCEPT !.status = "reverted"] \in Txs
    BY <1>2 DEF Txs
  <2>2. PICK t \in Txs : t.call = c /\ txs' = [txs EXCEPT ![n] = t]
    <3>1. [txs EXCEPT ![n].status = "success"] = [txs EXCEPT ![n] = [txs[n] EXCEPT !.status = "success"]]
      OBVIOUS
    <3>2. [txs EXCEPT ![n].status = "reverted"] = [txs EXCEPT ![n] = [txs[n] EXCEPT !.status = "reverted"]]
      OBVIOUS
    <3>3. /\ [txs[n] EXCEPT !.status = "success"].call = c
          /\ [txs[n] EXCEPT !.status = "reverted"].call = c
      BY <1>2 DEF Txs
    <3> QED BY <1>1, <2>1, <3>1, <3>2, <3>3
  <2>3. txs \in Seq(Txs) /\ n \in 1..Len(txs) BY <1>1 DEF MemoryTyped
  <2>4. txs' \in Seq(Txs) /\ Len(txs') = Len(txs) BY <2>2, <2>3
  <2>5. \A m \in 1..Len(txs) : txs'[m] = IF m = n THEN t ELSE txs[m] BY <2>2, <2>3
  <2> QED BY <2>2, <2>4, <2>5
<1>4. CASE UNCHANGED <<sale, mech>> /\ txs' = [txs EXCEPT ![n].status = "reverted"]
  <2>1. txs'[n].status = "reverted" BY <1>4, <1>2, <1>1 DEF MemoryTyped, Txs
  <2> QED BY <1>4, <1>3, <2>1 DEF ChainCoherent, ChainTyped, KeysStay
<1>5. CASE Accepted(c) /\ c.fn = "recordDelivery" /\ recordDelivery(c.id, c.arg)
  <2>1. ChainCoherent' /\ KeysStay(deliveries, findings)
    <3> DEFINE i == c.id
    <3>1. i \in Sales /\ c.arg \in Nat /\ c.arg # None /\ c.arg = deliveries[i].key
      BY <1>2, <1>5 DEF Recorded
    <3>2. sale[i].state = "Funded" BY <1>5 DEF Accepted, Funded
    <3>3. /\ ChainTyped' /\ mech' = mech
          /\ \A j \in Sales :
               /\ sale'[j].key = IF j = i THEN c.arg ELSE sale[j].key
               /\ sale'[j].state = IF j = i THEN "Delivered" ELSE sale[j].state
      <4> HIDE DEF c
      <4> QED BY <1>5, <3>1, CallChanges DEF ChainCoherent
    <3> HIDE DEF c, i
    <3> QED BY <3>1, <3>2, <3>3 DEF ChainCoherent, KeysStay, Delivering
  <2>2. Done(c, sale', mech') BY <1>2, <1>5 DEF recordDelivery, Done, ChainCoherent, ChainTyped
  <2> QED BY <1>3, <2>1, <2>2
<1>6. CASE Accepted(c) /\ c.fn = "resolveMechanical" /\ resolveMechanical(c.id, c.arg)
  <2>1. ChainCoherent' /\ KeysStay(deliveries, findings)
    <3> DEFINE i == c.id
    <3>1. i \in Sales /\ c.arg \in Nat /\ c.arg # None /\ c.arg = findings[i].hash
      BY <1>2, <1>6 DEF Recorded
    <3>2. mech[i].status = "Voting" BY <1>6 DEF Accepted
    <3>3. /\ ChainTyped'
          /\ \A j \in Sales :
               /\ sale'[j].key = sale[j].key
               /\ sale'[j].state = IF j = i THEN "Settled" ELSE sale[j].state
               /\ mech'[j].status = IF j = i THEN "Resolved" ELSE mech[j].status
               /\ mech'[j].finding = IF j = i THEN c.arg ELSE mech[j].finding
      <4> HIDE DEF c
      <4> QED BY <1>6, <3>1, CallChanges DEF ChainCoherent
    <3> HIDE DEF c, i
    <3> QED BY <3>1, <3>2, <3>3 DEF ChainCoherent, KeysStay, Delivering
  <2>2. Done(c, sale', mech') BY <1>2, <1>6 DEF resolveMechanical, Done, ChainCoherent, ChainTyped
  <2> QED BY <1>3, <2>1, <2>2
<1> QED BY <1>1, <1>4, <1>5, <1>6

\* Keys and findings that stay leave what disk and memory say about them true.
LEMMA RecordsStay ==
  ASSUME Coherent, ChainCoherent', KeysStay(deliveries, findings), UNCHANGED handlerVars
  PROVE  DiskTyped' /\ HandlersCoherent' /\ Records'
<1>1. UNCHANGED <<uploaded, deliveries, findings, blobs, served, fresh, relay, verifying, txq, sent>>
  BY DEF handlerVars, diskVars, memoryVars
<1>2. /\ sale \in [Sales -> [state : States, key : Int, late : BOOLEAN]]
      /\ deliveries \in [Sales -> Deliveries] /\ findings \in [Sales -> Findings]
      /\ relay.at # "idle" => relay.id \in Sales
  BY DEF Coherent, ChainCoherent, ChainTyped, DiskTyped, MemoryTyped
<1>3. DiskTyped' BY <1>1 DEF Coherent, DiskTyped
<1>4. HandlersCoherent' BY <1>1, <1>2 DEF Coherent, HandlersCoherent, KeysStay
<1>5. DeliveredMatchesRecord' BY <1>1 DEF Coherent, Records, DeliveredMatchesRecord, KeysStay
<1>6. NoKeyWithRefund'
  BY <1>1 DEF Coherent, Records, NoKeyWithRefund, KeysStay, ChainCoherent, Delivering
<1>7. FindingOnRecord'
  <2>1. \A i \in Sales : findings[i].hash # None => findings[i].hash \in blobs
    BY DEF Coherent, HandlersCoherent
  <2> QED BY <1>1, <2>1 DEF Coherent, Records, FindingOnRecord, KeysStay
<1>8. RecordedOutcomeTrue'
  <2>1. ASSUME NEW i \in Sales, deliveries[i].status = "delivered" PROVE sale'[i].key = deliveries[i].key
    <3>1. deliveries[i].key # None BY <2>1 DEF Coherent, HandlersCoherent, NoDelivery
    <3> QED BY <2>1, <3>1 DEF Coherent, Records, RecordedOutcomeTrue, KeysStay
  <2>2. ASSUME NEW i \in Sales, findings[i].tx PROVE mech'[i].finding = findings[i].hash
    BY <2>2 DEF Coherent, Records, RecordedOutcomeTrue, KeysStay
  <2> QED BY <1>1, <2>1, <2>2 DEF RecordedOutcomeTrue
<1> QED BY <1>3, <1>4, <1>5, <1>6, <1>7, <1>8 DEF Records

\* A step of anybody but the service.
LEMMA WorldSteps ==
  ASSUME Coherent, OthersAct \/ Confirm \/ Mine, UNCHANGED <<handlerVars, watcherVars>>
  PROVE  Coherent'
<1>1. UNCHANGED <<uploaded, deliveries, findings, blobs, served, fresh, relay, verifying, txq, sent>>
  BY DEF handlerVars, diskVars, memoryVars
<1>2. UNCHANGED <<cursor, poll, retry, abandoned, crashes>> BY DEF watcherVars
<1>3. /\ ChainCoherent' /\ KeysStay(deliveries, findings)
      /\ txs' \in Seq(Txs) /\ Len(txs') = Len(txs)
      /\ \A n \in 1..Len(txs) : /\ txs'[n].call = txs[n].call
                                /\ txs'[n].status = "success" =>
                                     txs[n].status = "success" \/ Done(txs[n].call, sale', mech')
  BY OthersChain, MineChain DEF Coherent, MemoryTyped
<1>4. DiskTyped' /\ HandlersCoherent' /\ Records' BY <1>3, RecordsStay
<1>5. MemoryTyped' BY <1>1, <1>3 DEF Coherent, MemoryTyped
<1>6. QueueCoherent'
  <2>1. \A n \in 1..Len(txq) : Recorded(txq[n], deliveries, findings)
    BY DEF Coherent, QueueCoherent
  <2>2. ASSUME NEW n \in 1..Len(txs), txs[n].status = "success"
        PROVE  Done(txs[n].call, sale', mech')
    <3>1. Done(txs[n].call, sale, mech) /\ Recorded(txs[n].call, deliveries, findings)
      BY <2>2 DEF Coherent, QueueCoherent
    <3>2. txs[n].call.id \in Sales
      <4>1. txs[n] \in Txs BY DEF Coherent, MemoryTyped
      <4> QED BY <4>1 DEF Txs, Calls
    <3> QED BY <1>3, <3>1, <3>2 DEF Done, Recorded, KeysStay
  <2>3. \A n \in 1..Len(txs) : Recorded(txs[n].call, deliveries, findings)
    BY DEF Coherent, QueueCoherent
  <2>4. sent \in 0..Len(txs) /\ (sent # 0 => txq # <<>> /\ txs[sent].call = txq[1])
    BY DEF Coherent, QueueCoherent, MemoryTyped
  <2> QED BY <1>1, <1>3, <2>1, <2>2, <2>3, <2>4 DEF QueueCoherent
<1>7. WatcherTyped'
  <2>1. /\ log' \in Seq(Jobs) /\ confirmed' \in 0..Len(log') /\ confirmed <= confirmed'
    <3>1. log \in Seq(Jobs) /\ confirmed \in 0..Len(log) BY DEF Coherent, WatcherTyped
    <3>2. CASE Confirm BY <3>1, <3>2 DEF Confirm
    <3>3. CASE Mine BY <3>1, <3>3 DEF Mine
    <3>4. ASSUME NEW i \in Sales, NEW j \in Jobs, log' = Append(log, j), confirmed' = confirmed
          PROVE /\ log' \in Seq(Jobs) /\ confirmed' \in 0..Len(log')
                /\ confirmed <= confirmed'
      BY <3>1, <3>4
    <3>5. \A i \in Sales : PurchaseJob(i) \in Jobs /\ DisputeJob(i) \in Jobs
      BY DEF Jobs, PurchaseJob, DisputeJob
    <3>6. CASE OthersAct
      <4>1. \/ log' = log /\ confirmed' = confirmed
            \/ \E i \in Sales, j \in Jobs : log' = Append(log, j) /\ confirmed' = confirmed
        BY <3>5, <3>6 DEF OthersAct, buy, deliveryDeadlinePasses, refundUndelivered,
           deliveredByOther, finalize, openDispute, verifierDeadlinePasses, timeoutMechanical
      <4> QED BY <3>1, <3>4, <4>1
    <3> QED BY <3>2, <3>3, <3>6
  <2> QED BY <1>2, <2>1 DEF Coherent, WatcherTyped
<1>8. DrainCoherent' /\ OneDelivery'
  BY <1>1, <1>2 DEF Coherent, DrainCoherent, purchasesLeft, OneDelivery
<1> QED BY <1>3, <1>4, <1>5, <1>6, <1>7, <1>8 DEF Coherent

---------------------------------------------------------------------------
(* The relay *)

\* A record whose key stays, or is new, leaves the calls made from records alone.
LEMMA RecordedStays ==
  ASSUME NEW c, NEW dels, NEW dels2, NEW finds, NEW finds2, Recorded(c, dels, finds),
         c.id \in Sales,
         \A i \in Sales : dels[i].key # None => dels2[i].key = dels[i].key,
         \A i \in Sales : finds[i].hash # None => finds2[i].hash = finds[i].hash
  PROVE  Recorded(c, dels2, finds2)
BY DEF Recorded

\* What every step of the relay leaves alone.
LEMMA RelayFrame ==
  ASSUME Coherent, RelaySteps, UNCHANGED watcherVars
  PROVE  /\ relay.at # "idle" /\ relay.id \in Sales /\ relay'.id = relay.id
         /\ relay' = [relay EXCEPT !.at = relay'.at, !.state = relay'.state, !.key = relay'.key]
         /\ UNCHANGED <<sale, mech, txs, uploaded, findings, blobs, served, verifying, sent>>
         /\ ChainCoherent' /\ WatcherTyped' /\ DrainCoherent'
<1>1. relay \in [at : RelayAt, id : Sales \cup {None}, state : States, key : Int]
  BY DEF Coherent, MemoryTyped
<1>2. UNCHANGED <<sale, mech, log, confirmed, txs, cursor, poll, retry, abandoned, crashes>>
  BY DEF RelaySteps, chainVars, watcherVars
<1>3. /\ relay.at # "idle" /\ relay'.id = relay.id /\ relay'.at # "idle"
      /\ relay' = [relay EXCEPT !.at = relay'.at, !.state = relay'.state, !.key = relay'.key]
      /\ UNCHANGED <<uploaded, findings, blobs, served, verifying, sent>>
  BY <1>1 DEF RelaySteps, relayReads, relayDecides, relayPrepares, relaySigns, relayReadFails,
              diskVars, RelayAt
<1>4. relay.id \in Sales BY <1>3 DEF Coherent, MemoryTyped
<1>5. ChainCoherent' BY <1>2 DEF Coherent, ChainCoherent, ChainTyped
<1>6. WatcherTyped' BY <1>2 DEF Coherent, WatcherTyped
<1>7. DrainCoherent' BY <1>2, <1>3 DEF Coherent, DrainCoherent, purchasesLeft
<1> QED BY <1>2, <1>3, <1>4, <1>5, <1>6, <1>7

\* The relay's steps other than the one that queues a call.
LEMMA RelayPreparing ==
  ASSUME Coherent, RelaySteps, UNCHANGED watcherVars,
         relayReads \/ relayDecides \/ relayPrepares \/ relayReadFails
  PROVE  Coherent'
<1> DEFINE i == relay.id
<1>1. /\ relay.at # "idle" /\ i \in Sales /\ relay'.id = i
      /\ UNCHANGED <<sale, mech, txs, uploaded, findings, blobs, served, verifying, sent>>
      /\ ChainCoherent' /\ WatcherTyped' /\ DrainCoherent'
  BY RelayFrame
<1>2. /\ relay \in [at : RelayAt, id : Sales \cup {None}, state : States, key : Int]
      /\ deliveries \in [Sales -> Deliveries] /\ fresh \in Nat
      /\ sale \in [Sales -> [state : States, key : Int, late : BOOLEAN]]
  BY DEF Coherent, MemoryTyped, DiskTyped, ChainCoherent, ChainTyped
<1>3. txq' = txq
  BY DEF relayReads, relayDecides, relayPrepares, relayReadFails
<1>4. /\ deliveries[i] \in Deliveries
      /\ deliveries[i].status = "delivered" => sale[i].key = deliveries[i].key
      /\ deliveries[i].key = None => deliveries[i] = NoDelivery
  BY <1>1, <1>2 DEF Coherent, Records, RecordedOutcomeTrue, HandlersCoherent
<1>5. /\ relay' \in [at : RelayAt, id : Sales \cup {None}, state : States, key : Int]
      /\ deliveries' \in [Sales -> Deliveries] /\ fresh' \in Nat
      /\ \A j \in Sales : j # i => deliveries'[j] = deliveries[j]
      /\ relay'.at = "decide" /\ relay'.key # None => sale[i].key = relay'.key
      /\ relay'.at = "sign" => relay'.key # None /\ relay'.key = deliveries'[i].key
      /\ deliveries[i].key # None => deliveries'[i].key = deliveries[i].key
      /\ deliveries'[i].status = "delivered" => sale[i].key = deliveries'[i].key
      /\ deliveries'[i].key = None => deliveries'[i] = NoDelivery
  <2>1. CASE relayReads
    BY <1>1, <1>2, <1>4, <2>1 DEF relayReads, diskVars, RelayAt
  <2>2. CASE relayReadFails
    BY <1>1, <1>2, <1>4, <2>2 DEF relayReadFails, diskVars, RelayAt
  <2>3. CASE relayDecides
    <3>1. /\ relay' \in [at : RelayAt, id : Sales \cup {None}, state : States, key : Int]
          /\ relay'.at \in {"done", "prepare"} /\ fresh' = fresh
      BY <1>2, <2>3 DEF relayDecides, RelayAt
    <3>2. CASE deliveries' = deliveries BY <1>2, <1>4, <3>1, <3>2
    <3>3. CASE \E status \in {"delivered", "expired"} :
                 /\ prepared(i) /\ deliveries' = [deliveries EXCEPT ![i].status = status]
                 /\ status = "delivered" => relay.key = deliveries[i].key
      <4>1. PICK status \in {"delivered", "expired"} :
              /\ prepared(i) /\ deliveries' = [deliveries EXCEPT ![i].status = status]
              /\ status = "delivered" => relay.key = deliveries[i].key
        BY <3>3
      <4>2. relay.at = "decide" BY <2>3 DEF relayDecides
      <4>3. status = "delivered" => sale[i].key = deliveries[i].key
        BY <4>1, <4>2 DEF Coherent, HandlersCoherent, prepared
      <4>4. /\ deliveries' \in [Sales -> Deliveries]
            /\ \A j \in Sales : j # i => deliveries'[j] = deliveries[j]
            /\ deliveries'[i].key = deliveries[i].key /\ deliveries'[i].status = status
        BY <1>1, <1>2, <4>1 DEF Deliveries
      <4> QED BY <1>2, <3>1, <4>1, <4>3, <4>4 DEF prepared
    <3> QED BY <2>3, <3>2, <3>3 DEF relayDecides
  <2>4. CASE relayPrepares
    <3>1. CASE deliveries' = deliveries /\ fresh' = fresh /\ relay' = [relay EXCEPT !.at = "done"]
      BY <1>2, <1>4, <3>1 DEF RelayAt
    <3>2. CASE /\ prepared(i) /\ deliveries' = deliveries /\ fresh' = fresh
               /\ relay' = [relay EXCEPT !.at = "sign", !.key = deliveries[i].key]
      <4>1. deliveries[i].key \in Int /\ deliveries[i].key # None
        BY <1>4, <3>2 DEF Deliveries, prepared
      <4> QED BY <1>2, <1>4, <3>2, <4>1 DEF RelayAt
    <3>3. CASE /\ ~prepared(i) /\ fresh' = fresh + 1
               /\ deliveries' = [deliveries EXCEPT ![i] = [key |-> fresh + 1, status |-> "prepared"]]
               /\ relay' = [relay EXCEPT !.at = "sign", !.key = fresh + 1]
      <4>1. /\ [key |-> fresh + 1, status |-> "prepared"] \in Deliveries
            /\ fresh + 1 \in Nat /\ fresh + 1 # None
        BY <1>2 DEF Deliveries, None
      <4>2. /\ deliveries' \in [Sales -> Deliveries]
            /\ \A j \in Sales : j # i => deliveries'[j] = deliveries[j]
            /\ deliveries'[i] = [key |-> fresh + 1, status |-> "prepared"]
        BY <1>1, <1>2, <3>3, <4>1
      <4>3. /\ relay' \in [at : RelayAt, id : Sales \cup {None}, state : States, key : Int]
            /\ relay'.at = "sign" /\ relay'.key = fresh + 1
        <5>1. fresh + 1 \in Int /\ "sign" \in RelayAt BY <1>2 DEF RelayAt
        <5> QED BY <1>2, <3>3, <5>1
      <4> QED BY <3>3, <4>1, <4>2, <4>3 DEF prepared
    <3> QED BY <2>4, <3>1, <3>2, <3>3 DEF relayPrepares
  <2> QED BY <2>1, <2>2, <2>3, <2>4
<1>6. \A j \in Sales : deliveries[j].key # None => deliveries'[j].key = deliveries[j].key
  BY <1>5
<1>7. DiskTyped' BY <1>1, <1>5 DEF Coherent, DiskTyped
<1>9. MemoryTyped' BY <1>1, <1>3, <1>5 DEF Coherent, MemoryTyped
<1>10. QueueCoherent'
  <2>1. ASSUME NEW c \in Calls, Recorded(c, deliveries, findings)
        PROVE  Recorded(c, deliveries', findings')
    <3>1. c.id \in Sales /\ findings' = findings BY <1>1 DEF Calls
    <3> QED BY <1>6, <2>1, <3>1 DEF Recorded
  <2>2. \A n \in 1..Len(txq) : txq[n] \in Calls BY DEF Coherent, MemoryTyped
  <2>3. \A n \in 1..Len(txs) : txs[n].call \in Calls
    <3>1. \A n \in 1..Len(txs) : txs[n] \in Txs BY DEF Coherent, MemoryTyped
    <3> QED BY <3>1 DEF Txs
  <2> QED BY <1>1, <1>3, <2>1, <2>2, <2>3 DEF Coherent, QueueCoherent
<1>11. HandlersCoherent'
  BY <1>1, <1>5 DEF Coherent, HandlersCoherent
<1>12. Records'
  BY <1>1, <1>5, <1>6
  DEF Coherent, Records, DeliveredMatchesRecord, NoKeyWithRefund, FindingOnRecord, RecordedOutcomeTrue
<1>13. OneDelivery'
  <2>1. relay.at # "write" BY DEF relayReads, relayDecides, relayPrepares, relayReadFails
  <2> QED BY <1>3, <2>1 DEF Coherent, OneDelivery
<1> QED BY <1>1, <1>7, <1>9, <1>10, <1>11, <1>12, <1>13 DEF Coherent

\* A queue that a call joins.
LEMMA EnqueuedCalls ==
  ASSUME MemoryTyped, NEW c \in Calls, txq' = Append(txq, c)
  PROVE  /\ txq' \in Seq(Calls) /\ txq' # <<>>
         /\ \A n \in 1..Len(txq') : txq'[n] = c \/ (n \in 1..Len(txq) /\ txq'[n] = txq[n])
         /\ txq # <<>> => txq'[1] = txq[1]
<1>1. txq \in Seq(Calls) BY DEF MemoryTyped
<1>2. txq' \in Seq(Calls) /\ Len(txq') = Len(txq) + 1 BY <1>1
<1>3. ASSUME NEW n \in 1..Len(txq')
      PROVE  txq'[n] = c \/ (n \in 1..Len(txq) /\ txq'[n] = txq[n])
  <2>1. CASE n = Len(txq) + 1
    <3>1. Append(txq, c)[Len(txq) + 1] = c BY <1>1
    <3> QED BY <2>1, <3>1
  <2>2. CASE n \in 1..Len(txq) BY <1>1, <2>2
  <2> QED BY <1>1, <1>2, <2>1, <2>2
<1>4. txq # <<>> => txq'[1] = txq[1]
  <2>1. txq # <<>> => Len(txq) # 0 BY <1>1
  <2> QED BY <1>1, <2>1
<1> QED BY <1>1, <1>2, <1>3, <1>4

\* A finding that joins the queue is no delivery.
LEMMA OneDeliveryStays ==
  ASSUME MemoryTyped, OneDelivery, NEW c \in Calls, c.fn = "resolveMechanical",
         txq' = Append(txq, c), relay' = relay
  PROVE  OneDelivery'
<1>1. ASSUME NEW n \in 1..Len(txq'), txq'[n].fn = "recordDelivery"
      PROVE  n \in 1..Len(txq) /\ txq'[n] = txq[n]
  BY <1>1, EnqueuedCalls
<1> QED BY <1>1 DEF OneDelivery

\* Calls are of the kinds that are sent.
LEMMA CallsTyped ==
  ASSUME MemoryTyped
  PROVE  /\ \A n \in 1..Len(txq) : txq[n] \in Calls
         /\ \A n \in 1..Len(txs) : txs[n].call \in Calls
         /\ \A c \in Calls : /\ c.id \in Sales /\ c.arg \in Nat
                             /\ c.fn \in {"recordDelivery", "resolveMechanical"}
<1>1. \A n \in 1..Len(txq) : txq[n] \in Calls BY DEF MemoryTyped
<1>2. \A n \in 1..Len(txs) : txs[n] \in Txs BY DEF MemoryTyped
<1> QED BY <1>1, <1>2 DEF Txs, Calls

\* The relay queues the call its record describes.
LEMMA RelaySigning ==
  ASSUME Coherent, RelaySteps, UNCHANGED watcherVars, relaySigns
  PROVE  Coherent'
<1> DEFINE c == [fn |-> "recordDelivery", id |-> relay.id, arg |-> relay.key]
<1>1. /\ relay.at # "idle" /\ relay.id \in Sales /\ relay'.id = relay.id
      /\ UNCHANGED <<sale, mech, txs, uploaded, findings, blobs, served, verifying, sent>>
      /\ ChainCoherent' /\ WatcherTyped' /\ DrainCoherent'
  BY RelayFrame
<1>2. /\ relay.at = "sign" /\ txq' = Append(txq, c) /\ deliveries' = deliveries /\ fresh' = fresh
      /\ relay' = [relay EXCEPT !.at = "write"]
  BY DEF relaySigns, enqueue, diskVars
<1>3. c \in Calls /\ Recorded(c, deliveries, findings)
  <2>1. relay.key # None /\ relay.key = deliveries[relay.id].key
    BY <1>2 DEF Coherent, HandlersCoherent
  <2>2. deliveries[relay.id].key \in Nat BY <1>1 DEF Coherent, DiskTyped, Deliveries
  <2> QED BY <1>1, <2>1, <2>2 DEF Calls, Recorded
<1>4. /\ txq' \in Seq(Calls) /\ txq' # <<>>
      /\ \A n \in 1..Len(txq') : txq'[n] = c \/ (n \in 1..Len(txq) /\ txq'[n] = txq[n])
      /\ txq # <<>> => txq'[1] = txq[1]
  BY <1>2, <1>3, EnqueuedCalls DEF Coherent
<1>5. DiskTyped' BY <1>1, <1>2 DEF Coherent, DiskTyped
<1>6. MemoryTyped' /\ relay'.at = "write"
  <2>1. /\ relay' \in [at : RelayAt, id : Sales \cup {None}, state : States, key : Int]
        /\ relay'.at = "write"
    BY <1>2 DEF Coherent, MemoryTyped, RelayAt
  <2> QED BY <1>1, <1>4, <2>1 DEF Coherent, MemoryTyped
<1>7. QueueCoherent'
  <2> HIDE DEF c
  <2> QED BY <1>1, <1>2, <1>3, <1>4 DEF Coherent, QueueCoherent
<1>8. HandlersCoherent' BY <1>1, <1>2, <1>6 DEF Coherent, HandlersCoherent
<1>9. Records'
  BY <1>1, <1>2
  DEF Coherent, Records, DeliveredMatchesRecord, NoKeyWithRefund, FindingOnRecord, RecordedOutcomeTrue
<1>10. OneDelivery'
  <2>1. \A n \in 1..Len(txq) : txq[n].fn # "recordDelivery"
    BY <1>2 DEF Coherent, OneDelivery
  <2>2. ASSUME NEW n \in 1..Len(txq'), txq'[n].fn = "recordDelivery" PROVE n = Len(txq) + 1 /\ txq'[n] = c
    <3>1. txq \in Seq(Calls) BY DEF Coherent, MemoryTyped
    <3>2. Len(txq') = Len(txq) + 1 /\ Len(txq) \in Nat BY <1>2, <3>1
    <3>3. n \notin 1..Len(txq) BY <1>2, <2>1, <2>2, <3>1
    <3> HIDE DEF c
    <3> QED BY <1>4, <3>2, <3>3
  <2>3. c.id = relay.id /\ relay'.at = "write" /\ relay'.id = relay.id BY <1>1, <1>6
  <2> HIDE DEF c
  <2> QED BY <2>2, <2>3 DEF OneDelivery
<1> QED BY <1>1, <1>5, <1>6, <1>7, <1>8, <1>9, <1>10 DEF Coherent

\* The buyer's download.
LEMMA Serving ==
  ASSUME Coherent, NEW i \in Sales, serveDelivery(i), UNCHANGED watcherVars
  PROVE  Coherent'
<1>1. /\ UNCHANGED <<sale, mech, log, confirmed, txs, uploaded, deliveries, findings, blobs, fresh,
                     relay, verifying, txq, sent, cursor, poll, retry, abandoned, crashes>>
      /\ served' = [served EXCEPT ![i] = deliveries[i].key]
      /\ sale[i].state \in Delivering /\ sale[i].key = deliveries[i].key
  BY DEF serveDelivery, chainVars, memoryVars, watcherVars, Delivering
<1>2. served \in [Sales -> Int] /\ deliveries[i].key \in Int
  BY DEF Coherent, DiskTyped, Deliveries
<1>3. ChainCoherent' /\ WatcherTyped' /\ DrainCoherent'
  BY <1>1 DEF Coherent, ChainCoherent, ChainTyped, WatcherTyped, DrainCoherent, purchasesLeft
<1>4. DiskTyped' /\ MemoryTyped' BY <1>1, <1>2 DEF Coherent, DiskTyped, MemoryTyped
<1>5. QueueCoherent' /\ OneDelivery' /\ HandlersCoherent'
  BY <1>1 DEF Coherent, QueueCoherent, OneDelivery, HandlersCoherent
<1>6. NoKeyWithRefund'
  BY <1>1, <1>2 DEF Coherent, Records, NoKeyWithRefund, Delivering
<1>7. Records'
  BY <1>1, <1>6 DEF Coherent, Records, DeliveredMatchesRecord, FindingOnRecord, RecordedOutcomeTrue
<1> QED BY <1>3, <1>4, <1>5, <1>7 DEF Coherent

---------------------------------------------------------------------------
(* The verifier *)

\* What every step of a verification leaves alone.
LEMMA VerifierFrame ==
  ASSUME Coherent, NEW i \in Sales, VerifierSteps(i), UNCHANGED watcherVars
  PROVE  /\ UNCHANGED <<sale, mech, txs, uploaded, deliveries, served, relay, sent>>
         /\ ChainCoherent' /\ WatcherTyped' /\ DrainCoherent'
<1>1. UNCHANGED <<sale, mech, log, confirmed, txs, cursor, poll, retry, abandoned, crashes>>
  BY DEF VerifierSteps, chainVars, watcherVars
<1>2. UNCHANGED <<uploaded, deliveries, served, relay, sent>>
  BY DEF VerifierSteps, verifierReads, verifierDecides, verifierFinds, verifierFails, diskVars
<1>3. ChainCoherent' BY <1>1 DEF Coherent, ChainCoherent, ChainTyped
<1>4. WatcherTyped' BY <1>1 DEF Coherent, WatcherTyped
<1>5. DrainCoherent' BY <1>1, <1>2 DEF Coherent, DrainCoherent, purchasesLeft
<1> QED BY <1>1, <1>2, <1>3, <1>4, <1>5

\* A verification goes on, with a call that its finding describes or none.
LEMMA VerifierGoesOn ==
  ASSUME Coherent, NEW i \in Sales, VerifierSteps(i), UNCHANGED watcherVars,
         verifierReads(i) \/ verifierDecides(i) \/ verifierFails(i)
  PROVE  Coherent'
<1>1. /\ UNCHANGED <<sale, mech, txs, uploaded, deliveries, served, relay, sent>>
      /\ ChainCoherent' /\ WatcherTyped' /\ DrainCoherent'
  BY VerifierFrame
<1>2. UNCHANGED <<findings, blobs, fresh>>
  BY DEF verifierReads, verifierDecides, verifierFails, diskVars
<1> DEFINE V == [at : VerifierAt, status : {"None", "Voting", "Resolved"}, attempts : Nat]
           c == [fn |-> "resolveMechanical", id |-> i, arg |-> findings[i].hash]
<1>3. verifying \in [Sales -> V] /\ mech[i].status \in {"None", "Voting", "Resolved"}
  BY DEF Coherent, MemoryTyped, ChainCoherent, ChainTyped
<1>4. /\ verifying' \in [Sales -> V]
      /\ \A j \in Sales : verifying'[j].at = "work" =>
           verifying[j].at = "work" \/ (j = i /\ findings[i] = NoFinding)
  <2>1. ASSUME NEW at \in VerifierAt, NEW st \in {"None", "Voting", "Resolved"},
               at = "work" => findings[i] = NoFinding,
               verifying' = [verifying EXCEPT ![i].at = at]
                 \/ verifying' = [verifying EXCEPT ![i].at = at, ![i].status = st]
        PROVE  /\ verifying' \in [Sales -> V]
               /\ \A j \in Sales : verifying'[j].at = "work" =>
                    verifying[j].at = "work" \/ (j = i /\ findings[i] = NoFinding)
    <3>1. CASE verifying' = [verifying EXCEPT ![i].at = at]
      <4>1. verifying' \in [Sales -> V] BY <1>3, <2>1, <3>1
      <4>2. \A j \in Sales : verifying'[j].at = IF j = i THEN at ELSE verifying[j].at
        BY <1>3, <3>1
      <4> HIDE DEF V
      <4> QED BY <2>1, <4>1, <4>2
    <3>2. CASE verifying' = [verifying EXCEPT ![i].at = at, ![i].status = st]
      <4>1. [verifying[i] EXCEPT !.at = at, !.status = st] \in V
        <5>1. verifying[i] \in V BY <1>3
        <5> QED BY <2>1, <5>1
      <4>2. verifying' = [verifying EXCEPT ![i] = [verifying[i] EXCEPT !.at = at, !.status = st]]
        BY <1>3, <3>2
      <4>3. verifying' \in [Sales -> V]
        <5> HIDE DEF V
        <5> QED BY <1>3, <4>1, <4>2
      <4>4. \A j \in Sales : verifying'[j].at = IF j = i THEN at ELSE verifying[j].at
        BY <1>3, <3>2
      <4> HIDE DEF V
      <4> QED BY <2>1, <4>3, <4>4
    <3> QED BY <2>1, <3>1, <3>2
  <2>2. CASE verifierReads(i) BY <1>3, <2>1, <2>2 DEF verifierReads, VerifierAt
  <2>3. CASE verifierFails(i) BY <1>3, <2>1, <2>3 DEF verifierFails, VerifierAt
  <2>4. CASE verifierDecides(i)
    BY <1>3, <2>1, <2>4 DEF verifierDecides, VerifierAt
  <2> QED BY <2>2, <2>3, <2>4
<1>5. \/ txq' = txq
      \/ txq' = Append(txq, c) /\ findings[i] # NoFinding
  BY DEF verifierReads, verifierDecides, verifierFails, enqueue
<1>6. findings[i] # NoFinding => c \in Calls /\ Recorded(c, deliveries, findings)
  <2>1. findings[i].hash \in Nat BY DEF Coherent, DiskTyped, Findings
  <2>2. findings[i] # NoFinding => findings[i].hash # None BY DEF Coherent, HandlersCoherent
  <2> QED BY <2>1, <2>2 DEF Calls, Recorded
<1>7. /\ txq' \in Seq(Calls)
      /\ \A n \in 1..Len(txq') : Recorded(txq'[n], deliveries, findings)
      /\ txq # <<>> => txq' # <<>> /\ txq'[1] = txq[1]
  <2>1. \A n \in 1..Len(txq) : Recorded(txq[n], deliveries, findings)
    BY DEF Coherent, QueueCoherent
  <2>2. CASE txq' = txq BY <2>1, <2>2 DEF Coherent, MemoryTyped
  <2>3. CASE txq' = Append(txq, c) /\ findings[i] # NoFinding
    <3> HIDE DEF c
    <3> QED BY <1>6, <2>1, <2>3, EnqueuedCalls DEF Coherent
  <2> QED BY <1>5, <2>2, <2>3
<1>8. DiskTyped' BY <1>1, <1>2 DEF Coherent, DiskTyped
<1>9. MemoryTyped' BY <1>1, <1>4, <1>7 DEF Coherent, MemoryTyped
<1>10. QueueCoherent' BY <1>1, <1>2, <1>7 DEF Coherent, QueueCoherent
<1>11. HandlersCoherent' BY <1>1, <1>2, <1>4 DEF Coherent, HandlersCoherent
<1>12. Records'
  BY <1>1, <1>2
  DEF Coherent, Records, DeliveredMatchesRecord, NoKeyWithRefund, FindingOnRecord, RecordedOutcomeTrue
<1>13. OneDelivery'
  <2>1. CASE txq' = txq BY <1>1, <2>1 DEF Coherent, OneDelivery
  <2>2. CASE txq' = Append(txq, c) /\ findings[i] # NoFinding
    <3>1. c.fn = "resolveMechanical" OBVIOUS
    <3> HIDE DEF c
    <3> QED BY <1>1, <1>6, <2>2, <3>1, OneDeliveryStays DEF Coherent
  <2> QED BY <1>5, <2>1, <2>2
<1> QED BY <1>1, <1>8, <1>9, <1>10, <1>11, <1>12, <1>13 DEF Coherent

\* The first finding of a dispute is recorded, published and queued.
LEMMA VerifierFinding ==
  ASSUME Coherent, NEW i \in Sales, VerifierSteps(i), UNCHANGED watcherVars, verifierFinds(i)
  PROVE  Coherent'
<1>1. /\ UNCHANGED <<sale, mech, txs, uploaded, deliveries, served, relay, sent>>
      /\ ChainCoherent' /\ WatcherTyped' /\ DrainCoherent'
  BY VerifierFrame
<1> DEFINE h == fresh + 1
           rec == [hash |-> h, mismatch |-> keyMismatch(i), tx |-> FALSE]
           c == [fn |-> "resolveMechanical", id |-> i, arg |-> h]
<1>2. /\ verifying[i].at = "work" /\ fresh' = h /\ blobs' = blobs \cup {h}
      /\ findings' = [findings EXCEPT ![i] = rec] /\ txq' = Append(txq, c)
      /\ verifying' = [verifying EXCEPT ![i].at = "write"]
  BY DEF verifierFinds, enqueue
<1>3. h \in Nat /\ h # None /\ findings[i] = NoFinding
  BY <1>2 DEF Coherent, DiskTyped, HandlersCoherent, None
<1>4. rec \in Findings /\ c \in Calls
  BY <1>3 DEF Findings, Calls, keyMismatch
<1>5. /\ findings \in [Sales -> Findings] /\ findings' \in [Sales -> Findings]
      /\ findings'[i] = rec /\ \A j \in Sales : j # i => findings'[j] = findings[j]
  <2>1. findings \in [Sales -> Findings] BY DEF Coherent, DiskTyped
  <2> HIDE DEF rec
  <2> QED BY <1>2, <1>4, <2>1
<1>6. \A d \in Calls : Recorded(d, deliveries, findings) => Recorded(d, deliveries', findings')
  <2>1. findings[i].hash = None BY <1>3 DEF NoFinding
  <2> QED BY <1>1, <1>5, <2>1 DEF Recorded, Calls
<1>7. Recorded(c, deliveries', findings')
  BY <1>3, <1>5 DEF Recorded
<1>8. /\ txq' \in Seq(Calls) /\ txq' # <<>>
      /\ \A n \in 1..Len(txq') : txq'[n] = c \/ (n \in 1..Len(txq) /\ txq'[n] = txq[n])
      /\ txq # <<>> => txq'[1] = txq[1]
  <2> HIDE DEF c
  <2> QED BY <1>2, <1>4, EnqueuedCalls DEF Coherent
<1>9. /\ \A n \in 1..Len(txq) : txq[n] \in Calls
      /\ \A n \in 1..Len(txs) : txs[n].call \in Calls
  BY CallsTyped DEF Coherent
<1>10. QueueCoherent'
  <2> HIDE DEF c
  <2> QED BY <1>1, <1>6, <1>7, <1>8, <1>9 DEF Coherent, QueueCoherent
<1>11. DiskTyped' BY <1>1, <1>2, <1>3, <1>5 DEF Coherent, DiskTyped
<1>12. MemoryTyped' /\ \A j \in Sales : verifying'[j].at = "work" => j # i /\ verifying[j].at = "work"
  <2>1. /\ verifying' \in [Sales -> [at : VerifierAt, status : {"None", "Voting", "Resolved"},
                                    attempts : Nat]]
        /\ \A j \in Sales : verifying'[j].at = IF j = i THEN "write" ELSE verifying[j].at
    BY <1>2 DEF Coherent, MemoryTyped, VerifierAt
  <2> QED BY <1>1, <1>8, <2>1 DEF Coherent, MemoryTyped
<1>13. HandlersCoherent'
  BY <1>1, <1>2, <1>3, <1>5, <1>12 DEF Coherent, HandlersCoherent
<1>14. FindingOnRecord'
  <2>1. mech[i].finding = None BY <1>3 DEF Coherent, Records, FindingOnRecord, NoFinding
  <2> QED BY <1>1, <1>2, <1>5, <2>1 DEF Coherent, Records, FindingOnRecord
<1>15. RecordedOutcomeTrue'
  BY <1>1, <1>5 DEF Coherent, Records, RecordedOutcomeTrue
<1>16. Records'
  BY <1>1, <1>14, <1>15 DEF Coherent, Records, DeliveredMatchesRecord, NoKeyWithRefund
<1>17. OneDelivery'
  <2>1. c.fn = "resolveMechanical" OBVIOUS
  <2> HIDE DEF c
  <2> QED BY <1>1, <1>2, <1>4, <2>1, OneDeliveryStays DEF Coherent
<1> QED BY <1>1, <1>10, <1>11, <1>12, <1>13, <1>16, <1>17 DEF Coherent

---------------------------------------------------------------------------
(* The transaction queue *)

\* The first call of the queue.
LEMMA FirstCall ==
  ASSUME Coherent, txq # <<>>
  PROVE  /\ Head(txq) = txq[1] /\ txq[1] \in Calls /\ Recorded(txq[1], deliveries, findings)
         /\ Tail(txq) \in Seq(Calls)
         /\ \A n \in 1..Len(Tail(txq)) : n + 1 \in 1..Len(txq) /\ Tail(txq)[n] = txq[n + 1]
<1>1. txq \in Seq(Calls) BY DEF Coherent, MemoryTyped
<1>2. Len(txq) \in Nat /\ Len(txq) # 0 BY <1>1
<1>3. 1 \in 1..Len(txq) BY <1>2
<1>4. txq[1] \in Calls /\ Recorded(txq[1], deliveries, findings)
  BY <1>1, <1>3 DEF Coherent, QueueCoherent
<1> QED BY <1>1, <1>2, <1>4

\* A call is answered: with success only when it is done.
LEMMA Settling ==
  ASSUME Coherent, NEW ok \in BOOLEAN, txq # <<>>, settle(ok), ok => Done(txq[1], sale, mech),
         UNCHANGED <<sale, mech, log, confirmed, watcherVars>>,
         txs' \in Seq(Txs), Len(txs') <= MaxTxs,
         \A n \in 1..Len(txs') :
           \/ n \in 1..Len(txs) /\ txs'[n] = txs[n]
           \/ txs'[n].call = txq[1] /\ txs'[n].status = "pending"
  PROVE  Coherent'
<1> DEFINE c == txq[1]
           i == c.id
<1>1. /\ Head(txq) = c /\ c \in Calls /\ Recorded(c, deliveries, findings)
      /\ Tail(txq) \in Seq(Calls)
      /\ \A n \in 1..Len(Tail(txq)) : n + 1 \in 1..Len(txq) /\ Tail(txq)[n] = txq[n + 1]
  BY FirstCall
<1>2. i \in Sales /\ c.arg # None /\ c.fn \in {"recordDelivery", "resolveMechanical"}
  BY <1>1 DEF Calls, Recorded
<1>3. /\ txq' = Tail(txq) /\ sent' = 0
      /\ UNCHANGED <<uploaded, blobs, served, fresh, log, confirmed, cursor, poll, retry,
                     abandoned, crashes>>
  BY DEF settle, watcherVars
<1>4. /\ deliveries \in [Sales -> Deliveries] /\ findings \in [Sales -> Findings]
      /\ relay \in [at : RelayAt, id : Sales \cup {None}, state : States, key : Int]
      /\ verifying \in [Sales -> [at : VerifierAt, status : {"None", "Voting", "Resolved"},
                                  attempts : Nat]]
  BY DEF Coherent, DiskTyped, MemoryTyped
<1>5. /\ DiskTyped' /\ OneDelivery' /\ HandlersCoherent'
      /\ \A j \in Sales : /\ deliveries'[j].key = deliveries[j].key
                          /\ findings'[j].hash = findings[j].hash
                          /\ deliveries'[j].status = "delivered" => sale[j].key = deliveries[j].key
                          /\ findings'[j].tx => mech[j].finding = findings[j].hash
      /\ relay' \in [at : RelayAt, id : Sales \cup {None}, state : States, key : Int]
      /\ relay'.at # "idle" => relay.at # "idle" /\ relay'.id = relay.id
      /\ relay.at # "idle" => relay'.at # "idle"
      /\ verifying' \in [Sales -> [at : VerifierAt, status : {"None", "Voting", "Resolved"},
                                   attempts : Nat]]
  <2> DEFINE R == [at : RelayAt, id : Sales \cup {None}, state : States, key : Int]
             V == [at : VerifierAt, status : {"None", "Voting", "Resolved"}, attempts : Nat]
             dl == [deliveries[i] EXCEPT !.status = IF ok THEN "delivered" ELSE "failed"]
             fd == [findings[i] EXCEPT !.tx = ok]
  <2>0. /\ \A j \in Sales :
             /\ deliveries[j].status = "delivered" => sale[j].key = deliveries[j].key
             /\ findings[j].tx => mech[j].finding = findings[j].hash
        /\ 1 \in 1..Len(txq)
    <3>1. txq \in Seq(Calls) BY DEF Coherent, MemoryTyped
    <3> QED BY <3>1 DEF Coherent, Records, RecordedOutcomeTrue
  <2>1. CASE c.fn = "recordDelivery"
    <3>1. /\ deliveries' = [deliveries EXCEPT ![i].status = IF ok THEN "delivered" ELSE "failed"]
          /\ relay' = [relay EXCEPT !.at = IF ok THEN "done" ELSE "failed"]
          /\ findings' = findings /\ verifying' = verifying
      <4> HIDE DEF c
      <4> QED BY <1>1, <2>1 DEF settle
    <3>2. relay.at = "write" /\ relay.id = i /\ \A n \in 1..Len(txq) : n # 1 => txq[n].fn # "recordDelivery"
      BY <2>0, <2>1 DEF Coherent, OneDelivery
    <3>3. /\ relay' \in R /\ relay'.id = relay.id /\ relay'.at \in {"done", "failed"}
      BY <1>4, <3>1 DEF RelayAt
    <3>4. /\ deliveries' = [deliveries EXCEPT ![i] = dl] /\ dl \in Deliveries
          /\ dl.key = deliveries[i].key /\ (dl.status = "delivered" => ok)
      <4>1. deliveries[i] \in Deliveries BY <1>2, <1>4
      <4> HIDE DEF c, i
      <4> QED BY <1>4, <3>1, <4>1 DEF Deliveries
    <3>5. /\ deliveries' \in [Sales -> Deliveries] /\ deliveries'[i] = dl
          /\ \A j \in Sales : j # i => deliveries'[j] = deliveries[j]
      <4> HIDE DEF c, i, dl
      <4> QED BY <1>2, <1>4, <3>4
    <3>6. c.arg = deliveries[i].key /\ (ok => sale[i].key = c.arg)
      BY <1>1, <2>1 DEF Recorded, Done
    <3>7. OneDelivery'
      BY <1>1, <1>3, <3>2 DEF OneDelivery
    <3>8. HandlersCoherent'
      <4> HIDE DEF c, i, dl
      <4> QED BY <1>2, <1>3, <3>1, <3>3, <3>4, <3>5, <3>6 DEF Coherent, HandlersCoherent
    <3>9. DiskTyped' BY <1>3, <3>1, <3>5 DEF Coherent, DiskTyped
    <3> HIDE DEF c, i, dl
    <3> QED BY <1>4, <2>0, <3>1, <3>2, <3>3, <3>4, <3>5, <3>6, <3>7, <3>8, <3>9
  <2>2. CASE c.fn = "resolveMechanical"
    <3>1. /\ findings' = [findings EXCEPT ![i].tx = ok]
          /\ verifying' = [verifying EXCEPT ![i].at = IF ok THEN "idle" ELSE "failed"]
          /\ deliveries' = deliveries /\ relay' = relay
      <4> HIDE DEF c
      <4> QED BY <1>1, <2>2 DEF settle
    <3>2. /\ verifying' \in [Sales -> V]
          /\ \A j \in Sales : verifying'[j].at = "work" => verifying[j].at = "work" /\ j # i
      <4> HIDE DEF c, i
      <4>1. PICK at \in {"idle", "failed"} : verifying' = [verifying EXCEPT ![i].at = at]
        BY <3>1
      <4>2. verifying' \in [Sales -> V] BY <1>2, <1>4, <4>1 DEF VerifierAt
      <4>3. \A j \in Sales : verifying'[j].at = IF j = i THEN at ELSE verifying[j].at
        BY <1>2, <1>4, <4>1
      <4> QED BY <4>1, <4>2, <4>3
    <3>4. /\ findings' = [findings EXCEPT ![i] = fd] /\ fd \in Findings
          /\ fd.hash = findings[i].hash /\ fd.tx = ok
      <4>1. findings[i] \in Findings BY <1>2, <1>4
      <4> HIDE DEF c, i
      <4> QED BY <1>4, <3>1, <4>1 DEF Findings
    <3>5. /\ findings' \in [Sales -> Findings] /\ findings'[i] = fd
          /\ \A j \in Sales : j # i => findings'[j] = findings[j]
      <4> HIDE DEF c, i, fd
      <4> QED BY <1>2, <1>4, <3>4
    <3>6. c.arg = findings[i].hash /\ (ok => mech[i].finding = c.arg)
      BY <1>1, <2>2 DEF Recorded, Done
    <3>7. OneDelivery'
      BY <1>1, <1>3, <3>1 DEF Coherent, OneDelivery
    <3>8. HandlersCoherent'
      <4> HIDE DEF c, i, fd
      <4> QED BY <1>2, <1>3, <3>1, <3>2, <3>4, <3>5, <3>6 DEF Coherent, HandlersCoherent
    <3>9. DiskTyped' BY <1>3, <3>1, <3>5 DEF Coherent, DiskTyped
    <3> HIDE DEF c, i, fd
    <3> QED BY <1>4, <2>0, <3>1, <3>2, <3>4, <3>5, <3>6, <3>7, <3>8, <3>9
  <2> QED BY <1>2, <2>1, <2>2
<1>6. \A d \in Calls : Recorded(d, deliveries, findings) => Recorded(d, deliveries', findings')
  BY <1>5 DEF Recorded, Calls
<1>7. ChainCoherent' BY DEF Coherent, ChainCoherent, ChainTyped
<1>8. WatcherTyped' BY <1>3 DEF Coherent, WatcherTyped
<1>9. DrainCoherent' BY <1>3, <1>5 DEF Coherent, DrainCoherent, purchasesLeft
<1>10. MemoryTyped' BY <1>1, <1>3, <1>5 DEF Coherent, MemoryTyped
<1>11. QueueCoherent'
  <2>1. ASSUME NEW n \in 1..Len(txs')
        PROVE  /\ Recorded(txs'[n].call, deliveries', findings')
               /\ txs'[n].status = "success" => Done(txs'[n].call, sale', mech')
    <3>1. \A m \in 1..Len(txs) : txs[m].call \in Calls BY CallsTyped DEF Coherent
    <3>2. CASE n \in 1..Len(txs) /\ txs'[n] = txs[n]
      BY <1>6, <3>1, <3>2 DEF Coherent, QueueCoherent
    <3>3. CASE txs'[n].call = c /\ txs'[n].status = "pending"
      BY <1>1, <1>6, <3>3
    <3> QED BY <3>2, <3>3
  <2>2. ASSUME NEW n \in 1..Len(txq') PROVE Recorded(txq'[n], deliveries', findings')
    <3>1. \A m \in 1..Len(txq) : txq[m] \in Calls BY CallsTyped DEF Coherent
    <3> QED BY <1>1, <1>3, <1>6, <3>1 DEF Coherent, QueueCoherent
  <2> QED BY <1>3, <2>1, <2>2 DEF QueueCoherent
<1>12. Records'
  BY <1>3, <1>5
  DEF Coherent, Records, DeliveredMatchesRecord, NoKeyWithRefund, FindingOnRecord, RecordedOutcomeTrue
<1> QED BY <1>5, <1>7, <1>8, <1>9, <1>10, <1>11, <1>12 DEF Coherent

\* What is sent is the first call, pending.
LEMMA Broadcasting ==
  ASSUME Coherent, broadcast
  PROVE  /\ txq # <<>> /\ sent = 0 /\ UNCHANGED <<sale, mech, log, confirmed>>
         /\ txs' \in Seq(Txs) /\ Len(txs') <= MaxTxs /\ Len(txs') = Len(txs) + 1
         /\ txs'[Len(txs')].call = txq[1] /\ txs'[Len(txs')].status = "pending"
         /\ \A n \in 1..Len(txs) : txs'[n] = txs[n]
         /\ \A n \in 1..Len(txs') : \/ n \in 1..Len(txs) /\ txs'[n] = txs[n]
                                    \/ txs'[n].call = txq[1] /\ txs'[n].status = "pending"
<1> DEFINE t == [call |-> Head(txq), status |-> "pending"]
<1>1. /\ txq # <<>> /\ sent = 0 /\ Len(txs) < MaxTxs /\ txs' = Append(txs, t)
      /\ UNCHANGED <<sale, mech, log, confirmed>>
  BY DEF broadcast
<1>2. txs \in Seq(Txs) /\ t \in Txs /\ t.call = txq[1] /\ t.status = "pending"
  BY <1>1, FirstCall DEF Coherent, MemoryTyped, Txs
<1> HIDE DEF t
<1>3. MaxTxs \in Nat BY TeeChainOK
<1>4. txs' \in Seq(Txs) /\ Len(txs') = Len(txs) + 1 /\ Len(txs) \in Nat BY <1>1, <1>2
<1>5. txs'[Len(txs) + 1] = t BY <1>1, <1>2
<1>6. \A n \in 1..Len(txs) : txs'[n] = txs[n] BY <1>1, <1>2
<1>7. Len(txs') <= MaxTxs BY <1>1, <1>3, <1>4
<1> QED BY <1>1, <1>2, <1>4, <1>5, <1>6, <1>7

\* Every step of the queue.
LEMMA Queueing ==
  ASSUME Coherent, QueueSteps, UNCHANGED watcherVars
  PROVE  Coherent'
<1>1. CASE writeSends
  <2>1. /\ txq # <<>> /\ UNCHANGED <<sale, mech, log, confirmed>>
        /\ txs' \in Seq(Txs) /\ Len(txs') <= MaxTxs /\ Len(txs') = Len(txs) + 1
        /\ txs'[Len(txs')].call = txq[1]
        /\ \A n \in 1..Len(txs') : \/ n \in 1..Len(txs) /\ txs'[n] = txs[n]
                                   \/ txs'[n].call = txq[1] /\ txs'[n].status = "pending"
    BY <1>1, Broadcasting DEF writeSends
  <2>2. /\ sent' = Len(txs')
        /\ UNCHANGED <<uploaded, deliveries, findings, blobs, served, fresh, relay, verifying, txq,
                       cursor, poll, retry, abandoned, crashes>>
    BY <1>1 DEF writeSends, diskVars, watcherVars
  <2>3. Len(txs) \in Nat /\ Recorded(txq[1], deliveries, findings)
    BY <2>1, FirstCall DEF Coherent, MemoryTyped
  <2>4. MemoryTyped' BY <2>1, <2>2, <2>3 DEF Coherent, MemoryTyped
  <2>5. QueueCoherent' BY <2>1, <2>2, <2>3 DEF Coherent, QueueCoherent
  <2>6. ChainCoherent' /\ WatcherTyped' /\ DrainCoherent'
    BY <2>1, <2>2
    DEF Coherent, ChainCoherent, ChainTyped, WatcherTyped, DrainCoherent, purchasesLeft
  <2>7. DiskTyped' /\ OneDelivery' /\ HandlersCoherent'
    BY <2>1, <2>2 DEF Coherent, DiskTyped, OneDelivery, HandlersCoherent
  <2>8. Records'
    BY <2>1, <2>2 DEF Coherent, Records, DeliveredMatchesRecord, NoKeyWithRefund, FindingOnRecord,
                      RecordedOutcomeTrue
  <2> QED BY <2>4, <2>5, <2>6, <2>7, <2>8 DEF Coherent
<1>2. CASE writeLosesAnswer
  <2>1. broadcast /\ settle(FALSE) BY <1>2 DEF writeLosesAnswer
  <2> QED BY <2>1, Broadcasting, Settling
<1>3. ASSUME UNCHANGED chainVars
      PROVE  /\ UNCHANGED <<sale, mech, log, confirmed>> /\ txs' \in Seq(Txs) /\ Len(txs') <= MaxTxs
             /\ \A n \in 1..Len(txs') : n \in 1..Len(txs) /\ txs'[n] = txs[n]
  BY <1>3 DEF chainVars, Coherent, MemoryTyped
<1>4. CASE writeConfirmed
  <2>1. sent # 0 /\ txs[sent].status = "success" /\ settle(TRUE) /\ UNCHANGED chainVars
    BY <1>4 DEF writeConfirmed
  <2>2. sent \in 1..Len(txs) BY <2>1 DEF Coherent, MemoryTyped
  <2>3. txq # <<>> /\ Done(txq[1], sale, mech) BY <2>1, <2>2 DEF Coherent, QueueCoherent
  <2> QED BY <1>3, <2>1, <2>3, Settling
<1>5. CASE writeFails
  <2>1. txq # <<>> /\ settle(FALSE) /\ UNCHANGED chainVars BY <1>5 DEF writeFails
  <2> QED BY <1>3, <2>1, Settling
<1> QED BY <1>1, <1>2, <1>4, <1>5 DEF QueueSteps

---------------------------------------------------------------------------
(* The watcher *)

\* The smaller of two numbers.
LEMMA MinOfTwo ==
  ASSUME NEW a \in Int, NEW b \in Int
  PROVE  Min({a, b}) = IF a <= b THEN a ELSE b
BY DEF Min

\* The end of a chunk lies between what was scanned and the head of this poll.
LEMMA ChunkBounds ==
  ASSUME WatcherTyped, poll.from < poll.head
  PROVE  /\ chunkEnd \in 0..poll.head /\ poll.from <= chunkEnd
         /\ chunkJobs \subseteq Jobs
<1>1. /\ poll.from \in Nat /\ poll.head \in Nat /\ CHUNK \in Nat
      /\ poll.from + CHUNK \in Int /\ poll.head \in Int
      /\ poll.head <= confirmed /\ confirmed <= Len(log) /\ log \in Seq(Jobs)
      /\ confirmed \in Int /\ Len(log) \in Nat
  BY TeeServiceOK DEF WatcherTyped
<1>2. chunkEnd = IF poll.from + CHUNK <= poll.head THEN poll.from + CHUNK ELSE poll.head
  BY <1>1, MinOfTwo DEF chunkEnd
<1>3. chunkEnd \in 0..poll.head /\ poll.from <= chunkEnd BY <1>1, <1>2
<1>4. \A n \in poll.from + 1..chunkEnd : n \in 1..Len(log)
  <2> HIDE DEF chunkEnd
  <2> QED BY <1>1, <1>3
<1>5. chunkJobs \subseteq Jobs BY <1>1, <1>4 DEF chunkJobs
<1> QED BY <1>3, <1>5

\* Scanning touches the watcher only.
LEMMA Polling ==
  ASSUME Coherent,
         \/ pollStarts \/ scanChunk \/ scanFails \/ drainStarts
         \/ \E j \in Jobs : backOffOver(j)
  PROVE  Coherent'
<1>1. UNCHANGED <<sale, mech, log, confirmed, txs, uploaded, deliveries, findings, blobs, served,
                 fresh, relay, verifying, txq, sent, abandoned>>
  BY DEF pollStarts, scanChunk, scanFails, drainStarts, backOffOver, chainVars, handlerVars,
         diskVars, memoryVars
<1>2. /\ ChainCoherent' /\ DiskTyped' /\ MemoryTyped' /\ QueueCoherent' /\ OneDelivery'
      /\ HandlersCoherent' /\ Records'
  BY <1>1
  DEF Coherent, ChainCoherent, ChainTyped, DiskTyped, MemoryTyped, QueueCoherent, OneDelivery,
      HandlersCoherent, Records, DeliveredMatchesRecord, NoKeyWithRefund, FindingOnRecord,
      RecordedOutcomeTrue
<1> DEFINE Tries == [attempts : Nat, ready : BOOLEAN]
<1>3. /\ log \in Seq(Jobs) /\ confirmed \in 0..Len(log) /\ cursor \in 0..confirmed
      /\ abandoned \subseteq Jobs /\ DOMAIN retry \subseteq Jobs
      /\ \A j \in DOMAIN retry : retry[j] \in Tries
      /\ poll = [at |-> poll.at, from |-> poll.from, head |-> poll.head, jobs |-> poll.jobs]
      /\ poll.head \in 0..confirmed /\ poll.from \in 0..poll.head
      /\ DOMAIN poll.jobs \subseteq Jobs /\ \A j \in DOMAIN poll.jobs : poll.jobs[j] \in Nat
  BY DEF Coherent, WatcherTyped
<1>4. ASSUME NEW jobs \in SUBSET Jobs, retry' = enqueued(jobs)
      PROVE  /\ DOMAIN retry' \subseteq Jobs /\ DOMAIN retry \subseteq DOMAIN retry'
             /\ \A j \in DOMAIN retry' : retry'[j] \in Tries
  <2>1. FirstTry \in Tries BY DEF FirstTry
  <2> HIDE DEF Tries
  <2> QED BY <1>3, <1>4, <2>1 DEF enqueued
<1>5. /\ Asleep.at = "idle" /\ Asleep.from = 0 /\ Asleep.head = 0 /\ DOMAIN Asleep.jobs = {}
      /\ Asleep = [at |-> "idle", from |-> 0, head |-> 0, jobs |-> Asleep.jobs]
  BY DEF Asleep
<1>6. poll.at # "drain" => relay.at = "idle" /\ DOMAIN poll.jobs = {}
  BY DEF Coherent, DrainCoherent
<1>7. CASE pollStarts
  <2>1. PICK f \in {0, cursor} :
          poll' = [at |-> "scan", from |-> f, head |-> confirmed, jobs |-> <<>>]
    BY <1>7 DEF pollStarts
  <2>2. retry' = retry /\ cursor' = cursor /\ poll.at = "idle" BY <1>7 DEF pollStarts
  <2>3. /\ poll'.at = "scan" /\ poll'.from = f /\ poll'.head = confirmed /\ DOMAIN poll'.jobs = {}
        /\ poll' = [at |-> poll'.at, from |-> poll'.from, head |-> poll'.head, jobs |-> poll'.jobs]
    BY <2>1
  <2>4. WatcherTyped' BY <1>1, <1>3, <2>1, <2>2, <2>3 DEF WatcherTyped
  <2>5. DrainCoherent' BY <1>1, <1>6, <2>2, <2>3 DEF DrainCoherent, purchasesLeft
  <2> QED BY <1>2, <2>4, <2>5 DEF Coherent
<1>8. CASE scanChunk
  <2>1. /\ poll.at = "scan" /\ poll.from < poll.head /\ retry' = enqueued(chunkJobs)
        /\ cursor' = chunkEnd /\ poll' = [poll EXCEPT !.from = chunkEnd]
    BY <1>8 DEF scanChunk
  <2>2. chunkEnd \in 0..poll.head /\ chunkJobs \subseteq Jobs
    BY <2>1, ChunkBounds DEF Coherent
  <2>3. /\ poll'.at = "scan" /\ poll'.from = chunkEnd /\ poll'.head = poll.head
        /\ poll'.jobs = poll.jobs
        /\ poll' = [at |-> poll'.at, from |-> poll'.from, head |-> poll'.head, jobs |-> poll'.jobs]
    <3> HIDE DEF chunkEnd
    <3> QED BY <1>3, <2>1
  <2>4. WatcherTyped'
    <3> HIDE DEF chunkEnd, chunkJobs
    <3> QED BY <1>1, <1>3, <1>4, <2>1, <2>2, <2>3 DEF WatcherTyped
  <2>5. DrainCoherent' BY <1>1, <1>6, <2>1, <2>3 DEF DrainCoherent, purchasesLeft
  <2> QED BY <1>2, <2>4, <2>5 DEF Coherent
<1>9. CASE scanFails
  <2>1. /\ poll.at = "scan" /\ poll' = Asleep /\ cursor' = cursor
        /\ retry' = retry \/ (poll.from < poll.head /\ retry' = enqueued(chunkJobs))
    BY <1>9 DEF scanFails
  <2>2. /\ DOMAIN retry' \subseteq Jobs /\ \A j \in DOMAIN retry' : retry'[j] \in Tries
    BY <1>3, <1>4, <2>1, ChunkBounds DEF Coherent
  <2>3. WatcherTyped' BY <1>1, <1>3, <1>5, <2>1, <2>2 DEF WatcherTyped
  <2>4. DrainCoherent' BY <1>1, <1>5, <1>6, <2>1 DEF DrainCoherent, purchasesLeft
  <2> QED BY <1>2, <2>3, <2>4 DEF Coherent
<1>10. CASE drainStarts
  <2>1. /\ poll.at = "scan" /\ poll' = [poll EXCEPT !.at = "drain", !.jobs = dueJobs]
        /\ cursor' = cursor /\ retry' = retry
    BY <1>10 DEF drainStarts
  <2>2. /\ DOMAIN dueJobs \subseteq DOMAIN retry /\ \A j \in DOMAIN dueJobs : dueJobs[j] \in Nat
    BY <1>3 DEF dueJobs
  <2>3. /\ poll'.at = "drain" /\ poll'.from = poll.from /\ poll'.head = poll.head
        /\ poll'.jobs = dueJobs
        /\ poll' = [at |-> poll'.at, from |-> poll'.from, head |-> poll'.head, jobs |-> poll'.jobs]
    <3> HIDE DEF dueJobs
    <3> QED BY <1>3, <2>1
  <2>4. WatcherTyped'
    <3> HIDE DEF dueJobs
    <3> QED BY <1>1, <1>3, <2>1, <2>2, <2>3 DEF WatcherTyped
  <2>5. DrainCoherent'
    <3> HIDE DEF dueJobs
    <3> QED BY <1>1, <1>6, <2>1, <2>2, <2>3 DEF DrainCoherent, purchasesLeft
  <2> QED BY <1>2, <2>4, <2>5 DEF Coherent
<1>11. ASSUME NEW j \in Jobs, backOffOver(j) PROVE Coherent'
  <2>1. /\ j \in DOMAIN retry /\ retry' = [retry EXCEPT ![j].ready = TRUE]
        /\ cursor' = cursor /\ poll' = poll
    BY <1>11 DEF backOffOver
  <2>2. /\ DOMAIN retry' = DOMAIN retry /\ \A k \in DOMAIN retry' : retry'[k] \in Tries
    BY <1>3, <2>1
  <2>3. WatcherTyped' BY <1>1, <1>3, <2>1, <2>2 DEF WatcherTyped
  <2>4. DrainCoherent' BY <1>1, <2>1, <2>2 DEF Coherent, DrainCoherent, purchasesLeft
  <2> QED BY <1>2, <2>3, <2>4 DEF Coherent
<1> QED BY <1>7, <1>8, <1>9, <1>10, <1>11

\* A failed job stays or goes.
LEMMA FailTyped ==
  ASSUME WatcherTyped, NEW j \in Jobs, NEW n \in Nat,
         fail(j, n) \/ (retry' = removed(j) /\ UNCHANGED abandoned)
  PROVE  /\ DOMAIN retry' \subseteq Jobs
         /\ \A k \in DOMAIN retry' : retry'[k] \in [attempts : Nat, ready : BOOLEAN]
         /\ abandoned' \subseteq Jobs
         /\ \A k \in DOMAIN retry : k # j => k \in DOMAIN retry'
<1>1. /\ DOMAIN retry \subseteq Jobs /\ abandoned \subseteq Jobs
      /\ \A k \in DOMAIN retry : retry[k] \in [attempts : Nat, ready : BOOLEAN]
  BY DEF WatcherTyped
<1>2. CASE retry' = removed(j) /\ abandoned' \in {abandoned, abandoned \cup {j}}
  BY <1>1, <1>2 DEF removed
<1>3. CASE retry' = kept(j, n) /\ abandoned' = abandoned
  <2>1. [attempts |-> n, ready |-> FALSE] \in [attempts : Nat, ready : BOOLEAN] OBVIOUS
  <2> QED BY <1>1, <1>3, <2>1 DEF kept
<1> QED BY <1>2, <1>3 DEF fail

\* Handing jobs to the handlers, and taking their outcome back.
LEMMA Draining ==
  ASSUME Coherent,
         \/ \E j \in Jobs : drainRelays(j)
         \/ relayReturns \/ drainDisputes \/ \E i \in Sales : verifierCaught(i)
  PROVE  Coherent'
<1>1. UNCHANGED <<sale, mech, log, confirmed, txs, uploaded, deliveries, findings, blobs, served,
                 fresh, txq, sent, cursor>>
  BY DEF drainRelays, relayReturns, drainDisputes, verifierCaught, chainVars, diskVars
<1>2. /\ ChainCoherent' /\ DiskTyped' /\ QueueCoherent' /\ Records'
  BY <1>1
  DEF Coherent, ChainCoherent, ChainTyped, DiskTyped, QueueCoherent, Records, DeliveredMatchesRecord,
      NoKeyWithRefund, FindingOnRecord, RecordedOutcomeTrue
<1> DEFINE Tries == [attempts : Nat, ready : BOOLEAN]
           R == [at : RelayAt, id : Sales \cup {None}, state : States, key : Int]
           V == [at : VerifierAt, status : {"None", "Voting", "Resolved"}, attempts : Nat]
<1>3. /\ log \in Seq(Jobs) /\ confirmed \in 0..Len(log) /\ cursor \in 0..confirmed
      /\ abandoned \subseteq Jobs /\ DOMAIN retry \subseteq Jobs
      /\ \A j \in DOMAIN retry : retry[j] \in Tries
      /\ poll = [at |-> poll.at, from |-> poll.from, head |-> poll.head, jobs |-> poll.jobs]
      /\ poll.head \in 0..confirmed /\ poll.from \in 0..poll.head
      /\ DOMAIN poll.jobs \subseteq Jobs /\ \A j \in DOMAIN poll.jobs : poll.jobs[j] \in Nat
  BY DEF Coherent, WatcherTyped
<1>4. /\ relay \in R /\ verifying \in [Sales -> V] /\ (relay.at # "idle" => relay.id \in Sales)
  BY DEF Coherent, MemoryTyped
<1>5. /\ poll.at # "drain" => relay.at = "idle" /\ DOMAIN poll.jobs = {}
      /\ \A j \in DOMAIN poll.jobs : j.kind = "purchase" => j \in DOMAIN retry
      /\ relay.at # "idle" => /\ PurchaseJob(relay.id) \in DOMAIN retry
                              /\ PurchaseJob(relay.id) \notin DOMAIN poll.jobs
  BY DEF Coherent, DrainCoherent, purchasesLeft
<1>6. /\ Asleep.at = "idle" /\ Asleep.from = 0 /\ Asleep.head = 0 /\ DOMAIN Asleep.jobs = {}
      /\ Asleep = [at |-> "idle", from |-> 0, head |-> 0, jobs |-> Asleep.jobs]
  BY DEF Asleep
\* A relay that waits for nothing has nothing in the queue.
<1>7. ASSUME relay.at # "write", UNCHANGED verifying,
             relay'.at \notin {"decide", "sign"}
      PROVE  OneDelivery' /\ HandlersCoherent'
  <2>1. OneDelivery' BY <1>1, <1>7 DEF Coherent, OneDelivery
  <2> QED BY <1>1, <1>7, <2>1 DEF Coherent, HandlersCoherent
<1>8. ASSUME NEW j \in Jobs, drainRelays(j) PROVE Coherent'
  <2>1. /\ poll.at = "drain" /\ relay.at = "idle" /\ j \in DOMAIN poll.jobs /\ j.kind = "purchase"
        /\ relay' = [Resting EXCEPT !.at = "read", !.id = j.id]
        /\ poll' = [poll EXCEPT !.jobs = [k \in DOMAIN poll.jobs \ {j} |-> poll.jobs[k]]]
        /\ UNCHANGED <<verifying, retry, abandoned>>
    BY <1>8 DEF drainRelays, purchasesLeft
  <2>2. j.id \in Sales /\ PurchaseJob(j.id) = j BY <2>1 DEF Jobs, PurchaseJob
  <2>3. relay' \in R /\ relay'.at = "read" /\ relay'.id = j.id
    <3>1. relay' = [at |-> "read", id |-> j.id, state |-> "None", key |-> None]
      BY <2>1 DEF Resting
    <3>2. "read" \in RelayAt /\ "None" \in States /\ None \in Int BY DEF RelayAt, States, None
    <3> QED BY <2>2, <3>1, <3>2
  <2> DEFINE rest == [k \in DOMAIN poll.jobs \ {j} |-> poll.jobs[k]]
  <2>4. DOMAIN rest = DOMAIN poll.jobs \ {j} /\ \A k \in DOMAIN rest : rest[k] = poll.jobs[k]
    OBVIOUS
  <2>5. /\ poll'.at = "drain" /\ poll'.from = poll.from /\ poll'.head = poll.head /\ poll'.jobs = rest
        /\ poll' = [at |-> poll'.at, from |-> poll'.from, head |-> poll'.head, jobs |-> poll'.jobs]
    <3>1. poll' = [poll EXCEPT !.jobs = rest] BY <2>1
    <3> HIDE DEF rest
    <3> QED BY <1>3, <2>1, <3>1
  <2> HIDE DEF rest
  <2>6. WatcherTyped' BY <1>1, <1>3, <2>1, <2>4, <2>5 DEF WatcherTyped
  <2>7. DrainCoherent'
    BY <1>5, <2>1, <2>2, <2>3, <2>4, <2>5 DEF DrainCoherent, purchasesLeft
  <2>8. MemoryTyped' BY <1>1, <2>1, <2>2, <2>3 DEF Coherent, MemoryTyped
  <2>9. OneDelivery' /\ HandlersCoherent' BY <1>7, <2>1, <2>3
  <2> QED BY <1>2, <2>6, <2>7, <2>8, <2>9 DEF Coherent
<1>9. CASE relayReturns
  <2> DEFINE j == PurchaseJob(relay.id)
  <2>1. /\ relay.at \in {"done", "failed"} /\ relay' = Resting
        /\ \/ retry' = removed(j) /\ abandoned' = abandoned
           \/ fail(j, retry[j].attempts + 1)
        /\ UNCHANGED <<verifying, poll>>
    BY <1>9 DEF relayReturns
  <2>2. /\ relay.at # "idle" /\ relay.id \in Sales /\ j \in DOMAIN retry /\ j \in Jobs
        /\ j \notin DOMAIN poll.jobs /\ poll.at = "drain" /\ retry[j].attempts + 1 \in Nat
    BY <1>3, <1>4, <1>5, <2>1
  <2>3. /\ DOMAIN retry' \subseteq Jobs /\ \A k \in DOMAIN retry' : retry'[k] \in Tries
        /\ abandoned' \subseteq Jobs
        /\ \A k \in DOMAIN retry : k # j => k \in DOMAIN retry'
    <3>1. WatcherTyped BY DEF Coherent
    <3> DEFINE n == retry[j].attempts + 1
    <3>2. n \in Nat /\ (fail(j, n) \/ (retry' = removed(j) /\ UNCHANGED abandoned)) BY <2>1, <2>2
    <3> HIDE DEF j, n
    <3> QED BY <2>2, <3>1, <3>2, FailTyped
  <2>4. relay' \in R /\ relay'.at = "idle" BY <2>1 DEF Resting, RelayAt, States, None
  <2>5. WatcherTyped' BY <1>1, <1>3, <2>1, <2>3 DEF WatcherTyped
  <2>6. DrainCoherent'
    <3> HIDE DEF j
    <3> QED BY <1>5, <2>1, <2>2, <2>3, <2>4 DEF DrainCoherent, purchasesLeft
  <2>7. MemoryTyped' BY <1>1, <2>1, <2>4 DEF Coherent, MemoryTyped
  <2>8. OneDelivery' /\ HandlersCoherent' BY <1>7, <2>1, <2>4
  <2> QED BY <1>2, <2>5, <2>6, <2>7, <2>8 DEF Coherent
<1>10. CASE drainDisputes
  <2>1. /\ poll.at = "drain" /\ relay.at = "idle" /\ purchasesLeft = {} /\ poll' = Asleep
        /\ retry' = [k \in DOMAIN retry \ DOMAIN poll.jobs |-> retry[k]]
        /\ verifying' = [i \in Sales |->
              IF i \notin {j.id : j \in DOMAIN poll.jobs} THEN verifying[i]
              ELSE [verifying[i] EXCEPT !.at = IF inFlight(i) THEN verifying[i].at ELSE "read",
                                        !.attempts = poll.jobs[DisputeJob(i)]]]
        /\ UNCHANGED <<relay, abandoned>>
    BY <1>10 DEF drainDisputes
  <2>2. \A i \in Sales : i \in {j.id : j \in DOMAIN poll.jobs} => poll.jobs[DisputeJob(i)] \in Nat
    <3>1. ASSUME NEW j \in DOMAIN poll.jobs PROVE j = DisputeJob(j.id)
      <4>1. j \in Jobs /\ j.kind # "purchase" BY <1>3, <2>1 DEF purchasesLeft
      <4> QED BY <4>1 DEF Jobs, DisputeJob
    <3> QED BY <1>3, <3>1
  <2>3. ASSUME NEW i \in Sales
        PROVE  /\ verifying'[i] \in V
               /\ verifying'[i].at = "work" => verifying[i].at = "work"
    <3>1. verifying[i] \in V BY <1>4
    <3>2. CASE i \notin {j.id : j \in DOMAIN poll.jobs}
      <4>1. verifying'[i] = verifying[i] BY <2>1, <3>2
      <4> QED BY <3>1, <4>1
    <3>3. CASE i \in {j.id : j \in DOMAIN poll.jobs}
      <4>1. PICK at \in VerifierAt, n \in Nat :
              /\ verifying'[i] = [verifying[i] EXCEPT !.at = at, !.attempts = n]
              /\ at = "work" => verifying[i].at = "work"
        <5>1. poll.jobs[DisputeJob(i)] \in Nat BY <2>2, <3>3
        <5>2. (IF inFlight(i) THEN verifying[i].at ELSE "read") \in VerifierAt
          BY <3>1 DEF VerifierAt
        <5>3. (IF inFlight(i) THEN verifying[i].at ELSE "read") = "work" => verifying[i].at = "work"
          OBVIOUS
        <5>4. verifying'[i] = [verifying[i] EXCEPT !.at = IF inFlight(i) THEN verifying[i].at ELSE "read",
                                                   !.attempts = poll.jobs[DisputeJob(i)]]
          BY <2>1, <3>3
        <5> QED BY <5>1, <5>2, <5>3, <5>4
      <4> QED BY <3>1, <4>1
    <3> QED BY <3>2, <3>3
  <2>4. verifying' \in [Sales -> V]
    <3> HIDE DEF V
    <3>1. DOMAIN verifying' = Sales /\ verifying' = [i \in Sales |-> verifying'[i]] BY <2>1
    <3> QED BY <2>3, <3>1
  <2>5. MemoryTyped' BY <1>1, <2>1, <2>4 DEF Coherent, MemoryTyped
  <2>6. WatcherTyped'
    <3>1. /\ DOMAIN retry' \subseteq Jobs
          /\ \A j \in DOMAIN retry' : retry'[j] \in [attempts : Nat, ready : BOOLEAN]
      <4>1. DOMAIN retry' = DOMAIN retry \ DOMAIN poll.jobs BY <2>1
      <4>2. \A j \in DOMAIN retry' : retry'[j] = retry[j] BY <2>1
      <4> QED BY <1>3, <4>1, <4>2
    <3>2. poll' = Asleep /\ abandoned' = abandoned BY <2>1
    <3> QED BY <1>1, <1>3, <1>6, <3>1, <3>2 DEF WatcherTyped
  <2>7. DrainCoherent' BY <1>6, <2>1 DEF DrainCoherent, purchasesLeft
  <2>8. OneDelivery' BY <1>1, <2>1 DEF Coherent, OneDelivery
  <2>9. HandlersCoherent' BY <1>1, <2>1, <2>3 DEF Coherent, HandlersCoherent
  <2> QED BY <1>2, <2>5, <2>6, <2>7, <2>8, <2>9 DEF Coherent
<1>11. ASSUME NEW i \in Sales, verifierCaught(i) PROVE Coherent'
  <2> DEFINE j == DisputeJob(i)
  <2>1. /\ fail(j, verifying[i].attempts + 1) /\ verifying' = [verifying EXCEPT ![i] = NotVerifying]
        /\ UNCHANGED <<relay, poll>>
    BY <1>11 DEF verifierCaught
  <2>2. /\ j \in Jobs /\ j.kind = "dispute" /\ verifying[i].attempts + 1 \in Nat
        /\ \A k \in Sales : PurchaseJob(k) # j
    <3>1. verifying[i] \in V BY <1>4
    <3> QED BY <3>1 DEF Jobs, DisputeJob, PurchaseJob
  <2>3. /\ DOMAIN retry' \subseteq Jobs /\ \A k \in DOMAIN retry' : retry'[k] \in Tries
        /\ abandoned' \subseteq Jobs
        /\ \A k \in DOMAIN retry : k # j => k \in DOMAIN retry'
    <3>1. WatcherTyped BY DEF Coherent
    <3> DEFINE n == verifying[i].attempts + 1
    <3>2. n \in Nat /\ (fail(j, n) \/ (retry' = removed(j) /\ UNCHANGED abandoned)) BY <2>1, <2>2
    <3> HIDE DEF j, n
    <3> QED BY <2>2, <3>1, <3>2, FailTyped
  <2>4. NotVerifying \in V /\ NotVerifying.at = "idle" BY DEF NotVerifying, VerifierAt
  <2>5. /\ verifying' \in [Sales -> V]
        /\ \A k \in Sales : verifying'[k].at = "work" => verifying[k].at = "work"
    <3> HIDE DEF V
    <3> QED BY <1>4, <2>1, <2>4
  <2>6. MemoryTyped' BY <1>1, <2>1, <2>5 DEF Coherent, MemoryTyped
  <2>7. WatcherTyped' BY <1>1, <1>3, <2>1, <2>3 DEF WatcherTyped
  <2>8. DrainCoherent'
    <3> HIDE DEF j
    <3> QED BY <1>4, <1>5, <2>1, <2>2, <2>3 DEF DrainCoherent, purchasesLeft
  <2>9. OneDelivery' /\ HandlersCoherent'
    BY <1>1, <2>1, <2>5 DEF Coherent, OneDelivery, HandlersCoherent
  <2> QED BY <1>2, <2>6, <2>7, <2>8, <2>9 DEF Coherent
<1> QED BY <1>8, <1>9, <1>10, <1>11

\* A restart forgets the memory only.
LEMMA Crashing == ASSUME Coherent, crash PROVE Coherent'
<1>1. /\ UNCHANGED <<sale, mech, log, confirmed, txs, uploaded, deliveries, findings, blobs, served,
                     fresh, cursor, abandoned>>
      /\ relay' = Resting /\ verifying' = [i \in Sales |-> NotVerifying]
      /\ txq' = <<>> /\ sent' = 0 /\ poll' = Asleep /\ retry' = <<>>
  BY DEF crash, chainVars, diskVars
<1>2. /\ Resting \in [at : RelayAt, id : Sales \cup {None}, state : States, key : Int]
      /\ Resting.at = "idle"
  BY DEF Resting, RelayAt, States, None
<1>3. /\ NotVerifying \in [at : VerifierAt, status : {"None", "Voting", "Resolved"}, attempts : Nat]
      /\ NotVerifying.at = "idle"
  BY DEF NotVerifying, VerifierAt
<1>4. /\ Asleep.at = "idle" /\ Asleep.from = 0 /\ Asleep.head = 0 /\ DOMAIN Asleep.jobs = {}
      /\ Asleep = [at |-> "idle", from |-> 0, head |-> 0, jobs |-> Asleep.jobs]
  BY DEF Asleep
<1>5. ChainCoherent' /\ DiskTyped' /\ Records'
  BY <1>1
  DEF Coherent, ChainCoherent, ChainTyped, DiskTyped, Records, DeliveredMatchesRecord,
      NoKeyWithRefund, FindingOnRecord, RecordedOutcomeTrue
<1>6. MemoryTyped' BY <1>1, <1>2, <1>3 DEF Coherent, MemoryTyped
<1>7. QueueCoherent' /\ OneDelivery' BY <1>1 DEF Coherent, QueueCoherent, OneDelivery
<1>8. HandlersCoherent' BY <1>1, <1>2, <1>3 DEF Coherent, HandlersCoherent
<1>9. WatcherTyped' BY <1>1, <1>4 DEF Coherent, WatcherTyped
<1>10. DrainCoherent' BY <1>1, <1>2, <1>4 DEF DrainCoherent, purchasesLeft
<1> QED BY <1>5, <1>6, <1>7, <1>8, <1>9, <1>10 DEF Coherent

---------------------------------------------------------------------------
(* Theorems *)

\* The service starts coherent.
LEMMA InitCoherent == ASSUME Init PROVE Coherent
<1>1. /\ sale = [i \in Sales |-> [state |-> "None", key |-> None, late |-> FALSE]]
      /\ mech = [i \in Sales |-> [status |-> "None", ground |-> "BrokenOrHashMismatch",
                                  finding |-> None, late |-> FALSE]]
      /\ log = <<>> /\ confirmed = 0 /\ txs = <<>> /\ txq = <<>> /\ sent = 0
      /\ uploaded \in SUBSET Sales /\ blobs = {} /\ fresh = 0
      /\ deliveries = [i \in Sales |-> NoDelivery] /\ findings = [i \in Sales |-> NoFinding]
      /\ served = [i \in Sales |-> None] /\ relay = Resting
      /\ verifying = [i \in Sales |-> NotVerifying]
      /\ cursor = 0 /\ abandoned = {} /\ poll = Asleep /\ retry = <<>>
  BY DEF Init, ChainInit, HandlersInit, MemoryInit
<1>2. /\ NoDelivery \in Deliveries /\ NoDelivery.key = None /\ NoDelivery.status = "none"
      /\ NoFinding \in Findings /\ NoFinding.hash = None /\ NoFinding.tx = FALSE
      /\ Resting \in [at : RelayAt, id : Sales \cup {None}, state : States, key : Int]
      /\ Resting.at = "idle"
      /\ NotVerifying \in [at : VerifierAt, status : {"None", "Voting", "Resolved"}, attempts : Nat]
      /\ NotVerifying.at = "idle"
      /\ Asleep.at = "idle" /\ Asleep.from = 0 /\ Asleep.head = 0 /\ DOMAIN Asleep.jobs = {}
      /\ Asleep = [at |-> "idle", from |-> 0, head |-> 0, jobs |-> Asleep.jobs]
  BY DEF NoDelivery, NoFinding, Resting, NotVerifying, Asleep, Deliveries, Findings, RelayAt,
         VerifierAt, States, None
<1>3. ChainCoherent BY <1>1 DEF ChainCoherent, ChainTyped, States, TeeGrounds, None
<1>4. DiskTyped BY <1>1, <1>2 DEF DiskTyped, None
<1>5. MemoryTyped BY <1>1, <1>2, TeeChainOK DEF MemoryTyped
<1>6. QueueCoherent /\ OneDelivery BY <1>1 DEF QueueCoherent, OneDelivery
<1>7. HandlersCoherent BY <1>1, <1>2 DEF HandlersCoherent
<1>8. Records
  BY <1>1, <1>2
  DEF Records, DeliveredMatchesRecord, NoKeyWithRefund, FindingOnRecord, RecordedOutcomeTrue
<1>9. WatcherTyped BY <1>1, <1>2 DEF WatcherTyped
<1>10. DrainCoherent BY <1>1, <1>2 DEF DrainCoherent, purchasesLeft
<1> QED BY <1>3, <1>4, <1>5, <1>6, <1>7, <1>8, <1>9, <1>10 DEF Coherent

\* And every step keeps it so.
LEMMA NextCoherent == ASSUME Coherent, [Next]_vars PROVE Coherent'
<1>1. CASE UNCHANGED vars
  <2>1. UNCHANGED <<sale, mech, log, confirmed, txs, uploaded, deliveries, findings, blobs, served,
                   fresh, relay, verifying, txq, sent, cursor, poll, retry, abandoned, crashes>>
    BY <1>1 DEF vars, chainVars, handlerVars, diskVars, memoryVars, watcherVars
  <2> QED BY <2>1 DEF Coherent, ChainCoherent, ChainTyped, DiskTyped, MemoryTyped, QueueCoherent,
       OneDelivery, HandlersCoherent, Records, DeliveredMatchesRecord, NoKeyWithRefund,
       FindingOnRecord, RecordedOutcomeTrue, WatcherTyped, DrainCoherent, purchasesLeft
<1>2. CASE (OthersAct \/ Confirm \/ Mine) /\ UNCHANGED <<handlerVars, watcherVars>>
  BY <1>2, WorldSteps
<1>3. CASE Handling /\ UNCHANGED watcherVars
  <2>1. CASE RelaySteps BY <1>3, <2>1, RelayPreparing, RelaySigning DEF RelaySteps
  <2>2. CASE QueueSteps BY <1>3, <2>2, Queueing
  <2>3. ASSUME NEW i \in Sales, VerifierSteps(i) PROVE Coherent'
    BY <1>3, <2>3, VerifierGoesOn, VerifierFinding DEF VerifierSteps
  <2> QED BY <1>3, <2>1, <2>2, <2>3 DEF Handling
<1>4. CASE (\E i \in Sales : serveDelivery(i)) /\ UNCHANGED watcherVars BY <1>4, Serving
<1>5. CASE \/ pollStarts \/ scanChunk \/ scanFails \/ drainStarts
           \/ \E j \in Jobs : backOffOver(j)
  BY <1>5, Polling
<1>6. CASE \/ \E j \in Jobs : drainRelays(j)
           \/ relayReturns \/ drainDisputes \/ \E i \in Sales : verifierCaught(i)
  BY <1>6, Draining
<1>7. CASE crash BY <1>7, Crashing
<1> QED BY <1>1, <1>2, <1>3, <1>4, <1>5, <1>6, <1>7 DEF Next

\* Disk, memory and chain agree in every reachable state.
THEOREM AlwaysCoherent == Spec => []Coherent
BY InitCoherent, NextCoherent, PTL DEF Spec

\* Memory, disk and chain hold values of their types, whatever crashes and interleaves.
THEOREM TeeTypeCorrect == Spec => []TypeOK
<1>1. ASSUME Coherent PROVE TypeOK
  <2>1. ChainTyped /\ DiskTyped /\ MemoryTyped /\ WatcherTyped BY <1>1 DEF Coherent, ChainCoherent
  <2>2. /\ log \in Seq(Jobs) /\ confirmed \in 0..Len(log) /\ cursor \in 0..Len(log)
        /\ DOMAIN retry \subseteq Jobs /\ abandoned \subseteq Jobs
    BY <2>1 DEF WatcherTyped
  <2>3. Len(txs) <= MaxTxs /\ sent \in 0..Len(txs) BY <2>1 DEF MemoryTyped
  <2>4. /\ deliveries \in [Sales -> Deliveries] /\ findings \in [Sales -> Findings]
        /\ uploaded \subseteq Sales /\ served \in [Sales -> Int]
    BY <2>1 DEF DiskTyped
  <2> QED BY <2>1, <2>2, <2>3, <2>4 DEF ChainTyped, Deliveries, Findings, TypeOK
<1> QED BY <1>1, AlwaysCoherent, PTL

\* A key this relay put on chain is the one on its disk (the relay's record is never
\* replaced, so a transaction mined late still carries it).
THEOREM DeliveriesMatchRecords == Spec => []DeliveredMatchesRecord
<1>1. Coherent => DeliveredMatchesRecord BY DEF Coherent, Records
<1> QED BY <1>1, AlwaysCoherent, PTL

\* Nobody downloads the key of a purchase that is, or will be, refunded as undelivered.
THEOREM KeysServedOnceDelivered == Spec => []NoKeyWithRefund
<1>1. Coherent => NoKeyWithRefund BY DEF Coherent, Records
<1> QED BY <1>1, AlwaysCoherent, PTL

\* A finding on chain is on disk and published: one verification, one result.
THEOREM FindingsRecorded == Spec => []FindingOnRecord
<1>1. Coherent => FindingOnRecord BY DEF Coherent, Records
<1> QED BY <1>1, AlwaysCoherent, PTL

\* "delivered" and a finding's transaction on disk mean that the chain has them: the
\* queue answers each handler about its own call.
THEOREM OutcomesRecordedTruly == Spec => []RecordedOutcomeTrue
<1>1. Coherent => RecordedOutcomeTrue BY DEF Coherent, Records
<1> QED BY <1>1, AlwaysCoherent, PTL
=============================================================================
