------------------------------- MODULE TeeChain -------------------------------
(***************************************************************************)
(* The market as the TEE service sees it: the states of the purchases it   *)
(* delivers and of the mechanical disputes it decides, the event log it    *)
(* scans, and the transactions it has sent.  EnvMarket specifies the same  *)
(* contract in full; here a deadline is a flag the clock raises, and a     *)
(* dispute has the number of its purchase.                                 *)
(***************************************************************************)
EXTENDS Integers, Sequences, FiniteSets

CONSTANTS
  Sales,       \* the purchases, and the mechanical disputes about them
  OtherRelay,  \* whether some other key also holds the relay role
  MaxTxs       \* bound: transactions the service sends

ASSUME TeeChainOK == OtherRelay \in BOOLEAN /\ MaxTxs \in Nat

VARIABLES
  sale,        \* purchase -> state, wrapped key on record, delivery deadline passed
  mech,        \* dispute -> status, ground, finding on record, verifier deadline passed
  log,         \* Purchased and DisputeOpened events, in block order
  confirmed,   \* how many of them are deep enough to be scanned
  txs          \* the service's transactions, in the order of their nonces

chainVars == <<sale, mech, log, confirmed, txs>>

\* Wrapped keys and findings are numbered as they are made (random nonce, time stamp).
None == 0
ForeignKey == -1   \* a key delivered by another relay

States == {"None", "Funded", "Delivered", "Disputed", "Refunded", "Settled"}
TeeGrounds == {"BrokenOrHashMismatch", "PreviewNotReproducible"}
Jobs == [kind : {"purchase", "dispute"}, id : Sales]
PurchaseJob(i) == [kind |-> "purchase", id |-> i]
DisputeJob(i) == [kind |-> "dispute", id |-> i]

ChainInit ==
  /\ sale = [i \in Sales |-> [state |-> "None", key |-> None, late |-> FALSE]]
  /\ mech = [i \in Sales |-> [status |-> "None", ground |-> "BrokenOrHashMismatch",
                              finding |-> None, late |-> FALSE]]
  /\ log = <<>> /\ confirmed = 0 /\ txs = <<>>

---------------------------------------------------------------------------
(* What the service's own calls do *)

Funded(i) == sale[i].state = "Funded" /\ ~sale[i].late

\* A call does not revert.
Accepted(c) ==
  \/ c.fn = "recordDelivery" /\ Funded(c.id)
  \/ c.fn = "resolveMechanical" /\ mech[c.id].status = "Voting"

recordDelivery(i, k) ==
  /\ sale' = [sale EXCEPT ![i].state = "Delivered", ![i].key = k]
  /\ UNCHANGED mech

resolveMechanical(i, f) ==
  /\ mech' = [mech EXCEPT ![i].status = "Resolved", ![i].finding = f]
  /\ sale' = [sale EXCEPT ![i].state = "Settled"]

\* The next transaction of the account is included; one that reverts is included too.
Mine ==
  \E n \in DOMAIN txs :
    /\ txs[n].status = "pending" /\ \A m \in 1..n-1 : txs[m].status # "pending"
    /\ LET c == txs[n].call IN
       \/ /\ Accepted(c)
          /\ \/ c.fn = "recordDelivery" /\ recordDelivery(c.id, c.arg)
             \/ c.fn = "resolveMechanical" /\ resolveMechanical(c.id, c.arg)
          /\ txs' = [txs EXCEPT ![n].status = "success"]
       \/ /\ ~Accepted(c)
          /\ txs' = [txs EXCEPT ![n].status = "reverted"]
          /\ UNCHANGED <<sale, mech>>
    /\ UNCHANGED <<log, confirmed>>

---------------------------------------------------------------------------
(* What everybody else does *)

buy(i) ==
  /\ sale[i].state = "None"
  /\ sale' = [sale EXCEPT ![i].state = "Funded"]
  /\ log' = Append(log, PurchaseJob(i))
  /\ UNCHANGED <<mech, confirmed, txs>>

deliveryDeadlinePasses(i) ==
  /\ Funded(i)
  /\ sale' = [sale EXCEPT ![i].late = TRUE]
  /\ UNCHANGED <<mech, log, confirmed, txs>>

refundUndelivered(i) ==
  /\ sale[i].state = "Funded" /\ sale[i].late
  /\ sale' = [sale EXCEPT ![i].state = "Refunded"]
  /\ UNCHANGED <<mech, log, confirmed, txs>>

deliveredByOther(i) ==
  /\ OtherRelay /\ Funded(i)
  /\ recordDelivery(i, ForeignKey)
  /\ UNCHANGED <<log, confirmed, txs>>

finalize(i) ==
  /\ sale[i].state = "Delivered"
  /\ sale' = [sale EXCEPT ![i].state = "Settled"]
  /\ UNCHANGED <<mech, log, confirmed, txs>>

openDispute(i, g) ==
  /\ sale[i].state = "Delivered"
  /\ sale' = [sale EXCEPT ![i].state = "Disputed"]
  /\ mech' = [mech EXCEPT ![i].status = "Voting", ![i].ground = g]
  /\ log' = Append(log, DisputeJob(i))
  /\ UNCHANGED <<confirmed, txs>>

verifierDeadlinePasses(i) ==
  /\ mech[i].status # "None" /\ ~mech[i].late
  /\ mech' = [mech EXCEPT ![i].late = TRUE]
  /\ UNCHANGED <<sale, log, confirmed, txs>>

timeoutMechanical(i) ==
  /\ mech[i].status = "Voting" /\ mech[i].late
  /\ mech' = [mech EXCEPT ![i].status = "Resolved"]
  /\ sale' = [sale EXCEPT ![i].state = "Settled"]
  /\ UNCHANGED <<log, confirmed, txs>>

\* Another block: an event is two blocks deep.
Confirm ==
  /\ confirmed < Len(log) /\ confirmed' = confirmed + 1
  /\ UNCHANGED <<sale, mech, log, txs>>

OthersAct ==
  \/ \E i \in Sales :
       \/ buy(i) \/ deliveryDeadlinePasses(i) \/ refundUndelivered(i) \/ deliveredByOther(i)
       \/ finalize(i) \/ verifierDeadlinePasses(i) \/ timeoutMechanical(i)
       \/ \E g \in TeeGrounds : openDispute(i, g)
=============================================================================
