----------------------------- MODULE PreviewChain -----------------------------
(***************************************************************************)
(* The market as the preview of a version sees it: the request that pays   *)
(* for it and the report attached to it.  EnvMarketListings specifies      *)
(* these calls in full; here a fee is known by the quote it was paid on,   *)
(* and the time left before the deadline by what still fits in it.         *)
(***************************************************************************)
EXTENDS Integers, FiniteSets

CONSTANTS
  Versions,    \* listed versions whose bundle is uploaded
  MaxFaults    \* bound: crashes, failed or refused requests, transactions given up

ASSUME PreviewChainOK == MaxFaults \in Nat

VARIABLES
  request,     \* version -> its preview request
  attached,    \* version -> number of the report attached to it
  late,        \* transactions whose sender gave up, still to be included or dropped
  faults       \* faults so far

chainVars == <<request, attached, late, faults>>

NoReport == 0
OtherReport == -1    \* a report of another runner
Reports == Nat \cup {OtherReport}

\* A quote prices the whole panel or, if nothing has to run, is the minimum; a foreign
\* quote hash is not one of this service.
Quotes == {"full", "minimal", "foreign"}
Requests == [state : {"none", "paid", "reclaimed"}, quote : Quotes, inTime : BOOLEAN,
             clock : {"early", "short", "late"}]
Txs == [fn : {"requestPreview"}, version : Versions, quote : Quotes]
         \cup [fn : {"attachReport"}, version : Versions, report : Nat \ {0}]

ChainInit ==
  /\ request = [v \in Versions |-> [state |-> "none", quote |-> "foreign", inTime |-> TRUE, clock |-> "early"]]
  /\ attached = [v \in Versions |-> NoReport]
  /\ late = {} /\ faults = 0

ChainTypeOK == /\ request \in [Versions -> Requests] /\ attached \in [Versions -> Reports]
               /\ late \in SUBSET Txs /\ faults \in 0..MaxFaults

fault == faults < MaxFaults /\ faults' = faults + 1
noFault == UNCHANGED faults

Outstanding(v) == request[v].state = "paid" /\ attached[v] = NoReport

---------------------------------------------------------------------------
(* Calls *)

requestPreview(v, q, inTime) ==
  /\ request[v].state # "paid" /\ attached[v] = NoReport
  /\ request' = [request EXCEPT ![v] = [state |-> "paid", quote |-> q, inTime |-> inTime, clock |-> "early"]]
  /\ UNCHANGED attached

attachReport(v, r) ==
  Outstanding(v) /\ attached' = [attached EXCEPT ![v] = r] /\ UNCHANGED request

reclaimPreviewFee(v) ==
  /\ Outstanding(v) /\ request[v].clock = "late"
  /\ request' = [request EXCEPT ![v].state = "reclaimed"] /\ UNCHANGED <<attached, late, faults>>

RequestTx(v, q) == [fn |-> "requestPreview", version |-> v, quote |-> q]
AttachTx(v, r) == [fn |-> "attachReport", version |-> v, report |-> r]

execute(t) ==
  \/ t.fn = "requestPreview" /\ requestPreview(t.version, t.quote, TRUE)
  \/ t.fn = "attachReport" /\ attachReport(t.version, t.report)
Reverts(t) ==
  \/ t.fn = "attachReport" /\ ~Outstanding(t.version)
  \/ t.fn = "requestPreview" /\ (request[t.version].state = "paid" \/ attached[t.version] # NoReport)

\* Simulate, send, wait for the receipt.  What the simulation read can only be outdated
\* for a transaction that then reverts, so the call happens when it is included.
succeeds(t) == execute(t) /\ UNCHANGED <<late, faults>>
refused(t) == Reverts(t) /\ UNCHANGED chainVars
givenUp(t) == fault /\ late' \in {late, late \cup {t}} /\ UNCHANGED <<request, attached>>

\* A transaction given up is included after all; a payment then possibly after its quote expired.
mineLate(t) ==
  /\ t \in late /\ late' = late \ {t} /\ noFault
  /\ \/ Reverts(t) /\ UNCHANGED <<request, attached>>
     \/ t.fn = "attachReport" /\ attachReport(t.version, t.report)
     \/ \E inTime \in BOOLEAN : t.fn = "requestPreview" /\ requestPreview(t.version, t.quote, inTime)

---------------------------------------------------------------------------
(* Others, and time *)

\* The seller may as well pay on the quote of another runner, which may then attach.
requestElsewhere(v) == requestPreview(v, "foreign", TRUE) /\ UNCHANGED <<late, faults>>
otherAttaches(v) ==
  request[v].quote = "foreign" /\ attachReport(v, OtherReport) /\ UNCHANGED <<late, faults>>

\* Any time may go by between two steps of the others.
Later == [early |-> {"short", "late"}, short |-> {"late"}]
TimePasses(v) ==
  /\ request[v].state = "paid" /\ request[v].clock \in DOMAIN Later
  /\ \E c \in Later[request[v].clock] : request' = [request EXCEPT ![v].clock = c]
  /\ UNCHANGED <<attached, late, faults>>

OthersAct == \E v \in Versions : reclaimPreviewFee(v) \/ requestElsewhere(v) \/ otherAttaches(v) \/ TimePasses(v)
=============================================================================
