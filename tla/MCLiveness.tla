----------------------------- MODULE MCLiveness -----------------------------
(***************************************************************************)
(* Liveness: one purchase, every ground, jurors, verifier and relay free   *)
(* to stay silent.  The clock runs only while a guard waits for it (the    *)
(* later blocks would change nothing), so it stays finite without a bound  *)
(* that could itself stop a deadline from passing.  BLOCKHASH_WINDOW is    *)
(* larger than the whole run: somebody calls selectJurors within 256       *)
(* blocks of the selection block, else it re-arms and the wait starts over.*)
(***************************************************************************)
EXTENDS MCMarket

CONSTANT ManagedJuror

Waiting ==
  \/ \E i \in PurchaseId : LET p == purchases[i] IN
       \/ p.state = "Funded" /\ timestamp <= p.deliveryDeadline
       \/ p.state = "Delivered" /\ timestamp <= p.challengeDeadline
  \/ \E d \in DisputeId : LET dd == disputes[d] IN
       \/ Mechanical(d) /\ dd.status = "Voting" /\ timestamp <= dd.verifierDeadline
       \/ Jury(d, "Voting") /\ timestamp <= dd.revealDeadline
       \/ Jury(d, "AwaitingSelection")
            /\ (blockNumber <= dd.selectionBlock \/ timestamp <= dd.selectionDeadline)

(***************************************************************************)
(* A second scenario is for the pages of sellers and jurors alone: nothing *)
(* is bought, a second version gets its preview and report, the owner      *)
(* moves the parameters and takes back a juror's approval.                 *)
(***************************************************************************)
ManagedParams == {P1, P3}

ManagingNext ==
  \/ NewBlock /\ blockNumber < 4
  \/ /\ nextVersionId = 2
     /\ \/ \E t \in TermChoices : newVersion(seller, 1, t)
        \/ approveJuror(ManagedJuror, FALSE)
        \/ \E n \in Amounts : depositJurorStake(ManagedJuror, n) \/ withdrawJurorStake(ManagedJuror, n)
  \/ \E s \in Signers : setRunner(s, TRUE) \/ attachReport(2, s)
  \/ reclaimPreviewFee(2) \/ \E f \in PreviewFees : requestPreview(2, f)
  \/ /\ versions[2].report
     /\ \/ \E b \in ActiveChoices : setVersionActive(2, b)
        \/ \E q \in ParamChoices : setParams(q)
        \/ \E n \in Amounts : depositCollateral(seller, n) \/ withdrawCollateral(seller, n)
  \/ withdraw(seller)

LiveNext ==
  \/ Scenario = "two purchases" /\ ((NewBlock /\ Waiting) \/ Purchasing \/ Deciding)
  \/ Scenario = "settlement" /\ ManagingNext

LiveSpec ==
  /\ ListedInit(10, 1) \/ ListedInit(7, 2)
  /\ [][LiveNext]_vars
  /\ WF_vars(NewBlock /\ Waiting)
  /\ SomebodyCalls
=============================================================================
