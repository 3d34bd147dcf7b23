---------------------------- MODULE PreviewRunner ----------------------------
(***************************************************************************)
(* The preview runner of the TEE: quotes, the check of the payment, the    *)
(* run of the panel or its copy from the cache, signing and attaching.  A  *)
(* step ends where the code awaits; runs are lost in a crash, the signed   *)
(* report and the cache are on disk.                                       *)
(***************************************************************************)
EXTENDS PreviewChain

CONSTANTS
  ContentOf,   \* version -> its bundle and audit tasks
  Panels,      \* resolutions of the panel: the models that serve now
  NoModels     \* the one in which none does, as when the model list cannot be had

ASSUME PreviewRunnerOK == NoModels \in Panels /\ DOMAIN ContentOf = Versions

VARIABLES
  panel,       \* the resolution the service would get now
  cache,       \* disk: content and panel of the runs that can be reused
  stored,      \* disk: version -> its signed report
  job,         \* memory: version -> the run under way
  signed,      \* version -> reports signed for it so far
  evaluated    \* version -> runs of the harness begun for it

runnerVars == <<panel, cache, stored, job, signed, evaluated>>
diskVars == <<cache, stored, signed, evaluated>>

Contents == {ContentOf[v] : v \in Versions}
Key(v, p) == <<ContentOf[v], p>>
Keys == Contents \X (Panels \ {NoModels})

Stages == {"idle", "terms", "payment", "deadline", "inferring", "signing", "attaching", "finishing"}
NoJob == [stage |-> "idle", panel |-> NoModels, hit |-> FALSE, quote |-> "foreign", infra |-> FALSE]
Jobs == [stage : Stages, panel : Panels, hit : BOOLEAN, quote : Quotes, infra : BOOLEAN]

RunnerInit ==
  /\ panel \in Panels /\ cache = {}
  /\ stored = [v \in Versions |-> NoReport] /\ job = [v \in Versions |-> NoJob]
  /\ signed = [v \in Versions |-> 0] /\ evaluated = [v \in Versions |-> 0]

RunnerTypeOK ==
  /\ panel \in Panels /\ cache \in SUBSET Keys /\ stored \in [Versions -> Nat]
  /\ job \in [Versions -> Jobs] /\ signed \in [Versions -> Nat] /\ evaluated \in [Versions -> Nat]

---------------------------------------------------------------------------
(* Quotes and payment *)

\* Nothing to run: a report or a reusable run is there, or no model can be had.
quotePreview(v) ==
  IF stored[v] # NoReport \/ Key(v, panel) \in cache \/ panel = NoModels THEN "minimal" ELSE "full"

PaymentOK(v) == Outstanding(v) /\ request[v].quote # "foreign" /\ request[v].inTime

\* estimateRunSec against the deadline: the episodes are those of the quote.
Fits(v, quote, hit) ==
  request[v].clock = "early" \/ (request[v].clock = "short" /\ (hit \/ quote = "minimal"))

Preconditions(v) ==
  /\ attached[v] = NoReport /\ PaymentOK(v)
  /\ Fits(v, request[v].quote, Key(v, panel) \in cache)

---------------------------------------------------------------------------
(* The run of a version *)

goes(v, stage) == job' = [job EXCEPT ![v].stage = stage]
ends(v) == job' = [job EXCEPT ![v] = NoJob]

\* Mutant: the caller's look at the stored reports, before its awaits, is enough.
previewVersion_staleCheck(v) == IF job[v].stage # "idle" THEN UNCHANGED job ELSE goes(v, "terms")

\* One run per version: a report is there, or a run is joined, or one starts.
previewVersion(v) ==
  IF stored[v] # NoReport \/ job[v].stage # "idle" THEN UNCHANGED job ELSE goes(v, "terms")

checkTerms(v) ==
  /\ job[v].stage = "terms"
  /\ IF attached[v] # NoReport THEN ends(v)
     ELSE job' = [job EXCEPT ![v].stage = "payment", ![v].panel = panel, ![v].hit = Key(v, panel) \in cache]
  /\ UNCHANGED <<chainVars, panel, diskVars>>

requirePaidPreview(v) ==
  /\ job[v].stage = "payment"
  /\ IF PaymentOK(v) THEN job' = [job EXCEPT ![v].stage = "deadline", ![v].quote = request[v].quote]
     ELSE ends(v)
  /\ UNCHANGED <<chainVars, panel, diskVars>>

starts(v) ==
  IF job[v].hit THEN goes(v, "signing") /\ UNCHANGED evaluated
  ELSE goes(v, "inferring") /\ evaluated' = [evaluated EXCEPT ![v] = evaluated[v] + 1]

\* Mutant: the deadline is not looked at.
requireTime_skipped(v) ==
  /\ job[v].stage = "deadline" /\ starts(v)
  /\ UNCHANGED <<chainVars, panel, cache, stored, signed>>

requireTime(v) ==
  /\ job[v].stage = "deadline"
  /\ IF Fits(v, job[v].quote, job[v].hit) THEN starts(v) ELSE ends(v) /\ UNCHANGED evaluated
  /\ UNCHANGED <<chainVars, panel, cache, stored, signed>>

\* Episodes that the infrastructure failed are reported, and keep the run out of the cache.
runFresh(v) ==
  /\ job[v].stage = "inferring"
  /\ \E infra \in BOOLEAN : job' = [job EXCEPT ![v].stage = "signing", ![v].infra = infra]
  /\ UNCHANGED <<chainVars, panel, diskVars>>

\* Mutant: the report is written when it has been attached.
signReport_unsaved(v) ==
  /\ job[v].stage = "signing" /\ goes(v, "attaching")
  /\ signed' = [signed EXCEPT ![v] = signed[v] + 1]
  /\ UNCHANGED <<chainVars, panel, cache, stored, evaluated>>

\* Signed and on disk before anything else happens to it.
signReport(v) ==
  /\ job[v].stage = "signing" /\ goes(v, "attaching")
  /\ signed' = [signed EXCEPT ![v] = signed[v] + 1]
  /\ stored' = [stored EXCEPT ![v] = signed[v] + 1]
  /\ UNCHANGED <<chainVars, panel, cache, evaluated>>

attach(v) ==
  /\ job[v].stage = "attaching" /\ goes(v, "finishing")
  /\ IF attached[v] # NoReport THEN UNCHANGED chainVars
     ELSE LET t == AttachTx(v, signed[v]) IN succeeds(t) \/ refused(t) \/ givenUp(t)
  /\ UNCHANGED <<panel, diskVars>>

Reusable(v) == ~job[v].hit /\ ~job[v].infra /\ job[v].panel # NoModels

finish(v) ==
  /\ job[v].stage = "finishing" /\ ends(v)
  /\ stored' = [stored EXCEPT ![v] = signed[v]]
  /\ cache' = IF Reusable(v) THEN cache \cup {Key(v, job[v].panel)} ELSE cache
  /\ UNCHANGED <<chainVars, panel, signed, evaluated>>

\* Anything but the attaching may fail, and ends the run.
runFails(v) ==
  /\ job[v].stage \notin {"idle", "attaching"} /\ ends(v)
  /\ fault /\ UNCHANGED <<request, attached, late, panel, diskVars>>

jobStep(v) == \/ checkTerms(v) \/ requirePaidPreview(v) \/ requireTime(v) \/ runFresh(v)
              \/ signReport(v) \/ attach(v) \/ finish(v) \/ runFails(v)

---------------------------------------------------------------------------
\* POST /preview/:id/attach, by anyone.
attachStoredReport(v) ==
  /\ stored[v] # NoReport /\ attached[v] = NoReport
  /\ LET t == AttachTx(v, stored[v]) IN succeeds(t) \/ refused(t) \/ givenUp(t)
  /\ UNCHANGED runnerVars

\* A run made elsewhere by a trusted signer.
importSealed(k) ==
  /\ k \in Keys \ cache /\ cache' = cache \cup {k}
  /\ UNCHANGED <<chainVars, panel, stored, job, signed, evaluated>>

modelsChange ==
  panel' \in Panels \ {panel} /\ UNCHANGED <<chainVars, diskVars, job>>
=============================================================================
