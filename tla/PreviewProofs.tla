---------------------------- MODULE PreviewProofs ----------------------------
(***************************************************************************)
(* Type correctness and the safety of the preview service, for any number  *)
(* of versions, panels and faults.  What makes it inductive: a run that    *)
(* has not signed found no report, so a report on disk is never replaced   *)
(* and whoever holds one holds that one; what was begun and not signed was *)
(* lost to a fault; and a fee that was taken back is past its deadline.    *)
(***************************************************************************)
EXTENDS PreviewService, TLAPS

\* Whoever holds a report of a version, on chain or about to attach it, holds the stored
\* one, and fees are reclaimed past their deadline only.
ChainSound ==
  /\ \A v \in Versions : request[v].state = "reclaimed" => request[v].clock = "late"
  /\ AttachedIsStored
  /\ \A t \in late : t.fn = "attachReport" => t.report = stored[t.version]

SellerSound ==
  \A v \in Versions : seller[v].stage = "verified" => stored[v] # 0 /\ seller[v].report = stored[v]

Unsigned == {"terms", "payment", "deadline", "inferring", "signing"}
NotBegun == {"idle", "terms", "payment", "deadline"}

JobSound(v) ==
  /\ stored[v] = signed[v]
  /\ job[v].stage \in Unsigned => stored[v] = 0
  /\ job[v].stage \in {"attaching", "finishing"} => stored[v] # 0
  /\ job[v].stage = "deadline" => request[v].state # "none"
  /\ evaluated[v] <= 1 + faults
  /\ stored[v] = 0 /\ job[v].stage \in NotBegun => evaluated[v] <= faults
JobsSound == \A v \in Versions : JobSound(v)

SellerTypeOK == asking \in [Versions -> SUBSET Callers] /\ seller \in [Versions -> SellerStates]

IInv == TypeOK /\ ChainSound /\ SellerSound /\ JobsSound

---------------------------------------------------------------------------
(* The market: whatever it does, requests are not forgotten.               *)

ChainGrows ==
  /\ faults' \in Nat /\ faults <= faults'
  /\ \A v \in Versions : request[v].state # "none" => request'[v].state # "none"

Good(t) == t \in Txs /\ (t.fn = "attachReport" => t.report = stored[t.version])

CallSound ==
  /\ request' \in [Versions -> Requests] /\ attached' \in [Versions -> Reports]
  /\ \A w \in Versions : /\ request'[w].state = "reclaimed" => request'[w].clock = "late"
                         /\ request[w].state # "none" => request'[w].state # "none"
  /\ AttachedIsStored'

LEMMA RequestsTyped ==
  ASSUME ChainTypeOK
  PROVE  /\ \A v \in Versions : /\ request[v] \in Requests
                                /\ request[v].state \in {"none", "paid", "reclaimed"}
                                /\ request[v].clock \in {"early", "short", "late"}
                                /\ attached[v] \in Reports
         /\ faults \in Nat /\ MaxFaults \in Nat
BY PreviewChainOK DEF ChainTypeOK, Requests

LEMMA RequestMade ==
  ASSUME ChainTypeOK, ChainSound, NEW v \in Versions, NEW q \in Quotes, NEW inTime \in BOOLEAN,
         requestPreview(v, q, inTime), stored' = stored
  PROVE  /\ request' \in [Versions -> Requests] /\ attached' = attached
         /\ \A w \in Versions : /\ request'[w].state = "reclaimed" => request'[w].clock = "late"
                                /\ request[w].state # "none" => request'[w].state # "none"
<1> DEFINE r == [state |-> "paid", quote |-> q, inTime |-> inTime, clock |-> "early"]
<1>1. r \in Requests /\ r.state = "paid" BY DEF Requests
<1>2. request' = [request EXCEPT ![v] = r] /\ attached' = attached BY DEF requestPreview
<1> HIDE DEF r
<1>3. request \in [Versions -> Requests] BY DEF ChainTypeOK
<1>4. \A w \in Versions : request'[w] = IF w = v THEN r ELSE request[w] BY <1>2, <1>3
<1>5. request' \in [Versions -> Requests] BY <1>1, <1>2, <1>3
<1> QED BY <1>1, <1>2, <1>4, <1>5 DEF ChainSound

LEMMA ReportAttached ==
  ASSUME ChainTypeOK, ChainSound, NEW v \in Versions, NEW r \in Reports,
         r \in Nat => r = stored[v], attachReport(v, r), stored' = stored
  PROVE  /\ request' = request /\ attached' \in [Versions -> Reports] /\ AttachedIsStored'
<1>1. attached' = [attached EXCEPT ![v] = r] /\ request' = request BY DEF attachReport
<1>2. attached \in [Versions -> Reports] BY DEF ChainTypeOK
<1>3. \A w \in Versions : attached'[w] = IF w = v THEN r ELSE attached[w] BY <1>1, <1>2
<1>4. attached' \in [Versions -> Reports] BY <1>1, <1>2
<1> QED BY <1>1, <1>3, <1>4 DEF AttachedIsStored, ChainSound

LEMMA Executed ==
  ASSUME ChainTypeOK, ChainSound, NEW t, Good(t), execute(t), stored' = stored
  PROVE  CallSound
<1>1. CASE t.fn = "requestPreview" /\ requestPreview(t.version, t.quote, TRUE)
  <2>1. t.version \in Versions /\ t.quote \in Quotes BY <1>1 DEF Good, Txs
  <2>2. requestPreview(t.version, t.quote, TRUE) BY <1>1
  <2> QED BY <2>1, <2>2, RequestMade DEF CallSound, AttachedIsStored, ChainSound, ChainTypeOK
<1>2. CASE t.fn = "attachReport" /\ attachReport(t.version, t.report)
  <2>1. t.version \in Versions /\ t.report \in Reports BY <1>2 DEF Good, Txs, Reports
  <2>2. t.report = stored[t.version] BY <1>2 DEF Good
  <2> QED BY <1>2, <2>1, <2>2, ReportAttached DEF CallSound, ChainSound, ChainTypeOK
<1> QED BY <1>1, <1>2 DEF execute

\* A transaction sent, from simulation to receipt.
LEMMA Sent ==
  ASSUME ChainTypeOK, ChainSound, NEW t, Good(t), succeeds(t) \/ refused(t) \/ givenUp(t),
         stored' = stored
  PROVE  ChainTypeOK' /\ ChainSound' /\ ChainGrows
<1>0. faults \in Nat /\ MaxFaults \in Nat BY RequestsTyped
<1>1. CASE succeeds(t)
  <2>1. execute(t) /\ late' = late /\ faults' = faults BY <1>1 DEF succeeds
  <2> QED BY <1>0, <2>1, Executed DEF CallSound, ChainTypeOK, ChainSound, ChainGrows
<1>2. CASE refused(t)
  BY <1>0, <1>2 DEF refused, chainVars, ChainTypeOK, ChainSound, AttachedIsStored, ChainGrows
<1>3. CASE givenUp(t)
  <2>1. /\ request' = request /\ attached' = attached /\ faults < MaxFaults /\ faults' = faults + 1
        /\ late' = late \/ late' = late \cup {t}
    BY <1>3 DEF givenUp, fault
  <2>2. late' \in SUBSET Txs BY <2>1 DEF ChainTypeOK, Good
  <2>3. \A u \in late' : u.fn = "attachReport" => u.report = stored[u.version]
    BY <2>1 DEF ChainSound, Good
  <2>4. faults' \in 0..MaxFaults /\ faults' \in Nat /\ faults <= faults' BY <1>0, <2>1
  <2>5. ChainTypeOK' BY <2>1, <2>2, <2>4 DEF ChainTypeOK
  <2>6. ChainSound' BY <2>1, <2>3 DEF ChainSound, AttachedIsStored
  <2> QED BY <2>1, <2>4, <2>5, <2>6 DEF ChainGrows
<1> QED BY <1>1, <1>2, <1>3

LEMMA MinedLate ==
  ASSUME ChainTypeOK, ChainSound, NEW t, mineLate(t), stored' = stored
  PROVE  ChainTypeOK' /\ ChainSound' /\ ChainGrows
<1>0. faults \in Nat BY RequestsTyped
<1>1. t \in late /\ late' = late \ {t} /\ faults' = faults BY DEF mineLate, noFault
<1>2. Good(t) BY <1>1 DEF ChainTypeOK, ChainSound, Good
<1>3. late' \in SUBSET Txs /\ \A u \in late' : u.fn = "attachReport" => u.report = stored'[u.version]
  BY <1>1 DEF ChainTypeOK, ChainSound
<1>4. CallSound
  <2>1. CASE request' = request /\ attached' = attached
    BY <2>1 DEF CallSound, ChainTypeOK, ChainSound, AttachedIsStored
  <2>2. CASE t.fn = "attachReport" /\ attachReport(t.version, t.report)
    BY <1>2, <2>2, Executed DEF execute
  <2>3. ASSUME NEW inTime \in BOOLEAN, t.fn = "requestPreview", requestPreview(t.version, t.quote, inTime)
        PROVE  CallSound
    <3>1. t.version \in Versions /\ t.quote \in Quotes BY <1>2, <2>3 DEF Good, Txs
    <3> QED BY <2>3, <3>1, RequestMade DEF CallSound, AttachedIsStored, ChainSound, ChainTypeOK
  <2> QED BY <2>1, <2>2, <2>3 DEF mineLate
<1> QED BY <1>0, <1>1, <1>3, <1>4 DEF CallSound, ChainTypeOK, ChainSound, ChainGrows

LEMMA MarketSteps ==
  ASSUME ChainTypeOK, ChainSound, MarketActs
  PROVE  ChainTypeOK' /\ ChainSound' /\ ChainGrows
<1>0. faults \in Nat /\ request \in [Versions -> Requests] /\ stored' = stored
  BY RequestsTyped DEF MarketActs, runnerVars, ChainTypeOK
<1>1. ASSUME NEW v \in Versions, reclaimPreviewFee(v) PROVE ChainTypeOK' /\ ChainSound' /\ ChainGrows
  <2> DEFINE r == [request[v] EXCEPT !.state = "reclaimed"]
  <2>1. r \in Requests /\ r.state = "reclaimed" /\ r.clock = "late"
    BY <1>0, <1>1 DEF reclaimPreviewFee, Requests
  <2>2. request' = [request EXCEPT ![v] = r] BY <1>1 DEF reclaimPreviewFee
  <2>3. attached' = attached /\ late' = late /\ faults' = faults BY <1>1 DEF reclaimPreviewFee
  <2> HIDE DEF r
  <2>4. \A w \in Versions : request'[w] = IF w = v THEN r ELSE request[w] BY <1>0, <2>2
  <2>5. request' \in [Versions -> Requests] BY <1>0, <2>1, <2>2
  <2> QED BY <1>0, <2>1, <2>3, <2>4, <2>5 DEF ChainTypeOK, ChainSound, AttachedIsStored, ChainGrows
<1>2. ASSUME NEW v \in Versions, requestElsewhere(v) PROVE ChainTypeOK' /\ ChainSound' /\ ChainGrows
  <2>1. requestPreview(v, "foreign", TRUE) /\ late' = late /\ faults' = faults
    BY <1>2 DEF requestElsewhere
  <2>2. "foreign" \in Quotes BY DEF Quotes
  <2>3. TRUE \in BOOLEAN OBVIOUS
  <2>4. /\ request' \in [Versions -> Requests] /\ attached' = attached
        /\ \A w \in Versions : /\ request'[w].state = "reclaimed" => request'[w].clock = "late"
                               /\ request[w].state # "none" => request'[w].state # "none"
    BY <1>0, <2>1, <2>2, <2>3, RequestMade
  <2> QED BY <1>0, <2>1, <2>4 DEF ChainTypeOK, ChainSound, AttachedIsStored, ChainGrows
<1>3. ASSUME NEW v \in Versions, otherAttaches(v) PROVE ChainTypeOK' /\ ChainSound' /\ ChainGrows
  <2>1. attachReport(v, OtherReport) /\ late' = late /\ faults' = faults BY <1>3 DEF otherAttaches
  <2>2. OtherReport \in Reports /\ OtherReport \notin Nat BY DEF OtherReport, Reports
  <2> QED BY <1>0, <2>1, <2>2, ReportAttached DEF ChainTypeOK, ChainSound, ChainGrows
<1>4. ASSUME NEW v \in Versions, TimePasses(v) PROVE ChainTypeOK' /\ ChainSound' /\ ChainGrows
  <2>1. request[v].state = "paid" /\ request[v] \in Requests BY <1>0, <1>4 DEF TimePasses
  <2>a. request[v].clock \in DOMAIN Later BY <1>4 DEF TimePasses
  <2>b. PICK c \in Later[request[v].clock] : request' = [request EXCEPT ![v].clock = c]
    BY <1>4 DEF TimePasses
  <2>2. c \in {"early", "short", "late"} BY <2>a, <2>b DEF Later
  <2> DEFINE r == [request[v] EXCEPT !.clock = c]
  <2>3. r \in Requests /\ r.state = "paid" BY <2>1, <2>2 DEF Requests
  <2>4. request' = [request EXCEPT ![v] = r] BY <2>b
  <2>5. attached' = attached /\ late' = late /\ faults' = faults BY <1>4 DEF TimePasses
  <2> HIDE DEF r
  <2>6. \A w \in Versions : request'[w] = IF w = v THEN r ELSE request[w] BY <1>0, <2>4
  <2>7. request' \in [Versions -> Requests] BY <1>0, <2>3, <2>4
  <2> QED BY <1>0, <2>3, <2>5, <2>6, <2>7 DEF ChainTypeOK, ChainSound, AttachedIsStored, ChainGrows
<1> QED BY <1>0, <1>1, <1>2, <1>3, <1>4, MinedLate DEF MarketActs, OthersAct

LEMMA ChainKept ==
  ASSUME ChainTypeOK, ChainSound, UNCHANGED <<request, attached, late>>, stored' = stored,
         faults' = faults \/ fault
  PROVE  ChainTypeOK' /\ ChainSound' /\ ChainGrows
<1>1. faults \in Nat /\ MaxFaults \in Nat BY RequestsTyped
<1>2. faults' \in 0..MaxFaults /\ faults' \in Nat /\ faults <= faults'
  BY <1>1 DEF fault, ChainTypeOK
<1> QED BY <1>2 DEF ChainTypeOK, ChainSound, AttachedIsStored, ChainGrows

---------------------------------------------------------------------------
(* The runs.                                                               *)

\* Only v's run moves, to where the disk allows it to be.
LEMMA JobMoved ==
  ASSUME RunnerTypeOK, faults \in Nat, ChainGrows, JobsSound, NEW v \in Versions,
         UNCHANGED <<stored, signed, evaluated>>,
         \A w \in Versions \ {v} : job'[w] = job[w],
         job'[v].stage \in Unsigned => stored[v] = 0,
         job'[v].stage \in {"attaching", "finishing"} => stored[v] # 0,
         job'[v].stage = "deadline" => request[v].state # "none",
         stored[v] = 0 /\ job'[v].stage \in NotBegun => evaluated[v] <= faults'
  PROVE  JobsSound'
<1> SUFFICES ASSUME NEW w \in Versions PROVE JobSound(w)' BY DEF JobsSound
<1>1. JobSound(w) /\ evaluated[w] \in Nat BY DEF JobsSound, RunnerTypeOK
<1>2. evaluated'[w] <= 1 + faults' BY <1>1 DEF JobSound, ChainGrows
<1>3. request[w].state # "none" => request'[w].state # "none" BY DEF ChainGrows
<1>4. CASE w = v BY <1>1, <1>2, <1>3, <1>4 DEF JobSound
<1>5. CASE w # v
  <2>1. job'[w] = job[w] BY <1>5
  <2>2. stored[w] = 0 /\ job[w].stage \in NotBegun => evaluated[w] <= faults'
    BY <1>1 DEF JobSound, ChainGrows
  <2> QED BY <1>1, <1>2, <1>3, <2>1, <2>2 DEF JobSound
<1> QED BY <1>4, <1>5

LEMMA JobsUnmoved ==
  ASSUME RunnerTypeOK, faults \in Nat, ChainGrows, JobsSound, UNCHANGED <<stored, signed, evaluated, job>>
  PROVE  JobsSound'
<1> SUFFICES ASSUME NEW w \in Versions PROVE JobSound(w)' BY DEF JobsSound
<1>1. JobSound(w) /\ evaluated[w] \in Nat BY DEF JobsSound, RunnerTypeOK
<1> QED BY <1>1 DEF JobSound, ChainGrows

LEMMA Goes ==
  ASSUME job \in [Versions -> Jobs], NEW v \in Versions, NEW stage \in Stages, goes(v, stage)
  PROVE  /\ job' \in [Versions -> Jobs] /\ job'[v].stage = stage
         /\ \A w \in Versions \ {v} : job'[w] = job[w]
<1> DEFINE r == [job[v] EXCEPT !.stage = stage]
<1>1. job[v] \in Jobs OBVIOUS
<1>2. r \in Jobs /\ r.stage = stage BY <1>1 DEF Jobs
<1>3. job' = [job EXCEPT ![v] = r] BY DEF goes
<1> HIDE DEF r
<1> QED BY <1>2, <1>3

LEMMA Ends ==
  ASSUME job \in [Versions -> Jobs], NEW v \in Versions, ends(v)
  PROVE  /\ job' \in [Versions -> Jobs] /\ job'[v].stage = "idle"
         /\ \A w \in Versions \ {v} : job'[w] = job[w]
<1>1. NoJob \in Jobs /\ NoJob.stage = "idle"
  BY PreviewRunnerOK DEF NoJob, Jobs, Stages, Quotes
<1> HIDE DEF NoJob
<1> QED BY <1>1 DEF ends

---------------------------------------------------------------------------
(* The steps of a run.                                                     *)

RunnerSound == RunnerTypeOK /\ JobsSound

Facts(v) ==
  /\ job \in [Versions -> Jobs] /\ job[v] \in Jobs
  /\ stored[v] \in Nat /\ signed[v] \in Nat /\ evaluated[v] \in Nat
  /\ JobSound(v)

LEMMA Known ==
  ASSUME RunnerSound, NEW v \in Versions
  PROVE  Facts(v)
BY DEF RunnerSound, RunnerTypeOK, JobsSound, Facts

\* A run that ends early has not signed, or its report is on disk, or a fault ended it.
LEMMA EndedEarly ==
  ASSUME RunnerSound, faults \in Nat, ChainGrows, NEW v \in Versions, ends(v),
         UNCHANGED <<panel, diskVars>>,
         stored[v] # 0 \/ job[v].stage \in NotBegun \/ faults' = faults + 1
  PROVE  RunnerSound'
<1>1. Facts(v) BY Known
<1>2. /\ job' \in [Versions -> Jobs] /\ job'[v].stage = "idle"
      /\ \A w \in Versions \ {v} : job'[w] = job[w]
  BY <1>1, Ends DEF Facts
<1>3. UNCHANGED <<stored, signed, evaluated, cache, panel>> BY DEF diskVars
<1>4. stored[v] = 0 => evaluated[v] <= faults' BY <1>1 DEF Facts, JobSound, ChainGrows
<1>5. JobsSound'
  BY <1>2, <1>3, <1>4, JobMoved DEF Unsigned, RunnerSound
<1> QED BY <1>2, <1>3, <1>5 DEF RunnerSound, RunnerTypeOK

LEMMA MovedOn ==
  ASSUME RunnerSound, faults \in Nat, ChainGrows, NEW v \in Versions, NEW stage \in Stages, NEW j \in Jobs,
         j.stage = stage, job' = [job EXCEPT ![v] = j], UNCHANGED <<panel, diskVars>>,
         stage \in Unsigned => stored[v] = 0,
         stage \in {"attaching", "finishing"} => stored[v] # 0,
         stage = "deadline" => request[v].state # "none",
         stored[v] = 0 /\ stage \in NotBegun => evaluated[v] <= faults'
  PROVE  RunnerSound'
<1>1. job \in [Versions -> Jobs] BY DEF RunnerSound, RunnerTypeOK
<1>2. /\ job' \in [Versions -> Jobs] /\ job'[v].stage = stage
      /\ \A w \in Versions \ {v} : job'[w] = job[w]
  BY <1>1
<1>3. UNCHANGED <<stored, signed, evaluated, cache, panel>> BY DEF diskVars
<1>4. JobsSound' BY <1>2, <1>3, JobMoved DEF RunnerSound
<1> QED BY <1>2, <1>3, <1>4 DEF RunnerSound, RunnerTypeOK

LEMMA ChainStays ==
  ASSUME ChainTypeOK, UNCHANGED chainVars PROVE ChainGrows
BY RequestsTyped DEF chainVars, ChainGrows

LEMMA TermsChecked ==
  ASSUME RunnerSound, ChainTypeOK, NEW v \in Versions, checkTerms(v)
  PROVE  RunnerSound'
<1> DEFINE h == Key(v, panel) \in cache
           j == [job[v] EXCEPT !.stage = "payment", !.panel = panel, !.hit = h]
<1>1. Facts(v) /\ faults \in Nat /\ ChainGrows /\ job[v].stage = "terms" /\ UNCHANGED <<panel, diskVars>>
  BY Known, RequestsTyped, ChainStays DEF checkTerms
<1>2. CASE ends(v) BY <1>1, <1>2, EndedEarly DEF NotBegun
<1>3. CASE job' = [job EXCEPT ![v] = j]
  <2>1. panel \in Panels /\ job[v] \in Jobs BY <1>1 DEF RunnerSound, RunnerTypeOK, Facts
  <2>2. h \in BOOLEAN OBVIOUS
  <2> HIDE DEF h
  <2>3. j \in Jobs /\ j.stage = "payment" BY <2>1, <2>2 DEF Jobs, Stages
  <2>4. stored[v] = 0 /\ evaluated[v] <= faults'
    BY <1>1 DEF Facts, JobSound, Unsigned, NotBegun, ChainGrows
  <2> HIDE DEF j
  <2> QED BY <1>1, <1>3, <2>3, <2>4, MovedOn DEF Stages
<1> QED BY <1>2, <1>3 DEF checkTerms

LEMMA PaymentRequired ==
  ASSUME RunnerSound, ChainTypeOK, NEW v \in Versions, requirePaidPreview(v)
  PROVE  RunnerSound'
<1> DEFINE q == request[v].quote
           j == [job[v] EXCEPT !.stage = "deadline", !.quote = q]
<1>1. Facts(v) /\ faults \in Nat /\ ChainGrows /\ job[v].stage = "payment" /\ UNCHANGED <<panel, diskVars>>
  BY Known, RequestsTyped, ChainStays DEF requirePaidPreview
<1>2. CASE ends(v) BY <1>1, <1>2, EndedEarly DEF NotBegun
<1>3. CASE PaymentOK(v) /\ job' = [job EXCEPT ![v] = j]
  <2>1. job[v] \in Jobs BY <1>1 DEF Facts
  <2>2. q \in Quotes BY RequestsTyped DEF Requests
  <2>3. request[v].state # "none" BY <1>3 DEF PaymentOK, Outstanding
  <2> HIDE DEF q
  <2>4. j \in Jobs /\ j.stage = "deadline" BY <2>1, <2>2 DEF Jobs, Stages
  <2>5. stored[v] = 0 /\ evaluated[v] <= faults'
    BY <1>1 DEF Facts, JobSound, Unsigned, NotBegun, ChainGrows
  <2> HIDE DEF j
  <2> QED BY <1>1, <1>3, <2>3, <2>4, <2>5, MovedOn DEF Stages
<1> QED BY <1>2, <1>3 DEF requirePaidPreview

\* A run begun is one more than the faults, until it is signed.
LEMMA TimeRequired ==
  ASSUME RunnerSound, ChainTypeOK, NEW v \in Versions, requireTime(v)
  PROVE  RunnerSound'
<1>1. Facts(v) /\ faults \in Nat /\ ChainGrows /\ job[v].stage = "deadline"
      /\ UNCHANGED <<panel, cache, stored, signed, faults, request>>
  BY Known, RequestsTyped, ChainStays DEF requireTime, chainVars
<1>2. stored[v] = 0 /\ evaluated[v] <= faults BY <1>1 DEF Facts, JobSound, Unsigned, NotBegun
<1>3. CASE ends(v) /\ UNCHANGED evaluated BY <1>1, <1>3, EndedEarly DEF NotBegun, diskVars
<1>4. CASE goes(v, "signing") /\ UNCHANGED evaluated
  <2>1. /\ job' \in [Versions -> Jobs] /\ job'[v].stage = "signing"
        /\ \A w \in Versions \ {v} : job'[w] = job[w]
    BY <1>1, <1>4, Goes DEF Facts, Stages
  <2>2. JobsSound' BY <1>1, <1>2, <1>4, <2>1, JobMoved DEF NotBegun, RunnerSound
  <2> QED BY <1>1, <1>4, <2>1, <2>2 DEF RunnerSound, RunnerTypeOK
<1>5. CASE goes(v, "inferring") /\ evaluated' = [evaluated EXCEPT ![v] = evaluated[v] + 1]
  <2>1. /\ job' \in [Versions -> Jobs] /\ job'[v].stage = "inferring"
        /\ \A w \in Versions \ {v} : job'[w] = job[w]
    BY <1>1, <1>5, Goes DEF Facts, Stages
  <2>2. evaluated \in [Versions -> Nat] BY DEF RunnerSound, RunnerTypeOK
  <2>3. /\ evaluated' \in [Versions -> Nat] /\ evaluated'[v] = evaluated[v] + 1
        /\ \A w \in Versions \ {v} : evaluated'[w] = evaluated[w]
    BY <1>5, <2>2
  <2>4. ASSUME NEW w \in Versions PROVE JobSound(w)'
    <3>1. JobSound(w) BY DEF RunnerSound, JobsSound
    <3>2. CASE w = v
      BY <1>1, <1>2, <2>1, <2>3, <3>1, <3>2 DEF JobSound, NotBegun, Facts
    <3>3. CASE w # v
      <4>1. job'[w] = job[w] /\ evaluated'[w] = evaluated[w] BY <2>1, <2>3, <3>3
      <4> QED BY <1>1, <3>1, <4>1 DEF JobSound
    <3> QED BY <3>2, <3>3
  <2> QED BY <1>1, <2>1, <2>3, <2>4 DEF RunnerSound, RunnerTypeOK, JobsSound
<1> QED BY <1>3, <1>4, <1>5 DEF requireTime, starts

LEMMA FreshRun ==
  ASSUME RunnerSound, ChainTypeOK, NEW v \in Versions, runFresh(v)
  PROVE  RunnerSound'
<1>1. Facts(v) /\ faults \in Nat /\ ChainGrows /\ job[v].stage = "inferring" /\ UNCHANGED <<panel, diskVars>>
  BY Known, RequestsTyped, ChainStays DEF runFresh
<1>2. stored[v] = 0 BY <1>1 DEF Facts, JobSound, Unsigned
<1>3. ASSUME NEW infra \in BOOLEAN, job' = [job EXCEPT ![v].stage = "signing", ![v].infra = infra]
      PROVE  RunnerSound'
  <2> DEFINE j == [job[v] EXCEPT !.stage = "signing", !.infra = infra]
  <2>1. j \in Jobs /\ j.stage = "signing" BY <1>1 DEF Jobs, Stages, Facts
  <2>2. job' = [job EXCEPT ![v] = j] BY <1>3
  <2> HIDE DEF j
  <2> QED BY <1>1, <1>2, <2>1, <2>2, MovedOn DEF Stages, NotBegun
<1> QED BY <1>3 DEF runFresh

\* The report goes to the disk, where none was, so nobody holds another.
LEMMA ReportSigned ==
  ASSUME RunnerSound, ChainTypeOK, ChainSound, SellerSound, NEW v \in Versions, signReport(v)
  PROVE  RunnerSound' /\ ChainSound' /\ (seller' = seller => SellerSound')
<1>1. Facts(v) /\ job[v].stage = "signing" /\ goes(v, "attaching")
      /\ UNCHANGED <<request, attached, late, faults, panel, cache, evaluated>>
  BY Known DEF signReport, chainVars
<1>2. stored[v] = 0 /\ signed[v] = 0 BY <1>1 DEF Facts, JobSound, Unsigned
<1>3. stored \in [Versions -> Nat] /\ signed \in [Versions -> Nat] /\ faults \in Nat
  BY RequestsTyped DEF RunnerSound, RunnerTypeOK
<1>4. signed' = [signed EXCEPT ![v] = 1] /\ stored' = [stored EXCEPT ![v] = 1] BY <1>2 DEF signReport
<1>5. /\ stored' \in [Versions -> Nat] /\ signed' \in [Versions -> Nat]
      /\ \A w \in Versions : stored'[w] = IF w = v THEN 1 ELSE stored[w]
      /\ \A w \in Versions : signed'[w] = IF w = v THEN 1 ELSE signed[w]
  BY <1>3, <1>4
<1>6. /\ job' \in [Versions -> Jobs] /\ job'[v].stage = "attaching"
      /\ \A w \in Versions \ {v} : job'[w] = job[w]
  BY <1>1, Goes DEF Facts, Stages
<1>7. ASSUME NEW w \in Versions PROVE JobSound(w)'
  <2>1. JobSound(w) BY DEF RunnerSound, JobsSound
  <2>2. CASE w = v BY <1>1, <1>5, <1>6, <2>1, <2>2 DEF JobSound, Unsigned
  <2>3. CASE w # v
    <3>1. job'[w] = job[w] /\ stored'[w] = stored[w] /\ signed'[w] = signed[w] BY <1>5, <1>6, <2>3
    <3> QED BY <1>1, <2>1, <3>1 DEF JobSound
  <2> QED BY <2>2, <2>3
<1>8. RunnerSound' BY <1>1, <1>5, <1>6, <1>7 DEF RunnerSound, RunnerTypeOK, JobsSound
<1>9. ChainSound'
  <2>1. AttachedIsStored' BY <1>1, <1>2, <1>5 DEF ChainSound, AttachedIsStored, NoReport
  <2>2. \A t \in late : t.fn = "attachReport" => t.version \in Versions /\ t.report # 0
    BY DEF ChainTypeOK, Txs
  <2>3. \A t \in late : t.fn = "attachReport" => t.report = stored'[t.version]
    BY <1>2, <1>5, <2>2 DEF ChainSound
  <2> QED BY <1>1, <2>1, <2>3 DEF ChainSound
<1>10. SellerSound' \/ seller' # seller BY <1>2, <1>5 DEF SellerSound
<1> QED BY <1>8, <1>9, <1>10

LEMMA AttachSent ==
  ASSUME RunnerSound, ChainTypeOK, ChainSound, NEW v \in Versions, attach(v)
  PROVE  RunnerSound' /\ ChainTypeOK' /\ ChainSound'
<1>1. Facts(v) /\ faults \in Nat /\ job[v].stage = "attaching" /\ goes(v, "finishing") /\ UNCHANGED <<panel, diskVars>>
  BY Known, RequestsTyped DEF attach
<1>2. stored[v] # 0 /\ stored[v] = signed[v] /\ stored' = stored BY <1>1 DEF Facts, JobSound, diskVars
<1>3. ChainTypeOK' /\ ChainSound' /\ ChainGrows
  <2>1. CASE UNCHANGED chainVars
    BY <1>2, <2>1, ChainKept DEF chainVars
  <2>2. ASSUME NEW t, t = AttachTx(v, signed[v]), succeeds(t) \/ refused(t) \/ givenUp(t)
        PROVE  ChainTypeOK' /\ ChainSound' /\ ChainGrows
    <3>1. Good(t) BY <1>1, <1>2, <2>2 DEF Good, AttachTx, Txs, Facts
    <3> QED BY <1>2, <2>2, <3>1, Sent
  <2> QED BY <2>1, <2>2 DEF attach
<1>4. /\ job' \in [Versions -> Jobs] /\ job'[v].stage = "finishing"
      /\ \A w \in Versions \ {v} : job'[w] = job[w]
  BY <1>1, Goes DEF Facts, Stages
<1>5. UNCHANGED <<stored, signed, evaluated, cache, panel>> BY <1>1 DEF diskVars
<1>6. JobsSound' BY <1>1, <1>2, <1>3, <1>4, <1>5, JobMoved DEF RunnerSound, Unsigned, NotBegun
<1> QED BY <1>3, <1>4, <1>5, <1>6 DEF RunnerSound, RunnerTypeOK

\* Writing the report again changes nothing.
LEMMA Finished ==
  ASSUME RunnerSound, ChainTypeOK, NEW v \in Versions, finish(v)
  PROVE  RunnerSound' /\ stored' = stored
<1>1. Facts(v) /\ faults \in Nat /\ ChainGrows /\ job[v].stage = "finishing" /\ ends(v)
      /\ UNCHANGED <<panel, signed, evaluated>>
  BY Known, RequestsTyped, ChainStays DEF finish
<1>2. stored[v] # 0 /\ stored[v] = signed[v] BY <1>1 DEF Facts, JobSound
<1>3. stored' = stored BY <1>2 DEF finish, RunnerSound, RunnerTypeOK
<1>4. /\ job' \in [Versions -> Jobs] /\ job'[v].stage = "idle"
      /\ \A w \in Versions \ {v} : job'[w] = job[w]
  BY <1>1, Ends DEF Facts
<1>5. cache' \in SUBSET Keys
  <2>1. CASE cache' = cache BY <2>1 DEF RunnerSound, RunnerTypeOK
  <2>2. CASE Reusable(v) /\ cache' = cache \cup {Key(v, job[v].panel)}
    <3>1. job[v].panel \in Panels \ {NoModels} BY <1>1, <2>2 DEF Reusable, Facts, Jobs
    <3>2. Key(v, job[v].panel) \in Keys BY <3>1 DEF Key, Keys, Contents
    <3> QED BY <2>2, <3>2 DEF RunnerSound, RunnerTypeOK
  <2> QED BY <2>1, <2>2 DEF finish
<1>6. JobsSound' BY <1>1, <1>2, <1>3, <1>4, JobMoved DEF RunnerSound, Unsigned
<1> QED BY <1>1, <1>3, <1>4, <1>5, <1>6 DEF RunnerSound, RunnerTypeOK

LEMMA RunFailed ==
  ASSUME RunnerSound, ChainTypeOK, ChainSound, NEW v \in Versions, runFails(v)
  PROVE  RunnerSound' /\ ChainTypeOK' /\ ChainSound' /\ stored' = stored
<1>1. ends(v) /\ fault /\ UNCHANGED <<request, attached, late, panel, diskVars>> BY DEF runFails
<1>2. stored' = stored BY <1>1 DEF diskVars
<1>3. ChainTypeOK' /\ ChainSound' /\ ChainGrows /\ faults \in Nat BY <1>1, <1>2, ChainKept, RequestsTyped
<1>4. RunnerSound' BY <1>1, <1>3, EndedEarly DEF fault
<1> QED BY <1>2, <1>3, <1>4

\* Everything but the runs of the harness is as it was; used for the steps of others.
LEMMA RunnerKept ==
  ASSUME RunnerSound, faults \in Nat, ChainGrows, UNCHANGED <<stored, signed, evaluated, job>>,
         panel' \in Panels, cache' \in SUBSET Keys
  PROVE  RunnerSound'
<1>1. JobsSound' BY JobsUnmoved DEF RunnerSound
<1> QED BY <1>1 DEF RunnerSound, RunnerTypeOK

LEMMA StoredAttached ==
  ASSUME RunnerSound, ChainTypeOK, ChainSound, NEW v \in Versions, attachStoredReport(v)
  PROVE  RunnerSound' /\ ChainTypeOK' /\ ChainSound' /\ stored' = stored
<1>1. faults \in Nat /\ stored[v] \in Nat \ {0} /\ UNCHANGED runnerVars
  BY RequestsTyped DEF attachStoredReport, RunnerSound, RunnerTypeOK, NoReport
<1>2. PICK t : t = AttachTx(v, stored[v]) /\ (succeeds(t) \/ refused(t) \/ givenUp(t))
  BY DEF attachStoredReport
<1>3. Good(t) BY <1>1, <1>2 DEF Good, AttachTx, Txs
<1>4. stored' = stored BY <1>1 DEF runnerVars
<1>5. ChainTypeOK' /\ ChainSound' /\ ChainGrows BY <1>2, <1>3, <1>4, Sent
<1>6. panel \in Panels /\ cache \in SUBSET Keys BY DEF RunnerSound, RunnerTypeOK
<1>7. RunnerSound' BY <1>1, <1>5, <1>6, RunnerKept DEF runnerVars
<1> QED BY <1>4, <1>5, <1>7

LEMMA RunnerSteps ==
  ASSUME RunnerSound, ChainTypeOK, ChainSound, SellerTypeOK, SellerSound, RunnerActs
  PROVE  RunnerSound' /\ ChainTypeOK' /\ ChainSound' /\ SellerTypeOK' /\ SellerSound'
<1>1. UNCHANGED <<asking, seller>> /\ SellerTypeOK' BY DEF RunnerActs, SellerTypeOK
<1>2. stored' = stored => SellerSound' BY <1>1 DEF SellerSound
<1>3. faults \in Nat /\ panel \in Panels /\ cache \in SUBSET Keys
  BY RequestsTyped DEF RunnerSound, RunnerTypeOK
<1>4. ASSUME NEW v \in Versions, checkTerms(v) \/ requirePaidPreview(v) \/ requireTime(v) \/ runFresh(v)
      PROVE  RunnerSound' /\ ChainTypeOK' /\ ChainSound' /\ SellerSound'
  <2>1. UNCHANGED chainVars /\ stored' = stored
    BY <1>4 DEF checkTerms, requirePaidPreview, requireTime, runFresh, diskVars
  <2>2. ChainTypeOK' /\ ChainSound' BY <2>1, ChainKept DEF chainVars
  <2>3. RunnerSound' BY <1>4, TermsChecked, PaymentRequired, TimeRequired, FreshRun
  <2> QED BY <1>2, <2>1, <2>2, <2>3
<1>5. ASSUME NEW v \in Versions, signReport(v)
      PROVE  RunnerSound' /\ ChainTypeOK' /\ ChainSound' /\ SellerSound'
  <2>1. ChainTypeOK' BY <1>5 DEF signReport, chainVars, ChainTypeOK
  <2> QED BY <1>1, <1>5, <2>1, ReportSigned
<1>6. ASSUME NEW v \in Versions, attach(v)
      PROVE  RunnerSound' /\ ChainTypeOK' /\ ChainSound' /\ SellerSound'
  <2>1. stored' = stored BY <1>6 DEF attach, diskVars
  <2> QED BY <1>2, <1>6, <2>1, AttachSent
<1>7. ASSUME NEW v \in Versions, finish(v)
      PROVE  RunnerSound' /\ ChainTypeOK' /\ ChainSound' /\ SellerSound'
  <2>1. RunnerSound' /\ stored' = stored BY <1>7, Finished
  <2>2. ChainTypeOK' /\ ChainSound' BY <1>7, <2>1, ChainKept DEF finish, chainVars
  <2> QED BY <1>2, <2>1, <2>2
<1>8. ASSUME NEW v \in Versions, runFails(v) \/ attachStoredReport(v)
      PROVE  RunnerSound' /\ ChainTypeOK' /\ ChainSound' /\ SellerSound'
  BY <1>2, <1>8, RunFailed, StoredAttached
<1>9. CASE (\E k \in Keys : importSealed(k)) \/ modelsChange
  <2>1. UNCHANGED <<chainVars, stored, signed, evaluated, job>>
    BY <1>9 DEF importSealed, modelsChange, diskVars
  <2>2. panel' \in Panels /\ cache' \in SUBSET Keys
    BY <1>3, <1>9 DEF importSealed, modelsChange, diskVars
  <2>3. ChainTypeOK' /\ ChainSound' /\ ChainGrows BY <2>1, ChainKept DEF chainVars
  <2>4. RunnerSound' BY <1>3, <2>1, <2>2, <2>3, RunnerKept
  <2> QED BY <1>1, <1>2, <2>1, <2>3, <2>4
<1>10. ASSUME NEW v \in Versions, jobStep(v)
       PROVE  RunnerSound' /\ ChainTypeOK' /\ ChainSound' /\ SellerSound'
  BY <1>4, <1>5, <1>6, <1>7, <1>8, <1>10 DEF jobStep
<1>11. CASE \E v \in Versions : jobStep(v) BY <1>1, <1>10, <1>11
<1>12. CASE \E v \in Versions : attachStoredReport(v) BY <1>1, <1>8, <1>12
<1> QED BY <1>1, <1>9, <1>11, <1>12 DEF RunnerActs

---------------------------------------------------------------------------
(* The seller and the routes.                                              *)

LEMMA SellerAt ==
  ASSUME SellerTypeOK, NEW v \in Versions, NEW s \in SellerStates, seller' = [seller EXCEPT ![v] = s]
  PROVE  seller' \in [Versions -> SellerStates] /\ \A w \in Versions : seller'[w] = IF w = v THEN s ELSE seller[w]
BY DEF SellerTypeOK

\* The seller moves to where it holds nothing, or the stored report.
LEMMA SellerMoved ==
  ASSUME SellerTypeOK, SellerSound, NEW v \in Versions, NEW s \in SellerStates,
         seller' = [seller EXCEPT ![v] = s], stored' = stored,
         s.stage = "verified" => stored[v] # 0 /\ s.report = stored[v]
  PROVE  seller' \in [Versions -> SellerStates] /\ SellerSound'
BY SellerAt DEF SellerSound

SellerDone == seller' \in [Versions -> SellerStates] /\ (stored' = stored => SellerSound')

LEMMA SellerRests ==
  ASSUME SellerTypeOK, SellerSound, NEW v \in Versions, rests(v)
  PROVE  SellerDone
<1>1. Resting \in SellerStates /\ Resting.stage = "idle"
  BY DEF Resting, SellerStates, Quotes, NoReport
<1>2. seller' = [seller EXCEPT ![v] = Resting] BY DEF rests
<1> HIDE DEF Resting
<1> QED BY <1>1, <1>2, SellerMoved DEF SellerDone, SellerSound, SellerTypeOK

LEMMA SellerGoes ==
  ASSUME SellerTypeOK, SellerSound, NEW v \in Versions,
         NEW stage \in {"idle", "quoted", "paid", "asking", "polling"}, at(v, stage)
  PROVE  SellerDone
<1> DEFINE s == [seller[v] EXCEPT !.stage = stage]
<1>1. seller[v] \in SellerStates BY DEF SellerTypeOK
<1>2. s \in SellerStates /\ s.stage # "verified" BY <1>1 DEF SellerStates
<1>3. seller' = [seller EXCEPT ![v] = s] BY DEF at
<1> HIDE DEF s
<1> QED BY <1>2, <1>3, SellerMoved DEF SellerDone, SellerSound, SellerTypeOK

LEMMA Payment ==
  ASSUME ChainTypeOK, ChainSound, SellerTypeOK, SellerSound, NEW v \in Versions,
         payPreview(v) \/ sendRequest(v), stored' = stored
  PROVE  ChainTypeOK' /\ ChainSound' /\ ChainGrows /\ SellerDone
<1>1. CASE payPreview(v)
  <2>1. UNCHANGED <<request, attached, late>> /\ (faults' = faults \/ fault)
    BY <1>1 DEF payPreview, noFault
  <2>2. ASSUME NEW q \in Quotes, seller' = [seller EXCEPT ![v] = [stage |-> "quoted", quote |-> q, report |-> NoReport]]
        PROVE  SellerDone
    <3> DEFINE s == [stage |-> "quoted", quote |-> q, report |-> NoReport]
    <3>1. s \in SellerStates /\ s.stage # "verified" BY DEF SellerStates, NoReport
    <3>2. seller' = [seller EXCEPT ![v] = s] BY <2>2
    <3> HIDE DEF s
    <3> QED BY <3>1, <3>2, SellerMoved DEF SellerDone, SellerSound, SellerTypeOK
  <2>3. ASSUME at(v, "paid") PROVE SellerDone BY <2>3, SellerGoes
  <2>4. quotePreview(v) \in Quotes /\ "foreign" \in Quotes BY DEF quotePreview, Quotes
  <2>5. SellerDone BY <1>1, <2>2, <2>3, <2>4 DEF payPreview
  <2> QED BY <2>1, <2>5, ChainKept
<1>2. CASE sendRequest(v)
  <2>1. PICK t : /\ t = RequestTx(v, seller[v].quote)
                 /\ \/ succeeds(t) /\ at(v, "paid")
                    \/ (refused(t) \/ givenUp(t)) /\ rests(v)
    BY <1>2 DEF sendRequest
  <2>2. seller[v].quote \in Quotes BY DEF SellerTypeOK, SellerStates
  <2>3. Good(t) BY <2>1, <2>2 DEF Good, RequestTx, Txs
  <2>4. SellerDone BY <2>1, SellerGoes, SellerRests
  <2>5. succeeds(t) \/ refused(t) \/ givenUp(t) BY <2>1
  <2> QED BY <2>3, <2>4, <2>5, Sent
<1> QED BY <1>1, <1>2

\* The report the seller gets is the stored one.
LEMMA Fetched ==
  ASSUME RunnerTypeOK, ChainTypeOK, ChainSound, SellerTypeOK, SellerSound, NEW v \in Versions,
         postPreview(v) \/ poll(v), stored' = stored
  PROVE  ChainTypeOK' /\ ChainSound' /\ ChainGrows /\ SellerDone
<1>1. UNCHANGED <<request, attached, late>> /\ (faults' = faults \/ fault)
  BY DEF postPreview, poll, noFault, chainVars
<1>2. ASSUME stored[v] # NoReport, seller' = [seller EXCEPT ![v].stage = "verified", ![v].report = stored[v]]
      PROVE  SellerDone
  <2> DEFINE s == [seller[v] EXCEPT !.stage = "verified", !.report = stored[v]]
  <2>1. seller[v] \in SellerStates /\ stored[v] \in Nat BY DEF SellerTypeOK, RunnerTypeOK
  <2>2. s \in SellerStates /\ s.report = stored[v] BY <2>1 DEF SellerStates
  <2>3. seller' = [seller EXCEPT ![v] = s] BY <1>2
  <2> HIDE DEF s
  <2> QED BY <1>2, <2>2, <2>3, SellerMoved DEF SellerDone, NoReport
<1>3. SellerDone BY <1>2, SellerGoes, SellerRests DEF postPreview, poll
<1> QED BY <1>1, <1>3, ChainKept

LEMMA SellerAttached ==
  ASSUME RunnerTypeOK, ChainTypeOK, ChainSound, SellerTypeOK, SellerSound, NEW v \in Versions,
         attachVerified(v), stored' = stored
  PROVE  ChainTypeOK' /\ ChainSound' /\ ChainGrows /\ SellerDone
<1>1. SellerDone BY SellerRests DEF attachVerified
<1>2. CASE UNCHANGED chainVars BY <1>1, <1>2, ChainKept DEF chainVars
<1>3. ASSUME NEW t, t = AttachTx(v, seller[v].report), succeeds(t) \/ refused(t) \/ givenUp(t)
      PROVE  ChainTypeOK' /\ ChainSound' /\ ChainGrows /\ SellerDone
  <2>1. seller[v].report = stored[v] /\ stored[v] \in Nat \ {0}
    BY DEF attachVerified, SellerSound, RunnerTypeOK
  <2>2. Good(t) BY <1>3, <2>1 DEF Good, AttachTx, Txs
  <2> QED BY <1>1, <1>3, <2>2, Sent
<1> QED BY <1>2, <1>3 DEF attachVerified

\* A POST that passed its checks starts a run only if none is there and no report either.
LEMMA Handled ==
  ASSUME RunnerSound, ChainTypeOK, ChainSound, SellerTypeOK, SellerSound,
         NEW v \in Versions, NEW c \in Callers, handlePreview(v, c)
  PROVE  RunnerSound' /\ ChainTypeOK' /\ ChainSound' /\ SellerTypeOK' /\ SellerSound'
<1>1. /\ UNCHANGED <<request, attached, late, panel, diskVars>> /\ (faults' = faults \/ fault)
      /\ asking' = [asking EXCEPT ![v] = asking[v] \ {c}]
  BY DEF handlePreview, noFault
<1>2. stored' = stored /\ faults \in Nat BY <1>1, RequestsTyped DEF diskVars
<1>3. ChainTypeOK' /\ ChainSound' /\ ChainGrows BY <1>1, <1>2, ChainKept
<1>4. asking' \in [Versions -> SUBSET Callers] BY <1>1 DEF SellerTypeOK
<1>5. SellerDone
  BY SellerGoes, SellerRests DEF handlePreview, SellerDone, SellerSound, SellerTypeOK
<1>6. RunnerSound'
  <2>1. panel \in Panels /\ cache \in SUBSET Keys BY DEF RunnerSound, RunnerTypeOK
  <2>2. CASE UNCHANGED job BY <1>1, <1>2, <1>3, <2>1, <2>2, RunnerKept DEF diskVars
  <2>3. CASE stored[v] = NoReport /\ job[v].stage = "idle" /\ goes(v, "terms")
    <3>1. Facts(v) BY Known
    <3>2. /\ job' \in [Versions -> Jobs] /\ job'[v].stage = "terms"
          /\ \A w \in Versions \ {v} : job'[w] = job[w]
      BY <2>3, <3>1, Goes DEF Facts, Stages
    <3>3. evaluated[v] <= faults' BY <1>2, <1>3, <2>3, <3>1 DEF Facts, JobSound, NotBegun, NoReport, ChainGrows
    <3>4. UNCHANGED <<stored, signed, evaluated, cache, panel>> BY <1>1 DEF diskVars
    <3>5. JobsSound' BY <1>2, <1>3, <2>3, <3>2, <3>3, <3>4, JobMoved DEF RunnerSound, NoReport
    <3> QED BY <2>1, <3>2, <3>4, <3>5 DEF RunnerSound, RunnerTypeOK
  <2> QED BY <2>2, <2>3 DEF handlePreview, previewVersion
<1> QED BY <1>2, <1>3, <1>4, <1>5, <1>6 DEF SellerDone, SellerTypeOK

LEMMA Crashed ==
  ASSUME RunnerSound, ChainTypeOK, ChainSound, SellerTypeOK, SellerSound, crash
  PROVE  RunnerSound' /\ ChainTypeOK' /\ ChainSound' /\ SellerTypeOK' /\ SellerSound'
<1>1. /\ fault /\ UNCHANGED <<request, attached, late, panel, diskVars>>
      /\ job' = [v \in Versions |-> NoJob] /\ asking' = [v \in Versions |-> {}]
  BY DEF crash
<1>2. UNCHANGED <<stored, signed, evaluated, cache>> /\ faults \in Nat
  BY <1>1, RequestsTyped DEF diskVars
<1>3. ChainTypeOK' /\ ChainSound' /\ ChainGrows BY <1>1, <1>2, ChainKept
<1>4. NoJob \in Jobs /\ NoJob.stage = "idle" BY PreviewRunnerOK DEF NoJob, Jobs, Stages, Quotes
<1> HIDE DEF NoJob
<1>5. job' \in [Versions -> Jobs] /\ \A v \in Versions : job'[v].stage = "idle" BY <1>1, <1>4
<1>6. ASSUME NEW v \in Versions PROVE JobSound(v)'
  <2>1. Facts(v) BY Known
  <2>2. evaluated[v] <= faults' BY <1>1, <1>2, <2>1 DEF fault, Facts, JobSound
  <2> QED BY <1>2, <1>3, <1>5, <2>1, <2>2 DEF Facts, JobSound, Unsigned, ChainGrows
<1>7. RunnerSound' BY <1>1, <1>2, <1>5, <1>6 DEF RunnerSound, RunnerTypeOK, JobsSound
<1>8. Resting \in SellerStates /\ Resting.stage = "idle" BY DEF Resting, SellerStates, Quotes, NoReport
<1> HIDE DEF Resting
<1>9. seller' \in [Versions -> SellerStates] /\ SellerSound'
  <2>1. \A v \in Versions : seller'[v] = IF seller[v].stage = "asking" THEN Resting ELSE seller[v]
    BY DEF crash
  <2>2. seller' = [v \in Versions |-> IF seller[v].stage = "asking" THEN Resting ELSE seller[v]] BY DEF crash
  <2> QED BY <1>2, <1>8, <2>1, <2>2 DEF SellerSound, SellerTypeOK
<1> QED BY <1>1, <1>3, <1>7, <1>9 DEF SellerTypeOK

LEMMA RouteSteps ==
  ASSUME RunnerSound, ChainTypeOK, ChainSound, SellerTypeOK, SellerSound, RouteActs
  PROVE  RunnerSound' /\ ChainTypeOK' /\ ChainSound' /\ SellerTypeOK' /\ SellerSound'
<1>1. faults \in Nat /\ panel \in Panels /\ cache \in SUBSET Keys /\ RunnerTypeOK
  BY RequestsTyped DEF RunnerSound, RunnerTypeOK
<1>2. ASSUME NEW v \in Versions, sellerStep(v)
      PROVE  RunnerSound' /\ ChainTypeOK' /\ ChainSound' /\ SellerTypeOK' /\ SellerSound'
  <2>1. UNCHANGED runnerVars
    BY <1>2 DEF sellerStep, payPreview, sendRequest, postPreview, poll, attachVerified
  <2>2. stored' = stored /\ UNCHANGED <<signed, evaluated, job, panel, cache>> BY <2>1 DEF runnerVars
  <2>3. ChainTypeOK' /\ ChainSound' /\ ChainGrows /\ SellerDone
    BY <1>1, <1>2, <2>2, Payment, Fetched, SellerAttached DEF sellerStep
  <2>4. asking' \in [Versions -> SUBSET Callers]
    <3>1. asking' = asking \/ asking' = [asking EXCEPT ![v] = asking[v] \cup {"seller"}]
      BY <1>2 DEF sellerStep, payPreview, sendRequest, postPreview, poll, attachVerified
    <3>2. asking \in [Versions -> SUBSET Callers] /\ "seller" \in Callers BY DEF SellerTypeOK, Callers
    <3> QED BY <3>1, <3>2
  <2>5. RunnerSound' BY <1>1, <2>2, <2>3, RunnerKept
  <2> QED BY <2>2, <2>3, <2>4, <2>5 DEF SellerDone, SellerTypeOK
<1>3. ASSUME NEW v \in Versions, postByOthers(v)
      PROVE  RunnerSound' /\ ChainTypeOK' /\ ChainSound' /\ SellerTypeOK' /\ SellerSound'
  <2>1. /\ UNCHANGED chainVars /\ seller' = seller
        /\ UNCHANGED <<panel, cache, stored, job, signed, evaluated>>
        /\ asking' = [asking EXCEPT ![v] = asking[v] \cup {"other"}]
    BY <1>3 DEF postByOthers, runnerVars
  <2>2. ChainTypeOK' /\ ChainSound' /\ ChainGrows BY <2>1, ChainKept DEF chainVars
  <2>3. RunnerSound' BY <1>1, <2>1, <2>2, RunnerKept
  <2>4. SellerTypeOK' BY <2>1 DEF SellerTypeOK, Callers
  <2> QED BY <2>1, <2>2, <2>3, <2>4 DEF SellerSound
<1> QED BY <1>2, <1>3, Handled, Crashed DEF RouteActs

---------------------------------------------------------------------------
(* The theorems.                                                           *)

LEMMA Start == ASSUME Init PROVE IInv
<1>1. NoJob \in Jobs /\ NoJob.stage = "idle" BY PreviewRunnerOK DEF NoJob, Jobs, Stages, Quotes
<1>2. Resting \in SellerStates /\ Resting.stage = "idle" BY DEF Resting, SellerStates, Quotes, NoReport
<1>3. [state |-> "none", quote |-> "foreign", inTime |-> TRUE, clock |-> "early"] \in Requests
  BY DEF Requests, Quotes
<1> HIDE DEF NoJob, Resting
<1>4. ChainTypeOK BY <1>3, PreviewChainOK DEF Init, ChainInit, ChainTypeOK, Reports, NoReport
<1>5. RunnerTypeOK BY <1>1 DEF Init, RunnerInit, RunnerTypeOK, NoReport
<1>6. SellerTypeOK BY <1>2 DEF Init, SellerTypeOK
<1>7. ChainSound BY DEF Init, ChainInit, ChainSound, AttachedIsStored
<1>8. SellerSound BY <1>2 DEF Init, SellerSound
<1>9. JobsSound BY <1>1 DEF Init, ChainInit, RunnerInit, JobsSound, JobSound, Unsigned, NoReport
<1> QED BY <1>4, <1>5, <1>6, <1>7, <1>8, <1>9 DEF IInv, TypeOK, SellerTypeOK

LEMMA Step == ASSUME IInv, [Next]_vars PROVE IInv'
<1>1. RunnerSound /\ ChainTypeOK /\ ChainSound /\ SellerTypeOK /\ SellerSound
  BY DEF IInv, TypeOK, SellerTypeOK, RunnerSound
<1>2. SUFFICES RunnerSound' /\ ChainTypeOK' /\ ChainSound' /\ SellerTypeOK' /\ SellerSound'
  BY DEF IInv, TypeOK, SellerTypeOK, RunnerSound
<1>3. faults \in Nat /\ panel \in Panels /\ cache \in SUBSET Keys
  BY <1>1, RequestsTyped DEF RunnerSound, RunnerTypeOK
<1>4. CASE MarketActs
  <2>1. ChainTypeOK' /\ ChainSound' /\ ChainGrows BY <1>1, <1>4, MarketSteps
  <2>2. UNCHANGED <<panel, cache, stored, job, signed, evaluated, asking, seller>>
    BY <1>4 DEF MarketActs, OthersAct, runnerVars
  <2>3. RunnerSound' BY <1>1, <1>3, <2>1, <2>2, RunnerKept
  <2> QED BY <1>1, <2>1, <2>2, <2>3 DEF SellerTypeOK, SellerSound
<1>5. CASE RunnerActs BY <1>1, <1>5, RunnerSteps
<1>6. CASE RouteActs BY <1>1, <1>6, RouteSteps
<1>7. CASE UNCHANGED vars
  <2>1. UNCHANGED <<chainVars, panel, cache, stored, job, signed, evaluated, asking, seller>>
    BY <1>7 DEF vars, runnerVars
  <2>2. ChainTypeOK' /\ ChainSound' /\ ChainGrows BY <1>1, <2>1, ChainKept DEF chainVars
  <2>3. RunnerSound' BY <1>1, <1>3, <2>1, <2>2, RunnerKept
  <2> QED BY <1>1, <2>1, <2>2, <2>3 DEF SellerTypeOK, SellerSound
<1> QED BY <1>4, <1>5, <1>6, <1>7 DEF Next

\* Every reachable state satisfies the invariant.
THEOREM Inductive == Spec => []IInv
BY Start, Step, PTL DEF Spec

\* Market, runner, routes and seller are well typed (preview.ts, server.ts, actions.ts).
THEOREM PreviewTypeCorrect == Spec => []TypeOK
BY Inductive, PTL DEF IInv

\* Whatever is lost or late, a report attached by this runner is the one on its disk
\* (preview.ts: the report is put on disk before it is attached, and found there again).
THEOREM ReportsStored == Spec => []AttachedIsStored
<1>1. IInv => AttachedIsStored BY DEF IInv, ChainSound
<1> QED BY <1>1, Inductive, PTL

\* A version is evaluated once, and once more per fault (preview.ts: previewVersion).
THEOREM RunsCounted == Spec => []OneRunPerVersion
<1>1. IInv => OneRunPerVersion BY DEF IInv, JobsSound, JobSound, OneRunPerVersion
<1> QED BY <1>1, Inductive, PTL

\* Only requireTime begins a run of the harness, with time left.
LEMMA OnlyRequireTimeBegins ==
  ASSUME IInv, [Next]_vars, NEW v \in Versions, evaluated'[v] # evaluated[v]
  PROVE  request[v].state = "paid"
<1>1. evaluated \in [Versions -> Nat] BY DEF IInv, TypeOK, RunnerTypeOK
<1>2. ASSUME NEW w \in Versions, requireTime(w) PROVE request[v].state = "paid"
  <2>1. job[w].stage = "deadline" BY <1>2 DEF requireTime
  <2>2. w = v /\ Fits(w, job[w].quote, job[w].hit) BY <1>1, <1>2 DEF requireTime, starts
  <2>3. request[v].clock # "late" BY <2>2 DEF Fits
  <2>4. request[v].state \in {"none", "paid", "reclaimed"} BY RequestsTyped DEF IInv, TypeOK
  <2>5. request[v].state # "none" BY <2>1, <2>2 DEF IInv, JobsSound, JobSound
  <2>6. request[v].state # "reclaimed" BY <2>3 DEF IInv, ChainSound
  <2> QED BY <2>4, <2>5, <2>6
<1>3. ASSUME NEW w \in Versions, jobStep(w), ~requireTime(w) PROVE evaluated' = evaluated
  BY <1>3 DEF jobStep, checkTerms, requirePaidPreview, runFresh, signReport, attach, finish, runFails, diskVars
<1>4. CASE MarketActs BY <1>4 DEF MarketActs, OthersAct, runnerVars
<1>5. CASE RunnerActs
  <2>1. CASE \E w \in Versions : jobStep(w) BY <1>2, <1>3, <2>1
  <2>2. CASE ~\E w \in Versions : jobStep(w)
    BY <1>5, <2>2 DEF RunnerActs, attachStoredReport, importSealed, modelsChange, runnerVars, diskVars
  <2> QED BY <2>1, <2>2
<1>6. CASE RouteActs
  <2>1. ASSUME NEW w \in Versions, sellerStep(w) PROVE evaluated' = evaluated
    BY <2>1 DEF sellerStep, payPreview, sendRequest, postPreview, poll, attachVerified, runnerVars
  <2>2. ASSUME NEW w \in Versions, NEW c \in Callers, handlePreview(w, c) PROVE evaluated' = evaluated
    BY <2>2 DEF handlePreview, diskVars
  <2>3. ASSUME NEW w \in Versions, postByOthers(w) PROVE evaluated' = evaluated
    BY <2>3 DEF postByOthers, runnerVars
  <2>4. CASE crash BY <2>4 DEF crash, diskVars
  <2> QED BY <1>6, <2>1, <2>2, <2>3, <2>4 DEF RouteActs
<1>7. CASE UNCHANGED vars BY <1>7 DEF vars, runnerVars
<1> QED BY <1>4, <1>5, <1>6, <1>7 DEF Next

\* No run of the harness begins for a fee that was taken back between the check of the payment
\* and the check of the deadline (preview.ts: requirePaidPreview, then requireTime).
THEOREM RunsPaid == Spec => RunsBeginPaid
<1>1. IInv /\ [Next]_vars => [\A v \in Versions : evaluated'[v] # evaluated[v] => request[v].state = "paid"]_vars
  BY OnlyRequireTimeBegins
<1> QED BY <1>1, Inductive, PTL DEF Spec, RunsBeginPaid
=============================================================================
