------------------------------- MODULE Evidence -------------------------------
(***************************************************************************)
(* The evaluation of one Run, from COLLECTING to COMPLETED: the collection,*)
(* analysis and reporting reconcilers (internal/reconcile), the Jobs of    *)
(* the two stages (internal/kubernetes/stage_job.go), the artifact         *)
(* registry (internal/postgres/artifacts.go), the objects in storage       *)
(* (internal/objectstore), the baseline the policy selects (module         *)
(* Baseline) and the publication of the report to the system that asked    *)
(* for the Run (internal/app/report_publication.go and                     *)
(* internal/postgres/integration_publication*.go).                         *)
(*                                                                         *)
(* Two or more workers attempt the Run. Module ClaimStore shows what a     *)
(* lease is worth; here it is the name of its holder, and it may pass to   *)
(* another worker at any time. Only advancing the Run is fenced by it:     *)
(* Jobs are created, artifacts registered and reports published by whoever *)
(* still runs. An attempt may end in an error after any of its calls, the  *)
(* call having had its effect or not.                                      *)
(*                                                                         *)
(* What a Job publishes is a document under the Run's fixed key: the       *)
(* artifact identifier its publisher chose, the defect a collector has to  *)
(* find in it, if any, whether the baseline is among its references,       *)
(* and whether its creation is dated after the reservation of its          *)
(* publication event (the producer's clock runs ahead of the database's).  *)
(* The sources a raw manifest lists are objects of their own, which may    *)
(* become visible after it and may not be what it says of them.            *)
(***************************************************************************)
EXTENDS Naturals, FiniteSets, Baseline

CONSTANTS Workers,
          NSources,        \* source artifacts listed by the raw manifest
          Deletable,       \* bound: the stages whose Jobs others may delete
          MaxDeletions     \* bound: how often they do

ASSUME EvidenceAssumption == NSources \in Nat \ {0} /\ MaxDeletions \in Nat
                             /\ Deletable \subseteq {"normalized", "report"}

VARIABLES state,           \* the Run's state
          holder,          \* the worker whose lease is current
          at,              \* the attempt of each worker
          registered,      \* the artifact registry
          object,          \* the published document of each kind
          source,          \* the objects of the sources the raw manifest lists
          job,             \* the Job of each stage
          baseline,        \* the version the policy selects, of another Run
          candidate,       \* the evidence of the baseline created from this Run
          reservation,     \* integration_publication_events
          publication,     \* integration_analysis_publications
          participates,    \* the Run was admitted with native and verification evidence
          deletions

storeVars == <<object, source, job, baseline, candidate, participates, deletions>>

evidenceVars == <<state, holder, at, registered, reservation, publication, storeVars>>

Kinds == {"raw", "normalized", "report"}
Stages == {"normalized", "report"}        \* named for what their Jobs publish
Sources == 1..NSources
None == [none |-> TRUE]
Nobody == "nobody"

\* What may be wrong with a document: the envelope contradicts itself, or it is not the
\* evidence the control plane expects.
Defects(kind) == CASE kind = "raw" -> {"artifacts", "producer"}
                   [] kind = "normalized" -> {"results", "provenance"}
                   [] kind = "report" -> {"comparisons", "verdict"}

\* What a publisher may write: a Job created anew chooses a new identifier or an old one.
Documents(kind, number, refs) ==
    [id : 1..number,
     defect : Defects(kind) \union {"none"},
     refs : {refs},
     ahead : IF kind = "report" /\ participates THEN BOOLEAN ELSE {FALSE}]

\* The document a state's reconciler is after.
Wanted(s) == CASE s = "COLLECTING" -> "raw"
               [] s = "ANALYZING" -> "normalized"
               [] s = "REPORTING" -> "report"

Following(s) == CASE s = "COLLECTING" -> "ANALYZING"
                  [] s = "ANALYZING" -> "REPORTING"
                  [] s = "REPORTING" -> "COMPLETED"

Evaluated == {"COLLECTING", "ANALYZING", "REPORTING"}

Idle(w) == at[w] = None

Qualified == BaselineTransition(NewBaseline(1), "QUALIFIED", 1)

\* A Run that was admitted for another system was admitted with an approved baseline.
EvidenceInit ==
    /\ state = "COLLECTING" /\ holder = Nobody
    /\ at = [w \in Workers |-> None]
    /\ registered = {}
    /\ object = [k \in Kinds |-> None]
    /\ source = [i \in Sources |-> "absent"]
    /\ job = [s \in Stages |-> None]
    /\ participates \in BOOLEAN
    /\ baseline = IF participates THEN BaselineTransition(Qualified, "APPROVED", 1) ELSE Qualified
    /\ candidate = None
    /\ reservation = None /\ publication = None
    /\ deletions = 0

-----------------------------------------------------------------------------
(* Claims and the end of attempts *)

\* What worker w has come to.
SetAttempt(w, a) == at' = [at EXCEPT ![w] = a]

\* A raw manifest is looked for at once; the other stages begin with the registry.
FirstCall == IF state = "COLLECTING" THEN "inspect" ELSE "list"

NewAttempt ==
    [state |-> state, pc |-> FirstCall, plan |-> FALSE, doc |-> None, next |-> 1,
     event |-> None]

Start(w) ==
    /\ state \in Evaluated
    /\ Idle(w)
    /\ holder' = w
    /\ SetAttempt(w, NewAttempt)
    /\ UNCHANGED <<state, registered, reservation, publication, storeVars>>

\* A worker claims the Run while nobody works on it.
Claim(w) == holder = Nobody /\ Start(w)

\* The holder's lease has lapsed under its attempt.
TakeOver(w) == holder # Nobody /\ Start(w)

\* The attempt ends; a lease that is still its own is given back or lapses.
Stop(w) ==
    /\ SetAttempt(w, None)
    /\ holder' = IF holder = w THEN Nobody ELSE holder

\* An attempt ends without result: an error, a timeout, a lost process.
GiveUp(w) ==
    /\ ~Idle(w)
    /\ Stop(w)
    /\ UNCHANGED <<state, registered, reservation, publication, storeVars>>

\* The attempt goes on with its next call.
Go(w, pc) ==
    /\ SetAttempt(w, [at[w] EXCEPT !.pc = pc])
    /\ UNCHANGED holder

\* advanceOwnedClaim: refused unless the lease is held and the Run is as claimed.
AdvanceOwned(w, to) ==
    state' = IF holder = w /\ state = at[w].state THEN to ELSE state

Finish(w, to) ==
    /\ AdvanceOwned(w, to)
    /\ Stop(w)
    /\ UNCHANGED <<registered, reservation, publication, storeVars>>

-----------------------------------------------------------------------------
(* Collecting, verifying and registering a document *)

Failure(s) == IF s = "COLLECTING" THEN "TEST_FAILURE" ELSE "INFRASTRUCTURE_FAILURE"

\* The attempt ends and is repeated after RetryAfter.
Retry(w) ==
    /\ Stop(w)
    /\ UNCHANGED <<state, registered, reservation, publication, storeVars>>

At(w, pc) == ~Idle(w) /\ at[w].pc = pc

\* Mutation: an object that is not there yet is taken for an invalid one.
MissingFails(w) == Finish(w, Failure(at[w].state))

\* ErrArtifactsNotReady, ErrAnalysisPending and ErrReportPending.
Missing(w) == Retry(w)

\* The collector inspects the metadata of the published object.
Inspect(w) ==
    LET kind == Wanted(at[w].state) IN
    /\ At(w, "inspect")
    /\ IF object[kind] = None THEN Missing(w)
       ELSE /\ SetAttempt(w, [at[w] EXCEPT !.pc = "verify", !.doc = object[kind]])
            /\ UNCHANGED <<state, holder, registered, reservation, publication, storeVars>>

\* The bytes read are those of the reference that was resolved.
SameBytes(kind, doc) == object[kind] = doc

\* rawresult.Parse: the artifacts the manifest lists are a sound set, and its own.
ParseRawResult(doc) == doc.defect # "artifacts"

\* The Run, the test and the tool the manifest names are those of the reviewed entry.
ApproveRawManifest(doc) == doc.defect # "producer"

\* The manifest itself: its bytes, what they say and who says it.
RawManifest(doc) ==
    SameBytes("raw", doc) /\ ParseRawResult(doc) /\ ApproveRawManifest(doc)

\* normalizedresult.Parse: measurements, units and validity agree with each other.
ParseNormalizedResult(doc) == doc.defect # "results"

\* What was normalized is what the registered raw manifest describes.
matchesRawProvenance(doc) == doc.defect # "provenance"

CollectNormalizedArtifact(doc) ==
    SameBytes("normalized", doc) /\ ParseNormalizedResult(doc) /\ matchesRawProvenance(doc)

\* analysisresult.Parse: the comparisons and the outcome drawn from them agree.
ParseAnalysisResult(doc) == doc.defect # "comparisons"

\* The verdicts are those the policy demands of the reported comparisons.
ApproveReportVerdicts(doc) == doc.defect # "verdict"

\* The references of a report: the selected baseline, if it is approved now.
ResolveReportPlan == Approved(baseline)

\* The plan is resolved again, after the Job has run.
ApproveReportManifest(doc) == doc.refs = ResolveReportPlan /\ ApproveReportVerdicts(doc)

CollectReportArtifact(doc) ==
    SameBytes("report", doc) /\ ParseAnalysisResult(doc) /\ ApproveReportManifest(doc)

Approves(kind, doc) ==
    CASE kind = "raw" -> RawManifest(doc)
      [] kind = "normalized" -> CollectNormalizedArtifact(doc)
      [] kind = "report" -> CollectReportArtifact(doc)

\* An approved manifest is no evidence yet: its sources are read.
AfterApproval(s) == IF s = "COLLECTING" THEN "sources" ELSE "register"

Verify(w) ==
    /\ At(w, "verify")
    /\ IF Approves(Wanted(at[w].state), at[w].doc)
       THEN /\ Go(w, AfterApproval(at[w].state))
            /\ UNCHANGED <<state, registered, reservation, publication, storeVars>>
       ELSE Finish(w, Failure(at[w].state))

\* CollectRawArtifacts reads the next source: one that is not there yet is waited for, one
\* that is not what the manifest says fails the test, and after the last all are registered.
CollectSource(w) ==
    LET i == at[w].next IN
    /\ At(w, "sources")
    /\ \/ source[i] = "absent" /\ Missing(w)
       \/ source[i] = "damaged" /\ Finish(w, Failure(at[w].state))
       \/ /\ source[i] = "intact"
          /\ SetAttempt(w, IF i = NSources THEN [at[w] EXCEPT !.pc = "register", !.next = 1]
                           ELSE [at[w] EXCEPT !.next = i + 1])
          /\ UNCHANGED <<state, holder, registered, reservation, publication, storeVars>>

Of(kind) == {a.doc : a \in {b \in registered : b.kind = kind}}

\* What is registered next: the sources a raw manifest lists, then the document.
NextArtifact(a) ==
    IF a.state = "COLLECTING" /\ a.next <= NSources
    THEN [kind |-> "source", doc |-> [id |-> a.next]]
    ELSE [kind |-> Wanted(a.state), doc |-> a.doc]

\* An identifier is bound to one reference for ever.
ArtifactConflict(artifact) ==
    \E doc \in Of(artifact.kind) : doc.id = artifact.doc.id /\ doc # artifact.doc

\* Where an attempt goes on once an artifact is registered.
AfterRegistering(artifact) ==
    CASE artifact.kind = "source" -> "register"
      [] artifact.kind = "report" -> "publish"
      [] OTHER -> "advance"

\* RegisterArtifact, by the reconcilers: a repeated registration changes nothing.
Register(w) ==
    LET artifact == NextArtifact(at[w])
    IN  /\ At(w, "register")
        /\ IF ArtifactConflict(artifact) THEN Stop(w) /\ UNCHANGED registered
           ELSE /\ UNCHANGED holder
                /\ registered' = registered \union {artifact}
                /\ SetAttempt(w, [at[w] EXCEPT !.pc = AfterRegistering(artifact),
                                               !.next = at[w].next + 1])
        /\ UNCHANGED <<state, reservation, publication, storeVars>>

Advance(w) ==
    /\ At(w, "advance")
    /\ Finish(w, Following(at[w].state))

-----------------------------------------------------------------------------
(* The stage Jobs *)

\* The registered artifacts are what normalization needs, and at most its output.
analysisEvidence ==
    /\ Cardinality(Of("raw")) = 1 /\ Of("source") # {}
    /\ Cardinality(Of("normalized")) <= 1 /\ Of("report") = {}

\* There is one candidate, and at most one report.
reportingEvidence ==
    Cardinality(Of("normalized")) = 1 /\ Cardinality(Of("report")) <= 1

EvidenceInOrder(s) == IF s = "ANALYZING" THEN analysisEvidence ELSE reportingEvidence

\* The template of a normalization Job follows from the Run and its raw evidence alone.
ResolveAnalysisJob == FALSE

\* That of a report's Job names the references of the plan.
ResolveReportJob == ResolveReportPlan

ResolveJob(s) == IF s = "ANALYZING" THEN ResolveAnalysisJob ELSE ResolveReportJob

\* Where an attempt goes on with an output that is registered already.
AfterListing(s) == IF s = "REPORTING" THEN "publish" ELSE "advance"

\* The attempt lists the Run's artifacts. A registered output is used as it is; without
\* one the stage's Job is resolved, a report's from the baselines approved now.
List(w) ==
    LET s == at[w].state
        output == Of(Wanted(s))
    IN  /\ At(w, "list")
        /\ IF ~EvidenceInOrder(s) THEN Stop(w)
           ELSE /\ UNCHANGED holder
                /\ \/ /\ output = {}
                      /\ SetAttempt(w, [at[w] EXCEPT !.pc = "ensure", !.plan = ResolveJob(s)])
                   \/ \E doc \in output :
                         SetAttempt(w, [at[w] EXCEPT !.pc = AfterListing(s), !.doc = doc])
        /\ UNCHANGED <<state, registered, reservation, publication, storeVars>>

\* Mutation: a Job whose output is there already is taken for a leftover and replaced.
LeftoverReplaced(plan, stage) == job[stage] = None \/ job[stage].published

\* Create succeeds: no Job has the stage's name.
CreatedFor(plan, stage) == job[stage] = None

\* The how-manieth Job of the stage is created.
Number(stage) == IF job[stage] = None THEN deletions + 1 ELSE job[stage].number + 1

\* prepare: name, identity and fingerprint follow from the Run, the stage and the template.
NewStageJob(plan, stage) ==
    [plan |-> plan, phase |-> "active", published |-> FALSE, number |-> Number(stage)]

\* The fingerprint and the specification of the Job are those of the template.
matches(plan, stage) == job[stage].plan = plan

\* ensure: the Job is created, or the one that exists is adopted if it is the same.
EnsureJob(w) ==
    LET stage == Wanted(at[w].state)
        plan == at[w].plan
    IN  /\ At(w, "ensure")
        /\ IF CreatedFor(plan, stage)
           THEN /\ job' = [job EXCEPT ![stage] = NewStageJob(plan, stage)]
                /\ Stop(w)
                /\ UNCHANGED state
           ELSE /\ UNCHANGED job
                /\ CASE ~matches(plan, stage) \/ job[stage].phase = "active" ->
                            Stop(w) /\ UNCHANGED state
                     [] matches(plan, stage) /\ job[stage].phase = "failed" ->
                            AdvanceOwned(w, "INFRASTRUCTURE_FAILURE") /\ Stop(w)
                     [] matches(plan, stage) /\ job[stage].phase = "succeeded" ->
                            Go(w, "inspect") /\ UNCHANGED state
        /\ UNCHANGED <<registered, reservation, publication, object, source, baseline,
                       candidate, participates, deletions>>

-----------------------------------------------------------------------------
(* Publication of the report *)

Mine(w) == at[w].doc.id

\* The event of the request: the one that is reserved, or a new one, kept for ever.
ReserveAnalysisPublicationEvent(w) ==
    IF reservation = None THEN [event |-> w, report |-> Mine(w)] ELSE reservation

\* A retained publication is replayed for its own report.
ReplaysPublication(w) == publication.report = Mine(w)

\* PublishReport up to the resolved event: nothing to publish, a publication that is
\* retained, or the reserved event, which belongs to one report.
ResolveEvent(w) ==
    /\ At(w, "publish")
    /\ \/ /\ ~participates
          /\ Go(w, "advance")
          /\ UNCHANGED reservation
       \/ /\ participates /\ publication # None
          /\ IF ReplaysPublication(w) THEN Go(w, "advance") ELSE Stop(w)
          /\ UNCHANGED reservation
       \/ /\ participates /\ publication = None
          /\ reservation' = ReserveAnalysisPublicationEvent(w)
          /\ IF reservation'.report = Mine(w)
             THEN /\ SetAttempt(w, [at[w] EXCEPT !.pc = "retain", !.event = reservation'.event])
                  /\ UNCHANGED holder
             ELSE Stop(w)
    /\ UNCHANGED <<state, registered, publication, storeVars>>

\* The report is registered and its bytes are read once more.
PrepareAnalysisPublication(doc) == doc \in Of("report") /\ SameBytes("report", doc)

\* A publication may not be dated before the report it publishes.
BuildAnalysisPublication(doc) == ~doc.ahead

Publishable(doc) == PrepareAnalysisPublication(doc) /\ BuildAnalysisPublication(doc)

\* Mutation: a failed publication does not stop the completion.
RefusedAnyway(w) == Go(w, "advance")

Refused(w) == Stop(w)

\* MaterializeAnalysisPublication and RetainAnalysisPublication: retained once, and
\* replayed for the same event and report.
Retain(w) ==
    LET proposal == [event |-> at[w].event, report |-> Mine(w)] IN
    /\ At(w, "retain")
    /\ \/ /\ publication = None /\ Publishable(at[w].doc)
          /\ publication' = proposal
          /\ Go(w, "advance")
       \/ /\ publication = None /\ ~Publishable(at[w].doc)
          /\ Refused(w)
          /\ UNCHANGED publication
       \/ /\ publication # None
          /\ IF publication = proposal THEN Go(w, "advance") ELSE Refused(w)
          /\ UNCHANGED publication
    /\ UNCHANGED <<state, registered, reservation, storeVars>>

-----------------------------------------------------------------------------
(* The cluster, the storage, administrators and clients *)

runVars == <<state, holder, at, registered, reservation, publication, participates>>

\* Bound: the world is followed until the Run is closed. An attempt that outlives the Run
\* meets what was there by then.
Watched == state \in Evaluated

\* The output of the executed test becomes visible.
PublishRaw ==
    /\ Watched
    /\ object["raw"] = None
    /\ \E doc \in Documents("raw", 1, FALSE) : object' = [object EXCEPT !["raw"] = doc]
    /\ UNCHANGED <<runVars, source, job, baseline, candidate, deletions>>

\* A source of the test becomes visible, before or after the manifest that lists it.
PublishSource(i, as) ==
    /\ Watched
    /\ source[i] = "absent"
    /\ source' = [source EXCEPT ![i] = as]
    /\ UNCHANGED <<runVars, object, job, baseline, candidate, deletions>>

\* A stage's Job writes its document, before or after it is seen to have succeeded.
PublishOutput(stage) ==
    /\ Watched
    /\ job[stage] # None
    /\ ~job[stage].published
    /\ job[stage].phase # "failed"
    /\ \E doc \in Documents(stage, job[stage].number, job[stage].plan) :
          object' = [object EXCEPT ![stage] = doc]
    /\ job' = [job EXCEPT ![stage] = [job[stage] EXCEPT !.published = TRUE]]
    /\ UNCHANGED <<runVars, source, baseline, candidate, deletions>>

EndJob(stage, phase) ==
    /\ Watched
    /\ job[stage] # None
    /\ job[stage].phase = "active"
    /\ job' = [job EXCEPT ![stage] = [job[stage] EXCEPT !.phase = phase]]
    /\ UNCHANGED <<runVars, object, source, baseline, candidate, deletions>>

\* Others delete the Job; what it published stays.
DeleteJob(stage) ==
    /\ Watched
    /\ deletions < MaxDeletions /\ stage \in Deletable
    /\ job[stage] # None
    /\ job' = [job EXCEPT ![stage] = None]
    /\ deletions' = deletions + 1
    /\ UNCHANGED <<runVars, object, source, baseline, candidate>>

\* CreateBaseline: the source Run is completed and its normalized result registered.
CreateBaseline(doc) ==
    /\ state = "COMPLETED"
    /\ doc \in Of("normalized")
    /\ candidate = None
    /\ candidate' = doc
    /\ UNCHANGED <<runVars, object, source, job, baseline, deletions>>

\* TransitionBaseline of the selected version. Nothing reads it before REPORTING, so a
\* decision made earlier is the same as one made then.
TransitionBaseline(to) ==
    /\ state = "REPORTING"
    /\ BaselineTransitionAllowed(baseline, baseline.revision, to, 1)
    /\ baseline' = BaselineTransition(baseline, to, 1)
    /\ UNCHANGED <<runVars, object, source, job, candidate, deletions>>

\* The owner, or the recovery of an overdue request, cancels the Run. Bound: a Run that
\* lost a Job is not cancelled as well.
Cancel ==
    /\ state \in Evaluated
    /\ deletions = 0
    /\ state' = "CANCELLING"
    /\ UNCHANGED <<holder, at, registered, reservation, publication, storeVars>>

Work(w) ==
    \/ Inspect(w) \/ Verify(w) \/ CollectSource(w) \/ Register(w) \/ Advance(w)
    \/ List(w) \/ EnsureJob(w)
    \/ ResolveEvent(w) \/ Retain(w)

EvidenceNext ==
    \/ \E w \in Workers : Claim(w) \/ TakeOver(w) \/ GiveUp(w) \/ Work(w)
    \/ PublishRaw
    \/ \E i \in Sources, as \in {"intact", "damaged"} : PublishSource(i, as)
    \/ \E stage \in Stages :
          \/ PublishOutput(stage) \/ DeleteJob(stage)
          \/ \E phase \in {"succeeded", "failed"} : EndJob(stage, phase)
    \/ \E doc \in Of("normalized") : CreateBaseline(doc)
    \/ \E to \in BaselineStates : TransitionBaseline(to)
    \/ Cancel

EvidenceSpec == EvidenceInit /\ [][EvidenceNext]_evidenceVars

-----------------------------------------------------------------------------
(* Properties *)

\* A completed Run has its whole evidence registered, the raw manifest with its sources, the
\* normalized result and the report, all of them approved, and every source is in storage as the
\* manifest says. If it has an analysis to publish, the publication is retained, under the event
\* reserved for it and for a report that is registered. A baseline is created only from a Run
\* of which this is true, and keeps one of its results.
\* (CollectionReconciler, AnalysisReconciler and ReportingReconciler.Reconcile; PublishReport;
\* CreateBaseline.)
CompletedMeansPublished ==
    state = "COMPLETED" \/ candidate # None =>
        /\ \A i \in Sources : [id |-> i] \in Of("source") /\ source[i] = "intact"
        /\ \A kind \in Kinds : Of(kind) # {} /\ \A doc \in Of(kind) : doc.defect = "none"
        /\ participates => /\ publication # None /\ publication = reservation
                           /\ \E doc \in Of("report") : publication.report = doc.id
        /\ candidate # None => candidate \in Of("normalized")

\* However many attempts overlap, those that have lost their lease included, a stage has one
\* Job at a time and a Job one output: documents of a kind are registered no more often than
\* the stage's Job was created. (stageJobDispatcher.ensure, RegisterArtifact.)
OneOfAKind ==
    /\ Cardinality(Of("raw")) <= 1
    /\ \A stage \in Stages : Cardinality(Of(stage)) <= deletions + 1

\* Nothing went wrong: what was published is in order, no Job failed or was deleted, and the
\* references of the report's Job have not been overtaken by a decision on the baseline.
Undisturbed ==
    /\ deletions = 0
    /\ \A kind \in Kinds : object[kind] # None => object[kind].defect = "none"
    /\ \A i \in Sources : source[i] # "damaged"
    /\ \A stage \in Stages : job[stage] # None => job[stage].phase # "failed"
    /\ job["report"] # None =>
          (job["report"].plan = Approved(baseline)) /\ baseline.state # "RETIRED"

\* A Run is failed for a reason: not because storage shows an object later than the Job that
\* wrote it is seen to have succeeded, or a source later than the manifest that lists it, nor
\* because two attempts are at work on it. (ErrArtifactsNotReady, ErrAnalysisPending and
\* ErrReportPending against ErrInvalidArtifacts, ErrAnalysisFailed and ErrReportFailed.)
LagIsNotFailure ==
    Undisturbed => state \notin {"TEST_FAILURE", "INFRASTRUCTURE_FAILURE"}

=============================================================================
