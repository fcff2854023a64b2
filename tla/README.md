# TLA+ models of the performance control plane

This directory holds formal models of the control plane in this repository, TLC
configurations that check them on small instances, and TLAPS proofs of the
properties that matter most for instances of any size. `PROJECT.json` lists the
components, the runs, which lines each definition translates, the hazards the
properties are aimed at, and the theorems.

    tlc -workers 2 -config ClaimStore.cfg ClaimStore       # one run
    tlapm ClaimStoreProofs.tla                             # one module of proofs

## 1. The system

The control plane accepts requests to run a performance test, executes them and
evaluates the evidence. Everything durable is in PostgreSQL; workers are
interchangeable processes that poll it; the tests themselves execute in
Kubernetes Jobs or on native Linux workers.

| Part | State | Operations | Module |
| --- | --- | --- | --- |
| Run lifecycle (`internal/run`, `internal/contract`) | a Run: state, revision, failure, timestamps | Transition, RequestCancellation | Lifecycle, RunLifecycle |
| Acceptance (`postgres/repository.go`) | runs, idempotency bindings | Accept | Acceptance |
| Reconciliation store (`postgres/claims.go`) | runs, reconciliation leases | ClaimRuns, RenewClaim, ReleaseClaim, AdvanceClaim | ClaimStore |
| Worker engine (`internal/worker`) | the loop, its active set, one goroutine per attempt | poll, renew, finish, shut down | WorkerEngine |
| Reconcilers up to collection (`internal/reconcile`), Job adapter (`internal/kubernetes`) | Jobs, Pods, bound identities | validate, provision, bind, observe, cancel | Dispatch |
| Benchmark targets (`postgres/benchmark_*.go`, `reconcile/benchmark_*.go`) | reservations, namespaces, cleanup audit | reserve, bind, seal, clean up, release | BenchmarkTarget |
| Evidence pipeline (`reconcile/collection.go`, `analysis.go`, `reporting.go`) and publication (`app/*publication*.go`) | artifacts, stage Jobs, objects, publication events | collect, normalize, report, publish | Evidence |
| Native workers (`internal/nativeworker`, `postgres/native_*.go`) | presence, leases, grants, artifacts, reports | acquire, renew, release, upload, register, report | NativeLease |
| Performance integration (`postgres/integration*.go`) | requests, delivery events | admit, cancel, recover | Integration |
| Baselines (`internal/baseline`, `postgres/baselines.go`) | baseline versions | create, transition | Baseline |
| Runtime (`internal/app`) | server and worker of one process | start, stop | (WorkerEngine!Shutdown) |

What makes it hard:

* a lease fences writes to the store but neither effects in the cluster nor the
  registration of artifacts and publications;
* a commit or an API call may have its effect while the caller sees a failure;
* clients cancel at any moment, in particular between a worker's read and write;
* leases expire under slow workers, and processes die at any point;
* Jobs outlive the attempt that created them, may be deleted by others, and are seen to
  succeed before or after what they wrote is visible;
* the wall clock may be set back, and clocks are read before or after locks;
* administrators approve and retire the baselines that admissions and reports rely on.

What must be true of it, in short: a Run goes through the published lifecycle and
is closed once; work is never lost and never done by two owners; a Run has at
most one execution, and cancelling it ends that execution and nothing else;
retrying a create or a request never starts a second Run; a completed Run has all
its evidence; and what is started is eventually finished.

## 2. The modules

    Lifecycle                                 table and transitions
        |
        +-- RunLifecycle --+                  one stored Run with its timestamps
        |   Baseline ------+-- Integration -- AdmissionProofs   performance requests
        |        \____________ Evidence ----- EvidenceProofs   collection to publication
        +-- NativeLease ------ NativeProofs   native workers
        +-- ClaimStore ------- ClaimStoreProofs   store, leases and claims
              |  \____________ PublicRun      (refined: what clients are promised)
              +-- WorkerEngine ---- WorkerProofs      the engine on the store
              +-- Dispatch -------- DispatchProofs    reconcilers on store and cluster
              +-- BenchmarkTarget - BenchmarkSteps -- BenchmarkProofs   benchmarks on both
    Acceptance --------------- AdmissionProofs   idempotent creation

A module `MC...` adds what TLC needs (symmetry, values of function constants).

**Lifecycle** has the transition table, the guard and the effect of
`Run.Transition` and of `Run.RequestCancellation` as operators. A Run is its
state, revision and failure code. **RunLifecycle** adds timestamps and the exit
code and lets callers with any revision they may have read create, cancel and advance
one Run, with any reading of the clock.

**ClaimStore** is `run.ReconciliationStore`. Each operation is one transaction
that locks the Run row before it reads the clock and the lease, so each is one
action. `runs` and `leases` are the tables, `held` the Runs with an unreleased
benchmark reservation, `claims` what workers hold in memory. Deadlines are kept as
the time that is left (0 is reached), and `Tick` lets one unit pass. A token is
random in the program; here a new token of a Run is any value that differs from all
tokens of that Run still in use, which keeps `Tokens` finite. In `ClaimRuns`, `batch`
is what is leased and `kept` what the worker goes on with: an empty `kept` is an
answer that was lost. **PublicRun** says what a client may observe (accepted,
executing, evaluating, closed); `ImplementsPublicRun` of ClaimStore is the refinement, and that of RunLifecycle
the same for the Run of RunLifecycle and Integration.

**WorkerEngine** is `worker.go`: `loop` is the state of `Run` (its position, its
context, `active`, and what the range over `active` has yet to produce), `att` the
goroutine `process` of each attempt. A `select` is a disjunction. A renewal is three
steps, the timer (`RenewalDue`), its effect in the store (`RenewalTakesEffect`) and its answer
(`Renewed`, `RenewFails`), with any delay between them: `since` is the time since the last one
took effect, and time passes (`Elapse`) whether or not a renewal is due or awaited. Reconcile is
any sequence of operations that its claim authorizes.

**Dispatch** is the path of a Run to its Job and back, one action per call that
leaves the process: between two calls of an attempt everything else may happen.
`att` is an attempt with its program counter, its context (`live`) and deadline
(`timed`, `left`); `exec` is the stored identity; `job`, `pods`, `created` and
`inflight` are the cluster, and `late` the Jobs whose create was executed late. The
cluster's own actions (creating late, running, finishing, collecting, deletion by others)
are modelled from how the code uses it. Two constants choose the cluster: `LateCreates`
(a create may be executed after its client gave up) and `Cascades` (how others delete Jobs).

**BenchmarkTarget** is `BenchmarkReconciler` with the reservation table and the cluster
of a contained benchmark, again one action per call. `res` is a reservation: what has been
materialized, the stage of its cleanup (absent, held, started, fenced, released), the time
left on its drain clock and the outcome cleanup has frozen. An effect on the cluster
follows a fence (`Fence`: the claim is renewed and Run and reservation are read again), and
between the two anything may happen. `cluster` is the Run's namespace, quota, authority,
Job, executor and workload Pods; `flight` holds requests the API server may still execute
after their sender gave up, for at most `RequestBound`, which the code verifies on the server's
command line and which is shorter than `Grace`. The Kubernetes authority of an executor (roles,
bindings, account, inputs) is the set `Objects`. What happens before a reservation and after its
release is left to the ordinary router (`Fallback`). In ClaimStore, `HoldTarget` and
`FreeTarget` are the two operations that change `held`.

**Acceptance** is `Repository.Accept`, one action per statement, with the advisory
lock, and callers that retry after failures they cannot interpret.

**NativeLease** is the Native Worker API with its tables. A store operation locks the
worker, the Run and the lease row and then reads the clock, so it is one action; an
acquisition (poll, then acquire) and a registration (verify the object, then register) are
two, since they read outside the transaction that writes. `mem` is what a worker was told,
with its own countdown: it executes while that is positive. Any answer may be lost, a worker
may restart and discover its slot, and objects may be written late with an old grant.

**Baseline** has the lifecycle of a baseline version as operators. **Integration** is the
admission of a request by another system: it holds the advisory locks of its event and of its
request from `Begin` to `Commit`, and a share lock on the baseline from `Review` on, so the
three are separate actions. Its Run is the one of RunLifecycle. `Requests` all name the same attempt,
which only one of them may take. Cancellation and the recovery of overdue requests are one
transaction each.

**Evidence** takes one Run from COLLECTING to COMPLETED. What a lease is worth is shown in
ClaimStore; here it is the name of its holder, and it may pass to another worker at any
call. Only advancing the Run depends on it: Jobs are created, artifacts registered and reports
published by whoever still runs. A document is its identifier, its references, the one check
that would reject it (`defect`) and, for a report, whether it is dated after its event. The
source objects a raw manifest lists appear in storage one by one (`source`: absent, damaged or
intact), before or after the manifest, and are read one by one once the manifest is approved
(`CollectSource`): one that is absent makes the attempt come back, one that is damaged fails the Run.

Each module also contains a few definitions marked *Mutation*: variants of a
definition with a plausible mistake. Each property is violated when the mutation
`PROJECT.json` names for it takes the place of the original, which shows that the
property depends on that piece of the code.

## 3. What is checked

| Run | Instance | Shows |
| --- | --- | --- |
| `claim_store` | one Run, two workers, with fairness | the fencing properties (`RevisionIdentifiesSnapshot`, `TokensIdentifyHolders`, `DeadClaimsStayDead`), `TerminalRunsAreFinal`, the refinement of PublicRun, and `LostWorkIsRediscovered` |
| `worker` | two Runs, one process with two slots, renewals of any delay, with fairness | `RenewedAttemptsOwnTheirRun`, `SlotsCoverAttempts`, `SlotsAreFreed`, `ShutdownCompletes`, and the engine refines ClaimStore (`UsesTheStore`) |
| `worker_shutdown` | two Runs, one process | **violated**: `ShutdownWaits` (section 5) |
| `dispatch` | one Run, two workers, Jobs deleted by others | `NeverReplaced`, `AbortedMeansStopped`, `EvaluationFollowsExecution`, `CancellationWins` |
| `dispatch_progress` | one worker, creates executed late, with fairness | `StopsOnlyTheBoundJob`, `CancellationCompletes`, `ExecutionCompletes`, and the reconcilers refine ClaimStore |
| `acceptance` | two callers, keys and requests | `RetriesNeverDuplicate`, `AnswersMatch`, `BoundForItsTerm` |
| `benchmark_target` | one Run, two workers, requests executed late, Jobs deleted by others | `CleanUnlessHeld`, `CleanupBetweenCollectionAndAnalysis`, `NeverReplaced` |
| `benchmark_progress` | one worker, Jobs deleted by others, with fairness | `CancellationWins`, `TargetsAreFreed` |
| `benchmark_late_namespace` | one worker, requests executed late, with fairness | **violated**: `TargetsAreFreed` (section 5) |
| `native` | one Run, two workers, two attempts, two artifact slots | `ExecutorsHoldTheLease`, `EvidenceStays`, `ReportsAreAnswered`, `CancellationWins` |
| `integration` | two requests for one attempt, two events, two contexts, an exit code, a clock that may be set back | `AnswersAreStable`, `ApprovedWhenAdmitted`, `OverdueRunsAreCancelled`, and of the Run `CapNeverStrandsARun`, `ClosedConsistently`, `HistoryMonotone` |
| `evidence` | one Run, two workers, two source objects, a report Job that others may delete | `CompletedMeansPublished`, `OneOfAKind`, `LagIsNotFailure` |

**Bounds.** Runs do not interact in the store except through a worker's capacity,
so one Run is enough wherever capacity is not the question. Two workers are the
smallest number with a stale and a current owner; a third adds only another stale
one. With two tokens a worker waits for a stale attempt to end before it claims the Run a
third time; the proofs cover any number. A lease of two units lets a claim be fresh, old and
expired. Two Job UIDs are the bound Job and another one. `MaxRevision = 10` is the length of
the longest path through the lifecycle, the smallest cap that `CapNeverStrandsARun` can hold
for; the program's is far larger, and the proof covers every cap from 10 on.
`Targets` limits the states Reconcile moves a Run to in WorkerEngine, which does not look
at them beyond CANCELLING; in `worker` it is the one that closes a Run. `Eventful` are the Runs
that clients cancel and on whose claim Reconcile writes; in `worker` that is one of the two, the other
one takes a slot, is renewed, lost and claimed again beside it. That two processes compete is covered by
the proofs (section 4).

In the benchmark runs `Grace` exceeds `RequestBound` by one unit, as little as the assumption
allows, and one object stands for the authority. They have one Run; that Runs do not share
a target is the subject of a theorem. In `native`, `Phases` and `Reasons` are what workers
report and why they release: the phase RUNNING crosses several states at once, and the two
reasons are one that closes a cancelled Run and one that gives a Run back. `Uploads` makes one worker the
uploader, the other one only competes with it; an attempt identifier that nobody refers to any more
is drawn again. In `integration`, one context is catalogued and one is dated later and names an unsupported
revision, so that every disposition occurs. In `evidence`, two source objects stand for those a raw
manifest lists, so that one can be there and the other not; `Deletable` and `MaxDeletions` let others delete the report's Job once, which makes a second
document of a kind possible; the world is followed until the Run is closed (`Watched`), and a Run that lost
a Job is not cancelled as well.

**Deadlock** is not checked: once every Run is closed and nothing is leased, there is
nothing left to do.

**Fairness.** In ClaimStore: time passes; attempts end, because Reconcile is bounded
and its context is cancelled with its lease; a Run that is eligible again and again is
claimed (strong fairness, for another worker's poll may take the slot first).
In WorkerEngine: a call of the store ends with an answer or with an error, because its context
does; goroutines that can proceed do; a result that stays in `done` is taken at some time, although
the renewal timer may be ready as well (strong fairness: `select` chooses among ready channels at
random); nothing is assumed of time, signals, crashes, clients or what the store answers. In Dispatch: failures (`Fault`) may happen any
number of times but not for ever; from then on goroutines proceed, leases are renewed
before they end, and the Job controller and the garbage collector work. BenchmarkTarget assumes
the same, and of the quota controller and the kubelet that they do what was asked; nothing is
assumed of clients, nor that workload Pods end. A step that
looks like a failure but is also what a successful call does is not counted as a
failure, or `Fault` would exclude behaviours of a healthy system. In Integration: the recovery loop,
which polls for ever, is not for ever prevented from recovering a request. NativeLease and Evidence
state no liveness: nothing in the program obliges a native worker to come back, and a Run in REPORTING may
rightly wait for ever for an administrator's or a producer's mistake to be undone (section 6).

## 4. What is proved

Every theorem is about any sets of Runs, workers, tokens, callers, requests and so on, and any
timing that satisfies the named ASSUMEs of the modules; TLC evaluates those on every run. Each
inductive invariant was an invariant of TLC runs before it was proved. Each module of proofs follows the
same plan: lemmas on the operators, a lemma per action that says what the action does to the
variables the invariant speaks of, one case per action, and a last step in temporal logic.

**ClaimStoreProofs** (assumes a positive lease time and capacity)

* `StoreInvariant`, the inductive invariant `IInv`: `StoreTypeOK`, `RevisionIdentifiesSnapshot`
  and `TokensIdentifyHolders` together. Neither of the last two is inductive without types, and the
  token property needs that a new token differs from every held one.
* `RevisionsIdentifySnapshots`, `TokensIdentifyTheirHolders` and `TypeCorrect` follow.
* `TerminalRunsStayClosed`: no edge leaves a terminal state and cancellation refuses one.
* `DeadClaimsAreNeverRevived`: a claim is revived only by a lease row with its token and a
  later expiry; a grant has a new token, and an extension needs a claim that is accepted,
  which by the invariant is the same claim.
* `StoreImplementsPublicRun`: Init implies the abstract Init, and each action is an abstract
  step or leaves every phase unchanged.
* `CapStrandsNoStoredRun`: no Run reaches `MaxRevision`, where `Transition` and `RequestCancellation` would refuse
  the write that closes it. A revision is at most the depth of the state in the lifecycle, and each edge leads
  at least one deeper; so the assumption `MaxRevision >= 10` is all it takes.

**WorkerProofs** (assumes what the configuration enforces, `2 * RenewEvery <= LeaseTTL`, and nothing of the time
a renewal takes)

* `EngineUsesTheStore`: every step of the engine is a step of ClaimStore or leaves the store
  alone, so all of the above holds for it: `EngineKeepsThePromises` draws the conclusion (the refinement of PublicRun,
  closed Runs, dead claims, tokens and the revision cap).
* `RenewedAttemptsAreOwners` and `SlotsCoverTheirAttempts` from `WorkerInv`: slot, goroutine and claim of an attempt
  come and go together, and as long as less than a lease has passed since the renewal an attempt goes on from
  took effect, its lease row has at least `LeaseTTL` minus that time left. Ownership alone is not inductive: without the
  second part time could end the lease earlier. Nothing stops an attempt whose renewal is awaited for longer
  than its lease: it goes on beside the next owner, and what the theorems say of it is that the store refuses its
  writes (`EngineKeepsThePromises`) and that it takes its slot until it has returned (`SlotsCoverTheirAttempts`).

**DispatchProofs** (assumes `2 * AttemptTimeout <= LeaseTTL`, which the configuration enforces)

* `DispatchInvariant`: `DispatchInv`. Creating a Job is not fenced by a lease; what takes the place of a
  fence is time. An attempt that can still create or bind renewed its lease less than `AttemptTimeout` ago,
  so `leases[r].expires + AttemptTimeout >= LeaseTTL + left` (`Timely`), and nobody else can have been granted
  one since. What such an attempt has read is then still true (`Trusting`: no identity is stored, the Job it
  found is the only one, nothing of a cancelled Run is left). What an attempt without a lease may still know
  is what stays true for ever (`Knowing`: the stored identity, that the bound Job has finished). The rest relates the claimed
  state to the stored one (`Following`), counts Jobs (`Counted`), and says what a Run's state says of the
  cluster (`Situated`).
* `BoundJobIsNeverReplaced`, `AbortedRunsHaveStopped`, `CollectionFollowsExecution`, `CancelledRunsAreAborted` and
  `DispatchUsesTheStore` follow, for both kinds of cluster and any way others delete Jobs; and from the last of them,
  `DispatchKeepsThePromises`, as for the engine.
* `OnlyTheBoundJobIsStopped` assumes that nobody else deletes in the foreground: such a deletion marks a Job in
  the same way as the program's own.

**BenchmarkSteps and BenchmarkProofs** (assume `RequestBound < Grace` and the above on timeouts)

* `BenchmarksUseTheStore`: every step is a step of ClaimStore or leaves the store alone. What the frozen
  outcome may be (`OutcomeIsChange`) needs that a Run which holds a target exists (`HoldersExist`).
  `BenchmarksKeepThePromises` follows, as for the engine.
* `TargetHasOneHolder`: at most one Run has an unreleased reservation. A hold is taken only
  when nobody else has one, and every other write to the table is the holder's.
* `BenchmarkInvariant`: `BenchmarkInv`, of which BenchmarkSteps shows that the reconciler's calls to the cluster and
  to the reservation table preserve it, and BenchmarkProofs the rest. What is left in the cluster is decided by calls that an attempt
  makes one after the other, and each of them relies on what the earlier ones found, although the attempt
  may be overtaken in between. The invariant therefore has two halves. For a Run (`InOrder`): what the stage of its
  reservation says of the cluster and of the requests in flight (`Situation`), of the Run's state (`Staging`) and of the
  stored identity (`Faithful`). For an attempt that still makes calls (`Fits`): it has the lease for longer than its own
  deadline (`Leased`), so that nobody else writes the Run's rows meanwhile, and what each call relies on
  (`Placed`, `Routed`, `Binding`). A request in flight needs no lease; that none is executed
  after the release is a matter of time: once cleanup has started, what was sent before is over earlier than the drain
  clock (`Spent`, which is where `RequestBound < Grace` is used), and when the fence is recorded workload Pods are
  barred by a closed quota, or there is nothing that could start one (`Barred`).
* `TargetIsCleanUnlessHeld`, `CleanupComesBetween` and `CancelledBenchmarksAreAborted` follow, and with the one holder
  `TargetIsUsedByOne`: two Runs never use the target at the same time.
* `BoundJobIsNeverReplaced`: once a Job is bound its identity stays, no request to create the Run's Job is sent any more, and
  a Job of another UID can only come from a create that was already on its way. It holds for any `RequestBound`, because a
  create is sent only for a Run without a bound Job, and the lease that fences it outlasts the attempt (`Leased`,
  `Binding`). Such a create can indeed bring a second Job of the name once others have deleted the first; with
  `RequestBound = 0` there is none, and the bound Job is the only one (`BoundJobIsTheOnlyOne`).

**AdmissionProofs** (the two ways a Run comes to exist)

* `RetriesMakeNoDuplicate`, `AnswersAreTheCallers` and `RunsStayBound` from `AcceptInv`: the caller that holds
  the lock has read the clock and the binding under it, so the binding it has seen is the stored one and the
  time it has read is not older than any Run of the key (`CallOK`); a key is bound to its last Run, and
  earlier ones are a term older (`BindingOK`).
* `CapStrandsNoIntegratedRun`, `IntegratedRunsAreConsistent` and `IntegratedRunsAreMonotone`: Integration moves its Run only as RunLifecycle
  does (`IntegrationMovesTheRun`), and of RunLifecycle `RunInv` is inductive: a revision is never larger than the
  depth of the state in the lifecycle, which is at most nine for an open Run.
* `RunsImplementPublicRun`: a Run that is moved by `Transition` and `RequestCancellation` alone already does what
  PublicRun promises, because each edge of the table is a step of PublicRun or stays within a phase
  (`EdgeIsPromised`); `IntegratedRunsImplementPublicRun` carries it over to Runs admitted for another system.
* `AdmissionAnswersAreStable` and `AdmissionSeesTheBaseline` from `AdmissionInv`: an admission that will insert a Run
  shares the row of an approved baseline until it commits.

**NativeProofs**

* `NativeExecutorsHoldTheLease` and `NativeWorkersOccupyOneSlot` from `NativeInv`: a worker's own countdown never
  exceeds the one of the lease row it was told of, and a worker has one unreleased, unexpired row.
* `NativeCancellationWins`, and `NativeReportsAreAnswered` from the fact that a reported Run has left CREATED for
  good, so that its lease row is never given to another attempt (`ReportInv`).
* `NativeEvidenceStays` from `FileInv`: what is registered, or verified and about to be registered, was uploaded by the
  attempt it is registered for, because an object's key names its attempt and a late write repeats what that attempt
  declared (`FilesVerified`); and the lease of a Run that has reported is over, so that a registration that was under way
  when the report was accepted is refused (`Reported`). `EvidenceStays` alone is not inductive: it says nothing of a
  registration between its two steps.
* `NativeWritesFollowTheLifecycle`: a native write may cross several states (a worker may report a later phase
  first, and a report closes the Run from wherever it is), and `Walk` says that it takes an edge of the table, and a
  revision, for each of them. PublicRun is therefore not refined here: a client that looks between two writes may
  see an accepted Run evaluated without having seen it execute.
* `NativeTerminalRunsStayClosed`, and `NativeRunsStayBelowTheCap` from `RevisionInv`: a path of the table is never longer
  than the lifecycle is deep.
* `NativeOrphansStayOrphans`: polling offers Runs in CREATED only, so a Run that has left it without a live lease is never
  leased again, and only a cancellation request still changes it (see section 6).

**EvidenceProofs**

* `EvidenceInvariant`: `EvidenceInv`. Only advancing the Run depends on the lease, so the invariant may not rely on it
  either: for every call an attempt may be at, `Relies` says what stays true however many other attempts are at work
  (documents are never unregistered, identifiers are bound once, an event is reserved once), and
  `StageInv` what a Run has registered when it leaves a stage. `WorldInv` relates Jobs and what they wrote: a stage's
  documents are numbered by the Jobs that were created.
* `CompletedRunsArePublished`, `OutputsAreRegisteredOnce` and `LagNeverFailsARun` follow, for any number of source
  objects. What was found of a source stays so (storage is written once), hence a Run that left COLLECTING
  had every source intact.
* `EvaluationFollowsTheLifecycle`: an attempt chooses the next state from the one it claimed, and `advanceOwnedClaim`
  refuses it unless that is still the Run's, so every write takes one edge of the table of Lifecycle.
* `EvidenceIsNeverTakenBack`: registering, reserving, publishing and creating a baseline are not fenced by the lease; a late
  attempt may add to the evidence, but replaces and removes nothing.

Every safety property of a passing run is the subject of a theorem. Only model-checked is liveness, for which the prover
has no rules (fairness and ENABLED): `LostWorkIsRediscovered`, `SlotsAreFreed`, `ShutdownCompletes`, `CancellationCompletes`,
`ExecutionCompletes`, `TargetsAreFreed` and `OverdueRunsAreCancelled`.

## 5. Findings

**Shutdown does not wait for every reconciler.**

`worker.go:129` drains on shutdown with

    for range active { result := <-completed; delete(active, result.runID) }

The loop deletes entries it has not reached, and Go does not produce those, so with two
attempts the loop may receive one completion only: the range produces r1, the body
receives r2's completion and deletes r2, and the range is over while r1 executes.
`Run` then returns although its comment and `docs/reconciliation.md:63` say that it waits for
the reconcilers. The run `worker_shutdown` shows the trace.

**A late namespace keeps its target held for ever.** A worker sends the create of a namespace
and gives up; the Run is cancelled; a cleanup attempt finds no namespace, skips the quota
barrier and records the fence all the same (`reconcile/benchmark_cleanup.go:75`). Then the
API server executes the create. From now on every attempt finds a namespace without a quota,
and `CloseBenchmarkTarget` (`kubernetes/benchmark_cleanup.go:70`) refuses to create one once the
fence is recorded. `docs/kubernetes-benchmarks.md:183` tells the operator of a held target to
retry reconciliation, and `run/benchmark.go:148` says that the fence is recorded only after the barrier
was confirmed. The run `benchmark_late_namespace` shows the trace; without late requests
(`benchmark_progress`) every target is freed.

## 6. What the models show besides

These are consequences of the code. They limit what the properties say. The first disagrees with a comment; of the
others no document says otherwise.

* `reconcile/kubernetes_reporting.go:12` says of the template of a report's Job that it "must be reproducible from the
  immutable Run and candidate". The resolver takes it from the baselines approved at the time it is asked
  (`reconcile/report_plan.go:131`), so it is not. If one is approved or retired after the Job was created, later attempts take the Job for
  somebody else's and the Run stays in REPORTING until it is cancelled; if one is retired between the Job
  and its approval, the Run fails. The model does both, since the plan is resolved anew by every attempt (`List`)
  and by `ApproveReportManifest`; `LagIsNotFailure` excludes the second case by name (`Undisturbed`).
* A report whose producer's clock runs ahead of the database's is dated after the event reserved for
  it, and can then not be published. The Run waits in REPORTING.
* Artifacts are registered without a lease. If others delete a stage's Job and a second one writes under
  another identifier, two documents of a kind may be registered, and every later attempt refuses the evidence.
  `OneOfAKind` bounds their number by the number of Jobs.
* Stage Jobs are not stopped when their Run is cancelled.
* A rejected request keeps the attempt it named: another request for it is refused.
* A native Run is offered to workers only in CREATED, and reconciliation claims Kubernetes Runs only
  (`claims.go:81`). A native Run in COLLECTING goes no further, and one whose worker is gone after
  it left CREATED is taken up by nobody. A worker whose Run is cancelled in CREATED stays occupied until its lease ends.
* Of a Job that was never bound and that others deleted in the background, Pods may outlive an aborted Run
  (`AbortedMeansStopped` says so).

## 7. What is not modelled

* The order of the claim query (CANCELLING first) and of the candidates of a native poll, and with them
  starvation. A batch is any part of the eligible Runs. A stored snapshot that cannot be decoded fails the whole batch
  (`claims.go:126`); stored Runs are well formed here.
* In Acceptance, a database clock that is set back. A binding's term is measured on that clock, so it would last
  longer by as much; RunLifecycle and Integration, where the code clamps timestamps, do set it back.
* The joint shutdown of server and worker (`app/runtime.go`). Its wait is bounded by a timeout, nothing of it
  outlives the process, and what a process that ends early leaves behind is modelled as its death.
* HTTP decoding, limits, authentication and read-only routes, which have no state. The handlers that write are part of
  the actions of the stores they call.
* What is inside manifests, policies, plans and catalogues: sequential functions of one immutable document,
  with table tests. The models keep which check rejects and what a rejection does.
* The S3 and Kubernetes clients, which are input and output; the memory adapter, a test double behind one
  mutex; migrations, configuration and tools, which run once with
  nothing else of the system executing.
