---------------------------- MODULE BenchmarkSteps ----------------------------
(***************************************************************************)
(* Contained benchmarks, for any sets of Runs, workers, tokens and objects *)
(* and any timing: they use the store as module ClaimStore describes it,   *)
(* so everything proved there holds for them, and a benchmark target has   *)
(* at most one holder.                                                     *)
(*                                                                         *)
(* The rest of the module states BenchmarkInv and shows that the calls of  *)
(* the reconciler that read, write the reservation or have an effect on    *)
(* the cluster preserve it, and so does the cluster.  BenchmarkInv says,   *)
(* for every stage of a reservation, what may be in the cluster, on its    *)
(* way there, and in the runs table, and, for every call an attempt may be *)
(* at, what that call relies on.  An attempt that makes calls has the      *)
(* lease until after its own deadline, so what it read stays true of the   *)
(* parts only the owner of a Run writes; the drain clock outlasts every    *)
(* request in flight.                                                      *)
(***************************************************************************)
EXTENDS BenchmarkTarget, ClaimStoreProofs

\* Most leaves are about records and what disjuncts a step has; those that need arithmetic or
\* functions cite SMT.
USE ZenonT(60)

-----------------------------------------------------------------------------
(* The store *)

\* Only a Run that was accepted holds a target.
HoldersExist == \A r \in held : runs[r].state # "ABSENT"

\* The lifecycle leads to states of the lifecycle.
LEMMA EdgesLeadToStates ==
    ASSUME NEW from, NEW to, CanTransition(from, to)
    PROVE  from \in States /\ to \in States
BY DEF CanTransition, States, ActiveStates, TerminalStates

\* No operation of the store takes a Run away.
LEMMA RunsStay ==
    ASSUME StoreTypeOK, [Next]_storeVars, NEW r \in Runs, runs[r].state # "ABSENT"
    PROVE  runs'[r].state # "ABSENT"
<1> DEFINE Goal == runs'[r].state # "ABSENT"
<1>1. ASSUME NEW q \in Runs, Accept(q) PROVE Goal
  BY <1>1 DEF Accept, StoreTypeOK
<1>2. ASSUME NEW q \in Runs, Cancel(q) PROVE Goal
  <2>1. runs' = [runs EXCEPT ![q] = RequestCancellation(runs[q])] /\ runs[q] \in RunRecords
    BY <1>2 DEF Cancel, StoreTypeOK
  <2>2. \/ RequestCancellation(runs[q]) = runs[q]
        \/ RequestCancellation(runs[q]).state = CancellationTarget(runs[q].state)
    BY <1>2, <2>1, CancellationResult DEF Cancel
  <2>3. QED BY <2>1, <2>2 DEF CancellationTarget, StoreTypeOK
<1>3. ASSUME NEW w \in Workers, NEW q \in Runs, NEW change \in Changes,
             runs' = [runs EXCEPT ![q] = Transition(runs[q], change)]
      PROVE  Goal
  <2>1. Transition(runs[q], change).state \in States
    BY <1>3 DEF Transition, Changes
  <2>2. "ABSENT" \notin States
    BY DEF States, ActiveStates, TerminalStates
  <2>3. QED BY <1>3, <2>1, <2>2 DEF StoreTypeOK
<1>4. ASSUME NEW w \in Workers, NEW q \in Runs, NEW change \in Changes,
             AdvanceClaim(w, q, change) \/ FreeTarget(w, q, change)
      PROVE  Goal
  BY <1>3, <1>4, FreeTargetWrites, SMTT(30) DEF AdvanceClaim
<1>5. CASE runs' = runs
  BY <1>5
<1>6. QED
  BY <1>1, <1>2, <1>4, <1>5
  DEF Next, ClaimSome, ClaimRuns, LeaseBatch, LoseClaims, Tick, EndAttempt, ReleaseClaim,
      ForgetClaim, UseClaim, RenewClaim, ExtendLease, HoldTarget, storeVars

\* Holders exist at every step of the store: ReserveBenchmark demands PROVISIONING.
LEMMA HoldersStay ==
    ASSUME StoreTypeOK, HoldersExist, [Next]_storeVars
    PROVE  HoldersExist'
<1>1. ASSUME NEW r \in held' PROVE r \in held \/ (runs' = runs /\ runs[r].state = "PROVISIONING")
  BY <1>1
  DEF Next, Accept, Cancel, ClaimSome, ClaimRuns, LeaseBatch, LoseClaims, Tick, EndAttempt,
      ReleaseClaim, ForgetClaim, UseClaim, RenewClaim, ExtendLease, HoldTarget, AdvanceClaim,
      FreeTarget, storeVars
<1>2. QED BY <1>1, RunsStay DEF HoldersExist, StoreTypeOK

\* Time that passes for attempts and drain clocks is a tick of the store, or nothing.
LEMMA ElapseIsTick ==
    ASSUME StoreTypeOK, Elapse
    PROVE  [Next]_storeVars
BY TimePasses DEF Elapse

\* What the ordinary router does is a change of the lifecycle.
LEMMA FallbackChangesTyped == \A state : FallbackChanges(state) \subseteq Changes
BY SMTT(30) DEF FallbackChanges, Changes, Change, Failing, States, ActiveStates, TerminalStates,
       FailureCodes, NoFailure

\* FinishBenchmarkCleanup is the store's FreeTarget, whatever outcome was frozen.
LEMMA OutcomeIsChange ==
    ASSUME StoreTypeOK, HoldersExist, NEW w \in Workers, NEW r \in Runs,
           FreeTarget(w, r, Outcome(r))
    PROVE  \E change \in Changes : FreeTarget(w, r, change)
<1> DEFINE o == Outcome(r)
<1>1. o.failure \in FailureCodes \union {NoFailure} /\ o = [state |-> o.state, failure |-> o.failure]
  BY DEF Outcome, Change, Failing, FailureCodes, NoFailure
<1>2. CASE o.state \in States
  BY <1>1, <1>2 DEF Changes
<1>3. CASE Terminal(runs[r].state)
  <2>1. Change("ABORTED") \in Changes
    BY DEF Change, Changes, States, TerminalStates, NoFailure
  <2>2. ~CanTransition(runs[r].state, o.state)
    BY <1>3, EdgesLeadToStates DEF Terminal, WithoutSuccessor
  <2>3. FreeTarget(w, r, Change("ABORTED"))
    BY <1>3, <2>2 DEF FreeTarget, TransitionAllowed
  <2>4. QED BY <2>1, <2>3
<1>4. CASE o.state = runs[r].state
  BY <1>2, <1>4 DEF FreeTarget, HoldersExist, StoreTypeOK, RunRecords
<1>5. CASE TransitionAllowed(runs[r], claims[w][r].revision, o)
  BY <1>2, <1>5, EdgesLeadToStates DEF TransitionAllowed
<1>6. QED BY <1>3, <1>4, <1>5 DEF FreeTarget

\* An attempt calls the store in the ways of ClaimStore, or leaves it alone.
LEMMA CallUsesStore ==
    ASSUME StoreTypeOK, HoldersExist, NEW w \in Workers, NEW r \in Runs, Call(w, r)
    PROVE  [Next]_storeVars
<1>1. ASSUME UNCHANGED storeVars PROVE [Next]_storeVars
  BY <1>1
<1>2. ASSUME NEW change \in Changes, AdvanceClaim(w, r, change) PROVE Next
  BY <1>2 DEF Next, UseClaim
<1>3. CASE Fallback(w, r)
  <2>1. PICK change \in FallbackChanges(State(w, r)) : AdvanceClaim(w, r, change)
    BY <1>3 DEF Fallback
  <2>2. QED BY <1>2, <2>1, FallbackChangesTyped
<1>4. CASE Bound(w, r)
  <2>1. /\ Failing("INFRASTRUCTURE_FAILURE", "INFRASTRUCTURE_ERROR") \in Changes
        /\ Change("RUNNING") \in Changes /\ Change("COLLECTING") \in Changes
    BY DEF Failing, Change, Changes, States, ActiveStates, TerminalStates, FailureCodes, NoFailure
  <2>2. QED BY <1>1, <1>2, <1>4, <2>1 DEF Bound
<1>5. CASE Fence(w, r)
  BY <1>5 DEF Fence, RenewClaim, UseClaim, Next
<1>6. CASE ReserveBenchmark(w, r)
  BY <1>6 DEF ReserveBenchmark, UseClaim, Next
<1>7. CASE FinishCleanup(w, r)
  <2>1. PICK change \in Changes : FreeTarget(w, r, change)
    BY <1>7, OutcomeIsChange DEF FinishCleanup
  <2>2. QED BY <2>1 DEF Next, UseClaim
<1>8. CASE \/ Read(w, r) \/ Observe(w, r) \/ Qualify(w, r) \/ EnsureNamespace(w, r)
           \/ Materialize(w, r) \/ EnsureResources(w, r) \/ EnsureJob(w, r) \/ RecoverJob(w, r)
  BY <1>1, <1>8 DEF Read, Observe, Qualify, EnsureNamespace, Materialize, EnsureResources,
                    EnsureJob, RecoverJob
<1>9. CASE \/ BindExecution(w, r) \/ BeginCleanup(w, r) \/ Inspect(w, r)
           \/ BindCleanupNamespace(w, r) \/ CloseTarget(w, r) \/ StopExecutor(w, r)
           \/ RecordFence(w, r) \/ Verify(w, r) \/ CleanPods(w, r) \/ Revoke(w, r)
           \/ Reverify(w, r)
  BY <1>1, <1>9 DEF BindExecution, BeginCleanup, Inspect, BindCleanupNamespace, CloseTarget,
                    StopExecutor, RecordFence, Verify, CleanPods, Revoke, Reverify
<1>10. QED BY <1>3, <1>4, <1>5, <1>6, <1>7, <1>8, <1>9 DEF Call

\* Every step of a benchmark is a step of the store, or invisible to it.
LEMMA StepUsesStore ==
    ASSUME StoreTypeOK, HoldersExist, [BenchmarkNext]_benchmarkVars
    PROVE  [Next]_storeVars
<1>1. CASE Clients
  BY <1>1 DEF Clients, Next
<1>2. ASSUME NEW w \in Workers, Claim(w) PROVE Next
  BY <1>2 DEF Claim, ClaimSome, Next
<1>3. ASSUME NEW w \in Workers, NEW r \in Runs, EngineRenews(w, r) PROVE Next
  BY <1>3 DEF EngineRenews, RenewClaim, UseClaim, Next
<1>4. ASSUME NEW w \in Workers, NEW r \in Runs, EngineFinishes(w, r) \/ Dies(w, r) PROVE Next
  BY <1>4 DEF EngineFinishes, Dies, EndAttempt, Next
<1>5. ASSUME NEW w \in Workers, NEW r \in Runs, Fail(w, r) PROVE UNCHANGED storeVars
  BY <1>5 DEF Fail
<1>6. ASSUME NEW r \in Runs, Cluster(r) PROVE UNCHANGED storeVars
  BY <1>6 DEF Cluster, Lands, ExecutorRuns, CreatesLoad, LoadEnds, Settles, Evicts
<1>7. CASE UNCHANGED benchmarkVars
  BY <1>7 DEF benchmarkVars, storeVars
<1>8. QED
  BY <1>1, <1>2, <1>3, <1>4, <1>5, <1>6, <1>7, CallUsesStore, ElapseIsTick
  DEF BenchmarkNext, Engine

\* Benchmarks use the store only in the ways module ClaimStore describes, for any number of
\* Runs and workers.  That a closed Run is final, that a dead claim stays dead and that
\* clients see what they were promised therefore holds for benchmarks too.
THEOREM BenchmarksUseTheStore == BenchmarkSpec => UsesTheStore
<1>1. BenchmarkInit => Init /\ StoreTypeOK /\ HoldersExist
  BY InitIInv DEF BenchmarkInit, IInv, Init, HoldersExist
<1>2. ASSUME StoreTypeOK, HoldersExist, [BenchmarkNext]_benchmarkVars
      PROVE  StoreTypeOK' /\ HoldersExist'
  BY <1>2, StepUsesStore, TypeStep, HoldersStay
<1>3. QED BY <1>1, <1>2, StepUsesStore, PTL DEF BenchmarkSpec, UsesTheStore, Spec

\* So while benchmarks reserve, use and clean their target (benchmark_dispatch.go and
\* benchmark_cleanup.go of internal/reconcile), clients see Runs move as promised, closed Runs
\* stay closed, a lost claim stays lost, a token has one holder, and no Run runs out of
\* revisions.
THEOREM BenchmarksKeepThePromises ==
    BenchmarkSpec => /\ ImplementsPublicRun
                     /\ TerminalRunsAreFinal
                     /\ DeadClaimsStayDead
                     /\ []TokensIdentifyHolders
                     /\ []RevisionsBelowCap
BY BenchmarksUseTheStore, StoreImplementsPublicRun, TerminalRunsStayClosed,
   DeadClaimsAreNeverRevived, TokensIdentifyTheirHolders, CapStrandsNoStoredRun, PTL
DEF UsesTheStore

-----------------------------------------------------------------------------
(* The target *)

\* What an operation on the reservation table does to the holders of the target.
LEMMA StageStep ==
    ASSUME DOMAIN res = Runs, NEW r \in Runs, NEW row, res' = [res EXCEPT ![r] = row],
           OneHolder, row.stage \in {"held", "started", "fenced"} => \A q \in Runs \ {r} : ~Active(q)
    PROVE  DOMAIN res' = Runs /\ OneHolder'
BY SMTT(30) DEF OneHolder, Active

\* A row that is written while the Run holds the target changes no holder.
LEMMA HolderWrites ==
    ASSUME DOMAIN res = Runs, NEW r \in Runs, NEW row, res' = [res EXCEPT ![r] = row],
           OneHolder, Active(r)
    PROVE  DOMAIN res' = Runs /\ OneHolder'
BY StageStep DEF OneHolder

\* The calls that write the reservation table.
LEMMA CallKeepsOneHolder ==
    ASSUME DOMAIN res = Runs, OneHolder, NEW w \in Workers, NEW r \in Runs, Call(w, r)
    PROVE  DOMAIN res' = Runs /\ OneHolder'
<1>1. CASE ReserveBenchmark(w, r)
  BY <1>1, StageStep DEF ReserveBenchmark, Reserved
<1>2. CASE Materialize(w, r)
  <2>1. Active(r) /\ \E row : res' = [res EXCEPT ![r] = row]
    BY <1>2 DEF Materialize, Active
  <2>2. QED BY <2>1, HolderWrites
<1>3. CASE BeginCleanup(w, r)
  BY <1>3, HolderWrites DEF BeginCleanup, Active
<1>4. CASE BindCleanupNamespace(w, r)
  BY <1>4, HolderWrites DEF BindCleanupNamespace, Active, CleaningUp
<1>5. CASE RecordFence(w, r)
  <2>1. res' = res \/ (Active(r) /\ \E row : res' = [res EXCEPT ![r] = row])
    BY <1>5, SMTT(30) DEF RecordFence, Active, CleaningUp
  <2>2. QED BY <2>1, HolderWrites, SMTT(30) DEF OneHolder, Active
<1>6. CASE FinishCleanup(w, r)
  BY <1>6, HolderWrites DEF FinishCleanup, Active
<1>7. ASSUME res' = res PROVE DOMAIN res' = Runs /\ OneHolder'
  BY <1>7, SMTT(30) DEF OneHolder, Active
<1>8. CASE \/ Read(w, r) \/ Observe(w, r) \/ Qualify(w, r) \/ EnsureNamespace(w, r)
           \/ EnsureResources(w, r) \/ EnsureJob(w, r) \/ RecoverJob(w, r)
           \/ Fallback(w, r) \/ Bound(w, r) \/ Fence(w, r)
  <2>1. CASE Read(w, r) \/ Observe(w, r)
    BY <1>7, <2>1 DEF Read, Observe
  <2>2. CASE Qualify(w, r) \/ EnsureNamespace(w, r) \/ EnsureResources(w, r)
    BY <1>7, <2>2 DEF Qualify, EnsureNamespace, EnsureResources
  <2>3. CASE EnsureJob(w, r) \/ RecoverJob(w, r)
    BY <1>7, <2>3 DEF EnsureJob, RecoverJob
  <2>4. CASE Fallback(w, r) \/ Bound(w, r) \/ Fence(w, r)
    BY <1>7, <2>4 DEF Fallback, Bound, Fence
  <2>5. QED BY <1>8, <2>1, <2>2, <2>3, <2>4
<1>9. CASE \/ BindExecution(w, r) \/ Inspect(w, r) \/ CloseTarget(w, r) \/ StopExecutor(w, r)
           \/ Verify(w, r) \/ CleanPods(w, r) \/ Revoke(w, r) \/ Reverify(w, r)
  BY <1>7, <1>9 DEF BindExecution, Inspect, CloseTarget, StopExecutor, Verify, CleanPods,
                    Revoke, Reverify
<1>10. QED BY <1>1, <1>2, <1>3, <1>4, <1>5, <1>6, <1>8, <1>9, SMTT(30) DEF Call

\* At most one Run holds the target, whatever workers, leases and cancellations do: a hold is
\* taken only when no other Run has one, and every other write is the holder's.
THEOREM TargetHasOneHolder == BenchmarkSpec => []OneHolder
<1> DEFINE Inv == DOMAIN res = Runs /\ OneHolder
<1>1. BenchmarkInit => Inv
  BY SMTT(30) DEF BenchmarkInit, NoReservation, OneHolder, Active
<1>2. ASSUME Inv, [BenchmarkNext]_benchmarkVars PROVE Inv'
  <2>1. CASE Elapse
    <3>1. DOMAIN res' = Runs /\ \A r \in Runs : res'[r].stage = res[r].stage
      BY <2>1, SMTT(30) DEF Elapse, Staged
    <3>2. QED BY <1>2, <3>1, SMTT(30) DEF OneHolder, Active
  <2>2. ASSUME res' = res PROVE Inv'
    BY <1>2, <2>2, SMTT(30) DEF OneHolder, Active
  <2>3. ASSUME NEW w \in Workers, NEW r \in Runs, Engine(w, r) \/ Fail(w, r) PROVE Inv'
    BY <2>2, <2>3, SMTT(30) DEF Engine, EngineRenews, EngineFinishes, Dies, Fail
  <2>4. ASSUME NEW r \in Runs, Cluster(r) PROVE Inv'
    BY <2>2, <2>4, SMTT(30) DEF Cluster, Lands, ExecutorRuns, CreatesLoad, LoadEnds, Settles, Evicts
  <2>5. CASE Clients \/ (\E w \in Workers : Claim(w)) \/ UNCHANGED benchmarkVars
    BY <2>2, <2>5, SMTT(30) DEF Clients, Claim, benchmarkVars
  <2>6. ASSUME NEW w \in Workers, NEW r \in Runs, Call(w, r) PROVE Inv'
    BY <1>2, <2>6, CallKeepsOneHolder, SMTT(30)
  <2>7. QED BY <1>2, <2>1, <2>3, <2>4, <2>5, <2>6, SMTT(30) DEF BenchmarkNext
<1>3. QED BY <1>1, <1>2, PTL DEF BenchmarkSpec

-----------------------------------------------------------------------------
(* The inductive invariant *)

\* An attempt that still makes calls.
Live(a) == a.pc \notin {"idle", "returned"}

Points == {"idle", "returned", "read", "fallback", "observe", "bound", "qualify", "reserve",
           "bindNamespace", "seal", "requalify", "recover", "bind", "begin", "inspect",
           "bindCleanup", "record"} \union DispatchPoints \union CleanupPoints

Names == States \union {"ABSENT", "none"}

Attempts ==
    [pc : Points, fenced : BOOLEAN, left : 0..AttemptTimeout, next : Names, uid : 0..MaxUid,
     todo : SUBSET Objects, clean : BOOLEAN]

Rows ==
    [bound : BOOLEAN, sealed : BOOLEAN, drain : 0..Grace, next : Names,
     stage : {"absent", "held", "started", "fenced", "released"}]

Clusters ==
    [namespace : BOOLEAN, authority : SUBSET Objects, uid : 0..MaxUid,
     quota : {"absent", "open", "closing", "closed"},
     job : {"absent", "running", "finished", "deleting", "gone"},
     executor : {"none", "active", "ended"}, load : {"none", "running", "ended", "deleting"}]

Typed ==
    /\ att \in [Workers -> [Runs -> Attempts]]
    /\ res \in [Runs -> Rows]
    /\ exec \in [Runs -> 0..MaxUid]
    /\ cluster \in [Runs -> Clusters]
    /\ flight \in [Runs -> [Requests -> 0..RequestBound]]

\* Nothing of a Run executes, has authority, or is on its way, but for its namespace.
Bare(c, f) ==
    /\ c.authority = {}
    /\ ExecutorStopped(c)
    /\ c.load = "none"
    /\ \A q \in Requests \ {"namespace"} : f[q] = 0

\* No workload Pod is let in any more.
Barred(c, f) == c.quota = "closed" \/ Bare(c, f)

\* A request with time left to it is over before the drain clock that runs beside it.
Spent(left, drain) == left = 0 \/ left + Grace <= drain + RequestBound

\* What the stage of a reservation says of the cluster.
Situation(row, c, f) ==
    /\ row.stage \in {"absent", "released"} => Bare(c, f) /\ f["namespace"] = 0
    /\ ~c.namespace => Bare(c, f)
    /\ row.stage \in {"started", "fenced"} =>
          \A q \in Requests \ {"pod"} : Spent(f[q], row.drain)
    /\ row.stage = "fenced" => Barred(c, f) /\ Spent(f["pod"], row.drain)

\* What it says of the state of the Run.
Staging(state, row) ==
    /\ row.stage = "absent" =>
          state \in {"ABSENT", "CREATED", "VALIDATING", "PROVISIONING", "CANCELLING", "INVALID",
                     "INFRASTRUCTURE_FAILURE", "ABORTED"}
    /\ row.stage = "held" =>
          state \in Executing \union {"COLLECTING", "ANALYZING", "CANCELLING"}
                    \union (TerminalStates \ {"COMPLETED"})
    /\ row.stage \in {"started", "fenced"} =>
          /\ state \in Executing \union {"ANALYZING", "CANCELLING"}
                       \union (TerminalStates \ {"COMPLETED"})
          /\ row.next \in {"ANALYZING"} \union TerminalStates
    /\ row.stage = "released" =>
          state \in {"ANALYZING", "REPORTING", "CANCELLING"} \union TerminalStates

\* Only a Run that held the target has a bound Job, and a Job that carries the Run's name is
\* the bound one when no request is executed late.
Faithful(e, row, c) ==
    /\ row.stage = "absent" => e = NoUid
    /\ RequestBound = 0 /\ e # NoUid /\ c.job \in Jobs => c.uid = e

\* An attempt that makes calls has the lease, for longer than its own deadline.
Leased(a, w, l) == l.worker = w /\ a.left > 0 /\ a.left < l.expires

Materialized == {"bindNamespace", "seal", "inventory", "quota", "authority", "requalify", "job"}

\* The calls of dispatch that leave a Job that is not bound yet.
Unbound == {"qualify", "reserve", "namespace", "recover"} \union Materialized

\* What an attempt relies on when it makes its next call: about the reservation and the
\* cluster, about the Run, and about the bound Job.
Placed(a, row, c, f) ==
    /\ a.pc \in {"qualify", "reserve"} => row.stage \in {"absent", "held"}
    /\ a.pc \in {"namespace", "observe", "bound", "begin"} \union Materialized =>
          row.stage = "held"
    /\ a.pc \in Materialized => c.namespace
    /\ a.pc \in {"recover", "bind"} =>
          row.stage = "held" \/ (row.stage \in {"started", "fenced"} /\ Barred(c, f))
    /\ a.pc \in {"inspect", "bindCleanup", "close", "stop", "record"} =>
          row.stage \in {"started", "fenced"}
    /\ a.pc \in {"stop", "record"} => Barred(c, f)
    /\ a.pc \in {"verify", "pods", "revoke", "reverify", "finish"} =>
          row.stage = "fenced" /\ row.drain = 0
    /\ a.pc \in {"pods", "revoke", "reverify", "finish"} => ExecutorStopped(c)
    /\ a.pc \in {"revoke", "reverify", "finish"} => c.load = "none"
    /\ a.pc = "revoke" => c.authority \subseteq a.todo
    /\ a.pc \in {"reverify", "finish"} => c.authority = {}

\* Why a Run is cleaned up, and what it becomes then.
Reason(state, next) ==
    \/ state = "CANCELLING" /\ next = "ABORTED"
    \/ state \in Executing /\ next = "INFRASTRUCTURE_FAILURE"
    \/ state \notin Executing \union {"COLLECTING", "CANCELLING"} /\ next = state

Routed(a, state, row) ==
    /\ a.pc = "fallback" =>
          row.stage \in {"absent", "released"} \/ (row.stage = "held" /\ state = "COLLECTING")
    /\ a.pc \in {"observe", "bound"} => state \in Executing
    /\ a.pc = "begin" => Reason(state, a.next)

Binding(a, e, c) ==
    /\ a.pc \in Unbound => e = NoUid
    /\ a.pc = "bind" => e = NoUid /\ (RequestBound = 0 => a.uid = c.uid)

Fits(w, r) ==
    LET a == att[w][r] IN
    Live(a) =>
        /\ Leased(a, w, leases[r])
        /\ Placed(a, res[r], cluster[r], flight[r])
        /\ Routed(a, State(w, r), res[r])
        /\ Binding(a, exec[r], cluster[r])

InOrder(r) ==
    /\ Situation(res[r], cluster[r], flight[r])
    /\ Staging(runs[r].state, res[r])
    /\ Faithful(exec[r], res[r], cluster[r])
    /\ \A w \in Workers : Fits(w, r)

BenchmarkInv ==
    /\ IInv
    /\ HoldersExist
    /\ Typed
    /\ \A r \in Runs : InOrder(r)

-----------------------------------------------------------------------------
(* Steps of an attempt *)

\* What the types say of one Run and of one attempt.
LEMMA RowsTyped ==
    ASSUME Typed, NEW r \in Runs
    PROVE  /\ res[r] \in Rows /\ exec[r] \in 0..MaxUid /\ cluster[r] \in Clusters
           /\ flight[r] \in [Requests -> 0..RequestBound]
           /\ \A w \in Workers : att[w][r] \in Attempts
BY DEF Typed

\* What overwriting one attempt leaves of the others.
LEMMA SetAttempt ==
    ASSUME Typed, NEW w \in Workers, NEW r \in Runs, NEW a \in Attempts, Become(w, r, a)
    PROVE  /\ att' \in [Workers -> [Runs -> Attempts]]
           /\ att'[w][r] = a
           /\ \A v \in Workers, q \in Runs : v # w \/ q # r => att'[v][q] = att[v][q]
BY SMTT(30) DEF Typed, Become

\* Nothing of the Run has changed.
Same(r) ==
    /\ runs'[r] = runs[r] /\ leases'[r] = leases[r] /\ res'[r] = res[r] /\ exec'[r] = exec[r]
    /\ cluster'[r] = cluster[r] /\ flight'[r] = flight[r]
    /\ \A w \in Workers : att'[w][r] = att[w][r] /\ claims'[w][r] = claims[w][r]

\* A Run that nothing happens to stays in order.
LEMMA SameInOrder ==
    ASSUME NEW r \in Runs, Same(r), InOrder(r)
    PROVE  InOrder(r)'
BY DEF Same, InOrder, Fits, State

\* A step that concerns one Run keeps the invariant if it leaves that Run in order.
LEMMA LocalStep ==
    ASSUME BenchmarkInv, [BenchmarkNext]_benchmarkVars, NEW r \in Runs, Typed',
           \A q \in Runs \ {r} : Same(q), InOrder(r)'
    PROVE  BenchmarkInv'
<1>1. IInv /\ StoreTypeOK /\ HoldersExist
  BY DEF BenchmarkInv, IInv
<1>2. [Next]_storeVars
  BY <1>1, StepUsesStore
<1>3. IInv' /\ HoldersExist'
  BY <1>1, <1>2, TypeStep, SnapshotsStep, TokensStep, HoldersStay DEF IInv
<1>4. ASSUME NEW q \in Runs PROVE InOrder(q)'
  <2>1. CASE q = r
    BY <2>1
  <2>2. CASE q # r
    BY <2>2, SameInOrder DEF BenchmarkInv
  <2>3. QED BY <2>1, <2>2
<1>5. QED BY <1>3, <1>4 DEF BenchmarkInv

\* At most one attempt for a Run makes calls: the lease names its worker.
LEMMA OneAttempt ==
    ASSUME BenchmarkInv, NEW r \in Runs, NEW w \in Workers, NEW v \in Workers,
           Live(att[w][r]), Live(att[v][r])
    PROVE  v = w
BY DEF BenchmarkInv, InOrder, Fits, Leased

\* What the invariant says of one Run and of the attempt that makes calls for it.
LEMMA Facts ==
    ASSUME BenchmarkInv, NEW r \in Runs
    PROVE  /\ Typed /\ IInv /\ StoreTypeOK
           /\ Situation(res[r], cluster[r], flight[r])
           /\ Staging(runs[r].state, res[r])
           /\ Faithful(exec[r], res[r], cluster[r])
           /\ res[r] \in Rows /\ exec[r] \in 0..MaxUid /\ cluster[r] \in Clusters
           /\ flight[r] \in [Requests -> 0..RequestBound]
           /\ \A w \in Workers :
                /\ att[w][r] \in Attempts
                /\ Live(att[w][r]) =>
                     /\ Leased(att[w][r], w, leases[r])
                     /\ Placed(att[w][r], res[r], cluster[r], flight[r])
                     /\ Routed(att[w][r], State(w, r), res[r])
                     /\ Binding(att[w][r], exec[r], cluster[r])
BY RowsTyped DEF BenchmarkInv, InOrder, Fits, IInv

\* An attempt that made a call keeps the invariant if it leaves its Run and itself in order.
LEMMA CallStep ==
    ASSUME BenchmarkInv, [BenchmarkNext]_benchmarkVars, NEW w \in Workers, NEW r \in Runs,
           Live(att[w][r]), NEW a \in Attempts, Become(w, r, a),
           UNCHANGED claims,
           \A q \in Runs \ {r} :
              /\ runs'[q] = runs[q] /\ leases'[q] = leases[q] /\ res'[q] = res[q]
              /\ exec'[q] = exec[q] /\ cluster'[q] = cluster[q] /\ flight'[q] = flight[q],
           res' \in [Runs -> Rows], exec' \in [Runs -> 0..MaxUid],
           cluster' \in [Runs -> Clusters],
           flight' \in [Runs -> [Requests -> 0..RequestBound]],
           Situation(res'[r], cluster'[r], flight'[r]), Staging(runs'[r].state, res'[r]),
           Faithful(exec'[r], res'[r], cluster'[r]),
           Live(a) => /\ Leased(a, w, leases'[r])
                      /\ Placed(a, res'[r], cluster'[r], flight'[r])
                      /\ Routed(a, State(w, r), res'[r])
                      /\ Binding(a, exec'[r], cluster'[r])
    PROVE  BenchmarkInv'
<1>1. Typed
  BY DEF BenchmarkInv
<1>2. /\ att' \in [Workers -> [Runs -> Attempts]] /\ att'[w][r] = a
      /\ \A v \in Workers, q \in Runs : v # w \/ q # r => att'[v][q] = att[v][q]
  BY <1>1, SetAttempt
<1>3. Typed'
  BY <1>2 DEF Typed
<1>4. \A q \in Runs \ {r} : Same(q)
  BY <1>2 DEF Same
<1>5. ASSUME NEW v \in Workers PROVE Fits(v, r)'
  <2>1. CASE v = w
    BY <1>2, <2>1 DEF Fits, State
  <2>2. CASE v # w
    <3>1. ~Live(att[v][r])
      BY <2>2, OneAttempt
    <3>2. ~Live(att'[v][r])
      BY <1>2, <2>2, <3>1
    <3>3. QED BY <3>2 DEF Fits
  <2>3. QED BY <2>1, <2>2
<1>6. InOrder(r)'
  BY <1>5 DEF InOrder
<1>7. QED BY <1>3, <1>4, <1>6, LocalStep

\* A call that only moves the attempt on.
LEMMA MoveStep ==
    ASSUME BenchmarkInv, [BenchmarkNext]_benchmarkVars, NEW w \in Workers, NEW r \in Runs,
           Live(att[w][r]), NEW a \in Attempts, Become(w, r, a),
           UNCHANGED <<storeVars, res, exec, cluster, flight>>,
           Live(a) => /\ a.left = att[w][r].left
                      /\ Placed(a, res[r], cluster[r], flight[r])
                      /\ Routed(a, State(w, r), res[r])
                      /\ Binding(a, exec[r], cluster[r])
    PROVE  BenchmarkInv'
<1>1. /\ runs' = runs /\ leases' = leases /\ claims' = claims /\ res' = res /\ exec' = exec
      /\ cluster' = cluster /\ flight' = flight
  BY DEF storeVars
<1>2. Typed /\ Leased(att[w][r], w, leases[r])
  BY Facts
<1>3. Live(a) => Leased(a, w, leases[r])
  BY <1>2 DEF Leased
<1>4. /\ Situation(res[r], cluster[r], flight[r]) /\ Staging(runs[r].state, res[r])
      /\ Faithful(exec[r], res[r], cluster[r])
  BY Facts
<1>5. /\ res \in [Runs -> Rows] /\ exec \in [Runs -> 0..MaxUid] /\ cluster \in [Runs -> Clusters]
      /\ flight \in [Runs -> [Requests -> 0..RequestBound]]
  BY <1>2 DEF Typed
<1>6. QED BY <1>1, <1>3, <1>4, <1>5, CallStep

\* A call that changes the objects of the Run.
LEMMA EffectStep ==
    ASSUME BenchmarkInv, [BenchmarkNext]_benchmarkVars, NEW w \in Workers, NEW r \in Runs,
           Live(att[w][r]), NEW a \in Attempts, Become(w, r, a), NEW c \in Clusters,
           cluster' = [cluster EXCEPT ![r] = c], UNCHANGED <<storeVars, res, exec, flight>>,
           Situation(res[r], c, flight[r]), Faithful(exec[r], res[r], c),
           Live(a) => /\ a.left = att[w][r].left
                      /\ Placed(a, res[r], c, flight[r])
                      /\ Routed(a, State(w, r), res[r])
                      /\ Binding(a, exec[r], c)
    PROVE  BenchmarkInv'
<1>1. /\ runs' = runs /\ leases' = leases /\ claims' = claims /\ res' = res /\ exec' = exec
      /\ flight' = flight
  BY DEF storeVars
<1>2. Typed /\ Leased(att[w][r], w, leases[r])
  BY Facts
<1>3. Live(a) => Leased(a, w, leases[r])
  BY <1>2 DEF Leased
<1>4. Staging(runs[r].state, res[r])
  BY Facts
<1>5. /\ res \in [Runs -> Rows] /\ exec \in [Runs -> 0..MaxUid]
      /\ cluster' \in [Runs -> Clusters] /\ cluster'[r] = c
      /\ \A q \in Runs \ {r} : cluster'[q] = cluster[q]
      /\ flight \in [Runs -> [Requests -> 0..RequestBound]]
  BY <1>2 DEF Typed
<1>6. QED BY <1>1, <1>3, <1>4, <1>5, CallStep

\* A call that writes the reservation of the Run.
LEMMA RowStep ==
    ASSUME BenchmarkInv, [BenchmarkNext]_benchmarkVars, NEW w \in Workers, NEW r \in Runs,
           Live(att[w][r]), NEW a \in Attempts, Become(w, r, a), NEW row \in Rows,
           res' = [res EXCEPT ![r] = row], UNCHANGED <<runs, leases, claims, exec, cluster, flight>>,
           Situation(row, cluster[r], flight[r]), Staging(runs[r].state, row),
           Faithful(exec[r], row, cluster[r]),
           Live(a) => /\ a.left = att[w][r].left
                      /\ Placed(a, row, cluster[r], flight[r])
                      /\ Routed(a, State(w, r), row)
                      /\ Binding(a, exec[r], cluster[r])
    PROVE  BenchmarkInv'
<1>1. Typed /\ Leased(att[w][r], w, leases[r]) /\ Faithful(exec[r], res[r], cluster[r])
  BY Facts
<1>2. Live(a) => Leased(a, w, leases[r])
  BY <1>1 DEF Leased
<1>3. /\ res' \in [Runs -> Rows] /\ res'[r] = row
      /\ \A q \in Runs \ {r} : res'[q] = res[q]
      /\ exec \in [Runs -> 0..MaxUid] /\ cluster \in [Runs -> Clusters]
      /\ flight \in [Runs -> [Requests -> 0..RequestBound]]
  BY <1>1 DEF Typed
<1>4. QED BY <1>1, <1>2, <1>3, CallStep

\* An attempt whose context is done relies on nothing.
LEMMA ReturnedFields ==
    /\ Returned \in Attempts /\ ~Live(Returned)
    /\ Idle \in Attempts /\ ~Live(Idle)
    /\ Started \in Attempts /\ Started.pc = "read" /\ Started.left = AttemptTimeout
<1>1. /\ 0 \in 0..AttemptTimeout /\ AttemptTimeout \in 0..AttemptTimeout /\ 0 \in 0..MaxUid
  BY AttemptAssumption, MaxUidAssumption, SMTT(30)
<1>2. "none" \in Names /\ "idle" \in Points /\ "returned" \in Points /\ "read" \in Points
  BY DEF Names, Points
<1>3. Idle \in Attempts /\ Idle.pc = "idle"
  BY <1>1, <1>2 DEF Idle, Attempts
<1>4. Returned \in Attempts /\ Returned.pc = "returned"
  BY <1>2, <1>3 DEF Returned, Attempts
<1>5. [Idle EXCEPT !.left = AttemptTimeout] \in Attempts
      /\ [Idle EXCEPT !.left = AttemptTimeout].left = AttemptTimeout
  BY <1>1, <1>3 DEF Attempts
<1>6. Started = [[Idle EXCEPT !.left = AttemptTimeout] EXCEPT !.pc = "read"]
  BY <1>3 DEF Started, Attempts
<1>7. Started \in Attempts /\ Started.pc = "read" /\ Started.left = AttemptTimeout
  <2> DEFINE b == [Idle EXCEPT !.left = AttemptTimeout]
  <2>1. b \in Attempts /\ b.left = AttemptTimeout /\ Started = [b EXCEPT !.pc = "read"]
    BY <1>5, <1>6
  <2> HIDE DEF b
  <2>2. QED BY <1>2, <2>1 DEF Attempts
<1>8. QED BY <1>3, <1>4, <1>7 DEF Live

\* The call that follows one that was answered, when the answer arrives.
LEMMA AnswerFields ==
    ASSUME Typed, NEW w \in Workers, NEW r \in Runs, NEW pc \in Points,
           Goto(w, r, pc) \/ Returns(w, r)
    PROVE  \E a \in Attempts :
              /\ Become(w, r, a)
              /\ Live(a) => /\ a.pc = pc /\ a.left = att[w][r].left /\ a.uid = att[w][r].uid
                            /\ a.todo = att[w][r].todo /\ a.next = att[w][r].next
<1> DEFINE b == [att[w][r] EXCEPT !.pc = pc, !.fenced = FALSE]
<1>1. CASE Returns(w, r)
  BY <1>1, ReturnedFields DEF Returns
<1>2. CASE Goto(w, r, pc)
  <2>1. PICK old \in Attempts : old = att[w][r]
    BY RowsTyped
  <2>2. LET n == [old EXCEPT !.pc = pc, !.fenced = FALSE] IN
        /\ n \in Attempts /\ n.pc = pc /\ n.left = old.left /\ n.uid = old.uid
        /\ n.todo = old.todo /\ n.next = old.next
    BY DEF Attempts
  <2>3. Become(w, r, b)
    BY <1>2 DEF Goto
  <2>4. QED BY <2>1, <2>2, <2>3
<1>3. QED BY <1>1, <1>2

-----------------------------------------------------------------------------
(* Calls that only read *)

\* An attempt that goes on with another call keeps the invariant if that call is in order.
LEMMA GotoStep ==
    ASSUME BenchmarkInv, [BenchmarkNext]_benchmarkVars, NEW w \in Workers, NEW r \in Runs,
           Live(att[w][r]), NEW pc \in Points, Goto(w, r, pc) \/ Returns(w, r),
           UNCHANGED <<storeVars, res, exec, cluster, flight>>,
           \A a \in Attempts :
              a.pc = pc /\ a.todo = att[w][r].todo /\ a.uid = att[w][r].uid
              /\ a.next = att[w][r].next =>
                      /\ Placed(a, res[r], cluster[r], flight[r])
                      /\ Routed(a, State(w, r), res[r])
                      /\ Binding(a, exec[r], cluster[r])
    PROVE  BenchmarkInv'
<1>1. PICK a \in Attempts :
              /\ Become(w, r, a)
              /\ Live(a) => /\ a.pc = pc /\ a.left = att[w][r].left /\ a.uid = att[w][r].uid
                            /\ a.todo = att[w][r].todo /\ a.next = att[w][r].next
  BY AnswerFields, Facts
<1>2. QED BY <1>1, MoveStep

\* An attempt that ends keeps the invariant.
LEMMA ReturnStep ==
    ASSUME BenchmarkInv, [BenchmarkNext]_benchmarkVars, NEW w \in Workers, NEW r \in Runs,
           Live(att[w][r]), Returns(w, r), UNCHANGED <<storeVars, res, exec, cluster, flight>>
    PROVE  BenchmarkInv'
BY ReturnedFields, MoveStep DEF Returns

\* The attempt goes on with cleanup.
Begun(w, r, next) == Become(w, r, [att[w][r] EXCEPT !.pc = "begin", !.next = next])

\* The attempt that begins cleanup, with the outcome it will record.
LEMMA BeginFields ==
    ASSUME Typed, NEW w \in Workers, NEW r \in Runs, NEW next \in Names, Begun(w, r, next)
    PROVE  \E b \in Attempts : /\ Become(w, r, b) /\ b.pc = "begin" /\ b.next = next
                               /\ b.left = att[w][r].left
<1>1. PICK old \in Attempts : old = att[w][r]
  BY RowsTyped
<1>2. LET b == [old EXCEPT !.pc = "begin", !.next = next] IN
      b \in Attempts /\ b.pc = "begin" /\ b.next = next /\ b.left = old.left
  <2>1. "begin" \in Points
    BY DEF Points
  <2>2. QED BY <2>1 DEF Attempts
<1>3. QED BY <1>1, <1>2 DEF Begun

\* An attempt that finds a reason to clean up goes on with it.
LEMMA BeginStep ==
    ASSUME BenchmarkInv, [BenchmarkNext]_benchmarkVars, NEW w \in Workers, NEW r \in Runs,
           Live(att[w][r]), NEW next \in Names, Begun(w, r, next),
           UNCHANGED <<storeVars, res, exec, cluster, flight>>, res[r].stage = "held",
           Reason(State(w, r), next)
    PROVE  BenchmarkInv'
<1>1. Typed
  BY DEF BenchmarkInv
<1>2. PICK b \in Attempts : /\ Become(w, r, b) /\ b.pc = "begin" /\ b.next = next
                            /\ b.left = att[w][r].left
  BY <1>1, BeginFields, SMTT(30)
<1>3. Placed(b, res[r], cluster[r], flight[r])
  BY <1>2 DEF Placed, Materialized
<1>4. Routed(b, State(w, r), res[r])
  BY <1>2 DEF Routed
<1>5. Binding(b, exec[r], cluster[r])
  BY <1>2 DEF Binding, Materialized, Unbound
<1>6. QED BY <1>2, <1>3, <1>4, <1>5, MoveStep

\* Where BenchmarkReconciler.Reconcile leads an attempt, it finds what it relies on.
LEMMA ReadStep ==
    ASSUME BenchmarkInv, [BenchmarkNext]_benchmarkVars, NEW w \in Workers, NEW r \in Runs,
           Read(w, r)
    PROVE  BenchmarkInv'
<1>1. Live(att[w][r]) /\ UNCHANGED <<storeVars, res, exec, cluster, flight>>
  BY DEF Read, Calls, Live
<1>2. /\ res[r] \in Rows /\ (res[r].stage = "absent" => exec[r] = NoUid)
      /\ State(w, r) \in Names
  <2>1. claims[w][r] \in ClaimRecords
    BY Facts DEF StoreTypeOK
  <2>2. QED BY <2>1, Facts DEF Faithful, State, ClaimRecords, Names
<1>3. ASSUME NEW pc \in {"fallback", "inspect", "observe", "recover", "qualify"},
             Goto(w, r, pc),
             pc = "fallback" =>
                \/ res[r].stage \in {"absent", "released"}
                \/ res[r].stage = "held" /\ State(w, r) = "COLLECTING",
             pc = "inspect" => res[r].stage \in {"started", "fenced"},
             pc = "observe" => res[r].stage = "held" /\ State(w, r) \in Executing,
             pc = "recover" => res[r].stage = "held" /\ exec[r] = NoUid,
             pc = "qualify" => res[r].stage \in {"absent", "held"} /\ exec[r] = NoUid
      PROVE  BenchmarkInv'
  <2>1. pc \in Points
    BY DEF Points
  <2>2. ASSUME NEW a \in Attempts, a.pc = pc
        PROVE  /\ Placed(a, res[r], cluster[r], flight[r]) /\ Routed(a, State(w, r), res[r])
               /\ Binding(a, exec[r], cluster[r])
    BY <1>3, <2>2 DEF Placed, Routed, Binding, Materialized, Unbound
  <2>3. QED BY <1>1, <1>3, <2>1, <2>2, GotoStep
<1>4. CASE ~Active(r) /\ Goto(w, r, "fallback")
  <2>1. res[r].stage \in {"absent", "released"}
    BY <1>2, <1>4 DEF Active, Rows
  <2>2. QED BY <1>3, <1>4, <2>1
<1>5. CASE CleaningUp(r) /\ Goto(w, r, "inspect")
  BY <1>3, <1>5 DEF CleaningUp
<1>6. CASE /\ res[r].stage = "held" /\ State(w, r) \in HeldPipeline /\ Goto(w, r, "fallback")
  BY <1>3, <1>6 DEF HeldPipeline
<1>7. CASE /\ res[r].stage = "held" /\ State(w, r) \in Executing /\ Goto(w, r, "observe")
  BY <1>3, <1>7
<1>8. CASE /\ res[r].stage \in {"absent", "held"} /\ exec[r] = NoUid /\ Goto(w, r, "qualify")
  BY <1>3, <1>8
<1>9. CASE /\ res[r].stage = "held" /\ exec[r] = NoUid /\ Goto(w, r, "recover")
  BY <1>3, <1>9
<1>10. CASE /\ res[r].stage = "held" /\ State(w, r) = "CANCELLING"
            /\ Begun(w, r, "ABORTED")
  <2>1. "ABORTED" \in Names
    BY DEF Names, States, TerminalStates
  <2>2. Reason(State(w, r), "ABORTED")
    BY <1>10 DEF Reason
  <2>3. QED BY <1>1, <1>10, <2>1, <2>2, BeginStep
<1>11. CASE /\ res[r].stage = "held"
            /\ State(w, r) \notin Executing \union HeldPipeline \union {"CANCELLING"}
            /\ Begun(w, r, State(w, r))
  <2>1. Reason(State(w, r), State(w, r))
    BY <1>11 DEF HeldPipeline, Reason
  <2>2. QED BY <1>1, <1>2, <1>11, <2>1, BeginStep
<1>12. QED
  BY <1>2, <1>4, <1>5, <1>6, <1>7, <1>8, <1>9, <1>10, <1>11 DEF Read, Begun

\* A Job that is gone leads to cleanup, and one that is there to the executor.
LEMMA ObserveStep ==
    ASSUME BenchmarkInv, [BenchmarkNext]_benchmarkVars, NEW w \in Workers, NEW r \in Runs,
           Observe(w, r)
    PROVE  BenchmarkInv'
<1>1. Live(att[w][r]) /\ UNCHANGED <<storeVars, res, exec, cluster, flight>>
  BY DEF Observe, Calls, Live
<1>2. res[r].stage = "held" /\ State(w, r) \in Executing
  <2>1. att[w][r].pc = "observe"
    BY DEF Observe, Calls
  <2>2. QED BY <1>1, <2>1, Facts DEF Placed, Routed
<1>3. CASE Returns(w, r)
  BY <1>1, <1>3, ReturnStep
<1>4. CASE Goto(w, r, "bound")
  <2>1. "bound" \in Points
    BY DEF Points
  <2>2. ASSUME NEW a \in Attempts, a.pc = "bound"
        PROVE  /\ Placed(a, res[r], cluster[r], flight[r]) /\ Routed(a, State(w, r), res[r])
               /\ Binding(a, exec[r], cluster[r])
    BY <1>2, <2>2 DEF Placed, Routed, Binding, Materialized, Unbound
  <2>3. QED BY <1>1, <1>4, <2>1, <2>2, GotoStep
<1>5. CASE Begun(w, r, "INFRASTRUCTURE_FAILURE")
  <2>1. "INFRASTRUCTURE_FAILURE" \in Names
    BY DEF Names, States, TerminalStates
  <2>2. Reason(State(w, r), "INFRASTRUCTURE_FAILURE")
    BY <1>2 DEF Reason
  <2>3. QED BY <1>1, <1>2, <1>5, <2>1, <2>2, BeginStep
<1>6. QED BY <1>3, <1>4, <1>5 DEF Observe, Begun

\* Qualification changes nothing that dispatch relies on.
LEMMA QualifyStep ==
    ASSUME BenchmarkInv, [BenchmarkNext]_benchmarkVars, NEW w \in Workers, NEW r \in Runs,
           Qualify(w, r)
    PROVE  BenchmarkInv'
<1>1. Live(att[w][r]) /\ UNCHANGED <<storeVars, res, exec, cluster, flight>>
  BY DEF Qualify, Calls, Live
<1>2. "reserve" \in Points /\ "job" \in Points
  BY DEF Points, DispatchPoints
<1>3. CASE Calls(w, r, "qualify") /\ Goto(w, r, "reserve")
  <2>1. res[r].stage \in {"absent", "held"} /\ exec[r] = NoUid
    BY <1>1, <1>3, Facts DEF Placed, Binding, Calls, Unbound
  <2>2. ASSUME NEW a \in Attempts, a.pc = "reserve"
        PROVE  /\ Placed(a, res[r], cluster[r], flight[r]) /\ Routed(a, State(w, r), res[r])
               /\ Binding(a, exec[r], cluster[r])
    BY <2>1, <2>2 DEF Placed, Routed, Binding, Materialized, Unbound
  <2>3. QED BY <1>1, <1>2, <1>3, <2>2, GotoStep
<1>4. CASE Calls(w, r, "requalify") /\ Goto(w, r, "job")
  <2>1. res[r].stage = "held" /\ cluster[r].namespace /\ exec[r] = NoUid
    BY <1>1, <1>4, Facts DEF Placed, Binding, Calls, Unbound, Materialized
  <2>2. ASSUME NEW a \in Attempts, a.pc = "job"
        PROVE  /\ Placed(a, res[r], cluster[r], flight[r]) /\ Routed(a, State(w, r), res[r])
               /\ Binding(a, exec[r], cluster[r])
    BY <2>1, <2>2 DEF Placed, Routed, Binding, Materialized, Unbound
  <2>3. QED BY <1>1, <1>2, <1>4, <2>2, GotoStep
<1>5. QED BY <1>3, <1>4 DEF Qualify

\* A namespace that is not there has nothing to bar; one that is there is bound and closed.
LEMMA InspectStep ==
    ASSUME BenchmarkInv, [BenchmarkNext]_benchmarkVars, NEW w \in Workers, NEW r \in Runs,
           Inspect(w, r)
    PROVE  BenchmarkInv'
<1>1. Live(att[w][r]) /\ UNCHANGED <<storeVars, res, exec, cluster, flight>>
  BY DEF Inspect, Calls, Live
<1>2. res[r].stage \in {"started", "fenced"}
  BY <1>1, Facts DEF Placed, Inspect, Calls
<1>3. ~cluster[r].namespace => Barred(cluster[r], flight[r])
  BY Facts DEF Situation, Barred
<1>4. PICK pc \in {"stop", "close", "bindCleanup"} :
         /\ Goto(w, r, pc)
         /\ pc = "stop" => Barred(cluster[r], flight[r])
  BY <1>3 DEF Inspect
<1>5. pc \in Points
  BY DEF Points, CleanupPoints
<1>6. ASSUME NEW a \in Attempts, a.pc = pc
      PROVE  /\ Placed(a, res[r], cluster[r], flight[r]) /\ Routed(a, State(w, r), res[r])
             /\ Binding(a, exec[r], cluster[r])
  BY <1>2, <1>4, <1>6 DEF Placed, Routed, Binding, Materialized, Unbound
<1>7. QED BY <1>1, <1>4, <1>5, <1>6, GotoStep

\* The first half of the verification finds the executor stopped.
LEMMA VerifyStep ==
    ASSUME BenchmarkInv, [BenchmarkNext]_benchmarkVars, NEW w \in Workers, NEW r \in Runs,
           Verify(w, r)
    PROVE  BenchmarkInv'
<1>1. Live(att[w][r]) /\ UNCHANGED <<storeVars, res, exec, cluster, flight>>
  BY DEF Verify, Affects, Calls, Live
<1>2. res[r].stage = "fenced" /\ res[r].drain = 0
  BY <1>1, Facts DEF Placed, Verify, Affects, Calls
<1>3. CASE Returns(w, r)
  BY <1>1, <1>3, ReturnStep
<1>4. CASE ExecutorStopped(cluster[r]) /\ Goto(w, r, "pods")
  <2>1. "pods" \in Points
    BY DEF Points, CleanupPoints
  <2>2. ASSUME NEW a \in Attempts, a.pc = "pods"
        PROVE  /\ Placed(a, res[r], cluster[r], flight[r]) /\ Routed(a, State(w, r), res[r])
               /\ Binding(a, exec[r], cluster[r])
    BY <1>2, <1>4, <2>2 DEF Placed, Routed, Binding, Materialized, Unbound
  <2>3. QED BY <1>1, <1>4, <2>1, <2>2, GotoStep
<1>5. QED BY <1>3, <1>4 DEF Verify

\* The attempt goes on with a Job, found or created.
Knows(w, r, uid) ==
    \/ Become(w, r, [att[w][r] EXCEPT !.pc = "bind", !.uid = uid])
    \/ Become(w, r, [att[w][r] EXCEPT !.pc = "bind", !.fenced = FALSE, !.uid = uid])

\* The attempt that knows the UID of the Job.
LEMMA BindFields ==
    ASSUME Typed, NEW w \in Workers, NEW r \in Runs, NEW uid \in 0..MaxUid, Knows(w, r, uid)
    PROVE  \E b \in Attempts : /\ Become(w, r, b) /\ b.pc = "bind" /\ b.uid = uid
                               /\ b.left = att[w][r].left
<1>1. PICK old \in Attempts : old = att[w][r]
  BY RowsTyped
<1>2. "bind" \in Points
  BY DEF Points
<1>3. LET b == [old EXCEPT !.pc = "bind", !.uid = uid] IN
      b \in Attempts /\ b.pc = "bind" /\ b.uid = uid /\ b.left = old.left
  BY <1>2 DEF Attempts
<1>4. LET b == [old EXCEPT !.pc = "bind", !.fenced = FALSE, !.uid = uid] IN
      b \in Attempts /\ b.pc = "bind" /\ b.uid = uid /\ b.left = old.left
  BY <1>2 DEF Attempts
<1>5. QED BY <1>1, <1>3, <1>4 DEF Knows

\* A Job that a lost attempt created is bound; without one, dispatch or cleanup goes on.
LEMMA RecoverStep ==
    ASSUME BenchmarkInv, [BenchmarkNext]_benchmarkVars, NEW w \in Workers, NEW r \in Runs,
           RecoverJob(w, r)
    PROVE  BenchmarkInv'
<1>1. Live(att[w][r]) /\ UNCHANGED <<storeVars, res, exec, cluster, flight>>
  BY DEF RecoverJob, Calls, Live
<1>2. /\ res[r].stage = "held"
         \/ (res[r].stage \in {"started", "fenced"} /\ Barred(cluster[r], flight[r]))
      /\ exec[r] = NoUid
  BY <1>1, Facts DEF Placed, Binding, Unbound, RecoverJob, Calls
<1>3. CASE Knows(w, r, cluster[r].uid)
  <2>1. Typed /\ cluster[r].uid \in 0..MaxUid
    BY Facts DEF Clusters
  <2>2. PICK a \in Attempts : /\ Become(w, r, a) /\ a.pc = "bind" /\ a.uid = cluster[r].uid
                              /\ a.left = att[w][r].left
    BY <1>3, <2>1, BindFields, SMTT(30)
  <2>3. /\ Placed(a, res[r], cluster[r], flight[r]) /\ Routed(a, State(w, r), res[r])
        /\ Binding(a, exec[r], cluster[r])
    BY <1>2, <2>2 DEF Placed, Routed, Binding, Materialized, Unbound
  <2>4. QED BY <1>1, <2>2, <2>3, MoveStep
<1>4. ASSUME NEW pc \in {"stop", "qualify"}, Goto(w, r, pc),
             pc = "stop" => CleaningUp(r), pc = "qualify" => ~CleaningUp(r)
      PROVE  BenchmarkInv'
  <2>1. pc \in Points
    BY DEF Points, CleanupPoints
  <2>2. ASSUME NEW a \in Attempts, a.pc = pc
        PROVE  /\ Placed(a, res[r], cluster[r], flight[r]) /\ Routed(a, State(w, r), res[r])
               /\ Binding(a, exec[r], cluster[r])
    BY <1>2, <1>4, <2>2 DEF Placed, Routed, Binding, Materialized, Unbound, CleaningUp
  <2>3. QED BY <1>1, <1>4, <2>1, <2>2, GotoStep
<1>5. QED BY <1>3, <1>4 DEF RecoverJob, Knows

\* The Job that is bound is the one there is, unless requests are executed late.
LEMMA BindStep ==
    ASSUME BenchmarkInv, [BenchmarkNext]_benchmarkVars, NEW w \in Workers, NEW r \in Runs,
           BindExecution(w, r)
    PROVE  BenchmarkInv'
<1> DEFINE uid == att[w][r].uid
<1>1. Live(att[w][r]) /\ runs' = runs /\ leases' = leases /\ claims' = claims /\ res' = res
      /\ cluster' = cluster /\ flight' = flight
  BY DEF BindExecution, Calls, Live, storeVars
<1>2. /\ res[r].stage = "held"
         \/ (res[r].stage \in {"started", "fenced"} /\ Barred(cluster[r], flight[r]))
      /\ RequestBound = 0 => uid = cluster[r].uid
  BY <1>1, Facts DEF Placed, Binding, BindExecution, Calls
<1>3. Typed /\ Leased(att[w][r], w, leases[r]) /\ uid \in 0..MaxUid
  BY <1>1, Facts DEF Attempts
<1>4. /\ res \in [Runs -> Rows] /\ cluster \in [Runs -> Clusters]
      /\ flight \in [Runs -> [Requests -> 0..RequestBound]]
      /\ exec' \in [Runs -> 0..MaxUid] /\ exec'[r] = uid
      /\ \A q \in Runs \ {r} : exec'[q] = exec[q]
  BY <1>3 DEF Typed, BindExecution
<1>5. Faithful(uid, res[r], cluster[r])
  BY <1>2 DEF Faithful
<1>6. Situation(res[r], cluster[r], flight[r]) /\ Staging(runs[r].state, res[r])
  BY Facts
<1>7. "stop" \in Points /\ (Goto(w, r, "stop") \/ Returns(w, r))
  BY DEF Points, CleanupPoints, BindExecution
<1>8. PICK a \in Attempts :
         Become(w, r, a) /\ (Live(a) => a.pc = "stop" /\ a.left = att[w][r].left)
  BY <1>3, <1>7, AnswerFields
<1>9. CASE CleaningUp(r)
  <2>1. Live(a) => /\ Leased(a, w, leases[r])
                   /\ Placed(a, res[r], cluster[r], flight[r])
                   /\ Routed(a, State(w, r), res[r]) /\ Binding(a, uid, cluster[r])
    BY <1>2, <1>3, <1>8, <1>9
    DEF Placed, Routed, Binding, Materialized, Unbound, CleaningUp, Leased
  <2>2. QED BY <1>1, <1>4, <1>5, <1>6, <1>8, <2>1, CallStep
<1>10. CASE Returns(w, r)
  BY <1>1, <1>4, <1>5, <1>6, <1>10, ReturnedFields, CallStep DEF Returns
<1>11. QED BY <1>9, <1>10 DEF BindExecution

-----------------------------------------------------------------------------
(* Calls that write the reservation *)

\* A claim at the stored revision shows the stored state.
LEMMA CurrentState ==
    ASSUME BenchmarkInv, NEW w \in Workers, NEW r \in Runs, Owned(w, r),
           claims[w][r].revision = runs[r].revision
    PROVE  State(w, r) = runs[r].state
BY DEF BenchmarkInv, IInv, RevisionIdentifiesSnapshot, Owned, State

\* No request has more time left than the grace period gives it.
LEMMA GraceIsEnough ==
    ASSUME NEW f \in [Requests -> 0..RequestBound]
    PROVE  \A q \in Requests : Spent(f[q], Grace)
BY GraceAssumption, SMTT(30) DEF Spent

\* The fields of a row that was filled in.
LEMMA FilledFields ==
    ASSUME NEW row \in Rows, NEW bound \in BOOLEAN, NEW sealed \in BOOLEAN
    PROVE  /\ Filled(row, bound, sealed) \in Rows
           /\ Filled(row, bound, sealed).stage = row.stage
           /\ Filled(row, bound, sealed).drain = row.drain
           /\ Filled(row, bound, sealed).next = row.next
BY SMTT(30) DEF Filled, Rows

\* A call that writes the reservation and goes on with another.
LEMMA RowGoto ==
    ASSUME BenchmarkInv, [BenchmarkNext]_benchmarkVars, NEW w \in Workers, NEW r \in Runs,
           Live(att[w][r]), NEW pc \in Points, Goto(w, r, pc) \/ Returns(w, r), NEW row \in Rows,
           res' = [res EXCEPT ![r] = row], UNCHANGED <<runs, leases, claims, exec, cluster, flight>>,
           Situation(row, cluster[r], flight[r]), Staging(runs[r].state, row),
           Faithful(exec[r], row, cluster[r]),
           \A a \in Attempts : a.pc = pc => /\ Placed(a, row, cluster[r], flight[r])
                                            /\ Routed(a, State(w, r), row)
                                            /\ Binding(a, exec[r], cluster[r])
    PROVE  BenchmarkInv'
<1>1. Typed
  BY DEF BenchmarkInv
<1>2. PICK a \in Attempts :
              Become(w, r, a) /\ (Live(a) => a.pc = pc /\ a.left = att[w][r].left)
  BY <1>1, AnswerFields
<1>3. QED BY <1>2, RowStep

\* A row that was filled in says what it said before.
LEMMA FilledRow ==
    ASSUME NEW row \in Rows, NEW bound \in BOOLEAN, NEW sealed \in BOOLEAN,
           NEW state, NEW c, NEW f, NEW e,
           Situation(row, c, f), Staging(state, row), Faithful(e, row, c)
    PROVE  LET new == Filled(row, bound, sealed) IN
           /\ new \in Rows /\ new.stage = row.stage
           /\ Situation(new, c, f) /\ Staging(state, new) /\ Faithful(e, new, c)
<1> DEFINE new == Filled(row, bound, sealed)
<1>1. new \in Rows /\ new.stage = row.stage /\ new.drain = row.drain /\ new.next = row.next
  BY FilledFields
<1> HIDE DEF new
<1>2. Situation(new, c, f)
  BY <1>1 DEF Situation
<1>3. Staging(state, new)
  BY <1>1 DEF Staging
<1>4. Faithful(e, new, c)
  BY <1>1 DEF Faithful
<1>5. QED BY <1>1, <1>2, <1>3, <1>4 DEF new

\* The target is taken by a Run that is provisioned and has nothing in the cluster yet.
LEMMA ReserveStep ==
    ASSUME BenchmarkInv, [BenchmarkNext]_benchmarkVars, NEW w \in Workers, NEW r \in Runs,
           ReserveBenchmark(w, r)
    PROVE  BenchmarkInv'
<1> DEFINE row == Staged(res[r], "held", res[r].drain, res[r].next)
<1>1. /\ Live(att[w][r]) /\ UNCHANGED <<runs, leases, claims, exec, cluster, flight>>
      /\ att[w][r].pc = "reserve" /\ runs[r].state = "PROVISIONING"
      /\ Goto(w, r, "namespace") \/ Returns(w, r)
  BY DEF ReserveBenchmark, Calls, Live, HoldTarget, Answered
<1>2. Typed /\ res[r] \in Rows /\ res[r].drain \in 0..Grace /\ res[r].next \in Names
  <2>1. Typed /\ res[r] \in Rows
    BY RowsTyped DEF BenchmarkInv
  <2>2. QED BY <2>1 DEF Rows
<1>3. res' = [res EXCEPT ![r] = row]
  BY <1>2, SMTT(30) DEF ReserveBenchmark, Typed
<1>4. row \in Rows /\ row.stage = "held"
  BY <1>2 DEF Staged, Rows
<1>5. exec[r] = NoUid
  BY <1>1, Facts DEF Binding, Unbound
<1> HIDE DEF row
<1>6. /\ Situation(row, cluster[r], flight[r]) /\ Faithful(exec[r], row, cluster[r])
      /\ Staging(runs[r].state, row)
  <2>1. Situation(res[r], cluster[r], flight[r])
    BY Facts
  <2>2. QED BY <1>1, <1>4, <1>5, <2>1 DEF Situation, Faithful, Staging, Executing
<1>7. ASSUME NEW a \in Attempts, a.pc = "namespace"
      PROVE  /\ Placed(a, row, cluster[r], flight[r]) /\ Routed(a, State(w, r), row)
             /\ Binding(a, exec[r], cluster[r])
  BY <1>4, <1>5, <1>7 DEF Placed, Routed, Binding, Materialized, Unbound
<1>8. "namespace" \in Points
  BY DEF Points, DispatchPoints
<1>9. QED BY <1>1, <1>3, <1>4, <1>6, <1>7, <1>8, RowGoto

\* BindBenchmarkNamespace and SealBenchmarkRequest fill in the row of a target that is held.
LEMMA MaterializeStep ==
    ASSUME BenchmarkInv, [BenchmarkNext]_benchmarkVars, NEW w \in Workers, NEW r \in Runs,
           Materialize(w, r)
    PROVE  BenchmarkInv'
<1>1. /\ Live(att[w][r]) /\ UNCHANGED <<runs, leases, claims, exec, cluster, flight>>
      /\ att[w][r].pc \in Materialized /\ res[r].stage = "held"
  BY DEF Materialize, Calls, Live, storeVars, Materialized
<1>2. cluster[r].namespace /\ exec[r] = NoUid
  BY <1>1, Facts DEF Placed, Binding, Unbound
<1>3. Typed /\ res[r] \in Rows
  BY RowsTyped DEF BenchmarkInv
<1>4. PICK bound \in BOOLEAN, sealed \in BOOLEAN, pc \in {"seal", "inventory"} :
         /\ res' = [res EXCEPT ![r] = Filled(res[r], bound, sealed)]
         /\ Goto(w, r, pc) \/ Returns(w, r)
  <2>1. res[r].bound \in BOOLEAN /\ res[r].sealed \in BOOLEAN
    BY <1>3 DEF Rows
  <2>2. CASE /\ res' = [res EXCEPT ![r] = Filled(@, TRUE, @.sealed)]
             /\ Goto(w, r, "seal") \/ Returns(w, r)
    <3>1. res' = [res EXCEPT ![r] = Filled(res[r], TRUE, res[r].sealed)]
      BY <1>3, <2>2 DEF Typed
    <3>2. QED BY <2>1, <2>2, <3>1
  <2>3. CASE /\ res' = [res EXCEPT ![r] = Filled(@, @.bound, TRUE)]
             /\ Goto(w, r, "inventory") \/ Returns(w, r)
    <3>1. res' = [res EXCEPT ![r] = Filled(res[r], res[r].bound, TRUE)]
      BY <1>3, <2>3 DEF Typed
    <3>2. QED BY <2>1, <2>3, <3>1
  <2>4. QED BY <2>2, <2>3 DEF Materialize, Answered
<1> DEFINE row == Filled(res[r], bound, sealed)
<1>5. /\ row \in Rows /\ row.stage = "held" /\ res' = [res EXCEPT ![r] = row]
      /\ Situation(row, cluster[r], flight[r]) /\ Staging(runs[r].state, row)
      /\ Faithful(exec[r], row, cluster[r])
  <2>1. /\ Situation(res[r], cluster[r], flight[r]) /\ Staging(runs[r].state, res[r])
        /\ Faithful(exec[r], res[r], cluster[r])
    BY Facts
  <2>2. QED BY <1>1, <1>3, <1>4, <2>1, FilledRow
<1> HIDE DEF row
<1>6. pc \in Points
  BY DEF Points, DispatchPoints
<1>7. ASSUME NEW a \in Attempts, a.pc = pc
      PROVE  /\ Placed(a, row, cluster[r], flight[r]) /\ Routed(a, State(w, r), row)
             /\ Binding(a, exec[r], cluster[r])
  BY <1>2, <1>4, <1>5, <1>7 DEF Placed, Routed, Binding, Materialized, Unbound
<1>8. QED BY <1>1, <1>4, <1>5, <1>6, <1>7, RowGoto

\* A Run that holds the target may be cleaned up in the states cleanup is begun for.
\* (BeginBenchmarkCleanup.)
LEMMA CleanupBegins ==
    ASSUME NEW state, NEW old, NEW new, NEW next, Staging(state, old), old.stage = "held",
           Reason(state, next), new.stage = "started", new.next = next
    PROVE  Staging(state, new)
<1>1. state \in Executing \union {"COLLECTING", "ANALYZING", "CANCELLING"}
                \union (TerminalStates \ {"COMPLETED"})
  BY DEF Staging
<1>2. /\ state \in Executing \union {"ANALYZING", "CANCELLING"}
                   \union (TerminalStates \ {"COMPLETED"})
      /\ next \in {"ANALYZING"} \union TerminalStates
  BY <1>1, SMTT(30) DEF Reason, Executing, TerminalStates
<1>3. QED BY <1>2, SMTT(30) DEF Staging

\* Cleanup begins with an outcome that the Run can still get.
LEMMA BeginCleanupStep ==
    ASSUME BenchmarkInv, [BenchmarkNext]_benchmarkVars, NEW w \in Workers, NEW r \in Runs,
           BeginCleanup(w, r)
    PROVE  BenchmarkInv'
<1> DEFINE next == att[w][r].next
           row == Staged(res[r], "started", Grace, next)
<1>1. /\ Live(att[w][r]) /\ UNCHANGED <<runs, leases, claims, exec, cluster, flight>>
      /\ att[w][r].pc = "begin" /\ res[r].stage = "held"
      /\ Owned(w, r) /\ claims[w][r].revision = runs[r].revision
      /\ Goto(w, r, "inspect") \/ Returns(w, r)
  BY DEF BeginCleanup, Calls, Live, storeVars, Answered, Current
<1>2. Typed /\ res[r] \in Rows /\ att[w][r] \in Attempts
  BY RowsTyped DEF BenchmarkInv
<1>3. next \in Names /\ Grace \in 0..Grace
  BY <1>2, GraceAssumption, SMTT(30) DEF Attempts
<1>4. row \in Rows /\ row.stage = "started" /\ row.drain = Grace /\ row.next = next
  BY <1>2, <1>3 DEF Staged, Rows
<1>5. res' = [res EXCEPT ![r] = row]
  BY <1>2, SMTT(30) DEF BeginCleanup, Typed
<1> HIDE DEF row
<1>6. Situation(row, cluster[r], flight[r])
  <2>1. Situation(res[r], cluster[r], flight[r]) /\ flight[r] \in [Requests -> 0..RequestBound]
    BY Facts
  <2>2. \A q \in Requests : Spent(flight[r][q], Grace)
    BY <2>1, GraceIsEnough
  <2>3. QED BY <1>4, <2>1, <2>2 DEF Situation
<1>7. Staging(runs[r].state, row)
  <2>1. Reason(runs[r].state, next)
    BY <1>1, Facts, CurrentState DEF Routed
  <2>2. Staging(runs[r].state, res[r])
    BY Facts
  <2>3. res[r].stage = "held" BY <1>1
  <2>4. QED BY <1>4, <2>1, <2>2, <2>3, CleanupBegins
<1>8. Faithful(exec[r], row, cluster[r])
  <2>1. Faithful(exec[r], res[r], cluster[r])
    BY Facts
  <2>2. QED BY <1>4, <2>1 DEF Faithful
<1>9. ASSUME NEW a \in Attempts, a.pc = "inspect"
      PROVE  /\ Placed(a, row, cluster[r], flight[r]) /\ Routed(a, State(w, r), row)
             /\ Binding(a, exec[r], cluster[r])
  BY <1>4, <1>9 DEF Placed, Routed, Binding, Materialized, Unbound
<1>10. "inspect" \in Points
  BY DEF Points
<1>11. QED BY <1>1, <1>4, <1>5, <1>6, <1>7, <1>8, <1>9, <1>10, RowGoto

\* BindBenchmarkCleanupNamespace fills in the row of a target that is cleaned up.
LEMMA BindCleanupStep ==
    ASSUME BenchmarkInv, [BenchmarkNext]_benchmarkVars, NEW w \in Workers, NEW r \in Runs,
           BindCleanupNamespace(w, r)
    PROVE  BenchmarkInv'
<1> DEFINE row == Filled(res[r], TRUE, res[r].sealed)
<1>1. /\ Live(att[w][r]) /\ UNCHANGED <<runs, leases, claims, exec, cluster, flight>>
      /\ res[r].stage \in {"started", "fenced"}
      /\ Goto(w, r, "close") \/ Returns(w, r)
  BY DEF BindCleanupNamespace, Calls, Live, storeVars, CleaningUp, Answered
<1>2. Typed /\ res[r] \in Rows
  BY RowsTyped DEF BenchmarkInv
<1>3. res' = [res EXCEPT ![r] = row]
  BY <1>2, SMTT(30) DEF BindCleanupNamespace, Typed
<1>4. /\ row \in Rows /\ row.stage = res[r].stage
      /\ Situation(row, cluster[r], flight[r]) /\ Staging(runs[r].state, row)
      /\ Faithful(exec[r], row, cluster[r])
  <2>1. /\ Situation(res[r], cluster[r], flight[r]) /\ Staging(runs[r].state, res[r])
        /\ Faithful(exec[r], res[r], cluster[r])
    BY Facts
  <2>2. TRUE \in BOOLEAN /\ res[r].sealed \in BOOLEAN
    BY <1>2 DEF Rows
  <2>3. QED BY <1>2, <2>1, <2>2, FilledRow
<1> HIDE DEF row
<1>5. "close" \in Points
  BY DEF Points, CleanupPoints
<1>6. ASSUME NEW a \in Attempts, a.pc = "close"
      PROVE  /\ Placed(a, row, cluster[r], flight[r]) /\ Routed(a, State(w, r), row)
             /\ Binding(a, exec[r], cluster[r])
  BY <1>1, <1>4, <1>6 DEF Placed, Routed, Binding, Materialized, Unbound
<1>7. QED BY <1>1, <1>3, <1>4, <1>5, <1>6, RowGoto

\* The drain clock starts when no workload Pod is let in any more, with the whole grace
\* period on it; verification begins when it has run out.
LEMMA RecordStep ==
    ASSUME BenchmarkInv, [BenchmarkNext]_benchmarkVars, NEW w \in Workers, NEW r \in Runs,
           RecordFence(w, r)
    PROVE  BenchmarkInv'
<1> DEFINE row == Staged(res[r], "fenced", Grace, res[r].next)
<1>1. /\ Live(att[w][r]) /\ UNCHANGED <<storeVars, exec, cluster, flight>>
      /\ att[w][r].pc = "record"
      /\ res[r].stage \in {"started", "fenced"}
  BY DEF RecordFence, Calls, Live, CleaningUp
<1>2. Barred(cluster[r], flight[r])
  BY <1>1, Facts DEF Placed
<1>3. CASE FirstFence(r) /\ Returns(w, r)
           /\ res' = [res EXCEPT ![r] = Staged(@, "fenced", Grace, @.next)]
  <2>1. Typed /\ res[r] \in Rows
    BY RowsTyped DEF BenchmarkInv
  <2>2. res[r].next \in Names /\ Grace \in 0..Grace
    BY <2>1, GraceAssumption, SMTT(30) DEF Rows
  <2>3. row \in Rows /\ row.stage = "fenced" /\ row.drain = Grace /\ row.next = res[r].next
    BY <2>1, <2>2 DEF Staged, Rows
  <2>4. res' = [res EXCEPT ![r] = row]
    BY <1>3, <2>1, SMTT(30) DEF Typed
  <2> HIDE DEF row
  <2>5. /\ Situation(res[r], cluster[r], flight[r]) /\ flight[r] \in [Requests -> 0..RequestBound]
        /\ Staging(runs[r].state, res[r]) /\ Faithful(exec[r], res[r], cluster[r])
    BY Facts
  <2>6. \A q \in Requests : Spent(flight[r][q], Grace)
    BY <2>5, GraceIsEnough
  <2>7. Situation(row, cluster[r], flight[r])
    <3>1. "pod" \in Requests
      BY DEF Requests
    <3>2. QED BY <1>2, <2>3, <2>5, <2>6, <3>1 DEF Situation
  <2>8. Staging(runs[r].state, row) /\ Faithful(exec[r], row, cluster[r])
    BY <1>1, <2>3, <2>5 DEF Staging, Faithful
  <2>9. UNCHANGED <<runs, leases, claims, exec, cluster, flight>>
    BY <1>1 DEF storeVars
  <2>10. Become(w, r, Returned) /\ Returned \in Attempts /\ ~Live(Returned)
    BY <1>3, ReturnedFields DEF Returns
  <2>11. QED BY <1>1, <2>3, <2>4, <2>7, <2>8, <2>9, <2>10, RowStep
<1>4. CASE Returns(w, r) /\ UNCHANGED res
  BY <1>1, <1>4, ReturnStep
<1>5. CASE ~FirstFence(r) /\ Drained(r) /\ Goto(w, r, "verify") /\ UNCHANGED res
  <2>1. res[r].stage = "fenced" /\ res[r].drain = 0
    BY <1>1, <1>5 DEF FirstFence, Drained
  <2>2. "verify" \in Points
    BY DEF Points, CleanupPoints
  <2>3. ASSUME NEW a \in Attempts, a.pc = "verify"
        PROVE  /\ Placed(a, res[r], cluster[r], flight[r]) /\ Routed(a, State(w, r), res[r])
               /\ Binding(a, exec[r], cluster[r])
    BY <2>1, <2>3 DEF Placed, Routed, Binding, Materialized, Unbound
  <2>4. QED BY <1>1, <1>5, <2>2, <2>3, GotoStep
<1>6. QED BY <1>3, <1>4, <1>5 DEF RecordFence

-----------------------------------------------------------------------------
(* Calls that have an effect on the cluster *)

\* What the cluster does on its own account, and cleanup: the namespace stays, a barrier
\* stays, requests are only executed, and what is clean stays clean.
Settling(c, f, d, g) ==
    /\ c.namespace => d.namespace
    /\ c.quota = "closed" => d.quota = "closed"
    /\ Bare(c, f) => Bare(d, g)
    /\ \A q \in Requests \ {"pod"} : g[q] \in {0, f[q]}
    /\ Barred(c, f) => g["pod"] \in {0, f["pod"]}
    /\ (\A q \in Requests : f[q] = 0) =>
          /\ d.authority \subseteq c.authority
          /\ ExecutorStopped(c) => ExecutorStopped(d)
          /\ ExecutorStopped(c) /\ c.load = "none" => d.load = "none"

\* When no request is executed late, a Job stays the Job it is.
SameJob(c, d) == RequestBound = 0 => d.uid = c.uid /\ (d.job \in Jobs => c.job \in Jobs)

\* A barrier stays.
LEMMA BarredStays ==
    ASSUME NEW c, NEW f, NEW d, NEW g, Settling(c, f, d, g), Barred(c, f)
    PROVE  Barred(d, g)
BY DEF Settling, Barred

\* What the stage of a reservation says stays true.
LEMMA SituationStays ==
    ASSUME NEW row, NEW c, NEW f, NEW d, NEW g, Settling(c, f, d, g), Situation(row, c, f)
    PROVE  Situation(row, d, g)
<1>1. "namespace" \in Requests \ {"pod"}
  BY DEF Requests
<1>2. row.stage \in {"absent", "released"} => Bare(d, g) /\ g["namespace"] = 0
  BY <1>1 DEF Settling, Situation
<1>3. ~d.namespace => Bare(d, g)
  BY DEF Settling, Situation
<1>4. ASSUME NEW q \in Requests \ {"pod"}, row.stage \in {"started", "fenced"}
      PROVE  Spent(g[q], row.drain)
  BY <1>4 DEF Settling, Situation, Spent
<1>5. row.stage = "fenced" => Barred(d, g) /\ Spent(g["pod"], row.drain)
  BY BarredStays DEF Settling, Situation, Spent
<1>6. QED BY <1>2, <1>3, <1>4, <1>5 DEF Situation

\* Once the drain clock has run out nothing is on its way.
LEMMA NothingOnItsWay ==
    ASSUME NEW row, NEW c, NEW f \in [Requests -> 0..RequestBound], Situation(row, c, f),
           row.stage = "fenced", row.drain = 0
    PROVE  \A q \in Requests : f[q] = 0
<1>1. ASSUME NEW q \in Requests PROVE f[q] = 0
  <2>1. Spent(f[q], 0)
    BY DEF Situation
  <2>2. QED BY <2>1, GraceAssumption, SMTT(30) DEF Spent
<1>2. QED BY <1>1, SMTT(30)

\* What an attempt relies on stays true.
LEMMA PlacedStays ==
    ASSUME NEW a, NEW row, NEW c, NEW f \in [Requests -> 0..RequestBound], NEW d, NEW g,
           Settling(c, f, d, g), Situation(row, c, f), Placed(a, row, c, f)
    PROVE  Placed(a, row, d, g)
<1>1. ASSUME a.pc \in {"verify", "pods", "revoke", "reverify", "finish"}
      PROVE  Placed(a, row, d, g)
  <2>1. \A q \in Requests : f[q] = 0
    BY <1>1, NothingOnItsWay DEF Placed
  <2>2. /\ d.authority \subseteq c.authority
        /\ ExecutorStopped(c) => ExecutorStopped(d)
        /\ ExecutorStopped(c) /\ c.load = "none" => d.load = "none"
    BY <2>1 DEF Settling
  <2>3. QED BY <1>1, <2>2, SMTT(30) DEF Placed, Materialized
<1>2. ASSUME a.pc \notin {"verify", "pods", "revoke", "reverify", "finish"}
      PROVE  Placed(a, row, d, g)
  <2>1. (c.namespace => d.namespace) /\ (Barred(c, f) => Barred(d, g))
    BY BarredStays DEF Settling
  <2>2. QED BY <1>2, <2>1, SMTT(30) DEF Placed
<1>3. QED BY <1>1, <1>2, SMTT(30)

\* So do the bound Job and what is known of it.
LEMMA BindingStays ==
    ASSUME NEW a, NEW e, NEW row, NEW c, NEW d, SameJob(c, d)
    PROVE  /\ Faithful(e, row, c) => Faithful(e, row, d)
           /\ Binding(a, e, c) => Binding(a, e, d)
BY DEF SameJob, Faithful, Binding

\* A step of the cluster keeps the invariant if it settles the objects of a Run.
LEMMA ClusterStep ==
    ASSUME BenchmarkInv, [BenchmarkNext]_benchmarkVars, NEW r \in Runs, NEW d \in Clusters,
           NEW g \in [Requests -> 0..RequestBound],
           cluster' = [cluster EXCEPT ![r] = d], flight' = [flight EXCEPT ![r] = g],
           UNCHANGED <<storeVars, att, res, exec>>,
           Settling(cluster[r], flight[r], d, g), SameJob(cluster[r], d)
    PROVE  BenchmarkInv'
<1>1. /\ runs' = runs /\ leases' = leases /\ claims' = claims /\ res' = res /\ exec' = exec
      /\ att' = att
  BY DEF storeVars
<1>2. /\ Situation(res[r], cluster[r], flight[r]) /\ Staging(runs[r].state, res[r])
      /\ Faithful(exec[r], res[r], cluster[r])
      /\ Typed /\ flight[r] \in [Requests -> 0..RequestBound]
  BY Facts
<1>3. /\ cluster' \in [Runs -> Clusters] /\ cluster'[r] = d
      /\ \A q \in Runs \ {r} : cluster'[q] = cluster[q]
  BY <1>2 DEF Typed
<1>4. /\ flight' \in [Runs -> [Requests -> 0..RequestBound]] /\ flight'[r] = g
      /\ \A q \in Runs \ {r} : flight'[q] = flight[q]
  BY <1>2 DEF Typed
<1>5. Typed'
  BY <1>1, <1>2, <1>3, <1>4 DEF Typed
<1>6. \A q \in Runs \ {r} : Same(q)
  BY <1>1, <1>3, <1>4 DEF Same
<1>7. Situation(res[r], d, g)
  BY <1>2, SituationStays
<1>8. Faithful(exec[r], res[r], d)
  BY <1>2, BindingStays
<1>9. ASSUME NEW w \in Workers PROVE Fits(w, r)'
  <2>1. ASSUME Live(att[w][r])
        PROVE  /\ Leased(att[w][r], w, leases[r])
               /\ Placed(att[w][r], res[r], d, g)
               /\ Routed(att[w][r], State(w, r), res[r])
               /\ Binding(att[w][r], exec[r], d)
    <3>1. /\ Leased(att[w][r], w, leases[r])
          /\ Placed(att[w][r], res[r], cluster[r], flight[r])
          /\ Routed(att[w][r], State(w, r), res[r])
          /\ Binding(att[w][r], exec[r], cluster[r])
      BY <2>1, Facts
    <3>2. Placed(att[w][r], res[r], d, g)
      BY <1>2, <3>1, PlacedStays
    <3>3. Binding(att[w][r], exec[r], d)
      BY <3>1, BindingStays
    <3>4. QED BY <3>1, <3>2, <3>3
  <2>2. QED BY <1>1, <1>3, <1>4, <2>1 DEF Fits, State
<1>10. InOrder(r)'
  BY <1>1, <1>2, <1>3, <1>4, <1>7, <1>8, <1>9 DEF InOrder
<1>11. QED BY <1>5, <1>6, <1>10, LocalStep

\* An effect of cleanup keeps the invariant if it settles the objects of the Run, and leaves
\* the attempt in order.
LEMMA CleanStep ==
    ASSUME BenchmarkInv, [BenchmarkNext]_benchmarkVars, NEW w \in Workers, NEW r \in Runs,
           Live(att[w][r]), NEW a \in Attempts, Become(w, r, a), NEW d \in Clusters,
           cluster' = [cluster EXCEPT ![r] = d], UNCHANGED <<storeVars, res, exec, flight>>,
           Settling(cluster[r], flight[r], d, flight[r]), SameJob(cluster[r], d),
           Live(a) => /\ a.left = att[w][r].left
                      /\ Placed(a, res[r], d, flight[r])
                      /\ Routed(a, State(w, r), res[r])
                      /\ Binding(a, exec[r], d)
    PROVE  BenchmarkInv'
<1>1. Situation(res[r], cluster[r], flight[r]) /\ Faithful(exec[r], res[r], cluster[r])
  BY Facts
<1>2. Situation(res[r], d, flight[r]) /\ Faithful(exec[r], res[r], d)
  BY <1>1, SituationStays, BindingStays
<1>3. QED BY <1>2, EffectStep

\* Objects are changed one at a time, and only those that are there.
Lessens(c, d) ==
    /\ c.namespace => d.namespace
    /\ c.quota = "closed" => d.quota = "closed"
    /\ d.authority \subseteq c.authority
    /\ ExecutorStopped(c) => ExecutorStopped(d) /\ (c.load = "none" => d.load = "none")

\* That settles them.
LEMMA LessIsSettled ==
    ASSUME NEW c, NEW d, NEW f, Lessens(c, d)
    PROVE  Settling(c, f, d, f)
<1>1. Bare(c, f) => Bare(d, f)
  BY DEF Lessens, Bare
<1>2. QED BY <1>1 DEF Lessens, Settling

\* A step of the cluster in which no request is executed.
LEMMA ObjectStep ==
    ASSUME BenchmarkInv, [BenchmarkNext]_benchmarkVars, NEW r \in Runs, NEW d \in Clusters,
           cluster' = [cluster EXCEPT ![r] = d], UNCHANGED <<storeVars, att, res, exec, flight>>,
           Lessens(cluster[r], d), SameJob(cluster[r], d)
    PROVE  BenchmarkInv'
<1>1. Typed /\ flight[r] \in [Requests -> 0..RequestBound]
  BY RowsTyped DEF BenchmarkInv
<1>2. flight' = [flight EXCEPT ![r] = flight[r]]
  BY <1>1 DEF Typed
<1>3. Settling(cluster[r], flight[r], d, flight[r])
  BY LessIsSettled
<1>4. QED BY <1>1, <1>2, <1>3, ClusterStep

\* A Job that is there ends or is deleted.
LEMMA JobUpdate ==
    ASSUME NEW c \in Clusters, NEW job \in {"finished", "deleting", "gone"}, c.job \in Jobs
    PROVE  LET d == [c EXCEPT !.job = job] IN
           d \in Clusters /\ Lessens(c, d) /\ SameJob(c, d)
BY SMTT(30) DEF Clusters, Lessens, ExecutorStopped, SameJob, Jobs

\* The Pod of a Job that is there starts, ends or goes.
LEMMA ExecutorUpdate ==
    ASSUME NEW c \in Clusters, NEW executor \in {"none", "active", "ended"}, c.job \in Jobs
    PROVE  LET d == [c EXCEPT !.executor = executor] IN
           d \in Clusters /\ Lessens(c, d) /\ SameJob(c, d)
BY SMTT(30) DEF Clusters, Lessens, ExecutorStopped, SameJob

\* A quota is closed, for good.
LEMMA QuotaUpdate ==
    ASSUME NEW c \in Clusters, NEW quota \in {"closing", "closed"},
           c.quota = "closed" => quota = "closed"
    PROVE  LET d == [c EXCEPT !.quota = quota] IN
           d \in Clusters /\ Lessens(c, d) /\ SameJob(c, d)
BY SMTT(30) DEF Clusters, Lessens, ExecutorStopped, SameJob

\* Workload Pods change that are there, or that an executor is there for.
LEMMA LoadUpdate ==
    ASSUME NEW c \in Clusters, NEW load \in {"none", "running", "ended", "deleting"},
           ~ExecutorStopped(c) \/ c.load # "none"
    PROVE  LET d == [c EXCEPT !.load = load] IN
           d \in Clusters /\ Lessens(c, d) /\ SameJob(c, d)
BY SMTT(30) DEF Clusters, Lessens, ExecutorStopped, SameJob

\* Authority is taken away.
LEMMA AuthorityUpdate ==
    ASSUME NEW c \in Clusters, NEW o
    PROVE  LET d == [c EXCEPT !.authority = @ \ {o}] IN
           d \in Clusters /\ Lessens(c, d) /\ SameJob(c, d)
BY SMTT(30) DEF Clusters, Lessens, ExecutorStopped, SameJob

\* The Job ends with its Pod.
LEMMA FinishUpdate ==
    ASSUME NEW c \in Clusters, c.job \in Jobs
    PROVE  LET d == [c EXCEPT !.executor = "ended", !.job = "finished"] IN
           d \in Clusters /\ Lessens(c, d) /\ SameJob(c, d)
BY DEF Clusters, Lessens, ExecutorStopped, SameJob, Jobs

\* The cluster does on its own what settles the objects of a Run.
LEMMA ControllersStep ==
    ASSUME BenchmarkInv, [BenchmarkNext]_benchmarkVars, NEW r \in Runs,
           ExecutorRuns(r) \/ LoadEnds(r) \/ Settles(r) \/ Evicts(r)
           \/ (CreatesLoad(r) /\ UNCHANGED flight)
    PROVE  BenchmarkInv'
<1>1. PICK c \in Clusters : c = cluster[r]
  BY RowsTyped DEF BenchmarkInv
<1>2. UNCHANGED <<storeVars, att, res, exec, flight>>
  BY DEF ExecutorRuns, LoadEnds, Settles, Evicts, CreatesLoad
<1>3. ASSUME NEW d \in Clusters, Lessens(c, d), SameJob(c, d),
             cluster' = [cluster EXCEPT ![r] = d]
      PROVE  BenchmarkInv'
  BY <1>1, <1>2, <1>3, ObjectStep
<1>4. CASE ExecutorRuns(r)
  <2>1. c.job \in Jobs
    BY <1>1, <1>4 DEF ExecutorRuns, Jobs
  <2>2. CASE cluster' = [cluster EXCEPT ![r].executor = "active"]
    BY <1>1, <1>3, <2>1, <2>2, ExecutorUpdate
  <2>3. CASE cluster' = [cluster EXCEPT ![r].executor = "ended", ![r].job = "finished"]
    <3>1. cluster' = [cluster EXCEPT ![r] = [c EXCEPT !.executor = "ended", !.job = "finished"]]
      <4>1. cluster \in [Runs -> Clusters]
        BY DEF BenchmarkInv, Typed
      <4>2. QED BY <1>1, <2>3, <4>1
    <3>2. QED BY <1>3, <2>1, <3>1, FinishUpdate
  <2>4. QED BY <1>4, <2>2, <2>3 DEF ExecutorRuns
<1>5. CASE LoadEnds(r)
  <2>1. c.load # "none" /\ cluster' = [cluster EXCEPT ![r].load = "ended"]
    BY <1>1, <1>5 DEF LoadEnds
  <2>2. QED BY <1>1, <1>3, <2>1, LoadUpdate
<1>6. CASE Settles(r)
  <2>1. CASE c.quota = "closing" /\ cluster' = [cluster EXCEPT ![r].quota = "closed"]
    BY <1>1, <1>3, <2>1, QuotaUpdate
  <2>2. CASE c.job = "deleting" /\ cluster' = [cluster EXCEPT ![r].executor = "none"]
    BY <1>1, <1>3, <2>2, ExecutorUpdate DEF Jobs
  <2>3. CASE c.job = "deleting" /\ cluster' = [cluster EXCEPT ![r].job = "gone"]
    BY <1>1, <1>3, <2>3, JobUpdate DEF Jobs
  <2>4. CASE c.load = "deleting" /\ cluster' = [cluster EXCEPT ![r].load = "none"]
    BY <1>1, <1>3, <2>4, LoadUpdate
  <2>5. QED BY <1>1, <1>6, <2>1, <2>2, <2>3, <2>4 DEF Settles
<1>7. CASE Evicts(r)
  <2>1. c.job \in Jobs /\ cluster' = [cluster EXCEPT ![r].job = "deleting"]
    BY <1>1, <1>7 DEF Evicts, Jobs
  <2>2. QED BY <1>1, <1>3, <2>1, JobUpdate
<1>8. CASE CreatesLoad(r) /\ UNCHANGED flight
  <2>1. CASE cluster' = [cluster EXCEPT ![r].load = "running"]
    <3>1. ~ExecutorStopped(c)
      BY <1>1, <1>8 DEF CreatesLoad, ExecutorStopped
    <3>2. QED BY <1>1, <1>3, <2>1, <3>1, LoadUpdate
  <2>2. CASE UNCHANGED cluster
    <3>1. cluster \in [Runs -> Clusters]
      BY DEF BenchmarkInv, Typed
    <3>2. cluster' = [cluster EXCEPT ![r] = c]
      BY <1>1, <2>2, <3>1
    <3>3. Lessens(c, c) /\ SameJob(c, c)
      BY DEF Lessens, SameJob
    <3>4. QED BY <1>3, <3>2, <3>3
  <2>3. QED BY <1>8, <2>1, <2>2 DEF CreatesLoad
<1>9. QED BY <1>4, <1>5, <1>6, <1>7, <1>8

\* A workload Pod that was let in before the barrier may be created later.
LEMMA LetInStep ==
    ASSUME BenchmarkInv, [BenchmarkNext]_benchmarkVars, NEW r \in Runs,
           CreatesLoad(r), UNCHANGED cluster
    PROVE  BenchmarkInv'
<1>1. CASE UNCHANGED flight
  BY <1>1, ControllersStep
<1>2. CASE flight' = [flight EXCEPT ![r] = InFlight(@, "pod")]
  <2>1. PICK f \in [Requests -> 0..RequestBound] : f = flight[r]
    BY RowsTyped DEF BenchmarkInv
  <2>2. PICK c \in Clusters : c = cluster[r]
    BY RowsTyped DEF BenchmarkInv
  <2>3. Typed
    BY DEF BenchmarkInv
  <2> DEFINE g == InFlight(f, "pod")
  <2>4. RequestBound \in 0..RequestBound /\ "pod" \in Requests
    BY GraceAssumption, SMTT(30) DEF Requests
  <2>5. /\ g \in [Requests -> 0..RequestBound]
        /\ \A q \in Requests \ {"pod"} : g[q] = f[q]
    BY <2>4 DEF InFlight
  <2>6. flight' = [flight EXCEPT ![r] = g] /\ cluster' = [cluster EXCEPT ![r] = c]
    BY <1>2, <2>1, <2>2, <2>3 DEF Typed
  <2> HIDE DEF g
  <2>7. c.executor = "active" /\ c.authority = Objects /\ c.quota # "closed"
        /\ UNCHANGED <<storeVars, att, res, exec>>
    BY <2>2 DEF CreatesLoad
  <2>8. ~ExecutorStopped(c) /\ ~Barred(c, f)
    BY <2>7 DEF ExecutorStopped, Barred, Bare
  <2>9. Settling(c, f, c, g) /\ SameJob(c, c)
    BY <2>5, <2>8 DEF Settling, SameJob, Barred
  <2>10. QED BY <2>1, <2>2, <2>5, <2>6, <2>7, <2>9, ClusterStep
<1>3. QED BY <1>1, <1>2 DEF CreatesLoad

\* What a request that is executed makes of the objects of a Run.
LEMMA LandedFields ==
    ASSUME NEW c \in Clusters, NEW q \in Requests, Landed(c, q).uid <= MaxUid
    PROVE  /\ Landed(c, q) \in Clusters
           /\ c.namespace => Landed(c, q).namespace
           /\ c.quota = "closed" => Landed(c, q).quota = "closed"
           /\ q = "namespace" => /\ Landed(c, q).authority = c.authority
                                 /\ Landed(c, q).job = c.job
                                 /\ Landed(c, q).executor = c.executor
                                 /\ Landed(c, q).load = c.load
<1>1. CASE q = "namespace"
  <2>1. Landed(c, q) = [c EXCEPT !.namespace = TRUE]
    BY <1>1, SMTT(30) DEF Landed
  <2>2. QED BY <1>1, <2>1 DEF Clusters
<1>2. CASE q = "quota"
  <2>1. Landed(c, q) = [c EXCEPT !.quota = IF @ = "absent" THEN "open" ELSE @]
    BY <1>2, SMTT(30) DEF Landed
  <2>2. QED BY <1>2, <2>1, SMTT(30) DEF Clusters
<1>3. CASE q = "job"
  <2>1. Landed(c, q) = NewJob(c)
    BY <1>3, SMTT(30) DEF Landed
  <2>2. NewJob(c) = c \/ NewJob(c) = [c EXCEPT !.job = "running", !.uid = @ + 1]
    BY SMTT(30) DEF NewJob
  <2>3. CASE NewJob(c) = c
    BY <1>3, <2>1, <2>3, SMTT(30)
  <2>4. CASE NewJob(c) = [c EXCEPT !.job = "running", !.uid = @ + 1]
    <3>1. PICK n \in 0..MaxUid : n = c.uid + 1
      BY <2>1, <2>4, MaxUidAssumption, SMTT(30) DEF Clusters
    <3>2. LET d == [c EXCEPT !.job = "running", !.uid = n] IN
          d \in Clusters /\ d.namespace = c.namespace /\ d.quota = c.quota
      BY DEF Clusters
    <3>3. QED BY <1>3, <2>1, <2>4, <3>1, <3>2
  <2>5. QED BY <2>2, <2>3, <2>4, SMTT(30)
<1>4. CASE q = "pod"
  <2>1. Landed(c, q) = [c EXCEPT !.load = "running"]
    BY <1>4, SMTT(30) DEF Landed
  <2>2. QED BY <1>4, <2>1, SMTT(30) DEF Clusters
<1>5. CASE q \in Objects
  <2>1. Landed(c, q) = [c EXCEPT !.authority = @ \union {q}]
    BY <1>5, ObjectsAssumption, SMTT(30) DEF Landed
  <2>2. QED BY <1>5, <2>1, ObjectsAssumption, SMTT(30) DEF Clusters
<1>6. QED BY <1>1, <1>2, <1>3, <1>4, <1>5 DEF Requests

\* A request that is executed late is one that the stage of the reservation reckons with.
LEMMA LandsStep ==
    ASSUME BenchmarkInv, [BenchmarkNext]_benchmarkVars, NEW r \in Runs, Lands(r)
    PROVE  BenchmarkInv'
<1>1. PICK f \in [Requests -> 0..RequestBound] : f = flight[r]
  BY RowsTyped DEF BenchmarkInv
<1>2. PICK c \in Clusters : c = cluster[r]
  BY RowsTyped DEF BenchmarkInv
<1>3. PICK q \in Requests : /\ flight[r][q] > 0 /\ Landed(cluster[r], q).uid <= MaxUid
                            /\ cluster' = [cluster EXCEPT ![r] = Landed(@, q)]
                            /\ flight' = [flight EXCEPT ![r][q] = 0]
  BY DEF Lands
<1> DEFINE d == Landed(c, q)
           g == [f EXCEPT ![q] = 0]
<1>4. /\ d \in Clusters /\ (c.namespace => d.namespace)
      /\ c.quota = "closed" => d.quota = "closed"
      /\ q = "namespace" => d.authority = c.authority /\ d.job = c.job
                            /\ d.executor = c.executor /\ d.load = c.load
  BY <1>2, <1>3, LandedFields
<1>5. g \in [Requests -> 0..RequestBound] /\ g[q] = 0
      /\ \A p \in Requests \ {q} : g[p] = f[p]
  <2>1. 0 \in 0..RequestBound
    BY GraceAssumption, SMTT(30)
  <2>2. QED BY <2>1
<1>6. cluster' = [cluster EXCEPT ![r] = d] /\ flight' = [flight EXCEPT ![r] = g]
  <2>1. Typed
    BY DEF BenchmarkInv
  <2>2. QED BY <1>1, <1>2, <1>3, <2>1 DEF Typed
<1>7. f[q] # 0
  BY <1>1, <1>3, SMTT(30)
<1> HIDE DEF d, g
<1>8. Bare(c, f) => Bare(d, g)
  <2>1. ASSUME Bare(c, f) PROVE q = "namespace"
    BY <1>7, <2>1 DEF Bare
  <2>2. QED BY <1>4, <1>5, <2>1 DEF Bare, ExecutorStopped
<1>9. Settling(c, f, d, g)
  <2>1. \A p \in Requests : g[p] \in {0, f[p]}
    BY <1>5
  <2>2. "pod" \in Requests /\ ~(\A p \in Requests : f[p] = 0)
    BY <1>7 DEF Requests
  <2>3. QED BY <1>4, <1>8, <2>1, <2>2 DEF Settling
<1>10. SameJob(c, d)
  BY <1>1, <1>3, GraceAssumption, SMTT(30) DEF SameJob
<1>11. QED BY <1>1, <1>2, <1>4, <1>5, <1>6, <1>9, <1>10, ClusterStep DEF Lands

\* An effect of cleanup after which the attempt ends.
LEMMA LastEffect ==
    ASSUME BenchmarkInv, [BenchmarkNext]_benchmarkVars, NEW w \in Workers, NEW r \in Runs,
           Live(att[w][r]), Returns(w, r), NEW d \in Clusters,
           cluster' = [cluster EXCEPT ![r] = d], UNCHANGED <<storeVars, res, exec, flight>>,
           Lessens(cluster[r], d), SameJob(cluster[r], d)
    PROVE  BenchmarkInv'
<1>1. Become(w, r, Returned) /\ Returned \in Attempts /\ ~Live(Returned)
  BY ReturnedFields DEF Returns
<1>2. Settling(cluster[r], flight[r], d, flight[r])
  BY LessIsSettled
<1>3. QED BY <1>1, <1>2, CleanStep

\* The quota is closed, and the attempt goes on only when that is in effect.
LEMMA CloseStep ==
    ASSUME BenchmarkInv, [BenchmarkNext]_benchmarkVars, NEW w \in Workers, NEW r \in Runs,
           CloseTarget(w, r)
    PROVE  BenchmarkInv'
<1>1. Live(att[w][r]) /\ UNCHANGED <<storeVars, res, exec, flight>>
  BY DEF CloseTarget, Affects, Calls, Live
<1>2. res[r].stage \in {"started", "fenced"}
  BY <1>1, Facts DEF Placed, CloseTarget, Affects, Calls
<1>3. CASE Returns(w, r) /\ UNCHANGED cluster
  BY <1>1, <1>3, ReturnStep
<1>4. CASE /\ cluster[r].quota \in {"absent", "open"} /\ Returns(w, r)
           /\ cluster' = [cluster EXCEPT ![r].quota = "closing"]
  <2>1. PICK c \in Clusters : c = cluster[r]
    BY RowsTyped DEF BenchmarkInv
  <2>2. PICK d \in Clusters : /\ d = [c EXCEPT !.quota = "closing"]
                              /\ Lessens(c, d) /\ SameJob(c, d)
    BY <1>4, <2>1, QuotaUpdate
  <2>3. QED BY <1>1, <1>4, <2>1, <2>2, LastEffect
<1>5. CASE /\ cluster[r].quota = "closed" /\ UNCHANGED cluster
           /\ Goto(w, r, IF exec[r] = NoUid /\ res[r].sealed THEN "recover" ELSE "stop")
  <2>1. PICK pc \in {"recover", "stop"} : Goto(w, r, pc) /\ (pc = "recover" => exec[r] = NoUid)
    BY <1>5
  <2>2. Barred(cluster[r], flight[r])
    BY <1>5 DEF Barred
  <2>3. pc \in Points
    BY DEF Points, CleanupPoints
  <2>4. ASSUME NEW a \in Attempts, a.pc = pc
        PROVE  /\ Placed(a, res[r], cluster[r], flight[r]) /\ Routed(a, State(w, r), res[r])
               /\ Binding(a, exec[r], cluster[r])
    BY <1>2, <2>1, <2>2, <2>4 DEF Placed, Routed, Binding, Materialized, Unbound
  <2>5. QED BY <1>1, <1>5, <2>1, <2>3, <2>4, GotoStep
<1>6. QED BY <1>3, <1>4, <1>5 DEF CloseTarget

\* The Job is deleted behind the barrier.
LEMMA StopStep ==
    ASSUME BenchmarkInv, [BenchmarkNext]_benchmarkVars, NEW w \in Workers, NEW r \in Runs,
           StopExecutor(w, r)
    PROVE  BenchmarkInv'
<1>1. Live(att[w][r]) /\ UNCHANGED <<storeVars, res, exec, flight>>
  BY DEF StopExecutor, Affects, Calls, Live
<1>2. res[r].stage \in {"started", "fenced"} /\ Barred(cluster[r], flight[r])
  BY <1>1, Facts DEF Placed, StopExecutor, Affects, Calls
<1>3. "record" \in Points
  BY DEF Points
<1>4. CASE Returns(w, r) /\ UNCHANGED cluster
  BY <1>1, <1>4, ReturnStep
<1>5. CASE Goto(w, r, "record") /\ UNCHANGED cluster
  <2>1. ASSUME NEW a \in Attempts, a.pc = "record"
        PROVE  /\ Placed(a, res[r], cluster[r], flight[r]) /\ Routed(a, State(w, r), res[r])
               /\ Binding(a, exec[r], cluster[r])
    BY <1>2, <2>1 DEF Placed, Routed, Binding, Materialized, Unbound
  <2>2. QED BY <1>1, <1>3, <1>5, <2>1, GotoStep
<1>6. CASE /\ Exists(r) /\ cluster' = [cluster EXCEPT ![r].job = "deleting"]
           /\ Answered(w, r, "record")
  <2>1. PICK c \in Clusters : c = cluster[r]
    BY RowsTyped DEF BenchmarkInv
  <2>2. PICK d \in Clusters : /\ d = [c EXCEPT !.job = "deleting"]
                              /\ Lessens(c, d) /\ SameJob(c, d)
    BY <1>6, <2>1, JobUpdate DEF Exists
  <2>3. cluster' = [cluster EXCEPT ![r] = d]
    BY <1>6, <2>1, <2>2
  <2>4. Settling(c, flight[r], d, flight[r])
    BY <2>2, LessIsSettled
  <2>5. Typed
    BY DEF BenchmarkInv
  <2>6. PICK a \in Attempts :
           Become(w, r, a) /\ (Live(a) => a.pc = "record" /\ a.left = att[w][r].left)
    BY <1>3, <1>6, <2>5, AnswerFields DEF Answered
  <2>7. Barred(d, flight[r])
    BY <1>2, <2>1, <2>4, BarredStays
  <2>8. Live(a) => /\ Placed(a, res[r], d, flight[r]) /\ Routed(a, State(w, r), res[r])
                   /\ Binding(a, exec[r], d)
    BY <1>2, <2>6, <2>7 DEF Placed, Routed, Binding, Materialized, Unbound
  <2>9. QED BY <1>1, <2>1, <2>2, <2>3, <2>4, <2>6, <2>8, CleanStep
<1>7. QED BY <1>4, <1>5, <1>6 DEF StopExecutor

\* Workload Pods are deleted until there are none.
LEMMA CleanPodsStep ==
    ASSUME BenchmarkInv, [BenchmarkNext]_benchmarkVars, NEW w \in Workers, NEW r \in Runs,
           CleanPods(w, r)
    PROVE  BenchmarkInv'
<1>1. Live(att[w][r]) /\ UNCHANGED <<storeVars, res, exec, flight>>
  BY DEF CleanPods, Affects, Calls, Live
<1>2. res[r].stage = "fenced" /\ res[r].drain = 0 /\ ExecutorStopped(cluster[r])
  BY <1>1, Facts DEF Placed, CleanPods, Affects, Calls
<1>3. PICK c \in Clusters : c = cluster[r]
  BY RowsTyped DEF BenchmarkInv
<1>4. CASE /\ cluster[r].load # "none" /\ Returns(w, r)
           /\ cluster' = [cluster EXCEPT ![r].load = "deleting"]
  <2>1. PICK d \in Clusters : /\ d = [c EXCEPT !.load = "deleting"]
                              /\ Lessens(c, d) /\ SameJob(c, d)
    BY <1>3, <1>4, LoadUpdate
  <2>2. QED BY <1>1, <1>3, <1>4, <2>1, LastEffect
<1>5. CASE /\ cluster[r].load = "none" /\ UNCHANGED cluster
           /\ Become(w, r, [att[w][r] EXCEPT !.pc = "revoke", !.fenced = FALSE,
                                             !.todo = Objects, !.clean = TRUE])
  <2>1. PICK old \in Attempts : old = att[w][r]
    BY RowsTyped DEF BenchmarkInv
  <2>2. LET b == [old EXCEPT !.pc = "revoke", !.fenced = FALSE, !.todo = Objects,
                             !.clean = TRUE] IN
        b \in Attempts /\ b.pc = "revoke" /\ b.todo = Objects /\ b.left = old.left
    <3>1. "revoke" \in Points
      BY DEF Points, CleanupPoints
    <3>2. QED BY <3>1 DEF Attempts
  <2>3. PICK a \in Attempts : /\ Become(w, r, a) /\ a.pc = "revoke" /\ a.todo = Objects
                              /\ a.left = att[w][r].left
    BY <1>5, <2>1, <2>2
  <2>4. cluster[r].authority \subseteq Objects
    BY <1>3 DEF Clusters
  <2>5. /\ Placed(a, res[r], cluster[r], flight[r]) /\ Routed(a, State(w, r), res[r])
        /\ Binding(a, exec[r], cluster[r])
    BY <1>2, <1>5, <2>3, <2>4 DEF Placed, Routed, Binding, Materialized, Unbound
  <2>6. QED BY <1>1, <1>5, <2>3, <2>5, MoveStep
<1>6. QED BY <1>4, <1>5 DEF CleanPods

\* An object that was deleted is not among those that are left to do.
LEMMA RevokeStep ==
    ASSUME BenchmarkInv, [BenchmarkNext]_benchmarkVars, NEW w \in Workers, NEW r \in Runs,
           Revoke(w, r)
    PROVE  BenchmarkInv'
<1>1. Live(att[w][r]) /\ UNCHANGED <<storeVars, res, exec, flight>> /\ att[w][r].pc = "revoke"
  BY DEF Revoke, Affects, Calls, Live
<1>2. /\ res[r].stage = "fenced" /\ res[r].drain = 0 /\ ExecutorStopped(cluster[r])
      /\ cluster[r].load = "none" /\ cluster[r].authority \subseteq att[w][r].todo
  BY <1>1, Facts DEF Placed
<1>3. CASE Returns(w, r) /\ UNCHANGED cluster
  BY <1>1, <1>3, ReturnStep
<1>4. CASE att[w][r].todo = {} /\ Goto(w, r, "reverify") /\ UNCHANGED cluster
  <2>1. cluster[r].authority = {}
    BY <1>2, <1>4
  <2>2. "reverify" \in Points
    BY DEF Points, CleanupPoints
  <2>3. ASSUME NEW a \in Attempts, a.pc = "reverify"
        PROVE  /\ Placed(a, res[r], cluster[r], flight[r]) /\ Routed(a, State(w, r), res[r])
               /\ Binding(a, exec[r], cluster[r])
    BY <1>2, <2>1, <2>3 DEF Placed, Routed, Binding, Materialized, Unbound
  <2>4. Goto(w, r, "reverify") \/ Returns(w, r)
    BY <1>4
  <2>5. UNCHANGED <<storeVars, res, exec, cluster, flight>> /\ Live(att[w][r])
    BY <1>1, <1>4
  <2>6. QED BY <2>2, <2>3, <2>4, <2>5, GotoStep
<1>5. PICK c \in Clusters : c = cluster[r]
  BY RowsTyped DEF BenchmarkInv
<1>6. PICK old \in Attempts : old = att[w][r]
  BY RowsTyped DEF BenchmarkInv
<1>7. ASSUME NEW o \in att[w][r].todo, cluster' = [cluster EXCEPT ![r].authority = @ \ {o}],
             \/ Become(w, r, [att[w][r] EXCEPT !.fenced = FALSE, !.todo = @ \ {o},
                                               !.clean = @ /\ o \notin cluster[r].authority])
             \/ Returns(w, r)
      PROVE  BenchmarkInv'
  <2>1. PICK d \in Clusters : /\ d = [c EXCEPT !.authority = @ \ {o}]
                              /\ Lessens(c, d) /\ SameJob(c, d)
    BY AuthorityUpdate
  <2>2. cluster' = [cluster EXCEPT ![r] = d] /\ Lessens(cluster[r], d) /\ SameJob(cluster[r], d)
    BY <1>5, <1>7, <2>1
  <2>3. CASE Returns(w, r)
    BY <1>1, <2>2, <2>3, LastEffect
  <2>4. CASE Become(w, r, [att[w][r] EXCEPT !.fenced = FALSE, !.todo = @ \ {o},
                                            !.clean = @ /\ o \notin cluster[r].authority])
    <3>1. PICK todo \in SUBSET Objects : todo = old.todo \ {o}
      BY DEF Attempts
    <3>2. PICK clean \in BOOLEAN : clean = (old.clean /\ o \notin c.authority)
      OBVIOUS
    <3>3. Become(w, r, [old EXCEPT !.fenced = FALSE, !.todo = todo, !.clean = clean])
      BY <1>5, <1>6, <2>4, <3>1, <3>2
    <3>4. PICK a \in Attempts : /\ Become(w, r, a) /\ a.pc = old.pc /\ a.todo = todo
                                /\ a.left = old.left
      <4>1. LET b == [old EXCEPT !.fenced = FALSE, !.todo = todo, !.clean = clean] IN
            b \in Attempts /\ b.pc = old.pc /\ b.todo = todo /\ b.left = old.left
        BY DEF Attempts
      <4>2. QED BY <3>3, <4>1
    <3>5. ExecutorStopped(d) /\ d.load = "none" /\ d.authority \subseteq a.todo
      <4>1. ExecutorStopped(d) /\ d.load = "none"
        BY <1>2, <1>5, <2>1 DEF Lessens
      <4>2. d.authority = c.authority \ {o}
        BY <2>1 DEF Clusters
      <4>3. QED BY <1>2, <1>5, <1>6, <3>1, <3>4, <4>1, <4>2
    <3>6. /\ Placed(a, res[r], d, flight[r]) /\ Routed(a, State(w, r), res[r])
          /\ Binding(a, exec[r], d)
      BY <1>1, <1>2, <1>6, <3>4, <3>5 DEF Placed, Routed, Binding, Materialized, Unbound
    <3>7. Settling(cluster[r], flight[r], d, flight[r])
      BY <2>2, LessIsSettled
    <3>8. QED BY <1>1, <1>6, <2>2, <3>4, <3>6, <3>7, CleanStep
  <2>5. QED BY <1>7, <2>3, <2>4
<1>8. QED BY <1>3, <1>4, <1>7 DEF Revoke

\* The second half of the verification finds nothing left to stop or to delete.
LEMMA ReverifyStep ==
    ASSUME BenchmarkInv, [BenchmarkNext]_benchmarkVars, NEW w \in Workers, NEW r \in Runs,
           Reverify(w, r)
    PROVE  BenchmarkInv'
<1>1. Live(att[w][r]) /\ UNCHANGED <<storeVars, res, exec, flight>> /\ att[w][r].pc = "reverify"
  BY DEF Reverify, Affects, Calls, Live
<1>2. /\ res[r].stage = "fenced" /\ res[r].drain = 0 /\ ExecutorStopped(cluster[r])
      /\ cluster[r].load = "none" /\ cluster[r].authority = {}
  BY <1>1, Facts DEF Placed
<1>3. Goto(w, r, "finish") /\ UNCHANGED cluster
  BY <1>2 DEF Reverify
<1>4. "finish" \in Points
  BY DEF Points, CleanupPoints
<1>5. ASSUME NEW a \in Attempts, a.pc = "finish"
      PROVE  /\ Placed(a, res[r], cluster[r], flight[r]) /\ Routed(a, State(w, r), res[r])
             /\ Binding(a, exec[r], cluster[r])
  BY <1>2, <1>5 DEF Placed, Routed, Binding, Materialized, Unbound
<1>6. QED BY <1>1, <1>3, <1>4, <1>5, GotoStep

\* The target is held for a Run that has no bound Job yet.
Dispatching(r) == res[r].stage = "held" /\ exec[r] = NoUid

\* While that is so, and the Run has its namespace, dispatch may
\* create any of its objects.
LEMMA DispatchEffect ==
    ASSUME BenchmarkInv, [BenchmarkNext]_benchmarkVars, NEW w \in Workers, NEW r \in Runs,
           Live(att[w][r]), Dispatching(r), NEW pc \in Materialized,
           Goto(w, r, pc) \/ Returns(w, r), NEW d \in Clusters, d.namespace,
           cluster' = [cluster EXCEPT ![r] = d], UNCHANGED <<storeVars, res, exec, flight>>
    PROVE  BenchmarkInv'
<1>1. Typed
  BY DEF BenchmarkInv
<1>2. pc \in Points
  BY DEF Points, DispatchPoints, Materialized
<1>3. PICK a \in Attempts :
         Become(w, r, a) /\ (Live(a) => a.pc = pc /\ a.left = att[w][r].left)
  BY <1>1, <1>2, AnswerFields, SMTT(30)
<1>4. Situation(res[r], d, flight[r]) /\ Faithful(exec[r], res[r], d)
  BY DEF Situation, Faithful, Dispatching
<1>5. Live(a) => /\ Placed(a, res[r], d, flight[r]) /\ Routed(a, State(w, r), res[r])
                 /\ Binding(a, exec[r], d)
  BY <1>3 DEF Placed, Routed, Binding, Materialized, Unbound,
                    Dispatching
<1>6. QED BY <1>3, <1>4, <1>5, EffectStep

\* The namespace is created or adopted.
LEMMA NamespaceStep ==
    ASSUME BenchmarkInv, [BenchmarkNext]_benchmarkVars, NEW w \in Workers, NEW r \in Runs,
           EnsureNamespace(w, r)
    PROVE  BenchmarkInv'
<1>1. Live(att[w][r]) /\ UNCHANGED <<storeVars, res, exec, flight>>
      /\ att[w][r].pc = "namespace" /\ (Goto(w, r, "bindNamespace") \/ Returns(w, r))
      /\ cluster' = [cluster EXCEPT ![r].namespace = TRUE]
  BY DEF EnsureNamespace, Affects, Calls, Live, Answered
<1>2. res[r].stage = "held" /\ exec[r] = NoUid
  BY <1>1, Facts DEF Placed, Binding, Unbound
<1>3. PICK c \in Clusters : c = cluster[r]
  BY RowsTyped DEF BenchmarkInv
<1>4. LET d == [c EXCEPT !.namespace = TRUE] IN d \in Clusters /\ d.namespace
  BY DEF Clusters
<1>5. PICK d \in Clusters : d.namespace /\ cluster' = [cluster EXCEPT ![r] = d]
  BY <1>1, <1>3, <1>4
<1>6. "bindNamespace" \in Materialized
  BY DEF Materialized
<1>7. Dispatching(r)
  BY <1>2 DEF Dispatching
<1>8. QED BY <1>1, <1>5, <1>6, <1>7, DispatchEffect

\* Quota and authority are created or adopted, one by one.
LEMMA ResourcesStep ==
    ASSUME BenchmarkInv, [BenchmarkNext]_benchmarkVars, NEW w \in Workers, NEW r \in Runs,
           EnsureResources(w, r)
    PROVE  BenchmarkInv'
<1>1. Live(att[w][r]) /\ UNCHANGED <<storeVars, res, exec, flight>>
      /\ att[w][r].pc \in Materialized
  BY DEF EnsureResources, Affects, Calls, Live, Materialized
<1>2. res[r].stage = "held" /\ exec[r] = NoUid /\ cluster[r].namespace
  BY <1>1, Facts DEF Placed, Binding, Unbound
<1>3. PICK c \in Clusters : c = cluster[r]
  BY RowsTyped DEF BenchmarkInv
<1>4. PICK pc \in Materialized, d \in Clusters :
         /\ Goto(w, r, pc) \/ Returns(w, r)
         /\ d.namespace /\ cluster' = [cluster EXCEPT ![r] = d]
  <2>1. {"quota", "authority", "requalify"} \subseteq Materialized
    BY DEF Materialized
  <2>2. CASE /\ Goto(w, r, "quota") \/ Goto(w, r, "requalify")
             /\ UNCHANGED cluster
    <3>1. cluster \in [Runs -> Clusters]
      BY DEF BenchmarkInv, Typed
    <3>2. cluster' = [cluster EXCEPT ![r] = c]
      BY <1>3, <2>2, <3>1
    <3>3. QED BY <1>2, <1>3, <2>1, <2>2, <3>2
  <2>3. CASE /\ cluster' = [cluster EXCEPT ![r].quota = "open"] /\ Answered(w, r, "authority")
    <3>1. LET d == [c EXCEPT !.quota = "open"] IN d \in Clusters /\ d.namespace = c.namespace
      BY DEF Clusters
    <3>2. QED BY <1>2, <1>3, <2>1, <2>3, <3>1 DEF Answered
  <2>4. ASSUME NEW o \in Objects, cluster' = [cluster EXCEPT ![r].authority = @ \union {o}],
               Answered(w, r, "authority")
        PROVE  \E pc \in Materialized, d \in Clusters :
                  /\ Goto(w, r, pc) \/ Returns(w, r)
                  /\ d.namespace /\ cluster' = [cluster EXCEPT ![r] = d]
    <3>1. LET d == [c EXCEPT !.authority = @ \union {o}] IN
          d \in Clusters /\ d.namespace = c.namespace
      BY DEF Clusters
    <3>2. QED BY <1>2, <1>3, <2>1, <2>4, <3>1 DEF Answered
  <2>5. QED BY <2>2, <2>3, <2>4 DEF EnsureResources
<1>5. Dispatching(r)
  BY <1>2 DEF Dispatching
<1>6. QED BY <1>1, <1>4, <1>5, DispatchEffect

\* The Job that is created or adopted is the one the attempt binds.
LEMMA JobStep ==
    ASSUME BenchmarkInv, [BenchmarkNext]_benchmarkVars, NEW w \in Workers, NEW r \in Runs,
           EnsureJob(w, r)
    PROVE  BenchmarkInv'
<1>1. Live(att[w][r]) /\ UNCHANGED <<storeVars, res, exec, flight>>
      /\ att[w][r].pc = "job"
  BY DEF EnsureJob, Affects, Calls, Live
<1>2. res[r].stage = "held" /\ exec[r] = NoUid /\ cluster[r].namespace
  BY <1>1, Facts DEF Placed, Binding, Unbound, Materialized
<1>3. PICK c \in Clusters : c = cluster[r]
  BY RowsTyped DEF BenchmarkInv
<1>4. PICK d \in Clusters :
         /\ d.namespace /\ cluster' = [cluster EXCEPT ![r] = d]
         /\ Knows(w, r, d.uid) \/ Returns(w, r)
  <2>1. NewJob(c) \in Clusters /\ NewJob(c).namespace = c.namespace
    <3>1. CASE NewJob(c) = c
      BY <3>1
    <3>2. CASE NewJob(c) = [c EXCEPT !.job = "running", !.uid = @ + 1]
      <4>1. NewJob(c).uid = c.uid + 1 /\ NewJob(c).uid <= MaxUid /\ c.uid \in 0..MaxUid
        BY <1>3, <3>2, SMTT(30) DEF EnsureJob, Clusters
      <4>2. PICK n \in 0..MaxUid : n = c.uid + 1
        BY <4>1, MaxUidAssumption, SMTT(30)
      <4>3. LET d == [c EXCEPT !.job = "running", !.uid = n] IN
            d \in Clusters /\ d.namespace = c.namespace
        BY DEF Clusters
      <4>4. QED BY <3>2, <4>2, <4>3
    <3>3. QED BY <3>1, <3>2 DEF NewJob
  <2>2. QED BY <1>2, <1>3, <2>1 DEF EnsureJob, Knows
<1>5. Typed /\ d.uid \in 0..MaxUid
  BY DEF BenchmarkInv, Clusters
<1>6. PICK a \in Attempts :
         /\ Become(w, r, a)
         /\ Live(a) => a.pc = "bind" /\ a.uid = d.uid /\ a.left = att[w][r].left
  <2>1. CASE Returns(w, r)
    BY <2>1, ReturnedFields DEF Returns
  <2>2. CASE Knows(w, r, d.uid)
    BY <1>5, <2>2, BindFields, SMTT(30)
  <2>3. QED BY <1>4, <2>1, <2>2
<1>7. Situation(res[r], d, flight[r]) /\ Faithful(exec[r], res[r], d)
  BY <1>2, <1>4 DEF Situation, Faithful
<1>8. Live(a) => /\ Placed(a, res[r], d, flight[r]) /\ Routed(a, State(w, r), res[r])
                 /\ Binding(a, exec[r], d)
  BY <1>2, <1>6 DEF Placed, Routed, Binding, Materialized, Unbound
<1>9. QED BY <1>1, <1>4, <1>6, <1>7, <1>8, EffectStep

=============================================================================
