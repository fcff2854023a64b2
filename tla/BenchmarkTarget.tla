---------------------------- MODULE BenchmarkTarget ----------------------------
(***************************************************************************)
(* Contained benchmarks: the reconciler that reserves a benchmark target,  *)
(* materializes a Run's namespace, authority and Job on it, and cleans up  *)
(* and releases it (internal/reconcile/benchmark_dispatch.go and           *)
(* benchmark_cleanup.go), with the reservation table (internal/postgres/   *)
(* benchmark_*.go) and the cluster (internal/kubernetes/benchmark_*.go).   *)
(*                                                                         *)
(* All Runs want the one logical target.  A call that leaves the process   *)
(* is a step of its own, as in module Dispatch.  Before each effect on the *)
(* cluster the attempt passes a fence: it renews its claim and reads Run   *)
(* and reservation again.  Reads of the store that directly follow each    *)
(* other under one lease are one step, for only the owner of a Run writes  *)
(* its reservation and its execution.                                      *)
(*                                                                         *)
(* The cluster is the one the design assumes (docs/decisions/0007): nobody *)
(* else changes a Run's objects, so each object has one incarnation and is *)
(* what the plan describes.  Two things may go wrong: a Job is deleted by  *)
(* others, and a request is executed after its sender gave up or died, at  *)
(* most RequestBound later.                                                *)
(***************************************************************************)
EXTENDS ClaimStore

CONSTANTS AttemptTimeout,   \* ProvisioningConfig.AttemptTimeout
          RequestBound,     \* the API server's mutation timeout
          Grace,            \* run.BenchmarkCleanupGrace
          MaxUid,           \* bound on the Jobs ever created for a Run
          Evictions,        \* do others delete Jobs?
          Objects           \* the objects that give an executor its authority

ASSUME AttemptAssumption == AttemptTimeout \in Nat \ {0} /\ 2 * AttemptTimeout <= LeaseTTL
ASSUME GraceAssumption == RequestBound \in Nat /\ Grace \in Nat /\ RequestBound < Grace
ASSUME MaxUidAssumption == MaxUid \in Nat
ASSUME EvictionsAssumption == Evictions \in BOOLEAN
ASSUME ObjectsAssumption == Objects # {} /\ Objects \intersect {"namespace", "quota", "job", "pod"} = {}

VARIABLES att,          \* the attempt of a worker for a Run
          res,          \* the benchmark_target_reservations table
          exec,         \* kubernetes_executions: UID of the bound Job
          cluster,      \* the objects of a Run in the cluster
          flight        \* requests in flight, with the time left to them

benchmarkVars == <<runs, leases, held, claims, att, res, exec, cluster, flight>>

\* In the cluster, uid is that of the last Job created for the Run.
Jobs == {"running", "finished", "deleting"}

\* A reservation: materialized so far, stage of its cleanup, time left until
\* cleanup_not_before, and cleanup_change.
NoReservation ==
    [bound |-> FALSE, sealed |-> FALSE, stage |-> "absent", drain |-> 0, next |-> "none"]

\* A row with its cleanup columns, and one with its materialization columns, replaced.
Staged(row, stage, drain, next) ==
    [bound |-> row.bound, sealed |-> row.sealed, stage |-> stage, drain |-> drain, next |-> next]

Filled(row, bound, sealed) ==
    [bound |-> bound, sealed |-> sealed, stage |-> row.stage, drain |-> row.drain,
     next |-> row.next]

Empty ==
    [namespace |-> FALSE, quota |-> "absent", authority |-> {}, job |-> "absent", uid |-> 0,
     executor |-> "none", load |-> "none"]

NoUid == 0

Requests == {"namespace", "quota", "job", "pod"} \union Objects

\* An attempt: the call it is at, whether a fence precedes it, and the time left to it.
Idle == [pc |-> "idle", fenced |-> FALSE, left |-> 0, next |-> "none", uid |-> 0,
         todo |-> {}, clean |-> TRUE]

Started == [Idle EXCEPT !.pc = "read", !.left = AttemptTimeout]

\* What is left of an attempt whose context is done: it makes no more calls, but it takes
\* its time to return.
Returned == [Idle EXCEPT !.pc = "returned"]

BenchmarkInit ==
    /\ Init
    /\ att = [w \in Workers |-> [r \in Runs |-> Idle]]
    /\ res = [r \in Runs |-> NoReservation]
    /\ exec = [r \in Runs |-> NoUid]
    /\ cluster = [r \in Runs |-> Empty]
    /\ flight = [r \in Runs |-> [q \in Requests |-> 0]]

-----------------------------------------------------------------------------
(* Control flow of an attempt *)

Calls(w, r, pc) == att[w][r].pc = pc

\* An effect on the cluster directly follows a fence.
Affects(w, r, pc) == Calls(w, r, pc) /\ att[w][r].fenced

Become(w, r, a) == att' = [att EXCEPT ![w][r] = a]
Goto(w, r, pc) == Become(w, r, [att[w][r] EXCEPT !.pc = pc, !.fenced = FALSE])
Returns(w, r) == Become(w, r, Returned)

\* A call that has succeeded: its answer arrives or is lost.
Answered(w, r, pc) == Goto(w, r, pc) \/ Returns(w, r)

State(w, r) == claims[w][r].state

Current(w, r) == Owned(w, r) /\ claims[w][r].revision = runs[r].revision

Active(r) == res[r].stage \in {"held", "started", "fenced"}
CleaningUp(r) == res[r].stage \in {"started", "fenced"}

\* The states a Run with a reservation is dispatched and executed in.
Executing == {"PROVISIONING", "WARMING_UP", "RUNNING"}

\* What the ordinary router does with a Run: the evidence pipeline, and everything
\* before a reservation and after its release (module Dispatch).
FallbackChanges(state) ==
    CASE state = "CREATED" -> {Change("VALIDATING")}
      [] state = "VALIDATING" -> {Change("PROVISIONING"), Failing("INVALID", "VALIDATION_FAILED")}
      [] state = "COLLECTING" -> {Change("ANALYZING"), Failing("TEST_FAILURE", "TOOL_ERROR")}
      [] state = "ANALYZING" -> {Change("REPORTING"),
                                 Failing("INFRASTRUCTURE_FAILURE", "ANALYSIS_ERROR")}
      [] state = "REPORTING" -> {Change("COMPLETED"),
                                 Failing("INFRASTRUCTURE_FAILURE", "ANALYSIS_ERROR")}
      [] state = "CANCELLING" -> {Change("ABORTED")}
      [] OTHER -> {}

\* Mutation: a held target does not delay analysis.
WholePipeline == {"COLLECTING", "ANALYZING", "REPORTING"}

\* The states of the pipeline that the ordinary router handles while the target is held.
HeldPipeline == {"COLLECTING"}

-----------------------------------------------------------------------------
(* BenchmarkReconciler.Reconcile *)

\* GetBenchmarkReservation and GetExecution, and where they lead.
Read(w, r) ==
    LET go(pc) == Goto(w, r, pc)
        cleanUp(next) == Become(w, r, [att[w][r] EXCEPT !.pc = "begin", !.next = next]) IN
    /\ Calls(w, r, "read")
    /\ Owned(w, r)
    /\ \/ ~Active(r) /\ (res[r].stage = "released" \/ State(w, r) # "PROVISIONING")
          /\ go("fallback")
       \/ CleaningUp(r) /\ go("inspect")
       \/ /\ res[r].stage = "held"
          /\ \/ State(w, r) \in HeldPipeline /\ go("fallback")
             \/ State(w, r) = "CANCELLING" /\ cleanUp("ABORTED")
             \/ State(w, r) \notin Executing \union HeldPipeline \union {"CANCELLING"}
                /\ cleanUp(State(w, r))
             \/ State(w, r) \in Executing /\ exec[r] # NoUid /\ go("observe")
             \/ State(w, r) \in Executing /\ exec[r] = NoUid
                /\ go(IF res[r].sealed THEN "recover" ELSE "qualify")
       \/ res[r].stage = "absent" /\ State(w, r) = "PROVISIONING" /\ go("qualify")
    /\ UNCHANGED <<storeVars, res, exec, cluster, flight>>

\* A Run that is cancelled before it holds the target is ABORTED at once, here as well.
Fallback(w, r) ==
    /\ Calls(w, r, "fallback")
    /\ \E change \in FallbackChanges(State(w, r)) : AdvanceClaim(w, r, change)
    /\ Returns(w, r)
    /\ UNCHANGED <<res, exec, cluster, flight>>

Exists(r) == cluster[r].job \in Jobs

\* matchingExecution fails: a Job of the Run's name is not the bound one.
Replaced(r) == Exists(r) /\ cluster[r].uid # exec[r]

\* Mutation: a Job that is gone is dispatched again.
ObserveAgain(w, r) ==
    /\ Calls(w, r, "observe")
    /\ Goto(w, r, IF cluster[r].job \in {"running", "finished"} THEN "bound" ELSE "qualify")
    /\ UNCHANGED <<storeVars, res, exec, cluster, flight>>

\* ObserveJob and DecideBoundExecution. A Job that is gone, or going, ends the Run, by way
\* of cleanup.
Observe(w, r) ==
    /\ Calls(w, r, "observe")
    /\ \/ Replaced(r) /\ Returns(w, r)
       \/ ~Replaced(r) /\ cluster[r].job \in {"running", "finished"} /\ Goto(w, r, "bound")
       \/ /\ ~Replaced(r) /\ cluster[r].job \notin {"running", "finished"}
          /\ Become(w, r, [att[w][r] EXCEPT !.pc = "begin", !.next = "INFRASTRUCTURE_FAILURE"])
    /\ UNCHANGED <<storeVars, res, exec, cluster, flight>>

\* BoundExecutionReconciler observes the Job again.
Bound(w, r) ==
    LET job == cluster[r].job
        change == IF job \notin {"running", "finished"}
                  THEN Failing("INFRASTRUCTURE_FAILURE", "INFRASTRUCTURE_ERROR")
                  ELSE IF State(w, r) = "PROVISIONING" THEN Change("RUNNING")
                  ELSE Change("COLLECTING")
        waits == Replaced(r) \/ ( /\ job = "running"
                                  /\ State(w, r) = "PROVISIONING" => cluster[r].executor = "none") IN
    /\ Calls(w, r, "bound")
    /\ IF waits THEN UNCHANGED storeVars ELSE AdvanceClaim(w, r, change)
    /\ Returns(w, r)
    /\ UNCHANGED <<res, exec, cluster, flight>>

-----------------------------------------------------------------------------
(* Dispatch *)

\* The fence of dispatch. A Run that was cancelled meanwhile fails it, here and below.
DispatchPoints == {"namespace", "inventory", "quota", "authority", "job"}
CleanupPoints == {"close", "stop", "verify", "pods", "revoke", "reverify", "finish"}

Fence(w, r) ==
    /\ \E pc \in DispatchPoints \union CleanupPoints : Calls(w, r, pc)
    /\ ~att[w][r].fenced
    /\ ExtendLease(w, r) /\ UNCHANGED claims
    /\ claims[w][r].revision = runs[r].revision
    /\ \/ /\ att[w][r].pc \in DispatchPoints
          /\ runs[r].state = "PROVISIONING" /\ res[r].stage = "held"
       \/ att[w][r].pc \in CleanupPoints /\ CleaningUp(r)
    /\ Become(w, r, [att[w][r] EXCEPT !.fenced = TRUE])
    /\ UNCHANGED <<res, exec, cluster, flight>>

\* Qualify: every Pod outside of the allowed namespaces, to which neither that of the
\* executors nor that of their workload belongs, has ended.
Quiet ==
    \A r \in Runs : cluster[r].load \in {"none", "ended"} /\ cluster[r].executor # "active"

Qualify(w, r) ==
    /\ Quiet
    /\ \/ Calls(w, r, "qualify") /\ Goto(w, r, "reserve")
       \/ Calls(w, r, "requalify") /\ Goto(w, r, "job")
    /\ UNCHANGED <<storeVars, res, exec, cluster, flight>>

\* The unique index: another Run has not released the target.
Reserved(r) == \E q \in Runs \ {r} : Active(q)

\* An identical retry of ReserveBenchmark keeps the row.
ReserveBenchmark(w, r) ==
    /\ Calls(w, r, "reserve")
    /\ ~Reserved(r)
    /\ res[r].stage \in {"absent", "held"}
    /\ HoldTarget(w, r)
    /\ res' = [res EXCEPT ![r] = Staged(@, "held", @.drain, @.next)]
    /\ Answered(w, r, "namespace")
    /\ UNCHANGED <<exec, cluster, flight>>

\* EnsureNamespace creates or adopts, and checks one that is bound.
EnsureNamespace(w, r) ==
    /\ Affects(w, r, "namespace")
    /\ cluster' = [cluster EXCEPT ![r].namespace = TRUE]
    /\ Answered(w, r, "bindNamespace")
    /\ UNCHANGED <<storeVars, res, exec, flight>>

\* BindBenchmarkNamespace and SealBenchmarkRequest (materializeBenchmark).
Materialize(w, r) ==
    /\ Current(w, r)
    /\ runs[r].state = "PROVISIONING"
    /\ res[r].stage = "held"
    /\ \/ /\ Calls(w, r, "bindNamespace")
          /\ res' = [res EXCEPT ![r] = Filled(@, TRUE, @.sealed)]
          /\ Answered(w, r, "seal")
       \/ /\ Calls(w, r, "seal")
          /\ res[r].bound
          /\ res' = [res EXCEPT ![r] = Filled(@, @.bound, TRUE)]
          /\ Answered(w, r, "inventory")
    /\ UNCHANGED <<storeVars, exec, cluster, flight>>

\* EnsureResources: the target namespace has no Pods; quota and authority are created or
\* adopted one by one. A quota that was closed does not match.
EnsureResources(w, r) ==
    LET c == cluster[r] IN
    /\ \/ /\ Affects(w, r, "inventory")
          /\ c.load = "none"
          /\ Goto(w, r, "quota")
          /\ UNCHANGED cluster
       \/ /\ Affects(w, r, "quota")
          /\ c.quota \in {"absent", "open"}
          /\ cluster' = [cluster EXCEPT ![r].quota = "open"]
          /\ Answered(w, r, "authority")
       \/ /\ Affects(w, r, "authority")
          /\ \E o \in Objects \ c.authority :
                cluster' = [cluster EXCEPT ![r].authority = @ \union {o}]
          /\ Answered(w, r, "authority")
       \/ /\ Affects(w, r, "authority")
          /\ c.authority = Objects
          /\ Goto(w, r, "requalify")
          /\ UNCHANGED cluster
    /\ UNCHANGED <<storeVars, res, exec, flight>>

\* A create is executed: it makes a Job unless there is one.
NewJob(c) ==
    IF c.job \in Jobs THEN c ELSE [c EXCEPT !.job = "running", !.uid = @ + 1]

\* EnsureJob creates or adopts the Job of the Run's name.
EnsureJob(w, r) ==
    LET c == NewJob(cluster[r]) IN
    /\ Affects(w, r, "job")
    /\ c.uid <= MaxUid
    /\ cluster' = [cluster EXCEPT ![r] = c]
    /\ \/ Become(w, r, [att[w][r] EXCEPT !.pc = "bind", !.fenced = FALSE, !.uid = c.uid])
       \/ Returns(w, r)
    /\ UNCHANGED <<storeVars, res, exec, flight>>

\* recoverJob never creates. Its caller dispatches or cleans up.
RecoverJob(w, r) ==
    /\ Calls(w, r, "recover")
    /\ IF Exists(r) THEN Become(w, r, [att[w][r] EXCEPT !.pc = "bind", !.uid = cluster[r].uid])
       ELSE Goto(w, r, IF CleaningUp(r) THEN "stop" ELSE "qualify")
    /\ UNCHANGED <<storeVars, res, exec, cluster, flight>>

\* BindExecution. Dispatch ends with it; cleanup goes on with the identity.
BindExecution(w, r) ==
    /\ Calls(w, r, "bind")
    /\ Owned(w, r)
    /\ exec[r] \in {NoUid, att[w][r].uid}
    /\ exec' = [exec EXCEPT ![r] = att[w][r].uid]
    /\ \/ CleaningUp(r) /\ Goto(w, r, "stop")
       \/ Returns(w, r)
    /\ UNCHANGED <<storeVars, res, cluster, flight>>

-----------------------------------------------------------------------------
(* Cleanup *)

\* BeginBenchmarkCleanup: from here on materialization is refused.
BeginCleanup(w, r) ==
    /\ Calls(w, r, "begin")
    /\ Current(w, r)
    /\ res[r].stage = "held"
    /\ res' = [res EXCEPT ![r] = Staged(@, "started", Grace, att[w][r].next)]
    /\ Answered(w, r, "inspect")
    /\ UNCHANGED <<storeVars, exec, cluster, flight>>

\* InspectCleanupNamespace; a bound namespace exists.
Inspect(w, r) ==
    /\ Calls(w, r, "inspect")
    /\ Goto(w, r, IF ~cluster[r].namespace THEN "stop"
                  ELSE IF res[r].bound THEN "close" ELSE "bindCleanup")
    /\ UNCHANGED <<storeVars, res, exec, cluster, flight>>

BindCleanupNamespace(w, r) ==
    /\ Calls(w, r, "bindCleanup")
    /\ Current(w, r)
    /\ CleaningUp(r)
    /\ res' = [res EXCEPT ![r] = Filled(@, TRUE, @.sealed)]
    /\ Answered(w, r, "close")
    /\ UNCHANGED <<storeVars, exec, cluster, flight>>

\* CloseBenchmarkTarget: the attempt goes on only when the quota controller has put the
\* limit of zero into effect. Once the fence is recorded the quota is not repaired.
CloseTarget(w, r) ==
    LET quota == cluster[r].quota IN
    /\ Affects(w, r, "close")
    /\ \/ /\ quota = "closed"
          /\ Goto(w, r, IF exec[r] = NoUid /\ res[r].sealed THEN "recover" ELSE "stop")
          /\ UNCHANGED cluster
       \/ /\ quota \in {"absent", "open"} /\ res[r].stage = "started"
          /\ cluster' = [cluster EXCEPT ![r].quota = "closing"]
          /\ Returns(w, r)
       \/ /\ quota = "closing" \/ (quota \in {"absent", "open"} /\ res[r].stage = "fenced")
          /\ Returns(w, r)
          /\ UNCHANGED cluster
    /\ UNCHANGED <<storeVars, res, exec, flight>>

\* RequestJobStop for a bound execution. A Job that is not the bound one is an error.
StopExecutor(w, r) ==
    /\ Affects(w, r, "stop")
    /\ \/ exec[r] # NoUid /\ Replaced(r) /\ Returns(w, r) /\ UNCHANGED cluster
       \/ /\ exec[r] # NoUid /\ Exists(r) /\ ~Replaced(r)
          /\ cluster' = [cluster EXCEPT ![r].job = "deleting"]
          /\ Answered(w, r, "record")
       \/ /\ exec[r] = NoUid \/ ~Exists(r)
          /\ Goto(w, r, "record")
          /\ UNCHANGED cluster
    /\ UNCHANGED <<storeVars, res, exec, flight>>

\* Mutation: the drain is not awaited.
Undrained(r) == TRUE

\* clock_timestamp() >= cleanup_not_before
Drained(r) == res[r].drain = 0

\* Mutation: every confirmed barrier starts the clock.
EveryFence(r) == CleaningUp(r)

FirstFence(r) == res[r].stage = "started"

\* RecordBenchmarkCleanupFence starts the drain clock once. Before it has run out the
\* attempt ends and is retried.
RecordFence(w, r) ==
    /\ Calls(w, r, "record")
    /\ Current(w, r)
    /\ CleaningUp(r)
    /\ \/ /\ FirstFence(r)
          /\ res' = [res EXCEPT ![r] = Staged(@, "fenced", Grace, @.next)]
          /\ Returns(w, r)
       \/ /\ ~FirstFence(r)
          /\ IF Drained(r) THEN Goto(w, r, "verify") ELSE Returns(w, r)
          /\ UNCHANGED res
    /\ UNCHANGED <<storeVars, exec, cluster, flight>>

\* benchmarkExecutorStopped: Pods that have ended still count.
ExecutorStopped(c) == c.job \notin Jobs /\ c.executor = "none"

\* The first half of CleanupBenchmark: the barrier and the executor.
Verify(w, r) ==
    LET c == cluster[r] IN
    /\ Affects(w, r, "verify")
    /\ IF (c.namespace => c.quota = "closed") /\ ExecutorStopped(c)
       THEN Goto(w, r, "pods") ELSE Returns(w, r)
    /\ UNCHANGED <<storeVars, res, exec, cluster, flight>>

\* cleanupBenchmarkPods: deletion that is accepted is not absence.
CleanPods(w, r) ==
    /\ Affects(w, r, "pods")
    /\ \/ /\ cluster[r].load = "none"
          /\ Become(w, r, [att[w][r] EXCEPT !.pc = "revoke", !.fenced = FALSE,
                                            !.todo = Objects, !.clean = TRUE])
          /\ UNCHANGED cluster
       \/ /\ cluster[r].load # "none"
          /\ cluster' = [cluster EXCEPT ![r].load = "deleting"]
          /\ Returns(w, r)
    /\ UNCHANGED <<storeVars, res, exec, flight>>

\* deleteBenchmarkObject for one object after another; the attempt goes on only when all
\* were absent.
Revoke(w, r) ==
    LET a == att[w][r] IN
    /\ Affects(w, r, "revoke")
    /\ \/ \E o \in a.todo :
             /\ cluster' = [cluster EXCEPT ![r].authority = @ \ {o}]
             /\ \/ Become(w, r, [a EXCEPT !.fenced = FALSE, !.todo = @ \ {o},
                                          !.clean = @ /\ o \notin cluster[r].authority])
                \/ Returns(w, r)
       \/ /\ a.todo = {}
          /\ IF a.clean THEN Goto(w, r, "reverify") ELSE Returns(w, r)
          /\ UNCHANGED cluster
    /\ UNCHANGED <<storeVars, res, exec, flight>>

\* The second half: executor and Pods once more, in the same way.
Reverify(w, r) ==
    LET c == cluster[r] IN
    /\ Affects(w, r, "reverify")
    /\ IF ExecutorStopped(c) /\ c.load = "none" THEN Goto(w, r, "finish") ELSE Returns(w, r)
    /\ IF ExecutorStopped(c) /\ c.load # "none"
       THEN cluster' = [cluster EXCEPT ![r].load = "deleting"] ELSE UNCHANGED cluster
    /\ UNCHANGED <<storeVars, res, exec, flight>>

\* Mutation: cancellation does not replace the outcome.
OutcomeFrozen(r) ==
    IF res[r].next = "INFRASTRUCTURE_FAILURE"
    THEN Failing("INFRASTRUCTURE_FAILURE", "INFRASTRUCTURE_ERROR") ELSE Change(res[r].next)

\* The outcome that FinishBenchmarkCleanup gives a Run that is not closed.
Outcome(r) ==
    IF runs[r].state = "CANCELLING" THEN Change("ABORTED")
    ELSE IF res[r].next = "INFRASTRUCTURE_FAILURE"
         THEN Failing("INFRASTRUCTURE_FAILURE", "INFRASTRUCTURE_ERROR")
         ELSE Change(res[r].next)

FinishCleanup(w, r) ==
    /\ Affects(w, r, "finish")
    /\ res[r].stage = "fenced"
    /\ Drained(r)
    /\ FreeTarget(w, r, Outcome(r))
    /\ res' = [res EXCEPT ![r] = Staged(@, "released", @.drain, @.next)]
    /\ Returns(w, r)
    /\ UNCHANGED <<exec, cluster, flight>>

-----------------------------------------------------------------------------
(* Failures, the engine, and time *)

InFlight(f, q) == [f EXCEPT ![q] = RequestBound]

\* What an attempt that ends at an effect may leave in flight. Deletions, and the update
\* that closes the quota, name UID and version; they do no more late than in time.
Sent(w, r) ==
    IF ~att[w][r].fenced THEN {}
    ELSE CASE att[w][r].pc \in {"namespace", "quota", "job"} -> {att[w][r].pc}
           [] att[w][r].pc = "authority" -> Objects \ cluster[r].authority
           [] OTHER -> {}

\* A call fails, or the engine cancels the attempt.
Fail(w, r) ==
    /\ att[w][r].pc \notin {"idle", "returned"}
    /\ Returns(w, r)
    /\ \/ UNCHANGED flight
       \/ \E q \in Sent(w, r) : flight' = [flight EXCEPT ![r] = InFlight(@, q)]
    /\ UNCHANGED <<storeVars, res, exec, cluster>>

Claim(w) ==
    /\ \E batch \in SUBSET Runs, kept \in SUBSET Runs, token \in [Runs -> Tokens] :
         /\ ClaimRuns(w, batch, kept, token)
         /\ att' = [att EXCEPT ![w] = [r \in Runs |-> IF r \in kept THEN Started ELSE @[r]]]
    /\ UNCHANGED <<res, exec, cluster, flight>>

\* The engine renews the claim, and cancels the attempt when the Run was cancelled.
EngineRenews(w, r) ==
    /\ att[w][r].pc \notin {"idle", "returned"}
    /\ ExtendLease(w, r) /\ UNCHANGED claims
    /\ IF runs[r].state = "CANCELLING" /\ State(w, r) # "CANCELLING"
       THEN Returns(w, r) ELSE UNCHANGED att
    /\ UNCHANGED <<res, exec, cluster, flight>>

EngineFinishes(w, r) ==
    /\ att[w][r].pc = "returned"
    /\ EndAttempt(w, r)
    /\ Become(w, r, Idle)
    /\ UNCHANGED <<res, exec, cluster, flight>>

\* A process dies with one attempt after another.
Dies(w, r) ==
    /\ att[w][r].pc # "idle"
    /\ ForgetClaim(w, r)
    /\ Become(w, r, Idle)
    /\ \/ UNCHANGED flight
       \/ \E q \in Sent(w, r) : flight' = [flight EXCEPT ![r] = InFlight(@, q)]
    /\ UNCHANGED <<res, exec, cluster>>

SomethingPending ==
    \/ \E r \in Runs : leases[r].expires > 0 \/ leases[r].available > 0 \/ res[r].drain > 0
    \/ \E r \in Runs, q \in Requests : flight[r][q] > 0
    \/ \E w \in Workers, r \in Runs : att[w][r].left > 0

Later(a) ==
    IF a.left = 1 THEN Returned ELSE [a EXCEPT !.left = TimeLeft(@)]

Elapse ==
    /\ SomethingPending
    /\ leases' = LeasesAfterTick
    /\ att' = [w \in Workers |-> [r \in Runs |-> Later(att[w][r])]]
    /\ res' = [r \in Runs |-> Staged(res[r], res[r].stage, TimeLeft(res[r].drain), res[r].next)]
    /\ flight' = [r \in Runs |-> [q \in Requests |-> TimeLeft(flight[r][q])]]
    /\ UNCHANGED <<runs, held, claims, exec, cluster>>

-----------------------------------------------------------------------------
(* The cluster *)

Landed(c, q) ==
    CASE q = "namespace" -> [c EXCEPT !.namespace = TRUE]
      [] q = "quota" -> [c EXCEPT !.quota = IF @ = "absent" THEN "open" ELSE @]
      [] q = "job" -> NewJob(c)
      [] q = "pod" -> [c EXCEPT !.load = "running"]
      [] OTHER -> [c EXCEPT !.authority = @ \union {q}]

\* A request in flight is executed.
Lands(r) ==
    /\ \E q \in Requests :
          /\ flight[r][q] > 0
          /\ Landed(cluster[r], q).uid <= MaxUid
          /\ cluster' = [cluster EXCEPT ![r] = Landed(@, q)]
          /\ flight' = [flight EXCEPT ![r][q] = 0]
    /\ UNCHANGED <<storeVars, att, res, exec>>

\* The Job controller starts the executor, which ends with the Job.
ExecutorRuns(r) ==
    /\ cluster[r].job = "running"
    /\ \/ /\ cluster[r].executor = "none"
          /\ cluster' = [cluster EXCEPT ![r].executor = "active"]
       \/ /\ cluster[r].executor = "active"
          /\ cluster' = [cluster EXCEPT ![r].executor = "ended", ![r].job = "finished"]
    /\ UNCHANGED <<storeVars, att, res, exec, flight>>

\* The executor creates workload Pods. Quota admission lets them in until the limit of
\* zero is in effect; a request that was let in may be executed later.
CreatesLoad(r) ==
    LET c == cluster[r] IN
    /\ c.executor = "active" /\ c.authority = Objects /\ c.quota # "closed"
    /\ \/ cluster' = [cluster EXCEPT ![r].load = "running"] /\ UNCHANGED flight
       \/ flight' = [flight EXCEPT ![r] = InFlight(@, "pod")] /\ UNCHANGED cluster
    /\ UNCHANGED <<storeVars, att, res, exec>>

\* Workload Pods end by themselves.
LoadEnds(r) ==
    /\ cluster[r].load = "running"
    /\ cluster' = [cluster EXCEPT ![r].load = "ended"]
    /\ UNCHANGED <<storeVars, att, res, exec, flight>>

\* The quota controller, the garbage collector and the kubelet do what was asked.
Settles(r) ==
    LET c == cluster[r] IN
    /\ \/ c.quota = "closing" /\ cluster' = [cluster EXCEPT ![r].quota = "closed"]
       \/ /\ c.job = "deleting" /\ c.executor # "none"
          /\ cluster' = [cluster EXCEPT ![r].executor = "none"]
       \/ /\ c.job = "deleting" /\ c.executor = "none"
          /\ cluster' = [cluster EXCEPT ![r].job = "gone"]
       \/ c.load = "deleting" /\ cluster' = [cluster EXCEPT ![r].load = "none"]
    /\ UNCHANGED <<storeVars, att, res, exec, flight>>

\* Others delete a Job (one that another may follow within the bound).
Evicts(r) ==
    /\ Evictions /\ cluster[r].uid < MaxUid
    /\ cluster[r].job \in {"running", "finished"}
    /\ cluster' = [cluster EXCEPT ![r].job = "deleting"]
    /\ UNCHANGED <<storeVars, att, res, exec, flight>>

-----------------------------------------------------------------------------
Clients ==
    /\ \E r \in Runs : Accept(r) \/ Cancel(r)
    /\ UNCHANGED <<att, res, exec, cluster, flight>>

Call(w, r) ==
    \/ Read(w, r) \/ Fallback(w, r) \/ Observe(w, r) \/ Bound(w, r)
    \/ Fence(w, r) \/ Qualify(w, r) \/ ReserveBenchmark(w, r) \/ EnsureNamespace(w, r)
    \/ Materialize(w, r) \/ EnsureResources(w, r) \/ EnsureJob(w, r) \/ RecoverJob(w, r)
    \/ BindExecution(w, r) \/ BeginCleanup(w, r) \/ Inspect(w, r)
    \/ BindCleanupNamespace(w, r) \/ CloseTarget(w, r) \/ StopExecutor(w, r)
    \/ RecordFence(w, r) \/ Verify(w, r) \/ CleanPods(w, r) \/ Revoke(w, r)
    \/ Reverify(w, r) \/ FinishCleanup(w, r)

Engine(w, r) ==
    EngineRenews(w, r) \/ EngineFinishes(w, r) \/ Dies(w, r)

Cluster(r) == Lands(r) \/ ExecutorRuns(r) \/ CreatesLoad(r) \/ LoadEnds(r) \/ Settles(r) \/ Evicts(r)

BenchmarkNext ==
    \/ Clients
    \/ \E w \in Workers : Claim(w)
    \/ \E w \in Workers, r \in Runs : Call(w, r) \/ Fail(w, r) \/ Engine(w, r)
    \/ \E r \in Runs : Cluster(r)
    \/ Elapse

BenchmarkSpec == BenchmarkInit /\ [][BenchmarkNext]_benchmarkVars

-----------------------------------------------------------------------------
(* Fairness *)

\* The call an attempt is at cannot succeed: its context is gone, or the store or the
\* cluster refuses.
Refused(w, r) ==
    LET a == att[w][r]
        unfenced == a.pc \in DispatchPoints \union CleanupPoints /\ ~a.fenced IN
    /\ a.pc \notin {"idle", "returned"}
    /\ \/ ~Owned(w, r)
       \/ /\ claims[w][r].revision # runs[r].revision
          /\ unfenced \/ a.pc \in {"fallback", "bound", "reserve", "bindNamespace", "seal",
                                   "begin", "bindCleanup", "record", "finish"}
       \/ a.pc \in {"qualify", "requalify"} /\ ~Quiet
       \/ a.pc = "inventory" /\ cluster[r].load # "none"

\* Some attempt would be overtaken by its deadline or by the expiry of its lease.
AttemptIsDue(w, r) ==
    /\ att[w][r].pc \notin {"idle", "returned"}
    /\ att[w][r].left = 1 \/ (Owned(w, r) /\ leases[r].expires = 1)

SomeAttemptIsDue == \E w \in Workers, r \in Runs : AttemptIsDue(w, r)

ClaimKeeps(w, r) == Claim(w) /\ ~HasClaim(w, r) /\ HasClaim(w, r)'

\* A call that succeeds without the attempt learning of it.
LosesAnswer(w, r) ==
    /\ att'[w][r].pc = "returned"
    /\ \/ att[w][r].pc \in {"reserve", "namespace", "bindNamespace", "seal", "quota",
                            "authority", "job", "begin", "bindCleanup"}
       \/ att[w][r].pc = "bind" /\ CleaningUp(r)
       \/ att[w][r].pc = "stop" /\ ~Replaced(r)
       \/ att[w][r].pc = "revoke" /\ att[w][r].todo # {}

\* What may happen for a while but not for ever: failures of calls that could succeed,
\* lost answers, attempts cancelled while they own their Run, deaths, and attempts
\* overtaken by time.
Fault ==
    \/ \E w \in Workers, r \in Runs :
          \/ Fail(w, r) /\ ~Refused(w, r) /\ ~Call(w, r) /\ ~EngineRenews(w, r)
          \/ Dies(w, r) /\ ~EngineFinishes(w, r)
          \/ Call(w, r) /\ LosesAnswer(w, r)
    \/ Elapse /\ SomeAttemptIsDue

\* Eventually store and cluster answer in time; from then on the goroutines of a worker
\* run, time passes between attempts, the controllers of the cluster work, and a Run
\* that is eligible again and again is claimed. Clients need do nothing.
BenchmarkFairness ==
    /\ <>[][~Fault]_benchmarkVars
    /\ SF_benchmarkVars(Elapse /\ ~SomeAttemptIsDue)
    /\ \A w \in Workers, r \in Runs :
         /\ WF_benchmarkVars(Call(w, r))
         /\ WF_benchmarkVars(Refused(w, r) /\ Fail(w, r))
         /\ WF_benchmarkVars(EngineFinishes(w, r))
         /\ WF_benchmarkVars(leases[r].expires = 1 /\ EngineRenews(w, r))
    /\ \A r \in Runs :
         /\ SF_benchmarkVars(\E w \in Workers : ClaimKeeps(w, r))
         /\ WF_benchmarkVars(ExecutorRuns(r))
         /\ WF_benchmarkVars(Settles(r))

FairBenchmarkSpec == BenchmarkSpec /\ BenchmarkFairness

-----------------------------------------------------------------------------
(* Properties *)

BenchmarkTypeOK ==
    /\ StoreTypeOK
    /\ res \in [Runs -> [bound : BOOLEAN, sealed : BOOLEAN, drain : 0..Grace,
                         stage : {"absent", "held", "started", "fenced", "released"},
                         next : States \union {"none"}]]
    /\ exec \in [Runs -> 0..MaxUid]
    /\ cluster \in [Runs -> [namespace : BOOLEAN, authority : SUBSET Objects, uid : 0..MaxUid,
                             quota : {"absent", "open", "closing", "closed"},
                             job : {"absent", "running", "finished", "deleting", "gone"},
                             executor : {"none", "active", "ended"},
                             load : {"none", "running", "ended", "deleting"}]]
    /\ flight \in [Runs -> [Requests -> 0..RequestBound]]
    /\ held = {r \in Runs : Active(r)}
    /\ \A w \in Workers, r \in Runs : (att[w][r].pc # "idle") <=> HasClaim(w, r)

\* The target has at most one holder (the unique index over reservations not released).
OneHolder == \A r, q \in Runs : Active(r) /\ Active(q) => r = q

\* A Run leaves nothing on a target it does not hold (docs/decisions/0007): before it has
\* reserved the target and once it is released, when another Run may reserve it, nothing of
\* the Run executes, none of its authority is left, and no request that was sent for it
\* can still be executed.
CleanUnlessHeld ==
    \A r \in Runs : ~Active(r) =>
        /\ ExecutorStopped(cluster[r])
        /\ cluster[r].load = "none"
        /\ cluster[r].authority = {}
        /\ \A q \in Requests : flight[r][q] = 0

\* "A bound executor is never recreated after disappearance" (docs/kubernetes-benchmarks.md:88),
\* whoever deleted it: once an execution is bound no attempt sends a request for a Job, so a
\* Job is created only by a request that was in flight already, and is not bound in its place.
NeverReplaced ==
    [][\A r \in Runs : exec[r] # NoUid =>
          /\ exec'[r] = exec[r]
          /\ flight'[r]["job"] <= flight[r]["job"]
          /\ cluster'[r].uid = cluster[r].uid \/ flight[r]["job"] > 0]_benchmarkVars

\* Raw evidence is collected before cleanup starts, and the target is released before the
\* evidence is analyzed.
CleanupBetweenCollectionAndAnalysis ==
    \A r \in Runs :
        /\ runs[r].state = "COLLECTING" => res[r].stage = "held"
        /\ runs[r].state \in {"REPORTING", "COMPLETED"} => res[r].stage = "released"

\* Cancellation wins over the outcome that cleanup has frozen.
CancellationWins ==
    [][\A r \in Runs : runs[r].state = "CANCELLING" =>
          runs'[r].state \in {"CANCELLING", "ABORTED"}]_benchmarkVars

\* A target that is held is released again once its Run is cancelled, or its executor is
\* bound, or cleanup has begun (docs/kubernetes-benchmarks.md:183). Before that the Run may
\* wait for its client: when others delete a Job that is not bound yet, the Pods it leaves
\* keep the Run from being dispatched.
TargetsAreFreed ==
    \A r \in Runs :
        Active(r) /\ (runs[r].state = "CANCELLING" \/ exec[r] # NoUid \/ CleaningUp(r))
            ~> res[r].stage = "released"

\* Benchmarks use the store only in the ways module ClaimStore describes.
UsesTheStore == Spec

=============================================================================
