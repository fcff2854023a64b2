------------------------------- MODULE Dispatch -------------------------------
(***************************************************************************)
(* The reconcilers that give a Run its Kubernetes Job and follow it until  *)
(* collection or cancellation (internal/reconcile: router, validation,     *)
(* provisioning, bound_execution, lifecycle), with the calls they make to  *)
(* the store (internal/postgres) and to the cluster (internal/kubernetes). *)
(*                                                                         *)
(* Leases fence the store and not the cluster, so every call is a step of  *)
(* its own: between two calls of an attempt other workers, clients, the    *)
(* cluster and time may act.  Each call may fail, and one that changes     *)
(* something may do so and lose its answer.  The engine is represented by  *)
(* what an attempt can notice of it: its lease is renewed, its context is  *)
(* cancelled, its process dies, and its claim is given back or forgotten   *)
(* once it has returned.                                                   *)
(*                                                                         *)
(* Runs in COLLECTING, ANALYZING and REPORTING belong to reconcilers that  *)
(* do not touch the cluster; here their attempts change nothing.           *)
(***************************************************************************)
EXTENDS ClaimStore

CONSTANTS AttemptTimeout,   \* ProvisioningConfig.AttemptTimeout
          MaxUid,           \* bound on the Jobs ever created for a Run
          LateCreates,      \* may a create be executed after its client gave up?
          Cascades          \* how others than this program delete Jobs

\* ProvisioningConfig.Validate: AttemptTimeout <= LeaseTTL/2.
ASSUME TimeoutAssumption == AttemptTimeout \in Nat \ {0} /\ 2 * AttemptTimeout <= LeaseTTL
ASSUME UidAssumption == MaxUid \in Nat
ASSUME ClusterAssumption ==
    LateCreates \in BOOLEAN /\ Cascades \subseteq {"foreground", "background"}

VARIABLES att,      \* the attempt of a worker for a Run
          exec,     \* kubernetes_executions: UID of the bound Job
          job,      \* the Job named after the Run
          pods,     \* UIDs of Jobs that have Pods
          created,  \* Jobs created so far; the UID of the last one
          inflight, \* a create whose client is gone
          late      \* history: UIDs of Jobs created after their client was gone

clusterVars == <<job, pods, created, inflight, late>>
dispatchVars == <<runs, leases, held, claims, att, exec, job, pods, created, inflight, late>>

NoUid == 0
NoJob == [uid |-> NoUid, phase |-> "absent", deleting |-> FALSE]
Finished == {"succeeded", "failed"}

Idle == [pc |-> "idle", live |-> FALSE, timed |-> FALSE, left |-> 0, uid |-> NoUid,
         stopped |-> FALSE, change |-> Change("CREATED")]

At(a, pc) == [a EXCEPT !.pc = pc]

Started == [At(Idle, "route") EXCEPT !.live = TRUE]

DispatchInit ==
    /\ Init
    /\ att = [w \in Workers |-> [r \in Runs |-> Idle]]
    /\ exec = [r \in Runs |-> NoUid]
    /\ job = [r \in Runs |-> NoJob]
    /\ pods = [r \in Runs |-> {}]
    /\ created = [r \in Runs |-> 0]
    /\ inflight = [r \in Runs |-> FALSE]
    /\ late = [r \in Runs |-> {}]

-----------------------------------------------------------------------------
(* Control flow of an attempt *)

\* An attempt is at a call it can still make: its context is not cancelled and its
\* deadline, if it has one, is not reached.
Calls(w, r, pc) ==
    /\ att[w][r].pc = pc
    /\ att[w][r].live
    /\ att[w][r].timed => att[w][r].left > 0

Become(w, r, a) == att' = [att EXCEPT ![w][r] = a]
Goto(w, r, pc) == Become(w, r, At(att[w][r], pc))
GotoWith(w, r, pc, uid) == Become(w, r, [At(att[w][r], pc) EXCEPT !.uid = uid])
Decide(w, r, change) == Become(w, r, [At(att[w][r], "advance") EXCEPT !.change = change])
Returns(w, r) == Become(w, r, At(Idle, "returned"))

\* The attempt goes on with a deadline of its own, or without one.
Within(a, left) == [[At(a, "getExecution") EXCEPT !.timed = TRUE] EXCEPT !.left = left]
Unlimited(a) == [[At(a, "getBound") EXCEPT !.timed = FALSE] EXCEPT !.left = 0]

State(w, r) == claims[w][r].state

\* ValidationReconciler resolves the plan: it is approved, or rejected as invalid or
\* unauthorized.
ValidationOutcomes == {Change("PROVISIONING"), Failing("INVALID", "VALIDATION_FAILED")}

\* Router.Reconcile on the state of the claim.
Route(w, r) ==
    /\ Calls(w, r, "route")
    /\ \/ State(w, r) = "CREATED" /\ Decide(w, r, Change("VALIDATING"))
       \/ State(w, r) = "VALIDATING" /\ \E change \in ValidationOutcomes : Decide(w, r, change)
       \/ /\ State(w, r) \in {"PROVISIONING", "CANCELLING"}
          /\ Become(w, r, Within(att[w][r], AttemptTimeout))
       \/ State(w, r) \in {"WARMING_UP", "RUNNING"} /\ Goto(w, r, "getBound")
       \/ State(w, r) \in {"COLLECTING", "ANALYZING", "REPORTING"} /\ Returns(w, r)
    /\ UNCHANGED <<storeVars, exec, clusterVars>>

\* Mutation: a bound execution whose Job is gone is dispatched again.
GetExecutionAgain(w, r) ==
    /\ Calls(w, r, "getExecution")
    /\ Owned(w, r)
    /\ \/ (exec[r] = NoUid \/ job[r] = NoJob) /\ Goto(w, r, "renew")
       \/ exec[r] # NoUid /\ job[r] # NoJob /\ Goto(w, r, "getBound")
    /\ UNCHANGED <<storeVars, exec, clusterVars>>

\* ProvisioningReconciler.Reconcile: a bound execution goes to the bound stage, also
\* when its Job is gone. Only cancellation of a bound execution drops the deadline.
GetExecution(w, r) ==
    /\ Calls(w, r, "getExecution")
    /\ Owned(w, r)
    /\ \/ exec[r] = NoUid /\ Goto(w, r, "renew")
       \/ exec[r] # NoUid /\ State(w, r) = "PROVISIONING" /\ Goto(w, r, "getBound")
       \/ /\ exec[r] # NoUid /\ State(w, r) = "CANCELLING"
          /\ Become(w, r, Unlimited(att[w][r]))
    /\ UNCHANGED <<storeVars, exec, clusterVars>>

\* recoverCancellation and dispatchAndBind: the claim is renewed, and the attempt ends
\* unless the Run is as it was claimed, before the cluster is touched.
RenewForCluster(w, r) ==
    /\ Calls(w, r, "renew")
    /\ ExtendLease(w, r) /\ UNCHANGED claims
    /\ \/ Snapshot(r, claims[w][r].token) # claims[w][r] /\ Returns(w, r)
       \/ /\ Snapshot(r, claims[w][r].token) = claims[w][r]
          /\ Goto(w, r, IF State(w, r) = "CANCELLING" THEN "find" ELSE "create")
    /\ UNCHANGED <<exec, clusterVars>>

-----------------------------------------------------------------------------
(* EnsureJob, FindJob and BindExecution *)

NewJob(r) ==
    /\ job[r] = NoJob
    /\ created[r] < MaxUid
    /\ created' = [created EXCEPT ![r] = @ + 1]
    /\ job' = [job EXCEPT ![r] = [uid |-> created[r] + 1, phase |-> "pending",
                                  deleting |-> FALSE]]

\* The API server creates the Job, and its answer arrives or does not.
CreateJob(w, r) ==
    /\ Calls(w, r, "create")
    /\ NewJob(r)
    /\ GotoWith(w, r, "bind", created[r] + 1) \/ Returns(w, r)
    /\ UNCHANGED <<storeVars, exec, pods, inflight, late>>

\* AlreadyExists: the existing Job is read next.
CreateConflicts(w, r) ==
    /\ Calls(w, r, "create")
    /\ job[r] # NoJob
    /\ Goto(w, r, "adopt")
    /\ UNCHANGED <<storeVars, exec, clusterVars>>

\* The Job of this name was created from the same approved plan and is adopted, also
\* when it is being deleted; when it has gone the attempt is unavailable.
Adopt(w, r) ==
    /\ Calls(w, r, "adopt")
    /\ \/ job[r] # NoJob /\ GotoWith(w, r, "bind", job[r].uid)
       \/ job[r] = NoJob /\ Returns(w, r)
    /\ UNCHANGED <<storeVars, exec, clusterVars>>

\* FindJob never creates. A cancelled Run without a Job needs no further stop.
FindJob(w, r) ==
    /\ Calls(w, r, "find")
    /\ \/ job[r] # NoJob /\ GotoWith(w, r, "bind", job[r].uid)
       \/ job[r] = NoJob /\ Decide(w, r, Change("ABORTED"))
    /\ UNCHANGED <<storeVars, exec, clusterVars>>

\* ON CONFLICT DO NOTHING: the first identity stays. The attempt ends either way.
BindExecution(w, r) ==
    /\ Calls(w, r, "bind")
    /\ Owned(w, r)
    /\ exec' = [exec EXCEPT ![r] = IF @ = NoUid THEN att[w][r].uid ELSE @]
    /\ Returns(w, r)
    /\ UNCHANGED <<storeVars, clusterVars>>

-----------------------------------------------------------------------------
(* BoundExecutionReconciler *)

GetBound(w, r) ==
    /\ Calls(w, r, "getBound")
    /\ Owned(w, r)
    /\ \/ exec[r] = NoUid /\ Returns(w, r)
       \/ exec[r] # NoUid /\ GotoWith(w, r, "observe", exec[r])
    /\ UNCHANGED <<storeVars, exec, clusterVars>>

InfrastructureFailure == Failing("INFRASTRUCTURE_FAILURE", "INFRASTRUCTURE_ERROR")

\* Mutation: a Job that has started counts as finished.
AdvancesEarly(state, seen) ==
    IF seen = NoJob \/ seen.deleting THEN {InfrastructureFailure}
    ELSE IF seen.phase = "pending" THEN {}
    ELSE IF state = "PROVISIONING" THEN {Change("RUNNING")} ELSE {Change("COLLECTING")}

\* Mutation: a Job that has finished before it is first observed is not seen to run.
AdvancesWhileRunning(state, seen) ==
    IF seen = NoJob \/ seen.deleting THEN {InfrastructureFailure}
    ELSE IF state = "PROVISIONING" /\ seen.phase = "running" THEN {Change("RUNNING")}
    ELSE IF state # "PROVISIONING" /\ seen.phase \in Finished THEN {Change("COLLECTING")}
    ELSE {}

\* DecideBoundExecution for a Run that executes: the change, if any.
Advances(state, seen) ==
    IF seen = NoJob \/ seen.deleting THEN {InfrastructureFailure}
    ELSE IF state = "PROVISIONING" /\ seen.phase # "pending" THEN {Change("RUNNING")}
    ELSE IF state # "PROVISIONING" /\ seen.phase \in Finished THEN {Change("COLLECTING")}
    ELSE {}

\* matchingExecution: the Job of the Run's name is not the bound one.
Replaced(w, r) == job[r].uid \notin {NoUid, att[w][r].uid}

\* ObserveJob fails for a Job that was replaced. A cancelled Run's Job is stopped, once,
\* and when it is gone its Pods are looked for.
Observe(w, r) ==
    LET decision == Advances(State(w, r), job[r]) IN
    /\ Calls(w, r, "observe")
    /\ \/ Replaced(w, r) /\ Returns(w, r)
       \/ /\ ~Replaced(w, r)
          /\ State(w, r) = "CANCELLING"
          /\ Goto(w, r, IF job[r] = NoJob THEN "confirm"
                        ELSE IF att[w][r].stopped THEN "observe" ELSE "stop")
       \/ /\ ~Replaced(w, r)
          /\ State(w, r) # "CANCELLING"
          /\ \/ decision = {} /\ Returns(w, r)
             \/ \E change \in decision : Decide(w, r, change)
    /\ UNCHANGED <<storeVars, exec, clusterVars>>

\* The Job is being deleted, and the attempt knows that it has asked for it.
Deleted(r) == job' = [job EXCEPT ![r] = [job[r] EXCEPT !.deleting = TRUE]]
HasStopped(w, r) == Become(w, r, [At(att[w][r], "observe") EXCEPT !.stopped = TRUE])

\* Mutation: the Job of the Run's name is deleted, whatever its UID.
StopByName(w, r) ==
    /\ Calls(w, r, "stop")
    /\ job[r] # NoJob
    /\ Deleted(r)
    /\ HasStopped(w, r)
    /\ UNCHANGED <<storeVars, exec, pods, created, inflight, late>>

\* Mutation: the attempt notes that it has stopped the Job, and has not.
StopForgotten(w, r) ==
    /\ Calls(w, r, "stop")
    /\ HasStopped(w, r)
    /\ UNCHANGED <<storeVars, exec, clusterVars>>

\* RequestJobStop: foreground deletion with the UID as a precondition. Its answer may be
\* lost.
RequestStop(w, r) ==
    /\ Calls(w, r, "stop")
    /\ \/ /\ job[r].uid = att[w][r].uid
          /\ Deleted(r)
          /\ HasStopped(w, r) \/ Returns(w, r)
       \/ /\ job[r].uid = NoUid
          /\ HasStopped(w, r)
          /\ UNCHANGED job
       \/ Replaced(w, r) /\ Returns(w, r) /\ UNCHANGED job
    /\ UNCHANGED <<storeVars, exec, pods, created, inflight, late>>

\* Mutation: a Job that is gone is taken to have no Pods.
ConfirmBlindly(w, r) ==
    /\ Calls(w, r, "confirm")
    /\ Decide(w, r, Change("ABORTED"))
    /\ UNCHANGED <<storeVars, exec, clusterVars>>

\* ConfirmExecutionStopped lists every Pod of the Run.
ConfirmStopped(w, r) ==
    LET a == att[w][r] IN
    /\ Calls(w, r, "confirm")
    /\ \/ pods[r] = {} /\ Decide(w, r, Change("ABORTED"))
       \/ pods[r] = {a.uid} /\ Goto(w, r, "observe")
       \/ ~(pods[r] \subseteq {a.uid}) /\ Returns(w, r)
    /\ UNCHANGED <<storeVars, exec, clusterVars>>

\* advanceOwnedClaim. A stale revision ends the attempt without an error.
Advance(w, r) ==
    /\ Calls(w, r, "advance")
    /\ AdvanceClaim(w, r, att[w][r].change)
    /\ Returns(w, r)
    /\ UNCHANGED <<exec, clusterVars>>

\* A call fails or is refused: not owned, stale, unavailable, or its context is gone. A
\* create may be executed after its client has given up.
Fail(w, r) ==
    /\ att[w][r].pc \notin {"idle", "returned"}
    /\ Returns(w, r)
    /\ inflight' = [inflight EXCEPT ![r] = @ \/ (LateCreates /\ att[w][r].pc = "create")]
    /\ UNCHANGED <<storeVars, exec, job, pods, created, late>>

-----------------------------------------------------------------------------
(* The engine, as an attempt sees it *)

Claim(w) ==
    /\ \E batch \in SUBSET Runs, kept \in SUBSET Runs, token \in [Runs -> Tokens] :
         /\ ClaimRuns(w, batch, kept, token)
         /\ att' = [att EXCEPT ![w] = [r \in Runs |-> IF r \in kept THEN Started ELSE att[w][r]]]
    /\ UNCHANGED <<exec, clusterVars>>

\* A renewal that reveals a cancellation cancels the context.
EngineRenews(w, r) ==
    /\ att[w][r].live
    /\ ExtendLease(w, r) /\ UNCHANGED claims
    /\ Become(w, r, [att[w][r] EXCEPT !.live =
                        ~(runs[r].state = "CANCELLING" /\ State(w, r) # "CANCELLING")])
    /\ UNCHANGED <<exec, clusterVars>>

\* The renewal failed or the worker shuts down.
EngineCancels(w, r) ==
    /\ att[w][r].live
    /\ Become(w, r, [att[w][r] EXCEPT !.live = FALSE])
    /\ UNCHANGED <<storeVars, exec, clusterVars>>

\* Mutation: the lease is given back although it may be another's.
FinishUnfenced(w, r) ==
    /\ att[w][r].pc = "returned"
    /\ leases' = [leases EXCEPT ![r] = Until(leases[r], 0, 0)]
    /\ claims' = [claims EXCEPT ![w][r] = NoClaim]
    /\ Become(w, r, Idle)
    /\ UNCHANGED <<runs, held, exec, clusterVars>>

EngineFinishes(w, r) ==
    /\ att[w][r].pc = "returned"
    /\ EndAttempt(w, r)
    /\ Become(w, r, Idle)
    /\ UNCHANGED <<exec, clusterVars>>

Crash(w) ==
    /\ LoseClaims(w)
    /\ att' = [att EXCEPT ![w] = [r \in Runs |-> Idle]]
    /\ inflight' = [r \in Runs |-> inflight[r] \/ (LateCreates /\ att[w][r].pc = "create")]
    /\ UNCHANGED <<exec, job, pods, created, late>>

Elapse ==
    /\ \/ Tick
       \/ /\ \E w \in Workers, r \in Runs : att[w][r].left > 0
          /\ leases' = LeasesAfterTick
          /\ UNCHANGED <<runs, held, claims>>
    /\ att' = [w \in Workers |-> [r \in Runs |-> [att[w][r] EXCEPT !.left = TimeLeft(att[w][r].left)]]]
    /\ UNCHANGED <<exec, clusterVars>>

-----------------------------------------------------------------------------
(* The cluster *)

LateCreate(r) ==
    /\ inflight[r]
    /\ \/ NewJob(r) /\ late' = [late EXCEPT ![r] = @ \union {created[r] + 1}]
       \/ job[r] # NoJob /\ UNCHANGED <<job, created, late>>
    /\ inflight' = [inflight EXCEPT ![r] = FALSE]
    /\ UNCHANGED <<storeVars, att, exec, pods>>

JobProceeds(r) ==
    /\ ~job[r].deleting
    /\ \/ job[r].phase = "pending" /\ job' = [job EXCEPT ![r] = [job[r] EXCEPT !.phase = "running"]]
       \/ /\ job[r].phase = "running" /\ job[r].uid \in pods[r]
          /\ \E phase \in Finished : job' = [job EXCEPT ![r] = [job[r] EXCEPT !.phase = phase]]
    /\ UNCHANGED <<storeVars, att, exec, pods, created, inflight, late>>

PodStarts(r) ==
    /\ job[r].phase = "running" /\ ~job[r].deleting
    /\ job[r].uid \notin pods[r]
    /\ pods' = [pods EXCEPT ![r] = @ \union {job[r].uid}]
    /\ UNCHANGED <<storeVars, att, exec, job, created, inflight, late>>

\* Pods of a Job that is deleted are collected; a Job deleted in the foreground goes
\* when its Pods are gone.
Collect(r) ==
    /\ \/ \E uid \in pods[r] :
             /\ job[r].uid # uid \/ job[r].deleting
             /\ pods' = [pods EXCEPT ![r] = @ \ {uid}]
             /\ UNCHANGED job
       \/ /\ job[r].deleting /\ job[r].uid \notin pods[r]
          /\ job' = [job EXCEPT ![r] = NoJob]
          /\ UNCHANGED pods
    /\ UNCHANGED <<storeVars, att, exec, created, inflight, late>>

OutsideDelete(r) ==
    /\ job[r] # NoJob
    /\ \/ "foreground" \in Cascades /\ ~job[r].deleting
          /\ Deleted(r)
       \/ "background" \in Cascades /\ job' = [job EXCEPT ![r] = NoJob]
    /\ UNCHANGED <<storeVars, att, exec, pods, created, inflight, late>>

-----------------------------------------------------------------------------
Clients ==
    /\ \E r \in Runs : Accept(r) \/ Cancel(r)
    /\ UNCHANGED <<att, exec, clusterVars>>

Call(w, r) ==
    \/ Route(w, r) \/ GetExecution(w, r) \/ RenewForCluster(w, r) \/ CreateJob(w, r)
    \/ CreateConflicts(w, r) \/ Adopt(w, r) \/ FindJob(w, r) \/ BindExecution(w, r)
    \/ GetBound(w, r) \/ Observe(w, r) \/ RequestStop(w, r) \/ ConfirmStopped(w, r)
    \/ Advance(w, r)

Engine(w, r) == EngineRenews(w, r) \/ EngineCancels(w, r) \/ EngineFinishes(w, r)

Cluster(r) == LateCreate(r) \/ JobProceeds(r) \/ PodStarts(r) \/ Collect(r) \/ OutsideDelete(r)

DispatchNext ==
    \/ Clients
    \/ \E w \in Workers : Claim(w) \/ Crash(w)
    \/ \E w \in Workers, r \in Runs : Call(w, r) \/ Fail(w, r) \/ Engine(w, r)
    \/ \E r \in Runs : Cluster(r)
    \/ Elapse

DispatchSpec == DispatchInit /\ [][DispatchNext]_dispatchVars

-----------------------------------------------------------------------------
(* Fairness *)

\* The call an attempt is at cannot succeed: its context is gone, or the store refuses.
Refused(w, r) ==
    LET a == att[w][r] IN
    /\ a.pc \notin {"idle", "returned"}
    /\ \/ ~Calls(w, r, a.pc)
       \/ a.pc \in {"getExecution", "renew", "bind", "getBound", "advance"} /\ ~Owned(w, r)
       \/ a.pc = "advance" /\ claims[w][r].revision # runs[r].revision

\* Some attempt would be overtaken by its deadline or by the expiry of its lease.
AttemptIsDue(w, r) ==
    /\ att[w][r].live
    /\ (att[w][r].timed /\ att[w][r].left = 1) \/ (Owned(w, r) /\ leases[r].expires = 1)

SomeAttemptIsDue == \E w \in Workers, r \in Runs : AttemptIsDue(w, r)

ClaimKeeps(w, r) == Claim(w) /\ ~HasClaim(w, r) /\ HasClaim(w, r)'

\* What may happen for a while but not for ever: calls that fail although they could
\* succeed, attempts cancelled while they own their Run, crashes, and attempts
\* overtaken by time.  (A call that succeeds, and an attempt that ends, can look the
\* same as a failure; those steps are none.)
Fault ==
    \/ \E w \in Workers, r \in Runs :
          \/ Fail(w, r) /\ ~Refused(w, r) /\ ~Call(w, r)
          \/ EngineCancels(w, r) /\ Owned(w, r) /\ ~EngineRenews(w, r)
    \/ \E w \in Workers : Crash(w) /\ \A r \in Runs : ~EngineFinishes(w, r)
    \/ Elapse /\ SomeAttemptIsDue

\* Eventually the store and the cluster answer in time; from then on the goroutines of
\* a worker run, leases are renewed, the Job controller and the garbage collector work,
\* and a Run that is eligible again and again is claimed (PollEvery).  Clients need do
\* nothing.
DispatchFairness ==
    /\ <>[][~Fault]_dispatchVars
    /\ WF_dispatchVars(Elapse /\ ~SomeAttemptIsDue)
    /\ \A w \in Workers, r \in Runs :
         /\ WF_dispatchVars(Call(w, r))
         /\ WF_dispatchVars(Refused(w, r) /\ Fail(w, r))
         /\ WF_dispatchVars(EngineFinishes(w, r))
         /\ WF_dispatchVars(leases[r].expires = 1 /\ EngineRenews(w, r))
    /\ \A r \in Runs :
         /\ SF_dispatchVars(\E w \in Workers : ClaimKeeps(w, r))
         /\ WF_dispatchVars(JobProceeds(r))
         /\ WF_dispatchVars(PodStarts(r))
         /\ WF_dispatchVars(Collect(r))

FairDispatchSpec == DispatchSpec /\ DispatchFairness

-----------------------------------------------------------------------------
(* Properties *)

Points == {"idle", "route", "getExecution", "renew", "create", "adopt", "find", "bind",
           "getBound", "observe", "stop", "confirm", "advance", "returned"}

Attempts == [pc : Points, live : BOOLEAN, timed : BOOLEAN, left : 0..AttemptTimeout,
             uid : 0..MaxUid, stopped : BOOLEAN, change : Changes]

Jobs == [uid : 0..MaxUid, deleting : BOOLEAN,
         phase : {"absent", "pending", "running"} \union Finished]

DispatchTypeOK ==
    /\ StoreTypeOK
    /\ att \in [Workers -> [Runs -> Attempts]]
    /\ exec \in [Runs -> 0..MaxUid]
    /\ job \in [Runs -> Jobs]
    /\ pods \in [Runs -> SUBSET (1..MaxUid)]
    /\ created \in [Runs -> 0..MaxUid]
    /\ inflight \in [Runs -> BOOLEAN]
    /\ late \in [Runs -> SUBSET (1..MaxUid)]

\* A bound execution is never replaced (bound_execution.go, provisioning.go:70): once an
\* identity is stored, no Job of another identity exists under the Run's name, although
\* creation is not fenced by the lease.  This rests on the renewal before the create and
\* on AttemptTimeout <= LeaseTTL/2.  The one exception is a create that the API server
\* executes after its client has given up.
NeverReplaced ==
    \A r \in Runs : exec[r] # NoUid => job[r].uid \in {NoUid, exec[r]} \union late[r]

\* A Run is ABORTED only when nothing of it executes, and nothing starts afterwards,
\* except for a create executed late. (Of a Job that was never bound and that others
\* deleted in the background, Pods may be left: recoverCancellation looks for the Job
\* and not for Pods.)
AbortedMeansStopped ==
    \A r \in Runs : runs[r].state = "ABORTED" =>
        /\ job[r].uid \in {NoUid} \union (late[r] \ {exec[r]})
        /\ (exec[r] # NoUid \/ "background" \notin Cascades) => pods[r] \subseteq late[r] \ {exec[r]}

\* Evidence is evaluated only when the bound Job has finished.
EvaluationFollowsExecution ==
    \A r \in Runs : runs[r].state = "COLLECTING" =>
        /\ exec[r] # NoUid
        /\ job[r].uid = exec[r] => job[r].phase \in Finished

\* Cancellation wins: a Run that is CANCELLING is only ever ABORTED, whatever attempts
\* that were claimed before the cancellation still try to write.
CancellationWins ==
    [][\A r \in Runs : runs[r].state = "CANCELLING" =>
          runs'[r].state \in {"CANCELLING", "ABORTED"}]_dispatchVars

\* The program deletes only the Job that is bound, and only after cancellation, also
\* when a Job of the same name has appeared that is not the bound one.
StopsOnlyTheBoundJob ==
    [][\A r \in Runs :
          (~job[r].deleting /\ job'[r].deleting) =>
             /\ job[r].uid = exec[r]
             /\ runs[r].state \in {"CANCELLING", "ABORTED"}]_dispatchVars

\* The reconcilers use the store only in the ways module ClaimStore describes.
UsesTheStore == Spec

\* Cancellation completes: a cancelled Run is eventually ABORTED, unless a create was
\* executed after its client had given up (a Job of the Run's name that is not the
\* bound one makes every observation fail).
CancellationCompletes ==
    \A r \in Runs : runs[r].state = "CANCELLING"
                      ~> (runs[r].state = "ABORTED" \/ late[r] # {})

\* Execution completes: a Run that is provisioned reaches collection, is closed, or is
\* cancelled, with the same exception.
ExecutionCompletes ==
    \A r \in Runs : runs[r].state \in {"PROVISIONING", "RUNNING"}
                      ~> (runs[r].state \notin {"PROVISIONING", "RUNNING"} \/ late[r] # {})

=============================================================================
