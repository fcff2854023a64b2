---------------------------- MODULE DispatchProofs ----------------------------
(***************************************************************************)
(* Dispatch and cancellation of executions, for any sets of Runs, workers  *)
(* and tokens, any number of Jobs, and any timing with                     *)
(* AttemptTimeout <= LeaseTTL/2.  Creating a Job is not fenced by the      *)
(* lease; what takes the place of a fence is time: an attempt that can     *)
(* still create has renewed its lease so recently that nobody else can     *)
(* have one.                                                               *)
(***************************************************************************)
EXTENDS Dispatch, ClaimStoreProofs

\* Most leaves are about records and what disjuncts a step has; those that need arithmetic or
\* functions cite SMT.
USE ZenonT(60)

-----------------------------------------------------------------------------
(* The store *)

\* The calls of an attempt use the store in the ways of ClaimStore, or leave it alone.
LEMMA CallUsesStore ==
    ASSUME NEW w \in Workers, NEW r \in Runs, att[w][r].change \in Changes,
           Call(w, r) \/ Fail(w, r) \/ Engine(w, r)
    PROVE  [Next]_storeVars
<1>1. ASSUME ExtendLease(w, r), UNCHANGED claims PROVE Next
  BY <1>1 DEF RenewClaim, UseClaim, Next
<1>2. CASE RenewForCluster(w, r) \/ EngineRenews(w, r)
  BY <1>1, <1>2 DEF RenewForCluster, EngineRenews
<1>3. CASE Advance(w, r)
  BY <1>3 DEF Advance, UseClaim, Next
<1>4. CASE EngineFinishes(w, r)
  BY <1>4 DEF EngineFinishes, Next
<1>5. CASE \/ Route(w, r) \/ GetExecution(w, r) \/ CreateJob(w, r) \/ CreateConflicts(w, r)
           \/ Adopt(w, r) \/ FindJob(w, r) \/ BindExecution(w, r) \/ GetBound(w, r)
           \/ Observe(w, r) \/ RequestStop(w, r) \/ ConfirmStopped(w, r)
           \/ Fail(w, r) \/ EngineCancels(w, r)
  BY <1>5 DEF Route, GetExecution, CreateJob, CreateConflicts, Adopt, FindJob, BindExecution,
              GetBound, Observe, RequestStop, ConfirmStopped, Fail, EngineCancels
<1>6. QED BY <1>2, <1>3, <1>4, <1>5 DEF Call, Engine

\* Every step is a step of the store, or leaves it alone.
LEMMA StepUsesStore ==
    ASSUME DispatchTypeOK, [DispatchNext]_dispatchVars
    PROVE  [Next]_storeVars
<1>1. CASE Clients
  BY <1>1 DEF Clients, Next
<1>2. ASSUME NEW w \in Workers, Claim(w) \/ Crash(w) PROVE [Next]_storeVars
  BY <1>2 DEF Claim, Crash, ClaimSome, Next
<1>3. ASSUME NEW w \in Workers, NEW r \in Runs, Call(w, r) \/ Fail(w, r) \/ Engine(w, r)
      PROVE  [Next]_storeVars
  <2>1. att[w][r].change \in Changes BY DEF DispatchTypeOK, Attempts
  <2>2. QED BY <1>3, <2>1, CallUsesStore
<1>4. ASSUME NEW r \in Runs, Cluster(r) PROVE [Next]_storeVars
  BY <1>4 DEF Cluster, LateCreate, JobProceeds, PodStarts, Collect, OutsideDelete
<1>5. CASE Elapse
  <2>1. StoreTypeOK BY DEF DispatchTypeOK
  <2>2. QED BY <1>5, <2>1, TimePasses DEF Elapse, Tick
<1>6. CASE UNCHANGED dispatchVars
  BY <1>6 DEF dispatchVars, storeVars
<1>7. QED BY <1>1, <1>2, <1>3, <1>4, <1>5, <1>6 DEF DispatchNext

-----------------------------------------------------------------------------
(* The inductive invariant *)

\* The lease of the Run is the one the claim was given, and it has not run out.
Holds(w, r) ==
    /\ HasClaim(w, r)
    /\ leases[r].worker = w
    /\ leases[r].token = claims[w][r].token
    /\ leases[r].expires > 0

\* The states in which nothing of a Run can be in the cluster.
Early == {"ABSENT", "CREATED", "VALIDATING"}

\* Between the renewal and the binding, without and with the renewal itself.
OnCluster == {"create", "adopt", "find", "bind"}
Prepared == OnCluster \union {"renew"}

\* No Job of the Run is left but one that was created late, and is not the bound one.
JobGone(r) == job[r].uid \in {NoUid} \union (late[r] \ {exec[r]})

Gone(r) ==
    /\ JobGone(r)
    /\ (exec[r] # NoUid \/ "background" \notin Cascades) => pods[r] \subseteq late[r] \ {exec[r]}

\* The bound Job has finished, or is not there any more.
Collected(r) == exec[r] # NoUid /\ (job[r].uid = exec[r] => job[r].phase \in Finished)

\* An attempt and its claim: what the claimed state allows.
Claiming(a, w, r) ==
    /\ a.pc # "idle" <=> HasClaim(w, r)
    /\ a.pc \in Prepared \union {"getExecution"} => a.timed
    /\ a.pc \notin {"idle", "route", "advance", "returned"} => State(w, r) \notin Early
    /\ a.pc \in {"find", "stop", "confirm"} => State(w, r) = "CANCELLING"
    /\ (a.pc = "advance" /\ a.change.state = "ABORTED") => State(w, r) = "CANCELLING"
    /\ (a.pc = "advance" /\ State(w, r) = "CANCELLING") => a.change.state = "ABORTED"

\* An attempt that can still create or bind has the lease.
Timely(a, w, r) ==
    (a.pc \in OnCluster /\ a.left > 0) =>
        Holds(w, r) /\ leases[r].expires + AttemptTimeout >= LeaseTTL + a.left

\* What an attempt knows of the bound Job is true for ever, and what it knows of the
\* cluster is true for as long as it has the lease.
Knowing(a, r) ==
    /\ a.pc \in {"observe", "stop", "confirm"} => a.uid = exec[r] /\ a.uid # NoUid
    /\ (a.pc = "advance" /\ a.change.state = "COLLECTING") => Collected(r)
    /\ a.pc = "bind" => a.uid # NoUid /\ a.uid <= created[r]

Trusting(a, r) ==
    /\ a.pc \in Prepared => exec[r] = NoUid
    /\ a.pc = "bind" => job[r].uid \in {NoUid, a.uid} \union late[r]
    /\ a.pc = "confirm" => JobGone(r)
    /\ (a.pc = "advance" /\ a.change.state = "ABORTED") => Gone(r)

Fits(a, w, r) ==
    /\ Claiming(a, w, r)
    /\ Timely(a, w, r)
    /\ Knowing(a, r)
    /\ Holds(w, r) => Trusting(a, r)

\* The claimed state and the stored one.
Following(w, r) ==
    HasClaim(w, r) =>
        /\ runs[r].state \in Early => State(w, r) \in Early
        /\ State(w, r) = "CANCELLING" => runs[r].state \in {"CANCELLING", "ABORTED"}

\* UIDs count the Jobs, and Pods belong to Jobs that were there.
Counted(r) ==
    /\ exec[r] <= created[r] /\ job[r].uid <= created[r]
    /\ pods[r] \subseteq 1..created[r]
    /\ job[r].uid = NoUid => job[r] = NoJob
    /\ "background" \notin Cascades => pods[r] \subseteq {job[r].uid}

\* What the state of a Run says of the cluster.
Situated(r) ==
    /\ exec[r] # NoUid => job[r].uid \in {NoUid, exec[r]} \union late[r]
    /\ runs[r].state \in Early =>
          job[r] = NoJob /\ exec[r] = NoUid /\ pods[r] = {} /\ ~inflight[r]
    /\ runs[r].state = "COLLECTING" => Collected(r)
    /\ runs[r].state = "ABORTED" => Gone(r)
    /\ runs[r].state \in TerminalStates =>
          \/ leases[r].expires = 0
          \/ \A w \in Workers : HasClaim(w, r) => State(w, r) \in Early

DispatchInv ==
    /\ DispatchTypeOK /\ RevisionIdentifiesSnapshot /\ held = {}
    /\ \A w \in Workers, r \in Runs : Fits(att[w][r], w, r) /\ Following(w, r)
    /\ \A r \in Runs : Counted(r) /\ Situated(r)

-----------------------------------------------------------------------------
(* The records of attempts *)

\* An attempt that moves to another call keeps what it knows.
LEMMA AtFields ==
    ASSUME NEW a \in Attempts, NEW pc \in Points
    PROVE  /\ At(a, pc) \in Attempts
           /\ At(a, pc).pc = pc /\ At(a, pc).live = a.live /\ At(a, pc).timed = a.timed
           /\ At(a, pc).left = a.left /\ At(a, pc).uid = a.uid
           /\ At(a, pc).change = a.change
BY DEF At, Attempts

\* An attempt that learns the UID of a Job: EnsureJob, FindJob and GetExecution return it.
LEMMA UidFields ==
    ASSUME NEW a \in Attempts, NEW uid \in 0..MaxUid
    PROVE  /\ [a EXCEPT !.uid = uid] \in Attempts
           /\ [a EXCEPT !.uid = uid].pc = a.pc /\ [a EXCEPT !.uid = uid].uid = uid
           /\ [a EXCEPT !.uid = uid].timed = a.timed /\ [a EXCEPT !.uid = uid].left = a.left
BY DEF Attempts

\* An attempt that decides on a change of its Run.
LEMMA ChangeFields ==
    ASSUME NEW a \in Attempts, NEW change \in Changes
    PROVE  /\ [a EXCEPT !.change = change] \in Attempts
           /\ [a EXCEPT !.change = change].pc = a.pc
           /\ [a EXCEPT !.change = change].change = change
BY DEF Attempts

\* An attempt whose context is cancelled, or not.
LEMMA LiveFields ==
    ASSUME NEW a \in Attempts, NEW b \in BOOLEAN
    PROVE  /\ [a EXCEPT !.live = b] \in Attempts
           /\ [a EXCEPT !.live = b].pc = a.pc /\ [a EXCEPT !.live = b].uid = a.uid
           /\ [a EXCEPT !.live = b].timed = a.timed /\ [a EXCEPT !.live = b].left = a.left
           /\ [a EXCEPT !.live = b].change = a.change
BY DEF Attempts

\* An attempt that has asked for its Job to be deleted.
LEMMA StoppedFields ==
    ASSUME NEW a \in Attempts
    PROVE  /\ [a EXCEPT !.stopped = TRUE] \in Attempts
           /\ [a EXCEPT !.stopped = TRUE].pc = a.pc /\ [a EXCEPT !.stopped = TRUE].uid = a.uid
BY DEF Attempts

\* An attempt whose deadline comes nearer.
LEMMA LeftFields ==
    ASSUME NEW a \in Attempts, NEW left \in 0..AttemptTimeout
    PROVE  /\ [a EXCEPT !.left = left] \in Attempts
           /\ [a EXCEPT !.left = left].pc = a.pc /\ [a EXCEPT !.left = left].uid = a.uid
           /\ [a EXCEPT !.left = left].timed = a.timed /\ [a EXCEPT !.left = left].left = left
           /\ [a EXCEPT !.left = left].change = a.change
BY DEF Attempts

\* An attempt whose deadline starts or is dropped.
LEMMA TimedFields ==
    ASSUME NEW a \in Attempts, NEW b \in BOOLEAN
    PROVE  /\ [a EXCEPT !.timed = b] \in Attempts
           /\ [a EXCEPT !.timed = b].pc = a.pc /\ [a EXCEPT !.timed = b].timed = b
BY DEF Attempts

\* The changes that reconcilers decide on.
LEMMA ChangesTyped ==
    ASSUME NEW state \in States
    PROVE  /\ Change(state) \in Changes /\ Change(state).state = state
           /\ InfrastructureFailure \in Changes
           /\ InfrastructureFailure.state = "INFRASTRUCTURE_FAILURE"
           /\ Failing("INVALID", "VALIDATION_FAILED") \in Changes
           /\ Failing("INVALID", "VALIDATION_FAILED").state = "INVALID"
BY DEF Change, Failing, InfrastructureFailure, Changes, States, ActiveStates, TerminalStates,
       FailureCodes, NoFailure

\* No attempt, an attempt that has just started and one that has returned.
LEMMA IdleFields ==
    /\ Idle \in Attempts /\ Idle.pc = "idle"
    /\ Started \in Attempts /\ Started.pc = "route"
    /\ At(Idle, "returned") \in Attempts /\ At(Idle, "returned").pc = "returned"
<1>1. Change("CREATED") \in Changes
  BY ChangesTyped DEF States, ActiveStates
<1>2. Idle \in Attempts /\ Idle.pc = "idle"
  BY <1>1, TimeoutAssumption, UidAssumption, SMTT(30) DEF Idle, Attempts, Points, NoUid
<1>3. "route" \in Points /\ "returned" \in Points
  BY DEF Points
<1>4. /\ At(Idle, "route") \in Attempts /\ At(Idle, "route").pc = "route"
      /\ At(Idle, "returned") \in Attempts /\ At(Idle, "returned").pc = "returned"
  BY <1>2, <1>3, AtFields
<1>5. Started \in Attempts /\ Started.pc = "route"
  BY <1>4, LiveFields DEF Started
<1>6. QED BY <1>2, <1>4, <1>5

\* The attempts of the type invariant, one by one, and the tables of the cluster.
LEMMA Typed ==
    ASSUME DispatchTypeOK, NEW r \in Runs
    PROVE  /\ \A w \in Workers : att[w][r] \in Attempts
           /\ job[r] \in Jobs /\ job[r].uid \in 0..MaxUid
           /\ exec[r] \in 0..MaxUid /\ created[r] \in 0..MaxUid
           /\ pods[r] \in SUBSET (1..MaxUid) /\ late[r] \in SUBSET (1..MaxUid)
           /\ inflight[r] \in BOOLEAN
<1>1. job[r] \in Jobs
  BY DEF DispatchTypeOK
<1>2. job[r].uid \in 0..MaxUid
  BY <1>1 DEF Jobs
<1>3. QED BY <1>1, <1>2 DEF DispatchTypeOK

-----------------------------------------------------------------------------
(* Runs, leases and claims *)

\* What happens to a claim: it is kept or dropped, or it is new and shows an eligible Run.
LEMMA MemoryStep ==
    ASSUME DispatchTypeOK, [DispatchNext]_dispatchVars, NEW w \in Workers, NEW r \in Runs
    PROVE  \/ claims'[w][r] = claims[w][r]
           \/ claims'[w][r] = NoClaim
           \/ /\ Eligible(r) /\ runs' = runs
              /\ claims'[w][r].state = runs[r].state
<1>0. StoreTypeOK
  BY DEF DispatchTypeOK
<1> DEFINE Goal == \/ claims'[w][r] = claims[w][r]
                   \/ claims'[w][r] = NoClaim
                   \/ /\ Eligible(r) /\ runs' = runs
                      /\ claims'[w][r].state = runs[r].state
<1>1. ASSUME NEW v \in Workers, Claim(v) PROVE Goal
  <2>1. PICK batch \in SUBSET Runs, kept \in SUBSET Runs, token \in [Runs -> Tokens] :
          ClaimRuns(v, batch, kept, token)
    BY <1>1 DEF Claim
  <2>2. \/ claims'[w][r] = claims[w][r]
        \/ r \in batch /\ claims'[w][r] = Snapshot(r, token[r])
    BY <1>0, <2>1, ClaimRunsClaims, SMTT(30)
  <2>3. runs' = runs /\ (r \in batch => Eligible(r))
    BY <2>1 DEF ClaimRuns, LeaseBatch
  <2>4. QED BY <1>0, <2>2, <2>3, SnapshotTyped, SMTT(30)
<1>2. ASSUME NEW v \in Workers, Crash(v) PROVE Goal
  BY <1>0, <1>2, LoseClaimsClaims DEF Crash
<1>3. ASSUME NEW v \in Workers, NEW q \in Runs, EngineFinishes(v, q) PROVE Goal
  <2>1. claims' = [claims EXCEPT ![v][q] = NoClaim]
    BY <1>3 DEF EngineFinishes, EndAttempt, ReleaseClaim, ForgetClaim
  <2>2. QED BY <1>0, <2>1, NoClaimTyped, SetClaim
<1>4. ASSUME claims' = claims PROVE Goal
  BY <1>4
<1>5. ASSUME NEW v \in Workers, NEW q \in Runs,
             Call(v, q) \/ Fail(v, q) \/ EngineRenews(v, q) \/ EngineCancels(v, q)
      PROVE  claims' = claims
  BY <1>5
  DEF Call, Route, GetExecution, RenewForCluster, CreateJob, CreateConflicts, Adopt, FindJob,
      BindExecution, GetBound, Observe, RequestStop, ConfirmStopped, Advance, Fail,
      EngineRenews, EngineCancels, AdvanceClaim, storeVars
<1>6. ASSUME NEW q \in Runs, Cluster(q) PROVE claims' = claims
  BY <1>6 DEF Cluster, LateCreate, JobProceeds, PodStarts, Collect, OutsideDelete, storeVars
<1>7. ASSUME Clients \/ Elapse \/ UNCHANGED dispatchVars PROVE claims' = claims
  BY <1>7 DEF Clients, Accept, Cancel, Elapse, Tick, dispatchVars
<1> HIDE DEF Goal
<1>8. Goal
  BY <1>1, <1>2, <1>3, <1>4, <1>5, <1>6, <1>7 DEF DispatchNext, Engine
<1>9. QED BY <1>8 DEF Goal

\* Only an eligible Run is given a new lease.
LEMMA LeaseStep ==
    ASSUME StoreTypeOK, [Next]_storeVars, NEW r \in Runs, leases'[r].expires > 0
    PROVE  leases[r].expires > 0 \/ Eligible(r)
<1>1. ASSUME NEW w \in Workers, ClaimSome(w) PROVE leases[r].expires > 0 \/ Eligible(r)
  <2>1. PICK batch \in SUBSET Runs, kept \in SUBSET Runs, token \in [Runs -> Tokens] :
          ClaimRuns(w, batch, kept, token)
    BY <1>1 DEF ClaimSome
  <2>2. r \in batch => Eligible(r)
    BY <2>1 DEF ClaimRuns, LeaseBatch
  <2>3. r \notin batch => leases'[r] = leases[r]
    BY <2>1 DEF ClaimRuns, LeaseBatch
  <2>4. QED BY <2>2, <2>3
<1>2. CASE NonClaimStep
  BY <1>2, NonClaimExpiry
<1>3. QED BY <1>1, <1>2, StepCases

\* How clients write a Run: it is accepted, closed or cancelled.
LEMMA ClientWrites ==
    ASSUME StoreTypeOK, NEW r \in Runs, Accept(r) \/ Cancel(r)
    PROVE  /\ \A q \in Runs \ {r} : runs'[q] = runs[q]
           /\ \/ runs'[r] = runs[r]
              \/ runs[r].state = "ABSENT" /\ runs'[r].state = "CREATED"
              \/ runs[r].state \in {"CREATED", "VALIDATING"} /\ runs'[r].state = "ABORTED"
              \/ /\ runs[r].state \in ActiveStates \ {"CREATED", "VALIDATING"}
                 /\ runs'[r].state = "CANCELLING"
<1>0. runs[r] \in RunRecords
  BY DEF StoreTypeOK
<1>1. CASE Accept(r)
  BY <1>1, SMTT(30) DEF Accept, Absent, StoreTypeOK
<1>2. CASE Cancel(r)
  <2>1. /\ \A q \in Runs \ {r} : runs'[q] = runs[q]
        /\ runs'[r] = RequestCancellation(runs[r]) /\ CancellationAllowed(runs[r])
    BY <1>2 DEF Cancel, StoreTypeOK
  <2>2. \/ RequestCancellation(runs[r]) = runs[r]
        \/ /\ runs[r].state \in ActiveStates
           /\ RequestCancellation(runs[r]).state = CancellationTarget(runs[r].state)
    BY <1>0, <2>1, CancellationResult
  <2>3. QED BY <2>1, <2>2 DEF CancellationTarget
<1>3. QED BY <1>1, <1>2

\* How an attempt writes its Run: from the state it claimed, along an edge; a Run that is
\* closed loses its lease.
LEMMA AdvanceWrites ==
    ASSUME DispatchTypeOK, RevisionIdentifiesSnapshot, NEW w \in Workers, NEW r \in Runs,
           Advance(w, r)
    PROVE  /\ \A q \in Runs \ {r} : runs'[q] = runs[q] /\ leases'[q] = leases[q]
           /\ State(w, r) = runs[r].state
           /\ CanTransition(runs[r].state, att[w][r].change.state)
           /\ runs'[r].state = att[w][r].change.state
           /\ \/ leases'[r].expires = 0
              \/ leases'[r] = leases[r] /\ runs'[r].state \notin TerminalStates
<1> DEFINE c == att[w][r].change
<1>0. StoreTypeOK /\ runs[r] \in RunRecords
  BY DEF DispatchTypeOK, StoreTypeOK
<1>1. c \in Changes
  BY DEF DispatchTypeOK, Attempts
<1>2. AdvanceClaim(w, r, c) /\ HasClaim(w, r)
  BY DEF Advance, AdvanceClaim, Owned
<1> HIDE DEF c
<1>3. /\ TransitionAllowed(runs[r], claims[w][r].revision, c)
      /\ runs' = [runs EXCEPT ![r] = Transition(runs[r], c)]
  BY <1>2 DEF AdvanceClaim
<1>4. /\ Transition(runs[r], c).state = c.state
      /\ runs[r].revision = claims[w][r].revision
      /\ CanTransition(runs[r].state, c.state)
  BY <1>0, <1>1, <1>3, TransitionResult
<1>5. runs'[r] = Transition(runs[r], c) /\ \A q \in Runs \ {r} : runs'[q] = runs[q]
  BY <1>0, <1>3 DEF StoreTypeOK
<1>6. State(w, r) = runs[r].state
  BY <1>2, <1>4 DEF RevisionIdentifiesSnapshot, State
<1>7. /\ \A q \in Runs \ {r} : leases'[q] = leases[q]
      /\ \/ leases'[r].expires = 0
         \/ leases'[r] = leases[r] /\ c.state \notin TerminalStates
  <2>1. CASE Terminal(c.state)
    <3>1. leases' = [leases EXCEPT ![r] = Until(leases[r], 0, leases[r].available)]
      BY <1>2, <2>1 DEF AdvanceClaim
    <3>2. leases'[r] = Until(leases[r], 0, leases[r].available)
          /\ \A q \in Runs \ {r} : leases'[q] = leases[q]
      BY <1>0, <3>1 DEF StoreTypeOK
    <3>3. QED BY <3>2, UntilFields, SMTT(30)
  <2>2. CASE ~Terminal(c.state)
    BY <1>2, <2>2, TerminalIsTerminalStates DEF AdvanceClaim
  <2>3. QED BY <2>1, <2>2
<1>8. QED BY <1>4, <1>5, <1>6, <1>7 DEF c

\* Every write of a Run is one of a client or of an attempt.
LEMMA RunWrites ==
    ASSUME DispatchTypeOK, RevisionIdentifiesSnapshot, [DispatchNext]_dispatchVars,
           NEW r \in Runs
    PROVE  \/ runs'[r] = runs[r]
           \/ Accept(r) \/ Cancel(r)
           \/ \E w \in Workers : Advance(w, r)
<1>0. StoreTypeOK
  BY DEF DispatchTypeOK
<1> DEFINE Goal ==
           \/ runs'[r] = runs[r]
           \/ Accept(r) \/ Cancel(r)
           \/ \E w \in Workers : Advance(w, r)
<1>1. ASSUME NEW q \in Runs, Accept(q) \/ Cancel(q) PROVE Goal
  BY <1>0, <1>1, ClientWrites
<1>2. ASSUME NEW w \in Workers, NEW q \in Runs, Advance(w, q) PROVE Goal
  BY <1>2, AdvanceWrites, SMTT(30)
<1>3. ASSUME runs' = runs PROVE Goal
  BY <1>3
<1>4. ASSUME NEW w \in Workers, NEW q \in Runs, Call(w, q) \/ Fail(w, q) \/ Engine(w, q),
             ~Advance(w, q)
      PROVE  runs' = runs
  BY <1>4
  DEF Call, Route, GetExecution, RenewForCluster, CreateJob, CreateConflicts, Adopt, FindJob,
      BindExecution, GetBound, Observe, RequestStop, ConfirmStopped, Fail, Engine,
      EngineRenews, EngineCancels, EngineFinishes, EndAttempt, ReleaseClaim, ForgetClaim,
      ExtendLease, storeVars
<1>5. ASSUME NEW q \in Runs, Cluster(q) PROVE runs' = runs
  BY <1>5 DEF Cluster, LateCreate, JobProceeds, PodStarts, Collect, OutsideDelete, storeVars
<1>6. ASSUME NEW w \in Workers, Claim(w) \/ Crash(w) PROVE runs' = runs
  BY <1>6 DEF Claim, ClaimRuns, LeaseBatch, Crash, LoseClaims
<1>7. ASSUME Elapse \/ UNCHANGED dispatchVars PROVE runs' = runs
  BY <1>7 DEF Elapse, Tick, dispatchVars
<1> HIDE DEF Goal
<1>8. Goal
  BY <1>1, <1>2, <1>3, <1>4, <1>5, <1>6, <1>7 DEF DispatchNext, Clients
<1>9. QED BY <1>8 DEF Goal

\* A Run never goes back to the states before its provisioning, and a cancelled one stays
\* cancelled.
LEMMA RunMoves ==
    ASSUME DispatchInv, [DispatchNext]_dispatchVars, NEW r \in Runs
    PROVE  /\ runs'[r].state \in Early => runs[r].state \in Early
           /\ runs[r].state \in {"CANCELLING", "ABORTED"} =>
                runs'[r].state \in {"CANCELLING", "ABORTED"}
<1>1. DispatchTypeOK /\ RevisionIdentifiesSnapshot /\ StoreTypeOK
  BY DEF DispatchInv, DispatchTypeOK
<1>2. ASSUME NEW w \in Workers, Advance(w, r)
      PROVE  /\ runs'[r].state \in Early => runs[r].state \in Early
             /\ runs[r].state \in {"CANCELLING", "ABORTED"} =>
                  runs'[r].state \in {"CANCELLING", "ABORTED"}
  <2>1. att[w][r].pc = "advance"
    BY <1>2 DEF Advance, Calls
  <2>2. State(w, r) = "CANCELLING" => att[w][r].change.state = "ABORTED"
    BY <2>1 DEF DispatchInv, Fits, Claiming
  <2>3. /\ State(w, r) = runs[r].state
        /\ CanTransition(runs[r].state, att[w][r].change.state)
        /\ runs'[r].state = att[w][r].change.state
    BY <1>1, <1>2, AdvanceWrites
  <2>4. QED BY <2>2, <2>3 DEF CanTransition, Early
<1>3. CASE Accept(r) \/ Cancel(r)
  BY <1>1, <1>3, ClientWrites DEF Early, ActiveStates
<1>4. QED BY <1>1, <1>2, <1>3, RunWrites

\* Claims keep following their Run.
LEMMA FollowStep ==
    ASSUME DispatchInv, [DispatchNext]_dispatchVars, NEW w \in Workers, NEW r \in Runs
    PROVE  Following(w, r)'
<1>1. DispatchTypeOK /\ Following(w, r)
  BY DEF DispatchInv
<1>2. CASE claims'[w][r] = claims[w][r]
  BY <1>1, <1>2, RunMoves DEF Following, HasClaim, State
<1>3. CASE claims'[w][r] = NoClaim
  BY <1>3 DEF Following, HasClaim
<1>4. CASE runs' = runs /\ claims'[w][r].state = runs[r].state
  BY <1>4 DEF Following, State
<1>5. QED BY <1>1, <1>2, <1>3, <1>4, MemoryStep

\* A closed Run is not leased again, and what is left of its claims stays harmless.
LEMMA ClosedStep ==
    ASSUME DispatchInv, [DispatchNext]_dispatchVars, NEW r \in Runs,
           runs[r].state \in TerminalStates
    PROVE  \/ leases'[r].expires = 0
           \/ \A w \in Workers : HasClaim(w, r)' => State(w, r)' \in Early
<1>1. DispatchTypeOK /\ StoreTypeOK /\ Situated(r)
  BY DEF DispatchInv, DispatchTypeOK
<1>2. [Next]_storeVars
  BY <1>1, StepUsesStore
<1>3. StoreTypeOK'
  BY <1>1, <1>2, TypeStep
<1>4. leases'[r].expires \in 0..LeaseTTL /\ leases[r].expires \in 0..LeaseTTL
  BY <1>1, <1>3, LeaseTyped DEF StoreTypeOK, LeaseRecords
<1>5. ~Eligible(r)
  BY DEF DispatchInv, Eligible, TerminalStates, ActiveStates
<1>6. CASE leases[r].expires = 0
  <2>1. ~(leases'[r].expires > 0)
    BY <1>1, <1>2, <1>5, <1>6, LeaseStep, SMTT(30)
  <2>2. QED BY <1>4, <2>1, TTLAssumption, SMTT(30)
<1>7. CASE \A w \in Workers : HasClaim(w, r) => State(w, r) \in Early
  BY <1>1, <1>5, <1>7, MemoryStep DEF HasClaim, State
<1>8. QED BY <1>1, <1>6, <1>7 DEF Situated

-----------------------------------------------------------------------------
(* What a step leaves alone *)

\* The cluster may move, but for a live worker it creates nothing: a Job that appears was
\* created late, Jobs keep their identity and stay finished, and new Pods are of the Job.
Quiet(r) ==
    /\ exec'[r] = exec[r] /\ created[r] <= created'[r] /\ late[r] \subseteq late'[r]
    /\ \/ job'[r].uid = NoUid
       \/ /\ job'[r].uid = job[r].uid
          /\ job[r].phase \in Finished => job'[r].phase \in Finished
       \/ job'[r].uid = created[r] + 1 /\ created[r] + 1 \in late'[r]
    /\ pods'[r] \subseteq pods[r] \union ({job[r].uid} \ {NoUid})

\* The cluster and the binding stay as they are.
ClusterSame(r) ==
    /\ exec'[r] = exec[r] /\ job'[r] = job[r] /\ pods'[r] = pods[r]
    /\ created'[r] = created[r] /\ late'[r] = late[r]

\* The attempt and the claim of a worker stay as they are.
AttemptSame(w, r) == att'[w][r] = att[w][r] /\ claims'[w][r] = claims[w][r]

\* Nothing that concerns a Run changes.
Untouched(r) ==
    /\ runs'[r] = runs[r] /\ leases'[r] = leases[r] /\ inflight'[r] = inflight[r]
    /\ ClusterSame(r)
    /\ \A w \in Workers : AttemptSame(w, r)

\* A cluster that does not move is quiet.
LEMMA SameIsQuiet ==
    ASSUME DispatchTypeOK, NEW r \in Runs, ClusterSame(r)
    PROVE  Quiet(r)
BY Typed, SMTT(30) DEF ClusterSame, Quiet

\* Jobs and Pods that are gone stay gone while the cluster is quiet.
LEMMA GoneStays ==
    ASSUME DispatchTypeOK, NEW r \in Runs, Counted(r), Quiet(r)
    PROVE  /\ JobGone(r) => JobGone(r)'
           /\ Gone(r) => Gone(r)'
<1>1. exec[r] \in Nat /\ created[r] \in Nat /\ exec[r] <= created[r]
  BY Typed, SMTT(30) DEF Counted
<1>2. created[r] + 1 # exec[r]
  BY <1>1, SMTT(30)
<1>3. ASSUME JobGone(r) PROVE JobGone(r)'
  BY <1>2, <1>3 DEF JobGone, Quiet
<1>4. ASSUME Gone(r) PROVE Gone(r)'
  <2>1. JobGone(r) /\ JobGone(r)'
    BY <1>3, <1>4 DEF Gone
  <2>2. (exec[r] # NoUid \/ "background" \notin Cascades) => pods'[r] \subseteq late'[r] \ {exec[r]}
    BY <1>4, <2>1 DEF Gone, JobGone, Quiet
  <2>3. QED BY <2>1, <2>2 DEF Gone, Quiet
<1>5. QED BY <1>3, <1>4

\* A bound Job that has finished stays so while the cluster is quiet.
LEMMA CollectedStays ==
    ASSUME DispatchTypeOK, NEW r \in Runs, Counted(r), Quiet(r), Collected(r)
    PROVE  Collected(r)'
<1>1. exec[r] \in Nat /\ created[r] \in Nat /\ exec[r] <= created[r]
  BY Typed, SMTT(30) DEF Counted
<1>2. created[r] + 1 # exec[r]
  BY <1>1, SMTT(30)
<1>3. QED BY <1>2 DEF Collected, Quiet

\* What an attempt knows stays true while the cluster is quiet.
LEMMA KnowingStays ==
    ASSUME DispatchTypeOK, NEW r \in Runs, NEW w \in Workers, NEW a \in Attempts,
           att'[w][r] = a, Counted(r), Quiet(r), created'[r] \in Nat, Knowing(a, r)
    PROVE  Knowing(att[w][r], r)' /\ (Trusting(a, r) => Trusting(att[w][r], r)')
<1>1. exec[r] \in Nat /\ created[r] \in Nat /\ job[r].uid \in Nat
  BY Typed, SMTT(30)
<1>2. a.uid \in Nat
  BY SMTT(30) DEF Attempts
<1>3. a.uid <= created[r] => a.uid <= created'[r]
  BY <1>1, <1>2, SMTT(30) DEF Quiet
<1>4. Knowing(att[w][r], r)'
  BY <1>3, CollectedStays DEF Knowing, Quiet
<1>5. ASSUME Trusting(a, r) PROVE Trusting(att[w][r], r)'
  BY <1>5, GoneStays DEF Trusting, Quiet
<1>6. QED BY <1>4, <1>5

\* An attempt fits after a quiet step when it did before, its claim is the same, and the
\* step has taken neither its time nor given it a lease.
LEMMA FitsStays ==
    ASSUME DispatchTypeOK, NEW r \in Runs, NEW w \in Workers, NEW a \in Attempts,
           att'[w][r] = a, claims'[w][r] = claims[w][r], Counted(r), Quiet(r),
           created'[r] \in Nat, Fits(a, w, r), Holds(w, r)' => Holds(w, r),
           Timely(att[w][r], w, r)'
    PROVE  Fits(att[w][r], w, r)'
<1>1. Knowing(att[w][r], r)' /\ (Trusting(a, r) => Trusting(att[w][r], r)')
  BY KnowingStays DEF Fits
<1>2. Claiming(att[w][r], w, r)'
  BY DEF Fits, Claiming, HasClaim, State
<1>3. QED BY <1>1, <1>2 DEF Fits

\* The same, when the lease does not change either.
LEMMA FitsWithLease ==
    ASSUME DispatchTypeOK, NEW r \in Runs, NEW w \in Workers, NEW a \in Attempts,
           att'[w][r] = a, claims'[w][r] = claims[w][r], Counted(r), Quiet(r),
           created'[r] \in Nat, Fits(a, w, r), leases'[r] = leases[r]
    PROVE  Fits(att[w][r], w, r)'
<1>1. Holds(w, r)' <=> Holds(w, r)
  BY DEF Holds, HasClaim
<1>2. Timely(att[w][r], w, r)'
  BY <1>1 DEF Fits, Timely
<1>3. QED BY <1>1, <1>2, FitsStays

\* What the state of a Run says stays true in quiet steps that do not change the state.
LEMMA SituatedStays ==
    ASSUME DispatchInv, [DispatchNext]_dispatchVars, NEW r \in Runs, Quiet(r),
           runs'[r] = runs[r],
           runs[r].state \in Early => job'[r] = NoJob /\ pods'[r] = {} /\ ~inflight'[r]
    PROVE  Situated(r)'
<1>1. DispatchTypeOK /\ Counted(r) /\ Situated(r)
  BY DEF DispatchInv
<1>2. exec'[r] = exec[r]
  BY DEF Quiet
<1>3. exec'[r] # NoUid => job'[r].uid \in {NoUid, exec'[r]} \union late'[r]
  BY <1>1 DEF Situated, Quiet
<1>4. runs'[r].state = "COLLECTING" => Collected(r)'
  BY <1>1, CollectedStays DEF Situated
<1>5. runs'[r].state = "ABORTED" => Gone(r)'
  BY <1>1, GoneStays DEF Situated
<1>6. runs'[r].state \in Early =>
        job'[r] = NoJob /\ exec'[r] = NoUid /\ pods'[r] = {} /\ ~inflight'[r]
  BY <1>1, <1>2 DEF Situated
<1>7. QED BY <1>3, <1>4, <1>5, <1>6, ClosedStep DEF Situated

\* A Run that a step does not touch stays in order.
LEMMA Undisturbed ==
    ASSUME DispatchInv, [DispatchNext]_dispatchVars, NEW r \in Runs, Untouched(r)
    PROVE  /\ \A w \in Workers : Fits(att[w][r], w, r)'
           /\ Counted(r)' /\ Situated(r)'
<1>1. DispatchTypeOK /\ Counted(r) /\ Situated(r) /\ ClusterSame(r)
  BY DEF DispatchInv, Untouched
<1>2. Quiet(r) /\ created'[r] \in Nat
  BY <1>1, SameIsQuiet, Typed, SMTT(30) DEF ClusterSame
<1>3. ASSUME NEW w \in Workers PROVE Fits(att[w][r], w, r)'
  <2>1. att[w][r] \in Attempts /\ Fits(att[w][r], w, r)
    BY <1>1, Typed DEF DispatchInv
  <2>2. att'[w][r] = att[w][r] /\ claims'[w][r] = claims[w][r] /\ leases'[r] = leases[r]
    BY DEF Untouched, AttemptSame
  <2>3. QED BY <1>1, <1>2, <2>1, <2>2, FitsWithLease
<1>4. Counted(r)'
  BY <1>1 DEF Counted, ClusterSame
<1>5. Situated(r)'
  BY <1>1, <1>2, SituatedStays DEF Situated, ClusterSame, Untouched
<1>6. QED BY <1>3, <1>4, <1>5

\* A step that touches one Run keeps the invariant when that Run stays in order.
LEMMA LocalStep ==
    ASSUME DispatchInv, [DispatchNext]_dispatchVars, DispatchTypeOK', held' = {},
           NEW r \in Runs, \A q \in Runs \ {r} : Untouched(q),
           \A w \in Workers : Fits(att[w][r], w, r)', Counted(r)', Situated(r)'
    PROVE  DispatchInv'
<1>1. StoreTypeOK /\ StoreTypeOK' /\ RevisionIdentifiesSnapshot /\ [Next]_storeVars
  BY StepUsesStore DEF DispatchInv, DispatchTypeOK
<1>2. RevisionIdentifiesSnapshot'
  BY <1>1, SnapshotsStep
<1>3. \A w \in Workers, q \in Runs : Fits(att[w][q], w, q)'
  BY Undisturbed
<1>4. \A q \in Runs : Counted(q)' /\ Situated(q)'
  BY Undisturbed
<1>5. \A w \in Workers, q \in Runs : Following(w, q)'
  BY FollowStep
<1>6. QED BY <1>2, <1>3, <1>4, <1>5 DEF DispatchInv

-----------------------------------------------------------------------------
(* Steps that change nothing but an attempt *)

\* The attempts after one of them has gone on.
LEMMA SetAttempt ==
    ASSUME DispatchTypeOK, NEW w \in Workers, NEW r \in Runs, NEW a \in Attempts,
           Become(w, r, a)
    PROVE  /\ att' \in [Workers -> [Runs -> Attempts]]
           /\ \A v \in Workers, q \in Runs :
                att'[v][q] = IF v = w /\ q = r THEN a ELSE att[v][q]
BY DEF DispatchTypeOK, Become

\* The attempts after one of them has returned. (The end of Reconcile.)
LEMMA SetReturned ==
    ASSUME DispatchTypeOK, NEW w \in Workers, NEW r \in Runs, Returns(w, r)
    PROVE  /\ att' \in [Workers -> [Runs -> Attempts]]
           /\ \A v \in Workers, q \in Runs :
                att'[v][q] = IF v = w /\ q = r THEN At(Idle, "returned") ELSE att[v][q]
BY IdleFields DEF DispatchTypeOK, Become, Returns

\* A step that changes one attempt keeps the invariant when the new attempt fits.
LEMMA AttemptStep ==
    ASSUME DispatchInv, [DispatchNext]_dispatchVars, NEW w \in Workers, NEW r \in Runs,
           NEW a \in Attempts, Become(w, r, a), Fits(a, w, r),
           UNCHANGED <<storeVars, exec, clusterVars>>
    PROVE  DispatchInv'
<1>1. DispatchTypeOK /\ Counted(r) /\ Situated(r) /\ held = {}
  BY DEF DispatchInv
<1>2. /\ att' \in [Workers -> [Runs -> Attempts]]
      /\ \A v \in Workers, q \in Runs :
           att'[v][q] = IF v = w /\ q = r THEN a ELSE att[v][q]
  BY <1>1, SetAttempt, SMTT(30)
<1>3. /\ runs' = runs /\ leases' = leases /\ held' = held /\ claims' = claims /\ exec' = exec
      /\ job' = job /\ pods' = pods /\ created' = created /\ inflight' = inflight
      /\ late' = late
  BY DEF storeVars, clusterVars
<1>4. DispatchTypeOK'
  BY <1>1, <1>2, <1>3 DEF DispatchTypeOK, StoreTypeOK
<1>5. \A q \in Runs \ {r} : Untouched(q)
  BY <1>2, <1>3 DEF Untouched, ClusterSame, AttemptSame
<1>6. Quiet(r) /\ created'[r] \in Nat
  BY <1>1, <1>3, SameIsQuiet, Typed, SMTT(30) DEF ClusterSame
<1>7. ASSUME NEW v \in Workers PROVE Fits(att[v][r], v, r)'
  <2>1. PICK b \in Attempts : b = att'[v][r] /\ Fits(b, v, r)
    BY <1>1, <1>2, Typed DEF DispatchInv
  <2>2. QED BY <1>1, <1>3, <1>6, <2>1, FitsWithLease
<1>8. Counted(r)'
  BY <1>1, <1>3 DEF Counted
<1>9. Situated(r)'
  BY <1>1, <1>3, <1>6, SituatedStays DEF Situated
<1>10. QED BY <1>1, <1>3, <1>4, <1>5, <1>7, <1>8, <1>9, LocalStep

\* What the invariant says of one attempt and of its Run.
LEMMA Facts ==
    ASSUME DispatchInv, NEW w \in Workers, NEW r \in Runs
    PROVE  /\ att[w][r] \in Attempts /\ Fits(att[w][r], w, r) /\ Following(w, r)
           /\ Claiming(att[w][r], w, r) /\ Timely(att[w][r], w, r) /\ Knowing(att[w][r], r)
           /\ Holds(w, r) => Trusting(att[w][r], r)
           /\ DispatchTypeOK /\ Counted(r) /\ Situated(r)
           /\ att[w][r].left \in Nat
<1>1. att[w][r] \in Attempts
  BY Typed DEF DispatchInv
<1>2. att[w][r].left \in Nat
  BY <1>1, TimeoutAssumption, SMTT(30) DEF Attempts
<1>3. QED BY <1>1, <1>2 DEF DispatchInv, Fits

\* An attempt that is over fits as long as its claim is there.
LEMMA ReturnedFits ==
    ASSUME NEW w, NEW r, HasClaim(w, r)
    PROVE  Fits(At(Idle, "returned"), w, r)
BY IdleFields DEF Fits, Claiming, Timely, Knowing, Trusting, Prepared, OnCluster

\* An attempt that acts has a claim.
LEMMA CallerClaims ==
    ASSUME DispatchInv, NEW w \in Workers, NEW r \in Runs, att[w][r].pc # "idle"
    PROVE  HasClaim(w, r)
BY Facts DEF Claiming

\* An attempt that observes or stops a Job has the one that is bound. (GetBoundExecution.)
LEMMA KnowsTheJob ==
    ASSUME DispatchInv, NEW w \in Workers, NEW r \in Runs,
           att[w][r].pc \in {"observe", "stop", "confirm"}
    PROVE  /\ att[w][r] \in Attempts /\ HasClaim(w, r) /\ State(w, r) \notin Early
           /\ att[w][r].uid = exec[r] /\ exec[r] # NoUid
           /\ att[w][r].pc \in {"stop", "confirm"} => State(w, r) = "CANCELLING"
<1>1. att[w][r] \in Attempts /\ Claiming(att[w][r], w, r) /\ Knowing(att[w][r], r)
  BY Facts
<1>2. att[w][r].uid = exec[r] /\ att[w][r].uid # NoUid
  BY <1>1 DEF Knowing
<1>3. exec[r] # NoUid BY <1>2
<1>4. HasClaim(w, r) BY <1>1 DEF Claiming
<1>5. State(w, r) \notin Early BY <1>1 DEF Claiming
<1>6. att[w][r].pc \in {"stop", "confirm"} => State(w, r) = "CANCELLING" BY <1>1 DEF Claiming
<1>7. QED BY <1>1, <1>2, <1>3, <1>4, <1>5, <1>6

\* An attempt that ends and changes nothing keeps the invariant.
LEMMA ReturnStep ==
    ASSUME DispatchInv, [DispatchNext]_dispatchVars, NEW w \in Workers, NEW r \in Runs,
           att[w][r].pc # "idle", Returns(w, r), UNCHANGED <<storeVars, exec, clusterVars>>
    PROVE  DispatchInv'
<1>1. Fits(At(Idle, "returned"), w, r) /\ At(Idle, "returned") \in Attempts
  BY CallerClaims, ReturnedFits, IdleFields
<1>2. QED BY <1>1, AttemptStep DEF Returns

\* An attempt that decides on a change keeps the invariant when the change is justified.
LEMMA DecideStep ==
    ASSUME DispatchInv, [DispatchNext]_dispatchVars, NEW w \in Workers, NEW r \in Runs,
           NEW change \in Changes, att[w][r].pc # "idle", Decide(w, r, change),
           change.state = "ABORTED" <=> State(w, r) = "CANCELLING",
           change.state = "COLLECTING" => Collected(r),
           Holds(w, r) /\ change.state = "ABORTED" => Gone(r),
           UNCHANGED <<storeVars, exec, clusterVars>>
    PROVE  DispatchInv'
<1> DEFINE b == At(att[w][r], "advance")
           a == [b EXCEPT !.change = change]
<1>1. b \in Attempts /\ b.pc = "advance"
  BY Facts, AtFields DEF Points
<1>2. a \in Attempts /\ a.pc = "advance" /\ a.change = change
  BY <1>1, ChangeFields
<1>3. Become(w, r, a)
  BY DEF Decide
<1>4. HasClaim(w, r)
  BY CallerClaims
<1> HIDE DEF a
<1>5. Fits(a, w, r)
  BY <1>2, <1>4 DEF Fits, Claiming, Timely, Knowing, Trusting, Prepared, OnCluster
<1>6. QED BY <1>2, <1>3, <1>5, AttemptStep

\* An attempt that goes to another call keeps the invariant when it fits there.
LEMMA GotoStep ==
    ASSUME DispatchInv, [DispatchNext]_dispatchVars, NEW w \in Workers, NEW r \in Runs,
           NEW pc \in Points, Goto(w, r, pc), Fits(At(att[w][r], pc), w, r),
           UNCHANGED <<storeVars, exec, clusterVars>>
    PROVE  DispatchInv'
<1>1. At(att[w][r], pc) \in Attempts
  BY Facts, AtFields
<1>2. QED BY <1>1, AttemptStep DEF Goto

\* Routing an attempt keeps the invariant.
LEMMA RouteStep ==
    ASSUME DispatchInv, [DispatchNext]_dispatchVars, NEW w \in Workers, NEW r \in Runs,
           Route(w, r)
    PROVE  DispatchInv'
<1>1. /\ att[w][r].pc = "route" /\ att[w][r] \in Attempts /\ HasClaim(w, r)
      /\ UNCHANGED <<storeVars, exec, clusterVars>>
  BY Facts, CallerClaims DEF Route, Calls
<1>2. CASE State(w, r) = "CREATED" /\ Decide(w, r, Change("VALIDATING"))
  <2>1. Change("VALIDATING") \in Changes /\ Change("VALIDATING").state = "VALIDATING"
    BY ChangesTyped DEF States, ActiveStates
  <2>2. QED BY <1>1, <1>2, <2>1, DecideStep
<1>3. ASSUME State(w, r) = "VALIDATING", NEW change \in ValidationOutcomes,
             Decide(w, r, change)
      PROVE  DispatchInv'
  <2>1. change \in Changes /\ change.state \in {"PROVISIONING", "INVALID"}
    BY <1>3, ChangesTyped DEF ValidationOutcomes, States, ActiveStates
  <2>2. QED BY <1>1, <1>3, <2>1, DecideStep
<1>4. CASE /\ State(w, r) \in {"PROVISIONING", "CANCELLING"}
           /\ Become(w, r, Within(att[w][r], AttemptTimeout))
  <2> DEFINE b == At(att[w][r], "getExecution")
             c == [b EXCEPT !.timed = TRUE]
             a == [c EXCEPT !.left = AttemptTimeout]
  <2>1. b \in Attempts /\ b.pc = "getExecution"
    BY <1>1, AtFields, SMTT(30) DEF Points
  <2>2. c \in Attempts /\ c.pc = "getExecution" /\ c.timed
    BY <2>1, TimedFields
  <2>3. AttemptTimeout \in 0..AttemptTimeout
    BY TimeoutAssumption, SMTT(30)
  <2>4. a \in Attempts /\ a.pc = c.pc /\ a.timed = c.timed
    <3> HIDE DEF c
    <3>1. QED BY <2>2, <2>3, LeftFields
  <2>5. Become(w, r, a)
    BY <1>4 DEF Within
  <2> HIDE DEF a
  <2>6. Fits(a, w, r)
    BY <1>1, <1>4, <2>2, <2>4
    DEF Fits, Claiming, Timely, Knowing, Trusting, Prepared, OnCluster, Early
  <2>7. QED BY <1>1, <2>4, <2>5, <2>6, AttemptStep
<1>5. CASE State(w, r) \in {"WARMING_UP", "RUNNING"} /\ Goto(w, r, "getBound")
  <2>1. "getBound" \in Points /\ At(att[w][r], "getBound").pc = "getBound"
    BY <1>1, AtFields DEF Points
  <2>2. Fits(At(att[w][r], "getBound"), w, r)
    BY <1>1, <1>5, <2>1
    DEF Fits, Claiming, Timely, Knowing, Trusting, Prepared, OnCluster, Early
  <2>3. QED BY <1>1, <1>5, <2>1, <2>2, GotoStep
<1>6. CASE Returns(w, r)
  BY <1>1, <1>6, ReturnStep
<1>7. QED BY <1>2, <1>3, <1>4, <1>5, <1>6 DEF Route

\* Reading the binding keeps the invariant.
LEMMA GetExecutionStep ==
    ASSUME DispatchInv, [DispatchNext]_dispatchVars, NEW w \in Workers, NEW r \in Runs,
           GetExecution(w, r)
    PROVE  DispatchInv'
<1>1. /\ att[w][r].pc = "getExecution" /\ att[w][r] \in Attempts /\ HasClaim(w, r)
      /\ State(w, r) \notin Early /\ att[w][r].timed
      /\ UNCHANGED <<storeVars, exec, clusterVars>>
  BY Facts, CallerClaims DEF GetExecution, Calls, Claiming
<1>2. CASE exec[r] = NoUid /\ Goto(w, r, "renew")
  <2>1. "renew" \in Points /\ At(att[w][r], "renew").pc = "renew"
        /\ At(att[w][r], "renew").timed
    BY <1>1, AtFields, SMTT(30) DEF Points
  <2>2. Fits(At(att[w][r], "renew"), w, r)
    BY <1>1, <1>2, <2>1
    DEF Fits, Claiming, Timely, Knowing, Trusting, Prepared, OnCluster, Early
  <2>3. QED BY <1>1, <1>2, <2>1, <2>2, GotoStep
<1>3. CASE Goto(w, r, "getBound")
  <2>1. "getBound" \in Points /\ At(att[w][r], "getBound").pc = "getBound"
    BY <1>1, AtFields DEF Points
  <2>2. Fits(At(att[w][r], "getBound"), w, r)
    BY <1>1, <2>1
    DEF Fits, Claiming, Timely, Knowing, Trusting, Prepared, OnCluster, Early
  <2>3. QED BY <1>1, <1>3, <2>1, <2>2, GotoStep
<1>4. CASE Become(w, r, Unlimited(att[w][r]))
  <2> DEFINE b == At(att[w][r], "getBound")
             c == [b EXCEPT !.timed = FALSE]
             a == [c EXCEPT !.left = 0]
  <2>1. b \in Attempts /\ b.pc = "getBound"
    BY <1>1, AtFields, SMTT(30) DEF Points
  <2>2. c \in Attempts /\ c.pc = "getBound"
    BY <2>1, TimedFields
  <2>3. 0 \in 0..AttemptTimeout
    BY TimeoutAssumption, SMTT(30)
  <2>4. a \in Attempts /\ a.pc = "getBound"
    BY <2>2, <2>3, LeftFields
  <2>5. Become(w, r, a)
    BY <1>4 DEF Unlimited
  <2> HIDE DEF a
  <2>6. Fits(a, w, r)
    BY <1>1, <2>4 DEF Fits, Claiming, Timely, Knowing, Trusting, Prepared, OnCluster
  <2>7. QED BY <1>1, <2>4, <2>5, <2>6, AttemptStep
<1>5. QED BY <1>2, <1>3, <1>4 DEF GetExecution

\* An attempt that is between its renewal and the binding has the lease, and the Run is
\* neither bound nor closed.
LEMMA OnClusterHolds ==
    ASSUME DispatchInv, NEW w \in Workers, NEW r \in Runs, NEW pc \in OnCluster,
           Calls(w, r, pc)
    PROVE  /\ Holds(w, r) /\ HasClaim(w, r) /\ Trusting(att[w][r], r) /\ exec[r] = NoUid
           /\ State(w, r) \notin Early /\ runs[r].state \notin Early \union TerminalStates
           /\ runs[r].state # "COLLECTING"
           /\ att[w][r].pc = pc /\ att[w][r].timed /\ att[w][r].left > 0
<1>1. att[w][r].pc = pc /\ att[w][r].timed /\ att[w][r].left > 0
  BY Facts DEF Calls, Claiming, Prepared, OnCluster
<1>2. Holds(w, r) /\ HasClaim(w, r)
  BY <1>1, Facts DEF Timely, Holds
<1>3. Trusting(att[w][r], r) /\ exec[r] = NoUid
  BY <1>1, <1>2, Facts DEF Trusting, Prepared
<1>4. State(w, r) \notin Early
  BY <1>1, Facts DEF Claiming, OnCluster
<1>5. runs[r].state \notin Early
  BY <1>2, <1>4, Facts DEF Following
<1>6. runs[r].state # "COLLECTING"
  BY <1>3, Facts DEF Situated, Collected
<1>7. leases[r].expires # 0
  BY <1>2, SMTT(30) DEF Holds
<1>8. runs[r].state \notin TerminalStates
  BY <1>2, <1>4, <1>7, Facts DEF Situated
<1>9. QED BY <1>1, <1>2, <1>3, <1>4, <1>5, <1>6, <1>8

\* AlreadyExists keeps the invariant.
LEMMA CreateConflictsStep ==
    ASSUME DispatchInv, [DispatchNext]_dispatchVars, NEW w \in Workers, NEW r \in Runs,
           CreateConflicts(w, r)
    PROVE  DispatchInv'
<1>1. Calls(w, r, "create") /\ Goto(w, r, "adopt") /\ UNCHANGED <<storeVars, exec, clusterVars>>
  BY DEF CreateConflicts
<1>2. /\ Holds(w, r) /\ HasClaim(w, r) /\ exec[r] = NoUid /\ State(w, r) \notin Early
      /\ att[w][r].timed /\ att[w][r].pc = "create" /\ att[w][r].left > 0
  BY <1>1, OnClusterHolds DEF OnCluster
<1>3. "adopt" \in Points /\ At(att[w][r], "adopt").pc = "adopt"
      /\ At(att[w][r], "adopt").timed /\ At(att[w][r], "adopt").left = att[w][r].left
  BY <1>2, Facts, AtFields, SMTT(30) DEF Points
<1>4. Timely(att[w][r], w, r)
  BY Facts
<1>5. Fits(At(att[w][r], "adopt"), w, r)
  BY <1>2, <1>3, <1>4 DEF Fits, Claiming, Timely, Knowing, Trusting, Prepared, OnCluster
<1>6. QED BY <1>1, <1>3, <1>5, GotoStep

\* An attempt that goes on with a UID: what it becomes.
LEMMA GotoWithFields ==
    ASSUME DispatchInv, NEW w \in Workers, NEW r \in Runs, NEW pc \in Points,
           NEW uid \in 0..MaxUid, GotoWith(w, r, pc, uid)
    PROVE  \E a \in Attempts :
             /\ Become(w, r, a)
             /\ a.pc = pc /\ a.uid = uid /\ a.timed = att[w][r].timed
             /\ a.left = att[w][r].left
<1> DEFINE b == At(att[w][r], pc)
           a == [b EXCEPT !.uid = uid]
<1>1. b \in Attempts /\ b.pc = pc /\ b.timed = att[w][r].timed /\ b.left = att[w][r].left
  BY Facts, AtFields
<1>2. /\ a \in Attempts /\ a.pc = pc /\ a.uid = uid /\ a.timed = att[w][r].timed
      /\ a.left = att[w][r].left
  BY <1>1, UidFields
<1>3. Become(w, r, a)
  BY DEF GotoWith
<1>4. QED BY <1>2, <1>3

\* The attempt that has the lease goes on to bind the Job that is there.
LEMMA ToBindStep ==
    ASSUME DispatchInv, [DispatchNext]_dispatchVars, NEW w \in Workers, NEW r \in Runs,
           NEW pc \in OnCluster, Calls(w, r, pc), job[r] # NoJob,
           GotoWith(w, r, "bind", job[r].uid), UNCHANGED <<storeVars, exec, clusterVars>>
    PROVE  DispatchInv'
<1>1. /\ Holds(w, r) /\ HasClaim(w, r) /\ exec[r] = NoUid /\ State(w, r) \notin Early
      /\ att[w][r].timed /\ att[w][r].pc = pc /\ att[w][r].left > 0
  BY OnClusterHolds
<1>2. job[r].uid \in 0..MaxUid /\ job[r].uid # NoUid /\ job[r].uid <= created[r]
  BY Facts, Typed DEF Counted
<1>3. PICK a \in Attempts :
        /\ Become(w, r, a)
        /\ a.pc = "bind" /\ a.uid = job[r].uid /\ a.timed = att[w][r].timed
        /\ a.left = att[w][r].left
  BY <1>2, GotoWithFields, SMTT(30) DEF Points
<1>4. Timely(att[w][r], w, r)
  BY Facts
<1>5. Fits(a, w, r)
  BY <1>1, <1>2, <1>3, <1>4
  DEF Fits, Claiming, Timely, Knowing, Trusting, Prepared, OnCluster
<1>6. QED BY <1>3, <1>5, AttemptStep

\* Adopting the Job of the Run's name keeps the invariant.
LEMMA AdoptStep ==
    ASSUME DispatchInv, [DispatchNext]_dispatchVars, NEW w \in Workers, NEW r \in Runs,
           Adopt(w, r)
    PROVE  DispatchInv'
<1>1. Calls(w, r, "adopt") /\ "adopt" \in OnCluster /\ att[w][r].pc # "idle"
      /\ UNCHANGED <<storeVars, exec, clusterVars>>
  BY DEF Adopt, OnCluster, Calls
<1>2. CASE job[r] # NoJob /\ GotoWith(w, r, "bind", job[r].uid)
  BY <1>1, <1>2, ToBindStep
<1>3. CASE Returns(w, r)
  BY <1>1, <1>3, ReturnStep
<1>4. QED BY <1>2, <1>3 DEF Adopt

\* Without a Job nothing of an unbound Run is left, but Pods of a Job that others have
\* deleted in the background.
LEMMA NothingIsGone ==
    ASSUME DispatchTypeOK, NEW r \in Runs, Counted(r), job[r] = NoJob, exec[r] = NoUid
    PROVE  Gone(r)
<1>1. job[r].uid = NoUid
  BY SMTT(30) DEF NoJob
<1>2. NoUid \notin pods[r]
  BY Typed, SMTT(30) DEF NoUid
<1>3. "background" \notin Cascades => pods[r] = {}
  BY <1>1, <1>2 DEF Counted
<1>4. QED BY <1>1, <1>3 DEF Gone, JobGone

\* Looking for the Job of a cancelled Run keeps the invariant.
LEMMA FindJobStep ==
    ASSUME DispatchInv, [DispatchNext]_dispatchVars, NEW w \in Workers, NEW r \in Runs,
           FindJob(w, r)
    PROVE  DispatchInv'
<1>1. Calls(w, r, "find") /\ "find" \in OnCluster /\ att[w][r].pc = "find"
      /\ UNCHANGED <<storeVars, exec, clusterVars>>
  BY DEF FindJob, OnCluster, Calls
<1>2. CASE job[r] # NoJob /\ GotoWith(w, r, "bind", job[r].uid)
  BY <1>1, <1>2, ToBindStep
<1>3. CASE job[r] = NoJob /\ Decide(w, r, Change("ABORTED"))
  <2>1. Change("ABORTED") \in Changes /\ Change("ABORTED").state = "ABORTED"
    BY ChangesTyped DEF States, TerminalStates
  <2>2. State(w, r) = "CANCELLING"
    BY <1>1, Facts DEF Claiming
  <2>3. Gone(r)
    BY <1>1, <1>3, Facts, OnClusterHolds, NothingIsGone
  <2>4. QED BY <1>1, <1>3, <2>1, <2>2, <2>3, DecideStep
<1>4. QED BY <1>2, <1>3 DEF FindJob

\* Reading the bound execution keeps the invariant.
LEMMA GetBoundStep ==
    ASSUME DispatchInv, [DispatchNext]_dispatchVars, NEW w \in Workers, NEW r \in Runs,
           GetBound(w, r)
    PROVE  DispatchInv'
<1>1. /\ att[w][r].pc = "getBound" /\ HasClaim(w, r) /\ State(w, r) \notin Early
      /\ UNCHANGED <<storeVars, exec, clusterVars>>
  BY Facts, CallerClaims DEF GetBound, Calls, Claiming
<1>2. CASE exec[r] # NoUid /\ GotoWith(w, r, "observe", exec[r])
  <2>1. exec[r] \in 0..MaxUid /\ "observe" \in Points
    BY Facts, Typed DEF Points
  <2>2. PICK a \in Attempts : Become(w, r, a) /\ a.pc = "observe" /\ a.uid = exec[r]
    BY <1>2, <2>1, GotoWithFields, SMTT(30)
  <2>3. Fits(a, w, r)
    BY <1>1, <1>2, <2>2 DEF Fits, Claiming, Timely, Knowing, Trusting, Prepared, OnCluster
  <2>4. QED BY <1>1, <2>2, <2>3, AttemptStep
<1>3. CASE Returns(w, r)
  BY <1>1, <1>3, ReturnStep
<1>4. QED BY <1>2, <1>3 DEF GetBound

\* What a Job shows: it goes on to collection only when it has finished.
LEMMA DecisionJustified ==
    ASSUME DispatchTypeOK, NEW w, NEW r \in Runs, NEW change \in Advances(State(w, r), job[r]),
           ~Replaced(w, r), att[w][r].uid = exec[r], exec[r] # NoUid
    PROVE  /\ change \in Changes /\ change.state # "ABORTED"
           /\ change.state = "COLLECTING" => Collected(r)
<1>1. /\ Change("RUNNING") \in Changes /\ Change("RUNNING").state = "RUNNING"
      /\ Change("COLLECTING") \in Changes /\ Change("COLLECTING").state = "COLLECTING"
      /\ InfrastructureFailure \in Changes
      /\ InfrastructureFailure.state = "INFRASTRUCTURE_FAILURE"
  BY ChangesTyped DEF States, ActiveStates
<1>2. \/ change = InfrastructureFailure
      \/ change = Change("RUNNING")
      \/ change = Change("COLLECTING") /\ job[r].phase \in Finished
  BY DEF Advances
<1>3. QED BY <1>1, <1>2 DEF Collected

\* Observing the bound Job keeps the invariant.
LEMMA ObserveStep ==
    ASSUME DispatchInv, [DispatchNext]_dispatchVars, NEW w \in Workers, NEW r \in Runs,
           Observe(w, r)
    PROVE  DispatchInv'
<1>1. /\ att[w][r].pc = "observe" /\ att[w][r] \in Attempts /\ HasClaim(w, r)
      /\ State(w, r) \notin Early /\ att[w][r].uid = exec[r] /\ exec[r] # NoUid
      /\ UNCHANGED <<storeVars, exec, clusterVars>>
  <2>1. att[w][r].pc = "observe" /\ UNCHANGED <<storeVars, exec, clusterVars>>
    BY DEF Observe, Calls
  <2>2. QED BY <2>1, KnowsTheJob
<1>2. ASSUME NEW pc \in {"observe", "stop", "confirm"}, Goto(w, r, pc),
             State(w, r) = "CANCELLING", pc = "confirm" => job[r] = NoJob
      PROVE  DispatchInv'
  <2>1. pc \in Points /\ At(att[w][r], pc).pc = pc /\ At(att[w][r], pc).uid = exec[r]
    BY <1>1, <1>2, AtFields, SMTT(30) DEF Points
  <2>2. pc = "confirm" => JobGone(r)
    BY <1>2, SMTT(30) DEF JobGone, NoJob
  <2>3. Fits(At(att[w][r], pc), w, r)
    BY <1>1, <1>2, <2>1, <2>2
    DEF Fits, Claiming, Timely, Knowing, Trusting, Prepared, OnCluster
  <2>4. QED BY <1>1, <1>2, <2>1, <2>3, GotoStep
<1>3. ASSUME State(w, r) # "CANCELLING", ~Replaced(w, r),
             NEW change \in Advances(State(w, r), job[r]), Decide(w, r, change)
      PROVE  DispatchInv'
  <2>1. /\ change \in Changes /\ change.state # "ABORTED"
        /\ change.state = "COLLECTING" => Collected(r)
    BY <1>1, <1>3, Facts, DecisionJustified
  <2>2. QED BY <1>1, <1>3, <2>1, DecideStep
<1>4. CASE Returns(w, r)
  BY <1>1, <1>4, ReturnStep
<1>5. QED BY <1>2, <1>3, <1>4 DEF Observe

\* Looking for the Pods of a Job that is gone keeps the invariant.
LEMMA ConfirmStep ==
    ASSUME DispatchInv, [DispatchNext]_dispatchVars, NEW w \in Workers, NEW r \in Runs,
           ConfirmStopped(w, r)
    PROVE  DispatchInv'
<1>1. /\ att[w][r].pc = "confirm" /\ att[w][r] \in Attempts /\ HasClaim(w, r)
      /\ State(w, r) = "CANCELLING" /\ att[w][r].uid = exec[r] /\ exec[r] # NoUid
      /\ UNCHANGED <<storeVars, exec, clusterVars>>
  <2>1. att[w][r].pc = "confirm" /\ UNCHANGED <<storeVars, exec, clusterVars>>
    BY DEF ConfirmStopped, Calls
  <2>2. att[w][r] \in Attempts /\ HasClaim(w, r)
    BY <2>1, Facts, CallerClaims
  <2>3. State(w, r) = "CANCELLING"
    BY <2>1, Facts DEF Claiming
  <2>4. att[w][r].uid = exec[r] /\ exec[r] # NoUid
    BY <2>1, Facts DEF Knowing
  <2>5. QED BY <2>1, <2>2, <2>3, <2>4
<1>2. CASE pods[r] = {} /\ Decide(w, r, Change("ABORTED"))
  <2>1. Change("ABORTED") \in Changes /\ Change("ABORTED").state = "ABORTED"
    BY ChangesTyped DEF States, TerminalStates
  <2>2. Holds(w, r) => Gone(r)
    BY <1>1, <1>2, Facts DEF Trusting, Gone
  <2>3. QED BY <1>1, <1>2, <2>1, <2>2, DecideStep
<1>3. CASE Goto(w, r, "observe")
  <2>1. "observe" \in Points /\ At(att[w][r], "observe").pc = "observe"
        /\ At(att[w][r], "observe").uid = exec[r]
    BY <1>1, AtFields, SMTT(30) DEF Points
  <2>2. Fits(At(att[w][r], "observe"), w, r)
    BY <1>1, <2>1 DEF Fits, Claiming, Timely, Knowing, Trusting, Prepared, OnCluster, Early
  <2>3. QED BY <1>1, <1>3, <2>1, <2>2, GotoStep
<1>4. CASE Returns(w, r)
  BY <1>1, <1>4, ReturnStep
<1>5. QED BY <1>2, <1>3, <1>4 DEF ConfirmStopped

\* An attempt whose context is cancelled, or stays alive, fits as before.
LEMMA LiveFits ==
    ASSUME DispatchInv, NEW w \in Workers, NEW r \in Runs, NEW b \in BOOLEAN
    PROVE  /\ [att[w][r] EXCEPT !.live = b] \in Attempts
           /\ Fits([att[w][r] EXCEPT !.live = b], w, r)
<1> DEFINE a == [att[w][r] EXCEPT !.live = b]
<1>1. /\ a \in Attempts /\ a.pc = att[w][r].pc /\ a.uid = att[w][r].uid
      /\ a.timed = att[w][r].timed /\ a.left = att[w][r].left /\ a.change = att[w][r].change
  BY Facts, LiveFields
<1>2. Fits(att[w][r], w, r)
  BY Facts
<1> HIDE DEF a
<1>3. Claiming(a, w, r)
  BY <1>1, <1>2 DEF Fits, Claiming
<1>4. Timely(a, w, r)
  BY <1>1, <1>2 DEF Fits, Timely
<1>5. Knowing(a, r)
  BY <1>1, <1>2 DEF Fits, Knowing
<1>6. Holds(w, r) => Trusting(a, r)
  BY <1>1, <1>2 DEF Fits, Trusting
<1>7. QED BY <1>1, <1>3, <1>4, <1>5, <1>6 DEF a, Fits

\* Cancelling the context of an attempt keeps the invariant.
LEMMA EngineCancelsStep ==
    ASSUME DispatchInv, [DispatchNext]_dispatchVars, NEW w \in Workers, NEW r \in Runs,
           EngineCancels(w, r)
    PROVE  DispatchInv'
BY LiveFits, AttemptStep DEF EngineCancels

-----------------------------------------------------------------------------
(* Steps of the cluster *)

\* A step that leaves the store alone keeps the invariant when the cluster is quiet and
\* the attempts of the Run fit, as they were or as they have become.
LEMMA QuietStep ==
    ASSUME DispatchInv, [DispatchNext]_dispatchVars, NEW r \in Runs, DispatchTypeOK',
           UNCHANGED storeVars, \A q \in Runs \ {r} : Untouched(q),
           Quiet(r), Counted(r)',
           runs[r].state \in Early => job'[r] = NoJob /\ pods'[r] = {} /\ ~inflight'[r],
           \A w \in Workers : \E a \in Attempts : att'[w][r] = a /\ Fits(a, w, r)
    PROVE  DispatchInv'
<1>1. DispatchTypeOK /\ Counted(r) /\ held = {}
  BY DEF DispatchInv
<1>2. runs' = runs /\ leases' = leases /\ held' = held /\ claims' = claims
  BY DEF storeVars
<1>3. created'[r] \in Nat
  BY SMTT(30) DEF DispatchTypeOK
<1>4. ASSUME NEW w \in Workers PROVE Fits(att[w][r], w, r)'
  <2>1. PICK a \in Attempts : att'[w][r] = a /\ Fits(a, w, r)
    BY SMTT(30)
  <2>2. QED BY <1>1, <1>2, <1>3, <2>1, FitsWithLease
<1>5. Situated(r)'
  BY <1>2, SituatedStays
<1>6. QED BY <1>1, <1>2, <1>4, <1>5, LocalStep

\* A call that fails keeps the invariant, also when its create is still under way.
LEMMA FailStep ==
    ASSUME DispatchInv, [DispatchNext]_dispatchVars, NEW w \in Workers, NEW r \in Runs,
           Fail(w, r)
    PROVE  DispatchInv'
<1> DEFINE a == At(Idle, "returned")
           f == inflight[r] \/ (LateCreates /\ att[w][r].pc = "create")
<1>1. DispatchTypeOK /\ Counted(r) /\ Situated(r)
  BY DEF DispatchInv
<1>2. a \in Attempts /\ Become(w, r, a) /\ Fits(a, w, r)
  BY CallerClaims, ReturnedFits, IdleFields DEF Fail, Returns
<1>3. /\ runs' = runs /\ leases' = leases /\ held' = held /\ claims' = claims /\ exec' = exec
      /\ job' = job /\ pods' = pods /\ created' = created /\ late' = late
      /\ inflight' = [inflight EXCEPT ![r] = f]
  BY DEF Fail, storeVars
<1> HIDE DEF a, f
<1>4. /\ att' \in [Workers -> [Runs -> Attempts]]
      /\ \A v \in Workers, q \in Runs :
           att'[v][q] = IF v = w /\ q = r THEN a ELSE att[v][q]
  BY <1>1, <1>2, SetAttempt, SMTT(30)
<1>5. f \in BOOLEAN
  BY DEF f
<1>6. /\ inflight' \in [Runs -> BOOLEAN] /\ inflight'[r] = f
      /\ \A q \in Runs \ {r} : inflight'[q] = inflight[q]
  BY <1>1, <1>3, <1>5 DEF DispatchTypeOK
<1>7. DispatchTypeOK'
  BY <1>1, <1>3, <1>4, <1>6 DEF DispatchTypeOK, StoreTypeOK
<1>8. \A q \in Runs \ {r} : Untouched(q)
  BY <1>3, <1>4, <1>6, SMTT(30) DEF Untouched, ClusterSame, AttemptSame
<1>9. Quiet(r) /\ Counted(r)'
  BY <1>1, <1>3, SameIsQuiet DEF ClusterSame, Counted
<1>10. ASSUME runs[r].state \in Early PROVE job'[r] = NoJob /\ pods'[r] = {} /\ ~inflight'[r]
  <2>1. att[w][r].pc # "create"
    BY <1>10, Facts, CallerClaims DEF Following, Claiming
  <2>2. ~inflight[r] /\ job[r] = NoJob /\ pods[r] = {}
    BY <1>1, <1>10 DEF Situated
  <2>3. QED BY <1>3, <1>6, <2>1, <2>2 DEF f
<1>11. \A v \in Workers : \E b \in Attempts : att'[v][r] = b /\ Fits(b, v, r)
  BY <1>2, <1>4, Facts
<1>12. UNCHANGED storeVars
  BY <1>3 DEF storeVars
<1>13. QED BY <1>7, <1>8, <1>9, <1>10, <1>11, <1>12, QuietStep

\* A Job that is being deleted keeps its identity and its phase.
LEMMA DeletingFields ==
    ASSUME NEW j \in Jobs
    PROVE  /\ [j EXCEPT !.deleting = TRUE] \in Jobs
           /\ [j EXCEPT !.deleting = TRUE].uid = j.uid
           /\ [j EXCEPT !.deleting = TRUE].phase = j.phase
BY DEF Jobs

\* A Job that proceeds keeps its identity.
LEMMA PhaseFields ==
    ASSUME NEW j \in Jobs, NEW phase \in {"running"} \union Finished
    PROVE  /\ [j EXCEPT !.phase = phase] \in Jobs
           /\ [j EXCEPT !.phase = phase].uid = j.uid
           /\ [j EXCEPT !.phase = phase].deleting = j.deleting
BY DEF Jobs

\* A Job that has just been created, and the place of a Job that is gone.
LEMMA JobFields ==
    /\ NoJob \in Jobs /\ NoJob.uid = NoUid /\ NoJob.phase = "absent" /\ ~NoJob.deleting
    /\ \A uid \in 0..MaxUid :
         /\ [uid |-> uid, phase |-> "pending", deleting |-> FALSE] \in Jobs
         /\ [uid |-> uid, phase |-> "pending", deleting |-> FALSE].uid = uid
         /\ ~[uid |-> uid, phase |-> "pending", deleting |-> FALSE].deleting
BY UidAssumption, SMTT(30) DEF NoJob, NoUid, Jobs

\* The Jobs after one of them has changed.
LEMMA SetJob ==
    ASSUME DispatchTypeOK, NEW r \in Runs, NEW j \in Jobs, job' = [job EXCEPT ![r] = j]
    PROVE  /\ job' \in [Runs -> Jobs] /\ job'[r] = j
           /\ \A q \in Runs \ {r} : job'[q] = job[q]
BY DEF DispatchTypeOK

\* Asking for the bound Job to be deleted keeps the invariant.
LEMMA RequestStopStep ==
    ASSUME DispatchInv, [DispatchNext]_dispatchVars, NEW w \in Workers, NEW r \in Runs,
           RequestStop(w, r)
    PROVE  DispatchInv'
<1>1. DispatchTypeOK /\ Counted(r) /\ Situated(r) /\ job[r] \in Jobs
  BY Typed DEF DispatchInv
<1>2. /\ att[w][r].pc = "stop" /\ att[w][r] \in Attempts /\ HasClaim(w, r)
      /\ State(w, r) = "CANCELLING" /\ att[w][r].uid = exec[r] /\ exec[r] # NoUid
  <2>1. att[w][r].pc = "stop"
    BY DEF RequestStop, Calls
  <2>2. QED BY <2>1, KnowsTheJob
<1>3. /\ runs' = runs /\ leases' = leases /\ held' = held /\ claims' = claims /\ exec' = exec
      /\ pods' = pods /\ created' = created /\ late' = late /\ inflight' = inflight
  BY DEF RequestStop, storeVars
<1>4. runs[r].state \notin Early
  BY <1>1, <1>2 DEF Situated
<1>5. /\ job' \in [Runs -> Jobs] /\ \A q \in Runs \ {r} : job'[q] = job[q]
      /\ job'[r].uid = job[r].uid /\ job'[r].phase = job[r].phase
      /\ job[r].uid = NoUid => job'[r] = job[r]
  <2>1. CASE Deleted(r) /\ job[r].uid = att[w][r].uid
    BY <1>1, <1>2, <2>1, SetJob, DeletingFields DEF Deleted
  <2>2. CASE UNCHANGED job
    BY <1>1, <2>2 DEF DispatchTypeOK
  <2>3. QED BY <2>1, <2>2 DEF RequestStop
<1>6. \E a \in Attempts : Become(w, r, a) /\ Fits(a, w, r)
  <2>1. CASE Returns(w, r)
    BY <1>2, <2>1, ReturnedFits, IdleFields DEF Returns
  <2>2. CASE HasStopped(w, r)
    <3> DEFINE b == At(att[w][r], "observe")
               a == [b EXCEPT !.stopped = TRUE]
    <3>1. b \in Attempts /\ b.pc = "observe" /\ b.uid = exec[r]
      BY <1>2, AtFields, SMTT(30) DEF Points
    <3>2. a \in Attempts /\ a.pc = "observe" /\ a.uid = exec[r]
      BY <3>1, StoppedFields
    <3>3. Become(w, r, a)
      BY <2>2 DEF HasStopped
    <3> HIDE DEF a
    <3>4. Fits(a, w, r)
      BY <1>2, <3>2
      DEF Fits, Claiming, Timely, Knowing, Trusting, Prepared, OnCluster, Early
    <3>5. QED BY <3>2, <3>3, <3>4
  <2>3. QED BY <2>1, <2>2 DEF RequestStop
<1>7. PICK a \in Attempts : Become(w, r, a) /\ Fits(a, w, r)
  BY <1>6
<1>8. /\ att' \in [Workers -> [Runs -> Attempts]]
      /\ \A v \in Workers, q \in Runs :
           att'[v][q] = IF v = w /\ q = r THEN a ELSE att[v][q]
  BY <1>1, <1>7, SetAttempt, SMTT(30)
<1>9. DispatchTypeOK'
  BY <1>1, <1>3, <1>5, <1>8 DEF DispatchTypeOK, StoreTypeOK
<1>10. \A q \in Runs \ {r} : Untouched(q)
  BY <1>3, <1>5, <1>8 DEF Untouched, ClusterSame, AttemptSame
<1>11. Quiet(r)
  BY <1>1, <1>3, <1>5, Typed, SMTT(30) DEF Quiet
<1>12. Counted(r)'
  BY <1>1, <1>3, <1>5 DEF Counted
<1>13. \A v \in Workers : \E b \in Attempts : att'[v][r] = b /\ Fits(b, v, r)
  BY <1>7, <1>8, Facts
<1>14. UNCHANGED storeVars
  BY <1>3 DEF storeVars
<1>15. QED BY <1>4, <1>9, <1>10, <1>11, <1>12, <1>13, <1>14, QuietStep

\* A step of the cluster for one Run, as the lemmas below describe it.
ClusterMoves(r) ==
    /\ job' \in [Runs -> Jobs] /\ pods' \in [Runs -> SUBSET (1..MaxUid)]
    /\ created' \in [Runs -> 0..MaxUid] /\ inflight' \in [Runs -> BOOLEAN]
    /\ late' \in [Runs -> SUBSET (1..MaxUid)]
    /\ \A q \in Runs \ {r} :
         /\ job'[q] = job[q] /\ pods'[q] = pods[q] /\ created'[q] = created[q]
         /\ inflight'[q] = inflight[q] /\ late'[q] = late[q]

\* A quiet step of the cluster keeps the invariant.
LEMMA ClusterMovesStep ==
    ASSUME DispatchInv, [DispatchNext]_dispatchVars, NEW r \in Runs, ClusterMoves(r),
           UNCHANGED <<storeVars, att, exec>>, Quiet(r), Counted(r)',
           runs[r].state \notin Early
    PROVE  DispatchInv'
<1>1. runs' = runs /\ leases' = leases /\ held' = held /\ claims' = claims /\ exec' = exec
      /\ att' = att
  BY DEF storeVars
<1>2. DispatchTypeOK'
  BY <1>1 DEF DispatchInv, DispatchTypeOK, StoreTypeOK, ClusterMoves
<1>3. \A q \in Runs \ {r} : Untouched(q)
  BY <1>1 DEF Untouched, ClusterSame, AttemptSame, ClusterMoves
<1>4. \A v \in Workers : \E b \in Attempts : att'[v][r] = b /\ Fits(b, v, r)
  BY <1>1, Facts
<1>5. QED BY <1>2, <1>3, <1>4, QuietStep

\* The tables of the cluster and what the invariant says of one Run's part of them.
LEMMA ClusterFacts ==
    ASSUME DispatchInv, NEW r \in Runs
    PROVE  /\ DispatchTypeOK /\ Counted(r) /\ Situated(r)
           /\ job \in [Runs -> Jobs] /\ pods \in [Runs -> SUBSET (1..MaxUid)]
           /\ created \in [Runs -> 0..MaxUid] /\ inflight \in [Runs -> BOOLEAN]
           /\ late \in [Runs -> SUBSET (1..MaxUid)]
           /\ job[r] \in Jobs /\ job[r].uid \in Nat /\ created[r] \in Nat /\ exec[r] \in Nat
           /\ pods[r] \subseteq 1..MaxUid /\ late[r] \subseteq 1..MaxUid
BY Typed, SMTT(30) DEF DispatchInv, DispatchTypeOK

\* A new Job has the next UID; others are left alone.
LEMMA NewJobFields ==
    ASSUME DispatchInv, NEW r \in Runs, NewJob(r)
    PROVE  /\ job[r] = NoJob /\ job[r].uid = NoUid /\ created[r] + 1 \in 1..MaxUid
           /\ job' \in [Runs -> Jobs] /\ created' \in [Runs -> 0..MaxUid]
           /\ job'[r].uid = created[r] + 1 /\ created'[r] = created[r] + 1
           /\ ~job'[r].deleting
           /\ \A q \in Runs \ {r} : job'[q] = job[q] /\ created'[q] = created[q]
<1>1. job[r] = NoJob /\ job[r].uid = NoUid
  BY JobFields DEF NewJob
<1>2. created[r] \in 0..MaxUid /\ created[r] < MaxUid
  BY ClusterFacts, Typed DEF NewJob
<1>3. created[r] + 1 \in 1..MaxUid /\ created[r] + 1 \in 0..MaxUid
  BY <1>2, UidAssumption, SMTT(30)
<1>4. PICK j \in Jobs : /\ j.uid = created[r] + 1 /\ ~j.deleting
                        /\ job' = [job EXCEPT ![r] = j]
  BY <1>3, JobFields DEF NewJob
<1>5. /\ job' \in [Runs -> Jobs] /\ job'[r] = j
      /\ \A q \in Runs \ {r} : job'[q] = job[q]
  BY <1>4, ClusterFacts, SetJob
<1>6. /\ created' \in [Runs -> 0..MaxUid] /\ created'[r] = created[r] + 1
      /\ \A q \in Runs \ {r} : created'[q] = created[q]
  BY <1>3, ClusterFacts DEF NewJob
<1>7. QED BY <1>1, <1>3, <1>4, <1>5, <1>6

\* When a Job is created the Pods of others are already counted.
LEMMA NewJobCounted ==
    ASSUME DispatchInv, NEW r \in Runs, NewJob(r), exec'[r] = exec[r], pods'[r] = pods[r]
    PROVE  Counted(r)'
<1>1. /\ job[r].uid = NoUid /\ job'[r].uid = created[r] + 1 /\ created'[r] = created[r] + 1
      /\ created[r] \in Nat /\ exec[r] \in Nat
  BY NewJobFields, ClusterFacts
<1>2. Counted(r) /\ pods[r] \subseteq 1..MaxUid
  BY ClusterFacts
<1>3. exec'[r] <= created'[r] /\ job'[r].uid <= created'[r] /\ job'[r].uid # NoUid
  BY <1>1, <1>2, SMTT(30) DEF Counted, NoUid
<1>4. pods'[r] \subseteq 1..created'[r]
  <2>1. 1..created[r] \subseteq 1..(created[r] + 1)
    BY <1>1, SMTT(30)
  <2>2. QED BY <1>1, <1>2, <2>1 DEF Counted
<1>5. "background" \notin Cascades => pods[r] = {}
  <2>1. NoUid \notin pods[r]
    BY <1>2, SMTT(30) DEF NoUid
  <2>2. QED BY <1>1, <1>2, <2>1 DEF Counted
<1>6. QED BY <1>3, <1>4, <1>5 DEF Counted

\* A create that is executed late keeps the invariant.
LEMMA LateCreateStep ==
    ASSUME DispatchInv, [DispatchNext]_dispatchVars, NEW r \in Runs, LateCreate(r)
    PROVE  DispatchInv'
<1>1. /\ UNCHANGED <<storeVars, att, exec>> /\ pods' = pods /\ exec' = exec
      /\ inflight' = [inflight EXCEPT ![r] = FALSE] /\ inflight[r]
  BY DEF LateCreate
<1>2. runs[r].state \notin Early
  BY <1>1, ClusterFacts DEF Situated
<1>3. CASE NewJob(r) /\ late' = [late EXCEPT ![r] = late[r] \union {created[r] + 1}]
  <2>1. /\ created[r] + 1 \in 1..MaxUid /\ job' \in [Runs -> Jobs]
        /\ created' \in [Runs -> 0..MaxUid]
        /\ job'[r].uid = created[r] + 1 /\ created'[r] = created[r] + 1
        /\ \A q \in Runs \ {r} : job'[q] = job[q] /\ created'[q] = created[q]
    BY <1>3, NewJobFields
  <2>2. /\ late' \in [Runs -> SUBSET (1..MaxUid)] /\ late'[r] = late[r] \union {created[r] + 1}
        /\ \A q \in Runs \ {r} : late'[q] = late[q]
    BY <1>3, <2>1, ClusterFacts
  <2>3. ClusterMoves(r)
    BY <1>1, <2>1, <2>2, ClusterFacts DEF ClusterMoves
  <2>4. Quiet(r)
    BY <1>1, <2>1, <2>2, ClusterFacts, SMTT(30) DEF Quiet
  <2>5. Counted(r)'
    BY <1>1, <1>3, NewJobCounted
  <2>6. QED BY <1>1, <1>2, <2>3, <2>4, <2>5, ClusterMovesStep
<1>4. CASE UNCHANGED <<job, created, late>>
  <2>1. ClusterMoves(r)
    BY <1>1, <1>4, ClusterFacts DEF ClusterMoves
  <2>2. Quiet(r) /\ Counted(r)'
    BY <1>1, <1>4, ClusterFacts, SMTT(30) DEF Quiet, Counted
  <2>3. QED BY <1>1, <1>2, <2>1, <2>2, ClusterMovesStep
<1>5. QED BY <1>3, <1>4 DEF LateCreate

\* A Job that changes and keeps its identity, or goes, keeps the invariant.
LEMMA JobMovesStep ==
    ASSUME DispatchInv, [DispatchNext]_dispatchVars, NEW r \in Runs, NEW j \in Jobs,
           job[r] # NoJob, job' = [job EXCEPT ![r] = j],
           UNCHANGED <<storeVars, att, exec, pods, created, inflight, late>>,
           \/ j.uid = job[r].uid /\ (job[r].phase \in Finished => j.phase \in Finished)
           \/ j = NoJob /\ ("background" \in Cascades \/ job[r].uid \notin pods[r])
    PROVE  DispatchInv'
<1>1. /\ job' \in [Runs -> Jobs] /\ job'[r] = j
      /\ \A q \in Runs \ {r} : job'[q] = job[q]
  BY ClusterFacts, SetJob
<1>2. runs[r].state \notin Early
  BY ClusterFacts DEF Situated
<1>3. ClusterMoves(r)
  BY <1>1, ClusterFacts DEF ClusterMoves
<1>4. Quiet(r)
  BY <1>1, ClusterFacts, JobFields, SMTT(30) DEF Quiet
<1>5. Counted(r)'
  <2>1. j.uid <= created[r] /\ (j.uid = NoUid => j = NoJob)
    BY ClusterFacts, JobFields, SMTT(30) DEF Counted, NoUid
  <2>2. "background" \notin Cascades => pods[r] \subseteq {j.uid}
    BY ClusterFacts DEF Counted
  <2>3. QED BY <1>1, <2>1, <2>2, ClusterFacts DEF Counted
<1>6. QED BY <1>2, <1>3, <1>4, <1>5, ClusterMovesStep

\* Pods that come or go keep the invariant.
LEMMA PodsMoveStep ==
    ASSUME DispatchInv, [DispatchNext]_dispatchVars, NEW r \in Runs, NEW p,
           pods' = [pods EXCEPT ![r] = p], p \subseteq pods[r] \union ({job[r].uid} \ {NoUid}),
           UNCHANGED <<storeVars, att, exec, job, created, inflight, late>>,
           runs[r].state \notin Early
    PROVE  DispatchInv'
<1>1. {job[r].uid} \ {NoUid} \subseteq 1..created[r]
  BY ClusterFacts, SMTT(30) DEF Counted, NoUid
<1>2. p \subseteq 1..created[r] /\ p \subseteq 1..MaxUid
  <2>1. p \subseteq 1..created[r]
    BY <1>1, ClusterFacts DEF Counted
  <2>2. created[r] \in 0..MaxUid
    BY ClusterFacts
  <2>3. 1..created[r] \subseteq 1..MaxUid
    BY <2>2, UidAssumption, SMTT(30)
  <2>4. QED BY <2>1, <2>3
<1>3. ClusterMoves(r) /\ pods'[r] = p
  BY <1>2, ClusterFacts DEF ClusterMoves
<1>4. Quiet(r)
  BY <1>3, ClusterFacts, SMTT(30) DEF Quiet
<1>5. Counted(r)'
  BY <1>2, <1>3, ClusterFacts DEF Counted
<1>6. QED BY <1>3, <1>4, <1>5, ClusterMovesStep

\* Every step of the cluster keeps the invariant.
LEMMA ClusterStep ==
    ASSUME DispatchInv, [DispatchNext]_dispatchVars, NEW r \in Runs, Cluster(r)
    PROVE  DispatchInv'
<1>0. job[r] \in Jobs
  BY ClusterFacts
<1>1. CASE LateCreate(r)
  BY <1>1, LateCreateStep
<1>2. CASE JobProceeds(r)
  <2>1. PICK phase \in {"running"} \union Finished :
          /\ job' = [job EXCEPT ![r] = [job[r] EXCEPT !.phase = phase]]
          /\ job[r].phase \in {"pending", "running"}
    BY <1>2 DEF JobProceeds
  <2>2. job[r] # NoJob /\ job[r].phase \notin Finished
    BY <2>1, JobFields DEF Finished
  <2>3. PICK j \in Jobs : j = [job[r] EXCEPT !.phase = phase] /\ j.uid = job[r].uid
    BY <1>0, PhaseFields
  <2>4. QED BY <1>2, <2>1, <2>2, <2>3, JobMovesStep DEF JobProceeds
<1>3. CASE PodStarts(r)
  <2>1. job[r] # NoJob
    BY <1>3, JobFields DEF PodStarts
  <2>2. job[r].uid # NoUid /\ runs[r].state \notin Early
    BY <2>1, ClusterFacts DEF Counted, Situated
  <2>3. QED BY <1>3, <2>2, PodsMoveStep DEF PodStarts
<1>4. CASE Collect(r)
  <2>1. ASSUME NEW uid \in pods[r], pods' = [pods EXCEPT ![r] = pods[r] \ {uid}], UNCHANGED job
        PROVE  DispatchInv'
    <3>1. runs[r].state \notin Early
      BY <2>1, ClusterFacts DEF Situated
    <3>2. UNCHANGED <<storeVars, att, exec, job, created, inflight, late>>
      BY <1>4, <2>1 DEF Collect
    <3>3. pods[r] \ {uid} \subseteq pods[r] \union ({job[r].uid} \ {NoUid})
      BY SMTT(30)
    <3>4. QED BY <2>1, <3>1, <3>2, <3>3, PodsMoveStep
  <2>2. ASSUME job[r].deleting, job[r].uid \notin pods[r], job' = [job EXCEPT ![r] = NoJob],
               UNCHANGED pods
        PROVE  DispatchInv'
    <3>1. job[r] # NoJob /\ NoJob \in Jobs
      BY <2>2, JobFields
    <3>2. UNCHANGED <<storeVars, att, exec, pods, created, inflight, late>>
      BY <1>4, <2>2 DEF Collect
    <3>3. QED BY <2>2, <3>1, <3>2, JobMovesStep
  <2>3. QED BY <1>4, <2>1, <2>2 DEF Collect
<1>5. CASE OutsideDelete(r)
  <2>1. job[r] # NoJob /\ UNCHANGED <<storeVars, att, exec, pods, created, inflight, late>>
    BY <1>5 DEF OutsideDelete
  <2>2. CASE Deleted(r)
    <3>1. PICK j \in Jobs : /\ j = [job[r] EXCEPT !.deleting = TRUE] /\ j.uid = job[r].uid
                            /\ j.phase = job[r].phase
      BY <1>0, DeletingFields
    <3>2. QED BY <2>1, <2>2, <3>1, JobMovesStep DEF Deleted
  <2>3. CASE "background" \in Cascades /\ job' = [job EXCEPT ![r] = NoJob]
    BY <2>1, <2>3, JobFields, JobMovesStep
  <2>4. QED BY <1>5, <2>2, <2>3 DEF OutsideDelete
<1>6. QED BY <1>1, <1>2, <1>3, <1>4, <1>5 DEF Cluster

-----------------------------------------------------------------------------
(* Creating and binding *)

\* Attempts that do not have the lease of an unbound Run know nothing of its Job.
LEMMA OthersKeep ==
    ASSUME DispatchInv, NEW v \in Workers, NEW r \in Runs, exec[r] = NoUid, ~Holds(v, r),
           AttemptSame(v, r), leases'[r] = leases[r], created[r] <= created'[r],
           created'[r] \in Nat
    PROVE  Fits(att[v][r], v, r)'
<1>1. att[v][r] \in Attempts /\ Claiming(att[v][r], v, r) /\ Timely(att[v][r], v, r)
      /\ Knowing(att[v][r], r)
  BY Facts
<1>2. ~Holds(v, r)'
  BY DEF Holds, HasClaim, AttemptSame
<1>3. Claiming(att[v][r], v, r)'
  BY <1>1 DEF Claiming, AttemptSame, HasClaim, State
<1>4. Timely(att[v][r], v, r)'
  BY <1>1 DEF Timely, AttemptSame
<1>5. Knowing(att[v][r], r)'
  <2>1. att[v][r].uid \in Nat /\ created[r] \in Nat
    BY <1>1, ClusterFacts, SMTT(30) DEF Attempts
  <2>2. att[v][r].uid <= created[r] => att[v][r].uid <= created'[r]
    BY <2>1, SMTT(30)
  <2>3. QED BY <1>1, <2>2 DEF Knowing, Collected, AttemptSame
<1>6. QED BY <1>2, <1>3, <1>4, <1>5 DEF Fits

\* What the attempt that has the lease does in the cluster keeps the invariant when its own
\* part is in order: no other attempt knows of it, and no state of the Run speaks of it.
LEMMA HolderStep ==
    ASSUME DispatchInv, [DispatchNext]_dispatchVars, NEW w \in Workers, NEW r \in Runs,
           NEW pc \in OnCluster, Calls(w, r, pc), DispatchTypeOK', UNCHANGED storeVars,
           \A q \in Runs \ {r} : Untouched(q),
           \A v \in Workers \ {w} : att'[v][r] = att[v][r],
           created[r] <= created'[r], Fits(att[w][r], w, r)', Counted(r)',
           exec'[r] # NoUid => job'[r].uid \in {NoUid, exec'[r]} \union late'[r]
    PROVE  DispatchInv'
<1>1. Holds(w, r) /\ exec[r] = NoUid /\ runs[r].state \notin Early \union TerminalStates
      /\ runs[r].state # "COLLECTING"
  BY OnClusterHolds
<1>2. runs' = runs /\ leases' = leases /\ held' = held /\ claims' = claims
  BY DEF storeVars
<1>3. created'[r] \in Nat
  BY SMTT(30) DEF DispatchTypeOK
<1>4. ASSUME NEW v \in Workers PROVE Fits(att[v][r], v, r)'
  <2>1. CASE v = w
    BY <2>1
  <2>2. CASE v # w
    <3>1. ~Holds(v, r)
      BY <1>1, <2>2 DEF Holds
    <3>2. AttemptSame(v, r)
      BY <1>2, <2>2 DEF AttemptSame
    <3>3. QED BY <1>1, <1>2, <1>3, <3>1, <3>2, OthersKeep
  <2>3. QED BY <2>1, <2>2
<1>5. Situated(r)'
  <2>1. runs'[r].state # "ABORTED"
    BY <1>1, <1>2 DEF TerminalStates
  <2>2. QED BY <1>1, <1>2, <2>1 DEF Situated
<1>6. held' = {}
  BY <1>2 DEF DispatchInv
<1>7. QED BY <1>4, <1>5, <1>6, LocalStep

\* Creating the Job keeps the invariant.
LEMMA CreateJobStep ==
    ASSUME DispatchInv, [DispatchNext]_dispatchVars, NEW w \in Workers, NEW r \in Runs,
           CreateJob(w, r)
    PROVE  DispatchInv'
<1>1. /\ Calls(w, r, "create") /\ "create" \in OnCluster /\ NewJob(r) /\ UNCHANGED storeVars
      /\ exec' = exec /\ pods' = pods /\ inflight' = inflight /\ late' = late
  BY DEF CreateJob, OnCluster
<1>2. /\ Holds(w, r) /\ HasClaim(w, r) /\ exec[r] = NoUid /\ State(w, r) \notin Early
      /\ att[w][r].timed /\ att[w][r].pc = "create" /\ att[w][r].left > 0
  BY <1>1, OnClusterHolds
<1>3. /\ created[r] + 1 \in 1..MaxUid /\ created[r] + 1 \in 0..MaxUid /\ created[r] \in Nat
      /\ job' \in [Runs -> Jobs] /\ created' \in [Runs -> 0..MaxUid]
      /\ job'[r].uid = created[r] + 1 /\ created'[r] = created[r] + 1
      /\ \A q \in Runs \ {r} : job'[q] = job[q] /\ created'[q] = created[q]
  <2>1. created[r] + 1 \in 1..MaxUid /\ created[r] \in Nat
    BY <1>1, NewJobFields, ClusterFacts
  <2>2. created[r] + 1 \in 0..MaxUid
    BY <2>1, UidAssumption, SMTT(30)
  <2>3. QED BY <1>1, <2>1, <2>2, NewJobFields
<1>4. runs' = runs /\ leases' = leases /\ held' = held /\ claims' = claims
  BY <1>1 DEF storeVars
<1>5. PICK a \in Attempts :
        /\ Become(w, r, a)
        /\ \/ a = At(Idle, "returned")
           \/ /\ a.pc = "bind" /\ a.uid = created[r] + 1 /\ a.timed
              /\ a.left = att[w][r].left
  <2>1. CASE Returns(w, r)
    BY <2>1, IdleFields DEF Returns
  <2>2. CASE GotoWith(w, r, "bind", created[r] + 1)
    <3>1. "bind" \in Points BY DEF Points
    <3>2. PICK uid \in 0..MaxUid : uid = created[r] + 1 BY <1>3
    <3>3. GotoWith(w, r, "bind", uid) BY <2>2, <3>2
    <3>4. PICK a \in Attempts : /\ Become(w, r, a) /\ a.pc = "bind" /\ a.uid = uid
                                /\ a.timed = att[w][r].timed /\ a.left = att[w][r].left
      BY <3>1, <3>3, GotoWithFields, SMTT(30)
    <3>5. QED BY <1>2, <3>2, <3>4
  <2>3. QED BY <2>1, <2>2 DEF CreateJob
<1>6. /\ att' \in [Workers -> [Runs -> Attempts]]
      /\ \A v \in Workers, q \in Runs :
           att'[v][q] = IF v = w /\ q = r THEN a ELSE att[v][q]
  <2>1. DispatchTypeOK BY ClusterFacts
  <2>2. Become(w, r, a) BY <1>5
  <2>3. QED BY <2>1, <2>2 DEF DispatchTypeOK, Become
<1>7. DispatchTypeOK'
  BY <1>1, <1>3, <1>4, <1>6, ClusterFacts DEF DispatchTypeOK, StoreTypeOK
<1>8. \A q \in Runs \ {r} : Untouched(q)
  BY <1>1, <1>3, <1>4, <1>6 DEF Untouched, ClusterSame, AttemptSame
<1>9. Counted(r)'
  BY <1>1, NewJobCounted
<1>10. Fits(att[w][r], w, r)'
  <2>1. att'[w][r] = a /\ claims'[w][r] = claims[w][r] /\ leases'[r] = leases[r]
    BY <1>4, <1>6
  <2>2. Holds(w, r)' /\ HasClaim(w, r)' /\ State(w, r)' \notin Early
    BY <1>2, <2>1 DEF Holds, HasClaim, State
  <2>3. CASE a = At(Idle, "returned")
    <3>1. att'[w][r].pc = "returned"
      BY <2>1, <2>3, IdleFields
    <3>2. QED BY <2>2, <3>1
      DEF Fits, Claiming, Timely, Knowing, Trusting, Prepared, OnCluster
  <2>4. CASE /\ a.pc = "bind" /\ a.uid = created[r] + 1 /\ a.timed
             /\ a.left = att[w][r].left
    <3>1. Claiming(att[w][r], w, r)'
      BY <2>1, <2>2, <2>4 DEF Claiming
    <3>2. Timely(att[w][r], w, r)'
      BY <1>2, <2>1, <2>2, <2>4, Facts DEF Timely, OnCluster
    <3>3. Knowing(att[w][r], r)'
      BY <1>3, <2>1, <2>4, SMTT(30) DEF Knowing, NoUid
    <3>4. Trusting(att[w][r], r)'
      BY <1>1, <1>2, <1>3, <2>1, <2>4 DEF Trusting
    <3>5. QED BY <3>1, <3>2, <3>3, <3>4 DEF Fits
  <2>5. QED BY <1>5, <2>3, <2>4
<1>11. created[r] <= created'[r] /\ exec'[r] = NoUid
  BY <1>1, <1>2, <1>3, SMTT(30)
<1>12. QED BY <1>1, <1>6, <1>7, <1>8, <1>9, <1>10, <1>11, HolderStep

\* Binding the Job keeps the invariant.
LEMMA BindStep ==
    ASSUME DispatchInv, [DispatchNext]_dispatchVars, NEW w \in Workers, NEW r \in Runs,
           BindExecution(w, r)
    PROVE  DispatchInv'
<1>1. /\ Calls(w, r, "bind") /\ "bind" \in OnCluster /\ UNCHANGED storeVars
      /\ job' = job /\ created' = created /\ pods' = pods /\ inflight' = inflight
      /\ late' = late
      /\ exec' = [exec EXCEPT ![r] = IF exec[r] = NoUid THEN att[w][r].uid ELSE exec[r]]
      /\ Returns(w, r)
  BY DEF BindExecution, OnCluster, clusterVars
<1>2. /\ Holds(w, r) /\ HasClaim(w, r) /\ exec[r] = NoUid /\ State(w, r) \notin Early
      /\ Trusting(att[w][r], r) /\ att[w][r].pc = "bind"
  BY <1>1, OnClusterHolds
<1>3. /\ att[w][r].uid \in 0..MaxUid /\ att[w][r].uid <= created[r]
      /\ job[r].uid \in {NoUid, att[w][r].uid} \union late[r]
  BY <1>2, Facts DEF Knowing, Trusting, Attempts
<1>4. runs' = runs /\ leases' = leases /\ held' = held /\ claims' = claims
  BY <1>1 DEF storeVars
<1>5. /\ exec' \in [Runs -> 0..MaxUid] /\ exec'[r] = att[w][r].uid
      /\ \A q \in Runs \ {r} : exec'[q] = exec[q]
  BY <1>1, <1>2, <1>3, ClusterFacts DEF DispatchTypeOK
<1>6. /\ att' \in [Workers -> [Runs -> Attempts]]
      /\ \A v \in Workers, q \in Runs :
           att'[v][q] = IF v = w /\ q = r THEN At(Idle, "returned") ELSE att[v][q]
  <2>1. DispatchTypeOK BY ClusterFacts
  <2>2. QED BY <1>1, <2>1, SetReturned
<1>7. DispatchTypeOK'
  BY <1>1, <1>4, <1>5, <1>6, ClusterFacts DEF DispatchTypeOK, StoreTypeOK
<1>8. \A q \in Runs \ {r} : Untouched(q)
  BY <1>1, <1>4, <1>5, <1>6, SMTT(30) DEF Untouched, ClusterSame, AttemptSame
<1>9. Counted(r)'
  BY <1>1, <1>3, <1>5, ClusterFacts DEF Counted
<1>10. Fits(att[w][r], w, r)'
  <2>1. att'[w][r].pc = "returned" /\ HasClaim(w, r)'
    BY <1>2, <1>4, <1>6, IdleFields DEF HasClaim
  <2>2. QED BY <2>1 DEF Fits, Claiming, Timely, Knowing, Trusting, Prepared, OnCluster
<1>11. created[r] <= created'[r] /\ job'[r].uid \in {NoUid, exec'[r]} \union late'[r]
  <2>1. created[r] \in Nat /\ created'[r] = created[r] BY <1>1, ClusterFacts
  <2>2. created[r] <= created'[r] BY <2>1, SMTT(30)
  <2>3. job'[r].uid \in {NoUid, exec'[r]} \union late'[r] BY <1>1, <1>3, <1>5
  <2>4. QED BY <2>2, <2>3
<1>12. QED BY <1>1, <1>6, <1>7, <1>8, <1>9, <1>10, <1>11, HolderStep

-----------------------------------------------------------------------------
(* Leases that are renewed, given back and left to expire *)

\* An owner has the lease of a Run that is not closed.
LEMMA OwnerHolds ==
    ASSUME DispatchInv, NEW w \in Workers, NEW r \in Runs, Owned(w, r)
    PROVE  Holds(w, r) /\ runs[r].state \notin TerminalStates
BY TerminalIsTerminalStates DEF Owned, Holds, DispatchInv

\* A lease of length t outlasts by s whatever outlasts it by at most s.
LEMMA LongerIsEnough ==
    ASSUME NEW t \in Nat, NEW s \in Nat, NEW l \in 0..s
    PROVE  t + s >= t + l
BY SMTT(30)

\* A deadline that the rest e of the lease covers is covered by a renewed lease.
LEMMA StillEnough ==
    ASSUME NEW t \in Nat, NEW s \in Nat, NEW l \in Nat, NEW e \in 0..t
    PROVE  e + s >= t + l => t + s >= t + l
BY SMTT(30)

\* The uids of Jobs are natural numbers.
LEMMA UidsAreNat == 0..MaxUid \subseteq Nat
BY UidAssumption, SMTT(30)

\* Renewing a lease keeps the invariant when the attempt that renews is in order; it has
\* time enough, for AttemptTimeout is what a deadline starts with.
LEMMA ExtendStep ==
    ASSUME DispatchInv, [DispatchNext]_dispatchVars, NEW w \in Workers, NEW r \in Runs,
           NEW a \in Attempts, Become(w, r, a), ExtendLease(w, r),
           UNCHANGED <<claims, exec, clusterVars>>,
           Claiming(a, w, r), Knowing(a, r), Trusting(a, r)
    PROVE  DispatchInv'
<1>1. DispatchTypeOK /\ Counted(r) /\ Situated(r) /\ held = {} /\ StoreTypeOK
  BY DEF DispatchInv, DispatchTypeOK
<1>2. /\ att' \in [Workers -> [Runs -> Attempts]]
      /\ \A v \in Workers, q \in Runs :
           att'[v][q] = IF v = w /\ q = r THEN a ELSE att[v][q]
  BY <1>1, SetAttempt, SMTT(30)
<1>3. /\ runs' = runs /\ held' = held /\ claims' = claims /\ exec' = exec /\ job' = job
      /\ pods' = pods /\ created' = created /\ inflight' = inflight /\ late' = late
      /\ leases' = [leases EXCEPT ![r] = Until(leases[r], LeaseTTL, leases[r].available)]
  BY DEF ExtendLease, clusterVars
<1>4. StoreTypeOK'
  BY <1>1, StepUsesStore, TypeStep
<1>5. DispatchTypeOK'
  BY <1>1, <1>2, <1>3, <1>4 DEF DispatchTypeOK
<1>6. \A q \in Runs \ {r} : Untouched(q)
  <2> SUFFICES ASSUME NEW q \in Runs \ {r} PROVE Untouched(q)
    BY SMTT(30)
  <2>1. leases'[q] = leases[q]
    BY <1>1, <1>3 DEF StoreTypeOK
  <2>2. \A v \in Workers : att'[v][q] = att[v][q]
    BY <1>2
  <2>3. QED BY <1>3, <2>1, <2>2 DEF Untouched, ClusterSame, AttemptSame
<1>7. /\ Quiet(r) /\ created'[r] \in Nat
      /\ Counted(r)'
  <2>1. ClusterSame(r)
    BY <1>3 DEF ClusterSame
  <2>2. Quiet(r)
    BY <1>1, <2>1, SameIsQuiet
  <2>3. created'[r] \in Nat
    BY <1>1, <1>3, Typed, UidsAreNat
  <2>4. QED BY <1>1, <1>3, <2>2, <2>3 DEF Counted
<1>8. /\ leases'[r].worker = leases[r].worker /\ leases'[r].token = leases[r].token
      /\ leases'[r].expires = LeaseTTL
  BY <1>1, <1>3, UntilFields, SMTT(30) DEF StoreTypeOK
<1>9. /\ Holds(w, r) /\ leases[r].expires \in 0..LeaseTTL /\ LeaseTTL \in Nat /\ LeaseTTL > 0
      /\ AttemptTimeout \in Nat
  BY <1>1, OwnerHolds, LeaseTyped, TTLAssumption, TimeoutAssumption, SMTT(30) DEF ExtendLease
<1>10. \A v \in Workers : Holds(v, r)' <=> Holds(v, r)
  BY <1>3, <1>8, <1>9 DEF Holds, HasClaim
<1>11. ASSUME NEW v \in Workers PROVE Fits(att[v][r], v, r)'
  <2>1. CASE v = w
    <3>1. att'[v][r] = a /\ claims'[v][r] = claims[v][r]
      BY <1>2, <1>3, <2>1
    <3>2. Knowing(att[v][r], r)' /\ Trusting(att[v][r], r)'
      BY <1>1, <1>7, <3>1, KnowingStays
    <3>3. Claiming(att[v][r], v, r)'
      BY <2>1, <3>1 DEF Claiming, HasClaim, State
    <3>4. a.left \in 0..AttemptTimeout
      BY DEF Attempts
    <3>5. LeaseTTL + AttemptTimeout >= LeaseTTL + a.left
      BY <1>9, <3>4, LongerIsEnough
    <3>6. Timely(att[v][r], v, r)'
      BY <1>8, <1>9, <1>10, <2>1, <3>1, <3>5 DEF Timely
    <3>7. QED BY <3>2, <3>3, <3>6 DEF Fits
  <2>2. CASE v # w
    <3>1. PICK b \in Attempts : b = att[v][r] /\ Fits(b, v, r) /\ Timely(b, v, r)
                                /\ b.left \in Nat
      BY Facts
    <3>2. att'[v][r] = b /\ claims'[v][r] = claims[v][r]
      BY <1>2, <1>3, <2>2, <3>1
    <3>3. Timely(att[v][r], v, r)'
      <4>1. leases[r].expires + AttemptTimeout >= LeaseTTL + b.left
            => LeaseTTL + AttemptTimeout >= LeaseTTL + b.left
        BY <1>9, <3>1, StillEnough
      <4>2. QED BY <1>8, <1>10, <3>1, <3>2, <4>1 DEF Timely
    <3>4. QED BY <1>1, <1>7, <1>10, <3>1, <3>2, <3>3, FitsStays
  <2>3. QED BY <2>1, <2>2
<1>12. Situated(r)'
  BY <1>1, <1>3, <1>7, SituatedStays DEF Situated
<1>13. QED BY <1>1, <1>3, <1>5, <1>6, <1>7, <1>11, <1>12, LocalStep

\* A renewal by the engine keeps the invariant.
LEMMA EngineRenewsStep ==
    ASSUME DispatchInv, [DispatchNext]_dispatchVars, NEW w \in Workers, NEW r \in Runs,
           EngineRenews(w, r)
    PROVE  DispatchInv'
<1> DEFINE b == ~(runs[r].state = "CANCELLING" /\ State(w, r) # "CANCELLING")
           a == [att[w][r] EXCEPT !.live = b]
<1>1. /\ ExtendLease(w, r) /\ UNCHANGED <<claims, exec, clusterVars>> /\ Become(w, r, a)
  BY DEF EngineRenews
<1>2. b \in BOOLEAN
  BY SMTT(30)
<1> HIDE DEF b
<1>3. a \in Attempts /\ Fits(a, w, r)
  BY <1>2, LiveFits
<1>4. Holds(w, r)
  BY <1>1, OwnerHolds DEF ExtendLease
<1> HIDE DEF a
<1>5. QED BY <1>1, <1>3, <1>4, ExtendStep DEF Fits

\* The renewal before the cluster is touched keeps the invariant.
LEMMA RenewForClusterStep ==
    ASSUME DispatchInv, [DispatchNext]_dispatchVars, NEW w \in Workers, NEW r \in Runs,
           RenewForCluster(w, r)
    PROVE  DispatchInv'
<1>1. /\ att[w][r].pc = "renew" /\ ExtendLease(w, r)
      /\ UNCHANGED <<claims, exec, clusterVars>>
  BY DEF RenewForCluster, Calls
<1>2. /\ Holds(w, r) /\ HasClaim(w, r)
  BY <1>1, OwnerHolds DEF ExtendLease, Holds
<1>3. /\ exec[r] = NoUid /\ att[w][r].timed /\ State(w, r) \notin Early
  BY <1>1, <1>2, Facts DEF Trusting, Claiming, Prepared
<1>4. CASE Returns(w, r)
  <2>1. Fits(At(Idle, "returned"), w, r) /\ At(Idle, "returned") \in Attempts
    BY <1>2, ReturnedFits, IdleFields
  <2>2. QED BY <1>1, <1>2, <1>4, <2>1, ExtendStep DEF Returns, Fits
<1>5. ASSUME NEW pc \in {"find", "create"}, Goto(w, r, pc),
             pc = "find" => State(w, r) = "CANCELLING"
      PROVE  DispatchInv'
  <2> DEFINE a == At(att[w][r], pc)
  <2>1. a \in Attempts /\ a.pc = pc /\ a.timed
    <3>1. pc \in Points /\ DispatchInv
      BY <1>5 DEF Points
    <3>2. QED BY <1>3, <3>1, Facts, AtFields
  <2>2. Become(w, r, a)
    BY <1>5 DEF Goto
  <2> HIDE DEF a
  <2>3. Claiming(a, w, r) /\ Knowing(a, r) /\ Trusting(a, r)
    BY <1>2, <1>3, <1>5, <2>1 DEF Claiming, Knowing, Trusting
  <2>4. QED BY <1>1, <2>1, <2>2, <2>3, ExtendStep
<1>6. QED BY <1>4, <1>5 DEF RenewForCluster

\* An attempt whose lease does not change, or that did not have it when it was lost, fits
\* as before.
LEMMA LeaseGone ==
    ASSUME DispatchInv, NEW v \in Workers, NEW r \in Runs, AttemptSame(v, r), ClusterSame(r),
           leases'[r] = leases[r] \/ (~Holds(v, r) /\ leases'[r].expires = 0)
    PROVE  Fits(att[v][r], v, r)'
<1>1. att[v][r] \in Attempts /\ Fits(att[v][r], v, r) /\ Timely(att[v][r], v, r)
      /\ DispatchTypeOK /\ Counted(r)
  BY Facts
<1>2. Quiet(r) /\ created'[r] \in Nat
  <2>1. Quiet(r) /\ created'[r] = created[r] /\ created[r] \in 0..MaxUid
    BY <1>1, SameIsQuiet, Typed DEF ClusterSame
  <2>2. QED BY <2>1, UidsAreNat
<1>3. CASE leases'[r] = leases[r]
  BY <1>1, <1>2, <1>3, FitsWithLease DEF AttemptSame
<1>4. CASE ~Holds(v, r) /\ leases'[r].expires = 0
  <2>1. ~Holds(v, r)'
    BY <1>4, SMTT(30) DEF Holds
  <2>2. Timely(att[v][r], v, r)'
    BY <1>1, <1>4 DEF Timely, AttemptSame
  <2>3. QED BY <1>1, <1>2, <2>1, <2>2, FitsStays DEF AttemptSame
<1>5. QED BY <1>3, <1>4

\* Advancing a Run keeps the invariant: what the change says of the cluster is known.
LEMMA AdvanceStep ==
    ASSUME DispatchInv, [DispatchNext]_dispatchVars, NEW w \in Workers, NEW r \in Runs,
           Advance(w, r)
    PROVE  DispatchInv'
<1>1. /\ DispatchTypeOK /\ RevisionIdentifiesSnapshot /\ Counted(r) /\ Situated(r)
      /\ held = {} /\ StoreTypeOK
  BY DEF DispatchInv, DispatchTypeOK
<1>2. /\ Owned(w, r) /\ att[w][r].pc = "advance" /\ Returns(w, r)
      /\ held' = held /\ claims' = claims /\ exec' = exec /\ job' = job /\ pods' = pods
      /\ created' = created /\ inflight' = inflight /\ late' = late
  BY DEF Advance, AdvanceClaim, Calls, clusterVars
<1>3. /\ \A q \in Runs \ {r} : runs'[q] = runs[q] /\ leases'[q] = leases[q]
      /\ State(w, r) = runs[r].state
      /\ CanTransition(runs[r].state, att[w][r].change.state)
      /\ runs'[r].state = att[w][r].change.state
      /\ \/ leases'[r].expires = 0
         \/ leases'[r] = leases[r] /\ runs'[r].state \notin TerminalStates
  BY <1>1, AdvanceWrites
<1>4. Holds(w, r) /\ HasClaim(w, r)
  BY <1>2, OwnerHolds DEF Owned
<1>5. /\ att' \in [Workers -> [Runs -> Attempts]]
      /\ \A v \in Workers, q \in Runs :
           att'[v][q] = IF v = w /\ q = r THEN At(Idle, "returned") ELSE att[v][q]
  BY <1>1, <1>2, SetAttempt, IdleFields, SMTT(30) DEF Returns
<1>6. StoreTypeOK'
  BY <1>1, StepUsesStore, TypeStep
<1>7. DispatchTypeOK'
  BY <1>1, <1>2, <1>5, <1>6 DEF DispatchTypeOK
<1>8. \A q \in Runs \ {r} : Untouched(q)
  BY <1>2, <1>3, <1>5 DEF Untouched, ClusterSame, AttemptSame
<1>9. ClusterSame(r) /\ Counted(r)'
  BY <1>1, <1>2 DEF ClusterSame, Counted
<1>10. ASSUME NEW v \in Workers PROVE Fits(att[v][r], v, r)'
  <2>1. CASE v = w
    <3>1. att'[v][r].pc = "returned" /\ HasClaim(v, r)'
      BY <1>2, <1>4, <1>5, <2>1, IdleFields DEF HasClaim
    <3>2. QED BY <3>1 DEF Fits, Claiming, Timely, Knowing, Trusting, Prepared, OnCluster
  <2>2. CASE v # w
    <3>1. ~Holds(v, r) /\ AttemptSame(v, r)
      BY <1>2, <1>4, <1>5, <2>2 DEF Holds, AttemptSame
    <3>2. QED BY <1>3, <1>9, <3>1, LeaseGone
  <2>3. QED BY <2>1, <2>2
<1>11. Situated(r)'
  <2>1. runs'[r].state \in Early => runs[r].state \in Early
    BY RunMoves
  <2>2. runs'[r].state = "COLLECTING" => Collected(r)
    BY <1>2, <1>3, Facts DEF Knowing
  <2>3. runs'[r].state = "ABORTED" => Gone(r)
    BY <1>2, <1>3, <1>4, Facts DEF Trusting
  <2>4. Quiet(r)
    BY <1>1, <1>9, SameIsQuiet
  <2>5. /\ runs'[r].state = "COLLECTING" => Collected(r)'
        /\ runs'[r].state = "ABORTED" => Gone(r)'
    BY <1>1, <2>2, <2>3, <2>4, CollectedStays, GoneStays
  <2>6. runs'[r].state \in TerminalStates => leases'[r].expires = 0
    BY <1>3
  <2>7. QED BY <1>1, <1>2, <2>1, <2>5, <2>6 DEF Situated
<1>12. QED BY <1>1, <1>2, <1>7, <1>8, <1>9, <1>10, <1>11, LocalStep

\* The end of an attempt keeps the invariant.
LEMMA FinishStep ==
    ASSUME DispatchInv, [DispatchNext]_dispatchVars, NEW w \in Workers, NEW r \in Runs,
           EngineFinishes(w, r)
    PROVE  DispatchInv'
<1>1. DispatchTypeOK /\ Counted(r) /\ Situated(r) /\ held = {} /\ StoreTypeOK
  BY DEF DispatchInv, DispatchTypeOK
<1>2. /\ Become(w, r, Idle) /\ runs' = runs /\ held' = held /\ exec' = exec /\ job' = job
      /\ pods' = pods /\ created' = created /\ inflight' = inflight /\ late' = late
      /\ claims' = [claims EXCEPT ![w][r] = NoClaim]
  BY DEF EngineFinishes, EndAttempt, ReleaseClaim, ForgetClaim, clusterVars
<1>3. \A v \in Workers, q \in Runs :
        claims'[v][q] = IF v = w /\ q = r THEN NoClaim ELSE claims[v][q]
  BY <1>1, <1>2, SetClaim, NoClaimTyped
<1>4. /\ \A q \in Runs \ {r} : leases'[q] = leases[q]
      /\ leases'[r] = leases[r] \/ (Holds(w, r) /\ leases'[r].expires = 0)
  <2>1. CASE ForgetClaim(w, r)
    BY <2>1 DEF ForgetClaim
  <2>2. ASSUME NEW delay \in 0..MaxDelay, ReleaseClaim(w, r, delay)
        PROVE  /\ \A q \in Runs \ {r} : leases'[q] = leases[q]
               /\ Holds(w, r) /\ leases'[r].expires = 0
    <3>1. Holds(w, r)
      BY <2>2, OwnerHolds DEF ReleaseClaim
    <3>2. leases'[r] = Until(leases[r], 0, delay) /\ \A q \in Runs \ {r} : leases'[q] = leases[q]
      BY <1>1, <2>2 DEF ReleaseClaim, StoreTypeOK
    <3>3. QED BY <3>1, <3>2, UntilFields, SMTT(30)
  <2>3. QED BY <2>1, <2>2 DEF EngineFinishes, EndAttempt
<1>5. /\ att' \in [Workers -> [Runs -> Attempts]]
      /\ \A v \in Workers, q \in Runs :
           att'[v][q] = IF v = w /\ q = r THEN Idle ELSE att[v][q]
  BY <1>1, <1>2, SetAttempt, IdleFields, SMTT(30)
<1>6. StoreTypeOK'
  BY <1>1, StepUsesStore, TypeStep
<1>7. DispatchTypeOK'
  BY <1>1, <1>2, <1>5, <1>6 DEF DispatchTypeOK
<1>8. \A q \in Runs \ {r} : Untouched(q)
  BY <1>2, <1>3, <1>4, <1>5, SMTT(30) DEF Untouched, ClusterSame, AttemptSame
<1>9. ClusterSame(r) /\ Counted(r)'
  BY <1>1, <1>2 DEF ClusterSame, Counted
<1>10. ASSUME NEW v \in Workers PROVE Fits(att[v][r], v, r)'
  <2>1. CASE v = w
    <3>1. att'[v][r].pc = "idle" /\ ~HasClaim(v, r)'
      BY <1>3, <1>5, <2>1, IdleFields DEF HasClaim
    <3>2. QED BY <3>1 DEF Fits, Claiming, Timely, Knowing, Trusting, Prepared, OnCluster
  <2>2. CASE v # w
    <3>1. AttemptSame(v, r) /\ (Holds(w, r) => ~Holds(v, r))
      BY <1>3, <1>5, <2>2 DEF Holds, AttemptSame
    <3>2. QED BY <1>4, <1>9, <3>1, LeaseGone
  <2>3. QED BY <2>1, <2>2, SMTT(30)
<1>11. Situated(r)'
  <2>1. Quiet(r)
    BY <1>1, <1>9, SameIsQuiet
  <2>2. QED BY <1>1, <1>2, <2>1, SituatedStays DEF Situated
<1>12. QED BY <1>1, <1>2, <1>7, <1>8, <1>9, <1>10, <1>11, LocalStep

-----------------------------------------------------------------------------
(* Clients, claims, crashes and time *)

\* Accepting and cancelling keep the invariant: a Run that is closed at once has nothing in
\* the cluster, and what its claims show is harmless.
LEMMA ClientsStep ==
    ASSUME DispatchInv, [DispatchNext]_dispatchVars, Clients
    PROVE  DispatchInv'
<1>1. PICK r \in Runs : Accept(r) \/ Cancel(r)
  BY DEF Clients
<1>2. DispatchTypeOK /\ Counted(r) /\ Situated(r) /\ held = {} /\ StoreTypeOK
  BY DEF DispatchInv, DispatchTypeOK
<1>3. /\ leases' = leases /\ held' = held /\ claims' = claims /\ att' = att /\ exec' = exec
      /\ job' = job /\ pods' = pods /\ created' = created /\ inflight' = inflight
      /\ late' = late
  BY <1>1 DEF Clients, Accept, Cancel, clusterVars
<1>4. /\ \A q \in Runs \ {r} : runs'[q] = runs[q]
      /\ \/ runs'[r] = runs[r]
         \/ runs[r].state = "ABSENT" /\ runs'[r].state = "CREATED"
         \/ runs[r].state \in {"CREATED", "VALIDATING"} /\ runs'[r].state = "ABORTED"
         \/ /\ runs[r].state \in ActiveStates \ {"CREATED", "VALIDATING"}
            /\ runs'[r].state = "CANCELLING"
  BY <1>1, <1>2, ClientWrites
<1>5. StoreTypeOK'
  BY <1>2, StepUsesStore, TypeStep
<1>6. DispatchTypeOK'
  BY <1>2, <1>3, <1>5 DEF DispatchTypeOK
<1>7. \A q \in Runs \ {r} : Untouched(q)
  BY <1>3, <1>4 DEF Untouched, ClusterSame, AttemptSame
<1>8. ClusterSame(r) /\ Counted(r)'
  BY <1>2, <1>3 DEF ClusterSame, Counted
<1>9. \A w \in Workers : Fits(att[w][r], w, r)'
  BY <1>3, <1>8, LeaseGone DEF AttemptSame
<1>10. Situated(r)'
  <2>1. Quiet(r)
    BY <1>2, <1>8, SameIsQuiet
  <2>2. CASE runs'[r] = runs[r]
    BY <1>2, <1>3, <2>1, <2>2, SituatedStays DEF Situated
  <2>3. CASE runs[r].state = "ABSENT" /\ runs'[r].state = "CREATED"
    BY <1>2, <1>3, <2>3 DEF Situated, Early, TerminalStates
  <2>4. CASE runs[r].state \in {"CREATED", "VALIDATING"} /\ runs'[r].state = "ABORTED"
    <3>1. runs[r].state \in Early
      BY <2>4 DEF Early
    <3>2. job[r] = NoJob /\ exec[r] = NoUid /\ pods[r] = {}
      BY <1>2, <3>1 DEF Situated
    <3>3. Gone(r)'
      BY <1>3, <3>2, JobFields DEF Gone, JobGone
    <3>4. \A w \in Workers : HasClaim(w, r)' => State(w, r)' \in Early
      BY <1>3, <3>1, Facts DEF Following, HasClaim, State
    <3>5. QED BY <1>3, <2>4, <3>2, <3>3, <3>4 DEF Situated, Early
  <2>5. CASE runs'[r].state = "CANCELLING"
    BY <1>2, <1>3, <2>5 DEF Situated, Early, TerminalStates
  <2>6. QED BY <1>4, <2>2, <2>3, <2>4, <2>5
<1>11. QED BY <1>2, <1>3, <1>6, <1>7, <1>8, <1>9, <1>10, LocalStep

\* A step that leaves the cluster and the Runs alone keeps the invariant when every attempt
\* fits afterwards.
LEMMA EngineStep ==
    ASSUME DispatchInv, [DispatchNext]_dispatchVars, UNCHANGED <<runs, held, exec>>,
           job' = job, pods' = pods, created' = created, late' = late,
           att' \in [Workers -> [Runs -> Attempts]], inflight' \in [Runs -> BOOLEAN],
           \A r \in Runs : runs[r].state \in Early => ~inflight'[r],
           \A w \in Workers, r \in Runs : Fits(att[w][r], w, r)'
    PROVE  DispatchInv'
<1>1. DispatchTypeOK /\ RevisionIdentifiesSnapshot /\ held = {} /\ StoreTypeOK
  BY DEF DispatchInv, DispatchTypeOK
<1>2. [Next]_storeVars /\ StoreTypeOK'
  BY <1>1, StepUsesStore, TypeStep
<1>3. DispatchTypeOK' /\ RevisionIdentifiesSnapshot'
  BY <1>1, <1>2, SnapshotsStep DEF DispatchTypeOK
<1>4. ASSUME NEW r \in Runs PROVE Counted(r)' /\ Situated(r)'
  <2>1. Counted(r) /\ Situated(r) /\ ClusterSame(r)
    BY DEF DispatchInv, ClusterSame
  <2>2. Quiet(r)
    BY <1>1, <2>1, SameIsQuiet
  <2>3. Situated(r)'
    BY <2>1, <2>2, SituatedStays DEF Situated
  <2>4. Counted(r)'
    BY <2>1 DEF Counted
  <2>5. QED BY <2>3, <2>4
<1>5. \A w \in Workers, r \in Runs : Following(w, r)'
  BY FollowStep
<1>6. QED BY <1>1, <1>3, <1>4, <1>5 DEF DispatchInv

\* Claiming keeps the invariant: a Run that is eligible is leased by nobody, and a token
\* that is fresh is no claim's.
LEMMA ClaimKeepsInv ==
    ASSUME DispatchInv, [DispatchNext]_dispatchVars, NEW w \in Workers, Claim(w)
    PROVE  DispatchInv'
<1>1. PICK batch \in SUBSET Runs, kept \in SUBSET Runs, token \in [Runs -> Tokens] :
        /\ ClaimRuns(w, batch, kept, token)
        /\ att' = [att EXCEPT ![w] = [r \in Runs |-> IF r \in kept THEN Started ELSE att[w][r]]]
  BY DEF Claim
<1>2. /\ runs' = runs /\ held' = held /\ exec' = exec /\ job' = job /\ pods' = pods
      /\ created' = created /\ inflight' = inflight /\ late' = late
  BY <1>1 DEF Claim, ClaimRuns, LeaseBatch, clusterVars
<1>3. DispatchTypeOK /\ StoreTypeOK
  BY DEF DispatchInv, DispatchTypeOK
<1>4. /\ att' \in [Workers -> [Runs -> Attempts]]
      /\ \A v \in Workers, q \in Runs :
           att'[v][q] = IF v = w /\ q \in kept THEN Started ELSE att[v][q]
  BY <1>1, <1>3, IdleFields DEF DispatchTypeOK
<1>5. \A v \in Workers, q \in Runs :
        claims'[v][q] = IF v = w /\ q \in kept THEN Snapshot(q, token[q]) ELSE claims[v][q]
  BY <1>1, <1>3 DEF ClaimRuns, StoreTypeOK
<1>6. \A q \in Runs :
        /\ q \in batch => Eligible(q) /\ FreshToken(q, token[q])
        /\ leases'[q] = IF q \in batch THEN Grant(w, token[q]) ELSE leases[q]
  BY <1>1 DEF ClaimRuns, LeaseBatch
<1>7. kept \subseteq batch
  BY <1>1 DEF ClaimRuns
<1>8. ASSUME NEW v \in Workers, NEW q \in Runs PROVE Fits(att[v][q], v, q)'
  <2>1. ClusterSame(q)
    BY <1>2 DEF ClusterSame
  <2>2. CASE v = w /\ q \in kept
    <3>1. att'[v][q].pc = "route"
      BY <1>4, <2>2, IdleFields
    <3>2. HasClaim(v, q)'
      <4>1. claims'[v][q].token = token[q] /\ token[q] \in Tokens
        BY <1>3, <1>5, <2>2, SnapshotTyped, SMTT(30)
      <4>2. NoClaim.token = NoToken
        BY DEF NoClaim
      <4>3. QED BY <4>1, <4>2, NoneAssumption DEF HasClaim
    <3>3. QED BY <3>1, <3>2
      DEF Fits, Claiming, Timely, Knowing, Trusting, Prepared, OnCluster
  <2>3. CASE ~(v = w /\ q \in kept) /\ q \notin batch
    <3>1. AttemptSame(v, q) /\ leases'[q] = leases[q]
      BY <1>4, <1>5, <1>6, <2>3 DEF AttemptSame
    <3>2. QED BY <2>1, <3>1, LeaseGone
  <2>4. CASE ~(v = w /\ q \in kept) /\ q \in batch
    <3>1. AttemptSame(v, q)
      BY <1>4, <1>5, <2>4 DEF AttemptSame
    <3>2. ~Holds(v, q)
      BY <1>6, <2>4, SMTT(30) DEF Eligible, Holds
    <3>3. leases'[q].token # claims'[v][q].token
      BY <1>6, <2>4, <3>1, GrantTyped, SMTT(30) DEF FreshToken, AttemptSame
    <3>4. ~Holds(v, q)'
      BY <3>3 DEF Holds
    <3>5. /\ att[v][q] \in Attempts /\ Fits(att[v][q], v, q) /\ Timely(att[v][q], v, q)
          /\ Counted(q)
      BY Facts
    <3>6. Timely(att[v][q], v, q)'
      BY <3>1, <3>2, <3>5 DEF Timely, AttemptSame
    <3>7. Quiet(q) /\ created'[q] \in Nat
      BY <1>3, <2>1, SameIsQuiet, Typed, SMTT(30) DEF ClusterSame
    <3>8. QED BY <1>3, <3>1, <3>4, <3>5, <3>6, <3>7, FitsStays DEF AttemptSame
  <2>5. QED BY <2>2, <2>3, <2>4
<1>9. \A q \in Runs : runs[q].state \in Early => ~inflight'[q]
  BY <1>2, ClusterFacts DEF Situated
<1>10. inflight' \in [Runs -> BOOLEAN]
  BY <1>2, <1>3 DEF DispatchTypeOK
<1>11. QED BY <1>2, <1>4, <1>8, <1>9, <1>10, EngineStep

\* A crash keeps the invariant, also when a create is under way.
LEMMA CrashStep ==
    ASSUME DispatchInv, [DispatchNext]_dispatchVars, NEW w \in Workers, Crash(w)
    PROVE  DispatchInv'
<1>1. /\ runs' = runs /\ held' = held /\ exec' = exec /\ job' = job /\ pods' = pods
      /\ created' = created /\ late' = late /\ leases' = leases
      /\ claims' = [claims EXCEPT ![w] = [r \in Runs |-> NoClaim]]
      /\ att' = [att EXCEPT ![w] = [r \in Runs |-> Idle]]
      /\ inflight' = [r \in Runs |-> inflight[r] \/ (LateCreates /\ att[w][r].pc = "create")]
  BY DEF Crash, LoseClaims
<1>2. DispatchTypeOK /\ StoreTypeOK
  BY DEF DispatchInv, DispatchTypeOK
<1>3. /\ att' \in [Workers -> [Runs -> Attempts]]
      /\ \A v \in Workers, q \in Runs :
           /\ att'[v][q] = IF v = w THEN Idle ELSE att[v][q]
           /\ claims'[v][q] = IF v = w THEN NoClaim ELSE claims[v][q]
  BY <1>1, <1>2, IdleFields DEF DispatchTypeOK, StoreTypeOK
<1>4. inflight' \in [Runs -> BOOLEAN]
  BY <1>1
<1>5. ASSUME NEW r \in Runs, runs[r].state \in Early PROVE ~inflight'[r]
  <2>1. att[w][r].pc # "create"
    BY <1>5, Facts, CallerClaims DEF Following, Claiming
  <2>2. ~inflight[r]
    BY <1>5, ClusterFacts DEF Situated
  <2>3. QED BY <1>1, <2>1, <2>2
<1>6. ASSUME NEW v \in Workers, NEW q \in Runs PROVE Fits(att[v][q], v, q)'
  <2>1. CASE v = w
    <3>1. att'[v][q].pc = "idle" /\ ~HasClaim(v, q)'
      BY <1>3, <2>1, IdleFields DEF HasClaim
    <3>2. QED BY <3>1 DEF Fits, Claiming, Timely, Knowing, Trusting, Prepared, OnCluster
  <2>2. CASE v # w
    <3>1. AttemptSame(v, q) /\ ClusterSame(q) /\ leases'[q] = leases[q]
      BY <1>1, <1>3, <2>2, SMTT(30) DEF AttemptSame, ClusterSame
    <3>2. QED BY <3>1, LeaseGone
  <2>3. QED BY <2>1, <2>2
<1>7. QED BY <1>1, <1>3, <1>4, <1>5, <1>6, EngineStep

\* Time that passes keeps the invariant: the deadline of an attempt that can create comes
\* before the end of its lease.
LEMMA ElapseStep ==
    ASSUME DispatchInv, [DispatchNext]_dispatchVars, Elapse
    PROVE  DispatchInv'
<1>1. /\ runs' = runs /\ held' = held /\ claims' = claims /\ exec' = exec /\ job' = job
      /\ pods' = pods /\ created' = created /\ late' = late /\ inflight' = inflight
      /\ leases' = LeasesAfterTick
      /\ att' = [w \in Workers |-> [r \in Runs |->
                    [att[w][r] EXCEPT !.left = TimeLeft(att[w][r].left)]]]
  BY DEF Elapse, Tick, clusterVars
<1>2. DispatchTypeOK /\ StoreTypeOK
  BY DEF DispatchInv, DispatchTypeOK
<1>3. ASSUME NEW v \in Workers, NEW q \in Runs
      PROVE  \E a \in Attempts :
               /\ att'[v][q] = a /\ a.pc = att[v][q].pc /\ a.uid = att[v][q].uid
               /\ a.timed = att[v][q].timed /\ a.change = att[v][q].change
               /\ a.left = TimeLeft(att[v][q].left)
  <2>1. att[v][q] \in Attempts
    BY <1>2, Typed
  <2>2. TimeLeft(att[v][q].left) \in 0..AttemptTimeout
    BY <2>1, TimeLeftTyped, TimeoutAssumption DEF Attempts
  <2>3. att'[v][q] = [att[v][q] EXCEPT !.left = TimeLeft(att[v][q].left)]
    BY <1>1
  <2>4. QED BY <2>1, <2>2, <2>3, LeftFields
<1>4. att' \in [Workers -> [Runs -> Attempts]]
  <2>1. \A v \in Workers, q \in Runs : att'[v][q] \in Attempts
    BY <1>3
  <2>2. QED BY <1>1, <2>1
<1>5. ASSUME NEW v \in Workers, NEW q \in Runs PROVE Fits(att[v][q], v, q)'
  <2>1. PICK a \in Attempts :
          /\ att'[v][q] = a /\ a.pc = att[v][q].pc /\ a.uid = att[v][q].uid
          /\ a.timed = att[v][q].timed /\ a.change = att[v][q].change
          /\ a.left = TimeLeft(att[v][q].left)
    BY <1>3
  <2>2. /\ leases'[q].worker = leases[q].worker /\ leases'[q].token = leases[q].token
        /\ leases'[q].expires = TimeLeft(leases[q].expires)
    BY <1>1, UntilFields, SMTT(30) DEF LeasesAfterTick
  <2>3. leases[q].expires \in Nat /\ att[v][q].left \in Nat /\ LeaseTTL \in Nat
        /\ AttemptTimeout \in Nat \ {0} /\ 2 * AttemptTimeout <= LeaseTTL
    <3>1. leases[q].expires \in Nat
      BY <1>2, LeaseTyped, SMTT(30)
    <3>2. att[v][q].left \in Nat BY Facts
    <3>3. LeaseTTL \in Nat BY TTLAssumption
    <3>4. QED BY <3>1, <3>2, <3>3, TimeoutAssumption
  <2>4. Holds(v, q)' => Holds(v, q)
    BY <1>1, <2>2, <2>3, SMTT(30) DEF Holds, HasClaim, TimeLeft
  <2>5. ASSUME a.pc \in OnCluster, a.left > 0
        PROVE  /\ Holds(v, q)'
               /\ leases'[q].expires + AttemptTimeout >= LeaseTTL + a.left
    <3>1. att[v][q].left > 0 /\ a.left = att[v][q].left - 1
      BY <2>1, <2>3, <2>5, SMTT(30) DEF TimeLeft
    <3>2. Holds(v, q) /\ leases[q].expires + AttemptTimeout >= LeaseTTL + att[v][q].left
      BY <2>1, <2>5, <3>1, Facts DEF Timely
    <3>3. leases[q].expires > 1
      BY <2>3, <2>5, <3>1, <3>2, SMTT(30)
    <3>4. leases'[q].expires = leases[q].expires - 1 /\ leases'[q].expires > 0
      BY <2>2, <2>3, <3>3, SMTT(30) DEF TimeLeft
    <3>5. leases'[q].expires + AttemptTimeout >= LeaseTTL + a.left
      BY <2>3, <3>1, <3>2, <3>4, SMTT(30)
    <3>6. QED BY <1>1, <2>2, <3>2, <3>4, <3>5 DEF Holds, HasClaim
  <2>6. Timely(att[v][q], v, q)'
    BY <2>1, <2>5 DEF Timely
  <2>7. DispatchTypeOK /\ Counted(q) /\ Claiming(att[v][q], v, q) /\ Knowing(att[v][q], q)
        /\ (Holds(v, q) => Trusting(att[v][q], q))
    BY Facts
  <2>8. Quiet(q) /\ created'[q] \in Nat
    BY <1>1, <1>2, SameIsQuiet, Typed, SMTT(30) DEF ClusterSame
  <2>9. Claiming(att[v][q], v, q)'
    BY <1>1, <2>1, <2>7 DEF Claiming, HasClaim, State
  <2>10. Knowing(a, q) /\ (Holds(v, q) => Trusting(a, q))
    BY <2>1, <2>7 DEF Knowing, Trusting
  <2>11. Knowing(att[v][q], q)' /\ (Trusting(a, q) => Trusting(att[v][q], q)')
    BY <2>1, <2>7, <2>8, <2>10, KnowingStays
  <2>12. QED BY <2>4, <2>6, <2>9, <2>10, <2>11 DEF Fits
<1>6. \A q \in Runs : runs[q].state \in Early => ~inflight'[q]
  BY <1>1, ClusterFacts DEF Situated
<1>7. inflight' \in [Runs -> BOOLEAN]
  BY <1>1, <1>2 DEF DispatchTypeOK
<1>8. QED BY <1>1, <1>4, <1>5, <1>6, <1>7, EngineStep

-----------------------------------------------------------------------------
(* Theorems *)

\* The invariant holds before anything has happened.
LEMMA InvStart == DispatchInit => DispatchInv
<1> SUFFICES ASSUME DispatchInit PROVE DispatchInv
  BY SMTT(30)
<1>1. StoreTypeOK /\ RevisionIdentifiesSnapshot
  BY InitIInv DEF DispatchInit, IInv
<1>2. /\ runs = [r \in Runs |-> Absent] /\ held = {}
      /\ claims = [w \in Workers |-> [r \in Runs |-> NoClaim]]
      /\ att = [w \in Workers |-> [r \in Runs |-> Idle]]
      /\ exec = [r \in Runs |-> NoUid] /\ job = [r \in Runs |-> NoJob]
      /\ pods = [r \in Runs |-> {}] /\ created = [r \in Runs |-> 0]
      /\ inflight = [r \in Runs |-> FALSE] /\ late = [r \in Runs |-> {}]
  BY DEF DispatchInit, Init
<1>3. DispatchTypeOK
  BY <1>1, <1>2, IdleFields, JobFields, UidAssumption, SMTT(30) DEF DispatchTypeOK, NoUid
<1>4. ASSUME NEW w \in Workers, NEW r \in Runs PROVE Fits(att[w][r], w, r) /\ Following(w, r)
  <2>1. att[w][r].pc = "idle" /\ ~HasClaim(w, r)
    BY <1>2, IdleFields DEF HasClaim
  <2>2. QED BY <2>1
    DEF Fits, Claiming, Timely, Knowing, Trusting, Holds, Following, Prepared, OnCluster
<1>5. ASSUME NEW r \in Runs PROVE Counted(r) /\ Situated(r)
  <2>1. /\ runs[r].state = "ABSENT" /\ exec[r] = NoUid /\ job[r] = NoJob /\ pods[r] = {}
        /\ created[r] = 0 /\ ~inflight[r]
    BY <1>2 DEF Absent
  <2>2. job[r].uid = 0 /\ exec[r] = 0
    BY <2>1, JobFields DEF NoUid
  <2>3. Counted(r)
    BY <2>1, <2>2, SMTT(30) DEF Counted
  <2>4. Situated(r)
    BY <2>1 DEF Situated, Early, TerminalStates
  <2>5. QED BY <2>3, <2>4
<1>6. QED BY <1>1, <1>2, <1>3, <1>4, <1>5 DEF DispatchInv

\* Every step keeps the invariant.
LEMMA InvStep == DispatchInv /\ [DispatchNext]_dispatchVars => DispatchInv'
<1> SUFFICES ASSUME DispatchInv, [DispatchNext]_dispatchVars PROVE DispatchInv'
  BY SMTT(30)
<1>1. CASE Clients
  BY <1>1, ClientsStep
<1>2. ASSUME NEW w \in Workers, Claim(w) \/ Crash(w) PROVE DispatchInv'
  BY <1>2, ClaimKeepsInv, CrashStep
<1>3. ASSUME NEW w \in Workers, NEW r \in Runs, Call(w, r) PROVE DispatchInv'
  BY <1>3, RouteStep, GetExecutionStep, RenewForClusterStep, CreateJobStep,
     CreateConflictsStep, AdoptStep, FindJobStep, BindStep, GetBoundStep, ObserveStep,
     RequestStopStep, ConfirmStep, AdvanceStep
  DEF Call
<1>4. ASSUME NEW w \in Workers, NEW r \in Runs, Fail(w, r) \/ Engine(w, r) PROVE DispatchInv'
  BY <1>4, FailStep, EngineRenewsStep, EngineCancelsStep, FinishStep DEF Engine
<1>5. ASSUME NEW r \in Runs, Cluster(r) PROVE DispatchInv'
  BY <1>5, ClusterStep
<1>6. CASE Elapse
  BY <1>6, ElapseStep, SMTT(30)
<1>7. CASE UNCHANGED dispatchVars
  <2>1. /\ UNCHANGED <<runs, held, exec>> /\ leases' = leases /\ claims' = claims
        /\ att' = att /\ job' = job /\ pods' = pods /\ created' = created /\ late' = late
        /\ inflight' = inflight
    BY <1>7 DEF dispatchVars
  <2>2. att' \in [Workers -> [Runs -> Attempts]] /\ inflight' \in [Runs -> BOOLEAN]
    BY <2>1 DEF DispatchInv, DispatchTypeOK
  <2>3. \A w \in Workers, r \in Runs : Fits(att[w][r], w, r)'
    BY <2>1, LeaseGone DEF AttemptSame, ClusterSame
  <2>4. \A r \in Runs : runs[r].state \in Early => ~inflight'[r]
    BY <2>1, ClusterFacts DEF Situated
  <2>5. QED BY <2>1, <2>2, <2>3, <2>4, EngineStep
<1>8. QED BY <1>1, <1>2, <1>3, <1>4, <1>5, <1>6, <1>7 DEF DispatchNext

\* The inductive invariant of dispatch: attempts that can create or bind have the lease,
\* what attempts know of the cluster is true while they have it, and the state of a Run
\* says what is in the cluster.
THEOREM DispatchInvariant == DispatchSpec => []DispatchInv
BY InvStart, InvStep, PTL DEF DispatchSpec

\* A bound execution is never replaced, whatever workers crash, stall or lose their lease
\* between the calls of provisioning.go, and whoever deletes Jobs.
THEOREM BoundJobIsNeverReplaced == DispatchSpec => []NeverReplaced
<1>1. DispatchInv => NeverReplaced
  BY DEF DispatchInv, Situated, NeverReplaced
<1>2. QED BY <1>1, DispatchInvariant, PTL

\* When a Run is ABORTED nothing of it executes, and nothing will but what a create
\* executed late brings.
THEOREM AbortedRunsHaveStopped == DispatchSpec => []AbortedMeansStopped
<1>1. DispatchInv => AbortedMeansStopped
  BY DEF DispatchInv, Situated, Gone, JobGone, AbortedMeansStopped
<1>2. QED BY <1>1, DispatchInvariant, PTL

\* Collection starts only when the bound Job has finished or has gone.
THEOREM CollectionFollowsExecution == DispatchSpec => []EvaluationFollowsExecution
<1>1. DispatchInv => EvaluationFollowsExecution
  BY DEF DispatchInv, Situated, Collected, EvaluationFollowsExecution
<1>2. QED BY <1>1, DispatchInvariant, PTL

\* A cancelled Run is only ever ABORTED, although the table would let it fail.
THEOREM CancelledRunsAreAborted == DispatchSpec => CancellationWins
<1>1. ASSUME DispatchInv, [DispatchNext]_dispatchVars
      PROVE  [\A r \in Runs : runs[r].state = "CANCELLING" =>
                runs'[r].state \in {"CANCELLING", "ABORTED"}]_dispatchVars
  BY <1>1, RunMoves
<1>2. QED BY <1>1, DispatchInvariant, PTL DEF DispatchSpec, CancellationWins

\* The reconcilers use the store in the ways of module ClaimStore.
THEOREM DispatchUsesTheStore == DispatchSpec => UsesTheStore
<1>1. DispatchInit => Init
  BY DEF DispatchInit
<1>2. DispatchInv /\ [DispatchNext]_dispatchVars => [Next]_storeVars
  BY StepUsesStore DEF DispatchInv
<1>3. QED BY <1>1, <1>2, DispatchInvariant, PTL DEF DispatchSpec, UsesTheStore, Spec

\* So whatever the cluster, the store and the reconcilers of execution and cancellation do
\* between two of their calls (internal/reconcile), clients see Runs move as promised, closed
\* Runs stay closed, a lost claim stays lost, a token has one holder, and no Run runs out of
\* revisions.
THEOREM DispatchKeepsThePromises ==
    DispatchSpec => /\ ImplementsPublicRun
                    /\ TerminalRunsAreFinal
                    /\ DeadClaimsStayDead
                    /\ []TokensIdentifyHolders
                    /\ []RevisionsBelowCap
BY DispatchUsesTheStore, StoreImplementsPublicRun, TerminalRunsStayClosed,
   DeadClaimsAreNeverRevived, TokensIdentifyTheirHolders, CapStrandsNoStoredRun, PTL
DEF UsesTheStore

\* A Job begins to be deleted only by RequestJobStop, when others do not delete it.
LEMMA DeletingStep ==
    ASSUME DispatchInv, [DispatchNext]_dispatchVars, "foreground" \notin Cascades,
           NEW r \in Runs, ~job[r].deleting, job'[r].deleting
    PROVE  \E w \in Workers : RequestStop(w, r) /\ job[r].uid = att[w][r].uid
<1>0. job \in [Runs -> Jobs] /\ job[r] \in Jobs /\ DispatchTypeOK
  BY ClusterFacts
<1>1. job'[r] # job[r]
  BY SMTT(30)
<1>2. ASSUME NEW q \in Runs, NEW j \in Jobs, job' = [job EXCEPT ![q] = j], ~j.deleting
      PROVE  FALSE
  BY <1>0, <1>2
<1>3. ASSUME NEW w \in Workers, NEW q \in Runs, RequestStop(w, q), job' # job
      PROVE  q = r /\ job[r].uid = att[w][r].uid
  <2>1. Deleted(q) /\ job[q].uid = att[w][q].uid
    BY <1>3 DEF RequestStop
  <2>2. q = r
    BY <1>0, <1>1, <2>1 DEF Deleted
  <2>3. QED BY <2>1, <2>2
<1>4. ASSUME NEW q \in Runs, NewJob(q) PROVE FALSE
  <2>1. ~job'[q].deleting /\ \A p \in Runs \ {q} : job'[p] = job[p]
    BY <1>4, NewJobFields
  <2>2. QED BY <1>1, <2>1
<1>5. ASSUME NEW q \in Runs, JobProceeds(q) PROVE FALSE
  <2>1. PICK phase \in {"running"} \union Finished :
          job' = [job EXCEPT ![q] = [job[q] EXCEPT !.phase = phase]] /\ ~job[q].deleting
    BY <1>5 DEF JobProceeds
  <2>2. job[q] \in Jobs
    BY <1>0
  <2>3. PICK j \in Jobs : j = [job[q] EXCEPT !.phase = phase] /\ ~j.deleting
    BY <2>1, <2>2, PhaseFields, SMTT(30)
  <2>4. QED BY <1>2, <2>1, <2>3
<1>6. ASSUME NEW q \in Runs, Cluster(q) PROVE FALSE
  <2>1. CASE job' = [job EXCEPT ![q] = NoJob]
    BY <1>2, <2>1, JobFields
  <2>2. CASE LateCreate(q)
    BY <1>1, <1>4, <2>2 DEF LateCreate
  <2>3. CASE Collect(q) \/ OutsideDelete(q) \/ PodStarts(q)
    BY <1>1, <2>1, <2>3 DEF Collect, OutsideDelete, PodStarts
  <2>4. QED BY <1>5, <1>6, <2>2, <2>3 DEF Cluster
<1>7. ASSUME NEW w \in Workers, NEW q \in Runs, Call(w, q) \/ Fail(w, q) \/ Engine(w, q),
             ~RequestStop(w, q), ~CreateJob(w, q)
      PROVE  FALSE
  <2>1. job' = job
    BY <1>7
    DEF Call, Route, GetExecution, RenewForCluster, CreateConflicts, Adopt, FindJob,
        BindExecution, GetBound, Observe, ConfirmStopped, Advance, Fail, Engine,
        EngineRenews, EngineCancels, EngineFinishes, clusterVars
  <2>2. QED BY <1>1, <2>1
<1>8. ASSUME NEW w \in Workers, NEW q \in Runs, CreateJob(w, q) PROVE FALSE
  BY <1>4, <1>8 DEF CreateJob
<1>9. ASSUME Clients \/ Elapse \/ UNCHANGED dispatchVars \/ \E w \in Workers : Claim(w) \/ Crash(w)
      PROVE  FALSE
  BY <1>1, <1>9 DEF Clients, Elapse, dispatchVars, Claim, Crash, clusterVars
<1>10. PICK w \in Workers, q \in Runs : RequestStop(w, q)
  BY <1>6, <1>7, <1>8, <1>9 DEF DispatchNext
<1>11. QED BY <1>1, <1>3, <1>10

\* When others do not delete Jobs in the foreground, only the bound Job is ever deleted,
\* and only after cancellation.
THEOREM OnlyTheBoundJobIsStopped ==
    ASSUME "foreground" \notin Cascades
    PROVE  DispatchSpec => StopsOnlyTheBoundJob
<1>1. ASSUME DispatchInv, [DispatchNext]_dispatchVars
      PROVE  [\A r \in Runs : (~job[r].deleting /\ job'[r].deleting) =>
                /\ job[r].uid = exec[r]
                /\ runs[r].state \in {"CANCELLING", "ABORTED"}]_dispatchVars
  <2>1. SUFFICES ASSUME NEW r \in Runs, ~job[r].deleting, job'[r].deleting
                 PROVE  job[r].uid = exec[r] /\ runs[r].state \in {"CANCELLING", "ABORTED"}
    BY SMTT(30)
  <2>2. PICK w \in Workers : RequestStop(w, r) /\ job[r].uid = att[w][r].uid
    BY <1>1, <2>1, DeletingStep
  <2>3. att[w][r].pc = "stop"
    BY <2>2 DEF RequestStop, Calls
  <2>4. State(w, r) = "CANCELLING" /\ att[w][r].uid = exec[r] /\ HasClaim(w, r)
    BY <1>1, <2>3, Facts, CallerClaims DEF Claiming, Knowing
  <2>5. QED BY <1>1, <2>2, <2>4, Facts DEF Following
<1>2. QED BY <1>1, DispatchInvariant, PTL DEF DispatchSpec, StopsOnlyTheBoundJob

=============================================================================
