----------------------------- MODULE NativeLease -----------------------------
(***************************************************************************)
(* The Native Worker API (internal/httpapi/native_worker*.go,              *)
(* internal/nativeworker, internal/postgres/native_*.go): workers outside  *)
(* the cluster lease native Runs, renew, upload evidence, and report.      *)
(*                                                                         *)
(* Every store operation locks the worker, the Run and the lease row and   *)
(* reads the database clock afterwards, so each is one action.  A call     *)
(* that is refused (gone, revision, conflict, evidence) changes nothing;   *)
(* what a worker then does is what it may do at any time: inspect or stop. *)
(* A call that commits may lose its answer.                                *)
(*                                                                         *)
(* Time.  Expiry is kept as the time left, in the lease row and in what a  *)
(* worker was told.  Identity.  A lease id, an attempt id and a capability *)
(* are drawn together and never apart: one value of Attempts.  They never  *)
(* repeat; here one that no row and no worker refers to is used again.     *)
(***************************************************************************)
EXTENDS Lifecycle, FiniteSets, Sequences

CONSTANTS Runs, Workers, Attempts,
          Compatible,       \* pairs of a worker and a Run whose reviewed plan it supports
          Slots, Required, Manifest,    \* the artifact plan
          Phases, Reasons, Uploads,     \* what workers report, why they release, and
                                        \* which of them uploads which slot (bounds)
          LeaseTTL, PresenceAge,
          NoRun, NoWorker, NoAttempt

NativePhases == {"PREPARING", "RUNNING", "UPLOADING", "FINALIZING"}

ReleaseReasons == {"CANCELLATION_REQUESTED", "LEASE_LOST", "WORKER_SHUTDOWN",
                   "PREPARATION_FAILED"}

ASSUME NativeTTLAssumption == LeaseTTL \in Nat \ {0}
ASSUME PresenceAssumption == PresenceAge \in Nat \ {0}
ASSUME PlanAssumption == Required \subseteq Slots /\ Manifest \in Slots /\ Uploads \subseteq (Workers \X Slots)
ASSUME VocabularyAssumption ==
    /\ Phases \subseteq NativePhases
    /\ Reasons \subseteq ReleaseReasons
ASSUME NativeNoneAssumption ==
    NoRun \notin Runs /\ NoWorker \notin Workers /\ NoAttempt \notin Attempts

VARIABLES runs,         \* the runs table (native Runs)
          presence,     \* native_worker_presence_v2: how long it still makes eligible
          leases,       \* native_execution_leases, a row per Run
          grants,       \* native_upload_grants: attempt and slot
          objects,      \* the object store
          artifacts,    \* native_artifacts: the slots of an attempt, in the order of
                        \* registered_at
          reports,      \* native_terminal_reports, a row per Run
          polls,        \* an acquisition in progress: the candidates it has read
          checking,     \* a registration in progress: the object it has verified
          mem           \* what a worker process knows of its attempt

storeVars == <<runs, presence, leases, grants, objects, artifacts, reports>>
fileVars == <<grants, objects, artifacts>>
nativeVars == <<runs, presence, leases, grants, objects, artifacts, reports,
                polls, checking, mem>>

Absent == [state |-> "ABSENT", revision |-> 0, failure |-> NoFailure]
Accepted == [state |-> "CREATED", revision |-> 1, failure |-> NoFailure]

NoLease == [worker |-> NoWorker, attempt |-> NoAttempt, left |-> 0, released |-> "no"]
NoReport == [kind |-> "none", attempt |-> NoAttempt, revision |-> 0, evidence |-> <<>>]
NoCheck == [run |-> NoRun, attempt |-> NoAttempt, revision |-> 0, slot |-> Manifest]
Idle == [run |-> NoRun, attempt |-> NoAttempt, revision |-> 0, left |-> 0]

Kinds == {"COMPLETED", "TOOL_FAILED", "OTHER_FAILED"}

TimeLeft(t) == IF t = 0 THEN 0 ELSE t - 1

-----------------------------------------------------------------------------
(* The phases a worker reports *)

nativePhaseStates ==
    <<"CREATED", "VALIDATING", "PROVISIONING", "WARMING_UP", "RUNNING", "COLLECTING">>

phaseStateIndex(state) ==
    IF \E i \in 1..6 : nativePhaseStates[i] = state
    THEN CHOOSE i \in 1..6 : nativePhaseStates[i] = state ELSE 0

phaseTarget(phase) ==
    CASE phase = "PREPARING" -> 4 [] phase = "RUNNING" -> 5 [] OTHER -> 6

\* AdvancePhase returns no error: the Run is on the path and not beyond the phase.
PhaseAllowed(run, phase) ==
    phaseStateIndex(run.state) \in 1..phaseTarget(phase)

\* One transition, and so one revision, for every state that is crossed.
AdvancePhase(run, phase) ==
    [state |-> nativePhaseStates[phaseTarget(phase)],
     revision |-> run.revision + (phaseTarget(phase) - phaseStateIndex(run.state)),
     failure |-> run.failure]

-----------------------------------------------------------------------------
(* Authority *)

Unexpired(r) == leases[r].released = "no" /\ leases[r].left > 0

\* Mutation: a Run is leased again as soon as its lease is due for renewal.
LeasedUntilRenewal(r) == leases[r].released = "no" /\ leases[r].left > 1

\* nativeRunLeased, and the WHERE clause of the candidates and of the upsert.
nativeRunLeased(r) == leases[r].released = "no" /\ leases[r].left > 0

\* What NativeDiscovery lists as the worker's current slot.
CurrentSlots(w) == {r \in Runs : leases[r].worker = w /\ Unexpired(r)}

nativeWorkerOccupied(w) == CurrentSlots(w) # {}

Holds(w) == mem[w] # Idle

\* matchingNativeLeaseAuthority: worker, lease, attempt and capability. The presence
\* row the lock looks for was there when the lease was issued and is never deleted.
MatchingAuthority(w, r, attempt) ==
    /\ leases[r].worker = w
    /\ leases[r].attempt = attempt

\* Authority, not released, not expired, the Run not terminal, at the given revision.
Authorized(w, r, attempt, revision) ==
    /\ MatchingAuthority(w, r, attempt)
    /\ Unexpired(r)
    /\ ~Terminal(runs[r].state)
    /\ runs[r].revision = revision

Calls(w) == Holds(w) /\ Authorized(w, mem[w].run, mem[w].attempt, mem[w].revision)

\* newUUID, newNativeLeaseCapability
FreshAttempt(r, attempt) ==
    /\ attempt \in Attempts
    /\ attempt # leases[r].attempt
    /\ \A w \in Workers : mem[w].attempt # attempt /\ checking[w].attempt # attempt

Know(w, m) == mem' = [mem EXCEPT ![w] = m]

\* The answer arrives, or it is lost.
Told(w, m) == Know(w, m) \/ UNCHANGED mem

\* The same attempt, at another revision and with another expiry.
Memory(w, revision, left) ==
    [run |-> mem[w].run, attempt |-> mem[w].attempt, revision |-> revision, left |-> left]

\* A worker stops its processes before it releases or reports.
Stopped(w) == Memory(w, mem[w].revision, 0)

\* The row of the same lease, with another expiry or released.
LeaseRow(r, left, released) ==
    [worker |-> leases[r].worker, attempt |-> leases[r].attempt, left |-> left,
     released |-> released]

SetLease(r, left, released) == leases' = [leases EXCEPT ![r] = LeaseRow(r, left, released)]

NativeInit ==
    /\ runs = [r \in Runs |-> Absent]
    /\ presence = [w \in Workers |-> 0]
    /\ leases = [r \in Runs |-> NoLease]
    /\ grants = [r \in Runs |-> {}]
    /\ objects = [r \in Runs |-> [key \in (Attempts \union {NoAttempt}) \X Slots |-> NoAttempt]]
    /\ artifacts = [r \in Runs |-> [attempt \in Attempts |-> <<>>]]
    /\ reports = [r \in Runs |-> NoReport]
    /\ polls = [w \in Workers |-> {}]
    /\ checking = [w \in Workers |-> NoCheck]
    /\ mem = [w \in Workers |-> Idle]

-----------------------------------------------------------------------------
(* Clients *)

Accept(r) ==
    /\ runs[r] = Absent
    /\ runs' = [runs EXCEPT ![r] = Accepted]
    /\ UNCHANGED <<presence, leases, fileVars, reports, polls, checking, mem>>

Cancel(r) ==
    /\ runs[r] # Absent /\ CancellationAllowed(runs[r])
    /\ runs' = [runs EXCEPT ![r] = RequestCancellation(@)]
    /\ UNCHANGED <<presence, leases, fileVars, reports, polls, checking, mem>>

-----------------------------------------------------------------------------
(* Acquisition *)

\* It makes eligible for PresenceAge if the worker is available, qualified and authorized.
Observed(offers) == IF offers THEN PresenceAge ELSE 0

\* reportPresence: a report replaces the one before. An acquisition that has read the one
\* before finds another observed_at and loses, whatever its candidates.
RecordPresence(w, offers) ==
    /\ presence' = [presence EXCEPT ![w] = Observed(offers)]
    /\ polls' = [polls EXCEPT ![w] = {}]
    /\ UNCHANGED <<runs, leases, fileVars, reports, checking, mem>>

\* EligibleNativeWorkerV2, lockNativeWorkerV2Presence
Eligible(w) == presence[w] > 0

NativeCandidates == {r \in Runs : runs[r].state = "CREATED" /\ ~nativeRunLeased(r)}

\* The candidates whose reviewed recipe the worker's capabilities support.
SelectBaselineCandidate(w) == {r \in NativeCandidates : <<w, r>> \in Compatible}

\* BaselineAcquirer.Acquire up to its transaction: the observation, the candidates and
\* the reviewed plans are read without locks. A worker measures one Run at a time.
Poll(w) ==
    /\ ~Holds(w) /\ polls[w] = {}
    /\ Eligible(w)
    /\ SelectBaselineCandidate(w) # {}
    /\ polls' = [polls EXCEPT ![w] = SelectBaselineCandidate(w)]
    /\ UNCHANGED <<storeVars, checking, mem>>

\* The rechecks of AcquireNativeBaselineLease under its locks.
Acquirable(w, r) ==
    /\ Eligible(w)
    /\ runs[r].state = "CREATED"
    /\ ~nativeWorkerOccupied(w)
    /\ ~nativeRunLeased(r)

\* Files of an attempt nobody refers to any more are out of reach, so they may be
\* dropped when its identifier is used again.
DropFiles(r, attempt) ==
    /\ grants' = [grants EXCEPT ![r] = {g \in @ : g[1] # attempt}]
    /\ objects' = [objects EXCEPT ![r] =
                     [key \in DOMAIN @ |-> IF key[1] = attempt THEN NoAttempt ELSE @[key]]]
    /\ artifacts' = [artifacts EXCEPT ![r][attempt] = <<>>]

\* persistNativeLease: the row of the Run is written, whatever attempt it showed.
NewLease(w, attempt) == [worker |-> w, attempt |-> attempt, left |-> LeaseTTL, released |-> "no"]

Acquire(w, r) ==
    /\ r \in polls[w]
    /\ Acquirable(w, r)
    /\ \E attempt \in Attempts :
         /\ FreshAttempt(r, attempt)
         /\ leases' = [leases EXCEPT ![r] = NewLease(w, attempt)]
         /\ DropFiles(r, attempt)
         /\ Told(w, [run |-> r, attempt |-> attempt, revision |-> runs[r].revision,
                     left |-> LeaseTTL])
    /\ polls' = [polls EXCEPT ![w] = {}]
    /\ UNCHANGED <<runs, presence, reports, checking>>

\* acquired=false: the next candidate of the same observation is tried.
AcquireLoses(w, r) ==
    /\ r \in polls[w]
    /\ ~Acquirable(w, r)
    /\ polls' = [polls EXCEPT ![w] = @ \ {r}]
    /\ UNCHANGED <<storeVars, checking, mem>>

-----------------------------------------------------------------------------
(* The attempt *)

\* renewNativeLease: the phase moves the Run unless it is being cancelled, and the lease
\* is extended either way.
Renew(w, phase) ==
    LET r == mem[w].run
        next == IF runs[r].state = "CANCELLING" THEN runs[r] ELSE AdvancePhase(runs[r], phase)
    IN
    /\ Calls(w) /\ mem[w].left > 0
    /\ runs[r].state # "CANCELLING" => PhaseAllowed(runs[r], phase)
    /\ runs' = [runs EXCEPT ![r] = next]
    /\ SetLease(r, LeaseTTL, "no")
    /\ Told(w, Memory(w, next.revision, LeaseTTL))
    /\ UNCHANGED <<presence, fileVars, reports, polls, checking>>

ReleaseAllowed(run, reason) == (reason = "CANCELLATION_REQUESTED") <=> (run.state = "CANCELLING")

\* releasedNativeRun
releasedNativeRun(run, reason) ==
    IF reason = "CANCELLATION_REQUESTED" THEN Transition(run, Change("ABORTED")) ELSE run

\* releaseNativeLease. A repeated release is answered without a change.
Release(w, reason) ==
    LET r == mem[w].run IN
    /\ Calls(w)
    /\ ReleaseAllowed(runs[r], reason)
    /\ runs' = [runs EXCEPT ![r] = releasedNativeRun(@, reason)]
    /\ SetLease(r, 0, reason)
    /\ Know(w, Idle) \/ Know(w, Stopped(w))
    /\ UNCHANGED <<presence, fileVars, reports, polls, checking>>

\* InspectNativeBaselineAttempt: an active attempt's revision and expiry; otherwise the
\* worker knows that it is over.
Inspect(w) ==
    LET r == mem[w].run IN
    /\ Holds(w)
    /\ Know(w, IF MatchingAuthority(w, r, mem[w].attempt) /\ Unexpired(r)
               THEN Memory(w, runs[r].revision, IF mem[w].left > 0 THEN leases[r].left ELSE 0)
               ELSE Idle)
    /\ UNCHANGED <<storeVars, polls, checking>>

\* The worker process stops or starts again: it knows nothing of its attempt.
Restart(w) ==
    /\ Holds(w) \/ polls[w] # {}
    /\ Know(w, Idle)
    /\ polls' = [polls EXCEPT ![w] = {}]
    /\ UNCHANGED <<storeVars, checking>>

-----------------------------------------------------------------------------
(* Evidence *)

\* Mutation: the key of an object does not name the attempt.
KeyOfSlot(attempt, slot) == <<NoAttempt, slot>>

\* UploadReservation: runs/<run>/attempts/<attempt>/<slot>
ObjectKey(attempt, slot) == <<attempt, slot>>

\* reserveNativeUploadGrant, then the presigned URL. A repeated reservation has a new
\* issued_at, so a verification in progress no longer matches its candidate.
Reserve(w, slot) ==
    LET r == mem[w].run IN
    /\ Calls(w)
    /\ grants' = [grants EXCEPT ![r] = @ \union {<<mem[w].attempt, slot>>}]
    /\ checking' = [checking EXCEPT ![w] = IF @.slot = slot THEN NoCheck ELSE @]
    /\ UNCHANGED <<runs, presence, leases, objects, artifacts, reports, polls, mem>>

\* A presigned PUT is executed, however late: it writes what its attempt declared.
Put(r, attempt, slot) ==
    /\ <<attempt, slot>> \in grants[r]
    /\ objects' = [objects EXCEPT ![r][ObjectKey(attempt, slot)] = attempt]
    /\ UNCHANGED <<runs, presence, leases, grants, artifacts, reports, polls, checking, mem>>

\* VerifyNativeArtifact: size, media type and digest are the reserved ones.
VerifiedObject(r, attempt, slot) == objects[r][ObjectKey(attempt, slot)] = attempt

\* ArtifactRegistrar.Register up to its transaction: PrepareNativeArtifact selects the
\* candidate, VerifyNativeArtifact reads the object.
Verify(w, slot) ==
    LET r == mem[w].run
        attempt == mem[w].attempt IN
    /\ Calls(w) /\ checking[w] = NoCheck
    /\ <<attempt, slot>> \in grants[r]
    /\ VerifiedObject(r, attempt, slot)
    /\ checking' = [checking EXCEPT ![w] =
          [run |-> r, attempt |-> attempt, revision |-> mem[w].revision, slot |-> slot]]
    /\ UNCHANGED <<storeVars, polls, mem>>

Registered(r, attempt) == artifacts[r][attempt]

\* registerNativeArtifact: everything is checked again; the first reference is kept.
Register(w) ==
    LET c == checking[w] IN
    /\ c # NoCheck
    /\ artifacts' = [artifacts EXCEPT ![c.run][c.attempt] =
          IF \/ ~Authorized(w, c.run, c.attempt, c.revision)
             \/ \E i \in DOMAIN @ : @[i] = c.slot
          THEN @ ELSE Append(@, c.slot)]
    /\ checking' = [checking EXCEPT ![w] = NoCheck]
    /\ UNCHANGED <<runs, presence, leases, grants, objects, reports, polls, mem>>

-----------------------------------------------------------------------------
(* The terminal report *)

\* validateNativeTerminalEvidence: every required slot, and nothing after the manifest.
CompleteEvidence(files) ==
    /\ Required \subseteq {files[i] : i \in DOMAIN files}
    /\ files # <<>> /\ files[Len(files)] = Manifest

\* Mutation: a failure is recorded although the Run is being cancelled.
TerminalInAnyState(run, kind) ==
    CASE kind = "OTHER_FAILED" -> ~Terminal(run.state)
      [] OTHER -> PhaseAllowed(run, "FINALIZING")

TerminalAllowed(run, kind) ==
    CASE kind = "OTHER_FAILED" -> run.state # "CANCELLING" /\ ~Terminal(run.state)
      [] OTHER -> PhaseAllowed(run, "FINALIZING")

\* Mutation: a failure before the Run has started leaves it as it is.
TerminalLeavesCreated(run, kind) ==
    CASE kind = "COMPLETED" -> AdvancePhase(run, "FINALIZING")
      [] kind = "TOOL_FAILED" ->
            Transition(AdvancePhase(run, "FINALIZING"), Failing("TEST_FAILURE", "TOOL_ERROR"))
      [] kind = "OTHER_FAILED" ->
            IF run.state = "CREATED" THEN run
            ELSE Transition(run, Failing("INFRASTRUCTURE_FAILURE", "INFRASTRUCTURE_ERROR"))

applyNativeTerminal(run, kind) ==
    CASE kind = "COMPLETED" -> AdvancePhase(run, "FINALIZING")
      [] kind = "TOOL_FAILED" ->
            Transition(AdvancePhase(run, "FINALIZING"), Failing("TEST_FAILURE", "TOOL_ERROR"))
      [] kind = "OTHER_FAILED" ->
            Transition(IF run.state = "CREATED" THEN Transition(run, Change("VALIDATING")) ELSE run,
                       Failing("INFRASTRUCTURE_FAILURE", "INFRASTRUCTURE_ERROR"))

\* lockedNativeTerminal finds a row.
Answered(r) == reports[r] # NoReport

\* reportNativeTerminal. A report that was accepted is answered from its row: the same
\* report again, or a conflict.
Report(w, kind) ==
    LET r == mem[w].run
        files == Registered(r, mem[w].attempt) IN
    /\ Calls(w)
    /\ ~Answered(r)
    /\ kind = "COMPLETED" => CompleteEvidence(files)
    /\ TerminalAllowed(runs[r], kind)
    /\ LET next == applyNativeTerminal(runs[r], kind) IN
       /\ runs' = [runs EXCEPT ![r] = next]
       /\ reports' = [reports EXCEPT ![r] = [kind |-> kind, attempt |-> mem[w].attempt,
                                             revision |-> next.revision, evidence |-> files]]
    /\ SetLease(r, 0, "no")
    /\ Know(w, Idle) \/ Know(w, Stopped(w))
    /\ UNCHANGED <<presence, fileVars, polls, checking>>

-----------------------------------------------------------------------------

Tick ==
    /\ \/ \E r \in Runs : leases[r].left > 0
       \/ \E w \in Workers : presence[w] > 0
    /\ leases' = [r \in Runs |-> LeaseRow(r, TimeLeft(leases[r].left), leases[r].released)]
    /\ presence' = [w \in Workers |-> TimeLeft(presence[w])]
    /\ mem' = [w \in Workers |-> Memory(w, mem[w].revision, TimeLeft(mem[w].left))]
    /\ UNCHANGED <<runs, fileVars, reports, polls, checking>>

Worker(w) ==
    \/ \E offers \in BOOLEAN : RecordPresence(w, offers)
    \/ Poll(w) \/ (\E r \in Runs : Acquire(w, r) \/ AcquireLoses(w, r))
    \/ (\E phase \in Phases : Renew(w, phase)) \/ (\E reason \in Reasons : Release(w, reason))
    \/ Inspect(w) \/ Restart(w)
    \/ (\E slot \in {s \in Slots : <<w, s>> \in Uploads} : Reserve(w, slot) \/ Verify(w, slot)) \/ Register(w)
    \/ \E kind \in Kinds : Report(w, kind)

NativeNext ==
    \/ \E r \in Runs : Accept(r) \/ Cancel(r)
    \/ \E r \in Runs, attempt \in Attempts, slot \in Slots : Put(r, attempt, slot)
    \/ \E w \in Workers : Worker(w)
    \/ Tick

NativeSpec == NativeInit /\ [][NativeNext]_nativeVars

-----------------------------------------------------------------------------
(* Properties *)

Executes(w, r) == mem[w].run = r /\ mem[w].left > 0

\* A worker that executes a Run holds its lease, for at least as long as it was told:
\* through lost answers, late workers and replaced attempts, two workers never execute
\* the same Run (native_leases.go, persistNativeLease).
ExecutorsHoldTheLease ==
    \A w \in Workers, r \in Runs :
        Executes(w, r) => /\ MatchingAuthority(w, r, mem[w].attempt)
                          /\ leases[r].released = "no"
                          /\ leases[r].left >= mem[w].left

\* A worker occupies one slot: what discovery relies on
\* (native_discovery.go:70, "multiple current native worker slots").
OneSlot ==
    \A w \in Workers : Cardinality(CurrentSlots(w)) <= 1

\* Complete evidence stays complete: for a Run that was reported COMPLETED, what is
\* registered for that attempt is what the report was accepted for, with the manifest
\* last, and the store holds what that attempt uploaded, whatever late uploads,
\* registrations in progress and other attempts do.
EvidenceStays ==
    \A r \in Runs : reports[r].kind = "COMPLETED" =>
        LET files == Registered(r, reports[r].attempt) IN
        /\ files = reports[r].evidence
        /\ CompleteEvidence(files)
        /\ \A i \in DOMAIN files :
              VerifiedObject(r, reports[r].attempt, files[i])

\* An accepted report can be asked for again: its attempt keeps the lease row, so the
\* retry of a report whose answer was lost is answered from the stored one and not with
\* "gone" (terminal.go, TerminalAlreadyAccepted).
ReportsAreAnswered ==
    \A r \in Runs : Answered(r) => leases[r].attempt = reports[r].attempt

\* Cancellation wins: a Run in CANCELLING leaves it only as ABORTED, when nobody
\* executes it any more.
CancellationWins ==
    [][\A r \in Runs : runs[r].state = "CANCELLING" /\ runs'[r] # runs[r] =>
          /\ runs'[r].state = "ABORTED"
          /\ \A w \in Workers : ~Executes(w, r)']_nativeVars

=============================================================================
