------------------------------ MODULE ClaimStore ------------------------------
(***************************************************************************)
(* The reconciliation store (run.ReconciliationStore, implemented by       *)
(* internal/postgres/claims.go): Runs, their reconciliation leases, and    *)
(* the claims that workers hold in memory.                                 *)
(*                                                                         *)
(* Every store operation is one transaction that locks the Run row first   *)
(* and reads the database clock afterwards, so each is one action.  A      *)
(* commit whose answer is lost (storageError, ErrUnavailable) has its      *)
(* effect while the worker learns nothing.                                 *)
(*                                                                         *)
(* Time.  expires_at and available_at are kept as the time left until      *)
(* them; Tick lets one unit pass.  0 is a deadline that has been reached,  *)
(* so a missing lease row and an expired, available one look the same, as  *)
(* they do to the claim query.                                             *)
(*                                                                         *)
(* Tokens.  A token is random and never repeats.  Tokens are compared only *)
(* with the row of one Run, so a new token for r is any value that differs *)
(* from every token of r still held anywhere; Tokens may then be finite.   *)
(***************************************************************************)
EXTENDS Lifecycle, FiniteSets

CONSTANTS Runs, Workers, Tokens,
          LeaseTTL,     \* LeaseTTL of the worker configuration
          MaxDelay,     \* the longest retry delay of ReleaseClaim
          Capacity,     \* Config.Capacity: attempts one worker keeps active
          NoWorker, NoToken

ASSUME TTLAssumption == LeaseTTL \in Nat \ {0}
ASSUME DelayAssumption == MaxDelay \in Nat
ASSUME CapacityAssumption == Capacity \in Nat \ {0}
ASSUME NoneAssumption == NoWorker \notin Workers /\ NoToken \notin Tokens

VARIABLES runs,         \* the runs table: state, revision, failure
          leases,       \* the reconciliation_leases table
          held,         \* Runs with an unreleased benchmark reservation
          claims        \* worker memory: the claim a worker holds for a Run

storeVars == <<runs, leases, held, claims>>

Absent == [state |-> "ABSENT", revision |-> 0, failure |-> NoFailure]

RunRecords ==
    [state : States \union {"ABSENT"}, revision : Nat,
     failure : FailureCodes \union {NoFailure}]

NoLease == [worker |-> NoWorker, token |-> NoToken, expires |-> 0, available |-> 0]

LeaseRecords ==
    [worker : Workers \union {NoWorker}, token : Tokens \union {NoToken},
     expires : 0..LeaseTTL, available : 0..MaxDelay]

\* run.Claim: the token of the lease and the Run snapshot read with it.
NoClaim == [token |-> NoToken, state |-> "ABSENT", revision |-> 0]

ClaimRecords ==
    [token : Tokens \union {NoToken}, state : States \union {"ABSENT"}, revision : Nat]

Snapshot(r, token) ==
    [token |-> token, state |-> runs[r].state, revision |-> runs[r].revision]

HasClaim(w, r) == claims[w][r] # NoClaim

Claimed(w) == {r \in Runs : HasClaim(w, r)}

StoreTypeOK ==
    /\ runs \in [Runs -> RunRecords]
    /\ leases \in [Runs -> LeaseRecords]
    /\ held \in SUBSET Runs
    /\ claims \in [Workers -> [Runs -> ClaimRecords]]

-----------------------------------------------------------------------------
(* What the operations check under the row lock *)

\* Mutation: only Runs without a lease row are found, not those with an expired one.
EligibleUnleased(r) ==
    /\ runs[r].state \in ActiveStates
    /\ leases[r] = NoLease

\* The WHERE clause of lockClaimCandidates, rechecked by tryAcquireClaim.
Eligible(r) ==
    /\ runs[r].state \in ActiveStates \/ r \in held
    /\ leases[r].expires = 0
    /\ leases[r].available = 0 \/ runs[r].state = "CANCELLING"

\* Mutation: the token is not compared.
OwnedByWorker(w, r) ==
    /\ HasClaim(w, r)
    /\ leases[r].worker = w
    /\ leases[r].expires > 0
    /\ Terminal(runs[r].state) => r \in held

\* lockOwnedClaim: worker, token and expiry of the stored row; a terminal Run is
\* owned only while it holds a benchmark target.
Owned(w, r) ==
    /\ HasClaim(w, r)
    /\ leases[r].worker = w
    /\ leases[r].token = claims[w][r].token
    /\ leases[r].expires > 0
    /\ Terminal(runs[r].state) => r \in held

\* Mutation: tokens may repeat.
AnyToken(r, token) == token \in Tokens

\* newClaimToken
FreshToken(r, token) ==
    /\ token \in Tokens
    /\ token # leases[r].token
    /\ \A w \in Workers : token # claims[w][r].token

Grant(w, token) ==
    [worker |-> w, token |-> token, expires |-> LeaseTTL, available |-> 0]

Until(lease, expires, available) ==
    [worker |-> lease.worker, token |-> lease.token,
     expires |-> expires, available |-> available]

-----------------------------------------------------------------------------
(* Operations of the public API *)

Init ==
    /\ runs = [r \in Runs |-> Absent]
    /\ leases = [r \in Runs |-> NoLease]
    /\ held = {}
    /\ claims = [w \in Workers |-> [r \in Runs |-> NoClaim]]

\* Accept inserts a new Run. Idempotent replay is the subject of module Acceptance.
Accept(r) ==
    /\ runs[r] = Absent
    /\ runs' = [runs EXCEPT ![r] = [state |-> "CREATED", revision |-> 1,
                                   failure |-> NoFailure]]
    /\ UNCHANGED <<leases, held, claims>>

\* Repository.Cancel; RecoverIntegration cancels overdue Runs the same way.
Cancel(r) ==
    /\ CancellationAllowed(runs[r])
    /\ runs' = [runs EXCEPT ![r] = RequestCancellation(@)]
    /\ UNCHANGED <<leases, held, claims>>

-----------------------------------------------------------------------------
(* Operations of workers *)

\* ClaimRuns leases a batch in one transaction. Rows locked by others are skipped, so
\* the batch may be any part of the eligible Runs within the free capacity.
LeaseBatch(w, batch, token) ==
    /\ batch # {}
    /\ Cardinality(batch) <= Capacity - Cardinality(Claimed(w))
    /\ \A r \in batch : Eligible(r) /\ FreshToken(r, token[r])
    /\ leases' = [r \in Runs |-> IF r \in batch THEN Grant(w, token[r]) ELSE leases[r]]
    /\ UNCHANGED <<runs, held>>

\* startAvailable keeps the claims of Runs that are not active. The claim of a Run whose
\* earlier attempt is not over, and the whole batch when the answer is lost, is
\* dropped; the leases stay.
ClaimRuns(w, batch, kept, token) ==
    /\ LeaseBatch(w, batch, token)
    /\ kept \subseteq batch \ Claimed(w)
    /\ claims' = [claims EXCEPT ![w] =
                    [r \in Runs |-> IF r \in kept THEN Snapshot(r, token[r]) ELSE @[r]]]

ExtendLease(w, r) ==
    /\ Owned(w, r)
    /\ leases' = [leases EXCEPT ![r] = Until(leases[r], LeaseTTL, leases[r].available)]
    /\ UNCHANGED <<runs, held>>

\* RenewClaim. Its caller works on with the snapshot it returns, or with the old one.
RenewClaim(w, r) ==
    /\ ExtendLease(w, r)
    /\ \/ UNCHANGED claims
       \/ claims' = [claims EXCEPT ![w][r] = Snapshot(r, claims[w][r].token)]

\* AdvanceClaim. A terminal transition expires the lease in the same transaction.
AdvanceClaim(w, r, change) ==
    /\ Owned(w, r)
    /\ TransitionAllowed(runs[r], claims[w][r].revision, change)
    /\ runs' = [runs EXCEPT ![r] = Transition(@, change)]
    /\ leases' = IF Terminal(change.state)
                 THEN [leases EXCEPT ![r] = Until(leases[r], 0, leases[r].available)]
                 ELSE leases
    /\ UNCHANGED <<held, claims>>

\* ReserveBenchmark, as the claims see it: a Run that is provisioned takes a benchmark
\* target. The reservation itself is the subject of module BenchmarkTarget.
HoldTarget(w, r) ==
    /\ Owned(w, r)
    /\ runs[r].state = "PROVISIONING"
    /\ claims[w][r].revision = runs[r].revision
    /\ held' = held \union {r}
    /\ UNCHANGED <<runs, leases, claims>>

\* FinishBenchmarkCleanup: the target is released together with the outcome. A Run that
\* is closed already, or whose outcome is the state it is in, keeps its snapshot.
FreeTarget(w, r, change) ==
    /\ Owned(w, r)
    /\ r \in held
    /\ claims[w][r].revision = runs[r].revision
    /\ \/ /\ Terminal(runs[r].state) \/ change.state = runs[r].state
          /\ UNCHANGED runs
       \/ /\ TransitionAllowed(runs[r], claims[w][r].revision, change)
          /\ runs' = [runs EXCEPT ![r] = Transition(@, change)]
    /\ leases' = IF Terminal(runs'[r].state)
                 THEN [leases EXCEPT ![r] = Until(leases[r], 0, leases[r].available)]
                 ELSE leases
    /\ held' = held \ {r}
    /\ UNCHANGED claims

\* The end of an attempt that gives its claim back.
ReleaseClaim(w, r, delay) ==
    /\ Owned(w, r)
    /\ leases' = [leases EXCEPT ![r] = Until(leases[r], 0, delay)]
    /\ claims' = [claims EXCEPT ![w][r] = NoClaim]
    /\ UNCHANGED <<runs, held>>

\* The end of an attempt that does not: it lost its lease or a renewal, its release
\* failed, or the worker shuts down. The lease is left to expire.
ForgetClaim(w, r) ==
    /\ HasClaim(w, r)
    /\ claims' = [claims EXCEPT ![w][r] = NoClaim]
    /\ UNCHANGED <<runs, leases, held>>

\* A worker process dies with all its claims.
LoseClaims(w) ==
    /\ Claimed(w) # {}
    /\ claims' = [claims EXCEPT ![w] = [r \in Runs |-> NoClaim]]
    /\ UNCHANGED <<runs, leases, held>>

TimeLeft(t) == IF t = 0 THEN 0 ELSE t - 1

LeasesAfterTick ==
    [r \in Runs |-> Until(leases[r], TimeLeft(leases[r].expires), TimeLeft(leases[r].available))]

Tick ==
    /\ \E r \in Runs : leases[r].expires > 0 \/ leases[r].available > 0
    /\ leases' = LeasesAfterTick
    /\ UNCHANGED <<runs, held, claims>>

ClaimSome(w) ==
    \E batch \in SUBSET Runs, kept \in SUBSET Runs, token \in [Runs -> Tokens] :
        ClaimRuns(w, batch, kept, token)

UseClaim(w, r) ==
    \/ RenewClaim(w, r)
    \/ HoldTarget(w, r)
    \/ \E change \in Changes : AdvanceClaim(w, r, change) \/ FreeTarget(w, r, change)

EndAttempt(w, r) ==
    \/ \E delay \in 0..MaxDelay : ReleaseClaim(w, r, delay)
    \/ ForgetClaim(w, r)

Next ==
    \/ \E r \in Runs : Accept(r) \/ Cancel(r)
    \/ \E w \in Workers : ClaimSome(w) \/ LoseClaims(w)
    \/ Tick
    \/ \E w \in Workers, r \in Runs : EndAttempt(w, r) \/ UseClaim(w, r)

Spec == Init /\ [][Next]_storeVars

\* Time passes; every attempt ends (Reconcile is bounded and its context is cancelled
\* with its lease); a worker with free capacity polls, and a Run that is eligible at
\* a poll again and again is claimed.
ClaimsRun(w, r) ==
    \E batch \in SUBSET Runs, kept \in SUBSET Runs, token \in [Runs -> Tokens] :
        r \in kept /\ ClaimRuns(w, batch, kept, token)

Fairness ==
    /\ WF_storeVars(Tick)
    /\ \A w \in Workers, r \in Runs : WF_storeVars(EndAttempt(w, r))
    /\ \A r \in Runs : SF_storeVars(\E w \in Workers : ClaimsRun(w, r))

FairSpec == Spec /\ Fairness

-----------------------------------------------------------------------------
(* Properties *)

\* A revision identifies a snapshot: a claim is never ahead of the stored Run, and one
\* at the stored revision shows the stored state.  This is what makes the revision
\* check of AdvanceClaim sound when cancellations and other workers' writes come in
\* between the claim and the write.
RevisionIdentifiesSnapshot ==
    \A w \in Workers, r \in Runs : HasClaim(w, r) =>
        /\ claims[w][r].revision <= runs[r].revision
        /\ claims[w][r].revision = runs[r].revision => claims[w][r].state = runs[r].state

\* A token authorizes the one worker it was given to: no two workers hold the same
\* token of a Run, and the stored token is only ever held by the stored worker, also
\* after answers were lost and leases reassigned.
TokensIdentifyHolders ==
    \A r \in Runs, w \in Workers : HasClaim(w, r) =>
        /\ claims[w][r].token # NoToken
        /\ claims[w][r].token = leases[r].token => leases[r].worker = w
        /\ \A v \in Workers : HasClaim(v, r) /\ claims[v][r].token = claims[w][r].token
                => v = w

\* Ownership that is lost stays lost: a claim that the store rejects once (expired,
\* superseded, or of a closed Run) is never accepted again, whatever happens later.
DeadClaimsStayDead ==
    [][\A w \in Workers, r \in Runs :
          (/\ HasClaim(w, r)
           /\ ~Owned(w, r)
           /\ claims'[w][r].token = claims[w][r].token) => ~Owned(w, r)']_storeVars

\* A Run that is closed stays exactly as it was closed.
TerminalRunsAreFinal ==
    [][\A r \in Runs : runs[r].state \in TerminalStates => runs'[r] = runs[r]]_storeVars

Unfinished(r) == runs[r].state \in ActiveStates \/ r \in held

\* Work is never stranded: a Run that is active, or closed with a benchmark target still
\* held, is leased again if it has no live lease, whether it was released, abandoned by
\* a worker or leased by a commit nobody saw.
LostWorkIsRediscovered ==
    \A r \in Runs :
        (Unfinished(r) /\ leases[r].expires = 0) ~> (leases[r].expires > 0 \/ ~Unfinished(r))

Public == INSTANCE PublicRun WITH phase <- [r \in Runs |-> PhaseOf(runs[r].state)]

\* The store implements PublicRun: however workers and clients interleave, each step
\* of a Run is one the client was promised, or is invisible to it.
ImplementsPublicRun == Public!Spec

=============================================================================
