-------------------------- MODULE ClaimStoreProofs --------------------------
(***************************************************************************)
(* Proofs about module ClaimStore for every set of Runs, workers and       *)
(* tokens and every lease duration, delay and capacity.                    *)
(***************************************************************************)
EXTENDS ClaimStore, TLAPS

\* Zenon is the default; where a leaf needs arithmetic or records, it cites SMT.
USE ZenonT(60)

-----------------------------------------------------------------------------
(* The pinned lifecycle *)

\* The states without an outgoing edge are exactly the five terminal ones.
LEMMA TerminalIsTerminalStates ==
    ASSUME NEW s
    PROVE  Terminal(s) <=> s \in TerminalStates
<1>1. ASSUME s \in TerminalStates PROVE Terminal(s)
  BY <1>1 DEF Terminal, WithoutSuccessor, CanTransition, States, TerminalStates, ActiveStates
<1>2. ASSUME Terminal(s) PROVE s \in TerminalStates
  <2>1. s \in States /\ \A to \in States : ~CanTransition(s, to)
    BY <1>2 DEF Terminal, WithoutSuccessor
  <2>2. "VALIDATING" \in States /\ "PROVISIONING" \in States /\ "RUNNING" \in States
        /\ "COLLECTING" \in States /\ "ANALYZING" \in States /\ "REPORTING" \in States
        /\ "COMPLETED" \in States /\ "ABORTED" \in States
    BY DEF States, ActiveStates, TerminalStates
  <2>3. QED
    BY <2>1, <2>2 DEF CanTransition, States, ActiveStates, TerminalStates
<1>3. QED BY <1>1, <1>2

\* An edge of the table leads from an active state to a state that is not the first one.
LEMMA EdgesAreForward ==
    ASSUME NEW from, NEW to, CanTransition(from, to)
    PROVE  from \in ActiveStates /\ to \in States /\ to # "CREATED"
BY DEF CanTransition, ActiveStates, TerminalStates, States

\* Runs as the store keeps them, the missing one included.
Snapshots ==
    [state : States \union {"ABSENT"}, revision : Nat,
     failure : FailureCodes \union {NoFailure}]

\* What Transition returns is a snapshot, one revision later.
LEMMA TransitionTyped ==
    ASSUME NEW run \in Snapshots, NEW change \in Changes
    PROVE  /\ Transition(run, change) \in Snapshots
           /\ Transition(run, change).revision = run.revision + 1
           /\ Transition(run, change).state = change.state
<1>1. run.revision \in Nat
  BY DEF Snapshots
<1>2. change.state \in States /\ change.failure \in FailureCodes \union {NoFailure}
  BY DEF Changes
<1>3. QED BY <1>1, <1>2, SMTT(30) DEF Transition, Snapshots

\* A legal transition takes an active Run along an edge of the table.
LEMMA TransitionSnapshot ==
    ASSUME NEW run \in Snapshots, NEW change \in Changes, NEW expected,
           TransitionAllowed(run, expected, change)
    PROVE  /\ Transition(run, change) \in Snapshots
           /\ Transition(run, change).revision = run.revision + 1
           /\ Transition(run, change).state = change.state
           /\ run.state \in ActiveStates
           /\ run.revision = expected
           /\ CanTransition(run.state, change.state)
BY TransitionTyped, EdgesAreForward DEF TransitionAllowed

\* Cancellation leaves the Run alone or is a legal transition of it.
LEMMA CancellationSnapshot ==
    ASSUME NEW run \in Snapshots, CancellationAllowed(run)
    PROVE  /\ RequestCancellation(run) \in Snapshots
           /\ \/ RequestCancellation(run) = run
              \/ /\ run.state \in ActiveStates
                 /\ RequestCancellation(run).revision = run.revision + 1
                 /\ RequestCancellation(run).state = CancellationTarget(run.state)
                 /\ CanTransition(run.state, CancellationTarget(run.state))
<1>1. CASE AlreadyCancelled(run)
  BY <1>1 DEF RequestCancellation
<1>2. CASE ~AlreadyCancelled(run)
  <2> DEFINE c == Change(CancellationTarget(run.state))
  <2>1. c \in Changes /\ c.state = CancellationTarget(run.state)
    BY DEF Change, CancellationTarget, Changes, States, ActiveStates, TerminalStates
  <2>2. TransitionAllowed(run, run.revision, c)
    BY <1>2 DEF CancellationAllowed
  <2>3. RequestCancellation(run) = Transition(run, c)
    BY <1>2 DEF RequestCancellation
  <2> HIDE DEF c
  <2>4. QED BY <2>1, <2>2, <2>3, TransitionSnapshot, SMTT(30)
<1>3. QED BY <1>1, <1>2

-----------------------------------------------------------------------------
(* Runs in the store *)

\* A Run that Transition accepts is active, and the snapshot it returns is well typed,
\* one revision further and in the state asked for.
LEMMA TransitionResult ==
    ASSUME NEW run \in RunRecords, NEW change \in Changes, NEW expected,
           TransitionAllowed(run, expected, change)
    PROVE  /\ Transition(run, change) \in RunRecords
           /\ Transition(run, change).revision = run.revision + 1
           /\ Transition(run, change).state = change.state
           /\ run.state \in ActiveStates
           /\ run.revision = expected
           /\ CanTransition(run.state, change.state)
BY TransitionSnapshot DEF RunRecords, Snapshots

\* Cancellation leaves the Run alone or is a legal transition of it.
LEMMA CancellationResult ==
    ASSUME NEW run \in RunRecords, CancellationAllowed(run)
    PROVE  /\ RequestCancellation(run) \in RunRecords
           /\ \/ RequestCancellation(run) = run
              \/ /\ run.state \in ActiveStates
                 /\ RequestCancellation(run).revision = run.revision + 1
                 /\ RequestCancellation(run).state = CancellationTarget(run.state)
                 /\ CanTransition(run.state, CancellationTarget(run.state))
BY CancellationSnapshot DEF RunRecords, Snapshots

-----------------------------------------------------------------------------
(* Type correctness *)

\* What overwriting one claim leaves in worker memory.
LEMMA SetClaim ==
    ASSUME StoreTypeOK, NEW w \in Workers, NEW r \in Runs, NEW c \in ClaimRecords,
           claims' = [claims EXCEPT ![w][r] = c]
    PROVE  /\ claims' \in [Workers -> [Runs -> ClaimRecords]]
           /\ \A v \in Workers, q \in Runs :
                claims'[v][q] = IF v = w /\ q = r THEN c ELSE claims[v][q]
BY DEF StoreTypeOK

\* An empty place in worker memory (no attempt for the Run) is well typed.
LEMMA NoClaimTyped == NoClaim \in ClaimRecords
BY DEF NoClaim, ClaimRecords

\* The claim that ClaimRuns and RenewClaim return shows the stored Run.
LEMMA SnapshotTyped ==
    ASSUME StoreTypeOK, NEW r \in Runs, NEW t \in Tokens \union {NoToken}
    PROVE  /\ Snapshot(r, t) \in ClaimRecords
           /\ Snapshot(r, t).token = t
           /\ Snapshot(r, t).state = runs[r].state
           /\ Snapshot(r, t).revision = runs[r].revision
BY DEF StoreTypeOK, Snapshot, ClaimRecords, RunRecords

\* A lease whose deadlines are replaced keeps its worker and token.
LEMMA UntilFields ==
    ASSUME NEW l, NEW e, NEW a
    PROVE  /\ Until(l, e, a).worker = l.worker
           /\ Until(l, e, a).token = l.token
           /\ Until(l, e, a).expires = e
           /\ Until(l, e, a).available = a
BY DEF Until

\* A lease row whose deadlines are replaced by ones in range stays well typed.
LEMMA UntilTyped ==
    ASSUME NEW l \in LeaseRecords, NEW e \in 0..LeaseTTL, NEW a \in 0..MaxDelay
    PROVE  Until(l, e, a) \in LeaseRecords
BY DEF Until, LeaseRecords

\* What the type invariant says of one lease row, and two deadlines in range.
LEMMA LeaseTyped ==
    ASSUME StoreTypeOK, NEW r \in Runs
    PROVE  /\ leases[r] \in LeaseRecords
           /\ leases[r].expires \in 0..LeaseTTL
           /\ leases[r].available \in 0..MaxDelay
           /\ 0 \in 0..LeaseTTL
           /\ LeaseTTL \in 0..LeaseTTL
<1>1. leases[r] \in LeaseRecords
  BY DEF StoreTypeOK
<1>2. leases[r].expires \in 0..LeaseTTL /\ leases[r].available \in 0..MaxDelay
  BY <1>1 DEF LeaseRecords
<1>3. 0 \in 0..LeaseTTL /\ LeaseTTL \in 0..LeaseTTL
  BY TTLAssumption, SMTT(30)
<1>4. QED BY <1>1, <1>2, <1>3

\* A deadline stays in range when time passes.
LEMMA TimeLeftTyped ==
    ASSUME NEW n \in Nat, NEW t \in 0..n
    PROVE  TimeLeft(t) \in 0..n
BY SMTT(30) DEF TimeLeft

\* The row that tryAcquireClaim writes is well typed and carries the new token.
LEMMA GrantTyped ==
    ASSUME NEW w \in Workers, NEW t \in Tokens
    PROVE  /\ Grant(w, t) \in LeaseRecords
           /\ Grant(w, t).worker = w
           /\ Grant(w, t).token = t
           /\ Grant(w, t).expires = LeaseTTL
BY TTLAssumption, DelayAssumption, SMTT(30) DEF Grant, LeaseRecords

\* The worker's memory after a claim.
LEMMA ClaimRunsClaims ==
    ASSUME StoreTypeOK, NEW w \in Workers, NEW batch, NEW kept,
           NEW token \in [Runs -> Tokens], ClaimRuns(w, batch, kept, token)
    PROVE  /\ claims' \in [Workers -> [Runs -> ClaimRecords]]
           /\ \A v \in Workers, q \in Runs :
                \/ claims'[v][q] = claims[v][q]
                \/ (v = w /\ q \in batch /\ claims'[v][q] = Snapshot(q, token[q]))
<1> DEFINE f == [q \in Runs |-> IF q \in kept THEN Snapshot(q, token[q]) ELSE claims[w][q]]
<1>1. claims' = [claims EXCEPT ![w] = f] /\ kept \subseteq batch
  BY DEF ClaimRuns
<1>2. \A q \in Runs : Snapshot(q, token[q]) \in ClaimRecords
  BY SnapshotTyped
<1>3. f \in [Runs -> ClaimRecords]
  BY <1>2 DEF StoreTypeOK
<1>4. \A q \in Runs : f[q] = claims[w][q] \/ (q \in batch /\ f[q] = Snapshot(q, token[q]))
  BY <1>1
<1> HIDE DEF f
<1>5. claims' \in [Workers -> [Runs -> ClaimRecords]]
  BY <1>1, <1>3 DEF StoreTypeOK
<1>6. \A v \in Workers : claims'[v] = IF v = w THEN f ELSE claims[v]
  BY <1>1 DEF StoreTypeOK
<1>7. QED BY <1>4, <1>5, <1>6

\* A worker process that dies drops claims and changes none.
LEMMA LoseClaimsClaims ==
    ASSUME StoreTypeOK, NEW w \in Workers, LoseClaims(w)
    PROVE  /\ claims' \in [Workers -> [Runs -> ClaimRecords]]
           /\ \A v \in Workers, q \in Runs :
                claims'[v][q] = claims[v][q] \/ claims'[v][q] = NoClaim
BY NoClaimTyped DEF LoseClaims, StoreTypeOK

\* Releasing a target writes at most one transition and expires at most one lease.
LEMMA FreeTargetWrites ==
    ASSUME StoreTypeOK, NEW w \in Workers, NEW r \in Runs, NEW change \in Changes,
           FreeTarget(w, r, change)
    PROVE  /\ \/ runs' = runs
              \/ /\ TransitionAllowed(runs[r], claims[w][r].revision, change)
                 /\ runs' = [runs EXCEPT ![r] = Transition(runs[r], change)]
           /\ leases' \in [Runs -> LeaseRecords]
           /\ \A q \in Runs : \/ leases'[q] = leases[q]
                              \/ leases'[q] = Until(leases[q], 0, leases[q].available)
           /\ held' = held \ {r}
           /\ claims' = claims
<1>1. Until(leases[r], 0, leases[r].available) \in LeaseRecords
  BY UntilTyped, LeaseTyped
<1>2. \/ leases' = leases
      \/ leases' = [leases EXCEPT ![r] = Until(leases[r], 0, leases[r].available)]
  BY DEF FreeTarget
<1>3. /\ leases' \in [Runs -> LeaseRecords]
      /\ \A q \in Runs : \/ leases'[q] = leases[q]
                         \/ leases'[q] = Until(leases[q], 0, leases[q].available)
  BY <1>1, <1>2 DEF StoreTypeOK
<1>4. QED BY <1>3 DEF FreeTarget

\* Each step of the store keeps the types of its tables and of worker memory.
LEMMA TypeStep ==
    ASSUME StoreTypeOK, [Next]_storeVars
    PROVE  StoreTypeOK'
<1>1. ASSUME NEW r \in Runs, Accept(r) PROVE StoreTypeOK'
  <2>1. [state |-> "CREATED", revision |-> 1, failure |-> NoFailure] \in RunRecords
    BY DEF RunRecords, States, ActiveStates
  <2>2. QED BY <1>1, <2>1 DEF Accept, StoreTypeOK
<1>2. ASSUME NEW r \in Runs, Cancel(r) PROVE StoreTypeOK'
  <2>1. RequestCancellation(runs[r]) \in RunRecords
    BY <1>2, CancellationResult DEF Cancel, StoreTypeOK
  <2>2. QED BY <1>2, <2>1 DEF Cancel, StoreTypeOK
<1>3. ASSUME NEW w \in Workers, NEW batch \in SUBSET Runs, NEW token \in [Runs -> Tokens],
             LeaseBatch(w, batch, token)
      PROVE  /\ leases' \in [Runs -> LeaseRecords]
             /\ runs' = runs /\ held' = held
  <2>1. \A r \in Runs : Grant(w, token[r]) \in LeaseRecords
    BY GrantTyped
  <2>2. QED BY <1>3, <2>1 DEF LeaseBatch, StoreTypeOK
<1>4. ASSUME NEW w \in Workers, ClaimSome(w) PROVE StoreTypeOK'
  <2>1. PICK batch \in SUBSET Runs, kept \in SUBSET Runs, token \in [Runs -> Tokens] :
            ClaimRuns(w, batch, kept, token)
    BY <1>4 DEF ClaimSome
  <2>2. LeaseBatch(w, batch, token)
    BY <2>1 DEF ClaimRuns
  <2>3. claims' \in [Workers -> [Runs -> ClaimRecords]]
    BY <2>1, ClaimRunsClaims
  <2>4. QED BY <1>3, <2>2, <2>3 DEF StoreTypeOK
<1>5. ASSUME NEW w \in Workers, NEW r \in Runs, RenewClaim(w, r) PROVE StoreTypeOK'
  <2>1. Until(leases[r], LeaseTTL, leases[r].available) \in LeaseRecords
    BY UntilTyped, LeaseTyped
  <2>2. claims[w][r].token \in Tokens \union {NoToken}
    BY DEF StoreTypeOK, ClaimRecords
  <2>3. claims' \in [Workers -> [Runs -> ClaimRecords]]
    BY <1>5, <2>2, SnapshotTyped, SetClaim, SMTT(30) DEF RenewClaim, ExtendLease, StoreTypeOK
  <2>4. QED BY <1>5, <2>1, <2>3 DEF RenewClaim, ExtendLease, StoreTypeOK
<1>6. ASSUME NEW w \in Workers, NEW r \in Runs, NEW change \in Changes,
             AdvanceClaim(w, r, change)
      PROVE  StoreTypeOK'
  <2>1. Transition(runs[r], change) \in RunRecords
    BY <1>6, TransitionResult DEF AdvanceClaim, StoreTypeOK
  <2>2. Until(leases[r], 0, leases[r].available) \in LeaseRecords
    BY UntilTyped, LeaseTyped
  <2>3. QED BY <1>6, <2>1, <2>2 DEF AdvanceClaim, StoreTypeOK
<1>7. ASSUME NEW w \in Workers, NEW r \in Runs, EndAttempt(w, r) PROVE StoreTypeOK'
  <2>1. ASSUME NEW delay \in 0..MaxDelay, ReleaseClaim(w, r, delay) PROVE StoreTypeOK'
    <3>1. Until(leases[r], 0, delay) \in LeaseRecords
      BY UntilTyped, LeaseTyped
    <3>2. claims' \in [Workers -> [Runs -> ClaimRecords]]
      BY <2>1, NoClaimTyped, SetClaim DEF ReleaseClaim
    <3>3. QED BY <2>1, <3>1, <3>2 DEF ReleaseClaim, StoreTypeOK
  <2>2. ASSUME ForgetClaim(w, r) PROVE StoreTypeOK'
    <3>1. claims' \in [Workers -> [Runs -> ClaimRecords]]
      BY <2>2, NoClaimTyped, SetClaim DEF ForgetClaim
    <3>2. QED BY <2>2, <3>1 DEF ForgetClaim, StoreTypeOK
  <2>3. QED BY <1>7, <2>1, <2>2 DEF EndAttempt
<1>8. ASSUME Tick PROVE StoreTypeOK'
  <2>1. \A r \in Runs : Until(leases[r], TimeLeft(leases[r].expires),
                              TimeLeft(leases[r].available)) \in LeaseRecords
    <3>1. ASSUME NEW r \in Runs
          PROVE  /\ leases[r] \in LeaseRecords
                 /\ TimeLeft(leases[r].expires) \in 0..LeaseTTL
                 /\ TimeLeft(leases[r].available) \in 0..MaxDelay
      BY LeaseTyped, TimeLeftTyped, TTLAssumption, DelayAssumption
    <3>2. QED BY <3>1, UntilTyped
  <2>2. QED BY <1>8, <2>1 DEF Tick, LeasesAfterTick, StoreTypeOK
<1>9. ASSUME NEW w \in Workers, LoseClaims(w) PROVE StoreTypeOK'
  BY <1>9, LoseClaimsClaims DEF LoseClaims, StoreTypeOK
<1>10. CASE UNCHANGED storeVars
  BY <1>10 DEF storeVars, StoreTypeOK
<1>11. ASSUME NEW w \in Workers, NEW r \in Runs, HoldTarget(w, r) PROVE StoreTypeOK'
  BY <1>11 DEF HoldTarget, StoreTypeOK
<1>12. ASSUME NEW w \in Workers, NEW r \in Runs, NEW change \in Changes,
              FreeTarget(w, r, change)
       PROVE  StoreTypeOK'
  <2>1. runs[r] \in RunRecords
    BY DEF StoreTypeOK
  <2>2. TransitionAllowed(runs[r], claims[w][r].revision, change)
          => Transition(runs[r], change) \in RunRecords
    BY <2>1, TransitionResult
  <2>3. QED BY <1>12, <2>2, FreeTargetWrites, SMTT(30) DEF StoreTypeOK
<1>13. QED
  BY <1>1, <1>2, <1>4, <1>5, <1>6, <1>7, <1>8, <1>9, <1>10, <1>11, <1>12
  DEF Next, UseClaim

-----------------------------------------------------------------------------
(* The inductive invariant *)

IInv == StoreTypeOK /\ RevisionIdentifiesSnapshot /\ TokensIdentifyHolders

\* A step leaves a Run alone, or moves it on by one revision when it is not closed.
LEMMA RunStep ==
    ASSUME StoreTypeOK, [Next]_storeVars, NEW r \in Runs
    PROVE  \/ runs'[r] = runs[r]
           \/ /\ runs[r].state \notin TerminalStates
              /\ runs'[r].revision = runs[r].revision + 1
<1>1. ASSUME NEW q \in Runs, Accept(q)
      PROVE  \/ runs'[r] = runs[r]
             \/ /\ runs[r].state \notin TerminalStates
                /\ runs'[r].revision = runs[r].revision + 1
  BY <1>1, SMTT(30) DEF Accept, StoreTypeOK, Absent, TerminalStates
<1>2. ASSUME NEW q \in Runs, Cancel(q)
      PROVE  \/ runs'[r] = runs[r]
             \/ /\ runs[r].state \notin TerminalStates
                /\ runs'[r].revision = runs[r].revision + 1
  <2>1. runs[q] \in RunRecords /\ CancellationAllowed(runs[q])
    BY <1>2 DEF Cancel, StoreTypeOK
  <2>2. runs'[r] = IF r = q THEN RequestCancellation(runs[q]) ELSE runs[r]
    BY <1>2 DEF Cancel, StoreTypeOK
  <2>3. QED BY <2>1, <2>2, CancellationResult DEF ActiveStates, TerminalStates
<1>3. ASSUME NEW w \in Workers, NEW q \in Runs, NEW change \in Changes,
             AdvanceClaim(w, q, change)
      PROVE  \/ runs'[r] = runs[r]
             \/ /\ runs[r].state \notin TerminalStates
                /\ runs'[r].revision = runs[r].revision + 1
  <2>1. runs[q] \in RunRecords /\ TransitionAllowed(runs[q], claims[w][q].revision, change)
    BY <1>3 DEF AdvanceClaim, StoreTypeOK
  <2>2. runs'[r] = IF r = q THEN Transition(runs[q], change) ELSE runs[r]
    BY <1>3 DEF AdvanceClaim, StoreTypeOK
  <2>3. QED BY <2>1, <2>2, TransitionResult, SMTT(30) DEF ActiveStates, TerminalStates
<1>4. ASSUME NEW w \in Workers, NEW q \in Runs, NEW change \in Changes,
             FreeTarget(w, q, change)
      PROVE  \/ runs'[r] = runs[r]
             \/ /\ runs[r].state \notin TerminalStates
                /\ runs'[r].revision = runs[r].revision + 1
  <2>1. CASE runs' = runs
    BY <2>1
  <2>2. CASE /\ TransitionAllowed(runs[q], claims[w][q].revision, change)
             /\ runs' = [runs EXCEPT ![q] = Transition(runs[q], change)]
    <3>1. runs[q] \in RunRecords
      BY DEF StoreTypeOK
    <3>2. runs'[r] = IF r = q THEN Transition(runs[q], change) ELSE runs[r]
      BY <2>2 DEF StoreTypeOK
    <3>3. QED BY <2>2, <3>1, <3>2, TransitionResult, SMTT(30) DEF ActiveStates, TerminalStates
  <2>3. QED BY <1>4, <2>1, <2>2, FreeTargetWrites, SMTT(30)
<1>5. ASSUME runs' = runs
      PROVE  \/ runs'[r] = runs[r]
             \/ /\ runs[r].state \notin TerminalStates
                /\ runs'[r].revision = runs[r].revision + 1
  BY <1>5
<1>6. QED
  BY <1>1, <1>2, <1>3, <1>4, <1>5
  DEF Next, HoldTarget, ClaimSome, ClaimRuns, LoseClaims, LeaseBatch, UseClaim, RenewClaim, ExtendLease,
      EndAttempt, ReleaseClaim, ForgetClaim, Tick, storeVars

\* A step leaves a claim alone, drops it, or takes a snapshot of the Run it does not
\* change.
LEMMA ClaimStep ==
    ASSUME StoreTypeOK, [Next]_storeVars, NEW w \in Workers, NEW r \in Runs
    PROVE  \/ claims'[w][r] = claims[w][r]
           \/ claims'[w][r] = NoClaim
           \/ /\ runs' = runs
              /\ claims'[w][r].state = runs[r].state
              /\ claims'[w][r].revision = runs[r].revision
<1> DEFINE Goal == \/ claims'[w][r] = claims[w][r]
                   \/ claims'[w][r] = NoClaim
                   \/ /\ runs' = runs
                      /\ claims'[w][r].state = runs[r].state
                      /\ claims'[w][r].revision = runs[r].revision
<1>1. ASSUME NEW v \in Workers, ClaimSome(v) PROVE Goal
  <2>1. PICK batch \in SUBSET Runs, kept \in SUBSET Runs, token \in [Runs -> Tokens] :
            ClaimRuns(v, batch, kept, token)
    BY <1>1 DEF ClaimSome
  <2>2. runs' = runs
    BY <2>1 DEF ClaimRuns, LeaseBatch
  <2>3. \A u \in Workers, q \in Runs :
            \/ claims'[u][q] = claims[u][q]
            \/ (u = v /\ q \in batch /\ claims'[u][q] = Snapshot(q, token[q]))
    BY <2>1, ClaimRunsClaims, SMTT(30)
  <2>4. claims'[w][r] = claims[w][r] \/ claims'[w][r] = Snapshot(r, token[r])
    BY <2>3
  <2>5. QED BY <2>2, <2>4, SnapshotTyped, SMTT(30)
<1>2. ASSUME NEW v \in Workers, NEW q \in Runs, RenewClaim(v, q) PROVE Goal
  <2>1. runs' = runs
    BY <1>2 DEF RenewClaim, ExtendLease
  <2>2. claims[v][q].token \in Tokens \union {NoToken}
    BY DEF StoreTypeOK, ClaimRecords
  <2>3. claims'[w][r] = claims[w][r]
        \/ (q = r /\ claims'[w][r] = Snapshot(q, claims[v][q].token))
    BY <1>2, <2>2, SnapshotTyped, SetClaim, SMTT(30) DEF RenewClaim, ExtendLease
  <2>4. QED BY <2>1, <2>2, <2>3, SnapshotTyped, SMTT(30)
<1>3. ASSUME NEW v \in Workers, NEW q \in Runs, EndAttempt(v, q) PROVE Goal
  <2>1. claims' = [claims EXCEPT ![v][q] = NoClaim]
    BY <1>3 DEF EndAttempt, ReleaseClaim, ForgetClaim
  <2>2. QED BY <2>1, NoClaimTyped, SetClaim
<1>4. ASSUME NEW v \in Workers, LoseClaims(v) PROVE Goal
  BY <1>4, LoseClaimsClaims
<1>5. ASSUME claims' = claims PROVE Goal
  BY <1>5
<1>6. QED
  BY <1>1, <1>2, <1>3, <1>4, <1>5 
  DEF Next, Accept, Cancel, UseClaim, AdvanceClaim, HoldTarget, FreeTarget, Tick, storeVars

\* A step keeps revisions identifying snapshots.
LEMMA SnapshotsStep ==
    ASSUME StoreTypeOK, StoreTypeOK', RevisionIdentifiesSnapshot, [Next]_storeVars
    PROVE  RevisionIdentifiesSnapshot'
<1> SUFFICES ASSUME NEW w \in Workers, NEW r \in Runs, claims'[w][r] # NoClaim
             PROVE  /\ claims'[w][r].revision <= runs'[r].revision
                    /\ claims'[w][r].revision = runs'[r].revision
                         => claims'[w][r].state = runs'[r].state
  BY DEF RevisionIdentifiesSnapshot, HasClaim
<1>1. /\ claims[w][r].revision \in Nat /\ runs[r].revision \in Nat
      /\ claims'[w][r].revision \in Nat /\ runs'[r].revision \in Nat
  BY SMTT(30) DEF StoreTypeOK, ClaimRecords, RunRecords
<1>2. CASE claims'[w][r] = claims[w][r]
  <2>1. /\ claims[w][r].revision <= runs[r].revision
        /\ claims[w][r].revision = runs[r].revision => claims[w][r].state = runs[r].state
    BY <1>2 DEF RevisionIdentifiesSnapshot, HasClaim
  <2>2. QED BY <1>1, <1>2, <2>1, RunStep, SMTT(30)
<1>3. CASE /\ runs' = runs
           /\ claims'[w][r].state = runs[r].state
           /\ claims'[w][r].revision = runs[r].revision
  BY <1>1, <1>3, SMTT(30)
<1>4. QED BY <1>2, <1>3, ClaimStep

\* Every step but a claim.
NonClaimStep ==
    \/ \E r \in Runs : Accept(r) \/ Cancel(r)
    \/ \E w \in Workers, r \in Runs : UseClaim(w, r) \/ EndAttempt(w, r)
    \/ \E w \in Workers : LoseClaims(w)
    \/ Tick
    \/ UNCHANGED storeVars

\* A step of the store is a claim by some worker, or grants no lease.
LEMMA StepCases ==
    ASSUME [Next]_storeVars
    PROVE  NonClaimStep \/ \E w \in Workers : ClaimSome(w)
BY DEF Next, NonClaimStep

\* Only a claim writes a worker and a token into a lease.
LEMMA NonClaimLeases ==
    ASSUME StoreTypeOK, NonClaimStep, NEW r \in Runs
    PROVE  leases'[r].worker = leases[r].worker /\ leases'[r].token = leases[r].token
<1> DEFINE Same == leases'[r].worker = leases[r].worker /\ leases'[r].token = leases[r].token
<1>1. ASSUME NEW w \in Workers, NEW q \in Runs, RenewClaim(w, q) PROVE Same
  <2>1. leases'[r] = IF r = q THEN Until(leases[r], LeaseTTL, leases[r].available)
                     ELSE leases[r]
    BY <1>1 DEF RenewClaim, ExtendLease, StoreTypeOK
  <2>2. QED BY <2>1, UntilFields, SMTT(30)
<1>2. ASSUME NEW w \in Workers, NEW q \in Runs, NEW change \in Changes,
             AdvanceClaim(w, q, change)
      PROVE  Same
  <2>1. leases'[r] = leases[r] \/ leases'[r] = Until(leases[r], 0, leases[r].available)
    BY <1>2 DEF AdvanceClaim, StoreTypeOK
  <2>2. QED BY <2>1, UntilFields, SMTT(30)
<1>3. ASSUME NEW w \in Workers, NEW q \in Runs, NEW delay \in 0..MaxDelay,
             ReleaseClaim(w, q, delay)
      PROVE  Same
  <2>1. leases'[r] = leases[r] \/ leases'[r] = Until(leases[r], 0, delay)
    BY <1>3 DEF ReleaseClaim, StoreTypeOK
  <2>2. QED BY <2>1, UntilFields, SMTT(30)
<1>4. ASSUME Tick PROVE Same
  <2>1. leases'[r] = Until(leases[r], TimeLeft(leases[r].expires),
                           TimeLeft(leases[r].available))
    BY <1>4 DEF Tick, LeasesAfterTick
  <2>2. QED BY <2>1, UntilFields, SMTT(30)
<1>5. ASSUME leases' = leases PROVE Same
  BY <1>5
<1>6. ASSUME NEW w \in Workers, NEW q \in Runs, NEW change \in Changes,
             FreeTarget(w, q, change)
      PROVE  Same
  BY <1>6, FreeTargetWrites, UntilFields, SMTT(30)
<1>7. QED
  BY <1>1, <1>2, <1>3, <1>4, <1>5, <1>6
  DEF NonClaimStep, Accept, Cancel, UseClaim, HoldTarget, EndAttempt, ForgetClaim, LoseClaims, storeVars

\* Other steps keep a claim's token or drop the claim.
LEMMA NonClaimClaims ==
    ASSUME StoreTypeOK, NonClaimStep, NEW w \in Workers, NEW r \in Runs,
           claims'[w][r] # NoClaim
    PROVE  HasClaim(w, r) /\ claims'[w][r].token = claims[w][r].token
<1> DEFINE Same == HasClaim(w, r) /\ claims'[w][r].token = claims[w][r].token
<1>1. ASSUME NEW v \in Workers, NEW q \in Runs, RenewClaim(v, q) PROVE Same
  <2>1. claims[v][q].token \in Tokens \union {NoToken} /\ HasClaim(v, q)
    BY <1>1, SMTT(30) DEF StoreTypeOK, ClaimRecords, RenewClaim, ExtendLease, Owned
  <2>2. claims'[w][r] = claims[w][r]
        \/ (q = r /\ v = w /\ claims'[w][r] = Snapshot(q, claims[v][q].token))
    BY <1>1, <2>1, SnapshotTyped, SetClaim, SMTT(30) DEF RenewClaim, ExtendLease
  <2>3. QED BY <2>1, <2>2, SnapshotTyped, SMTT(30) DEF HasClaim
<1>2. ASSUME NEW v \in Workers, NEW q \in Runs, EndAttempt(v, q) PROVE Same
  <2>1. claims' = [claims EXCEPT ![v][q] = NoClaim]
    BY <1>2 DEF EndAttempt, ReleaseClaim, ForgetClaim
  <2>2. claims'[w][r] = claims[w][r]
    BY <2>1, NoClaimTyped, SetClaim
  <2>3. QED BY <2>2 DEF HasClaim
<1>3. ASSUME NEW v \in Workers, LoseClaims(v) PROVE Same
  BY <1>3, LoseClaimsClaims DEF HasClaim
<1>4. ASSUME claims' = claims PROVE Same
  BY <1>4 DEF HasClaim
<1>5. QED
  BY <1>1, <1>2, <1>3, <1>4
  DEF NonClaimStep, Accept, Cancel, UseClaim, AdvanceClaim, HoldTarget, FreeTarget, Tick, storeVars

\* A step keeps tokens identifying holders.
LEMMA TokensStep ==
    ASSUME StoreTypeOK, TokensIdentifyHolders, [Next]_storeVars
    PROVE  TokensIdentifyHolders'
<1>1. CASE NonClaimStep
  BY <1>1, NonClaimLeases, NonClaimClaims, SMTT(30) DEF TokensIdentifyHolders, HasClaim
<1>2. ASSUME NEW w \in Workers, ClaimSome(w) PROVE TokensIdentifyHolders'
  <2>1. PICK batch \in SUBSET Runs, kept \in SUBSET Runs, token \in [Runs -> Tokens] :
            ClaimRuns(w, batch, kept, token)
    BY <1>2 DEF ClaimSome
  <2>2. LeaseBatch(w, batch, token)
    BY <2>1 DEF ClaimRuns
  <2> SUFFICES ASSUME NEW r \in Runs, NEW v \in Workers, claims'[v][r] # NoClaim
               PROVE  /\ claims'[v][r].token # NoToken
                      /\ claims'[v][r].token = leases'[r].token => leases'[r].worker = v
                      /\ \A u \in Workers :
                           claims'[u][r] # NoClaim /\ claims'[u][r].token = claims'[v][r].token
                               => u = v
    BY DEF TokensIdentifyHolders, HasClaim
  <2>3. leases'[r] = IF r \in batch THEN Grant(w, token[r]) ELSE leases[r]
    BY <2>2 DEF LeaseBatch
  <2>4. r \in batch => FreshToken(r, token[r])
    BY <2>2 DEF LeaseBatch
  <2>5. \A u \in Workers :
            \/ claims'[u][r] = claims[u][r]
            \/ (u = w /\ r \in batch /\ claims'[u][r].token = token[r])
    <3>1. token[r] \in Tokens \union {NoToken}
      OBVIOUS
    <3>2. Snapshot(r, token[r]).token = token[r]
      BY <3>1, SnapshotTyped
    <3>3. QED BY <2>1, <3>2, ClaimRunsClaims, SMTT(30)
  <2>6. token[r] \in Tokens /\ token[r] # NoToken
    BY NoneAssumption
  <2>7. Grant(w, token[r]).worker = w /\ Grant(w, token[r]).token = token[r]
    BY <2>6, GrantTyped
  <2>8. QED
    BY <2>3, <2>4, <2>5, <2>6, <2>7, SMTT(30) DEF TokensIdentifyHolders, HasClaim, FreshToken
<1>3. QED BY <1>1, <1>2, StepCases

-----------------------------------------------------------------------------
(* Theorems *)

\* The empty store satisfies the inductive invariant.
LEMMA InitIInv == Init => IInv
<1> SUFFICES ASSUME Init PROVE IInv
  OBVIOUS
<1>1. Absent \in RunRecords /\ NoLease \in LeaseRecords /\ NoClaim \in ClaimRecords
  BY TTLAssumption, DelayAssumption, SMTT(30)
  DEF Absent, RunRecords, NoLease, LeaseRecords, NoClaim, ClaimRecords
<1>2. StoreTypeOK
  BY <1>1 DEF Init, StoreTypeOK
<1>3. \A w \in Workers, r \in Runs : ~HasClaim(w, r)
  BY DEF Init, HasClaim
<1>4. QED BY <1>2, <1>3 DEF IInv, RevisionIdentifiesSnapshot, TokensIdentifyHolders

\* The inductive invariant of the store, for every instance: the tables are well typed,
\* revisions identify snapshots, and tokens identify their holders.
THEOREM StoreInvariant == Spec => []IInv
<1>1. ASSUME IInv, [Next]_storeVars PROVE IInv'
  BY <1>1, TypeStep, SnapshotsStep, TokensStep DEF IInv
<1>2. QED BY <1>1, InitIInv, PTL DEF Spec

\* The type invariant of the store.
THEOREM TypeCorrect == Spec => []StoreTypeOK
BY StoreInvariant, PTL DEF IInv

\* The revision check of AdvanceClaim compares like with like: a claim at the stored
\* revision shows the stored state.
THEOREM RevisionsIdentifySnapshots == Spec => []RevisionIdentifiesSnapshot
BY StoreInvariant, PTL DEF IInv

\* A token authorizes only the worker it was given to.
THEOREM TokensIdentifyTheirHolders == Spec => []TokensIdentifyHolders
BY StoreInvariant, PTL DEF IInv

\* A closed Run is never changed again.
THEOREM TerminalRunsStayClosed == Spec => TerminalRunsAreFinal
<1>1. ASSUME StoreTypeOK, [Next]_storeVars
      PROVE  [\A r \in Runs : runs[r].state \in TerminalStates => runs'[r] = runs[r]]_storeVars
  BY <1>1, RunStep
<1>2. QED BY <1>1, TypeCorrect, PTL DEF Spec, TerminalRunsAreFinal

\* Only a claim brings an expired lease back to life.
LEMMA NonClaimExpiry ==
    ASSUME StoreTypeOK, NonClaimStep, NEW r \in Runs, leases'[r].expires > 0
    PROVE  leases[r].expires > 0
<1>1. leases[r].expires \in Nat
  BY LeaseTyped, SMTT(30)
<1>2. ASSUME NEW w \in Workers, NEW q \in Runs, RenewClaim(w, q)
      PROVE  leases[r].expires > 0
  <2>1. CASE q = r
    BY <1>2, <2>1 DEF RenewClaim, ExtendLease, Owned
  <2>2. CASE q # r
    BY <1>2, <2>2 DEF RenewClaim, ExtendLease, StoreTypeOK
  <2>3. QED BY <2>1, <2>2
<1>3. ASSUME NEW w \in Workers, NEW q \in Runs, NEW change \in Changes,
             AdvanceClaim(w, q, change)
      PROVE  leases[r].expires > 0
  BY <1>3, UntilFields, SMTT(30) DEF AdvanceClaim, StoreTypeOK
<1>4. ASSUME NEW w \in Workers, NEW q \in Runs, NEW delay \in 0..MaxDelay,
             ReleaseClaim(w, q, delay)
      PROVE  leases[r].expires > 0
  BY <1>4, UntilFields, SMTT(30) DEF ReleaseClaim, StoreTypeOK
<1>5. ASSUME Tick PROVE leases[r].expires > 0
  <2>1. leases'[r].expires = TimeLeft(leases[r].expires)
    BY <1>5, UntilFields, SMTT(30) DEF Tick, LeasesAfterTick
  <2>2. QED BY <1>1, <2>1, SMTT(30) DEF TimeLeft
<1>6. ASSUME leases' = leases PROVE leases[r].expires > 0
  BY <1>6
<1>7. ASSUME NEW w \in Workers, NEW q \in Runs, NEW change \in Changes,
             FreeTarget(w, q, change)
      PROVE  leases[r].expires > 0
  BY <1>7, FreeTargetWrites, UntilFields, SMTT(30)
<1>8. QED
  BY <1>2, <1>3, <1>4, <1>5, <1>6, <1>7
  DEF NonClaimStep, Accept, Cancel, UseClaim, HoldTarget, EndAttempt, ForgetClaim, LoseClaims, storeVars

\* A claim that is owned after a step, and was held with the same token before it, was
\* owned before it.
LEMMA OwnedStep ==
    ASSUME StoreTypeOK, [Next]_storeVars, NEW w \in Workers, NEW r \in Runs,
           HasClaim(w, r), claims'[w][r].token = claims[w][r].token, Owned(w, r)'
    PROVE  Owned(w, r)
<1>1. /\ leases'[r].worker = w
      /\ leases'[r].token = claims[w][r].token
      /\ leases'[r].expires > 0
      /\ Terminal(runs'[r].state) => r \in held'
  BY DEF Owned
<1>2. ASSUME Terminal(runs[r].state), r \in held' PROVE r \in held
  <2>1. ASSUME NEW v \in Workers, NEW q \in Runs, HoldTarget(v, q) PROVE r \in held
    <3>1. r # q
      BY <1>2, <2>1, TerminalIsTerminalStates DEF HoldTarget, TerminalStates
    <3>2. QED BY <1>2, <2>1, <3>1 DEF HoldTarget
  <2>2. ASSUME held' \subseteq held PROVE r \in held
    BY <1>2, <2>2
  <2>3. QED
    BY <2>1, <2>2
    DEF Next, Accept, Cancel, ClaimSome, ClaimRuns, LoseClaims, LeaseBatch, UseClaim, RenewClaim,
        ExtendLease, AdvanceClaim, FreeTarget, EndAttempt, ReleaseClaim, ForgetClaim, Tick, storeVars
<1>3. Terminal(runs[r].state) => r \in held
  BY <1>1, <1>2, RunStep, TerminalIsTerminalStates
<1>4. /\ leases[r].worker = w
      /\ leases[r].token = claims[w][r].token
      /\ leases[r].expires > 0
  <2>1. CASE NonClaimStep
    BY <1>1, <2>1, NonClaimLeases, NonClaimExpiry
  <2>2. ASSUME NEW v \in Workers, ClaimSome(v)
        PROVE  leases'[r] = leases[r]
    <3>1. PICK batch \in SUBSET Runs, token \in [Runs -> Tokens] : LeaseBatch(v, batch, token)
      BY <2>2 DEF ClaimSome, ClaimRuns
    <3>2. leases'[r] = IF r \in batch THEN Grant(v, token[r]) ELSE leases[r]
      BY <3>1 DEF LeaseBatch
    <3>3. r \in batch => token[r] # claims[w][r].token
      BY <3>1 DEF LeaseBatch, FreshToken
    <3>4. Grant(v, token[r]).token = token[r]
      BY GrantTyped
    <3>5. QED BY <1>1, <3>2, <3>3, <3>4
  <2>3. QED BY <1>1, <2>1, <2>2, StepCases
<1>5. QED BY <1>3, <1>4 DEF Owned

\* A claim that the store once rejects is rejected for ever.
THEOREM DeadClaimsAreNeverRevived == Spec => DeadClaimsStayDead
<1>1. ASSUME StoreTypeOK, [Next]_storeVars
      PROVE  [\A w \in Workers, r \in Runs :
                (/\ HasClaim(w, r)
                 /\ ~Owned(w, r)
                 /\ claims'[w][r].token = claims[w][r].token) => ~Owned(w, r)']_storeVars
  BY <1>1, OwnedStep
<1>2. QED BY <1>1, TypeCorrect, PTL DEF Spec, DeadClaimsStayDead

\* Time that passes for attempts and their timers is a tick of the store, or nothing to it.
LEMMA TimePasses ==
    ASSUME StoreTypeOK, leases' = LeasesAfterTick, UNCHANGED <<runs, held, claims>>
    PROVE  [Next]_storeVars
<1>1. CASE \E r \in Runs : leases[r].expires > 0 \/ leases[r].available > 0
  BY <1>1 DEF Tick, Next
<1>2. CASE \A r \in Runs : ~(leases[r].expires > 0) /\ ~(leases[r].available > 0)
  <2>1. ASSUME NEW r \in Runs
        PROVE  Until(leases[r], TimeLeft(leases[r].expires), TimeLeft(leases[r].available))
                 = leases[r]
    <3>1. leases[r] \in LeaseRecords /\ leases[r].expires = 0 /\ leases[r].available = 0
      BY <1>2, LeaseTyped, DelayAssumption, TTLAssumption, SMTT(30)
    <3>2. QED BY <3>1 DEF TimeLeft, Until, LeaseRecords
  <2>2. leases' = leases
    BY <2>1 DEF LeasesAfterTick, StoreTypeOK
  <2>3. QED BY <2>2 DEF storeVars
<1>3. QED BY <1>1, <1>2

-----------------------------------------------------------------------------
(* The store implements PublicRun *)

Phase == [r \in Runs |-> PhaseOf(runs[r].state)]

\* The pairs of phases that PublicRun lets a Run move between.
Promised(from, to) ==
    \/ from = "absent" /\ to = "accepted"
    \/ from = "accepted" /\ to \in {"executing", "cancelled", "failed"}
    \/ from = "executing" /\ to \in {"evaluating", "cancelling", "failed"}
    \/ from = "evaluating" /\ to \in {"completed", "cancelling", "failed"}
    \/ from = "cancelling" /\ to \in {"cancelled", "failed"}

\* Each edge of the pinned lifecycle stays in a phase or is one a client was promised.
LEMMA EdgesArePromised ==
    ASSUME NEW from, NEW to, CanTransition(from, to)
    PROVE  PhaseOf(to) = PhaseOf(from) \/ Promised(PhaseOf(from), PhaseOf(to))
BY DEF CanTransition, PhaseOf, Promised

\* A Run that makes a promised move while the others stay is a step of PublicRun.
LEMMA PromisedStep ==
    ASSUME NEW r \in Runs, NEW from, NEW to, Promised(from, to),
           Phase[r] = from, Phase' = [Phase EXCEPT ![r] = to]
    PROVE  Public!Next
<1>1. ASSUME NEW S, from \in S PROVE Public!Move(r, S, to)
  BY <1>1 DEF Public!Move, Phase
<1>2. \/ Public!Accept(r) \/ Public!Execute(r) \/ Public!Evaluate(r) \/ Public!Complete(r)
      \/ Public!Fail(r) \/ Public!Cancel(r) \/ Public!Stop(r)
  BY <1>1 DEF Promised, Public!Accept, Public!Execute, Public!Evaluate, Public!Complete,
              Public!Fail, Public!Cancel, Public!Stop
<1>3. QED BY <1>2 DEF Public!Next

\* A write that takes a Run along an edge of the lifecycle is a step of PublicRun or
\* invisible to clients.
LEMMA EdgeStep ==
    ASSUME StoreTypeOK, NEW r \in Runs, NEW new,
           runs' = [runs EXCEPT ![r] = new], CanTransition(runs[r].state, new.state)
    PROVE  [Public!Next]_Phase
<1>1. Phase' = [Phase EXCEPT ![r] = PhaseOf(new.state)]
  BY DEF Phase, StoreTypeOK
<1>2. Phase[r] = PhaseOf(runs[r].state)
  BY DEF Phase
<1>3. CASE PhaseOf(new.state) = PhaseOf(runs[r].state)
  <2>1. Phase' = Phase
    BY <1>1, <1>2, <1>3 DEF Phase
  <2>2. QED BY <2>1
<1>4. CASE Promised(PhaseOf(runs[r].state), PhaseOf(new.state))
  BY <1>1, <1>2, <1>4, PromisedStep
<1>5. QED BY <1>3, <1>4, EdgesArePromised

\* Each step of the store is one that PublicRun allows.
LEMMA PublicStep ==
    ASSUME StoreTypeOK, [Next]_storeVars
    PROVE  [Public!Next]_Phase
<1>1. ASSUME NEW r \in Runs, Accept(r) PROVE [Public!Next]_Phase
  <2>1. Phase[r] = "absent"
    BY <1>1, SMTT(30) DEF Accept, Absent, Phase, PhaseOf
  <2>2. Phase' = [Phase EXCEPT ![r] = "accepted"]
    BY <1>1 DEF Accept, Phase, PhaseOf, StoreTypeOK
  <2>3. QED BY <2>1, <2>2, PromisedStep DEF Promised
<1>2. ASSUME NEW r \in Runs, Cancel(r) PROVE [Public!Next]_Phase
  <2>1. runs[r] \in RunRecords /\ CancellationAllowed(runs[r])
    BY <1>2 DEF Cancel, StoreTypeOK
  <2>2. runs' = [runs EXCEPT ![r] = RequestCancellation(runs[r])]
    BY <1>2 DEF Cancel
  <2>3. CASE RequestCancellation(runs[r]) = runs[r]
    BY <2>2, <2>3 DEF Phase, StoreTypeOK
  <2>4. CASE CanTransition(runs[r].state, RequestCancellation(runs[r]).state)
    BY <2>2, <2>4, EdgeStep
  <2>5. QED BY <2>1, <2>3, <2>4, CancellationResult
<1>3. ASSUME NEW w \in Workers, NEW r \in Runs, NEW change \in Changes,
             AdvanceClaim(w, r, change)
      PROVE  [Public!Next]_Phase
  <2>1. runs[r] \in RunRecords /\ TransitionAllowed(runs[r], claims[w][r].revision, change)
    BY <1>3 DEF AdvanceClaim, StoreTypeOK
  <2>2. runs' = [runs EXCEPT ![r] = Transition(runs[r], change)]
    BY <1>3 DEF AdvanceClaim
  <2>3. CanTransition(runs[r].state, Transition(runs[r], change).state)
    BY <2>1, TransitionResult
  <2>4. QED BY <2>2, <2>3, EdgeStep
<1>4. ASSUME runs' = runs PROVE [Public!Next]_Phase
  BY <1>4 DEF Phase
<1>5. ASSUME NEW w \in Workers, NEW r \in Runs, NEW change \in Changes,
             FreeTarget(w, r, change)
      PROVE  [Public!Next]_Phase
  <2>1. CASE /\ TransitionAllowed(runs[r], claims[w][r].revision, change)
             /\ runs' = [runs EXCEPT ![r] = Transition(runs[r], change)]
    <3>1. runs[r] \in RunRecords
      BY DEF StoreTypeOK
    <3>2. CanTransition(runs[r].state, Transition(runs[r], change).state)
      BY <2>1, <3>1, TransitionResult
    <3>3. QED BY <2>1, <3>2, EdgeStep
  <2>2. QED BY <1>4, <1>5, <2>1, FreeTargetWrites
<1>6. QED
  BY <1>1, <1>2, <1>3, <1>4, <1>5
  DEF Next, HoldTarget, ClaimSome, ClaimRuns, LoseClaims, LeaseBatch, UseClaim, RenewClaim, ExtendLease,
      EndAttempt, ReleaseClaim, ForgetClaim, Tick, storeVars

\* Whatever clients and workers do, a client sees each Run move only as promised.
THEOREM StoreImplementsPublicRun == Spec => ImplementsPublicRun
<1>1. Init => Public!Init
  BY SMTT(30) DEF Init, Public!Init, Absent, PhaseOf
<1>2. ASSUME StoreTypeOK, [Next]_storeVars
      PROVE  [Public!Next]_[r \in Runs |-> PhaseOf(runs[r].state)]
  BY <1>2, PublicStep DEF Phase
<1>3. QED BY <1>1, <1>2, TypeCorrect, PTL DEF Spec, ImplementsPublicRun, Public!Spec

-----------------------------------------------------------------------------
(* The revision cap *)

\* The revision of a Run never runs ahead of the lifecycle, so that whatever clients and
\* workers do, a Run that is open has revisions left to be closed with: the cap of Transition
\* (domain.go:219) refuses no change of it.
RevisionsBelowCap ==
    \A r \in Runs : /\ runs[r].revision <= Depth(runs[r].state)
                    /\ runs[r].state \notin TerminalStates => runs[r].revision < MaxRevision

\* A step accepts a Run, leaves it alone or takes it along an edge of the lifecycle.
LEMMA RevisionMoves ==
    ASSUME StoreTypeOK, [Next]_storeVars, NEW r \in Runs
    PROVE  \/ runs'[r] = runs[r]
           \/ runs[r] = Absent /\ runs'[r].state = "CREATED"
           \/ CanTransition(runs[r].state, runs'[r].state)
<1> DEFINE Goal == \/ runs'[r] = runs[r]
                   \/ runs[r] = Absent /\ runs'[r].state = "CREATED"
                   \/ CanTransition(runs[r].state, runs'[r].state)
<1>1. ASSUME NEW q \in Runs, Accept(q) PROVE Goal
  <2> DEFINE new == [state |-> "CREATED", revision |-> 1, failure |-> NoFailure]
  <2>1. new.state = "CREATED" OBVIOUS
  <2>2. runs[q] = Absent /\ runs' = [runs EXCEPT ![q] = new] BY <1>1 DEF Accept
  <2> HIDE DEF new
  <2>3. runs'[r] = IF r = q THEN new ELSE runs[r] BY <2>2 DEF StoreTypeOK
  <2>4. QED BY <2>1, <2>2, <2>3
<1>2. ASSUME NEW q \in Runs, Cancel(q) PROVE Goal
  <2>1. runs[q] \in RunRecords /\ CancellationAllowed(runs[q])
    BY <1>2 DEF Cancel, StoreTypeOK
  <2>2. runs'[r] = IF r = q THEN RequestCancellation(runs[q]) ELSE runs[r]
    BY <1>2 DEF Cancel, StoreTypeOK
  <2>3. QED BY <2>1, <2>2, CancellationResult
<1>3. ASSUME NEW q \in Runs, NEW expected, NEW change \in Changes,
             TransitionAllowed(runs[q], expected, change),
             runs' = [runs EXCEPT ![q] = Transition(runs[q], change)]
      PROVE  Goal
  <2>1. runs[q] \in RunRecords
    BY DEF StoreTypeOK
  <2>2. runs'[r] = IF r = q THEN Transition(runs[q], change) ELSE runs[r]
    BY <1>3 DEF StoreTypeOK
  <2>3. CanTransition(runs[q].state, Transition(runs[q], change).state)
    BY <1>3, <2>1, TransitionResult
  <2>4. QED BY <2>2, <2>3
<1>4. ASSUME runs' = runs PROVE Goal
  BY <1>4
<1> HIDE DEF Goal
<1>5. ASSUME NEW w \in Workers, NEW q \in Runs, NEW change \in Changes,
             AdvanceClaim(w, q, change) \/ FreeTarget(w, q, change)
      PROVE  Goal
  <2>1. CASE /\ TransitionAllowed(runs[q], claims[w][q].revision, change)
             /\ runs' = [runs EXCEPT ![q] = Transition(runs[q], change)]
    BY <1>3, <2>1
  <2>2. CASE AdvanceClaim(w, q, change)
    BY <2>1, <2>2 DEF AdvanceClaim
  <2>3. CASE FreeTarget(w, q, change)
    BY <1>4, <2>1, <2>3, FreeTargetWrites
  <2>4. QED BY <1>5, <2>2, <2>3
<1>6. Goal
  BY <1>1, <1>2, <1>4, <1>5
  DEF Next, HoldTarget, ClaimSome, ClaimRuns, LoseClaims, LeaseBatch, UseClaim, RenewClaim, ExtendLease,
      EndAttempt, ReleaseClaim, ForgetClaim, Tick, storeVars
<1>7. QED BY <1>6 DEF Goal

\* An edge of the lifecycle leads deeper, and only terminal states are as deep as ten.
LEMMA EdgesLeadDeeper ==
    ASSUME NEW from, NEW to, CanTransition(from, to)
    PROVE  /\ Depth(from) \in 1..9 /\ Depth(to) \in 1..10 /\ Depth(from) < Depth(to)
           /\ to \notin TerminalStates => Depth(to) <= 9
BY SMTT(30) DEF CanTransition, Depth, TerminalStates

\* The revision cap strands no Run in the store (domain.go:219).
THEOREM CapStrandsNoStoredRun == Spec => []RevisionsBelowCap
<1>1. Init => RevisionsBelowCap
  <2>1. Absent.revision = 0 /\ Absent.state = "ABSENT" BY DEF Absent
  <2>2. Depth("ABSENT") = 0 BY SMTT(30) DEF Depth
  <2>3. 0 <= 0 /\ 0 < MaxRevision BY MaxRevisionAssumption, SMTT(30)
  <2>4. QED BY <2>1, <2>2, <2>3 DEF Init, RevisionsBelowCap
<1>2. ASSUME StoreTypeOK, RevisionsBelowCap, [Next]_storeVars PROVE RevisionsBelowCap'
  <2> SUFFICES ASSUME NEW r \in Runs
               PROVE  /\ runs'[r].revision <= Depth(runs'[r].state)
                      /\ runs'[r].state \notin TerminalStates => runs'[r].revision < MaxRevision
    BY DEF RevisionsBelowCap
  <2>1. /\ runs[r].revision <= Depth(runs[r].state) /\ runs[r].revision \in Nat
        /\ runs[r].state \notin TerminalStates => runs[r].revision < MaxRevision
    BY <1>2 DEF RevisionsBelowCap, StoreTypeOK, RunRecords, Snapshots
  <2>2. CASE runs'[r] = runs[r]
    BY <2>1, <2>2
  <2>3. CASE runs'[r] # runs[r]
    <3>1. runs'[r].revision = runs[r].revision + 1 BY <1>2, <2>3, RunStep
    <3>2. CASE runs[r] = Absent /\ runs'[r].state = "CREATED"
      <4>1. Absent.revision = 0 BY DEF Absent
      <4>2. runs[r].revision = 0 BY <3>2, <4>1, SMTT(30)
      <4>3. Depth("CREATED") = 1 BY SMTT(30) DEF Depth
      <4>4. QED BY <3>1, <3>2, <4>2, <4>3, MaxRevisionAssumption, SMTT(30)
    <3>3. CASE CanTransition(runs[r].state, runs'[r].state)
      <4> DEFINE d == Depth(runs[r].state)
                 e == Depth(runs'[r].state)
      <4>1. d \in 1..9 /\ e \in 1..10 /\ d < e /\ (runs'[r].state \notin TerminalStates => e <= 9)
        BY <3>3, EdgesLeadDeeper
      <4>2. runs[r].revision <= d BY <2>1
      <4> HIDE DEF d, e
      <4>3. runs'[r].revision <= e BY <2>1, <3>1, <4>1, <4>2, SMTT(30)
      <4>4. runs'[r].state \notin TerminalStates => runs'[r].revision < MaxRevision
        BY <2>1, <3>1, <4>1, <4>2, MaxRevisionAssumption, SMTT(30)
      <4>5. QED BY <4>3, <4>4 DEF e
    <3>4. QED BY <1>2, <2>3, <3>2, <3>3, RevisionMoves
  <2>4. QED BY <2>2, <2>3
<1>3. QED BY <1>1, <1>2, TypeCorrect, PTL DEF Spec

=============================================================================
