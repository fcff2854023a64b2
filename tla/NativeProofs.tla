----------------------------- MODULE NativeProofs -----------------------------
(***************************************************************************)
(* What holds of native leases for any number of Runs, workers, attempts   *)
(* and slots, and any lease and presence terms: who executes a Run holds   *)
(* its lease, a worker occupies one slot, an accepted report can be asked  *)
(* for again and keeps its evidence, and cancellation wins. A write takes  *)
(* the Run along the pinned lifecycle, and none takes it to the cap on     *)
(* revisions; a closed Run stays closed, and an abandoned one abandoned.   *)
(***************************************************************************)
EXTENDS NativeLease, FiniteSetTheorems, TLAPS

\* Zenon is the default; where a leaf needs arithmetic or records, it cites SMT.
USE ZenonT(60)

\* What an attempt's list of artifacts holds once another one is registered.
LEMMA AppendedFiles ==
    ASSUME NEW S, NEW files \in Seq(S), NEW x \in S
    PROVE  /\ Append(files, x) \in Seq(S)
           /\ \A i \in DOMAIN Append(files, x) :
                 (i \in DOMAIN files /\ Append(files, x)[i] = files[i]) \/ Append(files, x)[i] = x
BY SMTT(30)

\* Runs as the store keeps them, the missing one included.
Snapshots ==
    [state : States \union {"ABSENT"}, revision : Nat,
     failure : FailureCodes \union {NoFailure}]

\* What Transition returns is a snapshot, one revision later.
LEMMA TransitionTyped ==
    ASSUME NEW run \in Snapshots, NEW change \in Changes
    PROVE  /\ Transition(run, change) \in Snapshots
           /\ Transition(run, change).revision = run.revision + 1
           /\ Transition(run, change).state = change.state
<1>1. run.revision \in Nat
  BY DEF Snapshots
<1>2. change.state \in States /\ change.failure \in FailureCodes \union {NoFailure}
  BY DEF Changes
<1>3. QED BY <1>1, <1>2, SMTT(30) DEF Transition, Snapshots

\* Cancellation leaves the Run alone or moves it one revision on.
LEMMA CancellationSnapshot ==
    ASSUME NEW run \in Snapshots
    PROVE  /\ RequestCancellation(run) \in Snapshots
           /\ ~AlreadyCancelled(run) =>
                 RequestCancellation(run).state = CancellationTarget(run.state)
<1> DEFINE c == Change(CancellationTarget(run.state))
<1>1. c \in Changes /\ c.state = CancellationTarget(run.state)
  BY DEF Change, CancellationTarget, Changes, States, ActiveStates, TerminalStates
<1>2. RequestCancellation(run) = IF AlreadyCancelled(run) THEN run ELSE Transition(run, c)
  BY DEF RequestCancellation
<1> HIDE DEF c
<1>3. QED BY <1>1, <1>2, TransitionTyped

LeaseRecords ==
    [worker : Workers \union {NoWorker}, attempt : Attempts \union {NoAttempt},
     left : 0..LeaseTTL, released : {"no"} \union ReleaseReasons]

Memories ==
    [run : Runs \union {NoRun}, attempt : Attempts \union {NoAttempt}, revision : Nat,
     left : 0..LeaseTTL]

NativeTypeOK ==
    /\ runs \in [Runs -> Snapshots]
    /\ leases \in [Runs -> LeaseRecords]
    /\ mem \in [Workers -> Memories]

\* A worker's current slots are one.
SlotsAreOne ==
    \A q, r \in Runs : Unexpired(q) /\ Unexpired(r) /\ leases[q].worker = leases[r].worker => q = r

\* A worker that knows of no Run knows nothing, and one that executes holds the lease.
Holder(w) ==
    /\ mem[w].run = NoRun => mem[w] = Idle
    /\ mem[w].left > 0 =>
          /\ mem[w].run \in Runs
          /\ leases[mem[w].run].worker = w
          /\ leases[mem[w].run].attempt = mem[w].attempt
          /\ leases[mem[w].run].released = "no"
          /\ leases[mem[w].run].left >= mem[w].left

\* The inductive invariant of the leases.
NativeInv == NativeTypeOK /\ SlotsAreOne /\ \A w \in Workers : Holder(w)

-----------------------------------------------------------------------------
(* Lemmas about the operators *)

\* The place of a state on the path of phases; 0 for the states off it.
LEMMA PhaseIndex ==
    ASSUME NEW state
    PROVE  /\ phaseStateIndex(state) \in 0..6
           /\ phaseStateIndex(state) # 0 => nativePhaseStates[phaseStateIndex(state)] = state
<1> DEFINE P(i) == nativePhaseStates[i] = state
<1>1. CASE \E i \in 1..6 : P(i)
  <2>1. phaseStateIndex(state) = CHOOSE i \in 1..6 : P(i)
    BY <1>1 DEF phaseStateIndex
  <2>2. (CHOOSE i \in 1..6 : P(i)) \in 1..6 /\ P(CHOOSE i \in 1..6 : P(i))
    BY <1>1
  <2>3. QED BY <2>1, <2>2, SMTT(30)
<1>2. CASE ~ \E i \in 1..6 : P(i)
  BY <1>2, SMTT(30) DEF phaseStateIndex
<1>3. QED BY <1>1, <1>2

\* A phase moves a Run forward on the path, and only a Run that is on it.
LEMMA PhaseResult ==
    ASSUME NEW run \in Snapshots, NEW phase, PhaseAllowed(run, phase)
    PROVE  /\ AdvancePhase(run, phase) \in Snapshots
           /\ AdvancePhase(run, phase).state \in {"WARMING_UP", "RUNNING", "COLLECTING"}
           /\ run.state # "CANCELLING"
<1> DEFINE i == phaseStateIndex(run.state)
           t == phaseTarget(phase)
<1>1. t \in {4, 5, 6} BY DEF phaseTarget
<1>2. i \in 1..t /\ i \in 0..6 /\ nativePhaseStates[i] = run.state
  <2>1. i \in 1..t BY DEF PhaseAllowed
  <2>2. QED BY <1>1, <2>1, PhaseIndex, SMTT(30)
<1>3. run.revision \in Nat /\ run.failure \in FailureCodes \union {NoFailure} BY DEF Snapshots
<1>4. run.revision + (t - i) \in Nat BY <1>1, <1>2, <1>3, SMTT(30)
<1>5. nativePhaseStates[t] \in {"WARMING_UP", "RUNNING", "COLLECTING"}
  BY <1>1, SMTT(30) DEF nativePhaseStates
<1>6. {"WARMING_UP", "RUNNING", "COLLECTING"} \subseteq States BY DEF States, ActiveStates
<1>7. run.state # "CANCELLING"
  BY <1>1, <1>2, SMTT(30) DEF nativePhaseStates
<1>8. AdvancePhase(run, phase) = [state |-> nativePhaseStates[t], revision |-> run.revision + (t - i),
                                  failure |-> run.failure]
  BY DEF AdvancePhase
<1> HIDE DEF i, t
<1>9. QED BY <1>3, <1>4, <1>5, <1>6, <1>7, <1>8, SMTT(30) DEF Snapshots

\* A terminal report closes the Run, or hands it over to collection.
LEMMA TerminalResult ==
    ASSUME NEW run \in Snapshots, NEW kind \in Kinds, TerminalAllowed(run, kind)
    PROVE  /\ applyNativeTerminal(run, kind) \in Snapshots
           /\ applyNativeTerminal(run, kind).state
                \in {"WARMING_UP", "RUNNING", "COLLECTING", "TEST_FAILURE", "INFRASTRUCTURE_FAILURE"}
           /\ run.state # "CANCELLING"
<1> DEFINE f == Failing("TEST_FAILURE", "TOOL_ERROR")
           g == Failing("INFRASTRUCTURE_FAILURE", "INFRASTRUCTURE_ERROR")
           v == Change("VALIDATING")
<1>1. f \in Changes /\ g \in Changes /\ v \in Changes
  BY DEF Failing, Change, Changes, States, ActiveStates, TerminalStates, FailureCodes
<1>2. f.state = "TEST_FAILURE" /\ g.state = "INFRASTRUCTURE_FAILURE"
  BY DEF Failing
<1> HIDE DEF f, g, v
<1>3. CASE kind = "COMPLETED"
  BY <1>3, PhaseResult DEF TerminalAllowed, applyNativeTerminal
<1>4. CASE kind = "TOOL_FAILED"
  <2>1. AdvancePhase(run, "FINALIZING") \in Snapshots /\ run.state # "CANCELLING"
    BY <1>4, PhaseResult DEF TerminalAllowed
  <2>2. applyNativeTerminal(run, kind) = Transition(AdvancePhase(run, "FINALIZING"), f)
    BY <1>4 DEF applyNativeTerminal, f
  <2>3. QED BY <1>1, <1>2, <2>1, <2>2, TransitionTyped
<1>5. CASE kind = "OTHER_FAILED"
  <2> DEFINE started == IF run.state = "CREATED" THEN Transition(run, v) ELSE run
  <2>1. started \in Snapshots BY <1>1, TransitionTyped
  <2>2. applyNativeTerminal(run, kind) = Transition(started, g)
    BY <1>5 DEF applyNativeTerminal, g, v
  <2>3. run.state # "CANCELLING" BY <1>5 DEF TerminalAllowed
  <2> HIDE DEF started
  <2>4. QED BY <1>1, <1>2, <2>1, <2>2, <2>3, TransitionTyped
<1>6. QED BY <1>3, <1>4, <1>5 DEF Kinds

\* The row of a lease with another expiry keeps its worker and attempt.
LEMMA LeaseRowFields ==
    ASSUME NEW r, NEW left, NEW released
    PROVE  /\ LeaseRow(r, left, released).worker = leases[r].worker
           /\ LeaseRow(r, left, released).attempt = leases[r].attempt
           /\ LeaseRow(r, left, released).left = left
           /\ LeaseRow(r, left, released).released = released
BY DEF LeaseRow

\* What a worker knows of an attempt it has asked for again.
LEMMA MemoryFields ==
    ASSUME NEW w, NEW revision, NEW left
    PROVE  /\ Memory(w, revision, left).run = mem[w].run
           /\ Memory(w, revision, left).attempt = mem[w].attempt
           /\ Memory(w, revision, left).left = left
BY DEF Memory

\* A lease row that is written is well typed.
LEMMA SetLeaseTyped ==
    ASSUME NativeTypeOK, NEW r \in Runs, NEW left \in 0..LeaseTTL,
           NEW released \in {"no"} \union ReleaseReasons, SetLease(r, left, released)
    PROVE  /\ leases' \in [Runs -> LeaseRecords]
           /\ leases'[r] = LeaseRow(r, left, released)
           /\ \A q \in Runs : q # r => leases'[q] = leases[q]
<1>1. LeaseRow(r, left, released) \in LeaseRecords
  BY DEF NativeTypeOK, LeaseRow, LeaseRecords
<1>2. QED BY <1>1 DEF NativeTypeOK, SetLease

\* Idle workers know of no Run.
LEMMA IdleFields == Idle \in Memories /\ Idle.run = NoRun /\ Idle.left = 0
BY NativeTTLAssumption, SMTT(30) DEF Idle, Memories

\* The caller of an attempt's operation holds the lease of a Run that is open.
LEMMA CallerHolds ==
    ASSUME NativeInv, NEW w \in Workers, Calls(w)
    PROVE  /\ mem[w] \in Memories /\ mem[w].run \in Runs
           /\ MatchingAuthority(w, mem[w].run, mem[w].attempt)
           /\ Unexpired(mem[w].run) /\ leases[mem[w].run].worker = w
           /\ runs[mem[w].run] \in Snapshots /\ ~Terminal(runs[mem[w].run].state)
<1>1. mem[w] \in Memories /\ Holder(w) BY DEF NativeInv, NativeTypeOK
<1>2. mem[w].run # NoRun BY <1>1 DEF Calls, Holds, Holder
<1>3. mem[w].run \in Runs BY <1>1, <1>2 DEF Memories
<1>4. QED BY <1>1, <1>3 DEF Calls, Authorized, MatchingAuthority, NativeInv, NativeTypeOK

\* The steps that touch Runs, leases, reports or what a worker knows of its attempt.
LEMMA StepCases ==
    ASSUME NativeNext
    PROVE  \/ \E r \in Runs : Accept(r) \/ Cancel(r)
           \/ \E w \in Workers, r \in Runs : Acquire(w, r)
           \/ \E w \in Workers, phase \in Phases : Renew(w, phase)
           \/ \E w \in Workers, reason \in Reasons : Release(w, reason)
           \/ \E w \in Workers, kind \in Kinds : Report(w, kind)
           \/ \E w \in Workers : Inspect(w) \/ Restart(w)
           \/ Tick
           \/ UNCHANGED <<runs, leases, reports, mem>>
<1> DEFINE Quiet == UNCHANGED <<runs, leases, reports, mem>>
<1>1. ASSUME NEW w \in Workers, Poll(w) \/ Register(w) PROVE Quiet
  BY <1>1 DEF Poll, Register, storeVars
<1>2. ASSUME NEW w \in Workers, NEW r \in Runs, AcquireLoses(w, r) PROVE Quiet
  BY <1>2 DEF AcquireLoses, storeVars
<1>3. ASSUME NEW w \in Workers, NEW slot \in Slots, Reserve(w, slot) \/ Verify(w, slot) PROVE Quiet
  BY <1>3 DEF Reserve, Verify, storeVars
<1>4. ASSUME NEW w \in Workers, NEW offers \in BOOLEAN, RecordPresence(w, offers) PROVE Quiet
  BY <1>4 DEF RecordPresence
<1>5. ASSUME NEW r \in Runs, NEW attempt, NEW slot, Put(r, attempt, slot) PROVE Quiet
  BY <1>5 DEF Put
<1> HIDE DEF Quiet
<1>6. QED BY <1>1, <1>2, <1>3, <1>4, <1>5 DEF NativeNext, Worker, Quiet

\* Every step leaves the runs table well typed.
LEMMA RunsTyped ==
    ASSUME NativeInv, NativeNext
    PROVE  runs' \in [Runs -> Snapshots]
<1> USE DEF NativeTypeOK
<1>0. runs \in [Runs -> Snapshots] BY DEF NativeInv
<1>1. ASSUME NEW r \in Runs, Accept(r) PROVE runs' \in [Runs -> Snapshots]
  <2>1. Accepted \in Snapshots
    BY DEF Accepted, Snapshots, States, ActiveStates
  <2>2. QED BY <1>0, <1>1, <2>1 DEF Accept
<1>2. ASSUME NEW r \in Runs, Cancel(r) PROVE runs' \in [Runs -> Snapshots]
  <2>1. RequestCancellation(runs[r]) \in Snapshots
    BY <1>0, <1>2, CancellationSnapshot DEF Cancel
  <2>2. runs' = [runs EXCEPT ![r] = RequestCancellation(runs[r])]
    BY <1>2 DEF Cancel
  <2>3. QED BY <1>0, <2>1, <2>2
<1>3. ASSUME NEW w \in Workers, NEW phase \in Phases, Renew(w, phase)
      PROVE  runs' \in [Runs -> Snapshots]
  <2> DEFINE r == mem[w].run
             next == IF runs[r].state = "CANCELLING" THEN runs[r] ELSE AdvancePhase(runs[r], phase)
  <2>1. r \in Runs /\ runs[r] \in Snapshots BY <1>3, CallerHolds DEF Renew
  <2>2. next \in Snapshots BY <1>3, <2>1, PhaseResult DEF Renew
  <2>3. runs' = [runs EXCEPT ![r] = next] BY <1>3 DEF Renew
  <2> HIDE DEF r, next
  <2>4. QED BY <1>0, <2>1, <2>2, <2>3
<1>4. ASSUME NEW w \in Workers, NEW reason \in Reasons, Release(w, reason)
      PROVE  runs' \in [Runs -> Snapshots]
  <2> DEFINE r == mem[w].run
  <2>1. r \in Runs /\ runs[r] \in Snapshots BY <1>4, CallerHolds DEF Release
  <2>2. Change("ABORTED") \in Changes
    BY DEF Change, Changes, States, TerminalStates
  <2>3. releasedNativeRun(runs[r], reason) \in Snapshots
    BY <2>1, <2>2, TransitionTyped DEF releasedNativeRun
  <2>4. runs' = [runs EXCEPT ![r] = releasedNativeRun(runs[r], reason)] BY <1>4 DEF Release
  <2> HIDE DEF r
  <2>5. QED BY <1>0, <2>1, <2>3, <2>4
<1>5. ASSUME NEW w \in Workers, NEW kind \in Kinds, Report(w, kind)
      PROVE  runs' \in [Runs -> Snapshots]
  <2> DEFINE r == mem[w].run
  <2>1. r \in Runs /\ runs[r] \in Snapshots BY <1>5, CallerHolds DEF Report
  <2>2. applyNativeTerminal(runs[r], kind) \in Snapshots
    BY <1>5, <2>1, TerminalResult DEF Report
  <2>3. runs' = [runs EXCEPT ![r] = applyNativeTerminal(runs[r], kind)] BY <1>5 DEF Report
  <2> HIDE DEF r
  <2>4. QED BY <1>0, <2>1, <2>2, <2>3
<1>6. CASE UNCHANGED runs
  BY <1>0, <1>6
<1>7. QED
  BY <1>1, <1>2, <1>3, <1>4, <1>5, <1>6, StepCases DEF Acquire, Inspect, Restart, Tick, storeVars

-----------------------------------------------------------------------------
(* Leases *)

\* What a worker knows stays true while its lease row is its own.
LEMMA HolderStays ==
    ASSUME NativeInv, NEW w \in Workers, mem'[w] = mem[w],
           mem[w].run \in Runs /\ mem[w].left > 0 =>
               \/ leases'[mem[w].run] = leases[mem[w].run]
               \/ leases[mem[w].run].worker # w
               \/ ~Unexpired(mem[w].run)
               \/ leases'[mem[w].run] = LeaseRow(mem[w].run, LeaseTTL, "no")
    PROVE  Holder(w)'
<1>1. Holder(w) /\ mem[w] \in Memories
  BY DEF NativeInv, NativeTypeOK
<1>2. mem[w].left \in 0..LeaseTTL BY <1>1 DEF Memories
<1>3. ASSUME mem[w].left > 0
      PROVE  /\ mem[w].run \in Runs
             /\ leases'[mem[w].run].worker = w
             /\ leases'[mem[w].run].attempt = mem[w].attempt
             /\ leases'[mem[w].run].released = "no"
             /\ leases'[mem[w].run].left >= mem[w].left
  <2>1. /\ mem[w].run \in Runs /\ leases[mem[w].run].worker = w
        /\ leases[mem[w].run].attempt = mem[w].attempt /\ leases[mem[w].run].released = "no"
        /\ leases[mem[w].run].left >= mem[w].left
    BY <1>1, <1>3 DEF Holder
  <2>2. leases[mem[w].run].left \in 0..LeaseTTL
    BY <2>1 DEF NativeInv, NativeTypeOK, LeaseRecords
  <2>3. Unexpired(mem[w].run)
    BY <1>2, <1>3, <2>1, <2>2, NativeTTLAssumption, SMTT(30) DEF Unexpired
  <2>4. CASE leases'[mem[w].run] = leases[mem[w].run]
    BY <2>1, <2>4
  <2>5. CASE leases'[mem[w].run] = LeaseRow(mem[w].run, LeaseTTL, "no")
    BY <1>2, <2>1, <2>5, LeaseRowFields, NativeTTLAssumption, SMTT(30)
  <2>6. QED BY <1>3, <2>1, <2>3, <2>4, <2>5
<1>4. QED BY <1>1, <1>3 DEF Holder

\* A worker leases a Run that nobody has.
LEMMA AcquireStep ==
    ASSUME NativeInv, NEW w \in Workers, NEW r \in Runs, Acquire(w, r)
    PROVE  NativeInv'
<1>1. PICK attempt \in Attempts :
        /\ leases' = [leases EXCEPT ![r] = NewLease(w, attempt)]
        /\ Told(w, [run |-> r, attempt |-> attempt, revision |-> runs[r].revision,
                    left |-> LeaseTTL])
  BY DEF Acquire
<1> DEFINE m == [run |-> r, attempt |-> attempt, revision |-> runs[r].revision, left |-> LeaseTTL]
           l == NewLease(w, attempt)
<1>2. /\ l \in LeaseRecords /\ l.worker = w /\ l.attempt = attempt /\ l.left = LeaseTTL
      /\ l.released = "no"
  BY NativeTTLAssumption, SMTT(30) DEF NewLease, LeaseRecords
<1>3. leases' \in [Runs -> LeaseRecords] /\ leases'[r] = l /\ \A q \in Runs : q # r => leases'[q] = leases[q]
  BY <1>1, <1>2 DEF NativeInv, NativeTypeOK
<1>4. m \in Memories /\ m.run = r /\ m.left = LeaseTTL /\ m.attempt = attempt
  BY NativeTTLAssumption, SMTT(30) DEF Memories, NativeInv, NativeTypeOK, Snapshots
<1>5. UNCHANGED mem \/ mem' = [mem EXCEPT ![w] = m]
  BY <1>1 DEF Told, Know
<1> HIDE DEF m, l
<1>6. mem' \in [Workers -> Memories] /\ \A v \in Workers : v # w => mem'[v] = mem[v]
  BY <1>4, <1>5 DEF NativeInv, NativeTypeOK
<1>7. runs' = runs /\ ~Unexpired(r) /\ \A q \in Runs : leases[q].worker = w => ~Unexpired(q)
  BY DEF Acquire, Acquirable, nativeWorkerOccupied, CurrentSlots, nativeRunLeased, Unexpired
<1>8. \A v \in Workers : mem'[v] = mem[v] => Holder(v)'
  BY <1>3, <1>7, HolderStays
<1>9. mem'[w] = m => Holder(w)'
  <2>1. r # NoRun BY NativeNoneAssumption
  <2>2. LeaseTTL >= LeaseTTL BY NativeTTLAssumption, SMTT(30)
  <2>3. QED BY <1>2, <1>3, <1>4, <2>1, <2>2 DEF Holder
<1>10. \A v \in Workers : Holder(v)'
  BY <1>5, <1>6, <1>8, <1>9 DEF NativeInv, NativeTypeOK
<1>11. SlotsAreOne'
  BY <1>2, <1>3, <1>7 DEF NativeInv, SlotsAreOne, Unexpired
<1>12. NativeTypeOK'
  BY <1>3, <1>6, <1>7 DEF NativeInv, NativeTypeOK
<1>13. QED BY <1>10, <1>11, <1>12 DEF NativeInv

\* The holder of a lease extends it, releases it or reports: nobody else is executing.
LEMMA HolderStep ==
    ASSUME NativeInv, NEW w \in Workers, Calls(w), NEW left \in {0, LeaseTTL},
           NEW released \in {"no"} \union ReleaseReasons,
           left = LeaseTTL => released = "no",
           SetLease(mem[w].run, left, released), runs' \in [Runs -> Snapshots],
           NEW m \in Memories, mem' = [mem EXCEPT ![w] = m],
           \/ m = Idle
           \/ (/\ m.run = mem[w].run /\ m.attempt = mem[w].attempt
               /\ m.left = 0 \/ left = LeaseTTL)
    PROVE  NativeInv'
<1> DEFINE r == mem[w].run
<1>1. /\ r \in Runs /\ leases[r].worker = w /\ leases[r].attempt = mem[w].attempt /\ Unexpired(r)
  BY CallerHolds DEF MatchingAuthority
<1>2. left \in 0..LeaseTTL BY NativeTTLAssumption, SMTT(30)
<1>3. /\ leases' \in [Runs -> LeaseRecords] /\ leases'[r] = LeaseRow(r, left, released)
      /\ \A q \in Runs : q # r => leases'[q] = leases[q]
  BY <1>1, <1>2, SetLeaseTyped DEF NativeInv
<1>4. mem' \in [Workers -> Memories] /\ mem'[w] = m /\ \A v \in Workers : v # w => mem'[v] = mem[v]
  BY DEF NativeInv, NativeTypeOK
<1>5. \A v \in Workers : v # w => Holder(v)'
  BY <1>1, <1>3, <1>4, HolderStays
<1>6. Holder(w)'
  <2>1. CASE m = Idle
    BY <1>4, <2>1, IdleFields, SMTT(30) DEF Holder
  <2>2. CASE m.run = r /\ m.attempt = mem[w].attempt /\ (m.left = 0 \/ left = LeaseTTL)
    <3>1. m.run # NoRun /\ m.left \in 0..LeaseTTL
      BY <1>1, <2>2, NativeNoneAssumption DEF Memories
    <3>2. CASE m.left = 0
      BY <1>4, <3>1, <3>2, SMTT(30) DEF Holder
    <3>3. CASE left = LeaseTTL
      <4>1. leases'[r].worker = w /\ leases'[r].attempt = m.attempt /\ leases'[r].left = LeaseTTL
            /\ leases'[r].released = "no"
        BY <1>1, <1>3, <2>2, <3>3, LeaseRowFields, SMTT(30)
      <4>2. LeaseTTL >= m.left BY <3>1, NativeTTLAssumption, SMTT(30)
      <4>3. QED BY <1>1, <1>4, <2>2, <3>1, <4>1, <4>2 DEF Holder
    <3>4. QED BY <2>2, <3>2, <3>3
  <2>3. QED BY <2>1, <2>2
<1>7. SlotsAreOne'
  <2>1. leases'[r].worker = leases[r].worker
    <3>1. leases'[r] = LeaseRow(r, left, released) BY <1>3
    <3>2. LeaseRow(r, left, released).worker = leases[r].worker BY DEF LeaseRow
    <3> HIDE DEF r
    <3>3. QED BY <3>1, <3>2
  <2>2. ASSUME NEW q \in Runs, q # r
        PROVE  leases'[q].worker = leases[q].worker /\ (Unexpired(q)' => Unexpired(q))
    BY <1>3, <2>2 DEF Unexpired
  <2> HIDE DEF r
  <2>3. \A q \in Runs : leases'[q].worker = leases[q].worker /\ (Unexpired(q)' => Unexpired(q))
    BY <1>1, <2>1, <2>2
  <2>4. QED BY <2>3 DEF NativeInv, SlotsAreOne
<1>8. QED BY <1>3, <1>4, <1>5, <1>6, <1>7 DEF NativeInv, NativeTypeOK

\* A worker asks for its attempt, or forgets it.
LEMMA InspectStep ==
    ASSUME NativeInv, NEW w \in Workers, Inspect(w) \/ Restart(w)
    PROVE  NativeInv'
<1> DEFINE r == mem[w].run
           left == IF mem[w].left > 0 THEN leases[r].left ELSE 0
           m == Memory(w, runs[r].revision, left)
<1>1. UNCHANGED <<runs, leases>> BY DEF Inspect, Restart, storeVars
<1>2. mem[w] \in Memories /\ Holder(w) BY DEF NativeInv, NativeTypeOK
<1>3. \/ mem' = [mem EXCEPT ![w] = Idle]
      \/ (/\ Holds(w) /\ mem' = [mem EXCEPT ![w] = m] /\ MatchingAuthority(w, r, mem[w].attempt)
          /\ Unexpired(r))
  BY DEF Inspect, Restart, Know
<1>4. Idle \in Memories /\ Idle.run = NoRun /\ Idle.left = 0 BY IdleFields
<1>5. CASE mem' = [mem EXCEPT ![w] = Idle]
  <2>1. mem' \in [Workers -> Memories] /\ mem'[w] = Idle /\ \A v \in Workers : v # w => mem'[v] = mem[v]
    BY <1>4, <1>5 DEF NativeInv, NativeTypeOK
  <2>2. \A v \in Workers : v # w => Holder(v)'
    BY <1>1, <2>1, HolderStays
  <2>3. Holder(w)' BY <1>4, <2>1, SMTT(30) DEF Holder
  <2>4. QED BY <1>1, <2>1, <2>2, <2>3 DEF NativeInv, NativeTypeOK, SlotsAreOne, Unexpired
<1>6. CASE /\ Holds(w) /\ mem' = [mem EXCEPT ![w] = m] /\ MatchingAuthority(w, r, mem[w].attempt)
           /\ Unexpired(r)
  <2>1. r # NoRun /\ r \in Runs
    BY <1>2, <1>6 DEF Holds, Holder, Memories
  <2>2. leases[r].left \in 0..LeaseTTL /\ runs[r].revision \in Nat
    BY <2>1 DEF NativeInv, NativeTypeOK, LeaseRecords, Snapshots
  <2>3. left \in 0..LeaseTTL BY <2>2, NativeTTLAssumption, SMTT(30)
  <2>4. m \in Memories /\ m.run = r /\ m.attempt = mem[w].attempt /\ m.left = left
    BY <1>2, <2>2, <2>3 DEF Memory, Memories
  <2>5. mem' \in [Workers -> Memories] /\ mem'[w] = m /\ \A v \in Workers : v # w => mem'[v] = mem[v]
    BY <1>6, <2>4 DEF NativeInv, NativeTypeOK
  <2>6. \A v \in Workers : v # w => Holder(v)'
    BY <1>1, <2>5, HolderStays
  <2>7. Holder(w)'
    <3>1. left > 0 => leases[r].left >= left BY <2>2, NativeTTLAssumption, SMTT(30)
    <3>2. leases[r].worker = w /\ leases[r].attempt = mem[w].attempt /\ leases[r].released = "no"
      BY <1>6 DEF MatchingAuthority, Unexpired
    <3> HIDE DEF left, m, r
    <3>3. QED BY <1>1, <2>1, <2>4, <2>5, <3>1, <3>2 DEF Holder
  <2>8. QED BY <1>1, <2>5, <2>6, <2>7 DEF NativeInv, NativeTypeOK, SlotsAreOne, Unexpired
<1>7. QED BY <1>3, <1>5, <1>6

\* A lease that outlasts what its worker reckons with still does so later. (expires_at.)
LEMMA TimeLeftMonotone ==
    ASSUME NEW s \in 0..LeaseTTL, NEW t \in 0..LeaseTTL, s >= t
    PROVE  TimeLeft(s) >= TimeLeft(t)
BY NativeTTLAssumption, SMTT(30) DEF TimeLeft

\* Time passes for the lease and for the worker alike.
LEMMA TickStep ==
    ASSUME NativeInv, Tick
    PROVE  NativeInv'
<1>1. /\ runs' = runs
      /\ leases' = [r \in Runs |-> LeaseRow(r, TimeLeft(leases[r].left), leases[r].released)]
      /\ mem' = [w \in Workers |-> Memory(w, mem[w].revision, TimeLeft(mem[w].left))]
  BY DEF Tick
<1>2. ASSUME NEW r \in Runs
      PROVE  /\ leases'[r] \in LeaseRecords /\ leases'[r].worker = leases[r].worker
             /\ leases'[r].attempt = leases[r].attempt /\ leases'[r].released = leases[r].released
             /\ leases'[r].left = TimeLeft(leases[r].left)
             /\ leases[r].left \in 0..LeaseTTL
  <2>1. leases[r] \in LeaseRecords /\ leases[r].left \in 0..LeaseTTL
    BY DEF NativeInv, NativeTypeOK, LeaseRecords
  <2>2. TimeLeft(leases[r].left) \in 0..LeaseTTL
    BY <2>1, NativeTTLAssumption, SMTT(30) DEF TimeLeft
  <2>3. LeaseRow(r, TimeLeft(leases[r].left), leases[r].released) \in LeaseRecords
    BY <2>1, <2>2 DEF LeaseRow, LeaseRecords
  <2>4. QED BY <1>1, <2>1, <2>3, LeaseRowFields, SMTT(30)
<1>3. ASSUME NEW w \in Workers
      PROVE  /\ mem'[w] \in Memories /\ mem'[w].run = mem[w].run
             /\ mem'[w].attempt = mem[w].attempt /\ mem'[w].left = TimeLeft(mem[w].left)
             /\ mem[w].left \in 0..LeaseTTL
             /\ mem[w] = Idle => mem'[w] = Idle
  <2>1. mem[w] \in Memories /\ mem[w].left \in 0..LeaseTTL
    BY DEF NativeInv, NativeTypeOK, Memories
  <2>2. TimeLeft(mem[w].left) \in 0..LeaseTTL
    BY <2>1, NativeTTLAssumption, SMTT(30) DEF TimeLeft
  <2>3. Memory(w, mem[w].revision, TimeLeft(mem[w].left)) \in Memories
    BY <2>1, <2>2 DEF Memory, Memories
  <2>4. mem[w] = Idle => Memory(w, mem[w].revision, TimeLeft(mem[w].left)) = Idle
    BY SMTT(30) DEF Idle, Memory, TimeLeft
  <2>5. QED BY <1>1, <2>1, <2>3, <2>4, MemoryFields, SMTT(30)
<1>4. ASSUME NEW w \in Workers PROVE Holder(w)'
  <2>1. Holder(w) BY DEF NativeInv
  <2>2. CASE mem[w].left > 0
    <3>1. mem[w].run \in Runs BY <2>1, <2>2 DEF Holder
    <3>2. leases[mem[w].run].left >= mem[w].left BY <2>1, <2>2 DEF Holder
    <3>3. TimeLeft(leases[mem[w].run].left) >= TimeLeft(mem[w].left)
      BY <1>2, <1>3, <3>1, <3>2, TimeLeftMonotone
    <3>4. leases'[mem[w].run].left >= mem'[w].left
      BY <1>2, <1>3, <3>1, <3>3
    <3>5. QED BY <1>2, <1>3, <2>1, <2>2, <3>1, <3>4 DEF Holder
  <2>3. CASE ~(mem[w].left > 0)
    <3>1. mem'[w].left = 0 BY <1>3, <2>3, NativeTTLAssumption, SMTT(30) DEF TimeLeft
    <3>2. QED BY <1>3, <2>1, <3>1, SMTT(30) DEF Holder
  <2>4. QED BY <2>2, <2>3
<1>5. SlotsAreOne'
  <2>1. \A q \in Runs : Unexpired(q)' => Unexpired(q)
    BY <1>2, NativeTTLAssumption, SMTT(30) DEF Unexpired, TimeLeft
  <2>2. QED BY <1>2, <2>1 DEF NativeInv, SlotsAreOne
<1>6. NativeTypeOK'
  <2>1. leases' \in [Runs -> LeaseRecords] BY <1>1, <1>2
  <2>2. mem' \in [Workers -> Memories] BY <1>1, <1>3
  <2>3. QED BY <1>1, <2>1, <2>2 DEF NativeInv, NativeTypeOK
<1>7. QED BY <1>4, <1>5, <1>6 DEF NativeInv

\* Every step preserves the invariant.
LEMMA NativeStep ==
    ASSUME NativeInv, NativeNext
    PROVE  NativeInv'
<1>0. runs' \in [Runs -> Snapshots] BY RunsTyped
<1>1. ASSUME UNCHANGED <<leases, mem>> PROVE NativeInv'
  BY <1>0, <1>1 DEF NativeInv, NativeTypeOK, SlotsAreOne, Unexpired, Holder
<1>2. ASSUME NEW w \in Workers, Calls(w)
      PROVE  /\ Stopped(w) \in Memories /\ Stopped(w).run = mem[w].run
             /\ Stopped(w).attempt = mem[w].attempt /\ Stopped(w).left = 0
             /\ Idle \in Memories
  <2>1. mem[w] \in Memories BY <1>2, CallerHolds
  <2>2. Stopped(w) \in Memories BY <2>1, NativeTTLAssumption, SMTT(30) DEF Stopped, Memory, Memories
  <2>3. QED BY <2>2, IdleFields DEF Stopped, Memory
<1>3. ASSUME NEW w \in Workers, NEW phase \in Phases, Renew(w, phase) PROVE NativeInv'
  <2>1. Calls(w) /\ SetLease(mem[w].run, LeaseTTL, "no") BY <1>3 DEF Renew
  <2>2. mem[w] \in Memories /\ mem[w].run \in Runs /\ runs[mem[w].run] \in Snapshots
    BY <2>1, CallerHolds
  <2> DEFINE r == mem[w].run
             next == IF runs[r].state = "CANCELLING" THEN runs[r] ELSE AdvancePhase(runs[r], phase)
             m == Memory(w, next.revision, LeaseTTL)
  <2>3. next \in Snapshots BY <1>3, <2>2, PhaseResult DEF Renew
  <2>4. UNCHANGED mem \/ mem' = [mem EXCEPT ![w] = m]
    BY <1>3 DEF Renew, Told, Know
  <2> HIDE DEF next
  <2>5. m \in Memories /\ m.run = mem[w].run /\ m.attempt = mem[w].attempt
    BY <2>2, <2>3, NativeTTLAssumption, SMTT(30) DEF Memory, Memories, Snapshots
  <2>6. UNCHANGED mem => mem' = [mem EXCEPT ![w] = mem[w]]
    BY DEF NativeInv, NativeTypeOK
  <2> HIDE DEF m
  <2>7. QED BY <1>0, <2>1, <2>2, <2>4, <2>5, <2>6, HolderStep
<1>4. ASSUME NEW w \in Workers, NEW reason \in Reasons, Release(w, reason) PROVE NativeInv'
  <2>1. Calls(w) /\ SetLease(mem[w].run, 0, reason) BY <1>4 DEF Release
  <2>2. mem' = [mem EXCEPT ![w] = Idle] \/ mem' = [mem EXCEPT ![w] = Stopped(w)]
    BY <1>4 DEF Release, Know
  <2>3. reason \in ReleaseReasons /\ 0 # LeaseTTL BY VocabularyAssumption, NativeTTLAssumption
  <2>4. QED BY <1>0, <1>2, <2>1, <2>2, <2>3, HolderStep
<1>5. ASSUME NEW w \in Workers, NEW kind \in Kinds, Report(w, kind) PROVE NativeInv'
  <2>1. Calls(w) /\ SetLease(mem[w].run, 0, "no") BY <1>5 DEF Report
  <2>2. mem' = [mem EXCEPT ![w] = Idle] \/ mem' = [mem EXCEPT ![w] = Stopped(w)]
    BY <1>5 DEF Report, Know
  <2>3. QED BY <1>0, <1>2, <2>1, <2>2, HolderStep
<1>6. ASSUME NEW r \in Runs, Accept(r) \/ Cancel(r) PROVE NativeInv'
  BY <1>1, <1>6 DEF Accept, Cancel
<1>7. QED
  BY <1>1, <1>3, <1>4, <1>5, <1>6, AcquireStep, InspectStep, TickStep, StepCases

\* It holds at the start.
LEMMA NativeStart == NativeInit => NativeInv
<1> SUFFICES ASSUME NativeInit PROVE NativeInv
  OBVIOUS
<1>1. Absent \in Snapshots BY DEF Absent, Snapshots
<1>2. NoLease \in LeaseRecords /\ NoLease.left = 0
  BY NativeTTLAssumption, SMTT(30) DEF NoLease, LeaseRecords
<1>3. NativeTypeOK BY <1>1, <1>2, IdleFields DEF NativeInit, NativeTypeOK
<1>4. SlotsAreOne BY <1>2, SMTT(30) DEF NativeInit, SlotsAreOne, Unexpired
<1>5. \A w \in Workers : Holder(w) BY IdleFields, SMTT(30) DEF NativeInit, Holder
<1>6. QED BY <1>3, <1>4, <1>5 DEF NativeInv

\* The inductive invariant is one.
LEMMA NativeInvariant == NativeSpec => []NativeInv
<1>1. ASSUME NativeInv, UNCHANGED nativeVars PROVE NativeInv'
  BY <1>1 DEF nativeVars, NativeInv, NativeTypeOK, SlotsAreOne, Unexpired, Holder
<1>2. NativeInv /\ [NativeNext]_nativeVars => NativeInv'
  BY <1>1, NativeStep
<1>3. QED BY <1>2, NativeStart, PTL DEF NativeSpec

\* No two workers execute a Run: who executes holds the lease for as long as it was told
\* (native_leases.go, native_renewals.go).
THEOREM NativeExecutorsHoldTheLease == NativeSpec => []ExecutorsHoldTheLease
<1>1. NativeInv => ExecutorsHoldTheLease
  BY DEF NativeInv, Holder, ExecutorsHoldTheLease, Executes, MatchingAuthority
<1>2. QED BY <1>1, NativeInvariant, PTL

\* A worker never has two current slots, so discovery's refusal of several
\* (native_discovery.go:70) is unreachable.
THEOREM NativeWorkersOccupyOneSlot == NativeSpec => []OneSlot
<1>1. NativeInv => OneSlot
  <2> SUFFICES ASSUME NativeInv, NEW w \in Workers PROVE Cardinality(CurrentSlots(w)) <= 1
    BY DEF OneSlot
  <2>1. \A q, r \in CurrentSlots(w) : q = r
    BY DEF NativeInv, SlotsAreOne, CurrentSlots
  <2>2. CASE CurrentSlots(w) = {}
    BY <2>2, FS_EmptySet, SMTT(30)
  <2>3. CASE CurrentSlots(w) # {}
    <3>1. PICK r : r \in CurrentSlots(w) BY <2>3
    <3>2. CurrentSlots(w) = {r} BY <2>1, <3>1
    <3>3. QED BY <3>2, FS_Singleton, SMTT(30)
  <2>4. QED BY <2>2, <2>3
<1>2. QED BY <1>1, NativeInvariant, PTL

-----------------------------------------------------------------------------
(* Runs and reports *)

\* What a step does to one Run: nothing; its acceptance; a move forward; or, for a Run that
\* is being cancelled, its end, with the lease.
LEMMA RunChange ==
    ASSUME NativeInv, NativeNext, NEW q \in Runs, runs'[q] # runs[q]
    PROVE  \/ (/\ runs[q].state = "CANCELLING" /\ runs'[q].state = "ABORTED"
               /\ leases'[q].left = 0)
           \/ (/\ runs[q].state # "CANCELLING"
               /\ runs[q].state = "ABSENT" \/ runs'[q].state \notin {"ABSENT", "CREATED"})
<1> DEFINE Goal == \/ (/\ runs[q].state = "CANCELLING" /\ runs'[q].state = "ABORTED"
                       /\ leases'[q].left = 0)
                   \/ (/\ runs[q].state # "CANCELLING"
                       /\ runs[q].state = "ABSENT" \/ runs'[q].state \notin {"ABSENT", "CREATED"})
<1>0. runs \in [Runs -> Snapshots] BY DEF NativeInv, NativeTypeOK
<1>1. ASSUME NEW r \in Runs, Accept(r) PROVE Goal
  BY <1>0, <1>1, SMTT(30) DEF Accept, Absent
<1>2. ASSUME NEW r \in Runs, Cancel(r) PROVE Goal
  <2>1. q = r /\ runs'[q] = RequestCancellation(runs[q]) BY <1>0, <1>2 DEF Cancel
  <2>2. /\ RequestCancellation(runs[q]).state = CancellationTarget(runs[q].state)
        /\ ~AlreadyCancelled(runs[q])
    BY <1>0, <1>2, <2>1, CancellationSnapshot DEF Cancel, RequestCancellation
  <2>3. QED BY <2>1, <2>2 DEF CancellationTarget, AlreadyCancelled
<1>3. ASSUME NEW w \in Workers, NEW phase \in Phases, Renew(w, phase) PROVE Goal
  <2> DEFINE r == mem[w].run
  <2>1. r \in Runs /\ runs[r] \in Snapshots BY <1>3, CallerHolds DEF Renew
  <2>2. q = r /\ runs[r].state # "CANCELLING" /\ runs'[q] = AdvancePhase(runs[r], phase)
    BY <1>0, <1>3, <2>1 DEF Renew
  <2>3. AdvancePhase(runs[r], phase).state \in {"WARMING_UP", "RUNNING", "COLLECTING"}
    BY <1>3, <2>1, <2>2, PhaseResult DEF Renew
  <2>4. QED BY <2>2, <2>3
<1>4. ASSUME NEW w \in Workers, NEW reason \in Reasons, Release(w, reason) PROVE Goal
  <2> DEFINE r == mem[w].run
  <2>1. r \in Runs /\ runs[r] \in Snapshots BY <1>4, CallerHolds DEF Release
  <2>2. /\ q = r /\ reason = "CANCELLATION_REQUESTED" /\ runs[r].state = "CANCELLING"
        /\ runs'[q] = Transition(runs[r], Change("ABORTED"))
    BY <1>0, <1>4, <2>1 DEF Release, releasedNativeRun, ReleaseAllowed
  <2>3. runs'[q].state = "ABORTED" BY <2>2, SMTT(30) DEF Transition, Change
  <2>4. leases'[q].left = 0
    BY <1>4, <2>1, <2>2, LeaseRowFields, SMTT(30) DEF Release, SetLease, NativeInv, NativeTypeOK
  <2>5. QED BY <2>2, <2>3, <2>4
<1>5. ASSUME NEW w \in Workers, NEW kind \in Kinds, Report(w, kind) PROVE Goal
  <2> DEFINE r == mem[w].run
  <2>1. r \in Runs /\ runs[r] \in Snapshots BY <1>5, CallerHolds DEF Report
  <2>2. q = r /\ runs'[q] = applyNativeTerminal(runs[r], kind) BY <1>0, <1>5, <2>1 DEF Report
  <2>3. /\ runs[r].state # "CANCELLING"
        /\ applyNativeTerminal(runs[r], kind).state \in
             {"WARMING_UP", "RUNNING", "COLLECTING", "TEST_FAILURE", "INFRASTRUCTURE_FAILURE"}
    BY <1>5, <2>1, TerminalResult DEF Report
  <2>4. QED BY <2>2, <2>3
<1>6. QED
  BY <1>1, <1>2, <1>3, <1>4, <1>5, StepCases DEF Acquire, Inspect, Restart, Tick, storeVars

\* A Run that is being cancelled leaves that state only as ABORTED and with its lease
\* released: a worker that reports or renews late does not change it
\* (native_terminal.go:42, native_renewals.go:52).
THEOREM NativeCancellationWins == NativeSpec => CancellationWins
<1> DEFINE A == \A r \in Runs : runs[r].state = "CANCELLING" /\ runs'[r] # runs[r] =>
                   /\ runs'[r].state = "ABORTED"
                   /\ \A w \in Workers : ~Executes(w, r)'
<1>1. ASSUME NativeInv, NativeInv', NativeNext PROVE A
  <2> SUFFICES ASSUME NEW r \in Runs, runs[r].state = "CANCELLING", runs'[r] # runs[r]
               PROVE  runs'[r].state = "ABORTED" /\ \A w \in Workers : ~Executes(w, r)'
    OBVIOUS
  <2>1. runs'[r].state = "ABORTED" /\ leases'[r].left = 0
    BY <1>1, RunChange
  <2>2. ASSUME NEW w \in Workers, Executes(w, r)' PROVE FALSE
    <3>1. Holder(w)' /\ mem'[w].left \in 0..LeaseTTL
      BY <1>1 DEF NativeInv, NativeTypeOK, Memories
    <3>2. mem'[w].run = r /\ mem'[w].left > 0
      BY <2>2 DEF Executes
    <3>3. leases'[r].left >= mem'[w].left
      BY <3>1, <3>2 DEF Holder
    <3>4. QED BY <2>1, <3>1, <3>2, <3>3, NativeTTLAssumption, SMTT(30)
  <2>3. QED BY <2>1, <2>2
<1>2. NativeInv /\ NativeInv' /\ [NativeNext]_nativeVars => [A]_nativeVars
  BY <1>1
<1>3. QED BY <1>2, NativeInvariant, PTL DEF NativeSpec, CancellationWins

\* A reported Run has left CREATED for good, so it is not leased again and its attempt
\* keeps the row.
ReportInv ==
    /\ DOMAIN reports = Runs
    /\ \A r \in Runs : Answered(r) => runs[r].state \notin {"ABSENT", "CREATED"}
    /\ ReportsAreAnswered

\* Every step preserves it.
LEMMA ReportStep ==
    ASSUME NativeInv, ReportInv, NativeNext
    PROVE  ReportInv'
<1>0. leases \in [Runs -> LeaseRecords] BY DEF NativeInv, NativeTypeOK
<1>1. ASSUME NEW r \in Runs, runs[r].state \notin {"ABSENT", "CREATED"}
      PROVE  runs'[r].state \notin {"ABSENT", "CREATED"}
  BY <1>1, RunChange
<1>2. ASSUME reports' = reports,
             \A r \in Runs : leases'[r].attempt = leases[r].attempt \/ runs[r].state = "CREATED"
      PROVE  ReportInv'
  BY <1>1, <1>2 DEF ReportInv, ReportsAreAnswered, Answered
<1>3. ASSUME NEW r \in Runs, NEW left, NEW released, SetLease(r, left, released)
      PROVE  \A q \in Runs : leases'[q].attempt = leases[q].attempt
  BY <1>0, <1>3, LeaseRowFields, SMTT(30) DEF SetLease
<1>4. ASSUME NEW w \in Workers, NEW r \in Runs, Acquire(w, r) PROVE ReportInv'
  <2>1. reports' = reports /\ runs[r].state = "CREATED" /\ \A q \in Runs : q # r => leases'[q] = leases[q]
    BY <1>0, <1>4 DEF Acquire, Acquirable
  <2>2. QED BY <1>2, <2>1
<1>5. ASSUME NEW w \in Workers, NEW phase \in Phases, Renew(w, phase) PROVE ReportInv'
  <2>1. mem[w].run \in Runs BY <1>5, CallerHolds DEF Renew
  <2>2. SetLease(mem[w].run, LeaseTTL, "no") /\ reports' = reports BY <1>5 DEF Renew
  <2>3. QED BY <1>2, <1>3, <2>1, <2>2
<1>6. ASSUME NEW w \in Workers, NEW reason \in Reasons, Release(w, reason) PROVE ReportInv'
  <2>1. mem[w].run \in Runs BY <1>6, CallerHolds DEF Release
  <2>2. SetLease(mem[w].run, 0, reason) /\ reports' = reports BY <1>6 DEF Release
  <2>3. QED BY <1>2, <1>3, <2>1, <2>2
<1>7. ASSUME NEW w \in Workers, NEW kind \in Kinds, Report(w, kind) PROVE ReportInv'
  <2> DEFINE r == mem[w].run
             next == applyNativeTerminal(runs[r], kind)
             report == [kind |-> kind, attempt |-> mem[w].attempt, revision |-> next.revision,
                        evidence |-> Registered(r, mem[w].attempt)]
  <2>1. r \in Runs /\ runs[r] \in Snapshots /\ leases[r].attempt = mem[w].attempt
    BY <1>7, CallerHolds DEF Report, MatchingAuthority
  <2>2. SetLease(r, 0, "no") /\ TerminalAllowed(runs[r], kind) BY <1>7 DEF Report
  <2>3. reports' = [reports EXCEPT ![r] = report] /\ runs' = [runs EXCEPT ![r] = next]
    BY <1>7 DEF Report
  <2>4. report.attempt = mem[w].attempt OBVIOUS
  <2>5. next.state \notin {"ABSENT", "CREATED"} BY <2>1, <2>2, TerminalResult
  <2> HIDE DEF r, next, report
  <2>6. /\ DOMAIN reports' = Runs /\ reports'[r] = report
        /\ \A q \in Runs : q # r => reports'[q] = reports[q]
    BY <2>1, <2>3 DEF ReportInv
  <2>7. runs'[r] = next BY <2>1, <2>3 DEF NativeInv, NativeTypeOK
  <2>8. \A q \in Runs : leases'[q].attempt = leases[q].attempt
    BY <1>3, <2>1, <2>2
  <2>9. QED
    BY <1>1, <2>1, <2>4, <2>5, <2>6, <2>7, <2>8 DEF ReportInv, ReportsAreAnswered, Answered
<1>8. ASSUME Tick PROVE ReportInv'
  <2>1. reports' = reports /\ \A r \in Runs : leases'[r].attempt = leases[r].attempt
    BY <1>8, LeaseRowFields, SMTT(30) DEF Tick
  <2>2. QED BY <1>2, <2>1
<1>9. ASSUME UNCHANGED <<leases, reports>> PROVE ReportInv'
  BY <1>2, <1>9
<1>10. ASSUME NEW r \in Runs, Accept(r) \/ Cancel(r) PROVE ReportInv'
  BY <1>9, <1>10 DEF Accept, Cancel
<1>11. ASSUME NEW w \in Workers, Inspect(w) \/ Restart(w) PROVE ReportInv'
  BY <1>9, <1>11 DEF Inspect, Restart, storeVars
<1>12. QED
  BY <1>4, <1>5, <1>6, <1>7, <1>8, <1>9, <1>10, <1>11, StepCases

\* Nothing is reported before the first attempt.
LEMMA ReportStart == NativeInit => ReportInv
BY DEF NativeInit, ReportInv, ReportsAreAnswered, Answered

\* The retry of a report whose answer was lost finds its attempt in the lease row, so it is
\* answered from the stored report (terminal.go, native_terminal.go).
THEOREM NativeReportsAreAnswered == NativeSpec => []ReportsAreAnswered
<1>1. NativeInit => ReportInv
  BY ReportStart
<1>2. ASSUME ReportInv, UNCHANGED nativeVars PROVE ReportInv'
  BY <1>2 DEF nativeVars, ReportInv, ReportsAreAnswered, Answered
<1>3. NativeInv /\ ReportInv /\ [NativeNext]_nativeVars => ReportInv'
  BY <1>2, ReportStep
<1>4. ReportInv => ReportsAreAnswered BY DEF ReportInv
<1>5. QED BY <1>1, <1>3, <1>4, NativeInvariant, PTL DEF NativeSpec

-----------------------------------------------------------------------------
(* Evidence *)

\* A registration that is in progress has verified the object of its attempt.
Verified(c) ==
    /\ c.run \in Runs /\ c.attempt \in Attempts /\ c.slot \in Slots
    /\ VerifiedObject(c.run, c.attempt, c.slot)

\* A worker that knows of a Run knows its attempt.
KnownAttempts == \A w \in Workers : mem[w].run \in Runs => mem[w].attempt \in Attempts

\* What is registered, or about to be, was uploaded by the attempt it is registered for.
FilesVerified ==
    /\ objects \in [Runs -> [(Attempts \union {NoAttempt}) \X Slots -> Attempts \union {NoAttempt}]]
    /\ artifacts \in [Runs -> [Attempts -> Seq(Slots)]]
    /\ DOMAIN checking = Workers
    /\ \A w \in Workers : checking[w] = NoCheck \/ Verified(checking[w])
    /\ \A r \in Runs, a \in Attempts : \A i \in DOMAIN artifacts[r][a] :
          VerifiedObject(r, a, artifacts[r][a][i])

\* A report ends the lease, and keeps what was registered when it was accepted.
Reported(r) ==
    /\ Answered(r) => ~Unexpired(r)
    /\ reports[r].kind = "COMPLETED" =>
          /\ reports[r].attempt \in Attempts
          /\ artifacts[r][reports[r].attempt] = reports[r].evidence
          /\ CompleteEvidence(reports[r].evidence)

FileInv == KnownAttempts /\ FilesVerified /\ \A r \in Runs : Reported(r)

\* Who asks for its attempt again, or forgets it, learns of no other.
LEMMA KnownStep ==
    ASSUME NativeInv, KnownAttempts, NativeNext
    PROVE  KnownAttempts'
<1>0. mem \in [Workers -> Memories] BY DEF NativeInv, NativeTypeOK
<1>1. Idle.run \notin Runs BY IdleFields, NativeNoneAssumption
<1>2. ASSUME NEW w \in Workers, NEW m,
             \/ m.run \notin Runs
             \/ m.attempt \in Attempts
             \/ m.run = mem[w].run /\ m.attempt = mem[w].attempt,
             \/ UNCHANGED mem
             \/ mem' = [mem EXCEPT ![w] = m]
      PROVE  KnownAttempts'
  BY <1>0, <1>2 DEF KnownAttempts
<1>3. ASSUME NEW w \in Workers, Know(w, Idle) \/ Know(w, Stopped(w)) PROVE KnownAttempts'
  BY <1>1, <1>2, <1>3, MemoryFields, SMTT(30) DEF Know, Stopped
<1>4. ASSUME NEW w \in Workers, NEW r \in Runs, Acquire(w, r) PROVE KnownAttempts'
  <2>1. PICK attempt \in Attempts :
          Told(w, [run |-> r, attempt |-> attempt, revision |-> runs[r].revision,
                   left |-> LeaseTTL])
    BY <1>4 DEF Acquire
  <2>2. QED BY <1>2, <2>1 DEF Told, Know
<1>5. ASSUME NEW w \in Workers, NEW phase \in Phases, Renew(w, phase) PROVE KnownAttempts'
  <2>1. \E revision : Told(w, Memory(w, revision, LeaseTTL))
    BY <1>5 DEF Renew
  <2>2. QED BY <1>2, <2>1, MemoryFields, SMTT(30) DEF Told, Know
<1>6. ASSUME NEW w \in Workers, NEW reason \in Reasons, Release(w, reason) PROVE KnownAttempts'
  BY <1>3, <1>6 DEF Release
<1>7. ASSUME NEW w \in Workers, NEW kind \in Kinds, Report(w, kind) PROVE KnownAttempts'
  BY <1>3, <1>7 DEF Report
<1>8. ASSUME NEW w \in Workers, Inspect(w) \/ Restart(w) PROVE KnownAttempts'
  <2>1. \/ Know(w, Idle)
        \/ \E revision, left : Know(w, Memory(w, revision, left))
    BY <1>8 DEF Inspect, Restart
  <2>2. QED BY <1>1, <1>2, <2>1, MemoryFields, SMTT(30) DEF Know
<1>9. CASE Tick
  <2>1. \A w \in Workers : mem'[w].run = mem[w].run /\ mem'[w].attempt = mem[w].attempt
    BY <1>9, MemoryFields, SMTT(30) DEF Tick
  <2>2. QED BY <2>1 DEF KnownAttempts
<1>10. CASE UNCHANGED mem
  BY <1>10 DEF KnownAttempts
<1>11. QED
  BY <1>4, <1>5, <1>6, <1>7, <1>8, <1>9, <1>10, StepCases DEF Accept, Cancel

\* The steps that touch what is uploaded and registered.
LEMMA FileCases ==
    ASSUME NativeNext
    PROVE  \/ \E w \in Workers, r \in Runs : Acquire(w, r)
           \/ \E r \in Runs, attempt \in Attempts, slot \in Slots : Put(r, attempt, slot)
           \/ \E w \in Workers, slot \in Slots : Reserve(w, slot) \/ Verify(w, slot)
           \/ \E w \in Workers : Register(w)
           \/ UNCHANGED <<objects, artifacts, checking>>
<1> DEFINE Quiet == UNCHANGED <<objects, artifacts, checking>>
<1>1. ASSUME NEW r \in Runs, Accept(r) \/ Cancel(r) PROVE Quiet
  BY <1>1 DEF Accept, Cancel, fileVars
<1>2. ASSUME NEW w \in Workers, Poll(w) \/ Inspect(w) \/ Restart(w) PROVE Quiet
  BY <1>2 DEF Poll, Inspect, Restart, storeVars
<1>3. ASSUME NEW w \in Workers, NEW r \in Runs, AcquireLoses(w, r) PROVE Quiet
  BY <1>3 DEF AcquireLoses, storeVars
<1>4. ASSUME NEW w \in Workers, NEW offers \in BOOLEAN, RecordPresence(w, offers) PROVE Quiet
  BY <1>4 DEF RecordPresence, fileVars
<1>5. ASSUME NEW w \in Workers, NEW x, Renew(w, x) \/ Release(w, x) \/ Report(w, x) PROVE Quiet
  BY <1>5 DEF Renew, Release, Report, fileVars
<1>6. CASE Tick
  BY <1>6 DEF Tick, fileVars
<1> HIDE DEF Quiet
<1>7. QED BY <1>1, <1>2, <1>3, <1>4, <1>5, <1>6 DEF NativeNext, Worker, Quiet

\* A worker that calls knows an attempt.
LEMMA CallerKnows ==
    ASSUME NativeInv, KnownAttempts, NEW w \in Workers, Calls(w)
    PROVE  mem[w].run \in Runs /\ mem[w].attempt \in Attempts
BY CallerHolds DEF KnownAttempts

\* An object that was uploaded stays what its attempt uploaded, for its key names the attempt;
\* what a new attempt drops is its own.
LEMMA FilesStep ==
    ASSUME NativeInv, KnownAttempts, FilesVerified, NativeNext
    PROVE  FilesVerified'
<1> DEFINE Keys == (Attempts \union {NoAttempt}) \X Slots
<1>1. /\ objects \in [Runs -> [Keys -> Attempts \union {NoAttempt}]]
      /\ artifacts \in [Runs -> [Attempts -> Seq(Slots)]] /\ DOMAIN checking = Workers
      /\ \A w \in Workers : checking[w] = NoCheck \/ Verified(checking[w])
      /\ \A r \in Runs, a \in Attempts : \A i \in DOMAIN artifacts[r][a] :
            VerifiedObject(r, a, artifacts[r][a][i])
  BY DEF FilesVerified
<1>2. CASE UNCHANGED <<objects, artifacts, checking>>
  BY <1>2 DEF FilesVerified, Verified, VerifiedObject
<1>3. ASSUME NEW r \in Runs, NEW attempt \in Attempts, NEW slot \in Slots, Put(r, attempt, slot)
      PROVE  FilesVerified'
  <2>1. /\ objects' = [objects EXCEPT ![r][<<attempt, slot>>] = attempt]
        /\ artifacts' = artifacts /\ checking' = checking
    BY <1>3 DEF Put, ObjectKey
  <2>2. objects' \in [Runs -> [Keys -> Attempts \union {NoAttempt}]]
    BY <1>1, <2>1
  <2>3. ASSUME NEW q \in Runs, NEW a \in Attempts, NEW s \in Slots, VerifiedObject(q, a, s)
        PROVE  VerifiedObject(q, a, s)'
    <3>1. objects[q][<<a, s>>] = a /\ <<a, s>> \in Keys
      BY <2>3 DEF VerifiedObject, ObjectKey
    <3>2. objects'[q][<<a, s>>] = a
      BY <1>1, <2>1, <3>1
    <3>3. QED BY <3>2 DEF VerifiedObject, ObjectKey
  <2>4. \A q \in Runs, a \in Attempts : \A i \in DOMAIN artifacts[q][a] : artifacts[q][a][i] \in Slots
    BY <1>1, SMTT(30)
  <2>5. QED BY <1>1, <2>1, <2>2, <2>3, <2>4 DEF FilesVerified, Verified
<1>4. ASSUME NEW w \in Workers, NEW slot \in Slots, Reserve(w, slot) PROVE FilesVerified'
  <2>1. /\ objects' = objects /\ artifacts' = artifacts
        /\ checking' = [checking EXCEPT ![w] = IF checking[w].slot = slot THEN NoCheck ELSE checking[w]]
    BY <1>4 DEF Reserve
  <2>2. DOMAIN checking' = Workers /\ \A v \in Workers : checking'[v] \in {checking[v], NoCheck}
    BY <1>1, <2>1
  <2>3. QED BY <1>1, <2>1, <2>2 DEF FilesVerified, Verified, VerifiedObject
<1>5. ASSUME NEW w \in Workers, NEW slot \in Slots, Verify(w, slot) PROVE FilesVerified'
  <2> DEFINE c == [run |-> mem[w].run, attempt |-> mem[w].attempt, revision |-> mem[w].revision,
                   slot |-> slot]
  <2>1. /\ objects' = objects /\ artifacts' = artifacts /\ Calls(w)
        /\ VerifiedObject(mem[w].run, mem[w].attempt, slot)
        /\ checking' = [checking EXCEPT ![w] = c]
    BY <1>5 DEF Verify, storeVars
  <2>2. Verified(c)
    BY <2>1, CallerKnows DEF Verified
  <2> HIDE DEF c
  <2>3. DOMAIN checking' = Workers /\ \A v \in Workers : checking'[v] \in {checking[v], c}
    BY <1>1, <2>1
  <2>4. QED BY <1>1, <2>1, <2>2, <2>3 DEF FilesVerified, Verified, VerifiedObject
<1>6. ASSUME NEW w \in Workers, Register(w) PROVE FilesVerified'
  <2> DEFINE c == checking[w]
  <2>1. /\ objects' = objects /\ Verified(c)
        /\ checking' = [checking EXCEPT ![w] = NoCheck]
    BY <1>1, <1>6 DEF Register
  <2>2. \/ artifacts' = artifacts
        \/ artifacts' = [artifacts EXCEPT ![c.run][c.attempt] = Append(artifacts[c.run][c.attempt], c.slot)]
    <3>1. c.run \in Runs /\ c.attempt \in Attempts
      BY <2>1 DEF Verified
    <3>2. QED BY <1>1, <1>6, <3>1 DEF Register
  <2>3. c.run \in Runs /\ c.attempt \in Attempts /\ c.slot \in Slots /\ VerifiedObject(c.run, c.attempt, c.slot)
    BY <2>1 DEF Verified
  <2> HIDE DEF c
  <2>4. artifacts' \in [Runs -> [Attempts -> Seq(Slots)]]
    <3> DEFINE Files == Seq(Slots)
               files == Append(artifacts[c.run][c.attempt], c.slot)
    <3>1. files \in Files
      <4>1. artifacts[c.run][c.attempt] \in Seq(Slots)
        BY <1>1, <2>3
      <4>2. QED BY <2>3, <4>1, AppendedFiles
    <3>2. artifacts' = artifacts \/ artifacts' = [artifacts EXCEPT ![c.run][c.attempt] = files]
      BY <2>2
    <3>3. artifacts \in [Runs -> [Attempts -> Files]]
      BY <1>1
    <3> HIDE DEF Files, files
    <3>4. artifacts' \in [Runs -> [Attempts -> Files]]
      BY <2>3, <3>1, <3>2, <3>3, SMTT(30)
    <3>5. QED BY <3>4 DEF Files
  <2>5. ASSUME NEW r \in Runs, NEW a \in Attempts, NEW i \in DOMAIN artifacts'[r][a]
        PROVE  VerifiedObject(r, a, artifacts'[r][a][i])
    <3>1. CASE artifacts'[r][a] = artifacts[r][a]
      BY <1>1, <3>1
    <3>2. CASE r = c.run /\ a = c.attempt /\ artifacts'[r][a] = Append(artifacts[r][a], c.slot)
      <4> DEFINE before == artifacts[r][a]
                 after == artifacts'[r][a]
      <4>1. before \in Seq(Slots)
        BY <1>1
      <4>2. after = Append(before, c.slot) /\ i \in DOMAIN after
        BY <3>2
      <4> HIDE DEF before, after
      <4>3. (i \in DOMAIN before /\ after[i] = before[i]) \/ after[i] = c.slot
        <5>1. \A j \in DOMAIN Append(before, c.slot) :
                 \/ j \in DOMAIN before /\ Append(before, c.slot)[j] = before[j]
                 \/ Append(before, c.slot)[j] = c.slot
          BY <2>3, <4>1, AppendedFiles
        <5>2. QED BY <4>2, <5>1
      <4>4. QED BY <1>1, <2>3, <3>2, <4>3 DEF before, after
    <3>3. QED BY <1>1, <2>2, <2>3, <3>1, <3>2, SMTT(30)
  <2>6. DOMAIN checking' = Workers /\ \A v \in Workers : checking'[v] \in {checking[v], NoCheck}
    BY <1>1, <2>1
  <2>7. \A v \in Workers : checking'[v] = NoCheck \/ Verified(checking'[v])
    BY <1>1, <2>6
  <2>8. \A v \in Workers : checking'[v] = NoCheck \/ Verified(checking[v])'
    BY <2>1, <2>7 DEF Verified, VerifiedObject, ObjectKey
  <2>9. \A r \in Runs, a \in Attempts : \A i \in DOMAIN artifacts'[r][a] :
           VerifiedObject(r, a, artifacts[r][a][i])'
    BY <2>1, <2>5 DEF VerifiedObject, ObjectKey
  <2>10. QED BY <1>1, <2>1, <2>4, <2>6, <2>8, <2>9 DEF FilesVerified
<1>7. ASSUME NEW w \in Workers, NEW r \in Runs, Acquire(w, r) PROVE FilesVerified'
  <2>1. PICK attempt \in Attempts : FreshAttempt(r, attempt) /\ DropFiles(r, attempt)
    BY <1>7 DEF Acquire
  <2>2. checking' = checking
    BY <1>7 DEF Acquire
  <2>3. /\ artifacts' = [artifacts EXCEPT ![r][attempt] = <<>>]
        /\ objects' = [objects EXCEPT ![r] =
              [key \in Keys |-> IF key[1] = attempt THEN NoAttempt ELSE objects[r][key]]]
    BY <1>1, <2>1 DEF DropFiles
  <2>4. /\ objects' \in [Runs -> [Keys -> Attempts \union {NoAttempt}]]
        /\ artifacts' \in [Runs -> [Attempts -> Seq(Slots)]]
    BY <1>1, <2>3, SMTT(30)
  <2>5. ASSUME NEW q \in Runs, NEW a \in Attempts, NEW s \in Slots, VerifiedObject(q, a, s),
               q # r \/ a # attempt
        PROVE  VerifiedObject(q, a, s)'
    <3>1. objects[q][<<a, s>>] = a /\ <<a, s>> \in Keys
      BY <2>5 DEF VerifiedObject, ObjectKey
    <3>2. objects'[q][<<a, s>>] = a
      BY <1>1, <2>3, <2>5, <3>1
    <3>3. QED BY <3>2 DEF VerifiedObject, ObjectKey
  <2>6. ASSUME NEW q \in Runs, NEW a \in Attempts, NEW i \in DOMAIN artifacts'[q][a]
        PROVE  VerifiedObject(q, a, artifacts[q][a][i])'
    <3>1. artifacts'[q][a] = artifacts[q][a] /\ (q # r \/ a # attempt)
      BY <1>1, <2>3, <2>6, SMTT(30)
    <3>2. artifacts[q][a][i] \in Slots /\ VerifiedObject(q, a, artifacts[q][a][i])
      BY <1>1, <2>6, <3>1, SMTT(30)
    <3>3. objects'[q][ObjectKey(a, artifacts[q][a][i])] = a
      BY <2>5, <3>1, <3>2 DEF VerifiedObject, ObjectKey
    <3>4. QED BY <3>1, <3>3 DEF VerifiedObject, ObjectKey
  <2>7. ASSUME NEW v \in Workers, checking[v] # NoCheck PROVE Verified(checking[v])'
    <3>1. Verified(checking[v]) /\ checking[v].attempt # attempt
      BY <1>1, <2>1, <2>7 DEF FreshAttempt
    <3>2. /\ checking[v].run \in Runs /\ checking[v].attempt \in Attempts /\ checking[v].slot \in Slots
          /\ VerifiedObject(checking[v].run, checking[v].attempt, checking[v].slot)
      BY <3>1 DEF Verified
    <3>3. objects'[checking[v].run][ObjectKey(checking[v].attempt, checking[v].slot)] = checking[v].attempt
      BY <2>5, <3>1, <3>2 DEF VerifiedObject, ObjectKey
    <3>4. QED BY <2>2, <3>2, <3>3 DEF Verified, VerifiedObject, ObjectKey
  <2>8. \A v \in Workers : checking'[v] = NoCheck \/ Verified(checking[v])'
    BY <2>2, <2>7
  <2>9. QED BY <1>1, <2>2, <2>4, <2>6, <2>8 DEF FilesVerified
<1>8. QED BY <1>2, <1>3, <1>4, <1>5, <1>6, <1>7, FileCases

\* Nobody holds the lease of a Run that has reported again, and its report is kept: the
\* lease is over, and the Run has left CREATED.
LEMMA ReportIsKept ==
    ASSUME NativeInv, ReportInv, NativeNext, NEW r \in Runs, Answered(r), ~Unexpired(r)
    PROVE  reports'[r] = reports[r] /\ ~Unexpired(r)'
<1>0. leases \in [Runs -> LeaseRecords] BY DEF NativeInv, NativeTypeOK
<1>1. ASSUME reports' = reports, leases'[r] = leases[r] PROVE reports'[r] = reports[r] /\ ~Unexpired(r)'
  BY <1>1 DEF Unexpired
<1>2. ASSUME NEW w \in Workers, Calls(w) PROVE mem[w].run \in Runs /\ mem[w].run # r
  BY <1>2, CallerHolds
<1>3. ASSUME NEW q \in Runs, q # r, NEW left, NEW released, SetLease(q, left, released)
      PROVE  leases'[r] = leases[r]
  BY <1>0, <1>3 DEF SetLease
<1>4. ASSUME NEW w \in Workers, NEW q \in Runs, Acquire(w, q) PROVE reports' = reports /\ leases'[r] = leases[r]
  <2>1. runs[q].state = "CREATED" /\ runs[r].state # "CREATED"
    BY <1>4 DEF Acquire, Acquirable, ReportInv
  <2>2. PICK attempt : leases' = [leases EXCEPT ![q] = NewLease(w, attempt)]
    BY <1>4 DEF Acquire
  <2>3. reports' = reports
    BY <1>4 DEF Acquire
  <2>4. QED BY <1>0, <2>1, <2>2, <2>3
<1>5. ASSUME NEW w \in Workers, NEW phase \in Phases, Renew(w, phase)
      PROVE  reports' = reports /\ leases'[r] = leases[r]
  <2>1. Calls(w) /\ SetLease(mem[w].run, LeaseTTL, "no") /\ reports' = reports
    BY <1>5 DEF Renew
  <2>2. QED BY <1>2, <1>3, <2>1
<1>6. ASSUME NEW w \in Workers, NEW reason \in Reasons, Release(w, reason)
      PROVE  reports' = reports /\ leases'[r] = leases[r]
  <2>1. Calls(w) /\ SetLease(mem[w].run, 0, reason) /\ reports' = reports
    BY <1>6 DEF Release
  <2>2. QED BY <1>2, <1>3, <2>1
<1>7. ASSUME NEW w \in Workers, NEW kind \in Kinds, Report(w, kind)
      PROVE  reports'[r] = reports[r] /\ ~Unexpired(r)'
  <2>1. Calls(w) /\ SetLease(mem[w].run, 0, "no")
    BY <1>7 DEF Report
  <2>2. \E report : reports' = [reports EXCEPT ![mem[w].run] = report]
    BY <1>7 DEF Report
  <2>3. mem[w].run \in Runs /\ mem[w].run # r
    BY <1>2, <2>1
  <2>4. leases'[r] = leases[r]
    BY <1>3, <2>1, <2>3
  <2>5. reports'[r] = reports[r]
    BY <2>2, <2>3 DEF ReportInv
  <2>6. QED BY <2>4, <2>5 DEF Unexpired
<1>8. CASE Tick
  <2>1. reports' = reports /\ leases'[r] = LeaseRow(r, TimeLeft(leases[r].left), leases[r].released)
    BY <1>8 DEF Tick
  <2>2. leases[r].left \in Nat
    BY <1>0, NativeTTLAssumption, SMTT(30) DEF LeaseRecords
  <2>3. leases'[r].left = TimeLeft(leases[r].left)
    BY <2>1, LeaseRowFields, SMTT(30)
  <2>4. leases'[r].left > 0 => leases[r].left > 0
    BY <2>2, <2>3, SMTT(30) DEF TimeLeft
  <2>5. leases'[r].released = leases[r].released
    BY <2>1, LeaseRowFields, SMTT(30)
  <2>6. QED BY <2>1, <2>4, <2>5 DEF Unexpired
<1>9. ASSUME NEW q \in Runs, Accept(q) \/ Cancel(q) PROVE reports' = reports /\ leases' = leases
  BY <1>9 DEF Accept, Cancel
<1>10. ASSUME NEW w \in Workers, Inspect(w) \/ Restart(w) PROVE reports' = reports /\ leases' = leases
  BY <1>10 DEF Inspect, Restart, storeVars
<1>11. QED BY <1>1, <1>4, <1>5, <1>6, <1>7, <1>8, <1>9, <1>10, StepCases

\* Nothing is registered for a Run that has reported: a registration that was under way when
\* the report was accepted finds the lease over (native_artifacts.go).
LEMMA FilesAreKept ==
    ASSUME NativeInv, ReportInv, FilesVerified, NativeNext, NEW r \in Runs, Answered(r), ~Unexpired(r)
    PROVE  artifacts'[r] = artifacts[r]
<1>1. artifacts \in [Runs -> [Attempts -> Seq(Slots)]]
  BY DEF FilesVerified
<1>2. ASSUME NEW w \in Workers, NEW q \in Runs, Acquire(w, q) PROVE artifacts'[r] = artifacts[r]
  <2>1. q # r
    BY <1>2 DEF Acquire, Acquirable, ReportInv
  <2>2. \E attempt \in Attempts : artifacts' = [artifacts EXCEPT ![q][attempt] = <<>>]
    BY <1>2 DEF Acquire, DropFiles
  <2>3. QED BY <1>1, <2>1, <2>2
<1>3. ASSUME NEW w \in Workers, Register(w) PROVE artifacts'[r] = artifacts[r]
  <2> DEFINE c == checking[w]
  <2>1. c.run \in Runs /\ c.attempt \in Attempts
    BY <1>3 DEF Register, FilesVerified, Verified
  <2>2. CASE c.run = r
    <3>1. ~Authorized(w, c.run, c.attempt, c.revision)
      BY <2>2 DEF Authorized
    <3>2. artifacts' = [artifacts EXCEPT ![c.run][c.attempt] = @]
      BY <1>3, <3>1 DEF Register
    <3> HIDE DEF c
    <3>3. QED BY <1>1, <2>1, <3>2
  <2>3. CASE c.run # r
    <3>1. \E files : artifacts' = [artifacts EXCEPT ![c.run][c.attempt] = files]
      BY <1>3 DEF Register
    <3> HIDE DEF c
    <3>2. QED BY <1>1, <2>1, <2>3, <3>1
  <2>4. QED BY <2>2, <2>3
<1>4. ASSUME NEW w \in Workers, NEW slot \in Slots, Reserve(w, slot) \/ Verify(w, slot)
      PROVE  artifacts' = artifacts
  BY <1>4 DEF Reserve, Verify, storeVars
<1>5. ASSUME NEW q \in Runs, NEW attempt \in Attempts, NEW slot \in Slots, Put(q, attempt, slot)
      PROVE  artifacts' = artifacts
  BY <1>5 DEF Put
<1>6. QED BY <1>2, <1>3, <1>4, <1>5, FileCases

\* A report keeps what it found registered, and ends the lease.
LEMMA ReportedStep ==
    ASSUME NativeInv, ReportInv, FileInv, NativeNext, NEW r \in Runs
    PROVE  Reported(r)'
<1>1. KnownAttempts /\ FilesVerified /\ Reported(r)
  BY DEF FileInv
<1>2. NoReport.kind = "none"
  BY DEF NoReport
<1>3. CASE Answered(r)
  <2>1. ~Unexpired(r)
    BY <1>1, <1>3 DEF Reported
  <2>2. /\ reports'[r] = reports[r] /\ ~Unexpired(r)' /\ artifacts'[r] = artifacts[r]
    BY <1>1, <1>3, <2>1, ReportIsKept, FilesAreKept
  <2>3. QED BY <1>1, <2>2 DEF Reported, Answered, CompleteEvidence
<1>4. ASSUME ~Answered(r), reports'[r] = reports[r] PROVE Reported(r)'
  BY <1>2, <1>4 DEF Reported, Answered
<1>5. leases \in [Runs -> LeaseRecords]
  BY DEF NativeInv, NativeTypeOK
<1>6. ASSUME ~Answered(r), NEW w \in Workers, NEW kind \in Kinds, Report(w, kind) PROVE Reported(r)'
  <2> DEFINE q == mem[w].run
             files == artifacts[q][mem[w].attempt]
             next == applyNativeTerminal(runs[q], kind)
             report == [kind |-> kind, attempt |-> mem[w].attempt, revision |-> next.revision,
                        evidence |-> files]
  <2>1. /\ Calls(w) /\ SetLease(q, 0, "no") /\ reports' = [reports EXCEPT ![q] = report]
        /\ kind = "COMPLETED" => CompleteEvidence(files)
        /\ artifacts' = artifacts
    BY <1>6 DEF Report, Registered, fileVars
  <2>2. q \in Runs /\ mem[w].attempt \in Attempts
    BY <1>1, <2>1, CallerKnows
  <2>3. report.kind = kind /\ report.attempt = mem[w].attempt /\ report.evidence = files
    OBVIOUS
  <2> HIDE DEF report, q
  <2>4. CASE q = r
    <3>1. reports'[r] = report
      BY <2>1, <2>2, <2>4 DEF ReportInv
    <3>2. leases'[r] = LeaseRow(r, 0, "no")
      BY <2>1, <2>2, <2>4, <1>5 DEF SetLease
    <3>3. ~Unexpired(r)'
      BY <3>2, LeaseRowFields, SMTT(30) DEF Unexpired
    <3>4. reports'[r].kind = "COMPLETED" =>
            /\ reports'[r].attempt \in Attempts
            /\ artifacts'[r][reports'[r].attempt] = reports'[r].evidence
            /\ CompleteEvidence(reports'[r].evidence)
      BY <2>1, <2>2, <2>3, <2>4, <3>1
    <3>5. QED BY <3>3, <3>4 DEF Reported, CompleteEvidence
  <2>5. CASE q # r
    <3>1. reports'[r] = reports[r]
      BY <2>1, <2>5 DEF ReportInv
    <3>2. QED BY <1>4, <1>6, <3>1
  <2>6. QED BY <2>4, <2>5
<1>7. \/ reports' = reports
      \/ \E w \in Workers, kind \in Kinds : Report(w, kind)
  BY StepCases DEF Accept, Cancel, Acquire, Renew, Release, Inspect, Restart, Tick, storeVars
<1>8. QED BY <1>3, <1>4, <1>6, <1>7

\* Every step preserves the evidence invariant.
LEMMA FileStep ==
    ASSUME NativeInv, ReportInv, FileInv, NativeNext
    PROVE  FileInv'
<1>1. KnownAttempts' BY KnownStep DEF FileInv
<1>2. FilesVerified' BY FilesStep DEF FileInv
<1>3. \A r \in Runs : Reported(r)' BY ReportedStep
<1>4. QED BY <1>1, <1>2, <1>3 DEF FileInv

\* Nothing is uploaded, registered or reported before the first attempt.
LEMMA FileStart == NativeInit => FileInv
<1> SUFFICES ASSUME NativeInit PROVE FileInv
  OBVIOUS
<1>1. KnownAttempts
  <2>1. \A w \in Workers : mem[w].run \notin Runs
    BY IdleFields, NativeNoneAssumption DEF NativeInit
  <2>2. QED BY <2>1 DEF KnownAttempts
<1>2. FilesVerified
  <2>1. objects \in [Runs -> [(Attempts \union {NoAttempt}) \X Slots -> Attempts \union {NoAttempt}]]
    BY DEF NativeInit
  <2>2. artifacts \in [Runs -> [Attempts -> Seq(Slots)]]
    BY SMTT(30) DEF NativeInit
  <2>3. DOMAIN checking = Workers /\ \A w \in Workers : checking[w] = NoCheck
    BY DEF NativeInit
  <2>4. \A r \in Runs, a \in Attempts : artifacts[r][a] = <<>>
    BY DEF NativeInit
  <2>5. \A r \in Runs, a \in Attempts : DOMAIN artifacts[r][a] = {}
    BY <2>4, SMTT(30)
  <2>6. QED BY <2>1, <2>2, <2>3, <2>5 DEF FilesVerified
<1>3. \A r \in Runs : Reported(r)
  <2>1. \A r \in Runs : reports[r] = NoReport
    BY DEF NativeInit
  <2>2. NoReport.kind # "COMPLETED"
    BY DEF NoReport
  <2>3. QED BY <2>1, <2>2 DEF Reported, Answered
<1>4. QED BY <1>1, <1>2, <1>3 DEF FileInv

\* The evidence of a completed report stays what the report named: complete, with the manifest
\* last, and every file of it an object that its own attempt uploaded, whatever is uploaded
\* or registered late (native_terminal.go:259, native_artifacts.go).
THEOREM NativeEvidenceStays == NativeSpec => []EvidenceStays
<1>1. NativeInit => ReportInv /\ FileInv
  BY ReportStart, FileStart
<1>2. ASSUME ReportInv, FileInv, UNCHANGED nativeVars PROVE ReportInv' /\ FileInv'
  <2>1. ReportInv'
    BY <1>2 DEF nativeVars, ReportInv, ReportsAreAnswered, Answered
  <2>2. KnownAttempts' /\ FilesVerified'
    BY <1>2 DEF nativeVars, FileInv, KnownAttempts, FilesVerified, Verified, VerifiedObject, ObjectKey
  <2>3. ASSUME NEW r \in Runs PROVE Reported(r)'
    <3>1. Reported(r)
      BY <1>2 DEF FileInv
    <3>2. leases' = leases /\ reports' = reports /\ artifacts' = artifacts
      BY <1>2 DEF nativeVars
    <3>3. QED BY <3>1, <3>2 DEF Reported, Answered, Unexpired, CompleteEvidence
  <2>4. QED BY <2>1, <2>2, <2>3 DEF FileInv
<1>3. NativeInv /\ ReportInv /\ FileInv /\ [NativeNext]_nativeVars => ReportInv' /\ FileInv'
  BY <1>2, ReportStep, FileStep
<1>4. FileInv => EvidenceStays
  <2> SUFFICES ASSUME FileInv, NEW r \in Runs, reports[r].kind = "COMPLETED"
               PROVE  /\ artifacts[r][reports[r].attempt] = reports[r].evidence
                      /\ CompleteEvidence(artifacts[r][reports[r].attempt])
                      /\ \A i \in DOMAIN artifacts[r][reports[r].attempt] :
                            VerifiedObject(r, reports[r].attempt, artifacts[r][reports[r].attempt][i])
    BY DEF EvidenceStays, Registered
  <2>1. Reported(r) /\ FilesVerified
    BY DEF FileInv
  <2>2. QED BY <2>1 DEF Reported, FilesVerified
<1>5. QED BY <1>1, <1>3, <1>4, NativeInvariant, PTL DEF NativeSpec

-----------------------------------------------------------------------------
(* The states and revisions of a native Run *)

\* As many transitions of the pinned lifecycle lead from one state to the other.
Walk(from, to, n) ==
    \E p \in [0..n -> States] :
        /\ p[0] = from /\ p[n] = to
        /\ \A i \in 1..n : CanTransition(p[i - 1], p[i])

\* A write that crosses several states at once is as many transitions of the lifecycle, and
\* as many revisions: what a client reads after it, it could have read had each transition
\* been written on its own (AdvancePhase, applyNativeTerminal and releasedNativeRun).
WritesAreWalks ==
    [][\A r \in Runs : runs[r] # Absent /\ runs'[r] # runs[r] =>
          /\ runs'[r].revision > runs[r].revision
          /\ Walk(runs[r].state, runs'[r].state, runs'[r].revision - runs[r].revision)]_nativeVars

\* A Run that was closed, by its worker or by a cancellation, is never written again, however
\* late reports, renewals and releases arrive.
NativeRunsAreFinal ==
    [][\A r \in Runs : Terminal(runs[r].state) => runs'[r] = runs[r]]_nativeVars

\* The revision of no native Run reaches the cap at which Transition refuses every change
\* (domain.go:219), so that no step along the path of phases can fail half-way.
NativeRevisionsBelowCap == \A r \in Runs : runs[r].revision < MaxRevision

\* A Run that has left CREATED and has no current lease is taken up by nobody: it is leased
\* to no worker again, and only a cancellation still writes it (native_leases.go:52, the
\* candidates; claims.go:81, the Runs the reconcilers claim).
OrphansStayOrphans ==
    [][\A r \in Runs : runs[r].state \notin {"ABSENT", "CREATED"} /\ ~Unexpired(r) =>
          /\ ~Unexpired(r)'
          /\ runs'[r] # runs[r] => /\ CancellationAllowed(runs[r])
                                   /\ runs'[r] = RequestCancellation(runs[r])]_nativeVars

\* The table relates states to states.
LEMMA EdgesAreStates ==
    ASSUME NEW from, NEW to, CanTransition(from, to)
    PROVE  from \in ActiveStates /\ from \in States /\ to \in States
BY DEF CanTransition, States, ActiveStates, TerminalStates

\* A walk may be continued by one transition.
LEMMA WalkOn ==
    ASSUME NEW from, NEW via, NEW to, NEW n \in Nat, Walk(from, via, n), CanTransition(via, to)
    PROVE  Walk(from, to, n + 1)
<1>1. PICK p \in [0..n -> States] : /\ p[0] = from /\ p[n] = via
                                    /\ \A i \in 1..n : CanTransition(p[i - 1], p[i])
  BY DEF Walk
<1> DEFINE q == [i \in 0..(n + 1) |-> IF i \in 0..n THEN p[i] ELSE to]
<1>2. to \in States BY EdgesAreStates
<1>3. q \in [0..(n + 1) -> States] BY <1>2
<1>4. n \in 0..n /\ 0 \in 0..n /\ 0 \in 0..(n + 1) /\ n + 1 \in 0..(n + 1) /\ n + 1 \notin 0..n
  BY SMTT(30)
<1>5. q[0] = from /\ q[n + 1] = to BY <1>1, <1>4
<1>6. ASSUME NEW i \in 1..(n + 1) PROVE CanTransition(q[i - 1], q[i])
  <2>1. i - 1 \in 0..n /\ i - 1 \in 0..(n + 1) /\ i \in 0..(n + 1)
        /\ ((i \in 1..n /\ i \in 0..n) \/ (i = n + 1 /\ i - 1 = n))
    BY SMTT(30)
  <2>2. q[i - 1] = p[i - 1] BY <2>1
  <2>3. CASE i \in 1..n /\ i \in 0..n
    <3>1. q[i] = p[i] BY <2>1, <2>3
    <3>2. QED BY <1>1, <2>2, <2>3, <3>1
  <2>4. CASE i = n + 1 /\ i - 1 = n
    <3>1. q[i] = to BY <1>5, <2>4
    <3>2. q[i - 1] = via BY <1>1, <2>2, <2>4
    <3>3. QED BY <3>1, <3>2
  <2>5. QED BY <2>1, <2>3, <2>4
<1> HIDE DEF q
<1>7. QED BY <1>3, <1>5, <1>6 DEF Walk

\* A walk of no transition stays where it is.
LEMMA WalkNowhere ==
    ASSUME NEW state \in States
    PROVE  Walk(state, state, 0)
<1> DEFINE p == [i \in 0..0 |-> state]
<1>1. p \in [0..0 -> States] /\ 0 \in 0..0 BY SMTT(30)
<1>2. p[0] = state BY <1>1
<1>3. \A i \in 1..0 : CanTransition(p[i - 1], p[i]) BY SMTT(30)
<1> HIDE DEF p
<1>4. QED BY <1>1, <1>2, <1>3 DEF Walk

\* One transition is a walk.
LEMMA WalkOnce ==
    ASSUME NEW from, NEW to, CanTransition(from, to)
    PROVE  Walk(from, to, 1)
<1>1. Walk(from, from, 0) BY EdgesAreStates, WalkNowhere
<1>2. Walk(from, to, 0 + 1) BY <1>1, WalkOn, SMTT(30)
<1>3. QED BY <1>2, SMTT(30)

\* A closed Run has nowhere to walk.
LEMMA TerminalWalk ==
    ASSUME NEW from, NEW to, NEW n \in Nat, n > 0, Walk(from, to, n)
    PROVE  ~Terminal(from)
<1>1. PICK p \in [0..n -> States] : /\ p[0] = from
                                    /\ \A i \in 1..n : CanTransition(p[i - 1], p[i])
  BY DEF Walk
<1>2. 1 \in 1..n /\ 1 - 1 = 0 BY SMTT(30)
<1>3. CanTransition(from, p[1]) BY <1>1, <1>2
<1>4. QED BY <1>3, EdgesAreStates DEF Terminal, WithoutSuccessor

\* The path of phases follows the lifecycle.
LEMMA PathEdges ==
    ASSUME NEW i \in 1..5
    PROVE  CanTransition(nativePhaseStates[i], nativePhaseStates[i + 1])
<1>1. i \in {1, 2, 3, 4, 5} BY SMTT(30)
<1>2. QED BY <1>1, SMTT(30) DEF nativePhaseStates, CanTransition

\* From a place on the path of phases to a later one.
LEMMA PathWalk ==
    ASSUME NEW i \in 1..6, NEW j \in 1..6, i <= j
    PROVE  Walk(nativePhaseStates[i], nativePhaseStates[j], j - i)
<1> DEFINE n == j - i
           p == [k \in 0..n |-> nativePhaseStates[i + k]]
<1>1. \A k \in 1..6 : nativePhaseStates[k] \in States
  BY SMTT(30) DEF nativePhaseStates, States, ActiveStates
<1>2. n \in Nat /\ 0 \in 0..n /\ n \in 0..n /\ i + 0 = i /\ i + n = j /\ \A k \in 0..n : i + k \in 1..6
  BY SMTT(30)
<1>3. p \in [0..n -> States] BY <1>1, <1>2
<1>4. p[0] = nativePhaseStates[i] /\ p[n] = nativePhaseStates[j] BY <1>2
<1>5. ASSUME NEW k \in 1..n PROVE CanTransition(p[k - 1], p[k])
  <2>1. k - 1 \in 0..n /\ k \in 0..n /\ i + (k - 1) \in 1..5 /\ (i + (k - 1)) + 1 = i + k
    BY <1>2, SMTT(30)
  <2>2. p[k - 1] = nativePhaseStates[i + (k - 1)] /\ p[k] = nativePhaseStates[i + k] BY <2>1
  <2>3. QED BY <2>1, <2>2, PathEdges
<1> HIDE DEF n, p
<1>6. Walk(nativePhaseStates[i], nativePhaseStates[j], n) BY <1>3, <1>4, <1>5 DEF Walk
<1>7. QED BY <1>6 DEF n

\* The places of the states on the path.
LEMMA PhasePlaces ==
    /\ phaseStateIndex("CREATED") = 1 /\ phaseStateIndex("VALIDATING") = 2
    /\ phaseStateIndex("PROVISIONING") = 3 /\ phaseStateIndex("WARMING_UP") = 4
    /\ phaseStateIndex("RUNNING") = 5 /\ phaseStateIndex("COLLECTING") = 6
<1>1. ASSUME NEW i \in 1..6 PROVE phaseStateIndex(nativePhaseStates[i]) = i
  <2> DEFINE j == phaseStateIndex(nativePhaseStates[i])
  <2>1. j = CHOOSE k \in 1..6 : nativePhaseStates[k] = nativePhaseStates[i] BY DEF phaseStateIndex
  <2>2. j \in 1..6 /\ nativePhaseStates[j] = nativePhaseStates[i] BY <2>1
  <2> HIDE DEF j
  <2>3. j = i BY <2>2, SMTT(30) DEF nativePhaseStates
  <2>4. QED BY <2>3 DEF j
<1>2. /\ nativePhaseStates[1] = "CREATED" /\ nativePhaseStates[2] = "VALIDATING"
      /\ nativePhaseStates[3] = "PROVISIONING" /\ nativePhaseStates[4] = "WARMING_UP"
      /\ nativePhaseStates[5] = "RUNNING" /\ nativePhaseStates[6] = "COLLECTING"
      /\ 1 \in 1..6 /\ 2 \in 1..6 /\ 3 \in 1..6 /\ 4 \in 1..6 /\ 5 \in 1..6 /\ 6 \in 1..6
  BY SMTT(30) DEF nativePhaseStates
<1>3. QED BY <1>1, <1>2

\* The revision a Run can have in its state: one for each state on the path of phases, and
\* the ones after it.
RevisionOf(run) ==
    \/ run.state = "ABSENT" /\ run.revision = 0
    \/ phaseStateIndex(run.state) \in 1..6 /\ run.revision = phaseStateIndex(run.state)
    \/ run.state = "CANCELLING" /\ run.revision \in 1..7
    \/ run.state \in TerminalStates /\ run.revision \in 1..8

\* A change of a Run as the lifecycle allows it: its acceptance, or a walk.
Lawful(old, new) ==
    \/ old = Absent /\ new = Accepted
    \/ /\ new.revision > old.revision
       /\ Walk(old.state, new.state, new.revision - old.revision)

\* The phases as positions: where a Run is and where the phase takes it.
LEMMA PhasePosition ==
    ASSUME NEW run \in Snapshots, NEW phase, PhaseAllowed(run, phase)
    PROVE  \E i \in 1..6, t \in 4..6 :
              /\ i <= t /\ i = phaseStateIndex(run.state) /\ nativePhaseStates[i] = run.state
              /\ phase = "FINALIZING" => t = 6
              /\ AdvancePhase(run, phase) =
                    [state |-> nativePhaseStates[t], revision |-> run.revision + (t - i),
                     failure |-> run.failure]
<1> DEFINE i == phaseStateIndex(run.state)
           t == phaseTarget(phase)
<1>1. t \in {4, 5, 6} /\ (phase = "FINALIZING" => t = 6) BY DEF phaseTarget
<1>2. i \in 1..t BY DEF PhaseAllowed
<1>3. t \in 4..6 /\ i \in 1..6 /\ i <= t /\ i # 0 BY <1>1, <1>2, SMTT(30)
<1>4. nativePhaseStates[i] = run.state BY <1>3, PhaseIndex
<1>5. AdvancePhase(run, phase) = [state |-> nativePhaseStates[t], revision |-> run.revision + (t - i),
                                  failure |-> run.failure]
  BY DEF AdvancePhase
<1> HIDE DEF i, t
<1>6. i = phaseStateIndex(run.state) BY DEF i
<1>7. QED BY <1>1, <1>3, <1>4, <1>5, <1>6

\* A phase takes a Run along the path, and its revision with it.
LEMMA PhaseLawful ==
    ASSUME NEW run \in Snapshots, NEW phase, PhaseAllowed(run, phase), RevisionOf(run)
    PROVE  LET new == AdvancePhase(run, phase) IN
           /\ new = run \/ Lawful(run, new)
           /\ RevisionOf(new)
           /\ new.revision >= run.revision /\ new.revision - run.revision \in Nat
           /\ Walk(run.state, new.state, new.revision - run.revision)
           /\ phase = "FINALIZING" => new.state = "COLLECTING" /\ new.revision = 6
<1> DEFINE new == AdvancePhase(run, phase)
<1>1. PICK i \in 1..6, t \in 4..6 :
              /\ i <= t /\ i = phaseStateIndex(run.state) /\ nativePhaseStates[i] = run.state
              /\ phase = "FINALIZING" => t = 6
              /\ new = [state |-> nativePhaseStates[t], revision |-> run.revision + (t - i),
                        failure |-> run.failure]
  BY PhasePosition
<1> HIDE DEF new
<1>2. run.revision = i
  <2>1. run.state \notin TerminalStates \union {"ABSENT", "CANCELLING"}
    BY <1>1, SMTT(30) DEF nativePhaseStates, TerminalStates
  <2>2. QED BY <1>1, <2>1 DEF RevisionOf
<1>3. new.state = nativePhaseStates[t] /\ new.revision = run.revision + (t - i)
  BY <1>1
<1>4. new.revision = t /\ t - i \in Nat /\ t >= i /\ t \in 1..6 BY <1>1, <1>2, <1>3, SMTT(30)
<1>5. Walk(run.state, new.state, t - i) BY <1>1, <1>3, <1>4, PathWalk
<1>6. phaseStateIndex(new.state) = t
  <2>1. t \in {4, 5, 6} BY SMTT(30)
  <2>2. new.state = IF t = 4 THEN "WARMING_UP" ELSE IF t = 5 THEN "RUNNING" ELSE "COLLECTING"
    BY <1>3, <2>1, SMTT(30) DEF nativePhaseStates
  <2>3. QED BY <2>1, <2>2, PhasePlaces, SMTT(30)
<1>7. t = i => new = run
  <2>1. run = [state |-> run.state, revision |-> run.revision, failure |-> run.failure]
    BY DEF Snapshots
  <2>2. t = i => run.revision + (t - i) = run.revision BY <1>2, SMTT(30)
  <2>3. QED BY <1>1, <2>1, <2>2
<1>8. phase = "FINALIZING" => new.state = "COLLECTING" /\ new.revision = 6
  BY <1>1, <1>3, <1>4, SMTT(30) DEF nativePhaseStates
<1>9. t # i => t > i BY <1>4, SMTT(30)
<1>10. new.revision - run.revision = t - i BY <1>2, <1>4
<1>11. new = run \/ Lawful(run, new) BY <1>2, <1>4, <1>5, <1>7, <1>9, <1>10 DEF Lawful
<1>12. RevisionOf(new) BY <1>4, <1>6 DEF RevisionOf
<1>13. QED BY <1>2, <1>4, <1>5, <1>8, <1>10, <1>11, <1>12 DEF new

\* Where a Run is that is neither missing nor being cancelled nor closed.
LEMMA OnThePath ==
    ASSUME NEW run \in Snapshots, RevisionOf(run), run.state # "ABSENT", run.state # "CANCELLING",
           run.state \notin TerminalStates
    PROVE  /\ run.state \in {"CREATED", "VALIDATING", "PROVISIONING", "WARMING_UP", "RUNNING",
                             "COLLECTING"}
           /\ run.revision \in 1..6
           /\ run.state = "CREATED" => run.revision = 1
<1>1. phaseStateIndex(run.state) \in 1..6 /\ run.revision = phaseStateIndex(run.state)
  BY DEF RevisionOf
<1> DEFINE i == phaseStateIndex(run.state)
<1>2. i # 0 BY <1>1, SMTT(30)
<1>3. nativePhaseStates[i] = run.state BY <1>2, PhaseIndex
<1> HIDE DEF i
<1>4. i \in 1..6 BY <1>1 DEF i
<1>5. run.state \in {"CREATED", "VALIDATING", "PROVISIONING", "WARMING_UP", "RUNNING", "COLLECTING"}
  BY <1>3, <1>4, SMTT(30) DEF nativePhaseStates
<1>6. run.state = "CREATED" => run.revision = 1 BY <1>1, PhasePlaces
<1>7. QED BY <1>1, <1>5, <1>6

\* The table's terminal states.
LEMMA ClosedIsTerminal ==
    ASSUME NEW state
    PROVE  Terminal(state) <=> state \in TerminalStates
<1>1. ASSUME state \in TerminalStates PROVE Terminal(state)
  BY <1>1 DEF Terminal, WithoutSuccessor, CanTransition, States, TerminalStates
<1>2. ASSUME state \in ActiveStates PROVE ~Terminal(state)
  <2>1. \E to \in States : CanTransition(state, to)
    BY <1>2 DEF CanTransition, States, ActiveStates, TerminalStates
  <2>2. QED BY <2>1 DEF Terminal, WithoutSuccessor
<1>3. QED BY <1>1, <1>2 DEF Terminal, WithoutSuccessor, States

\* One transition is a lawful change.
LEMMA EdgeLawful ==
    ASSUME NEW run \in Snapshots, NEW change \in Changes, CanTransition(run.state, change.state)
    PROVE  Lawful(run, Transition(run, change))
<1> DEFINE new == Transition(run, change)
<1>1. new.state = change.state /\ new.revision = run.revision + 1 BY TransitionTyped
<1>2. run.revision \in Nat BY DEF Snapshots
<1> HIDE DEF new
<1>3. new.revision > run.revision /\ new.revision - run.revision = 1 BY <1>1, <1>2, SMTT(30)
<1>4. Walk(run.state, new.state, 1) BY <1>1, WalkOnce
<1>5. Lawful(run, new) BY <1>3, <1>4 DEF Lawful
<1>6. QED BY <1>5 DEF new

\* Cancelling a Run, before it executes or while it does.
LEMMA CancelLawful ==
    ASSUME NEW run \in Snapshots, RevisionOf(run), CancellationAllowed(run)
    PROVE  /\ RequestCancellation(run) = run \/ Lawful(run, RequestCancellation(run))
           /\ RevisionOf(RequestCancellation(run))
<1> DEFINE c == Change(CancellationTarget(run.state))
<1>1. c \in Changes /\ c.state = CancellationTarget(run.state)
  BY DEF Change, CancellationTarget, Changes, States, ActiveStates, TerminalStates
<1>2. CASE AlreadyCancelled(run)
  BY <1>2 DEF RequestCancellation
<1>3. CASE ~AlreadyCancelled(run)
  <2>1. RequestCancellation(run) = Transition(run, c) BY <1>3 DEF RequestCancellation
  <2>2. CanTransition(run.state, c.state) BY <1>1, <1>3 DEF CancellationAllowed, TransitionAllowed
  <2>3. /\ run.state # "ABSENT" /\ run.state # "CANCELLING" /\ run.state \notin TerminalStates
    BY <1>3, <2>2 DEF AlreadyCancelled, CanTransition, TerminalStates
  <2>4. run.revision \in 1..6 BY <2>3, OnThePath
  <2>5. run.revision + 1 \in 1..7 /\ run.revision + 1 \in 1..8 BY <2>4, SMTT(30)
  <2>6. c.state \in {"ABORTED", "CANCELLING"} BY <1>1 DEF CancellationTarget
  <2> HIDE DEF c
  <2>7. RevisionOf(Transition(run, c))
    BY <1>1, <2>5, <2>6, TransitionTyped DEF RevisionOf, TerminalStates
  <2>8. QED BY <1>1, <2>1, <2>2, <2>7, EdgeLawful
<1>4. QED BY <1>2, <1>3

\* The release that ends a cancellation.
LEMMA ReleaseLawful ==
    ASSUME NEW run \in Snapshots, RevisionOf(run), run.state = "CANCELLING"
    PROVE  /\ Lawful(run, Transition(run, Change("ABORTED")))
           /\ RevisionOf(Transition(run, Change("ABORTED")))
<1> DEFINE c == Change("ABORTED")
<1>1. c \in Changes /\ c.state = "ABORTED" BY DEF Change, Changes, States, TerminalStates
<1>2. CanTransition(run.state, c.state) BY <1>1 DEF CanTransition
<1>3. run.revision \in 1..7
  <2>1. phaseStateIndex("CANCELLING") \notin 1..6
    <3>1. \A i \in 1..6 : nativePhaseStates[i] # "CANCELLING" BY SMTT(30) DEF nativePhaseStates
    <3>2. QED BY <3>1, SMTT(30) DEF phaseStateIndex
  <2>2. QED BY <2>1 DEF RevisionOf, TerminalStates
<1>4. run.revision + 1 \in 1..8 BY <1>3, SMTT(30)
<1> HIDE DEF c
<1>5. RevisionOf(Transition(run, c)) BY <1>1, <1>4, TransitionTyped DEF RevisionOf, TerminalStates
<1>6. Lawful(run, Transition(run, c)) BY <1>1, <1>2, EdgeLawful
<1>7. QED BY <1>5, <1>6 DEF c

\* A terminal report takes the Run through collection, or out of where it is.
LEMMA TerminalLawful ==
    ASSUME NEW run \in Snapshots, RevisionOf(run), run.state # "ABSENT",
           NEW kind \in Kinds, TerminalAllowed(run, kind)
    PROVE  LET new == applyNativeTerminal(run, kind) IN
           (new = run \/ Lawful(run, new)) /\ RevisionOf(new)
<1> DEFINE f == Failing("TEST_FAILURE", "TOOL_ERROR")
           g == Failing("INFRASTRUCTURE_FAILURE", "INFRASTRUCTURE_ERROR")
           v == Change("VALIDATING")
           new == applyNativeTerminal(run, kind)
<1>1. f \in Changes /\ g \in Changes /\ v \in Changes
  BY DEF Failing, Change, Changes, States, ActiveStates, TerminalStates, FailureCodes
<1>2. f.state = "TEST_FAILURE" /\ g.state = "INFRASTRUCTURE_FAILURE" /\ v.state = "VALIDATING"
  BY DEF Failing, Change
<1>3. CASE kind = "COMPLETED"
  <2>1. new = AdvancePhase(run, "FINALIZING") /\ PhaseAllowed(run, "FINALIZING")
    BY <1>3 DEF TerminalAllowed, applyNativeTerminal
  <2>2. QED BY <2>1, PhaseLawful
<1>4. CASE kind = "TOOL_FAILED"
  <2> DEFINE mid == AdvancePhase(run, "FINALIZING")
  <2>1. new = Transition(mid, f) /\ PhaseAllowed(run, "FINALIZING")
    BY <1>4 DEF TerminalAllowed, applyNativeTerminal
  <2>2. /\ mid.state = "COLLECTING" /\ mid.revision = 6 /\ mid.revision >= run.revision
        /\ mid.revision - run.revision \in Nat
        /\ Walk(run.state, mid.state, mid.revision - run.revision)
    BY <2>1, PhaseLawful
  <2>3. mid \in Snapshots BY <2>1, PhaseResult
  <2> HIDE DEF mid, new, f
  <2>4. new.state = "TEST_FAILURE" /\ new.revision = mid.revision + 1
    BY <1>1, <1>2, <2>1, <2>3, TransitionTyped
  <2>5. CanTransition(mid.state, new.state) BY <2>2, <2>4 DEF CanTransition
  <2>6. Walk(run.state, new.state, (mid.revision - run.revision) + 1) BY <2>2, <2>5, WalkOn
  <2>7. run.revision \in Nat BY DEF Snapshots
  <2>8. /\ new.revision > run.revision /\ new.revision \in 1..8
        /\ (mid.revision - run.revision) + 1 = new.revision - run.revision
    BY <2>2, <2>4, <2>7, SMTT(30)
  <2>9. Lawful(run, new) BY <2>6, <2>8 DEF Lawful
  <2>10. RevisionOf(new) BY <2>4, <2>8 DEF RevisionOf, TerminalStates
  <2>11. QED BY <2>9, <2>10 DEF new
<1>5. CASE kind = "OTHER_FAILED"
  <2>1. run.state # "CANCELLING" /\ run.state \notin TerminalStates
    BY <1>5, ClosedIsTerminal DEF TerminalAllowed
  <2>2. run.revision \in 1..6
        /\ run.state \in {"CREATED", "VALIDATING", "PROVISIONING", "WARMING_UP", "RUNNING", "COLLECTING"}
    BY <2>1, OnThePath
  <2> HIDE DEF f, g, v
  <2>3. CASE run.state = "CREATED"
    <3> DEFINE mid == Transition(run, v)
    <3>1. new = Transition(mid, g) BY <1>5, <2>3 DEF applyNativeTerminal, g, v
    <3>2. mid \in Snapshots /\ mid.state = "VALIDATING" /\ mid.revision = run.revision + 1
      BY <1>1, <1>2, TransitionTyped
    <3> HIDE DEF mid, new
    <3>3. new.state = "INFRASTRUCTURE_FAILURE" /\ new.revision = mid.revision + 1
      BY <1>1, <1>2, <3>1, <3>2, TransitionTyped
    <3>4. CanTransition(run.state, mid.state) /\ CanTransition(mid.state, new.state)
      BY <2>3, <3>2, <3>3 DEF CanTransition
    <3>5. Walk(run.state, mid.state, 1) BY <3>4, WalkOnce
    <3>6. 1 \in Nat /\ 1 + 1 = new.revision - run.revision /\ new.revision > run.revision
          /\ new.revision \in 1..8
      BY <2>2, <3>2, <3>3, SMTT(30)
    <3>7. Walk(run.state, new.state, 1 + 1) BY <3>4, <3>5, <3>6, WalkOn
    <3>8. Lawful(run, new) BY <3>6, <3>7 DEF Lawful
    <3>9. RevisionOf(new) BY <3>3, <3>6 DEF RevisionOf, TerminalStates
    <3>10. QED BY <3>8, <3>9 DEF new
  <2>4. CASE run.state # "CREATED"
    <3>1. new = Transition(run, g) BY <1>5, <2>4 DEF applyNativeTerminal, g
    <3> HIDE DEF new
    <3>2. new.state = "INFRASTRUCTURE_FAILURE" /\ new.revision = run.revision + 1
      BY <1>1, <1>2, <3>1, TransitionTyped
    <3>3. CanTransition(run.state, g.state) BY <1>2, <2>2, <2>4 DEF CanTransition
    <3>4. Lawful(run, new) BY <1>1, <3>1, <3>3, EdgeLawful
    <3>5. new.revision \in 1..8 BY <2>2, <3>2, SMTT(30)
    <3>6. RevisionOf(new) BY <3>2, <3>5 DEF RevisionOf, TerminalStates
    <3>7. QED BY <3>4, <3>6 DEF new
  <2>5. QED BY <2>3, <2>4
<1>6. QED BY <1>3, <1>4, <1>5 DEF Kinds

\* The revisions, and that only accepted Runs are leased.
RevisionInv ==
    /\ \A r \in Runs : RevisionOf(runs[r])
    /\ \A r \in Runs : leases[r].worker \in Workers => runs[r].state # "ABSENT"

\* Every change of a Run is lawful, and made by its client or under its lease.
LEMMA LawfulStep ==
    ASSUME NativeInv, RevisionInv, NativeNext, NEW q \in Runs
    PROVE  /\ RevisionOf(runs'[q])
           /\ runs'[q] = runs[q] \/ Lawful(runs[q], runs'[q])
           /\ \/ runs'[q] = runs[q]
              \/ runs[q] = Absent
              \/ CancellationAllowed(runs[q]) /\ runs'[q] = RequestCancellation(runs[q])
              \/ Unexpired(q)
<1> DEFINE By(new) == \/ new = runs[q] \/ runs[q] = Absent
                      \/ CancellationAllowed(runs[q]) /\ new = RequestCancellation(runs[q])
                      \/ Unexpired(q)
           Goal == /\ RevisionOf(runs'[q])
                   /\ runs'[q] = runs[q] \/ Lawful(runs[q], runs'[q])
                   /\ By(runs'[q])
<1>0. runs \in [Runs -> Snapshots] /\ runs[q] \in Snapshots BY DEF NativeInv, NativeTypeOK
<1>00. RevisionOf(runs[q]) BY DEF RevisionInv
<1>1. ASSUME runs'[q] = runs[q] PROVE Goal
  BY <1>00, <1>1
<1>2. ASSUME NEW r \in Runs, NEW new, runs' = [runs EXCEPT ![r] = new], q # r PROVE Goal
  BY <1>0, <1>1, <1>2
<1>3. ASSUME NEW new, runs' = [runs EXCEPT ![q] = new], RevisionOf(new),
             new = runs[q] \/ Lawful(runs[q], new), By(new)
      PROVE  Goal
  <2>1. runs'[q] = new BY <1>0, <1>3
  <2>2. QED BY <1>3, <2>1
<1> HIDE DEF Goal
<1>4. ASSUME NEW r \in Runs, Accept(r) PROVE Goal
  <2>1. runs' = [runs EXCEPT ![r] = Accepted] /\ runs[r] = Absent BY <1>4 DEF Accept
  <2>2. RevisionOf(Accepted) BY PhasePlaces, SMTT(30) DEF Accepted, RevisionOf
  <2>3. CASE q = r
    <3>1. Lawful(runs[q], Accepted) /\ By(Accepted) BY <2>1, <2>3 DEF Lawful
    <3>2. QED BY <1>3, <2>1, <2>2, <2>3, <3>1
  <2>4. QED BY <1>2, <2>1, <2>3
<1>5. ASSUME NEW r \in Runs, Cancel(r) PROVE Goal
  <2>1. runs' = [runs EXCEPT ![r] = RequestCancellation(runs[r])] /\ CancellationAllowed(runs[r])
    BY <1>5 DEF Cancel
  <2>2. CASE q = r
    <3>1. By(RequestCancellation(runs[q])) BY <2>1, <2>2
    <3>2. QED BY <1>0, <1>00, <1>3, <2>1, <2>2, <3>1, CancelLawful
  <2>3. QED BY <1>2, <2>1, <2>2
<1>6. ASSUME NEW w \in Workers, Calls(w), NEW new, runs' = [runs EXCEPT ![mem[w].run] = new],
             mem[w].run = q => RevisionOf(new) /\ (new = runs[q] \/ Lawful(runs[q], new))
      PROVE  Goal
  <2>1. mem[w].run \in Runs /\ Unexpired(mem[w].run) BY <1>6, CallerHolds
  <2>2. CASE mem[w].run = q
    <3>1. By(new) BY <2>1, <2>2
    <3>2. QED BY <1>3, <1>6, <2>2, <3>1
  <2>3. QED BY <1>2, <1>6, <2>1, <2>2
<1>7. ASSUME NEW w \in Workers, NEW phase \in Phases, Renew(w, phase) PROVE Goal
  <2> DEFINE r == mem[w].run
             new == IF runs[r].state = "CANCELLING" THEN runs[r] ELSE AdvancePhase(runs[r], phase)
  <2>1. Calls(w) /\ runs' = [runs EXCEPT ![r] = new] BY <1>7 DEF Renew
  <2>2. r = q => RevisionOf(new) /\ (new = runs[q] \/ Lawful(runs[q], new))
    BY <1>0, <1>00, <1>7, PhaseLawful DEF Renew
  <2> HIDE DEF new
  <2>3. QED BY <1>6, <2>1, <2>2
<1>8. ASSUME NEW w \in Workers, NEW reason \in Reasons, Release(w, reason) PROVE Goal
  <2> DEFINE r == mem[w].run
             new == releasedNativeRun(runs[r], reason)
  <2>1. Calls(w) /\ runs' = [runs EXCEPT ![r] = new] /\ ReleaseAllowed(runs[r], reason)
    BY <1>8 DEF Release
  <2>2. new = runs[r] \/ (runs[r].state = "CANCELLING" /\ new = Transition(runs[r], Change("ABORTED")))
    BY <2>1 DEF releasedNativeRun, ReleaseAllowed
  <2> HIDE DEF new
  <2>3. r = q => RevisionOf(new) /\ (new = runs[q] \/ Lawful(runs[q], new))
    BY <1>0, <1>00, <2>2, ReleaseLawful
  <2>4. QED BY <1>6, <2>1, <2>3
<1>9. ASSUME NEW w \in Workers, NEW kind \in Kinds, Report(w, kind) PROVE Goal
  <2> DEFINE r == mem[w].run
             new == applyNativeTerminal(runs[r], kind)
  <2>1. Calls(w) /\ runs' = [runs EXCEPT ![r] = new] /\ TerminalAllowed(runs[r], kind)
    BY <1>9 DEF Report
  <2>2. r = q => runs[q].state # "ABSENT"
    <3>1. leases[r].worker = w BY <2>1, CallerHolds
    <3>2. QED BY <3>1 DEF RevisionInv
  <2>3. r = q => RevisionOf(new) /\ (new = runs[q] \/ Lawful(runs[q], new))
    BY <1>0, <1>00, <2>1, <2>2, TerminalLawful
  <2> HIDE DEF new
  <2>4. QED BY <1>6, <2>1, <2>3
<1>10. runs' = runs => Goal BY <1>1
<1>11. Goal
  BY <1>4, <1>5, <1>7, <1>8, <1>9, <1>10, StepCases DEF Acquire, Inspect, Restart, Tick, storeVars
<1>12. QED BY <1>11 DEF Goal

\* A lease that has run out, or never was, is given again only for a Run in CREATED.
LEMMA LeaseStep ==
    ASSUME NativeInv, NativeNext, NEW q \in Runs, runs[q].state # "CREATED"
    PROVE  leases'[q].worker = leases[q].worker /\ (Unexpired(q)' => Unexpired(q))
<1> DEFINE Goal == leases'[q].worker = leases[q].worker /\ (Unexpired(q)' => Unexpired(q))
<1>0. leases \in [Runs -> LeaseRecords] BY DEF NativeInv, NativeTypeOK
<1>1. ASSUME leases'[q] = leases[q] PROVE Goal
  BY <1>1 DEF Unexpired
<1>2. ASSUME NEW w \in Workers, Calls(w), NEW left, NEW released, SetLease(mem[w].run, left, released)
      PROVE  Goal
  <2>1. mem[w].run \in Runs /\ Unexpired(mem[w].run) BY <1>2, CallerHolds
  <2>2. CASE mem[w].run = q
    <3>1. leases'[q] = LeaseRow(q, left, released) BY <1>0, <1>2, <2>2 DEF SetLease
    <3>2. leases'[q].worker = leases[q].worker BY <3>1, LeaseRowFields, SMTT(30)
    <3>3. QED BY <2>1, <2>2, <3>2
  <2>3. CASE mem[w].run # q
    <3>1. leases'[q] = leases[q] BY <1>0, <1>2, <2>1, <2>3 DEF SetLease
    <3>2. QED BY <1>1, <3>1
  <2>4. QED BY <2>2, <2>3
<1>3. ASSUME NEW w \in Workers, NEW r \in Runs, Acquire(w, r) PROVE Goal
  <2>1. PICK attempt : leases' = [leases EXCEPT ![r] = NewLease(w, attempt)] BY <1>3 DEF Acquire
  <2>2. q # r BY <1>3 DEF Acquire, Acquirable
  <2>3. leases'[q] = leases[q] BY <1>0, <2>1, <2>2
  <2>4. QED BY <1>1, <2>3
<1>4. ASSUME Tick PROVE Goal
  <2>1. leases'[q] = LeaseRow(q, TimeLeft(leases[q].left), leases[q].released) BY <1>4 DEF Tick
  <2>2. /\ leases'[q].worker = leases[q].worker /\ leases'[q].left = TimeLeft(leases[q].left)
        /\ leases'[q].released = leases[q].released
    BY <2>1, LeaseRowFields, SMTT(30)
  <2>3. leases[q].left \in 0..LeaseTTL BY <1>0 DEF LeaseRecords
  <2>4. TimeLeft(leases[q].left) > 0 => leases[q].left > 0
    BY <2>3, NativeTTLAssumption, SMTT(30) DEF TimeLeft
  <2>5. QED BY <2>2, <2>4 DEF Unexpired
<1> HIDE DEF Goal
<1>5. leases' = leases => Goal BY <1>1
<1>6. Goal
  BY <1>2, <1>3, <1>4, <1>5, StepCases
  DEF Accept, Cancel, Renew, Release, Report, Inspect, Restart, storeVars
<1>7. QED BY <1>6 DEF Goal

\* A lawful change does not undo the acceptance.
LEMMA LawfulState ==
    ASSUME NEW old \in Snapshots, NEW new \in Snapshots, Lawful(old, new)
    PROVE  new.state # "ABSENT"
<1>1. Accepted.state # "ABSENT" BY DEF Accepted
<1>2. CASE new.revision > old.revision /\ Walk(old.state, new.state, new.revision - old.revision)
  <2> DEFINE n == new.revision - old.revision
  <2>1. new.revision \in Nat /\ old.revision \in Nat BY DEF Snapshots
  <2>2. n \in 0..n BY <1>2, <2>1, SMTT(30)
  <2>3. PICK p \in [0..n -> States] : p[n] = new.state BY <1>2 DEF Walk
  <2>4. new.state \in States BY <2>2, <2>3
  <2>5. QED BY <2>4 DEF States, ActiveStates, TerminalStates
<1>3. QED BY <1>1, <1>2 DEF Lawful

\* The revisions stay right.
LEMMA RevisionStep ==
    ASSUME NativeInv, RevisionInv, NativeNext
    PROVE  RevisionInv'
<1>1. ASSUME NEW r \in Runs PROVE RevisionOf(runs'[r])
  BY LawfulStep
<1>2. ASSUME NEW r \in Runs, leases'[r].worker \in Workers PROVE runs'[r].state # "ABSENT"
  <2>1. runs[r].state # "ABSENT" BY <1>2, LeaseStep DEF RevisionInv
  <2>2. runs[r] \in Snapshots /\ runs'[r] \in Snapshots BY RunsTyped DEF NativeInv, NativeTypeOK
  <2>3. runs'[r] = runs[r] \/ Lawful(runs[r], runs'[r]) BY LawfulStep
  <2>4. QED BY <2>1, <2>2, <2>3, LawfulState
<1>3. \A r \in Runs : RevisionOf(runs[r])' BY <1>1 DEF RevisionOf
<1>4. QED BY <1>2, <1>3 DEF RevisionInv

\* They are right at the start.
LEMMA RevisionStart == NativeInit => RevisionInv
<1> SUFFICES ASSUME NativeInit PROVE RevisionInv
  OBVIOUS
<1>1. Absent.state = "ABSENT" /\ Absent.revision = 0 BY DEF Absent
<1>2. NoLease.worker \notin Workers BY NativeNoneAssumption DEF NoLease
<1>3. QED BY <1>1, <1>2 DEF NativeInit, RevisionInv, RevisionOf

\* The inductive invariant of the revisions is one.
LEMMA RevisionInvariant == NativeSpec => []RevisionInv
<1>1. ASSUME RevisionInv, UNCHANGED nativeVars PROVE RevisionInv'
  BY <1>1 DEF nativeVars, RevisionInv, RevisionOf
<1>2. NativeInv /\ RevisionInv /\ [NativeNext]_nativeVars => RevisionInv'
  BY <1>1, RevisionStep
<1>3. QED BY <1>2, RevisionStart, NativeInvariant, PTL DEF NativeSpec

\* No native Run comes near the revision cap of Transition (domain.go:219): AdvancePhase and
\* applyNativeTerminal, which make several transitions, never stop between two of them.
THEOREM NativeRunsStayBelowTheCap == NativeSpec => []NativeRevisionsBelowCap
<1>1. ASSUME NativeInv, RevisionInv, NEW r \in Runs PROVE runs[r].revision < MaxRevision
  <2>1. RevisionOf(runs[r]) BY <1>1 DEF RevisionInv
  <2>2. runs[r].revision \in 0..8
    <3>1. 0 \in 0..8 /\ 1..6 \subseteq 0..8 /\ 1..7 \subseteq 0..8 /\ 1..8 \subseteq 0..8
      BY SMTT(30)
    <3>2. QED BY <2>1, <3>1 DEF RevisionOf
  <2>3. QED BY <2>2, MaxRevisionAssumption, SMTT(30)
<1>2. NativeInv /\ RevisionInv => NativeRevisionsBelowCap BY <1>1 DEF NativeRevisionsBelowCap
<1>3. QED BY <1>2, NativeInvariant, RevisionInvariant, PTL

\* However many states a native write crosses, it takes one transition of the pinned table
\* and one revision for each (AdvancePhase in nativeworker/renewal.go, applyNativeTerminal).
THEOREM NativeWritesFollowTheLifecycle == NativeSpec => WritesAreWalks
<1> DEFINE A == \A r \in Runs : runs[r] # Absent /\ runs'[r] # runs[r] =>
                   /\ runs'[r].revision > runs[r].revision
                   /\ Walk(runs[r].state, runs'[r].state, runs'[r].revision - runs[r].revision)
<1>1. ASSUME NativeInv, RevisionInv, NativeNext PROVE A
  BY <1>1, LawfulStep DEF Lawful
<1>2. ASSUME UNCHANGED nativeVars PROVE A
  BY <1>2 DEF nativeVars
<1>3. NativeInv /\ RevisionInv /\ [NativeNext]_nativeVars => [A]_nativeVars BY <1>1, <1>2
<1>4. QED BY <1>3, NativeInvariant, RevisionInvariant, PTL DEF NativeSpec, WritesAreWalks

\* A closed native Run stays as it was closed, whatever arrives late.
THEOREM NativeTerminalRunsStayClosed == NativeSpec => NativeRunsAreFinal
<1> DEFINE A == \A r \in Runs : Terminal(runs[r].state) => runs'[r] = runs[r]
<1>1. ASSUME NativeInv, RevisionInv, NativeNext PROVE A
  <2> SUFFICES ASSUME NEW r \in Runs, Lawful(runs[r], runs'[r]) PROVE ~Terminal(runs[r].state)
    BY <1>1, LawfulStep
  <2>1. CASE runs[r] = Absent
    <3>1. Absent.state = "ABSENT" BY DEF Absent
    <3>2. QED BY <2>1, <3>1 DEF Terminal, WithoutSuccessor, States, ActiveStates, TerminalStates
  <2>2. CASE /\ runs'[r].revision > runs[r].revision
             /\ Walk(runs[r].state, runs'[r].state, runs'[r].revision - runs[r].revision)
    <3> DEFINE n == runs'[r].revision - runs[r].revision
    <3>1. runs[r] \in Snapshots /\ runs'[r] \in Snapshots
      BY <1>1, RunsTyped DEF NativeInv, NativeTypeOK
    <3>2. runs[r].revision \in Nat /\ runs'[r].revision \in Nat BY <3>1 DEF Snapshots
    <3>3. n \in Nat /\ n > 0 BY <2>2, <3>2, SMTT(30)
    <3> HIDE DEF n
    <3>4. Walk(runs[r].state, runs'[r].state, n) BY <2>2 DEF n
    <3>5. QED BY <3>3, <3>4, TerminalWalk
  <2>3. QED BY <2>1, <2>2 DEF Lawful
<1>2. NativeInv /\ RevisionInv /\ [NativeNext]_nativeVars => [A]_nativeVars BY <1>1
<1>3. QED BY <1>2, NativeInvariant, RevisionInvariant, PTL DEF NativeSpec, NativeRunsAreFinal

\* Nobody takes up a native Run that has left CREATED and lost its lease: neither polling
\* (native_leases.go:52) nor reconciliation (claims.go:81) offers it.
THEOREM NativeOrphansStayOrphans == NativeSpec => OrphansStayOrphans
<1> DEFINE A == \A r \in Runs : runs[r].state \notin {"ABSENT", "CREATED"} /\ ~Unexpired(r) =>
                   /\ ~Unexpired(r)'
                   /\ runs'[r] # runs[r] => /\ CancellationAllowed(runs[r])
                                            /\ runs'[r] = RequestCancellation(runs[r])
<1>1. ASSUME NativeInv, RevisionInv, NativeNext PROVE A
  <2> SUFFICES ASSUME NEW r \in Runs, runs[r].state \notin {"ABSENT", "CREATED"}, ~Unexpired(r)
               PROVE  /\ ~Unexpired(r)'
                      /\ runs'[r] # runs[r] => /\ CancellationAllowed(runs[r])
                                               /\ runs'[r] = RequestCancellation(runs[r])
    OBVIOUS
  <2>1. ~Unexpired(r)' BY <1>1, LeaseStep
  <2>2. runs[r] # Absent
    <3>1. Absent.state = "ABSENT" BY DEF Absent
    <3>2. QED BY <3>1
  <2>3. QED BY <1>1, <2>1, <2>2, LawfulStep
<1>2. NativeInv /\ RevisionInv /\ [NativeNext]_nativeVars => [A]_nativeVars BY <1>1
<1>3. QED BY <1>2, NativeInvariant, RevisionInvariant, PTL DEF NativeSpec, OrphansStayOrphans

=============================================================================
