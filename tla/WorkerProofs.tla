----------------------------- MODULE WorkerProofs -----------------------------
(***************************************************************************)
(* The worker engine uses the store as module ClaimStore describes it, an  *)
(* attempt owns its Run for a lease after its last renewal, and a slot     *)
(* covers its attempt: for any sets of Runs, workers and tokens, and       *)
(* however late renewals are made and answered.                            *)
(***************************************************************************)
EXTENDS WorkerEngine, ClaimStoreProofs, FiniteSetTheorems

\* Zenon is the default; where a leaf needs arithmetic or records, it cites SMT.
USE ZenonT(60)

-----------------------------------------------------------------------------
(* The store *)

\* Every step of the engine is a step of the store, or leaves it alone.
LEMMA EngineStepUsesStore ==
    ASSUME [EngineNext]_engineVars
    PROVE  [Next]_storeVars
<1>1. ASSUME NEW w \in Workers, Poll(w) PROVE Next
  <2>1. PICK batch \in SUBSET Runs, token \in [Runs -> Tokens], answered \in BOOLEAN :
            LET kept == IF answered THEN batch \ loop[w].active ELSE {}
            IN  ClaimRuns(w, batch, kept, token)
    BY <1>1 DEF Poll
  <2>2. \E kept \in SUBSET Runs : ClaimRuns(w, batch, kept, token)
    <3> DEFINE kept == IF answered THEN batch \ loop[w].active ELSE {}
    <3>1. kept \in SUBSET Runs OBVIOUS
    <3>2. QED BY <2>1, <3>1
  <2>3. QED BY <2>2 DEF ClaimSome, Next
<1>2. ASSUME NEW w \in Workers, Exit(w) PROVE [Next]_storeVars
  BY <1>2 DEF Exit, Next
<1>3. ASSUME NEW w \in Workers, Shutdown(w) \/ Drain(w) \/ Return(w) \/ Start(w)
      PROVE  UNCHANGED storeVars
  BY <1>3 DEF Shutdown, Drain, Return, Start
<1>4. ASSUME NEW w \in Workers, NEW r \in Runs, Receive(w, r) \/ DrainOne(w, r)
      PROVE  UNCHANGED storeVars
  BY <1>4 DEF Receive, DrainOne
<1>5. ASSUME NEW w \in Workers, NEW r \in Runs, Attempt(w, r) PROVE [Next]_storeVars
  <2>1. ASSUME ExtendLease(w, r), UNCHANGED claims PROVE Next
    BY <2>1 DEF RenewClaim, UseClaim, Next
  <2>2. CASE Reconcile(w, r)
    BY <2>2 DEF Reconcile, UseClaim, Next
  <2>3. CASE RenewalTakesEffect(w, r)
    BY <2>1, <2>3 DEF RenewalTakesEffect
  <2>4. CASE \/ Reconciled(w, r) \/ ParentDone(w, r)
             \/ RenewalDue(w, r) \/ Renewed(w, r) \/ RenewFails(w, r)
    BY <2>4 DEF Reconciled, ParentDone, RenewalDue, Renewed, RenewFails
  <2>5. CASE Finish(w, r)
    BY <2>5 DEF Finish, EndAttempt, Next
  <2>6. CASE Stopped(w, r)
    BY <2>6, DelayAssumption, SMTT(30) DEF Stopped, EndAttempt, Next
  <2>7. QED BY <1>5, <2>2, <2>3, <2>4, <2>5, <2>6 DEF Attempt
<1>6. ASSUME Elapse PROVE Next
  BY <1>6 DEF Elapse, Next
<1>7. ASSUME Clients PROVE Next
  BY <1>7 DEF Clients, Next
<1>8. CASE UNCHANGED engineVars
  BY <1>8 DEF engineVars, storeVars
<1>9. QED BY <1>1, <1>2, <1>3, <1>4, <1>5, <1>6, <1>7, <1>8 DEF EngineNext

\* The engine uses the store only in the ways of module ClaimStore, so what is proved
\* there holds for it (worker.go on run.ReconciliationStore).
THEOREM EngineUsesTheStore == EngineSpec => UsesTheStore
<1>1. EngineInit => Init BY DEF EngineInit
<1>2. QED BY <1>1, EngineStepUsesStore, PTL DEF EngineSpec, UsesTheStore, Spec

\* So however processes poll, renew, are cancelled, stop and crash (worker.go), clients see
\* Runs move as promised, closed Runs stay closed, a claim that is lost stays lost, a token
\* has one holder, and no Run runs out of revisions.
THEOREM EngineKeepsThePromises ==
    EngineSpec => /\ ImplementsPublicRun
                  /\ TerminalRunsAreFinal
                  /\ DeadClaimsStayDead
                  /\ []TokensIdentifyHolders
                  /\ []RevisionsBelowCap
BY EngineUsesTheStore, StoreImplementsPublicRun, TerminalRunsStayClosed,
   DeadClaimsAreNeverRevived, TokensIdentifyTheirHolders, CapStrandsNoStoredRun, PTL
DEF UsesTheStore

-----------------------------------------------------------------------------
(* Attempts *)

\* The renewal a live attempt goes on from took effect less than a lease ago.
Recent(w, r) == Live(w, r) /\ att[w][r].since < LeaseTTL

\* Such an attempt has, unless the Run is closed, the lease that goes with its claim, of
\* which at most the time since that renewal has passed.
Keeps(w, r) ==
    \/ Terminal(runs[r].state)
    \/ (/\ leases[r].worker = w
        /\ leases[r].token = claims[w][r].token
        /\ leases[r].expires + att[w][r].since >= LeaseTTL)

\* The slot, the goroutine and the claim of an attempt come and go together, and none
\* of them survives the process.
Slot(w, r) ==
    /\ r \in loop[w].active <=> att[w][r].at # "none"
    /\ loop[w].at = "down" => r \notin loop[w].active
    /\ HasClaim(w, r) <=> At(w, r, {"running", "reconciled", "stopping"})
    /\ HasClaim(w, r) => claims[w][r].token \in Tokens

\* The inductive invariant of WorkerEngine.
WorkerInv ==
    /\ EngineTypeOK
    /\ \A w \in Workers, r \in Runs : Slot(w, r) /\ (Recent(w, r) => Keeps(w, r))

\* Ownership follows from it: less than a lease has passed since the renewal.
LEMMA RecentAttemptsOwn == WorkerInv => RenewedAttemptsOwnTheirRun
<1> SUFFICES ASSUME WorkerInv, NEW w \in Workers, NEW r \in Runs, Recent(w, r),
                    ~Terminal(runs[r].state)
             PROVE  Owned(w, r)
  BY DEF RenewedAttemptsOwnTheirRun, Recent
<1>1. att[w][r].since \in 0..LeaseTTL /\ att[w][r].since < LeaseTTL
  BY DEF WorkerInv, EngineTypeOK, Attempts, Recent
<1>2. leases[r].expires \in 0..LeaseTTL
  BY LeaseTyped DEF WorkerInv, EngineTypeOK
<1>3. HasClaim(w, r)
  BY DEF WorkerInv, Slot, Recent, Live, At
<1>4. Keeps(w, r)
  BY DEF WorkerInv
<1>5. leases[r].expires > 0
  BY <1>1, <1>2, <1>4, TTLAssumption, SMTT(30) DEF Keeps
<1>6. QED BY <1>3, <1>4, <1>5 DEF Keeps, Owned

\* The attempt of one Run changes and nothing of the others.
LEMMA SetAttemptFields ==
    ASSUME WorkerInv, NEW w \in Workers, NEW r \in Runs, NEW a \in Attempts, SetAttempt(w, r, a)
    PROVE  /\ att' \in [Workers -> [Runs -> Attempts]]
           /\ att'[w][r] = a
           /\ \A v \in Workers, q \in Runs : v # w \/ q # r => att'[v][q] = att[v][q]
BY DEF WorkerInv, EngineTypeOK, SetAttempt

\* The loop of one worker changes and nothing of the others.
LEMMA SetLoopFields ==
    ASSUME WorkerInv, NEW w \in Workers, NEW l \in Loops, SetLoop(w, l)
    PROVE  /\ loop' \in [Workers -> Loops]
           /\ loop'[w] = l
           /\ \A v \in Workers : v # w => loop'[v] = loop[v]
BY DEF WorkerInv, EngineTypeOK, SetLoop

\* The records of attempts and loops are well typed.
LEMMA RecordsTyped ==
    /\ \A phase \in {"none", "running", "reconciled", "stopping", "sent"},
          cancelling \in BOOLEAN, release \in BOOLEAN :
          AttemptAt(phase, 0, cancelling, release) \in Attempts
    /\ \A place \in {"up", "draining", "returned", "down"}, stop \in BOOLEAN,
          active \in SUBSET Runs, range \in SUBSET Runs :
          LoopAt(place, stop, active, range) \in Loops
BY TTLAssumption, SMTT(30) DEF AttemptAt, Attempts, LoopAt, Loops

\* What the invariant says of one attempt.
Good(w, r) == Slot(w, r) /\ (Recent(w, r) => Keeps(w, r))

\* An attempt whose slot, goroutine and claim do not change stays good, unless its lease
\* goes to somebody else while the Run is open.
LEMMA Undisturbed ==
    ASSUME WorkerInv, [Next]_storeVars, NEW w \in Workers, NEW r \in Runs,
           att'[w][r] = att[w][r], claims'[w][r] = claims[w][r],
           r \in loop'[w].active <=> r \in loop[w].active,
           loop'[w].at = "down" => loop[w].at = "down",
           \/ leases'[r] = leases[r]
           \/ Terminal(runs[r].state) \/ Terminal(runs'[r].state)
           \/ ~Recent(w, r)
           \/ leases'[r] = Until(leases[r], LeaseTTL, leases[r].available)
    PROVE  Good(w, r)'
<1>1. Slot(w, r)'
  BY DEF WorkerInv, Slot, HasClaim, At
<1>2. Terminal(runs[r].state) => Terminal(runs'[r].state)
  BY RunStep, TerminalIsTerminalStates DEF WorkerInv, EngineTypeOK
<1>3. ASSUME Recent(w, r), ~Terminal(runs'[r].state) PROVE Keeps(w, r)'
  <2>1. Keeps(w, r) /\ ~Terminal(runs[r].state)
    BY <1>2, <1>3 DEF WorkerInv
  <2>2. CASE leases'[r] = leases[r]
    BY <2>1, <2>2 DEF Keeps
  <2>3. CASE leases'[r] = Until(leases[r], LeaseTTL, leases[r].available)
    <3>1. att[w][r].since \in 0..LeaseTTL
      BY DEF WorkerInv, EngineTypeOK, Attempts
    <3>2. LeaseTTL + att[w][r].since >= LeaseTTL
      BY <3>1, TTLAssumption, SMTT(30)
    <3>3. QED BY <2>1, <2>3, <3>2, UntilFields, SMTT(30) DEF Keeps
  <2>4. QED BY <1>3, <2>1, <2>2, <2>3
<1>4. Recent(w, r)' <=> Recent(w, r)
  BY DEF Recent, Live, At
<1>5. Terminal(runs'[r].state) => Keeps(w, r)'
  BY DEF Keeps
<1>6. QED BY <1>1, <1>3, <1>4, <1>5 DEF Good

\* Of a Run that is open only its owner's attempt can go on from a recent renewal.
LEMMA OnlyOwnerIsRecent ==
    ASSUME WorkerInv, NEW v \in Workers, NEW w \in Workers, NEW r \in Runs,
           Owned(w, r), Recent(v, r), ~Terminal(runs[r].state)
    PROVE  v = w
BY DEF WorkerInv, Keeps, Owned

\* Good attempts and well typed loops and attempts are the invariant.
LEMMA GoodIsInv ==
    ASSUME WorkerInv, [Next]_storeVars, loop' \in [Workers -> Loops],
           att' \in [Workers -> [Runs -> Attempts]],
           \A w \in Workers, r \in Runs : Good(w, r)'
    PROVE  WorkerInv'
<1>1. StoreTypeOK'
  BY TypeStep DEF WorkerInv, EngineTypeOK
<1>2. QED BY <1>1 DEF WorkerInv, EngineTypeOK, Good

\* Steps of the loop and of a goroutine that do not touch the store.
LEMMA QuietSteps ==
    ASSUME WorkerInv, NEW w \in Workers, UNCHANGED storeVars,
           \/ Shutdown(w) \/ Drain(w) \/ Return(w)
           \/ \E r \in Runs : \/ Receive(w, r) \/ DrainOne(w, r) \/ Reconciled(w, r)
                             \/ ParentDone(w, r)
                             \/ RenewalDue(w, r) \/ Renewed(w, r) \/ RenewFails(w, r)
    PROVE  WorkerInv'
<1>0. [Next]_storeVars /\ UNCHANGED <<runs, leases, claims>>
  BY DEF storeVars
<1>1. /\ loop \in [Workers -> Loops] /\ att \in [Workers -> [Runs -> Attempts]]
      /\ loop[w] \in Loops /\ loop[w].active \in SUBSET Runs /\ loop[w].range \in SUBSET Runs
      /\ loop[w].stop \in BOOLEAN /\ loop[w].at \in {"up", "draining", "returned", "down"}
  <2>1. loop \in [Workers -> Loops] /\ att \in [Workers -> [Runs -> Attempts]]
    BY DEF WorkerInv, EngineTypeOK
  <2>2. QED BY <2>1 DEF Loops
<1>2. ASSUME UNCHANGED att, NEW l \in Loops, SetLoop(w, l), l.active = loop[w].active,
             l.at # "down"
      PROVE  WorkerInv'
  <2>1. /\ loop' \in [Workers -> Loops]
        /\ \A v \in Workers, q \in Runs : q \in loop'[v].active <=> q \in loop[v].active
        /\ \A v \in Workers : loop'[v].at = "down" => loop[v].at = "down"
    BY <1>2, SetLoopFields
  <2>2. \A v \in Workers, q \in Runs : Good(v, q)'
    BY <1>0, <1>2, <2>1, Undisturbed
  <2>3. QED BY <1>0, <1>1, <1>2, <2>1, <2>2, GoodIsInv
<1>3. CASE Shutdown(w) \/ Drain(w) \/ Return(w)
  <2>1. PICK place \in {"up", "draining", "returned"}, stop \in BOOLEAN, range \in SUBSET Runs :
            SetLoop(w, LoopAt(place, stop, loop[w].active, range))
    BY <1>1, <1>3 DEF Shutdown, Drain, Return
  <2>2. LoopAt(place, stop, loop[w].active, range) \in Loops
    BY <1>1, RecordsTyped
  <2>3. /\ LoopAt(place, stop, loop[w].active, range).active = loop[w].active
        /\ LoopAt(place, stop, loop[w].active, range).at # "down"
    BY DEF LoopAt
  <2>4. UNCHANGED att
    BY <1>3 DEF Shutdown, Drain, Return
  <2>5. QED BY <1>2, <2>1, <2>2, <2>3, <2>4
<1>4. ASSUME NEW r \in Runs, NEW a \in Attempts, SetAttempt(w, r, a), UNCHANGED loop,
             Live(w, r), a.at \in {"running", "reconciled", "stopping"},
             a.at # "stopping" => a.since = att[w][r].since
      PROVE  WorkerInv'
  <2>1. /\ att' \in [Workers -> [Runs -> Attempts]] /\ att'[w][r] = a
        /\ \A v \in Workers, q \in Runs : v # w \/ q # r => att'[v][q] = att[v][q]
    BY <1>4, SetAttemptFields, SMTT(30)
  <2>2. \A v \in Workers, q \in Runs : v # w \/ q # r => Good(v, q)'
    BY <1>0, <1>4, <2>1, Undisturbed
  <2>3. Good(w, r)'
    BY <1>0, <1>4, <2>1 DEF WorkerInv, Good, Slot, Recent, Live, Keeps, HasClaim, At
  <2>4. QED BY <1>0, <1>1, <1>4, <2>1, <2>2, <2>3, GoodIsInv
<1>5. ASSUME NEW r \in Runs, NEW l \in Loops, At(w, r, {"sent"}), SetLoop(w, l),
             l.active = loop[w].active \ {r}, l.at # "down", SetAttempt(w, r, NoAttempt)
      PROVE  WorkerInv'
  <2>1. NoAttempt \in Attempts /\ NoAttempt.at = "none"
    <3>1. NoAttempt.at = "none" BY DEF NoAttempt, AttemptAt
    <3>2. QED BY <3>1, RecordsTyped DEF NoAttempt
  <2>2. /\ att' \in [Workers -> [Runs -> Attempts]] /\ att'[w][r] = NoAttempt
        /\ \A v \in Workers, q \in Runs : v # w \/ q # r => att'[v][q] = att[v][q]
    BY <1>5, <2>1, SetAttemptFields, SMTT(30)
  <2>3. /\ loop' \in [Workers -> Loops] /\ r \notin loop'[w].active
        /\ \A v \in Workers, q \in Runs :
              v # w \/ q # r => (q \in loop'[v].active <=> q \in loop[v].active)
        /\ \A v \in Workers : loop'[v].at = "down" => loop[v].at = "down"
    BY <1>5, SetLoopFields
  <2>4. \A v \in Workers, q \in Runs : v # w \/ q # r => Good(v, q)'
    BY <1>0, <2>2, <2>3, Undisturbed
  <2>5. Good(w, r)'
    BY <1>0, <1>5, <2>1, <2>2, <2>3 DEF WorkerInv, Good, Slot, Recent, Live, HasClaim, At
  <2>6. QED BY <1>0, <2>2, <2>3, <2>4, <2>5, GoodIsInv
<1>6. ASSUME NEW r \in Runs, Receive(w, r) PROVE WorkerInv'
  <2> DEFINE l == LoopAt(loop[w].at, loop[w].stop, loop[w].active \ {r}, loop[w].range)
  <2>1. l \in Loops /\ l.active = loop[w].active \ {r} /\ l.at # "down"
    <3>1. l.active = loop[w].active \ {r} /\ l.at # "down" BY <1>6 DEF LoopAt, Receive
    <3>2. loop[w].active \ {r} \in SUBSET Runs BY <1>1
    <3>3. QED BY <1>1, <3>1, <3>2, RecordsTyped
  <2>2. SetLoop(w, l) BY <1>6 DEF Receive, SetActive
  <2> HIDE DEF l
  <2>3. QED BY <1>5, <1>6, <2>1, <2>2 DEF Receive
<1>7. ASSUME NEW r \in Runs, DrainOne(w, r) PROVE WorkerInv'
  <2>1. PICK key \in Unreached(w) :
            SetLoop(w, LoopAt("draining", loop[w].stop, loop[w].active \ {r},
                              loop[w].range \ {key}))
    BY <1>7 DEF DrainOne
  <2> DEFINE l == LoopAt("draining", loop[w].stop, loop[w].active \ {r}, loop[w].range \ {key})
  <2>2. l \in Loops /\ l.active = loop[w].active \ {r} /\ l.at # "down"
    <3>1. l.active = loop[w].active \ {r} /\ l.at # "down" BY DEF LoopAt
    <3>2. loop[w].active \ {r} \in SUBSET Runs /\ loop[w].range \ {key} \in SUBSET Runs BY <1>1
    <3>3. QED BY <1>1, <3>1, <3>2, RecordsTyped
  <2>3. SetLoop(w, l) BY <2>1
  <2> HIDE DEF l
  <2>4. QED BY <1>5, <1>7, <2>2, <2>3 DEF DrainOne
<1>8. ASSUME NEW r \in Runs, Reconciled(w, r) PROVE WorkerInv'
  <2>1. att[w][r] \in Attempts BY <1>1
  <2> DEFINE a == [att[w][r] EXCEPT !.at = "reconciled"]
  <2>2. a \in Attempts /\ a.at = "reconciled" /\ a.since = att[w][r].since
    BY <2>1 DEF Attempts
  <2>3. SetAttempt(w, r, a) /\ UNCHANGED loop BY <1>8 DEF Reconciled
  <2>4. Live(w, r) BY <1>8 DEF Reconciled, Live, At
  <2> HIDE DEF a
  <2>5. QED BY <1>4, <2>2, <2>3, <2>4
<1>9. ASSUME NEW r \in Runs, NEW release \in BOOLEAN, Stopping(w, r, release), Live(w, r),
             UNCHANGED loop
      PROVE  WorkerInv'
  <2>1. att[w][r].cancelling \in BOOLEAN BY <1>1 DEF Attempts
  <2> DEFINE a == AttemptAt("stopping", 0, att[w][r].cancelling, release)
  <2>2. a \in Attempts BY <2>1, RecordsTyped
  <2>3. a.at = "stopping" BY DEF AttemptAt
  <2>4. SetAttempt(w, r, a) BY <1>9 DEF Stopping
  <2> HIDE DEF a
  <2>5. QED BY <1>4, <1>9, <2>2, <2>3, <2>4
<1>10. ASSUME NEW r \in Runs, RenewalDue(w, r) \/ Renewed(w, r) PROVE WorkerInv'
  <2>1. CASE Stopping(w, r, TRUE)
    BY <1>9, <1>10, <2>1 DEF RenewalDue, Renewed, Selecting, InCall
  <2>2. ASSUME NEW call \in {"asked", "none"},
               SetAttempt(w, r, [att[w][r] EXCEPT !.call = call])
        PROVE  WorkerInv'
    <3>1. att[w][r] \in Attempts BY <1>1
    <3> DEFINE a == [att[w][r] EXCEPT !.call = call]
    <3>2. a \in Attempts /\ a.at = att[w][r].at /\ a.since = att[w][r].since
      BY <3>1 DEF Attempts
    <3>3. SetAttempt(w, r, a) BY <2>2
    <3> HIDE DEF a
    <3>4. Live(w, r) /\ UNCHANGED loop
      BY <1>10 DEF RenewalDue, Renewed, Selecting, InCall
    <3>5. a.at \in {"running", "reconciled", "stopping"} BY <3>2, <3>4 DEF Live, At
    <3>6. QED BY <1>4, <3>2, <3>3, <3>4, <3>5
  <2>3. QED BY <1>10, <2>1, <2>2 DEF RenewalDue, Renewed
<1>11. ASSUME NEW r \in Runs, ParentDone(w, r) \/ RenewFails(w, r) PROVE WorkerInv'
  BY <1>9, <1>11 DEF ParentDone, RenewFails, Selecting, InCall
<1>12. QED BY <1>3, <1>6, <1>7, <1>8, <1>10, <1>11

\* The owner of a lease extends it: RenewClaim, called by process or by Reconcile.
LEMMA ExtendSteps ==
    ASSUME WorkerInv, NEW w \in Workers, NEW r \in Runs, UNCHANGED loop, ExtendLease(w, r),
           \/ UNCHANGED claims
           \/ claims' = [claims EXCEPT ![w][r] = Snapshot(r, claims[w][r].token)],
           NEW a \in Attempts, SetAttempt(w, r, a),
           \/ a = att[w][r]
           \/ Live(w, r) /\ a.at \in {"running", "reconciled", "stopping"}
    PROVE  WorkerInv'
<1>0. [Next]_storeVars
  BY DEF RenewClaim, UseClaim, Next
<1>1. /\ att' \in [Workers -> [Runs -> Attempts]] /\ att'[w][r] = a
      /\ \A v \in Workers, q \in Runs : v # w \/ q # r => att'[v][q] = att[v][q]
  BY SetAttemptFields
<1>2. HasClaim(w, r) /\ leases[r].worker = w /\ leases[r].token = claims[w][r].token
  BY DEF ExtendLease, Owned
<1>3. claims[w][r].token \in Tokens
  BY <1>2 DEF WorkerInv, Slot
<1>4. StoreTypeOK BY DEF WorkerInv, EngineTypeOK
<1>5. /\ claims'[w][r] # NoClaim /\ claims'[w][r].token = claims[w][r].token
      /\ \A v \in Workers, q \in Runs : v # w \/ q # r => claims'[v][q] = claims[v][q]
  <2>1. CASE UNCHANGED claims
    BY <1>2, <2>1 DEF HasClaim
  <2>2. CASE claims' = [claims EXCEPT ![w][r] = Snapshot(r, claims[w][r].token)]
    <3>1. Snapshot(r, claims[w][r].token).token = claims[w][r].token
          /\ Snapshot(r, claims[w][r].token) \in ClaimRecords
      BY <1>3, <1>4, SnapshotTyped
    <3>2. Snapshot(r, claims[w][r].token) # NoClaim
      BY <1>3, <3>1, NoneAssumption, SMTT(30) DEF NoClaim
    <3>3. QED BY <1>4, <2>2, <3>1, <3>2, SetClaim
  <2>3. QED BY <2>1, <2>2
<1>6. /\ leases'[r] = Until(leases[r], LeaseTTL, leases[r].available)
      /\ \A q \in Runs : q # r => leases'[q] = leases[q]
      /\ runs' = runs
  BY <1>4 DEF ExtendLease, StoreTypeOK
<1>7. \A v \in Workers, q \in Runs : v # w \/ q # r => Good(v, q)'
  BY <1>0, <1>1, <1>5, <1>6, Undisturbed
<1>8. Good(w, r)'
  <2>1. a.since \in 0..LeaseTTL
    BY DEF Attempts
  <2>2. LeaseTTL + a.since >= LeaseTTL
    BY <2>1, TTLAssumption, SMTT(30)
  <2>3. Keeps(w, r)'
    BY <1>1, <1>2, <1>5, <1>6, <2>2, UntilFields, SMTT(30) DEF Keeps
  <2>4. Slot(w, r)'
    BY <1>1, <1>2, <1>3, <1>5 DEF WorkerInv, Slot, HasClaim, At, Live
  <2>5. QED BY <2>3, <2>4 DEF Good
<1>9. QED
  BY <1>0, <1>1, <1>7, <1>8, GoodIsInv DEF WorkerInv, EngineTypeOK

\* Reconcile moves its Run: AdvanceClaim.
LEMMA AdvanceSteps ==
    ASSUME WorkerInv, NEW w \in Workers, NEW r \in Runs, NEW change \in Changes,
           AdvanceClaim(w, r, change), UNCHANGED <<loop, att>>
    PROVE  WorkerInv'
<1>0. [Next]_storeVars
  BY DEF UseClaim, Next
<1>1. StoreTypeOK BY DEF WorkerInv, EngineTypeOK
<1>2. \A q \in Runs : leases'[q] = leases[q] \/ Terminal(runs'[q].state)
  <2>1. runs'[r].state = change.state
    BY <1>1 DEF AdvanceClaim, StoreTypeOK, Transition
  <2>2. \A q \in Runs : q # r => leases'[q] = leases[q]
    BY <1>1 DEF AdvanceClaim, StoreTypeOK
  <2>3. QED BY <2>1, <2>2 DEF AdvanceClaim
<1>3. \A v \in Workers, q \in Runs : Good(v, q)'
  BY <1>0, <1>2, Undisturbed DEF AdvanceClaim
<1>4. QED BY <1>0, <1>3, GoodIsInv DEF WorkerInv, EngineTypeOK

\* An attempt ends: its claim is given back or forgotten.
LEMMA EndSteps ==
    ASSUME WorkerInv, NEW w \in Workers, NEW r \in Runs, UNCHANGED loop, Sent(w, r),
           At(w, r, {"reconciled", "stopping"}), EndAttempt(w, r)
    PROVE  WorkerInv'
<1>0. [Next]_storeVars
  BY DEF Next
<1>1. StoreTypeOK BY DEF WorkerInv, EngineTypeOK
<1> DEFINE a == AttemptAt("sent", 0, FALSE, FALSE)
<1>2. a \in Attempts BY RecordsTyped
<1>3. a.at = "sent" BY DEF AttemptAt
<1>4. SetAttempt(w, r, a) BY DEF Sent
<1> HIDE DEF a
<1>5. /\ att' \in [Workers -> [Runs -> Attempts]] /\ att'[w][r] = a
      /\ \A v \in Workers, q \in Runs : v # w \/ q # r => att'[v][q] = att[v][q]
  BY <1>2, <1>4, SetAttemptFields
<1>6. claims' = [claims EXCEPT ![w][r] = NoClaim] /\ runs' = runs
  BY DEF EndAttempt, ReleaseClaim, ForgetClaim
<1>7. /\ claims'[w][r] = NoClaim
      /\ \A v \in Workers, q \in Runs : v # w \/ q # r => claims'[v][q] = claims[v][q]
  <2>1. \A v \in Workers, q \in Runs :
            claims'[v][q] = IF v = w /\ q = r THEN NoClaim ELSE claims[v][q]
    BY <1>1, <1>6, NoClaimTyped, SetClaim
  <2>2. QED BY <2>1
<1>8. /\ \A q \in Runs : q # r => leases'[q] = leases[q]
      /\ leases'[r] = leases[r] \/ Owned(w, r)
  BY <1>1 DEF EndAttempt, ReleaseClaim, ForgetClaim, StoreTypeOK
<1>9. ASSUME NEW v \in Workers, NEW q \in Runs, v # w \/ q # r PROVE Good(v, q)'
  <2>1. leases'[q] = leases[q] \/ Terminal(runs[q].state) \/ ~Recent(v, q)
    BY <1>8, <1>9, OnlyOwnerIsRecent
  <2>2. QED BY <1>0, <1>5, <1>7, <1>9, <2>1, Undisturbed
<1>10. Good(w, r)'
  <2>1. Slot(w, r) /\ att[w][r].at \in {"reconciled", "stopping"} /\ att'[w][r].at = "sent"
    BY <1>3, <1>5 DEF WorkerInv, At
  <2>2. ~HasClaim(w, r)' /\ ~Recent(w, r)' /\ ~At(w, r, {"running", "reconciled", "stopping"})'
    BY <1>7, <2>1 DEF HasClaim, Recent, Live, At
  <2>3. Slot(w, r)'
    BY <2>1, <2>2 DEF Slot
  <2>4. QED BY <2>2, <2>3 DEF Good
<1>11. QED
  BY <1>0, <1>5, <1>9, <1>10, GoodIsInv DEF WorkerInv, EngineTypeOK

\* The engine polls: it starts an attempt for each Run it keeps the claim of.
LEMMA PollSteps ==
    ASSUME WorkerInv, NEW w \in Workers, Poll(w)
    PROVE  WorkerInv'
<1>0. [Next]_storeVars
  BY EngineStepUsesStore DEF EngineNext
<1>1. /\ StoreTypeOK /\ loop \in [Workers -> Loops] /\ att \in [Workers -> [Runs -> Attempts]]
      /\ loop[w] \in Loops
  BY DEF WorkerInv, EngineTypeOK
<1>2. PICK batch \in SUBSET Runs, token \in [Runs -> Tokens], answered \in BOOLEAN :
          LET kept == IF answered THEN batch \ loop[w].active ELSE {} IN
          /\ ClaimRuns(w, batch, kept, token)
          /\ SetActive(w, loop[w].active \union kept)
          /\ att' = [att EXCEPT ![w] = [r \in Runs |-> IF r \in kept THEN Started(r) ELSE @[r]]]
  BY DEF Poll
<1> DEFINE kept == IF answered THEN batch \ loop[w].active ELSE {}
           l == LoopAt(loop[w].at, loop[w].stop, loop[w].active \union kept, loop[w].range)
<1>3. kept \in SUBSET Runs /\ kept \subseteq batch
  OBVIOUS
<1>4. /\ ClaimRuns(w, batch, kept, token) /\ SetLoop(w, l)
      /\ att' = [att EXCEPT ![w] = [r \in Runs |-> IF r \in kept THEN Started(r) ELSE att[w][r]]]
  BY <1>1, <1>2 DEF SetActive
<1> HIDE DEF kept
<1>5. l \in Loops /\ l.active = loop[w].active \union kept /\ l.at = loop[w].at /\ l.at # "down"
  <2>1. l.active = loop[w].active \union kept /\ l.at = loop[w].at BY DEF LoopAt
  <2>2. /\ loop[w].active \union kept \in SUBSET Runs /\ loop[w].range \in SUBSET Runs
        /\ loop[w].stop \in BOOLEAN /\ loop[w].at \in {"up", "draining", "returned", "down"}
    BY <1>1, <1>3 DEF Loops
  <2>3. loop[w].at # "down" BY DEF Poll
  <2>4. QED BY <2>1, <2>2, <2>3, RecordsTyped
<1> HIDE DEF l
<1>6. \A r \in Runs : Started(r) \in Attempts /\ Started(r).at = "running" /\ Started(r).since = 0
  <2>1. \A r \in Runs : Started(r).at = "running" /\ Started(r).since = 0
    BY DEF Started, AttemptAt
  <2>2. QED BY <2>1, RecordsTyped DEF Started
<1>7. /\ att' \in [Workers -> [Runs -> Attempts]]
      /\ \A r \in kept : att'[w][r] = Started(r)
      /\ \A v \in Workers, q \in Runs : v # w \/ q \notin kept => att'[v][q] = att[v][q]
  BY <1>1, <1>3, <1>4, <1>6
<1>8. /\ loop' \in [Workers -> Loops] /\ loop'[w] = l
      /\ \A v \in Workers : v # w => loop'[v] = loop[v]
  BY <1>4, <1>5, SetLoopFields
<1>9. /\ \A r \in kept : claims'[w][r] = Snapshot(r, token[r])
      /\ \A v \in Workers, q \in Runs : v # w \/ q \notin kept => claims'[v][q] = claims[v][q]
  BY <1>1, <1>3, <1>4 DEF ClaimRuns, StoreTypeOK
<1>10. /\ \A r \in Runs : leases'[r] = IF r \in batch THEN Grant(w, token[r]) ELSE leases[r]
       /\ \A r \in batch : leases[r].expires = 0
       /\ runs' = runs
  BY <1>4 DEF ClaimRuns, LeaseBatch, Eligible
<1>11. ASSUME NEW v \in Workers, NEW q \in Runs, v # w \/ q \notin kept PROVE Good(v, q)'
  <2>1. q \in loop'[v].active <=> q \in loop[v].active
    BY <1>5, <1>8, <1>11
  <2>2. loop'[v].at = "down" => loop[v].at = "down"
    BY <1>5, <1>8
  <2>3. leases'[q] = leases[q] \/ Terminal(runs[q].state) \/ ~Recent(v, q)
    <3>1. Recent(v, q) /\ ~Terminal(runs[q].state) => leases[q].expires > 0
      BY RecentAttemptsOwn DEF RenewedAttemptsOwnTheirRun, Recent, Owned
    <3>2. QED BY <1>10, <3>1, SMTT(30)
  <2>4. QED BY <1>0, <1>7, <1>9, <1>11, <2>1, <2>2, <2>3, Undisturbed
<1>12. ASSUME NEW q \in kept PROVE Good(w, q)'
  <2>1. q \in Runs /\ q \in batch /\ token[q] \in Tokens
    BY <1>3
  <2>2. Snapshot(q, token[q]).token = token[q]
    BY <1>1, <2>1, SnapshotTyped
  <2>3. Snapshot(q, token[q]) # NoClaim
    BY <2>1, <2>2, NoneAssumption, SMTT(30) DEF NoClaim
  <2>4. Grant(w, token[q]).worker = w /\ Grant(w, token[q]).token = token[q]
        /\ Grant(w, token[q]).expires = LeaseTTL
    BY <2>1, GrantTyped
  <2>5. att'[w][q].at = "running" /\ att'[w][q].since = 0
    BY <1>6, <1>7, <2>1
  <2>6. Keeps(w, q)'
    BY <1>9, <1>10, <2>1, <2>2, <2>4, <2>5, TTLAssumption, SMTT(30) DEF Keeps
  <2>7. Slot(w, q)'
    BY <1>5, <1>8, <1>9, <2>1, <2>2, <2>3, <2>5 DEF Slot, HasClaim, At
  <2>8. QED BY <2>6, <2>7 DEF Good
<1>13. \A v \in Workers, q \in Runs : Good(v, q)'
  BY <1>11, <1>12
<1>14. QED BY <1>0, <1>7, <1>8, <1>13, GoodIsInv

\* A process starts, or dies with its attempts.
LEMMA ProcessSteps ==
    ASSUME WorkerInv, NEW w \in Workers, Exit(w) \/ Start(w)
    PROVE  WorkerInv'
<1>0. [Next]_storeVars
  BY EngineStepUsesStore DEF EngineNext
<1>1. /\ StoreTypeOK /\ loop \in [Workers -> Loops] /\ att \in [Workers -> [Runs -> Attempts]]
  BY DEF WorkerInv, EngineTypeOK
<1>2. NoAttempt \in Attempts /\ NoAttempt.at = "none"
  <2>1. NoAttempt.at = "none" BY DEF NoAttempt, AttemptAt
  <2>2. QED BY <2>1, RecordsTyped DEF NoAttempt
<1>3. CASE Exit(w)
  <2> DEFINE l == LoopAt("down", FALSE, {}, {})
  <2>1. l \in Loops /\ l.active = {}
    <3>1. l.active = {} BY DEF LoopAt
    <3>2. QED BY <3>1, RecordsTyped
  <2>2. SetLoop(w, l) BY <1>3 DEF Exit
  <2> HIDE DEF l
  <2>3. /\ loop' \in [Workers -> Loops] /\ loop'[w] = l
        /\ \A v \in Workers : v # w => loop'[v] = loop[v]
    BY <2>1, <2>2, SetLoopFields
  <2>4. /\ att' \in [Workers -> [Runs -> Attempts]]
        /\ \A r \in Runs : att'[w][r] = NoAttempt
        /\ \A v \in Workers, r \in Runs : v # w => att'[v][r] = att[v][r]
    BY <1>1, <1>2, <1>3 DEF Exit
  <2>5. /\ \A r \in Runs : claims'[w][r] = NoClaim
        /\ \A v \in Workers, r \in Runs : v # w => claims'[v][r] = claims[v][r]
        /\ leases' = leases
    <3>1. CASE LoseClaims(w)
      BY <1>1, <3>1 DEF LoseClaims, StoreTypeOK
    <3>2. CASE Claimed(w) = {} /\ UNCHANGED storeVars
      BY <3>2 DEF Claimed, HasClaim, storeVars
    <3>3. QED BY <1>3, <3>1, <3>2 DEF Exit
  <2>6. ASSUME NEW v \in Workers, NEW q \in Runs, v # w PROVE Good(v, q)'
    BY <1>0, <2>3, <2>4, <2>5, <2>6, Undisturbed, SMTT(30)
  <2>7. ASSUME NEW q \in Runs PROVE Good(w, q)'
    BY <1>2, <2>1, <2>3, <2>4, <2>5 DEF Good, Slot, Recent, Live, HasClaim, At
  <2>8. QED BY <1>0, <2>3, <2>4, <2>6, <2>7, GoodIsInv
<1>4. CASE Start(w)
  <2>1. Fresh \in Loops /\ Fresh.active = {} /\ Fresh.at = "up"
    <3>1. Fresh.active = {} /\ Fresh.at = "up" BY DEF Fresh, LoopAt
    <3>2. QED BY <3>1, RecordsTyped DEF Fresh
  <2>2. /\ loop' \in [Workers -> Loops] /\ loop'[w] = Fresh
        /\ \A v \in Workers : v # w => loop'[v] = loop[v]
    BY <1>4, <2>1, SetLoopFields DEF Start
  <2>3. \A r \in Runs : r \notin loop[w].active
    BY <1>4 DEF Start, WorkerInv, Slot
  <2>4. \A v \in Workers, q \in Runs : Good(v, q)'
    BY <1>0, <1>4, <2>1, <2>2, <2>3, Undisturbed DEF Start, storeVars
  <2>5. QED BY <1>0, <1>1, <1>4, <2>2, <2>4, GoodIsInv DEF Start
<1>5. QED BY <1>3, <1>4

\* Time passes for a lease and for the attempt that renews it together.
LEMMA ElapseSteps ==
    ASSUME WorkerInv, Elapse
    PROVE  WorkerInv'
<1>0. [Next]_storeVars
  BY EngineStepUsesStore DEF EngineNext
<1>1. /\ StoreTypeOK /\ loop \in [Workers -> Loops] /\ att \in [Workers -> [Runs -> Attempts]]
  BY DEF WorkerInv, EngineTypeOK
<1>2. leases' = LeasesAfterTick /\ UNCHANGED <<runs, claims, loop>>
  BY DEF Elapse, Tick
<1>3. ASSUME NEW w \in Workers, NEW r \in Runs
      PROVE  /\ att'[w][r] \in Attempts
             /\ att'[w][r].at = att[w][r].at
             /\ Recent(w, r)' => Recent(w, r) /\ att'[w][r].since = att[w][r].since + 1
  <2>1. att[w][r] \in Attempts /\ att[w][r].since \in 0..LeaseTTL
    BY <1>1 DEF Attempts
  <2>2. CASE Live(w, r)
    <3>1. /\ Older(att[w][r].since) \in 0..LeaseTTL
          /\ Older(att[w][r].since) < LeaseTTL
               => att[w][r].since < LeaseTTL /\ Older(att[w][r].since) = att[w][r].since + 1
      BY <2>1, TTLAssumption, SMTT(30) DEF Older
    <3>2. att'[w][r] = [att[w][r] EXCEPT !.since = Older(att[w][r].since)]
      BY <2>2 DEF Elapse
    <3>3. /\ att'[w][r] \in Attempts /\ att'[w][r].at = att[w][r].at
          /\ att'[w][r].since = Older(att[w][r].since)
      BY <2>1, <3>1, <3>2 DEF Attempts
    <3>4. QED BY <2>2, <3>1, <3>3 DEF Recent
  <2>3. CASE ~Live(w, r)
    <3>1. att'[w][r] = att[w][r]
      BY <2>3 DEF Elapse
    <3>2. QED BY <2>1, <2>3, <3>1 DEF Recent, Live, At
  <2>4. QED BY <2>2, <2>3
<1>4. att' \in [Workers -> [Runs -> Attempts]]
  <2>1. \A w \in Workers, r \in Runs : att'[w][r] \in Attempts BY <1>3
  <2>2. QED BY <2>1 DEF Elapse
<1>5. ASSUME NEW w \in Workers, NEW r \in Runs PROVE Good(w, r)'
  <2>1. Slot(w, r)'
    BY <1>2, <1>3 DEF WorkerInv, Slot, HasClaim, At
  <2>2. ASSUME Recent(w, r)', ~Terminal(runs[r].state) PROVE Keeps(w, r)'
    <3>0. Recent(w, r) /\ att'[w][r].since = att[w][r].since + 1
      BY <1>3, <2>2
    <3>1. leases[r].expires \in Nat /\ leases[r].expires > 0
      <4>1. leases[r].expires \in Nat
        BY <1>1, LeaseTyped, TTLAssumption, SMTT(30)
      <4>2. QED BY <2>2, <3>0, <4>1, RecentAttemptsOwn
                DEF RenewedAttemptsOwnTheirRun, Recent, Owned
    <3>2. /\ leases'[r].worker = leases[r].worker /\ leases'[r].token = leases[r].token
          /\ leases'[r].expires = leases[r].expires - 1
      BY <1>2, <3>1, UntilFields, SMTT(30) DEF LeasesAfterTick, TimeLeft
    <3>3. att[w][r].since \in Nat
      BY <1>1, TTLAssumption, SMTT(30) DEF Attempts
    <3>4. Keeps(w, r)
      BY <3>0 DEF WorkerInv
    <3>5. QED BY <1>2, <2>2, <3>0, <3>1, <3>2, <3>3, <3>4, TTLAssumption, SMTT(30) DEF Keeps
  <2>3. Terminal(runs[r].state) => Keeps(w, r)'
    BY <1>2 DEF Keeps
  <2>4. QED BY <2>1, <2>2, <2>3 DEF Good
<1>6. QED BY <1>0, <1>1, <1>2, <1>4, <1>5, GoodIsInv

\* Every step of an attempt's goroutine preserves the invariant.
LEMMA AttemptSteps ==
    ASSUME WorkerInv, NEW w \in Workers, NEW r \in Runs, Attempt(w, r)
    PROVE  WorkerInv'
<1>1. att[w][r] \in Attempts /\ att[w][r].cancelling \in BOOLEAN
  <2>1. att[w][r] \in Attempts BY DEF WorkerInv, EngineTypeOK
  <2>2. QED BY <2>1 DEF Attempts
<1>3. CASE Reconcile(w, r)
  <2>1. CASE RenewClaim(w, r)
    <3>1. SetAttempt(w, r, att[w][r])
      BY <1>3 DEF Reconcile, SetAttempt, WorkerInv, EngineTypeOK
    <3>2. QED BY <1>1, <1>3, <2>1, <3>1, ExtendSteps DEF Reconcile, RenewClaim
  <2>2. QED BY <1>3, <2>1, AdvanceSteps DEF Reconcile
<1>4. CASE RenewalTakesEffect(w, r)
  <2>1. Live(w, r) /\ ExtendLease(w, r) /\ UNCHANGED <<claims, loop>>
    BY <1>4 DEF RenewalTakesEffect, InCall
  <2>2. PICK found \in {"cancelled", "renewed"} :
            SetAttempt(w, r, [att[w][r] EXCEPT !.since = 0, !.call = found])
    BY <1>4 DEF RenewalTakesEffect
  <2> DEFINE a == [att[w][r] EXCEPT !.since = 0, !.call = found]
  <2>3. a \in Attempts /\ a.at = att[w][r].at
    <3>1. 0 \in 0..LeaseTTL BY TTLAssumption, SMTT(30)
    <3>2. found \in {"none", "asked", "renewed", "cancelled"} BY <2>2
    <3>3. [att[w][r] EXCEPT !.since = 0] \in Attempts
      BY <1>1, <3>1 DEF Attempts
    <3>4. QED BY <1>1, <3>2, <3>3 DEF Attempts
  <2>4. SetAttempt(w, r, a) BY <2>2
  <2> HIDE DEF a
  <2>5. a.at \in {"running", "reconciled", "stopping"} BY <2>1, <2>3 DEF Live, At
  <2>6. QED BY <2>1, <2>3, <2>4, <2>5, ExtendSteps
<1>5. CASE \/ Reconciled(w, r) \/ ParentDone(w, r)
           \/ RenewalDue(w, r) \/ Renewed(w, r) \/ RenewFails(w, r)
  BY <1>5, QuietSteps DEF Reconciled, ParentDone, RenewalDue, Renewed, RenewFails
<1>7. CASE Finish(w, r)
  BY <1>7, EndSteps DEF Finish, EndAttempt, At
<1>8. CASE Stopped(w, r)
  <2>1. EndAttempt(w, r)
    BY <1>8, DelayAssumption, SMTT(30) DEF Stopped, EndAttempt
  <2>2. QED BY <1>8, <2>1, EndSteps DEF Stopped, At
<1>9. QED BY <1>3, <1>4, <1>5, <1>7, <1>8 DEF Attempt

\* Every step preserves the invariant.
LEMMA WorkerStep ==
    ASSUME WorkerInv, [EngineNext]_engineVars
    PROVE  WorkerInv'
<1>0. [Next]_storeVars
  BY EngineStepUsesStore
<1>1. ASSUME UNCHANGED <<leases, claims, loop, att>> PROVE WorkerInv'
  <2>1. \A w \in Workers, r \in Runs : Good(w, r)'
    BY <1>0, <1>1, Undisturbed
  <2>2. QED BY <1>0, <1>1, <2>1, GoodIsInv DEF WorkerInv, EngineTypeOK
<1>2. CASE Clients
  BY <1>1, <1>2 DEF Clients, Accept, Cancel
<1>3. CASE UNCHANGED engineVars
  BY <1>1, <1>3 DEF engineVars
<1>4. ASSUME NEW w \in Workers, Shutdown(w) \/ Drain(w) \/ Return(w) PROVE WorkerInv'
  BY <1>4, QuietSteps DEF Shutdown, Drain, Return
<1>5. ASSUME NEW w \in Workers, NEW r \in Runs, Receive(w, r) \/ DrainOne(w, r) PROVE WorkerInv'
  BY <1>5, QuietSteps DEF Receive, DrainOne
<1>6. QED
  BY <1>2, <1>3, <1>4, <1>5, PollSteps, ProcessSteps, AttemptSteps, ElapseSteps DEF EngineNext

\* It holds at the start.
LEMMA WorkerStart == EngineInit => WorkerInv
<1> SUFFICES ASSUME EngineInit PROVE WorkerInv
  OBVIOUS
<1>1. StoreTypeOK
  BY InitIInv DEF EngineInit, IInv
<1>2. NoAttempt \in Attempts /\ NoAttempt.at = "none"
  <2>1. NoAttempt.at = "none" BY DEF NoAttempt, AttemptAt
  <2>2. QED BY <2>1, RecordsTyped DEF NoAttempt
<1>3. Fresh \in Loops /\ Fresh.active = {}
  <2>1. Fresh.active = {} BY DEF Fresh, LoopAt
  <2>2. QED BY <2>1, RecordsTyped DEF Fresh
<1>4. \A w \in Workers, r \in Runs : claims[w][r] = NoClaim
  BY DEF EngineInit, Init
<1>5. \A w \in Workers, r \in Runs : Slot(w, r) /\ ~Recent(w, r)
  BY <1>2, <1>3, <1>4 DEF EngineInit, Slot, HasClaim, Recent, Live, At
<1>6. QED BY <1>1, <1>2, <1>3, <1>5 DEF WorkerInv, EngineTypeOK, EngineInit

\* The inductive invariant is one.
LEMMA WorkerInvariant == EngineSpec => []WorkerInv
<1>1. WorkerInv /\ [EngineNext]_engineVars => WorkerInv'
  BY WorkerStep
<1>2. QED BY <1>1, WorkerStart, PTL DEF EngineSpec

\* Renewal keeps ownership: an attempt whose context is not cancelled owns its Run, or the
\* Run is closed, for a whole lease after the renewal it goes on from took effect, however
\* late renewals are made and answered (worker.go:176-236).
THEOREM RenewedAttemptsAreOwners == EngineSpec => []RenewedAttemptsOwnTheirRun
BY WorkerInvariant, RecentAttemptsOwn, PTL

-----------------------------------------------------------------------------
(* Slots *)

WithinCapacity == \A w \in Workers : Cardinality(loop[w].active) <= Capacity

\* A poll asks for no more than the free slots; nothing else takes one.
LEMMA CapacityStep ==
    ASSUME WorkerInv, WithinCapacity, [EngineNext]_engineVars
    PROVE  WithinCapacity'
<1>1. loop \in [Workers -> Loops] /\ loop' \in [Workers -> Loops]
  BY WorkerStep DEF WorkerInv, EngineTypeOK
<1>2. \A w \in Workers : /\ loop[w].active \in SUBSET Runs /\ IsFiniteSet(loop[w].active)
                         /\ Cardinality(loop[w].active) \in Nat
  BY <1>1, RunsAssumption, FS_Subset, FS_CardinalityType DEF Loops
<1>3. ASSUME NEW w \in Workers, NEW active \in SUBSET Runs, active \subseteq loop[w].active,
             NEW place, NEW stop, NEW range,
             loop' = [loop EXCEPT ![w] = LoopAt(place, stop, active, range)]
      PROVE  WithinCapacity'
  <2>1. loop'[w].active = active /\ \A v \in Workers : v # w => loop'[v] = loop[v]
    BY <1>1, <1>3 DEF LoopAt
  <2>2. Cardinality(active) \in Nat /\ Cardinality(active) <= Cardinality(loop[w].active)
    BY <1>2, <1>3, FS_Subset, FS_CardinalityType
  <2>3. QED BY <1>2, <2>1, <2>2, CapacityAssumption, SMTT(30) DEF WithinCapacity
<1>4. ASSUME NEW w \in Workers, Poll(w) PROVE WithinCapacity'
  <2>1. PICK batch \in SUBSET Runs, kept \in SUBSET Runs :
            /\ kept \subseteq batch
            /\ Cardinality(batch) <= Capacity - Cardinality(loop[w].active)
            /\ loop' = [loop EXCEPT ![w] = LoopAt(loop[w].at, loop[w].stop,
                                                 loop[w].active \union kept, loop[w].range)]
    BY <1>4 DEF Poll, SetActive, SetLoop
  <2>2. loop'[w].active = loop[w].active \union kept /\ \A v \in Workers : v # w => loop'[v] = loop[v]
    BY <1>1, <2>1 DEF LoopAt
  <2>3. /\ IsFiniteSet(batch) /\ IsFiniteSet(kept) /\ Cardinality(batch) \in Nat
        /\ Cardinality(kept) \in Nat /\ Cardinality(kept) <= Cardinality(batch)
    BY <2>1, RunsAssumption, FS_Subset, FS_CardinalityType
  <2>4. /\ Cardinality(loop[w].active \union kept)
               = Cardinality(loop[w].active) + Cardinality(kept)
                 - Cardinality(loop[w].active \intersect kept)
        /\ Cardinality(loop[w].active \intersect kept) \in Nat
    BY <1>2, <2>3, FS_Union, FS_Intersection, FS_CardinalityType
  <2>5. Cardinality(loop[w].active \union kept) <= Capacity
    BY <1>2, <2>1, <2>3, <2>4, CapacityAssumption, SMTT(30)
  <2>6. QED BY <2>2, <2>5 DEF WithinCapacity
<1>5. CASE UNCHANGED loop
  BY <1>5 DEF WithinCapacity
<1>6. ASSUME NEW w \in Workers, Shutdown(w) \/ Drain(w) \/ Return(w) PROVE WithinCapacity'
  <2>1. \E place, stop, range :
            loop' = [loop EXCEPT ![w] = LoopAt(place, stop, loop[w].active, range)]
    BY <1>6 DEF Shutdown, Drain, Return, SetLoop
  <2>2. QED BY <1>2, <1>3, <2>1
<1>7. ASSUME NEW w \in Workers, Exit(w) \/ Start(w) PROVE WithinCapacity'
  <2>1. \E place, stop, range : loop' = [loop EXCEPT ![w] = LoopAt(place, stop, {}, range)]
    BY <1>7 DEF Exit, Start, SetLoop, Fresh
  <2>2. {} \in SUBSET Runs /\ {} \subseteq loop[w].active OBVIOUS
  <2>3. QED BY <1>3, <2>1, <2>2
<1>8. ASSUME NEW w \in Workers, NEW r \in Runs, Receive(w, r) \/ DrainOne(w, r)
      PROVE  WithinCapacity'
  <2>1. loop[w].active \ {r} \in SUBSET Runs /\ loop[w].active \ {r} \subseteq loop[w].active
    BY <1>2
  <2>2. \E place, stop, range :
            loop' = [loop EXCEPT ![w] = LoopAt(place, stop, loop[w].active \ {r}, range)]
    BY <1>8 DEF Receive, DrainOne, SetActive, SetLoop
  <2>3. QED BY <1>3, <2>1, <2>2
<1>9. ASSUME NEW w \in Workers, NEW r \in Runs, Attempt(w, r) PROVE UNCHANGED loop
  BY <1>9 DEF Attempt, Reconcile, Reconciled, RenewalDue, RenewalTakesEffect, Renewed, RenewFails,
               ParentDone, Finish, Stopped
<1>10. QED
  BY <1>4, <1>5, <1>6, <1>7, <1>8, <1>9 DEF EngineNext, Clients, Elapse, engineVars

\* A slot is taken as long as its attempt executes and there are no more slots than
\* Capacity, through lost answers, lost leases and shutdown (worker.go:84-141).
THEOREM SlotsCoverTheirAttempts == EngineSpec => []SlotsCoverAttempts
<1>1. EngineInit => WithinCapacity
  <2>1. Cardinality({}) = 0 BY FS_EmptySet
  <2>2. Fresh.active = {} BY DEF Fresh, LoopAt
  <2>3. 0 <= Capacity BY CapacityAssumption, SMTT(30)
  <2>4. QED BY <2>1, <2>2, <2>3 DEF EngineInit, WithinCapacity
<1>2. WorkerInv /\ WithinCapacity /\ [EngineNext]_engineVars => WithinCapacity'
  BY CapacityStep
<1>3. WorkerInv /\ WithinCapacity => SlotsCoverAttempts
  <2> SUFFICES ASSUME WorkerInv, WithinCapacity, NEW w \in Workers
               PROVE  /\ Cardinality(loop[w].active) <= Capacity
                      /\ {r \in Runs : ~At(w, r, {"none"})} = loop[w].active
                      /\ Claimed(w) = Executing(w)
    BY DEF SlotsCoverAttempts
  <2>1. loop[w].active \subseteq Runs
    BY DEF WorkerInv, EngineTypeOK, Loops
  <2>2. \A r \in Runs : Slot(w, r)
    BY DEF WorkerInv
  <2>3. {r \in Runs : ~At(w, r, {"none"})} = loop[w].active
    BY <2>1, <2>2 DEF Slot, At
  <2>4. Claimed(w) = Executing(w)
    BY <2>2 DEF Slot, Claimed, Executing
  <2>5. QED BY <2>3, <2>4 DEF WithinCapacity
<1>4. QED BY <1>1, <1>2, <1>3, WorkerInvariant, PTL DEF EngineSpec

=============================================================================
