---------------------------- MODULE BenchmarkProofs ----------------------------
(***************************************************************************)
(* BenchmarkInv of module BenchmarkSteps is inductive: the remaining steps *)
(* are those that move the lease or the Run, failures, the engine and      *)
(* time.  It follows that nothing of a Run is left on a target it does not *)
(* hold, that cleanup comes between collection and analysis, that a bound  *)
(* Job is not replaced, and that cancellation wins.                        *)
(***************************************************************************)
EXTENDS BenchmarkSteps

\* Most leaves are about records and what disjuncts a step has; those that need arithmetic or
\* functions cite SMT.
USE ZenonT(60)

-----------------------------------------------------------------------------
(* Leases and the lifecycle *)

\* A lease that was just granted or renewed outlasts every attempt.
LEMMA LeaseOutlasts ==
    ASSUME NEW left \in 0..AttemptTimeout
    PROVE  left < LeaseTTL
BY AttemptAssumption, TTLAssumption, SMTT(30)

\* An attempt that renewed its lease goes on, or ends.
LEMMA RenewStep ==
    ASSUME BenchmarkInv, [BenchmarkNext]_benchmarkVars, NEW w \in Workers, NEW r \in Runs,
           Live(att[w][r]), NEW a \in Attempts, Become(w, r, a), ExtendLease(w, r),
           UNCHANGED <<claims, res, exec, cluster, flight>>,
           Live(a) => /\ a.pc = att[w][r].pc /\ a.left = att[w][r].left
                      /\ a.todo = att[w][r].todo /\ a.uid = att[w][r].uid
                      /\ a.next = att[w][r].next
    PROVE  BenchmarkInv'
<1>1. /\ Situation(res[r], cluster[r], flight[r]) /\ Staging(runs[r].state, res[r])
      /\ Faithful(exec[r], res[r], cluster[r]) /\ StoreTypeOK /\ Typed
  BY Facts
<1>2. /\ Leased(att[w][r], w, leases[r]) /\ Placed(att[w][r], res[r], cluster[r], flight[r])
      /\ Routed(att[w][r], State(w, r), res[r]) /\ Binding(att[w][r], exec[r], cluster[r])
  BY Facts
<1>3. /\ runs' = runs
      /\ leases' = [leases EXCEPT ![r] = Until(leases[r], LeaseTTL, leases[r].available)]
  BY DEF ExtendLease
<1>4. /\ leases'[r] = Until(leases[r], LeaseTTL, leases[r].available)
      /\ \A q \in Runs \ {r} : leases'[q] = leases[q]
  BY <1>1, <1>3 DEF StoreTypeOK
<1>5. leases'[r].worker = leases[r].worker /\ leases'[r].expires = LeaseTTL
  BY <1>4, UntilFields, SMTT(30)
<1>6. a.left < LeaseTTL
  <2>1. a.left \in 0..AttemptTimeout
    BY DEF Attempts
  <2>2. QED BY <2>1, LeaseOutlasts
<1>7. Live(a) => Leased(a, w, leases'[r])
  BY <1>2, <1>5, <1>6 DEF Leased
<1>8. ASSUME Live(a)
      PROVE  /\ Placed(a, res[r], cluster[r], flight[r]) /\ Routed(a, State(w, r), res[r])
             /\ Binding(a, exec[r], cluster[r])
  <2>1. Placed(a, res[r], cluster[r], flight[r])
    BY <1>2, <1>8 DEF Placed
  <2>2. Routed(a, State(w, r), res[r]) /\ Binding(a, exec[r], cluster[r])
    BY <1>2, <1>8 DEF Routed, Binding
  <2>3. QED BY <2>1, <2>2
<1>9. /\ res \in [Runs -> Rows] /\ exec \in [Runs -> 0..MaxUid] /\ cluster \in [Runs -> Clusters]
      /\ flight \in [Runs -> [Requests -> 0..RequestBound]]
  BY <1>1 DEF Typed
<1>10. QED BY <1>1, <1>3, <1>4, <1>7, <1>8, <1>9, CallStep

\* The fence before an effect renews the lease and changes nothing else.
LEMMA FenceStep ==
    ASSUME BenchmarkInv, [BenchmarkNext]_benchmarkVars, NEW w \in Workers, NEW r \in Runs,
           Fence(w, r)
    PROVE  BenchmarkInv'
<1>1. /\ Live(att[w][r]) /\ ExtendLease(w, r) /\ UNCHANGED <<claims, res, exec, cluster, flight>>
      /\ Become(w, r, [att[w][r] EXCEPT !.fenced = TRUE])
  BY DEF Fence, Calls, Live, DispatchPoints, CleanupPoints
<1>2. PICK old \in Attempts : old = att[w][r]
  BY RowsTyped DEF BenchmarkInv
<1>3. LET b == [old EXCEPT !.fenced = TRUE] IN
      /\ b \in Attempts /\ b.pc = old.pc /\ b.left = old.left /\ b.todo = old.todo
      /\ b.uid = old.uid /\ b.next = old.next
  BY DEF Attempts
<1>4. PICK a \in Attempts :
         /\ Become(w, r, a) /\ a.pc = att[w][r].pc /\ a.left = att[w][r].left
         /\ a.todo = att[w][r].todo /\ a.uid = att[w][r].uid /\ a.next = att[w][r].next
  BY <1>1, <1>2, <1>3
<1>5. QED BY <1>1, <1>4, RenewStep

\* So does a renewal by the engine, which may also end the attempt.
LEMMA EngineRenewsStep ==
    ASSUME BenchmarkInv, [BenchmarkNext]_benchmarkVars, NEW w \in Workers, NEW r \in Runs,
           EngineRenews(w, r)
    PROVE  BenchmarkInv'
<1>1. /\ Live(att[w][r]) /\ ExtendLease(w, r) /\ UNCHANGED <<claims, res, exec, cluster, flight>>
      /\ Returns(w, r) \/ UNCHANGED att
  BY DEF EngineRenews, Live
<1>2. CASE Returns(w, r)
  <2>1. Become(w, r, Returned) /\ Returned \in Attempts /\ ~Live(Returned)
    BY <1>2, ReturnedFields DEF Returns
  <2>2. QED BY <1>1, <2>1, RenewStep
<1>3. CASE UNCHANGED att
  <2>1. att \in [Workers -> [Runs -> Attempts]]
    BY DEF BenchmarkInv, Typed
  <2>2. Become(w, r, att[w][r]) /\ att[w][r] \in Attempts
    BY <1>3, <2>1, SMTT(30) DEF Become
  <2>3. QED BY <1>1, <2>2, RenewStep
<1>4. QED BY <1>1, <1>2, <1>3

\* An attempt that ends with a write of its Run, and perhaps of its reservation.
LEMMA LastWrite ==
    ASSUME BenchmarkInv, [BenchmarkNext]_benchmarkVars, NEW w \in Workers, NEW r \in Runs,
           Live(att[w][r]), Returns(w, r), NEW row \in Rows, res' = [res EXCEPT ![r] = row],
           UNCHANGED <<claims, exec, cluster, flight>>,
           \A q \in Runs \ {r} : runs'[q] = runs[q] /\ leases'[q] = leases[q],
           Situation(row, cluster[r], flight[r]), Staging(runs'[r].state, row),
           Faithful(exec[r], row, cluster[r])
    PROVE  BenchmarkInv'
<1>1. Become(w, r, Returned) /\ Returned \in Attempts /\ ~Live(Returned)
  BY ReturnedFields DEF Returns
<1>2. Typed
  BY DEF BenchmarkInv
<1>3. /\ res' \in [Runs -> Rows] /\ res'[r] = row
      /\ \A q \in Runs \ {r} : res'[q] = res[q]
      /\ exec \in [Runs -> 0..MaxUid] /\ cluster \in [Runs -> Clusters]
      /\ flight \in [Runs -> [Requests -> 0..RequestBound]]
  BY <1>2 DEF Typed
<1>4. QED BY <1>1, <1>3, CallStep

\* What AdvanceClaim writes.
LEMMA AdvanceWrites ==
    ASSUME BenchmarkInv, NEW w \in Workers, NEW r \in Runs, NEW change, change.state \in States,
           AdvanceClaim(w, r, change)
    PROVE  /\ \A q \in Runs \ {r} : runs'[q] = runs[q] /\ leases'[q] = leases[q]
           /\ runs'[r].state = change.state /\ claims' = claims
           /\ State(w, r) = runs[r].state
<1>1. StoreTypeOK
  BY Facts DEF BenchmarkInv, IInv
<1>2. /\ Owned(w, r) /\ claims[w][r].revision = runs[r].revision /\ claims' = claims
      /\ runs' = [runs EXCEPT ![r] = Transition(runs[r], change)]
      /\ \/ leases' = leases
         \/ leases' = [leases EXCEPT ![r] = Until(leases[r], 0, leases[r].available)]
  BY <1>1 DEF AdvanceClaim, TransitionAllowed, StoreTypeOK
<1>3. \A q \in Runs \ {r} : runs'[q] = runs[q] /\ leases'[q] = leases[q]
  BY <1>1, <1>2 DEF StoreTypeOK
<1>4. runs'[r].state = change.state
  BY <1>1, <1>2 DEF StoreTypeOK, Transition
<1>5. QED BY <1>2, <1>3, <1>4, CurrentState

\* The ordinary router is only asked for Runs without a target, and to collect.
LEMMA FallbackStep ==
    ASSUME BenchmarkInv, [BenchmarkNext]_benchmarkVars, NEW w \in Workers, NEW r \in Runs,
           Fallback(w, r)
    PROVE  BenchmarkInv'
<1>1. /\ Live(att[w][r]) /\ att[w][r].pc = "fallback" /\ Returns(w, r)
      /\ UNCHANGED <<res, exec, cluster, flight>>
  BY DEF Fallback, Calls, Live
<1>2. PICK change \in FallbackChanges(State(w, r)) : AdvanceClaim(w, r, change)
  BY DEF Fallback
<1>3. change.state \in States
  <2>1. change \in Changes
    BY FallbackChangesTyped, SMTT(30)
  <2>2. QED BY <2>1 DEF Changes
<1>4. /\ \A q \in Runs \ {r} : runs'[q] = runs[q] /\ leases'[q] = leases[q]
      /\ runs'[r].state = change.state /\ claims' = claims /\ State(w, r) = runs[r].state
  BY <1>2, <1>3, AdvanceWrites, SMTT(30)
<1>5. /\ res[r].stage \in {"absent", "released"}
         \/ (res[r].stage = "held" /\ State(w, r) = "COLLECTING")
      /\ Staging(runs[r].state, res[r])
  BY <1>1, Facts DEF Routed
<1>6. Staging(change.state, res[r])
  <2>1. change \in FallbackChanges(runs[r].state)
    BY <1>2, <1>4
  <2>2. CASE res[r].stage = "absent"
    <3>1. runs[r].state \in {"ABSENT", "CREATED", "VALIDATING", "PROVISIONING", "CANCELLING",
                             "INVALID", "INFRASTRUCTURE_FAILURE", "ABORTED"}
      BY <1>5, <2>2 DEF Staging
    <3>2. change.state \in {"VALIDATING", "PROVISIONING", "INVALID", "ABORTED"}
      BY <2>1, <3>1, SMTT(30) DEF FallbackChanges, Change, Failing
    <3>3. QED BY <2>2, <3>2 DEF Staging
  <2>3. CASE res[r].stage = "released"
    <3>1. runs[r].state \in {"ANALYZING", "REPORTING", "CANCELLING"} \union TerminalStates
      BY <1>5, <2>3 DEF Staging
    <3>2. change.state \in {"REPORTING", "INFRASTRUCTURE_FAILURE", "COMPLETED", "ABORTED"}
      BY <2>1, <3>1, SMTT(30) DEF FallbackChanges, Change, Failing, TerminalStates
    <3>3. QED BY <2>3, <3>2 DEF Staging, TerminalStates
  <2>4. CASE res[r].stage = "held" /\ runs[r].state = "COLLECTING"
    <3>1. change.state \in {"ANALYZING", "TEST_FAILURE"}
      BY <2>1, <2>4, SMTT(30) DEF FallbackChanges, Change, Failing
    <3>2. QED BY <2>4, <3>1 DEF Staging, TerminalStates
  <2>5. QED BY <1>4, <1>5, <2>2, <2>3, <2>4
<1>7. /\ res[r] \in Rows /\ res' = [res EXCEPT ![r] = res[r]]
      /\ Situation(res[r], cluster[r], flight[r]) /\ Faithful(exec[r], res[r], cluster[r])
  <2>1. Typed /\ Situation(res[r], cluster[r], flight[r]) /\ Faithful(exec[r], res[r], cluster[r])
    BY Facts
  <2>2. QED BY <1>1, <2>1 DEF Typed
<1>8. QED BY <1>1, <1>4, <1>6, <1>7, LastWrite

\* The executor moves its Run on while the target is held.
LEMMA BoundStep ==
    ASSUME BenchmarkInv, [BenchmarkNext]_benchmarkVars, NEW w \in Workers, NEW r \in Runs,
           Bound(w, r)
    PROVE  BenchmarkInv'
<1>1. /\ Live(att[w][r]) /\ att[w][r].pc = "bound" /\ Returns(w, r)
      /\ UNCHANGED <<res, exec, cluster, flight>>
  BY DEF Bound, Calls, Live
<1>2. CASE UNCHANGED storeVars
  BY <1>1, <1>2, ReturnStep
<1>3. ASSUME NEW change, AdvanceClaim(w, r, change),
             change.state \in {"INFRASTRUCTURE_FAILURE", "RUNNING", "COLLECTING"}
      PROVE  BenchmarkInv'
  <2>1. change.state \in States
    BY <1>3 DEF States, ActiveStates, TerminalStates
  <2>2. /\ \A q \in Runs \ {r} : runs'[q] = runs[q] /\ leases'[q] = leases[q]
        /\ runs'[r].state = change.state /\ claims' = claims
    BY <1>3, <2>1, AdvanceWrites, SMTT(30)
  <2>3. res[r].stage = "held"
    BY <1>1, Facts DEF Placed
  <2>4. Staging(change.state, res[r])
    BY <1>3, <2>3 DEF Staging, Executing, TerminalStates
  <2>5. /\ res[r] \in Rows /\ res' = [res EXCEPT ![r] = res[r]]
        /\ Situation(res[r], cluster[r], flight[r]) /\ Faithful(exec[r], res[r], cluster[r])
    <3>1. Typed /\ Situation(res[r], cluster[r], flight[r])
          /\ Faithful(exec[r], res[r], cluster[r])
      BY Facts
    <3>2. QED BY <1>1, <3>1 DEF Typed
  <2>6. QED BY <1>1, <2>2, <2>4, <2>5, LastWrite
<1>4. QED BY <1>2, <1>3, SMTT(30) DEF Bound, Change, Failing

\* The target is released when nothing of the Run is left, together with an outcome.
LEMMA FinishStep ==
    ASSUME BenchmarkInv, [BenchmarkNext]_benchmarkVars, NEW w \in Workers, NEW r \in Runs,
           FinishCleanup(w, r)
    PROVE  BenchmarkInv'
<1> DEFINE row == Staged(res[r], "released", res[r].drain, res[r].next)
<1>1. /\ Live(att[w][r]) /\ att[w][r].pc = "finish" /\ Returns(w, r)
      /\ UNCHANGED <<exec, cluster, flight>> /\ FreeTarget(w, r, Outcome(r))
      /\ res[r].stage = "fenced" /\ res[r].drain = 0
  BY DEF FinishCleanup, Affects, Calls, Live, Drained
<1>2. /\ Situation(res[r], cluster[r], flight[r]) /\ Staging(runs[r].state, res[r])
      /\ Faithful(exec[r], res[r], cluster[r]) /\ Typed /\ StoreTypeOK
      /\ res[r] \in Rows /\ flight[r] \in [Requests -> 0..RequestBound]
  BY Facts
<1>3. /\ ExecutorStopped(cluster[r]) /\ cluster[r].load = "none" /\ cluster[r].authority = {}
  BY <1>1, Facts DEF Placed
<1>4. \A q \in Requests : flight[r][q] = 0
  BY <1>1, <1>2, NothingOnItsWay
<1>5. row \in Rows /\ row.stage = "released"
  BY <1>2 DEF Staged, Rows
<1>6. res' = [res EXCEPT ![r] = row]
  BY <1>2, SMTT(30) DEF FinishCleanup, Typed
<1> HIDE DEF row
<1>7. Situation(row, cluster[r], flight[r])
  <2>1. Bare(cluster[r], flight[r]) /\ flight[r]["namespace"] = 0
    BY <1>3, <1>4 DEF Bare, Requests
  <2>2. QED BY <1>5, <2>1 DEF Situation
<1>8. Faithful(exec[r], row, cluster[r])
  BY <1>2, <1>5 DEF Faithful
<1>9. /\ \A q \in Runs \ {r} : runs'[q] = runs[q] /\ leases'[q] = leases[q]
      /\ claims' = claims
      /\ \/ runs'[r] = runs[r] /\ (Terminal(runs[r].state) \/ runs[r].state = Outcome(r).state)
         \/ runs'[r].state = Outcome(r).state
  <2>1. /\ claims' = claims
        /\ \/ leases' = leases
           \/ leases' = [leases EXCEPT ![r] = Until(leases[r], 0, leases[r].available)]
        /\ \/ runs' = runs /\ (Terminal(runs[r].state) \/ runs[r].state = Outcome(r).state)
           \/ runs' = [runs EXCEPT ![r] = Transition(runs[r], Outcome(r))]
    BY <1>1, <1>2 DEF FreeTarget, StoreTypeOK
  <2>2. \A q \in Runs \ {r} : runs'[q] = runs[q] /\ leases'[q] = leases[q]
    BY <1>2, <2>1 DEF StoreTypeOK
  <2>3. Transition(runs[r], Outcome(r)).state = Outcome(r).state
    BY SMTT(30) DEF Transition
  <2>4. QED BY <1>2, <2>1, <2>2, <2>3 DEF StoreTypeOK
<1>10. Outcome(r).state \in {"ANALYZING"} \union TerminalStates
  <2>1. res[r].next \in {"ANALYZING"} \union TerminalStates
    BY <1>1, <1>2 DEF Staging
  <2>2. QED BY <2>1, SMTT(30) DEF Outcome, Change, Failing, TerminalStates
<1>11. runs'[r].state \in {"ANALYZING"} \union TerminalStates
  BY <1>9, <1>10, TerminalIsTerminalStates DEF Terminal
<1>12. Staging(runs'[r].state, row)
  BY <1>5, <1>11 DEF Staging
<1>13. QED BY <1>1, <1>5, <1>6, <1>7, <1>8, <1>9, <1>12, LastWrite

-----------------------------------------------------------------------------
(* Failures, the engine, and time *)

\* An attempt that ends, in whatever way, leaves its Run in order.
LEMMA EndStep ==
    ASSUME BenchmarkInv, [BenchmarkNext]_benchmarkVars, NEW w \in Workers, NEW r \in Runs,
           NEW a \in Attempts, ~Live(a), Become(w, r, a), UNCHANGED <<runs, res, exec, cluster>>,
           \A v \in Workers, q \in Runs : v # w \/ q # r => claims'[v][q] = claims[v][q],
           \A q \in Runs \ {r} : leases'[q] = leases[q] /\ flight'[q] = flight[q],
           flight' \in [Runs -> [Requests -> 0..RequestBound]],
           Situation(res[r], cluster[r], flight'[r]),
           \A v \in Workers \ {w} :
              Live(att[v][r]) => leases'[r] = leases[r] /\ flight'[r] = flight[r]
    PROVE  BenchmarkInv'
<1>1. /\ Staging(runs[r].state, res[r]) /\ Faithful(exec[r], res[r], cluster[r]) /\ Typed
  BY Facts
<1>2. /\ att' \in [Workers -> [Runs -> Attempts]] /\ att'[w][r] = a
      /\ \A v \in Workers, q \in Runs : v # w \/ q # r => att'[v][q] = att[v][q]
  BY <1>1, SetAttempt
<1>3. Typed'
  BY <1>1, <1>2 DEF Typed
<1>4. \A q \in Runs \ {r} : Same(q)
  BY <1>2 DEF Same
<1>5. ASSUME NEW v \in Workers PROVE Fits(v, r)'
  <2>1. CASE v = w
    BY <1>2, <2>1 DEF Fits
  <2>2. CASE v # w
    <3>1. att'[v][r] = att[v][r] /\ claims'[v][r] = claims[v][r]
      BY <1>2, <2>2
    <3>2. Fits(v, r)
      BY DEF BenchmarkInv, InOrder
    <3>3. QED BY <2>2, <3>1, <3>2 DEF Fits, State
  <2>3. QED BY <2>1, <2>2
<1>6. InOrder(r)'
  BY <1>1, <1>5 DEF InOrder
<1>7. QED BY <1>3, <1>4, <1>6, LocalStep

\* A request that is left in flight is one of a target that is held.
LEMMA SentFields ==
    ASSUME BenchmarkInv, NEW w \in Workers, NEW r \in Runs, NEW q \in Sent(w, r)
    PROVE  /\ q \in Requests /\ Live(att[w][r])
           /\ Situation(res[r], cluster[r], InFlight(flight[r], q))
           /\ InFlight(flight[r], q) \in [Requests -> 0..RequestBound]
<1>1. /\ att[w][r].pc \in {"namespace", "quota", "job", "authority"}
      /\ q = "namespace" => att[w][r].pc = "namespace"
      /\ att[w][r].pc = "namespace" => q = "namespace"
      /\ q \in Requests
  BY ObjectsAssumption, SMTT(30) DEF Sent, Requests
<1>2. Live(att[w][r])
  BY <1>1 DEF Live
<1>3. res[r].stage = "held" /\ (q # "namespace" => cluster[r].namespace)
  <2>1. Placed(att[w][r], res[r], cluster[r], flight[r])
    BY <1>2, Facts
  <2>2. QED BY <1>1, <2>1 DEF Placed, Materialized
<1>4. PICK f \in [Requests -> 0..RequestBound] : f = flight[r]
  BY RowsTyped DEF BenchmarkInv
<1>5. RequestBound \in 0..RequestBound
  BY GraceAssumption, SMTT(30)
<1>6. /\ InFlight(f, q) \in [Requests -> 0..RequestBound]
      /\ \A p \in Requests : p # q => InFlight(f, q)[p] = f[p]
  BY <1>1, <1>5 DEF InFlight
<1>7. ~cluster[r].namespace => Bare(cluster[r], InFlight(f, q))
  <2>1. ~cluster[r].namespace => Bare(cluster[r], f)
    BY <1>4, Facts DEF Situation
  <2>2. QED BY <1>3, <1>6, <2>1 DEF Bare
<1>8. Situation(res[r], cluster[r], InFlight(f, q))
  BY <1>3, <1>7 DEF Situation
<1>9. QED BY <1>1, <1>2, <1>4, <1>6, <1>8

\* What an attempt that ends at an effect leaves in flight.
LEMMA LeftInFlight ==
    ASSUME BenchmarkInv, NEW w \in Workers, NEW r \in Runs,
           \/ UNCHANGED flight
           \/ \E q \in Sent(w, r) : flight' = [flight EXCEPT ![r] = InFlight(@, q)]
    PROVE  /\ flight' \in [Runs -> [Requests -> 0..RequestBound]]
           /\ \A q \in Runs \ {r} : flight'[q] = flight[q]
           /\ Situation(res[r], cluster[r], flight'[r])
           /\ \A v \in Workers \ {w} : Live(att[v][r]) => flight'[r] = flight[r]
<1>1. Typed /\ Situation(res[r], cluster[r], flight[r])
  BY Facts
<1>2. CASE UNCHANGED flight
  BY <1>1, <1>2 DEF Typed
<1>3. ASSUME NEW q \in Sent(w, r), flight' = [flight EXCEPT ![r] = InFlight(flight[r], q)]
      PROVE  /\ flight' \in [Runs -> [Requests -> 0..RequestBound]]
             /\ \A p \in Runs \ {r} : flight'[p] = flight[p]
             /\ Situation(res[r], cluster[r], flight'[r])
             /\ Live(att[w][r])
  <2>1. /\ Live(att[w][r]) /\ Situation(res[r], cluster[r], InFlight(flight[r], q))
        /\ InFlight(flight[r], q) \in [Requests -> 0..RequestBound]
    BY SentFields
  <2>2. /\ flight' \in [Runs -> [Requests -> 0..RequestBound]]
        /\ flight'[r] = InFlight(flight[r], q)
        /\ \A p \in Runs \ {r} : flight'[p] = flight[p]
    BY <1>1, <1>3, <2>1 DEF Typed
  <2>3. QED BY <2>1, <2>2
<1>4. QED BY <1>2, <1>3, OneAttempt

\* A call that fails ends the attempt.
LEMMA FailStep ==
    ASSUME BenchmarkInv, [BenchmarkNext]_benchmarkVars, NEW w \in Workers, NEW r \in Runs,
           Fail(w, r)
    PROVE  BenchmarkInv'
<1>1. /\ Become(w, r, Returned) /\ runs' = runs /\ leases' = leases /\ claims' = claims
      /\ res' = res /\ exec' = exec /\ cluster' = cluster
      /\ \/ UNCHANGED flight
         \/ \E q \in Sent(w, r) : flight' = [flight EXCEPT ![r] = InFlight(@, q)]
  BY DEF Fail, Returns, storeVars
<1>2. /\ flight' \in [Runs -> [Requests -> 0..RequestBound]]
      /\ \A q \in Runs \ {r} : flight'[q] = flight[q]
      /\ Situation(res[r], cluster[r], flight'[r])
      /\ \A v \in Workers \ {w} : Live(att[v][r]) => flight'[r] = flight[r]
  BY <1>1, LeftInFlight
<1>3. QED BY <1>1, <1>2, EndStep, ReturnedFields

\* A process that dies takes its attempt with it.
LEMMA DiesStep ==
    ASSUME BenchmarkInv, [BenchmarkNext]_benchmarkVars, NEW w \in Workers, NEW r \in Runs,
           Dies(w, r)
    PROVE  BenchmarkInv'
<1>1. /\ Become(w, r, Idle) /\ runs' = runs /\ leases' = leases
      /\ claims' = [claims EXCEPT ![w][r] = NoClaim]
      /\ res' = res /\ exec' = exec /\ cluster' = cluster
      /\ \/ UNCHANGED flight
         \/ \E q \in Sent(w, r) : flight' = [flight EXCEPT ![r] = InFlight(@, q)]
  BY DEF Dies, ForgetClaim
<1>2. /\ flight' \in [Runs -> [Requests -> 0..RequestBound]]
      /\ \A q \in Runs \ {r} : flight'[q] = flight[q]
      /\ Situation(res[r], cluster[r], flight'[r])
      /\ \A v \in Workers \ {w} : Live(att[v][r]) => flight'[r] = flight[r]
  BY <1>1, LeftInFlight
<1>3. \A v \in Workers, q \in Runs : v # w \/ q # r => claims'[v][q] = claims[v][q]
  <2>1. StoreTypeOK
    BY DEF BenchmarkInv, IInv
  <2>2. QED BY <1>1, <2>1, SetClaim, NoClaimTyped
<1>4. QED BY <1>1, <1>2, <1>3, EndStep, ReturnedFields

\* The engine gives the claim of a finished attempt back, or lets it go.
LEMMA EngineFinishesStep ==
    ASSUME BenchmarkInv, [BenchmarkNext]_benchmarkVars, NEW w \in Workers, NEW r \in Runs,
           EngineFinishes(w, r)
    PROVE  BenchmarkInv'
<1>1. /\ Become(w, r, Idle) /\ EndAttempt(w, r)
      /\ res' = res /\ exec' = exec /\ cluster' = cluster /\ flight' = flight
  BY DEF EngineFinishes
<1>2. /\ Typed /\ StoreTypeOK /\ Situation(res[r], cluster[r], flight[r])
  BY Facts
<1>3. /\ runs' = runs /\ claims' = [claims EXCEPT ![w][r] = NoClaim]
      /\ \/ leases' = leases
         \/ /\ leases[r].worker = w
            /\ \E delay \in 0..MaxDelay :
                 leases' = [leases EXCEPT ![r] = Until(leases[r], 0, delay)]
  BY <1>1 DEF EndAttempt, ReleaseClaim, ForgetClaim, Owned
<1>4. \A v \in Workers, q \in Runs : v # w \/ q # r => claims'[v][q] = claims[v][q]
  BY <1>2, <1>3, SetClaim, NoClaimTyped
<1>5. \A q \in Runs \ {r} : leases'[q] = leases[q]
  BY <1>2, <1>3 DEF StoreTypeOK
<1>6. \A v \in Workers : Live(att[v][r]) => leases[r].worker = v
  BY Facts DEF Leased
<1>7. \A v \in Workers \ {w} : Live(att[v][r]) => leases'[r] = leases[r]
  BY <1>3, <1>6
<1>8. flight' \in [Runs -> [Requests -> 0..RequestBound]]
  BY <1>1, <1>2 DEF Typed
<1>9. QED BY <1>1, <1>2, <1>3, <1>4, <1>5, <1>7, <1>8, EndStep, ReturnedFields, SMTT(30)

\* A step after which every Run is in order keeps the invariant.
LEMMA GlobalStep ==
    ASSUME BenchmarkInv, [BenchmarkNext]_benchmarkVars, Typed', \A r \in Runs : InOrder(r)'
    PROVE  BenchmarkInv'
<1>1. IInv /\ StoreTypeOK /\ HoldersExist
  BY DEF BenchmarkInv, IInv
<1>2. [Next]_storeVars
  BY <1>1, StepUsesStore
<1>3. IInv' /\ HoldersExist'
  BY <1>1, <1>2, TypeStep, SnapshotsStep, TokensStep, HoldersStay DEF IInv
<1>4. QED BY <1>3 DEF BenchmarkInv

\* A Run is claimed when its lease has run out, and the attempt that starts for it has the
\* lease for longer than its own deadline.
LEMMA TakenStep ==
    ASSUME BenchmarkInv, [BenchmarkNext]_benchmarkVars, NEW w \in Workers, Claim(w)
    PROVE  BenchmarkInv'
<1>1. PICK batch \in SUBSET Runs, kept \in SUBSET Runs, token \in [Runs -> Tokens] :
        /\ ClaimRuns(w, batch, kept, token)
        /\ att' = [att EXCEPT ![w] = [r \in Runs |-> IF r \in kept THEN Started ELSE @[r]]]
  BY DEF Claim
<1>2. /\ runs' = runs /\ kept \subseteq batch
      /\ leases' = [r \in Runs |-> IF r \in batch THEN Grant(w, token[r]) ELSE leases[r]]
      /\ \A r \in batch : leases[r].expires = 0
      /\ claims' = [claims EXCEPT ![w] =
                      [r \in Runs |-> IF r \in kept THEN Snapshot(r, token[r]) ELSE @[r]]]
  BY <1>1, SMTT(30) DEF ClaimRuns, LeaseBatch, Eligible
<1>3. res' = res /\ exec' = exec /\ cluster' = cluster /\ flight' = flight
  BY DEF Claim
<1>4. Typed /\ StoreTypeOK
  BY DEF BenchmarkInv, IInv
<1>5. /\ att' \in [Workers -> [Runs -> Attempts]]
      /\ \A v \in Workers, r \in Runs :
           att'[v][r] = IF v = w /\ r \in kept THEN Started ELSE att[v][r]
  BY <1>1, <1>4, ReturnedFields, SMTT(30) DEF Typed
<1>6. \A v \in Workers, r \in Runs : v # w \/ r \notin kept => claims'[v][r] = claims[v][r]
  BY <1>2, <1>4, SMTT(30) DEF StoreTypeOK
<1>7. Typed'
  BY <1>3, <1>4, <1>5 DEF Typed
<1>8. ASSUME NEW r \in Runs PROVE InOrder(r)'
  <2>1. CASE r \notin batch
    <3>1. Same(r)
      BY <1>2, <1>3, <1>5, <1>6, <2>1 DEF Same
    <3>2. QED BY <3>1, SameInOrder DEF BenchmarkInv
  <2>2. CASE r \in batch
    <3>1. ASSUME NEW v \in Workers PROVE Fits(v, r)'
      <4>1. ~Live(att[v][r])
        <5>1. leases[r].expires = 0
          BY <1>2, <2>2
        <5>2. Live(att[v][r]) => Leased(att[v][r], v, leases[r]) /\ att[v][r] \in Attempts
          BY Facts
        <5>3. QED BY <5>1, <5>2, SMTT(30) DEF Leased, Attempts
      <4>2. CASE v = w /\ r \in kept
        <5>1. /\ att'[v][r] = Started /\ Started.pc = "read" /\ Started.left = AttemptTimeout
          BY <1>5, <4>2, ReturnedFields
        <5>2. leases'[r].worker = w /\ leases'[r].expires = LeaseTTL
          BY <1>2, <2>2, GrantTyped, SMTT(30)
        <5>3. Leased(Started, w, leases'[r])
          BY <5>1, <5>2, AttemptAssumption, TTLAssumption, SMTT(30) DEF Leased
        <5>4. /\ Placed(Started, res[r], cluster[r], flight[r])
              /\ Routed(Started, State(w, r)', res[r]) /\ Binding(Started, exec[r], cluster[r])
          BY <5>1 DEF Placed, Routed, Binding, Unbound, Materialized
        <5>5. QED BY <1>3, <4>2, <5>1, <5>3, <5>4 DEF Fits
      <4>3. CASE ~(v = w /\ r \in kept)
        BY <1>5, <4>1, <4>3 DEF Fits
      <4>4. QED BY <4>2, <4>3
    <3>2. Situation(res[r], cluster[r], flight[r]) /\ Staging(runs[r].state, res[r])
          /\ Faithful(exec[r], res[r], cluster[r])
      BY Facts
    <3>3. QED BY <1>2, <1>3, <3>1, <3>2 DEF InOrder
  <2>3. QED BY <2>1, <2>2
<1>9. QED BY <1>7, <1>8, GlobalStep

\* Drain clock and requests run side by side.
LEMMA SpentLater ==
    ASSUME NEW left \in 0..RequestBound, NEW drain \in 0..Grace, Spent(left, drain)
    PROVE  Spent(TimeLeft(left), TimeLeft(drain))
BY GraceAssumption, SMTT(30) DEF Spent, TimeLeft

\* What an attempt that goes on a moment later keeps.
LEMMA LaterFields ==
    ASSUME NEW a \in Attempts
    PROVE  /\ Later(a) \in Attempts
           /\ Live(Later(a)) => /\ Live(a) /\ a.left # 1 /\ Later(a).left = TimeLeft(a.left)
                                /\ Later(a).pc = a.pc /\ Later(a).next = a.next
                                /\ Later(a).uid = a.uid /\ Later(a).todo = a.todo
<1>1. CASE a.left = 1
  BY <1>1, ReturnedFields DEF Later
<1>2. CASE a.left # 1
  <2>1. TimeLeft(a.left) \in 0..AttemptTimeout
    BY TimeLeftTyped, AttemptAssumption, SMTT(30) DEF Attempts
  <2>2. Later(a) = [a EXCEPT !.left = TimeLeft(a.left)]
    BY <1>2 DEF Later
  <2>3. LET b == [a EXCEPT !.left = TimeLeft(a.left)] IN
        /\ b \in Attempts /\ b.left = TimeLeft(a.left) /\ b.pc = a.pc /\ b.next = a.next
        /\ b.uid = a.uid /\ b.todo = a.todo
    BY <2>1 DEF Attempts
  <2>4. QED BY <1>2, <2>2, <2>3 DEF Live
<1>3. QED BY <1>1, <1>2

\* Time takes nothing from what is known of a Run, and lets what is in flight expire no later
\* than the drain clock.
LEMMA LaterSituation ==
    ASSUME NEW row \in Rows, NEW later \in Rows, NEW c \in Clusters,
           NEW f \in [Requests -> 0..RequestBound], NEW g \in [Requests -> 0..RequestBound],
           later.stage = row.stage, later.next = row.next, later.drain = TimeLeft(row.drain),
           \A q \in Requests : g[q] = TimeLeft(f[q])
    PROVE  /\ Situation(row, c, f) => Situation(later, c, g)
           /\ \A state : Staging(state, row) => Staging(state, later)
           /\ \A e : Faithful(e, row, c) => Faithful(e, later, c)
           /\ Barred(c, f) => Barred(c, g)
           /\ row.drain = 0 => later.drain = 0
<1>1. TimeLeft(0) = 0
  BY SMTT(30) DEF TimeLeft
<1>2. Bare(c, f) => Bare(c, g)
  BY <1>1 DEF Bare
<1>3. Barred(c, f) => Barred(c, g)
  BY <1>2 DEF Barred
<1>4. ASSUME NEW q \in Requests, Spent(f[q], row.drain) PROVE Spent(g[q], later.drain)
  <2>1. f[q] \in 0..RequestBound /\ row.drain \in 0..Grace
    BY DEF Rows
  <2>2. QED BY <1>4, <2>1, SpentLater
<1>5. "namespace" \in Requests /\ "pod" \in Requests
  BY DEF Requests
<1>6. Situation(row, c, f) => Situation(later, c, g)
  BY <1>1, <1>2, <1>3, <1>4, <1>5 DEF Situation
<1>7. /\ \A state : Staging(state, row) => Staging(state, later)
      /\ \A e : Faithful(e, row, c) => Faithful(e, later, c)
  BY DEF Staging, Faithful
<1>8. QED BY <1>1, <1>3, <1>6, <1>7

\* Time takes nothing from what an attempt relies on, and its deadline comes before that of
\* the lease.
LEMMA LaterFits ==
    ASSUME BenchmarkInv, NEW w \in Workers, NEW r \in Runs, NEW later \in Rows,
           NEW g \in [Requests -> 0..RequestBound], Live(Later(att[w][r])),
           later.stage = res[r].stage, res[r].drain = 0 => later.drain = 0,
           Barred(cluster[r], flight[r]) => Barred(cluster[r], g)
    PROVE  LET a == Later(att[w][r])
               l == Until(leases[r], TimeLeft(leases[r].expires), TimeLeft(leases[r].available))
           IN  /\ Leased(a, w, l) /\ Placed(a, later, cluster[r], g)
               /\ Routed(a, State(w, r), later) /\ Binding(a, exec[r], cluster[r])
<1> DEFINE a == Later(att[w][r])
           l == Until(leases[r], TimeLeft(leases[r].expires), TimeLeft(leases[r].available))
<1>1. att[w][r] \in Attempts /\ StoreTypeOK
  BY Facts
<1>2. /\ Live(att[w][r]) /\ att[w][r].left # 1 /\ a.left = TimeLeft(att[w][r].left)
      /\ a.pc = att[w][r].pc /\ a.next = att[w][r].next /\ a.uid = att[w][r].uid
      /\ a.todo = att[w][r].todo
  BY <1>1, LaterFields
<1> HIDE DEF a
<1>3. /\ Leased(att[w][r], w, leases[r])
      /\ Placed(att[w][r], res[r], cluster[r], flight[r])
      /\ Routed(att[w][r], State(w, r), res[r])
      /\ Binding(att[w][r], exec[r], cluster[r])
  BY <1>2, Facts
<1>4. Leased(a, w, l)
  <2>1. att[w][r].left \in Nat /\ leases[r].expires \in Nat
    BY <1>1, LeaseTyped, SMTT(30) DEF Attempts
  <2>2. l.worker = leases[r].worker /\ l.expires = TimeLeft(leases[r].expires)
    BY UntilFields, SMTT(30)
  <2>3. /\ att[w][r].left > 0 /\ att[w][r].left < leases[r].expires /\ leases[r].worker = w
        /\ att[w][r].left # 1 /\ a.left = TimeLeft(att[w][r].left)
    BY <1>2, <1>3 DEF Leased
  <2>4. QED BY <2>1, <2>2, <2>3, SMTT(30) DEF Leased, TimeLeft
<1>5. Placed(a, later, cluster[r], g)
  BY <1>2, <1>3 DEF Placed
<1>6. Routed(a, State(w, r), later) /\ Binding(a, exec[r], cluster[r])
  BY <1>2, <1>3 DEF Routed, Binding
<1>7. QED BY <1>4, <1>5, <1>6 DEF a

\* Time passes.
LEMMA ElapseStep ==
    ASSUME BenchmarkInv, [BenchmarkNext]_benchmarkVars, Elapse
    PROVE  BenchmarkInv'
<1>1. /\ leases' = LeasesAfterTick
      /\ att' = [w \in Workers |-> [r \in Runs |-> Later(att[w][r])]]
      /\ res' = [r \in Runs |-> Staged(res[r], res[r].stage, TimeLeft(res[r].drain), res[r].next)]
      /\ flight' = [r \in Runs |-> [q \in Requests |-> TimeLeft(flight[r][q])]]
      /\ runs' = runs /\ claims' = claims /\ exec' = exec /\ cluster' = cluster
  BY DEF Elapse
<1>2. ASSUME NEW r \in Runs
      PROVE  /\ res'[r] \in Rows /\ res'[r].stage = res[r].stage /\ res'[r].next = res[r].next
             /\ res'[r].drain = TimeLeft(res[r].drain)
  <2>1. res[r] \in Rows /\ res[r].drain \in 0..Grace
    BY RowsTyped DEF BenchmarkInv, Rows
  <2>2. TimeLeft(res[r].drain) \in 0..Grace
    BY <2>1, TimeLeftTyped, GraceAssumption, SMTT(30)
  <2>3. res'[r] = Staged(res[r], res[r].stage, TimeLeft(res[r].drain), res[r].next)
    BY <1>1
  <2>4. QED BY <2>1, <2>2, <2>3, SMTT(30) DEF Staged, Rows
<1>3. ASSUME NEW r \in Runs
      PROVE  /\ flight'[r] \in [Requests -> 0..RequestBound]
             /\ \A q \in Requests : flight'[r][q] = TimeLeft(flight[r][q])
  <2>1. flight[r] \in [Requests -> 0..RequestBound]
    BY RowsTyped DEF BenchmarkInv
  <2>2. flight'[r] = [q \in Requests |-> TimeLeft(flight[r][q])]
    BY <1>1
  <2>3. ASSUME NEW q \in Requests PROVE TimeLeft(flight[r][q]) \in 0..RequestBound
    BY <2>1, TimeLeftTyped, GraceAssumption, SMTT(30)
  <2>4. QED BY <2>2, <2>3
<1>4. Typed'
  <2>1. Typed
    BY DEF BenchmarkInv
  <2>2. att' \in [Workers -> [Runs -> Attempts]]
    BY <1>1, <2>1, LaterFields, RowsTyped
  <2>3. res' \in [Runs -> Rows] /\ flight' \in [Runs -> [Requests -> 0..RequestBound]]
    BY <1>1, <1>2, <1>3, SMTT(30)
  <2>4. QED BY <1>1, <2>1, <2>2, <2>3 DEF Typed
<1>5. ASSUME NEW r \in Runs PROVE InOrder(r)'
  <2>1. /\ Situation(res[r], cluster[r], flight[r]) /\ Staging(runs[r].state, res[r])
        /\ Faithful(exec[r], res[r], cluster[r])
        /\ res[r] \in Rows /\ cluster[r] \in Clusters
        /\ flight[r] \in [Requests -> 0..RequestBound]
    BY Facts
  <2>2. /\ Situation(res'[r], cluster[r], flight'[r]) /\ Staging(runs[r].state, res'[r])
        /\ Faithful(exec[r], res'[r], cluster[r])
        /\ Barred(cluster[r], flight[r]) => Barred(cluster[r], flight'[r])
        /\ res[r].drain = 0 => res'[r].drain = 0
    <3>1. /\ res'[r] \in Rows /\ res'[r].stage = res[r].stage /\ res'[r].next = res[r].next
          /\ res'[r].drain = TimeLeft(res[r].drain)
      BY <1>2
    <3>2. /\ flight'[r] \in [Requests -> 0..RequestBound]
          /\ \A q \in Requests : flight'[r][q] = TimeLeft(flight[r][q])
      BY <1>3
    <3>3. QED BY <2>1, <3>1, <3>2, LaterSituation, SMTT(30)
  <2>3. ASSUME NEW w \in Workers PROVE Fits(w, r)'
    <3>1. /\ att'[w][r] = Later(att[w][r])
          /\ leases'[r] = Until(leases[r], TimeLeft(leases[r].expires), TimeLeft(leases[r].available))
          /\ State(w, r)' = State(w, r)
      BY <1>1 DEF LeasesAfterTick, State
    <3>2. CASE Live(Later(att[w][r]))
      <4>1. /\ Leased(att'[w][r], w, leases'[r])
            /\ Placed(att'[w][r], res'[r], cluster[r], flight'[r])
            /\ Routed(att'[w][r], State(w, r), res'[r])
            /\ Binding(att'[w][r], exec[r], cluster[r])
        BY <1>2, <1>3, <2>2, <3>1, <3>2, LaterFits
      <4>2. QED BY <1>1, <3>1, <4>1 DEF Fits
    <3>3. CASE ~Live(Later(att[w][r]))
      BY <3>1, <3>3 DEF Fits
    <3>4. QED BY <3>2, <3>3
  <2>4. QED BY <1>1, <2>2, <2>3 DEF InOrder
<1>6. QED BY <1>4, <1>5, GlobalStep

\* Clients create a Run that has nothing yet, and cancel Runs in any stage of their cleanup.
LEMMA ClientsStep ==
    ASSUME BenchmarkInv, [BenchmarkNext]_benchmarkVars, Clients
    PROVE  BenchmarkInv'
<1>1. PICK r \in Runs : Accept(r) \/ Cancel(r)
  BY DEF Clients
<1>2. /\ att' = att /\ res' = res /\ exec' = exec /\ cluster' = cluster /\ flight' = flight
      /\ leases' = leases /\ claims' = claims
  BY <1>1 DEF Clients, Accept, Cancel
<1>3. /\ Typed /\ StoreTypeOK /\ Staging(runs[r].state, res[r])
      /\ Situation(res[r], cluster[r], flight[r]) /\ Faithful(exec[r], res[r], cluster[r])
      /\ res[r] \in Rows
  BY Facts
<1>4. runs[r] \in RunRecords
  BY <1>3 DEF StoreTypeOK
<1>5. Staging(runs'[r].state, res[r])
  <2>1. CASE Accept(r)
    <3>1. runs[r].state = "ABSENT"
      BY <2>1, SMTT(30) DEF Accept, Absent
    <3>2. res[r].stage = "absent"
      BY <1>3, <3>1, SMTT(30) DEF Staging, Rows, Executing, TerminalStates
    <3>3. runs'[r].state = "CREATED"
      BY <1>3, <2>1, SMTT(30) DEF Accept, StoreTypeOK
    <3>4. QED BY <3>2, <3>3 DEF Staging
  <2>2. CASE Cancel(r)
    <3>1. CancellationAllowed(runs[r]) /\ runs'[r] = RequestCancellation(runs[r])
      BY <1>3, <2>2 DEF Cancel, StoreTypeOK
    <3>2. \/ runs'[r] = runs[r]
          \/ runs'[r].state = CancellationTarget(runs[r].state)
      BY <1>4, <3>1, CancellationResult
    <3>3. runs'[r].state \in {runs[r].state, "ABORTED", "CANCELLING"}
      BY <3>2 DEF CancellationTarget
    <3>4. "ABORTED" \in TerminalStates \ {"COMPLETED"}
      BY DEF TerminalStates
    <3>5. QED BY <1>3, <3>3, <3>4 DEF Staging
  <2>3. QED BY <1>1, <2>1, <2>2
<1>6. \A q \in Runs \ {r} : runs'[q] = runs[q]
  BY <1>1, <1>3 DEF Accept, Cancel, StoreTypeOK
<1>7. \A q \in Runs \ {r} : Same(q)
  BY <1>2, <1>6 DEF Same
<1>8. \A w \in Workers : Fits(w, r)'
  BY <1>2 DEF BenchmarkInv, InOrder, Fits, State
<1>9. InOrder(r)'
  BY <1>2, <1>3, <1>5, <1>8 DEF InOrder
<1>10. Typed'
  BY <1>2, <1>3 DEF Typed
<1>11. QED BY <1>7, <1>9, <1>10, LocalStep

-----------------------------------------------------------------------------
(* The theorems *)

\* At the start nothing has happened to any Run.
LEMMA BenchmarkStarts == BenchmarkInit => BenchmarkInv
<1> SUFFICES ASSUME BenchmarkInit PROVE BenchmarkInv
  BY SMTT(30)
<1>1. Init /\ IInv /\ HoldersExist
  BY InitIInv, SMTT(30) DEF BenchmarkInit, Init, HoldersExist
<1>2. NoReservation \in Rows /\ Empty \in Clusters /\ 0 \in 0..MaxUid /\ 0 \in 0..RequestBound
  BY GraceAssumption, MaxUidAssumption, SMTT(30)
  DEF NoReservation, Rows, Empty, Clusters, Names
<1>3. /\ att = [w \in Workers |-> [r \in Runs |-> Idle]] /\ res = [r \in Runs |-> NoReservation]
      /\ exec = [r \in Runs |-> NoUid] /\ cluster = [r \in Runs |-> Empty]
      /\ flight = [r \in Runs |-> [q \in Requests |-> 0]]
      /\ \A r \in Runs : runs[r].state = "ABSENT"
  BY SMTT(30) DEF BenchmarkInit, Init, Absent
<1>4. Typed
  BY <1>2, <1>3, ReturnedFields, SMTT(30) DEF Typed, NoUid
<1>5. ASSUME NEW r \in Runs PROVE InOrder(r)
  <2>1. /\ res[r] = NoReservation /\ exec[r] = NoUid /\ cluster[r] = Empty
        /\ \A q \in Requests : flight[r][q] = 0
        /\ \A w \in Workers : ~Live(att[w][r])
    BY <1>3, ReturnedFields, SMTT(30)
  <2>2. /\ NoReservation.stage = "absent" /\ Empty.authority = {} /\ Empty.load = "none"
        /\ ExecutorStopped(Empty) /\ "namespace" \in Requests
    BY SMTT(30) DEF NoReservation, Empty, ExecutorStopped, Jobs, Requests
  <2>3. Situation(res[r], cluster[r], flight[r])
    BY <2>1, <2>2 DEF Situation, Bare
  <2>4. Staging(runs[r].state, res[r]) /\ Faithful(exec[r], res[r], cluster[r])
    BY <1>3, <2>1, <2>2 DEF Staging, Faithful
  <2>5. QED BY <2>1, <2>3, <2>4 DEF InOrder, Fits
<1>6. QED BY <1>1, <1>4, <1>5 DEF BenchmarkInv

\* Every call of the reconciler keeps the invariant.
LEMMA ReconcilerStep ==
    ASSUME BenchmarkInv, [BenchmarkNext]_benchmarkVars, NEW w \in Workers, NEW r \in Runs,
           Call(w, r)
    PROVE  BenchmarkInv'
<1>1. CASE Read(w, r) \/ Fallback(w, r) \/ Observe(w, r) \/ Bound(w, r)
  BY <1>1, ReadStep, FallbackStep, ObserveStep, BoundStep
<1>2. CASE Fence(w, r) \/ Qualify(w, r) \/ ReserveBenchmark(w, r) \/ Materialize(w, r)
  BY <1>2, FenceStep, QualifyStep, ReserveStep, MaterializeStep
<1>3. CASE EnsureNamespace(w, r) \/ EnsureResources(w, r) \/ EnsureJob(w, r)
  BY <1>3, NamespaceStep, ResourcesStep, JobStep
<1>4. CASE RecoverJob(w, r) \/ BindExecution(w, r) \/ BeginCleanup(w, r) \/ Inspect(w, r)
  BY <1>4, RecoverStep, BindStep, BeginCleanupStep, InspectStep
<1>5. CASE BindCleanupNamespace(w, r) \/ CloseTarget(w, r) \/ StopExecutor(w, r)
           \/ RecordFence(w, r)
  BY <1>5, BindCleanupStep, CloseStep, StopStep, RecordStep
<1>6. CASE Verify(w, r) \/ CleanPods(w, r) \/ Revoke(w, r) \/ Reverify(w, r)
           \/ FinishCleanup(w, r)
  BY <1>6, VerifyStep, CleanPodsStep, RevokeStep, ReverifyStep, FinishStep
<1>7. QED BY <1>1, <1>2, <1>3, <1>4, <1>5, <1>6 DEF Call

\* Every step of the cluster does.
LEMMA ClusterKeeps ==
    ASSUME BenchmarkInv, [BenchmarkNext]_benchmarkVars, NEW r \in Runs, Cluster(r)
    PROVE  BenchmarkInv'
<1>1. CASE CreatesLoad(r)
  <2>1. CASE UNCHANGED flight
    BY <1>1, <2>1, ControllersStep
  <2>2. CASE UNCHANGED cluster
    BY <1>1, <2>2, LetInStep
  <2>3. QED BY <1>1, <2>1, <2>2 DEF CreatesLoad
<1>2. CASE ExecutorRuns(r) \/ LoadEnds(r) \/ Settles(r) \/ Evicts(r)
  BY <1>2, ControllersStep
<1>3. CASE Lands(r)
  BY <1>3, LandsStep
<1>4. QED BY <1>1, <1>2, <1>3 DEF Cluster

\* Every step of the system keeps the invariant.
LEMMA BenchmarkStep ==
    ASSUME BenchmarkInv, [BenchmarkNext]_benchmarkVars
    PROVE  BenchmarkInv'
<1>1. CASE UNCHANGED benchmarkVars
  <2>1. /\ \A r \in Runs : Same(r)
        /\ att' = att /\ res' = res /\ exec' = exec /\ cluster' = cluster /\ flight' = flight
    BY <1>1 DEF benchmarkVars, Same
  <2>2. Typed'
    BY <2>1 DEF BenchmarkInv, Typed
  <2>3. \A r \in Runs : InOrder(r)'
    BY <2>1, SameInOrder DEF BenchmarkInv
  <2>4. QED BY <2>2, <2>3, GlobalStep
<1>2. ASSUME NEW w \in Workers, NEW r \in Runs, Engine(w, r) PROVE BenchmarkInv'
  BY <1>2, EngineRenewsStep, EngineFinishesStep, DiesStep DEF Engine
<1>3. ASSUME NEW w \in Workers, NEW r \in Runs, Call(w, r) \/ Fail(w, r) PROVE BenchmarkInv'
  BY <1>3, ReconcilerStep, FailStep
<1>4. ASSUME NEW w \in Workers, Claim(w) PROVE BenchmarkInv'
  BY <1>4, TakenStep
<1>5. ASSUME NEW r \in Runs, Cluster(r) PROVE BenchmarkInv'
  BY <1>5, ClusterKeeps
<1>6. CASE Clients
  BY <1>6, ClientsStep
<1>7. CASE Elapse
  BY <1>7, ElapseStep
<1>8. QED BY <1>1, <1>2, <1>3, <1>4, <1>5, <1>6, <1>7 DEF BenchmarkNext

\* The invariant behind the theorems below: what the stage of a reservation says of the
\* cluster, of the requests in flight and of the Run, and what an attempt relies on at each
\* of its calls.
THEOREM BenchmarkInvariant == BenchmarkSpec => []BenchmarkInv
BY BenchmarkStarts, BenchmarkStep, PTL DEF BenchmarkSpec

\* What the reconciler promises of the target: a Run that has not reserved it, and one whose
\* cleanup has released it, executes nothing, has no authority, and nothing sent for it can
\* still be executed, however attempts fail, die or are overtaken, and however late (within
\* the grace period) the cluster executes their requests.
THEOREM TargetIsCleanUnlessHeld == BenchmarkSpec => []CleanUnlessHeld
<1>1. ASSUME BenchmarkInv, NEW r \in Runs, ~Active(r)
      PROVE  /\ ExecutorStopped(cluster[r]) /\ cluster[r].load = "none"
             /\ cluster[r].authority = {} /\ \A q \in Requests : flight[r][q] = 0
  <2>1. Situation(res[r], cluster[r], flight[r]) /\ res[r] \in Rows
    BY <1>1, Facts
  <2>2. res[r].stage \in {"absent", "released"}
    BY <1>1, <2>1 DEF Active, Rows
  <2>3. QED BY <2>1, <2>2 DEF Situation, Bare
<1>2. BenchmarkInv => CleanUnlessHeld
  BY <1>1 DEF CleanUnlessHeld
<1>3. QED BY <1>2, BenchmarkInvariant, PTL

\* Something of the Run executes on the target, may execute there, or can still be sent to it.
Uses(r) ==
    \/ ~ExecutorStopped(cluster[r])
    \/ cluster[r].load # "none"
    \/ cluster[r].authority # {}
    \/ \E q \in Requests : flight[r][q] # 0

\* So two Runs never use a target at the same time, although the lease of the first may be long
\* over when the second reserves it (postgres/benchmark_reservations.go, docs/decisions/0007).
THEOREM TargetIsUsedByOne ==
    BenchmarkSpec => [](\A r, q \in Runs : Uses(r) /\ Uses(q) => r = q)
<1>1. CleanUnlessHeld /\ OneHolder => \A r, q \in Runs : Uses(r) /\ Uses(q) => r = q
  BY DEF CleanUnlessHeld, OneHolder, Uses
<1>2. QED BY <1>1, TargetIsCleanUnlessHeld, TargetHasOneHolder, PTL

\* Evidence is collected before cleanup, and analyzed after it: DecideBenchmark keeps a
\* COLLECTING Run on the target, and a Run leaves ANALYZING only when it has released it.
THEOREM CleanupComesBetween == BenchmarkSpec => []CleanupBetweenCollectionAndAnalysis
<1>1. ASSUME BenchmarkInv, NEW r \in Runs
      PROVE  /\ runs[r].state = "COLLECTING" => res[r].stage = "held"
             /\ runs[r].state \in {"REPORTING", "COMPLETED"} => res[r].stage = "released"
  <2>1. Staging(runs[r].state, res[r]) /\ res[r] \in Rows
    BY <1>1, Facts
  <2>2. QED BY <2>1, SMTT(30) DEF Staging, Rows, Executing, TerminalStates
<1>2. BenchmarkInv => CleanupBetweenCollectionAndAnalysis
  BY <1>1 DEF CleanupBetweenCollectionAndAnalysis
<1>3. QED BY <1>2, BenchmarkInvariant, PTL

\* Nothing is done for the Run that could replace its bound Job.
Untouched(r) ==
    /\ exec'[r] = exec[r]
    /\ flight'[r]["job"] <= flight[r]["job"]
    /\ cluster'[r].uid = cluster[r].uid \/ flight[r]["job"] > 0

\* A step that leaves the executions, the Jobs and the requests of a Run alone.
LEMMA UntouchedWhenSame ==
    ASSUME BenchmarkInv, NEW q \in Runs, exec'[q] = exec[q], flight'[q] = flight[q],
           cluster'[q].uid = cluster[q].uid
    PROVE  Untouched(q)
<1>1. PICK f \in [Requests -> 0..RequestBound] : f = flight[q]
  BY Facts
<1>2. f["job"] \in 0..RequestBound
  BY <1>1 DEF Requests
<1>3. f["job"] <= f["job"]
  BY <1>2, GraceAssumption, SMTT(30)
<1>4. QED BY <1>1, <1>3 DEF Untouched

\* A call of an attempt: EnsureJob and BindExecution are for a Run that has no bound Job.
LEMMA UntouchedByCall ==
    ASSUME BenchmarkInv, NEW w \in Workers, NEW r \in Runs, Call(w, r),
           NEW q \in Runs, exec[q] # NoUid
    PROVE  Untouched(q)
<1>1. cluster \in [Runs -> Clusters] /\ exec \in [Runs -> 0..MaxUid]
  BY DEF BenchmarkInv, Typed
<1>2. ASSUME NEW c, cluster' = [cluster EXCEPT ![r] = c], c.uid = cluster[r].uid \/ q # r,
             UNCHANGED <<exec, flight>>
      PROVE  Untouched(q)
  <2>1. cluster'[q].uid = cluster[q].uid
    BY <1>1, <1>2
  <2>2. QED BY <1>2, <2>1, UntouchedWhenSame
<1>3. ASSUME UNCHANGED <<cluster, exec, flight>> PROVE Untouched(q)
  BY <1>3, UntouchedWhenSame
<1>4. CASE EnsureJob(w, r)
  <2>1. exec[r] = NoUid
    BY <1>4, Facts DEF EnsureJob, Affects, Calls, Live, Binding, Unbound, Materialized
  <2>2. q # r BY <2>1
  <2>3. QED BY <1>2, <1>4, <2>2 DEF EnsureJob
<1>5. CASE BindExecution(w, r)
  <2>1. exec[r] = NoUid
    BY <1>5, Facts DEF BindExecution, Calls, Live, Binding
  <2>2. exec'[q] = exec[q]
    BY <1>1, <1>5, <2>1 DEF BindExecution
  <2>3. cluster' = cluster /\ flight' = flight
    BY <1>5 DEF BindExecution
  <2>4. QED BY <2>2, <2>3, UntouchedWhenSame
<1>6. CASE \/ EnsureNamespace(w, r) \/ EnsureResources(w, r) \/ CloseTarget(w, r)
           \/ StopExecutor(w, r) \/ CleanPods(w, r) \/ Revoke(w, r) \/ Reverify(w, r)
  <2>1. PICK c \in Clusters : c = cluster[r]
    BY <1>1
  <2>2. /\ UNCHANGED <<exec, flight>>
        /\ \/ UNCHANGED cluster
           \/ cluster' = [cluster EXCEPT ![r] = [c EXCEPT !.namespace = TRUE]]
           \/ \E x : \/ cluster' = [cluster EXCEPT ![r] = [c EXCEPT !.quota = x]]
                    \/ cluster' = [cluster EXCEPT ![r] = [c EXCEPT !.authority = x]]
                    \/ cluster' = [cluster EXCEPT ![r] = [c EXCEPT !.job = x]]
                    \/ cluster' = [cluster EXCEPT ![r] = [c EXCEPT !.load = x]]
    <3>1. UNCHANGED <<exec, flight>>
      BY <1>6 DEF EnsureNamespace, EnsureResources, CloseTarget, StopExecutor, CleanPods,
                  Revoke, Reverify
    <3>2. CASE EnsureNamespace(w, r) \/ EnsureResources(w, r)
      BY <1>1, <2>1, <3>1, <3>2 DEF EnsureNamespace, EnsureResources
    <3>3. CASE CloseTarget(w, r) \/ StopExecutor(w, r)
      BY <1>1, <2>1, <3>1, <3>3 DEF CloseTarget, StopExecutor
    <3>4. CASE CleanPods(w, r) \/ Revoke(w, r) \/ Reverify(w, r)
      BY <1>1, <2>1, <3>1, <3>4 DEF CleanPods, Revoke, Reverify
    <3>5. QED BY <1>6, <3>2, <3>3, <3>4
  <2>3. \A x : /\ [c EXCEPT !.namespace = TRUE].uid = c.uid
               /\ [c EXCEPT !.quota = x].uid = c.uid
               /\ [c EXCEPT !.authority = x].uid = c.uid
               /\ [c EXCEPT !.job = x].uid = c.uid
               /\ [c EXCEPT !.load = x].uid = c.uid
    BY DEF Clusters
  <2>4. QED BY <1>2, <1>3, <2>1, <2>2, <2>3
<1>7. CASE \/ Read(w, r) \/ Fallback(w, r) \/ Observe(w, r) \/ Bound(w, r) \/ Fence(w, r)
           \/ Qualify(w, r) \/ ReserveBenchmark(w, r) \/ Materialize(w, r) \/ RecoverJob(w, r)
  BY <1>3, <1>7 DEF Read, Fallback, Observe, Bound, Fence, Qualify, ReserveBenchmark,
                    Materialize, RecoverJob
<1>8. CASE \/ BeginCleanup(w, r) \/ Inspect(w, r) \/ BindCleanupNamespace(w, r)
           \/ RecordFence(w, r) \/ Verify(w, r) \/ FinishCleanup(w, r)
  BY <1>3, <1>8 DEF BeginCleanup, Inspect, BindCleanupNamespace, RecordFence, Verify,
                    FinishCleanup
<1>9. QED BY <1>4, <1>5, <1>6, <1>7, <1>8 DEF Call

\* What an attempt that ends at an effect leaves in flight: a request for a Job only when
\* the Run has no bound one.
LEMMA UntouchedByLeavings ==
    ASSUME BenchmarkInv, NEW w \in Workers, NEW r \in Runs, NEW q \in Runs, exec[q] # NoUid,
           UNCHANGED <<exec, cluster>>,
           \/ UNCHANGED flight
           \/ \E p \in Sent(w, r) : flight' = [flight EXCEPT ![r] = InFlight(@, p)]
    PROVE  Untouched(q)
<1>1. CASE UNCHANGED flight \/ q # r
  <2>1. flight'[q] = flight[q]
    BY <1>1, LeftInFlight
  <2>2. QED BY <2>1, UntouchedWhenSame
<1>2. ASSUME q = r, NEW p \in Sent(w, r), flight' = [flight EXCEPT ![r] = InFlight(@, p)]
      PROVE  Untouched(q)
  <2>1. p # "job"
    <3>1. p = "job" => att[w][r].pc = "job"
      BY <1>2, ObjectsAssumption, SMTT(30) DEF Sent
    <3>2. att[w][r].pc = "job" => exec[r] = NoUid
      BY Facts DEF Live, Binding, Unbound, Materialized
    <3>3. QED BY <1>2, <3>1, <3>2
  <2>2. PICK f \in [Requests -> 0..RequestBound] : f = flight[r]
    BY Facts
  <2>3. "job" \in Requests /\ f["job"] \in 0..RequestBound
    BY <2>2 DEF Requests
  <2>4. flight'[r] = InFlight(f, p)
    BY <1>2, <2>2, Facts DEF Typed
  <2>5. flight'[r]["job"] = f["job"]
    BY <2>1, <2>3, <2>4 DEF InFlight
  <2>6. f["job"] <= f["job"]
    BY <2>3, GraceAssumption, SMTT(30)
  <2>7. QED BY <1>2, <2>2, <2>5, <2>6 DEF Untouched
<1>3. QED BY <1>1, <1>2

\* The cluster: a Job is created by a request that was in flight.
LEMMA UntouchedByCluster ==
    ASSUME BenchmarkInv, NEW r \in Runs, Cluster(r), NEW q \in Runs
    PROVE  Untouched(q)
<1>1. cluster \in [Runs -> Clusters] /\ flight \in [Runs -> [Requests -> 0..RequestBound]]
  BY DEF BenchmarkInv, Typed
<1>2. PICK c \in Clusters, f \in [Requests -> 0..RequestBound] : c = cluster[r] /\ f = flight[r]
  BY <1>1
<1>3. "job" \in Requests /\ "pod" \in Requests /\ f["job"] \in 0..RequestBound
  BY <1>2 DEF Requests
<1>4. 0 <= f["job"] /\ f["job"] <= f["job"]
  BY <1>3, GraceAssumption, SMTT(30)
<1>5. exec' = exec
  BY DEF Cluster, Lands, ExecutorRuns, CreatesLoad, LoadEnds, Settles, Evicts
<1>6. ASSUME NEW d, NEW g, cluster' = [cluster EXCEPT ![r] = d],
             flight' = [flight EXCEPT ![r] = g], d.uid = c.uid \/ f["job"] > 0,
             g["job"] \in {0, f["job"]}
      PROVE  Untouched(q)
  <2>1. CASE q = r
    BY <1>1, <1>2, <1>4, <1>5, <1>6, <2>1 DEF Untouched
  <2>2. CASE q # r
    BY <1>1, <1>5, <1>6, <2>2, UntouchedWhenSame
  <2>3. QED BY <2>1, <2>2
<1>7. ASSUME NEW d, d.uid = c.uid, cluster' = [cluster EXCEPT ![r] = d], UNCHANGED flight
      PROVE  Untouched(q)
  <2>1. cluster'[q].uid = cluster[q].uid
    BY <1>1, <1>2, <1>7
  <2>2. QED BY <1>5, <1>7, <2>1, UntouchedWhenSame
<1>8. CASE Lands(r)
  <2>1. PICK p \in Requests : /\ flight[r][p] > 0
                              /\ cluster' = [cluster EXCEPT ![r] = Landed(@, p)]
                              /\ flight' = [flight EXCEPT ![r][p] = 0]
    BY <1>8 DEF Lands
  <2>2. p # "job" => Landed(c, p).uid = c.uid
    BY <1>2, SMTT(30) DEF Landed, Clusters
  <2> DEFINE d == Landed(c, p)
             g == [f EXCEPT ![p] = 0]
  <2>3. d.uid = c.uid \/ f["job"] > 0
    BY <1>2, <2>1, <2>2
  <2>4. g["job"] \in {0, f["job"]}
    BY <1>3
  <2>5. cluster' = [cluster EXCEPT ![r] = d] /\ flight' = [flight EXCEPT ![r] = g]
    BY <1>1, <1>2, <2>1
  <2> HIDE DEF d, g
  <2>6. QED BY <1>6, <2>3, <2>4, <2>5
<1>9. CASE CreatesLoad(r)
  <2>1. CASE cluster' = [cluster EXCEPT ![r].load = "running"] /\ UNCHANGED flight
    <3>1. cluster' = [cluster EXCEPT ![r] = [c EXCEPT !.load = "running"]]
      BY <1>1, <1>2, <2>1
    <3>2. [c EXCEPT !.load = "running"].uid = c.uid
      BY DEF Clusters
    <3>3. QED BY <1>7, <2>1, <3>1, <3>2
  <2>2. CASE flight' = [flight EXCEPT ![r] = InFlight(@, "pod")] /\ UNCHANGED cluster
    <3> DEFINE g == InFlight(f, "pod")
    <3>1. flight' = [flight EXCEPT ![r] = g]
      BY <1>1, <1>2, <2>2
    <3>2. g["job"] \in {0, f["job"]}
      BY <1>3 DEF InFlight
    <3> HIDE DEF g
    <3>3. cluster' = [cluster EXCEPT ![r] = c]
      BY <1>1, <1>2, <2>2
    <3>4. c.uid = c.uid
      OBVIOUS
    <3>5. QED BY <1>6, <3>1, <3>2, <3>3, <3>4
  <2>3. QED BY <1>9, <2>1, <2>2 DEF CreatesLoad
<1>10. CASE ExecutorRuns(r) \/ LoadEnds(r) \/ Settles(r) \/ Evicts(r)
  <2>1. /\ UNCHANGED flight
        /\ \E x, y : \/ cluster' = [cluster EXCEPT ![r] = [c EXCEPT !.executor = x]]
                     \/ cluster' = [cluster EXCEPT ![r] = [c EXCEPT !.executor = x, !.job = y]]
                     \/ cluster' = [cluster EXCEPT ![r] = [c EXCEPT !.quota = x]]
                     \/ cluster' = [cluster EXCEPT ![r] = [c EXCEPT !.job = x]]
                     \/ cluster' = [cluster EXCEPT ![r] = [c EXCEPT !.load = x]]
    <3>1. UNCHANGED flight
      BY <1>10 DEF ExecutorRuns, LoadEnds, Settles, Evicts
    <3>2. CASE ExecutorRuns(r)
      <4>1. CASE cluster' = [cluster EXCEPT ![r].executor = "active"]
        BY <1>1, <1>2, <3>1, <4>1
      <4>2. CASE cluster' = [cluster EXCEPT ![r].executor = "ended", ![r].job = "finished"]
        <5>1. cluster' = [cluster EXCEPT ![r] = [c EXCEPT !.executor = "ended", !.job = "finished"]]
          BY <1>1, <1>2, <4>2
        <5>2. QED BY <3>1, <5>1
      <4>3. QED BY <3>2, <4>1, <4>2 DEF ExecutorRuns
    <3>3. CASE LoadEnds(r) \/ Settles(r) \/ Evicts(r)
      BY <1>1, <1>2, <3>1, <3>3 DEF LoadEnds, Settles, Evicts
    <3>4. QED BY <1>10, <3>2, <3>3
  <2>2. \A x, y : /\ [c EXCEPT !.executor = x].uid = c.uid
                  /\ [c EXCEPT !.executor = x, !.job = y].uid = c.uid
                  /\ [c EXCEPT !.quota = x].uid = c.uid
                  /\ [c EXCEPT !.job = x].uid = c.uid
                  /\ [c EXCEPT !.load = x].uid = c.uid
    BY DEF Clusters
  <2>3. QED BY <1>7, <2>1, <2>2
<1>11. QED BY <1>8, <1>9, <1>10 DEF Cluster

\* Every step.
LEMMA UntouchedStep ==
    ASSUME BenchmarkInv, BenchmarkNext, NEW q \in Runs, exec[q] # NoUid
    PROVE  Untouched(q)
<1>1. ASSUME UNCHANGED <<exec, cluster, flight>> PROVE Untouched(q)
  BY <1>1, UntouchedWhenSame
<1>2. ASSUME NEW w \in Workers, NEW r \in Runs, Fail(w, r) \/ Dies(w, r) PROVE Untouched(q)
  BY <1>2, UntouchedByLeavings DEF Fail, Dies
<1>3. ASSUME NEW w \in Workers, NEW r \in Runs, EngineRenews(w, r) \/ EngineFinishes(w, r)
      PROVE  Untouched(q)
  BY <1>1, <1>3 DEF EngineRenews, EngineFinishes
<1>4. CASE Clients \/ \E w \in Workers : Claim(w)
  BY <1>1, <1>4 DEF Clients, Claim
<1>5. CASE Elapse
  <2>1. PICK f \in [Requests -> 0..RequestBound] : f = flight[q]
    BY Facts
  <2>2. "job" \in Requests /\ f["job"] \in 0..RequestBound
    BY <2>1 DEF Requests
  <2>3. TimeLeft(f["job"]) <= f["job"]
    BY <2>2, GraceAssumption, SMTT(30) DEF TimeLeft
  <2>4. flight'[q]["job"] = TimeLeft(f["job"])
    BY <1>5, <2>1, <2>2 DEF Elapse
  <2>5. QED BY <1>5, <2>1, <2>3, <2>4 DEF Elapse, Untouched
<1>6. QED
  BY <1>2, <1>3, <1>4, <1>5, UntouchedByCall, UntouchedByCluster DEF BenchmarkNext, Engine

\* "A bound executor is never recreated after disappearance" (docs/kubernetes-benchmarks.md:88),
\* however long the API server may take over a request: dispatch asks for a Job only while the
\* Run has no execution, which EnsureJob's fence and the lease guarantee.
THEOREM BoundJobIsNeverReplaced == BenchmarkSpec => NeverReplaced
<1>1. ASSUME BenchmarkInv, [BenchmarkNext]_benchmarkVars
      PROVE  [\A r \in Runs : exec[r] # NoUid => Untouched(r)]_benchmarkVars
  BY <1>1, UntouchedStep
<1>2. ASSUME BenchmarkInv, [BenchmarkNext]_benchmarkVars
      PROVE  [\A r \in Runs : exec[r] # NoUid =>
                /\ exec'[r] = exec[r]
                /\ flight'[r]["job"] <= flight[r]["job"]
                /\ cluster'[r].uid = cluster[r].uid \/ flight[r]["job"] > 0]_benchmarkVars
  BY <1>1, <1>2 DEF Untouched
<1>3. QED BY <1>2, BenchmarkInvariant, PTL DEF BenchmarkSpec, NeverReplaced

\* In a cluster that executes requests at once or never, the bound Job is also the only one of
\* the Run's name.
COROLLARY BoundJobIsTheOnlyOne ==
    ASSUME RequestBound = 0
    PROVE  BenchmarkSpec => [](\A r \in Runs : exec[r] # NoUid => ~Replaced(r))
<1>1. ASSUME BenchmarkInv, NEW r \in Runs, exec[r] # NoUid PROVE ~Replaced(r)
  BY <1>1, Facts DEF Faithful, Replaced, Exists
<1>2. BenchmarkInv => \A r \in Runs : exec[r] # NoUid => ~Replaced(r)
  BY <1>1
<1>3. QED BY <1>2, BenchmarkInvariant, PTL

\* A call of an attempt for a Run that is being cancelled leaves it so, or closes it as
\* ABORTED: an attempt that read the Run before it was cancelled fails the revision check.
LEMMA CancelledCall ==
    ASSUME BenchmarkInv, NEW w \in Workers, NEW r \in Runs, Call(w, r),
           NEW q \in Runs, runs[q].state = "CANCELLING"
    PROVE  runs'[q].state \in {"CANCELLING", "ABORTED"}
<1> DEFINE Goal == runs'[q].state \in {"CANCELLING", "ABORTED"}
<1>1. StoreTypeOK
  BY DEF BenchmarkInv, IInv
<1>2. ASSUME runs' = runs PROVE Goal
  BY <1>2
<1>3. CASE Fallback(w, r)
  <2>1. PICK change \in FallbackChanges(State(w, r)) : AdvanceClaim(w, r, change)
    BY <1>3 DEF Fallback
  <2>2. change.state \in States
    <3>1. change \in Changes
      BY FallbackChangesTyped, SMTT(30)
    <3>2. QED BY <3>1 DEF Changes
  <2>3. /\ \A p \in Runs \ {r} : runs'[p] = runs[p]
        /\ runs'[r].state = change.state /\ State(w, r) = runs[r].state
    BY <2>1, <2>2, AdvanceWrites, SMTT(30)
  <2>4. CASE q = r
    <3>1. change = Change("ABORTED")
      BY <2>1, <2>3, <2>4, SMTT(30) DEF FallbackChanges
    <3>2. QED BY <2>3, <2>4, <3>1, SMTT(30) DEF Change
  <2>5. CASE q # r
    BY <2>3, <2>5
  <2>6. QED BY <2>4, <2>5
<1>4. CASE Bound(w, r)
  <2>1. State(w, r) \in Executing
    BY <1>4, Facts DEF Bound, Calls, Live, Routed
  <2>2. \/ runs' = runs
        \/ \E change : /\ Owned(w, r) /\ claims[w][r].revision = runs[r].revision
                       /\ runs' = [runs EXCEPT ![r] = Transition(runs[r], change)]
    BY <1>4 DEF Bound, AdvanceClaim, TransitionAllowed, storeVars
  <2>3. q = r => runs' = runs
    BY <2>1, <2>2, CurrentState, SMTT(30) DEF Executing
  <2>4. q # r => runs'[q] = runs[q]
    BY <1>1, <2>2 DEF StoreTypeOK
  <2>5. QED BY <2>3, <2>4
<1>5. CASE FinishCleanup(w, r)
  <2>1. \/ runs' = runs
        \/ runs' = [runs EXCEPT ![r] = Transition(runs[r], Outcome(r))]
    BY <1>5 DEF FinishCleanup, FreeTarget
  <2>2. q = r => Outcome(r).state = "ABORTED"
    BY SMTT(30) DEF Outcome, Change
  <2>3. q = r => Transition(runs[r], Outcome(r)).state = "ABORTED"
    BY <2>2 DEF Transition
  <2>4. QED BY <1>1, <2>1, <2>3 DEF StoreTypeOK
<1>6. CASE Fence(w, r) \/ ReserveBenchmark(w, r)
  BY <1>2, <1>6 DEF Fence, ReserveBenchmark, ExtendLease, HoldTarget
<1>7. CASE \/ Read(w, r) \/ Observe(w, r) \/ Qualify(w, r) \/ EnsureNamespace(w, r)
           \/ Materialize(w, r) \/ EnsureResources(w, r) \/ EnsureJob(w, r) \/ RecoverJob(w, r)
  BY <1>2, <1>7
  DEF Read, Observe, Qualify, EnsureNamespace, Materialize, EnsureResources, EnsureJob,
      RecoverJob, storeVars
<1>8. CASE \/ BindExecution(w, r) \/ BeginCleanup(w, r) \/ Inspect(w, r)
           \/ BindCleanupNamespace(w, r) \/ CloseTarget(w, r) \/ StopExecutor(w, r)
           \/ RecordFence(w, r) \/ Verify(w, r) \/ CleanPods(w, r) \/ Revoke(w, r)
           \/ Reverify(w, r)
  BY <1>2, <1>8
  DEF BindExecution, BeginCleanup, Inspect, BindCleanupNamespace, CloseTarget, StopExecutor,
      RecordFence, Verify, CleanPods, Revoke, Reverify, storeVars
<1>9. QED BY <1>3, <1>4, <1>5, <1>6, <1>7, <1>8 DEF Call

\* So does every other step.
LEMMA CancelledStep ==
    ASSUME BenchmarkInv, BenchmarkNext, NEW q \in Runs, runs[q].state = "CANCELLING"
    PROVE  runs'[q].state \in {"CANCELLING", "ABORTED"}
<1> DEFINE Goal == runs'[q].state \in {"CANCELLING", "ABORTED"}
<1>1. StoreTypeOK
  BY DEF BenchmarkInv, IInv
<1>2. ASSUME runs' = runs PROVE Goal
  BY <1>2
<1>3. ASSUME NEW w \in Workers, NEW r \in Runs, Engine(w, r) \/ Fail(w, r) PROVE runs' = runs
  BY <1>3, SMTT(30) DEF Engine, EngineRenews, EngineFinishes, Dies, Fail, ExtendLease, EndAttempt,
              ReleaseClaim, ForgetClaim, storeVars
<1>4. ASSUME NEW r \in Runs, Cluster(r) PROVE runs' = runs
  BY <1>4, SMTT(30) DEF Cluster, Lands, ExecutorRuns, CreatesLoad, LoadEnds, Settles, Evicts, storeVars
<1>5. ASSUME NEW w \in Workers, Claim(w) PROVE runs' = runs
  BY <1>5 DEF Claim, ClaimRuns, LeaseBatch
<1>6. CASE Elapse
  BY <1>2, <1>6 DEF Elapse
<1>7. CASE Clients
  <2>1. PICK r \in Runs : Accept(r) \/ Cancel(r)
    BY <1>7 DEF Clients
  <2>2. CASE Accept(r)
    BY <1>1, <2>2, SMTT(30) DEF Accept, Absent, StoreTypeOK
  <2>3. CASE Cancel(r)
    <3>1. runs' = [runs EXCEPT ![r] = RequestCancellation(runs[r])]
      BY <2>3 DEF Cancel
    <3>2. q = r => RequestCancellation(runs[r]) = runs[r]
      BY SMTT(30) DEF RequestCancellation, AlreadyCancelled
    <3>3. QED BY <1>1, <3>1, <3>2 DEF StoreTypeOK
  <2>4. QED BY <2>1, <2>2, <2>3
<1>8. ASSUME NEW w \in Workers, NEW r \in Runs, Call(w, r) PROVE Goal
  BY <1>8, CancelledCall
<1>9. QED BY <1>2, <1>3, <1>4, <1>5, <1>6, <1>7, <1>8 DEF BenchmarkNext

\* Cancellation wins over the outcome that BeginBenchmarkCleanup has frozen, and over what
\* attempts that read the Run earlier decide.
THEOREM CancelledBenchmarksAreAborted == BenchmarkSpec => CancellationWins
<1>1. ASSUME BenchmarkInv, [BenchmarkNext]_benchmarkVars
      PROVE  [\A r \in Runs : runs[r].state = "CANCELLING" =>
                runs'[r].state \in {"CANCELLING", "ABORTED"}]_benchmarkVars
  BY <1>1, CancelledStep
<1>2. QED BY <1>1, BenchmarkInvariant, PTL DEF BenchmarkSpec, CancellationWins

=============================================================================
