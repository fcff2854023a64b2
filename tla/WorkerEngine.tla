----------------------------- MODULE WorkerEngine -----------------------------
(***************************************************************************)
(* The worker engine (internal/worker/worker.go) on top of the store: the  *)
(* Run loop of each worker process, the goroutines that renew a lease      *)
(* while Reconcile executes, and shutdown.                                 *)
(*                                                                         *)
(* The select statements are disjunctions: when several channels are ready *)
(* Go takes any.  Completions of different attempts come from goroutines   *)
(* of their own and may be received in any order.  What Reconcile does to  *)
(* the store is any sequence of the operations its claim authorizes.       *)
(*                                                                         *)
(* Time.  An attempt's `since` is the time since the renewal it goes on    *)
(* from, or its claim, took effect in the store; from LeaseTTL on it makes *)
(* no difference how long that is.  A renewal is not made before           *)
(* RenewEvery.  How much later it is made, executed and answered is open:  *)
(* goroutines are scheduled at any time, and a call may last longer than   *)
(* a lease (run/claims.go allows 5 seconds, postgres/database.go bounds    *)
(* its operations by 15).                                                  *)
(***************************************************************************)
EXTENDS ClaimStore

CONSTANTS RenewEvery,
          Eventful,     \* bound: the Runs that clients cancel and Reconcile acts on
          Targets       \* the states Reconcile moves Runs to (a bound; the engine is
                        \* indifferent to the lifecycle)

\* Config.Validate: RenewEvery <= LeaseTTL/2.
ASSUME RenewAssumption == RenewEvery \in Nat \ {0} /\ 2 * RenewEvery <= LeaseTTL
ASSUME TargetsAssumption == Targets \subseteq States
\* A table is finite.
ASSUME RunsAssumption == IsFiniteSet(Runs)

VARIABLES loop,     \* Run: where it is, its context, active, and the range over active
          att       \* process: the goroutine of an attempt

engineVars == <<runs, leases, held, claims, loop, att>>

LoopAt(place, stop, active, range) ==
    [at |-> place, stop |-> stop, active |-> active, range |-> range]

Fresh == LoopAt("up", FALSE, {}, {})

Loops == [at : {"up", "draining", "returned", "down"}, stop : BOOLEAN,
          active : SUBSET Runs, range : SUBSET Runs]

\* running: Reconcile executes; reconciled: its result waits in done; stopping: its
\* context is cancelled and process waits for done; sent: the completion is queued.
\* While process is in RenewClaim, call says what became of it: asked; renewed; cancelled,
\* that is renewed and found to be in CANCELLING.
AttemptAt(phase, since, cancelling, release) ==
    [at |-> phase, since |-> since, cancelling |-> cancelling, release |-> release,
     call |-> "none"]

NoAttempt == AttemptAt("none", 0, FALSE, FALSE)

Attempts ==
    [at : {"none", "running", "reconciled", "stopping", "sent"},
     since : 0..LeaseTTL, cancelling : BOOLEAN, release : BOOLEAN,
     call : {"none", "asked", "renewed", "cancelled"}]

Started(r) == AttemptAt("running", 0, runs[r].state = "CANCELLING", FALSE)

At(w, r, phases) == att[w][r].at \in phases

SetLoop(w, l) == loop' = [loop EXCEPT ![w] = l]

SetActive(w, active) == SetLoop(w, LoopAt(loop[w].at, loop[w].stop, active, loop[w].range))

SetAttempt(w, r, a) == att' = [att EXCEPT ![w][r] = a]

Stopping(w, r, release) ==
    SetAttempt(w, r, AttemptAt("stopping", 0, att[w][r].cancelling, release))

Sent(w, r) == SetAttempt(w, r, AttemptAt("sent", 0, FALSE, FALSE))

EngineInit ==
    /\ Init
    /\ loop = [w \in Workers |-> Fresh]
    /\ att = [w \in Workers |-> [r \in Runs |-> NoAttempt]]

-----------------------------------------------------------------------------
(* Run *)

\* startAvailable asks for as many Runs as are not active and starts the ones that
\* are not active already. On an error it starts none.
Poll(w) ==
    /\ loop[w].at = "up" /\ ~loop[w].stop
    /\ \E batch \in SUBSET Runs, token \in [Runs -> Tokens], answered \in BOOLEAN :
         LET kept == IF answered THEN batch \ loop[w].active ELSE {} IN
         /\ Cardinality(batch) <= Capacity - Cardinality(loop[w].active)
         /\ ClaimRuns(w, batch, kept, token)
         /\ SetActive(w, loop[w].active \union kept)
         /\ att' = [att EXCEPT ![w] = [r \in Runs |-> IF r \in kept THEN Started(r) ELSE @[r]]]

Receive(w, r) ==
    /\ loop[w].at = "up"
    /\ At(w, r, {"sent"})
    /\ SetActive(w, loop[w].active \ {r})
    /\ SetAttempt(w, r, NoAttempt)
    /\ UNCHANGED storeVars

\* The context of Run is cancelled (app: a signal, or the API server failed).
Shutdown(w) ==
    /\ loop[w].at = "up" /\ ~loop[w].stop
    /\ SetLoop(w, LoopAt("up", TRUE, loop[w].active, loop[w].range))
    /\ UNCHANGED <<storeVars, att>>

\* Run leaves its loop and ranges over active.
Drain(w) ==
    /\ loop[w].at = "up" /\ loop[w].stop
    /\ SetLoop(w, LoopAt("draining", TRUE, loop[w].active, loop[w].active))
    /\ UNCHANGED <<storeVars, att>>

\* The entries a range over the map has yet to produce: an entry that is deleted
\* before it is reached is not produced.
Unreached(w) == loop[w].range \intersect loop[w].active

\* One iteration: the range produces some entry, the body receives some completion.
DrainOne(w, r) ==
    /\ loop[w].at = "draining"
    /\ At(w, r, {"sent"})
    /\ \E key \in Unreached(w) :
          SetLoop(w, LoopAt("draining", loop[w].stop, loop[w].active \ {r},
                            loop[w].range \ {key}))
    /\ SetAttempt(w, r, NoAttempt)
    /\ UNCHANGED storeVars

Return(w) ==
    /\ loop[w].at = "draining"
    /\ Unreached(w) = {}
    /\ SetLoop(w, LoopAt("returned", loop[w].stop, loop[w].active, loop[w].range))
    /\ UNCHANGED <<storeVars, att>>

\* The process dies, or exits after Run returned; goroutines go with it.
Exit(w) ==
    /\ loop[w].at # "down"
    /\ SetLoop(w, LoopAt("down", FALSE, {}, {}))
    /\ att' = [att EXCEPT ![w] = [r \in Runs |-> NoAttempt]]
    /\ LoseClaims(w) \/ (Claimed(w) = {} /\ UNCHANGED storeVars)

Start(w) ==
    /\ loop[w].at = "down"
    /\ SetLoop(w, Fresh)
    /\ UNCHANGED <<storeVars, att>>

-----------------------------------------------------------------------------
(* process *)

\* Reconcile uses its claim; a call that is in flight when the context is cancelled
\* may still have its effect.
Reconcile(w, r) ==
    /\ r \in Eventful
    /\ At(w, r, {"running", "stopping"})
    /\ \/ RenewClaim(w, r)
       \/ \E change \in Changes : change.state \in Targets /\ AdvanceClaim(w, r, change)
    /\ UNCHANGED <<loop, att>>

Reconciled(w, r) ==
    /\ At(w, r, {"running"})
    /\ SetAttempt(w, r, [att[w][r] EXCEPT !.at = "reconciled"])
    /\ UNCHANGED <<storeVars, loop>>

Live(w, r) == At(w, r, {"running", "reconciled"})

\* process waits in its select, for done, its timer and the parent's context.
Selecting(w, r) == Live(w, r) /\ att[w][r].call = "none"

InCall(w, r) == Live(w, r) /\ att[w][r].call # "none"

\* The timer fires and process calls RenewClaim. The timer was set when the last renewal
\* was answered, which is no earlier than when it took effect.
RenewalDue(w, r) ==
    /\ Selecting(w, r)
    /\ att[w][r].since >= RenewEvery
    /\ SetAttempt(w, r, [att[w][r] EXCEPT !.call = "asked"])
    /\ UNCHANGED <<storeVars, loop>>

\* The store executes the call; Reconcile goes on beside it.
RenewalTakesEffect(w, r) ==
    LET found == IF ~att[w][r].cancelling /\ runs[r].state = "CANCELLING"
                 THEN "cancelled" ELSE "renewed"
    IN  /\ InCall(w, r) /\ att[w][r].call = "asked"
        /\ ExtendLease(w, r) /\ UNCHANGED claims
        /\ SetAttempt(w, r, [att[w][r] EXCEPT !.since = 0, !.call = found])
        /\ UNCHANGED loop

\* The answer arrives: go on, or stop because the Run moved to CANCELLING.
Renewed(w, r) ==
    /\ InCall(w, r)
    /\ \/ /\ att[w][r].call = "renewed"
          /\ SetAttempt(w, r, [att[w][r] EXCEPT !.call = "none"])
       \/ att[w][r].call = "cancelled" /\ Stopping(w, r, TRUE)
    /\ UNCHANGED <<storeVars, loop>>

\* Mutation: after a failed renewal the attempt goes on to the next.
RenewalRetried(w, r) ==
    /\ InCall(w, r)
    /\ SetAttempt(w, r, [att[w][r] EXCEPT !.since = 0, !.call = "none"])
    /\ UNCHANGED <<storeVars, loop>>

\* Mutation: a failed renewal frees the slot before Reconcile has returned.
SlotFreedEarly(w, r) ==
    /\ InCall(w, r)
    /\ Stopping(w, r, FALSE)
    /\ SetActive(w, loop[w].active \ {r})
    /\ UNCHANGED storeVars

\* The renewal fails: the lease is lost, the store is unavailable, the call took too long
\* or the context ended; it may have taken effect, its answer being lost.
RenewFails(w, r) ==
    /\ InCall(w, r)
    /\ Stopping(w, r, FALSE)
    /\ UNCHANGED <<storeVars, loop>>

ParentDone(w, r) ==
    /\ loop[w].stop
    /\ Selecting(w, r)
    /\ Stopping(w, r, FALSE)
    /\ UNCHANGED <<storeVars, loop>>

\* finish and release: the claim is given back with a delay, or the lease was lost, or
\* the release fails, or (parent.Err) it is not tried.
Finish(w, r) ==
    /\ Selecting(w, r) /\ At(w, r, {"reconciled"})
    /\ \/ ~loop[w].stop /\ \E delay \in 0..MaxDelay : ReleaseClaim(w, r, delay)
       \/ ForgetClaim(w, r)
    /\ Sent(w, r)
    /\ UNCHANGED loop

\* Mutation: the claim is given back although the lease may be another worker's.
StoppedUnfenced(w, r) ==
    /\ At(w, r, {"stopping"})
    /\ leases' = [leases EXCEPT ![r] = Until(leases[r], 0, 0)]
    /\ claims' = [claims EXCEPT ![w][r] = NoClaim]
    /\ Sent(w, r)
    /\ UNCHANGED <<runs, held, loop>>

\* Mutation: a stopped attempt sends no completion.
StoppedSilently(w, r) ==
    /\ At(w, r, {"stopping"})
    /\ ForgetClaim(w, r)
    /\ SetAttempt(w, r, NoAttempt)
    /\ UNCHANGED loop

\* Reconcile returns from a cancelled context. After an observed cancellation the
\* claim is given back without delay.
Stopped(w, r) ==
    /\ At(w, r, {"stopping"})
    /\ \/ att[w][r].release /\ ~loop[w].stop /\ ReleaseClaim(w, r, 0)
       \/ ForgetClaim(w, r)
    /\ Sent(w, r)
    /\ UNCHANGED loop

Older(since) == IF since < LeaseTTL THEN since + 1 ELSE LeaseTTL

\* Time passes, for the leases and for the attempts, whatever is due.
Elapse ==
    /\ Tick
    /\ att' = [w \in Workers |-> [r \in Runs |->
                  IF Live(w, r) THEN [att[w][r] EXCEPT !.since = Older(att[w][r].since)]
                  ELSE att[w][r]]]
    /\ UNCHANGED loop

Clients ==
    /\ \E r \in Runs : Accept(r) \/ (r \in Eventful /\ Cancel(r))
    /\ UNCHANGED <<loop, att>>

Attempt(w, r) ==
    \/ Reconcile(w, r) \/ Reconciled(w, r)
    \/ RenewalDue(w, r) \/ RenewalTakesEffect(w, r) \/ Renewed(w, r) \/ RenewFails(w, r)
    \/ ParentDone(w, r) \/ Finish(w, r) \/ Stopped(w, r)

EngineNext ==
    \/ Clients
    \/ \E w \in Workers : Poll(w) \/ Shutdown(w) \/ Drain(w) \/ Return(w) \/ Exit(w) \/ Start(w)
    \/ \E w \in Workers, r \in Runs : Receive(w, r) \/ DrainOne(w, r) \/ Attempt(w, r)
    \/ Elapse

EngineSpec == EngineInit /\ [][EngineNext]_engineVars

\* Reconcile is bounded by its attempt timeout and obeys its context; a call of the store
\* ends, one way or the other, because its context does; goroutines that can proceed do.
\* A result stays in done, and of the channels that are ready select takes each at some
\* time. Nothing is assumed of signals, crashes, clients or what the store answers.
EngineFairness ==
    \A w \in Workers :
        /\ WF_engineVars(Drain(w) \/ Return(w))
        /\ \A r \in Runs :
             /\ WF_engineVars(Renewed(w, r) \/ RenewFails(w, r) \/ Stopped(w, r)
                              \/ Receive(w, r) \/ DrainOne(w, r))
             /\ SF_engineVars(Reconciled(w, r) \/ Finish(w, r))

FairEngineSpec == EngineSpec /\ EngineFairness

-----------------------------------------------------------------------------
(* Properties *)

EngineTypeOK ==
    /\ StoreTypeOK
    /\ loop \in [Workers -> Loops]
    /\ att \in [Workers -> [Runs -> Attempts]]

Executing(w) == {r \in Runs : At(w, r, {"running", "reconciled", "stopping"})}

\* A slot is taken as long as its attempt executes, so a process never runs more than
\* Capacity attempts (worker.go:84), and the completion of each finds room in the
\* channel, through lost answers, lost leases and shutdown.
SlotsCoverAttempts ==
    \A w \in Workers :
        /\ Cardinality(loop[w].active) <= Capacity
        /\ {r \in Runs : ~At(w, r, {"none"})} = loop[w].active
        /\ Claimed(w) = Executing(w)

\* An attempt whose context is not cancelled owns its Run, or the Run is closed, for a whole
\* lease after the renewal it goes on from took effect: clients, other workers, this worker's
\* own later claims of the Run and its stopped attempts do not take it away, and an attempt
\* goes on from no renewal that failed. (process, worker.go:203-222. Since renewal is due
\* after half a lease at the latest, an attempt loses its Run only when a renewal is awaited
\* for another half; it is then refused by the store, module ClaimStore, and ended by the
\* answer.)
RenewedAttemptsOwnTheirRun ==
    \A w \in Workers, r \in Runs :
        Live(w, r) /\ att[w][r].since < LeaseTTL => Owned(w, r) \/ Terminal(runs[r].state)

\* The engine uses the store only in the ways module ClaimStore describes, with one
\* claim per attempt; what is proved about ClaimStore holds for it.
UsesTheStore == Spec

\* Every attempt ends and frees its slot, unless Run returns first.
SlotsAreFreed ==
    \A w \in Workers, r \in Runs :
        r \in loop[w].active ~> (r \notin loop[w].active \/ loop[w].at = "returned")

\* Shutdown does not hang: receiving one completion per entry never waits for an
\* attempt that sends none.
ShutdownCompletes ==
    \A w \in Workers : loop[w].stop ~> loop[w].at \in {"returned", "down"}

\* "Shutdown cancels active attempts, stops their renewal and waits for reconcilers to
\* return" (worker.go:111): when Run has returned no attempt executes.
ShutdownWaits ==
    \A w \in Workers : loop[w].at = "returned" => Executing(w) = {}

=============================================================================
