----------------------------- MODULE Acceptance -----------------------------
(***************************************************************************)
(* Idempotent acceptance of Runs (internal/postgres/repository.go,         *)
(* Accept): callers that submit a request under an idempotency key, wait   *)
(* for the advisory lock of the key, read the clock and the binding, then  *)
(* replay the bound Run or insert a Run and bind the key to it.            *)
(*                                                                         *)
(* A key stands for a principal and its idempotency key, a request for a   *)
(* request body and its execution target.  A call may time out at any      *)
(* point, its connection may break after the commit, and its caller may    *)
(* submit again, with the same request or another.                         *)
(***************************************************************************)
EXTENDS Naturals, Sequences

CONSTANTS Callers, Keys,
          Bodies,           \* the requests a call may carry
          BindingTTL,       \* 24 hours in the program
          MaxTime,          \* bound on the database clock
          NoCaller

ASSUME TTLAssumption == BindingTTL \in Nat \ {0}
ASSUME TimeAssumption == MaxTime \in Nat
ASSUME CallerAssumption == NoCaller \notin Callers

VARIABLES time,     \* the database clock
          made,     \* the runs table, in order of commit: key, request, createdAt
          binding,  \* create_bindings: for each key a Run (0 for none) and expires_at
          lock,     \* the advisory lock of each key
          call      \* the call each caller is in

acceptanceVars == <<time, made, binding, lock, call>>

NoBinding == [run |-> 0, expires |-> 0]
Outcomes == {"idle", "accepted", "conflict", "failed"}
CallAt(place, k, q, now, seen, run) ==
    [at |-> place, key |-> k, request |-> q, now |-> now, seen |-> seen, run |-> run]

Between(outcome, k, q, run) == CallAt(outcome, k, q, 0, NoBinding, run)

AcceptanceInit ==
    /\ time = 0
    /\ made = << >>
    /\ binding = [k \in Keys |-> NoBinding]
    /\ lock = [k \in Keys |-> NoCaller]
    /\ \E k \in Keys, q \in Bodies : call = [c \in Callers |-> Between("idle", k, q, 0)]

Ends(c, outcome, run) ==
    /\ call' = [call EXCEPT ![c] = Between(outcome, call[c].key, call[c].request, run)]
    /\ lock' = [k \in Keys |-> IF lock[k] = c THEN NoCaller ELSE lock[k]]

\* The call goes on to its next statement with what it has read.
Proceed(c, place, now, seen) ==
    call' = [call EXCEPT ![c] = CallAt(place, call[c].key, call[c].request, now, seen, 0)]

Submit(c, k, q) ==
    /\ call[c].at \in Outcomes
    /\ call' = [call EXCEPT ![c] = Between("waiting", k, q, 0)]
    /\ UNCHANGED <<time, made, binding, lock>>

\* Mutation: nobody waits for the lock.
LockAnyway(c) ==
    /\ call[c].at = "waiting"
    /\ lock' = [lock EXCEPT ![call[c].key] = c]
    /\ Proceed(c, "locked", 0, NoBinding)
    /\ UNCHANGED <<time, made, binding>>

Lock(c) ==
    /\ call[c].at = "waiting"
    /\ lock[call[c].key] = NoCaller
    /\ lock' = [lock EXCEPT ![call[c].key] = c]
    /\ Proceed(c, "locked", 0, NoBinding)
    /\ UNCHANGED <<time, made, binding>>

\* dbNow, after the lock was acquired.
ReadClock(c) ==
    /\ call[c].at = "locked"
    /\ Proceed(c, "timed", time, NoBinding)
    /\ UNCHANGED <<time, made, binding, lock>>

ReadBinding(c) ==
    /\ call[c].at = "timed"
    /\ Proceed(c, "deciding", call[c].now, binding[call[c].key])
    /\ UNCHANGED <<time, made, binding, lock>>

\* Mutation: a binding ends one unit early.
BoundBriefly(c) == call[c].seen.run # 0 /\ call[c].now + 1 < call[c].seen.expires

Bound(c) == call[c].seen.run # 0 /\ call[c].now < call[c].seen.expires

\* Mutation: requests are not compared.
ReplayAny(c) ==
    /\ call[c].at = "deciding"
    /\ Bound(c)
    /\ Ends(c, "accepted", call[c].seen.run)
    /\ UNCHANGED <<time, made, binding>>

\* The binding is live: the original answer for the same request, else ErrConflict.
ReplayRun(c) ==
    LET run == call[c].seen.run IN
    /\ call[c].at = "deciding"
    /\ Bound(c)
    /\ \/ made[run].request = call[c].request /\ Ends(c, "accepted", run)
       \/ made[run].request # call[c].request /\ Ends(c, "conflict", 0)
    /\ UNCHANGED <<time, made, binding>>

\* The Run and its binding are committed together; the caller may not hear of it.
Insert(c) ==
    LET a == call[c] IN
    /\ a.at = "deciding"
    /\ ~Bound(c)
    /\ made' = Append(made, [key |-> a.key, request |-> a.request, at |-> a.now])
    /\ binding' = [binding EXCEPT ![a.key] = [run |-> Len(made) + 1,
                                              expires |-> a.now + BindingTTL]]
    /\ Ends(c, "accepted", Len(made) + 1) \/ Ends(c, "failed", 0)
    /\ UNCHANGED time

\* A timeout, a lost connection or an error before the commit: rollback.
Abort(c) ==
    /\ call[c].at \notin Outcomes
    /\ Ends(c, "failed", 0)
    /\ UNCHANGED <<time, made, binding>>

Elapse ==
    /\ time < MaxTime
    /\ time' = time + 1
    /\ UNCHANGED <<made, binding, lock, call>>

AcceptanceNext ==
    \/ \E c \in Callers, k \in Keys, q \in Bodies : Submit(c, k, q)
    \/ \E c \in Callers : Lock(c) \/ ReadClock(c) \/ ReadBinding(c) \/ ReplayRun(c) \/ Insert(c) \/ Abort(c)
    \/ Elapse

AcceptanceSpec == AcceptanceInit /\ [][AcceptanceNext]_acceptanceVars

-----------------------------------------------------------------------------
(* Properties *)

\* Retries never duplicate a Run: two Runs accepted under one key are at least a
\* binding's term apart, however calls overlap, fail after the commit and are repeated.
RetriesNeverDuplicate ==
    \A i, j \in DOMAIN made :
        (i < j /\ made[i].key = made[j].key) => made[j].at >= made[i].at + BindingTTL

\* A caller is answered with a Run of its own key and request.
AnswersMatch ==
    \A c \in Callers : call[c].at = "accepted" =>
        LET run == made[call[c].run] IN run.key = call[c].key /\ run.request = call[c].request

\* An accepted Run stays bound to its key for its whole term, so a retry within it is
\* answered with that Run.
BoundForItsTerm ==
    \A i \in DOMAIN made : time < made[i].at + BindingTTL => binding[made[i].key].run = i

=============================================================================
