--------------------------- MODULE AdmissionProofs ---------------------------
(***************************************************************************)
(* Proofs about the two ways a Run comes to exist, for every value of the  *)
(* constants: a caller's submission under an idempotency key (module       *)
(* Acceptance), where what is stated is inductive together with what the   *)
(* advisory lock protects; and a performance request of another system     *)
(* (module Integration), which creates and moves the Run of module         *)
(* RunLifecycle.                                                           *)
(***************************************************************************)
EXTENDS Acceptance, Integration, TLAPS

\* Zenon is the default; where a leaf needs arithmetic or records, it cites SMT.
USE ZenonT(60)

-----------------------------------------------------------------------------
(* Idempotent acceptance *)

Places == Outcomes \union {"waiting", "locked", "timed", "deciding"}

MadeRuns == [key : Keys, request : Bodies, at : Nat]

Bindings == [run : Nat, expires : Nat]

Calls == [at : Places, key : Keys, request : Bodies, now : Nat, seen : Bindings, run : Nat]

Types ==
    /\ time \in Nat
    /\ made \in Seq(MadeRuns)
    /\ binding \in [Keys -> Bindings]
    /\ lock \in [Keys -> Callers \union {NoCaller}]
    /\ call \in [Callers -> Calls]

\* What a call has read is current while it holds the lock of its key, and what it
\* answers is a Run of its key and request.
CallOK(c) ==
    /\ call[c].at \in {"locked", "timed", "deciding"} => lock[call[c].key] = c
    /\ call[c].at \in {"timed", "deciding"} => call[c].now <= time
    /\ call[c].at = "deciding" => call[c].seen = binding[call[c].key]
    /\ call[c].at = "accepted" =>
          /\ call[c].run \in 1..Len(made)
          /\ made[call[c].run].key = call[c].key
          /\ made[call[c].run].request = call[c].request

\* A key is bound to the last Run made under it, and the Runs before it are older by at
\* least a term.
BindingOK(k) ==
    /\ binding[k].run # 0 =>
          /\ binding[k].run \in 1..Len(made)
          /\ made[binding[k].run].key = k
          /\ binding[k].expires = made[binding[k].run].at + BindingTTL
    /\ \A i \in 1..Len(made) : made[i].key = k =>
          /\ binding[k].run # 0
          /\ i = binding[k].run \/ (i < binding[k].run /\ made[i].at + BindingTTL <= made[binding[k].run].at)

\* The inductive invariant of Acceptance.
AcceptInv ==
    /\ Types
    /\ \A c \in Callers : CallOK(c)
    /\ \A k \in Keys : BindingOK(k)
    /\ \A i \in 1..Len(made) : made[i].at <= time
    /\ RetriesNeverDuplicate

\* Before a term is over, nothing was made after its end. (The expiry of a binding.)
LEMMA WithinTheTerm ==
    ASSUME NEW now \in Nat, NEW start \in Nat, NEW other \in Nat,
           now < start + BindingTTL, other <= now
    PROVE  ~(start + BindingTTL <= other)
BY TTLAssumption, SMTT(30)

\* The fields of a call.
LEMMA CallFields ==
    ASSUME NEW place \in Places, NEW k \in Keys, NEW q \in Bodies, NEW now \in Nat,
           NEW seen \in Bindings, NEW id \in Nat
    PROVE  /\ CallAt(place, k, q, now, seen, id) \in Calls
           /\ CallAt(place, k, q, now, seen, id).at = place
           /\ CallAt(place, k, q, now, seen, id).key = k
           /\ CallAt(place, k, q, now, seen, id).request = q
           /\ CallAt(place, k, q, now, seen, id).now = now
           /\ CallAt(place, k, q, now, seen, id).seen = seen
           /\ CallAt(place, k, q, now, seen, id).run = id
BY DEF CallAt, Calls

\* A missing binding is well typed.
LEMMA NoBindingTyped == NoBinding \in Bindings
BY DEF NoBinding, Bindings

\* The Runs made are well typed.
LEMMA MadeTyped ==
    ASSUME Types, NEW i \in 1..Len(made)
    PROVE  made[i] \in MadeRuns /\ made[i].key \in Keys /\ made[i].at \in Nat
<1>1. made[i] \in MadeRuns BY SMTT(30) DEF Types
<1>2. QED BY <1>1 DEF MadeRuns

\* A call that ends gives up its locks and no others.
LEMMA EndsFields ==
    ASSUME Types, NEW c \in Callers, NEW outcome \in Outcomes, NEW id \in Nat, Ends(c, outcome, id)
    PROVE  /\ call' \in [Callers -> Calls] /\ lock' \in [Keys -> Callers \union {NoCaller}]
           /\ call'[c].at = outcome /\ call'[c].run = id
           /\ call'[c].key = call[c].key /\ call'[c].request = call[c].request
           /\ \A d \in Callers : d # c => call'[d] = call[d]
           /\ \A k \in Keys, d \in Callers : d # c /\ lock[k] = d => lock'[k] = d
<1> DEFINE a == Between(outcome, call[c].key, call[c].request, id)
<1>1. call[c] \in Calls /\ call[c].key \in Keys /\ call[c].request \in Bodies
  BY DEF Types, Calls
<1>a. outcome \in Places /\ 0 \in Nat BY DEF Places
<1>2. /\ a \in Calls /\ a.at = outcome /\ a.run = id /\ a.key = call[c].key
      /\ a.request = call[c].request
  BY <1>1, <1>a, NoBindingTyped DEF Between, CallAt, Calls
<1>3. call' = [call EXCEPT ![c] = a] BY DEF Ends
<1> HIDE DEF a
<1>4. QED BY <1>2, <1>3 DEF Ends, Types

\* A call that goes on keeps its key and request.
LEMMA ProceedFields ==
    ASSUME Types, NEW c \in Callers, NEW place \in Places, NEW now \in Nat, NEW seen \in Bindings,
           Proceed(c, place, now, seen)
    PROVE  /\ call' \in [Callers -> Calls]
           /\ call'[c].at = place /\ call'[c].now = now /\ call'[c].seen = seen
           /\ call'[c].key = call[c].key
           /\ \A d \in Callers : d # c => call'[d] = call[d]
<1> DEFINE a == CallAt(place, call[c].key, call[c].request, now, seen, 0)
<1>1. call[c] \in Calls /\ call[c].key \in Keys /\ call[c].request \in Bodies
  BY DEF Types, Calls
<1>2. /\ a \in Calls /\ a.at = place /\ a.now = now /\ a.seen = seen /\ a.key = call[c].key
  BY <1>1, CallFields, SMTT(30)
<1>3. call' = [call EXCEPT ![c] = a] BY DEF Proceed
<1> HIDE DEF a
<1>4. QED BY <1>2, <1>3 DEF Types

\* A call that another call's step does not touch stays as it is.
LEMMA CallStays ==
    ASSUME AcceptInv, NEW c \in Callers, call'[c] = call[c], time' = time,
           made' = made, binding' = binding,
           lock[call[c].key] = c => lock'[call[c].key] = c
    PROVE  CallOK(c)'
BY DEF AcceptInv, CallOK

\* Nothing is made and nothing is bound.
LEMMA NothingMade ==
    ASSUME AcceptInv, UNCHANGED <<time, made, binding>>, call' \in [Callers -> Calls],
           lock' \in [Keys -> Callers \union {NoCaller}],
           \A c \in Callers : CallOK(c)'
    PROVE  AcceptInv'
BY DEF AcceptInv, Types, BindingOK, RetriesNeverDuplicate

\* No call is under way and nothing is made when the program starts.
LEMMA InvStart ==
    ASSUME AcceptanceInit
    PROVE  AcceptInv
<1>1. PICK k \in Keys, q \in Bodies : call = [c \in Callers |-> Between("idle", k, q, 0)]
  BY DEF AcceptanceInit
<1>2. "idle" \in Places /\ 0 \in Nat BY DEF Places, Outcomes
<1>3. Between("idle", k, q, 0) \in Calls /\ Between("idle", k, q, 0).at = "idle"
  BY <1>2, NoBindingTyped DEF Between, CallAt, Calls
<1>4. Types
  BY <1>1, <1>3, NoBindingTyped, SMTT(30) DEF AcceptanceInit, Types
<1>5. ASSUME NEW c \in Callers PROVE CallOK(c)
  BY <1>1, <1>3 DEF CallOK
<1>6. ASSUME NEW j \in Keys PROVE BindingOK(j)
  BY SMTT(30) DEF AcceptanceInit, BindingOK, NoBinding
<1>7. QED BY <1>4, <1>5, <1>6, SMTT(30) DEF AcceptInv, AcceptanceInit, RetriesNeverDuplicate

\* A call that ends without a Run, or with the one its key is bound to.
LEMMA EndsKeeps ==
    ASSUME AcceptInv, NEW c \in Callers, NEW outcome \in Outcomes, NEW id \in Nat,
           Ends(c, outcome, id), UNCHANGED <<time, made, binding>>,
           outcome = "accepted" =>
              /\ id \in 1..Len(made)
              /\ made[id].key = call[c].key
              /\ made[id].request = call[c].request
    PROVE  AcceptInv'
<1>1. Types BY DEF AcceptInv
<1> HIDE DEF Ends, Outcomes
<1>2. /\ call' \in [Callers -> Calls] /\ lock' \in [Keys -> Callers \union {NoCaller}]
      /\ call'[c].at = outcome /\ call'[c].run = id
      /\ call'[c].key = call[c].key /\ call'[c].request = call[c].request
      /\ \A d \in Callers : d # c => call'[d] = call[d]
      /\ \A k \in Keys, d \in Callers : d # c /\ lock[k] = d => lock'[k] = d
  BY <1>1, EndsFields
<1>3. CallOK(c)'
  BY <1>2 DEF CallOK, Outcomes
<1>4. ASSUME NEW d \in Callers, d # c PROVE CallOK(d)'
  <2>1. call[d].key \in Keys BY <1>1 DEF Types, Calls
  <2>2. QED BY <1>2, <1>4, <2>1, CallStays
<1>5. \A d \in Callers : CallOK(d)' BY <1>3, <1>4
<1>6. QED BY <1>2, <1>5, NothingMade

\* A call that goes on under its lock.
LEMMA ProceedKeeps ==
    ASSUME AcceptInv, NEW c \in Callers, NEW place \in {"locked", "timed", "deciding"},
           NEW now \in Nat, NEW seen \in Bindings,
           Proceed(c, place, now, seen), UNCHANGED <<time, made, binding>>,
           lock' \in [Keys -> Callers \union {NoCaller}], lock'[call[c].key] = c,
           \A k \in Keys, d \in Callers : d # c /\ lock[k] = d => lock'[k] = d,
           now <= time,
           place = "deciding" => seen = binding[call[c].key]
    PROVE  AcceptInv'
<1>1. Types BY DEF AcceptInv
<1>a. place \in Places BY DEF Places
<1>2. /\ call' \in [Callers -> Calls]
      /\ call'[c].at = place /\ call'[c].now = now /\ call'[c].seen = seen
      /\ call'[c].key = call[c].key
      /\ \A d \in Callers : d # c => call'[d] = call[d]
  BY <1>1, <1>a, ProceedFields
<1>3. CallOK(c)'
  BY <1>2 DEF CallOK
<1>4. ASSUME NEW d \in Callers, d # c PROVE CallOK(d)'
  <2>1. call[d].key \in Keys BY <1>1 DEF Types, Calls
  <2>2. QED BY <1>2, <1>4, <2>1, CallStays
<1>5. \A d \in Callers : CallOK(d)' BY <1>3, <1>4
<1>6. QED BY <1>2, <1>5, NothingMade

\* A new call holds nothing yet.
LEMMA SubmitStep ==
    ASSUME AcceptInv, NEW c \in Callers, NEW k \in Keys, NEW q \in Bodies, Submit(c, k, q)
    PROVE  AcceptInv'
<1> DEFINE a == Between("waiting", k, q, 0)
<1>1. a \in Calls /\ a.at = "waiting"
  BY NoBindingTyped DEF Between, CallAt, Calls, Places
<1>2. call' = [call EXCEPT ![c] = a] /\ UNCHANGED <<time, made, binding, lock>>
  BY DEF Submit
<1> HIDE DEF a
<1>3. call' \in [Callers -> Calls] /\ lock' \in [Keys -> Callers \union {NoCaller}]
  BY <1>1, <1>2 DEF AcceptInv, Types
<1>4. ASSUME NEW d \in Callers PROVE CallOK(d)'
  <2>1. CASE d = c BY <1>1, <1>2, <2>1 DEF CallOK, AcceptInv, Types
  <2>2. CASE d # c
    <3>1. call'[d] = call[d] BY <1>2, <2>2 DEF AcceptInv, Types
    <3>2. QED BY <1>2, <3>1, CallStays
  <2>3. QED BY <2>1, <2>2
<1>5. \A d \in Callers : CallOK(d)' BY <1>4
<1>6. QED BY <1>2, <1>3, <1>5, NothingMade

\* The steps of a call under its lock.
LEMMA LockedSteps ==
    ASSUME AcceptInv, NEW c \in Callers, Lock(c) \/ ReadClock(c) \/ ReadBinding(c)
    PROVE  AcceptInv'
<1>1. /\ Types /\ CallOK(c) /\ call[c] \in Calls /\ call[c].key \in Keys /\ call[c].now \in Nat
      /\ binding[call[c].key] \in Bindings
  BY DEF AcceptInv, Types, Calls
<1>2. CASE Lock(c)
  <2>1. /\ lock' \in [Keys -> Callers \union {NoCaller}] /\ lock'[call[c].key] = c
        /\ \A k \in Keys, d \in Callers : d # c /\ lock[k] = d => lock'[k] = d
    BY <1>1, <1>2, CallerAssumption DEF Lock, Types
  <2>2. Proceed(c, "locked", 0, NoBinding) /\ UNCHANGED <<time, made, binding>> /\ 0 <= time
    BY <1>1, <1>2, SMTT(30) DEF Lock, Types
  <2>3. QED BY <2>1, <2>2, ProceedKeeps, NoBindingTyped
<1>3. CASE ReadClock(c)
  <2>1. /\ lock' \in [Keys -> Callers \union {NoCaller}] /\ lock'[call[c].key] = c
        /\ \A k \in Keys, d \in Callers : d # c /\ lock[k] = d => lock'[k] = d
    BY <1>1, <1>3 DEF ReadClock, Types, CallOK
  <2>2. /\ Proceed(c, "timed", time, NoBinding) /\ UNCHANGED <<time, made, binding>>
        /\ time <= time /\ time \in Nat
    BY <1>1, <1>3, SMTT(30) DEF ReadClock, Types
  <2>3. QED BY <2>1, <2>2, ProceedKeeps, NoBindingTyped
<1>4. CASE ReadBinding(c)
  <2>1. /\ lock' \in [Keys -> Callers \union {NoCaller}] /\ lock'[call[c].key] = c
        /\ \A k \in Keys, d \in Callers : d # c /\ lock[k] = d => lock'[k] = d
    BY <1>1, <1>4 DEF ReadBinding, Types, CallOK
  <2>2. /\ Proceed(c, "deciding", call[c].now, binding[call[c].key])
        /\ UNCHANGED <<time, made, binding>> /\ call[c].now <= time
    BY <1>1, <1>4 DEF ReadBinding, CallOK
  <2>3. QED BY <1>1, <2>1, <2>2, ProceedKeeps, SMTT(30)
<1>5. QED BY <1>2, <1>3, <1>4

\* A replay answers with the Run the key is bound to.
LEMMA ReplayStep ==
    ASSUME AcceptInv, NEW c \in Callers, ReplayRun(c)
    PROVE  AcceptInv'
<1>1. /\ Types /\ CallOK(c) /\ call[c] \in Calls /\ call[c].key \in Keys
      /\ binding[call[c].key] \in Bindings /\ BindingOK(call[c].key)
  BY DEF AcceptInv, Types, Calls
<1>2. /\ call[c].seen.run \in 1..Len(made) /\ call[c].seen.run \in Nat
      /\ made[call[c].seen.run].key = call[c].key
  BY <1>1 DEF ReplayRun, Bound, CallOK, BindingOK, Bindings
<1>3. UNCHANGED <<time, made, binding>> BY DEF ReplayRun
<1>4. CASE made[call[c].seen.run].request = call[c].request /\ Ends(c, "accepted", call[c].seen.run)
  <2>1. "accepted" \in Outcomes BY DEF Outcomes
  <2>2. QED BY <1>2, <1>3, <1>4, <2>1, EndsKeeps
<1>5. CASE Ends(c, "conflict", 0)
  <2>1. "conflict" \in Outcomes /\ "conflict" # "accepted" BY DEF Outcomes
  <2>2. QED BY <1>3, <1>5, <2>1, EndsKeeps
<1>6. QED BY <1>4, <1>5 DEF ReplayRun

\* A rolled back call leaves nothing behind.
LEMMA AbortStep ==
    ASSUME AcceptInv, NEW c \in Callers, Abort(c)
    PROVE  AcceptInv'
<1>1. "failed" \in Outcomes /\ "failed" # "accepted" BY DEF Outcomes
<1>2. QED BY <1>1, EndsKeeps DEF Abort

\* Time passes.
LEMMA TickStep ==
    ASSUME AcceptInv, Elapse
    PROVE  AcceptInv'
<1>1. Types' BY SMTT(30) DEF AcceptInv, Elapse, Types
<1>2. ASSUME NEW c \in Callers PROVE CallOK(c)'
  <2>1. call[c].now \in Nat BY DEF AcceptInv, Types, Calls
  <2>2. QED BY <2>1, SMTT(30) DEF AcceptInv, Types, Elapse, CallOK
<1>3. ASSUME NEW i \in 1..Len(made') PROVE made'[i].at <= time'
  <2>1. i \in 1..Len(made) /\ Types BY DEF AcceptInv, Elapse
  <2>2. made[i].at \in Nat BY <2>1, MadeTyped
  <2>3. QED BY <2>1, <2>2, SMTT(30) DEF AcceptInv, Types, Elapse
<1>4. ASSUME NEW k \in Keys PROVE BindingOK(k)'
  BY DEF AcceptInv, Elapse, BindingOK
<1>5. RetriesNeverDuplicate' BY DEF AcceptInv, Elapse, RetriesNeverDuplicate
<1>6. QED BY <1>1, <1>2, <1>3, <1>4, <1>5 DEF AcceptInv

\* The Run is made and bound in one transaction.  The lock kept every other call of the key
\* from making one since the binding was read, so the Runs made under the key before are
\* older by a term.
LEMMA InsertStep ==
    ASSUME AcceptInv, NEW c \in Callers, Insert(c)
    PROVE  AcceptInv'
<1>0. PICK k \in Keys : k = call[c].key BY DEF AcceptInv, Types, Calls
<1> DEFINE n == Len(made) + 1
           row == [key |-> k, request |-> call[c].request, at |-> call[c].now]
           bound == [run |-> n, expires |-> call[c].now + BindingTTL]
<1>1. /\ Types /\ CallOK(c) /\ BindingOK(k) /\ call[c] \in Calls
      /\ call[c].request \in Bodies /\ call[c].now \in Nat /\ call[c].at = "deciding"
      /\ binding[k] \in Bindings /\ time \in Nat /\ BindingTTL \in Nat
  BY <1>0, TTLAssumption DEF AcceptInv, Types, Calls, Insert
<1>2. /\ lock[k] = c /\ call[c].now <= time /\ call[c].seen = binding[k]
  BY <1>0, <1>1 DEF CallOK
<1>3. /\ row \in MadeRuns /\ row.key = k /\ row.request = call[c].request /\ row.at = call[c].now
      /\ bound \in Bindings /\ bound.run = n /\ bound.expires = call[c].now + BindingTTL
  BY <1>1, SMTT(30) DEF MadeRuns, Bindings, Types
<1>4. /\ made' = Append(made, row) /\ binding' = [binding EXCEPT ![k] = bound] /\ time' = time
      /\ Ends(c, "accepted", n) \/ Ends(c, "failed", 0)
  BY <1>0 DEF Insert
<1> HIDE DEF row, bound
<1>5. /\ made' \in Seq(MadeRuns) /\ Len(made') = n /\ made'[n] = row
      /\ n \in Nat /\ Len(made) \in Nat
      /\ \A i \in 1..Len(made) : made'[i] = made[i] /\ made[i] \in MadeRuns
  BY <1>1, <1>3, <1>4, SMTT(30) DEF Types
<1>6. /\ binding' \in [Keys -> Bindings] /\ binding'[k] = bound
      /\ \A j \in Keys : j # k => binding'[j] = binding[j]
  BY <1>1, <1>3, <1>4 DEF Types
<1>7. PICK outcome \in {"accepted", "failed"}, id \in Nat :
         /\ Ends(c, outcome, id)
         /\ outcome = "accepted" => id = n
  BY <1>4, <1>5
<1>8. outcome \in Outcomes BY <1>7 DEF Outcomes
<1>9. /\ call' \in [Callers -> Calls] /\ lock' \in [Keys -> Callers \union {NoCaller}]
      /\ call'[c].at = outcome /\ call'[c].run = id
      /\ call'[c].key = k /\ call'[c].request = call[c].request
      /\ \A d \in Callers : d # c => call'[d] = call[d]
      /\ \A j \in Keys, d \in Callers : d # c /\ lock[j] = d => lock'[j] = d
  BY <1>0, <1>1, <1>7, <1>8, EndsFields, SMTT(30)
<1>10. Types'
  BY <1>1, <1>4, <1>5, <1>6, <1>9 DEF Types
<1>11. CallOK(c)'
  BY <1>3, <1>5, <1>7, <1>9, SMTT(30) DEF CallOK
<1>12. ASSUME NEW d \in Callers, d # c PROVE CallOK(d)'
  <2>1. CallOK(d) /\ call[d].key \in Keys /\ call'[d] = call[d]
    BY <1>9, <1>12 DEF AcceptInv, Types, Calls
  <2>2. lock[call[d].key] = d => call[d].key # k /\ lock'[call[d].key] = d
    BY <1>2, <1>9, <1>12, <2>1
  <2>3. call[d].at = "deciding" => call[d].seen = binding'[call[d].key]
    BY <1>6, <2>1, <2>2 DEF CallOK
  <2>4. call[d].run \in 1..Len(made) =>
           call[d].run \in 1..Len(made') /\ made'[call[d].run] = made[call[d].run]
    BY <1>5, SMTT(30)
  <2>5. QED BY <1>4, <2>1, <2>2, <2>3, <2>4 DEF CallOK
<1>13. \A i \in 1..Len(made) : made[i].at \in Nat /\ made[i].at <= time
  BY <1>5 DEF MadeRuns, AcceptInv
<1>14. ASSUME NEW i \in 1..Len(made), made[i].key = k PROVE made[i].at + BindingTTL <= call[c].now
  <2>1. binding[k].run # 0 BY <1>1, <1>14 DEF BindingOK
  <2>2. binding[k].expires <= call[c].now /\ binding[k].expires \in Nat
    BY <1>1, <1>2, <2>1, SMTT(30) DEF Insert, Bound, Bindings
  <2>3. /\ binding[k].run \in 1..Len(made)
        /\ binding[k].expires = made[binding[k].run].at + BindingTTL
    BY <1>1, <2>1 DEF BindingOK
  <2>4. CASE i = binding[k].run BY <2>2, <2>3, <2>4
  <2>5. CASE made[i].at + BindingTTL <= made[binding[k].run].at
    <3>1. made[binding[k].run].at \in Nat /\ made[i].at \in Nat BY <1>13, <2>3
    <3>2. \A x, y, ttl, now \in Nat : x + ttl <= y /\ y + ttl <= now => x + ttl <= now
      BY SMTT(30)
    <3>3. made[binding[k].run].at + BindingTTL <= call[c].now BY <2>2, <2>3
    <3>4. QED BY <1>1, <2>5, <3>1, <3>2, <3>3
  <2>6. QED BY <1>1, <1>14, <2>4, <2>5 DEF BindingOK
<1>15. BindingOK(k)'
  <2>1. ASSUME NEW i \in 1..Len(made'), made'[i].key = k
        PROVE  i = n \/ (i < n /\ made'[i].at + BindingTTL <= call[c].now)
    <3>1. CASE i = n BY <3>1
    <3>2. CASE i # n
      <4>1. i \in 1..Len(made) /\ made'[i] = made[i] BY <1>5, <3>2, SMTT(30)
      <4>2. QED BY <1>5, <1>14, <2>1, <4>1, SMTT(30)
    <3>3. QED BY <3>1, <3>2
  <2>2. n # 0 /\ n \in 1..Len(made') BY <1>5, SMTT(30)
  <2>3. binding'[k].run = n /\ binding'[k].expires = made'[n].at + BindingTTL /\ made'[n].key = k
    BY <1>3, <1>5, <1>6
  <2>4. made'[n].at = call[c].now BY <1>3, <1>5
  <2> HIDE DEF n
  <2>5. QED BY <2>1, <2>2, <2>3, <2>4 DEF BindingOK
<1>16. ASSUME NEW j \in Keys, j # k PROVE BindingOK(j)'
  <2>1. BindingOK(j) /\ binding'[j] = binding[j] BY <1>6, <1>16 DEF AcceptInv
  <2>2. \A i \in 1..Len(made') : made'[i].key = j => i \in 1..Len(made)
    BY <1>3, <1>5, <1>16, SMTT(30)
  <2>3. \A i \in 1..Len(made) : i \in 1..Len(made') /\ made'[i] = made[i] BY <1>5, SMTT(30)
  <2>4. QED BY <2>1, <2>2, <2>3 DEF BindingOK
<1>17. ASSUME NEW i \in 1..Len(made') PROVE made'[i].at <= time'
  <2>1. CASE i = n BY <1>2, <1>3, <1>4, <1>5, <2>1
  <2>2. CASE i # n BY <1>4, <1>5, <1>13, <2>2, SMTT(30)
  <2>3. QED BY <2>1, <2>2
<1>18. RetriesNeverDuplicate'
  <2>1. SUFFICES ASSUME NEW i \in 1..Len(made'), NEW j \in 1..Len(made'), i < j,
                        made'[i].key = made'[j].key
                 PROVE  made'[j].at >= made'[i].at + BindingTTL
    BY <1>5, SMTT(30) DEF RetriesNeverDuplicate
  <2>2. i \in 1..Len(made) /\ made'[i] = made[i] /\ made[i].at \in Nat BY <1>5, <1>13, <2>1, SMTT(30)
  <2>3. CASE j = n
    <3>1. made[i].at + BindingTTL <= call[c].now BY <1>3, <1>5, <1>14, <2>1, <2>2, <2>3
    <3>2. QED BY <1>1, <1>3, <1>5, <2>2, <2>3, <3>1
  <2>4. CASE j # n
    <3>1. j \in 1..Len(made) /\ made'[j] = made[j] BY <1>5, <2>4, SMTT(30)
    <3>2. RetriesNeverDuplicate /\ i \in DOMAIN made /\ j \in DOMAIN made
      BY <1>1, <2>2, <3>1, SMTT(30) DEF AcceptInv, Types
    <3>3. QED BY <2>1, <2>2, <3>1, <3>2 DEF RetriesNeverDuplicate
  <2>5. QED BY <2>3, <2>4
<1>19. (\A d \in Callers : CallOK(d)') /\ (\A j \in Keys : BindingOK(j)')
  <2>1. \A d \in Callers : CallOK(d)' BY <1>11, <1>12
  <2>2. \A j \in Keys : BindingOK(j)' BY <1>15, <1>16
  <2>3. QED BY <2>1, <2>2
<1>20. QED BY <1>10, <1>17, <1>18, <1>19 DEF AcceptInv

\* AcceptInv is an invariant of Accept.
THEOREM AcceptanceInvariant == AcceptanceSpec => []AcceptInv
<1>1. AcceptanceInit => AcceptInv BY InvStart
<1>2. AcceptInv /\ [AcceptanceNext]_acceptanceVars => AcceptInv'
  <2>1. SUFFICES ASSUME AcceptInv, [AcceptanceNext]_acceptanceVars PROVE AcceptInv' OBVIOUS
  <2>2. CASE UNCHANGED acceptanceVars
    BY <2>1, <2>2 DEF acceptanceVars, AcceptInv, Types, CallOK, BindingOK, RetriesNeverDuplicate
  <2>3. CASE AcceptanceNext
    BY <2>1, <2>3, SubmitStep, LockedSteps, ReplayStep, InsertStep, AbortStep, TickStep DEF AcceptanceNext
  <2>4. QED BY <2>1, <2>2, <2>3
<1>3. QED BY <1>1, <1>2, PTL DEF AcceptanceSpec

\* Two Runs accepted under one key are at least a binding's term apart, for any number of
\* callers and any order of their statements, failures and retries.
THEOREM RetriesMakeNoDuplicate == AcceptanceSpec => []RetriesNeverDuplicate
<1>1. AcceptInv => RetriesNeverDuplicate BY DEF AcceptInv
<1>2. QED BY <1>1, AcceptanceInvariant, PTL

\* A caller is answered with a Run of its own key and request.
THEOREM AnswersAreTheCallers == AcceptanceSpec => []AnswersMatch
<1>1. AcceptInv => AnswersMatch BY DEF AcceptInv, CallOK, AnswersMatch
<1>2. QED BY <1>1, AcceptanceInvariant, PTL

\* An accepted Run stays bound to its key for its whole term: a binding that replaced it
\* earlier would belong to a Run made after the term had passed.
THEOREM RunsStayBound == AcceptanceSpec => []BoundForItsTerm
<1>1. ASSUME AcceptInv PROVE BoundForItsTerm
  <2>1. SUFFICES ASSUME NEW i \in 1..Len(made), time < made[i].at + BindingTTL
                 PROVE  binding[made[i].key].run = i
    BY <1>1, SMTT(30) DEF BoundForItsTerm, AcceptInv, Types
  <2> DEFINE b == binding[made[i].key]
  <2>2. made[i] \in MadeRuns /\ made[i].key \in Keys /\ made[i].at \in Nat
    BY <1>1, MadeTyped DEF AcceptInv
  <2>3. BindingOK(made[i].key) BY <1>1, <2>2 DEF AcceptInv
  <2>4. /\ b.run \in 1..Len(made)
        /\ i = b.run \/ made[i].at + BindingTTL <= made[b.run].at
    BY <2>3 DEF BindingOK
  <2>5. made[b.run].at <= time /\ made[b.run].at \in Nat
    BY <1>1, <2>4, MadeTyped DEF AcceptInv
  <2>6. time \in Nat BY <1>1 DEF AcceptInv, Types
  <2> HIDE DEF b
  <2>7. ~(made[i].at + BindingTTL <= made[b.run].at)
    BY <2>1, <2>2, <2>5, <2>6, WithinTheTerm
  <2>8. QED BY <2>4, <2>7 DEF b
<1>2. QED BY <1>1, AcceptanceInvariant, PTL

-----------------------------------------------------------------------------
(* One Run, and the performance requests that create and move it *)

\* The states without an outgoing edge are exactly the five terminal ones.
LEMMA TerminalIsTerminalStates ==
    ASSUME NEW s
    PROVE  Terminal(s) <=> s \in TerminalStates
<1>1. ASSUME s \in TerminalStates PROVE Terminal(s)
  BY <1>1 DEF Terminal, WithoutSuccessor, CanTransition, States, TerminalStates, ActiveStates
<1>2. ASSUME Terminal(s) PROVE s \in TerminalStates
  <2>1. s \in States /\ \A to \in States : ~CanTransition(s, to)
    BY <1>2 DEF Terminal, WithoutSuccessor
  <2>2. "VALIDATING" \in States /\ "PROVISIONING" \in States /\ "RUNNING" \in States
        /\ "COLLECTING" \in States /\ "ANALYZING" \in States /\ "REPORTING" \in States
        /\ "COMPLETED" \in States /\ "ABORTED" \in States
    BY DEF States, ActiveStates, TerminalStates
  <2>3. QED
    BY <2>1, <2>2 DEF CanTransition, States, ActiveStates, TerminalStates
<1>3. QED BY <1>1, <1>2

\* An edge of the table leads from an active state to a state that is not the first one.
LEMMA EdgesAreForward ==
    ASSUME NEW from, NEW to, CanTransition(from, to)
    PROVE  from \in ActiveStates /\ to \in States /\ to # "CREATED"
BY DEF CanTransition, ActiveStates, TerminalStates, States

-----------------------------------------------------------------------------
(* The Run *)

\* The inductive invariant of a Run under Accept, Cancel and Advance.
RunInv == TypeOK /\ CapNeverStrandsARun /\ ClosedConsistently

\* An edge of the lifecycle leads deeper, and only terminal states are as deep as ten.
LEMMA EdgesLeadDeeper ==
    ASSUME NEW from, NEW to, CanTransition(from, to)
    PROVE  /\ Depth(from) \in 1..9 /\ Depth(to) \in 1..10 /\ Depth(from) < Depth(to)
           /\ to \notin TerminalStates => Depth(to) <= 9
BY SMTT(30) DEF CanTransition, Depth, TerminalStates

\* What Transition stores, through Cancel or Advance: the next revision of an unfinished Run.
LEMMA StampedResult ==
    ASSUME RunInv, NEW change \in Changes, NEW exit \in ExitCodes \union {Unset}, NEW now \in Times,
           TransitionAllowed(run, run.revision, change),
           run' = Stamped(run, Transition(run, change), exit, now)
    PROVE  /\ RunInv'
           /\ run.finishedAt = NotFinished
           /\ run'.revision = run.revision + 1
           /\ run'.updatedAt >= run.updatedAt
           /\ run.toolExit # Unset => run'.toolExit # Unset
<1>1. CanTransition(run.state, change.state) /\ ValidFailure(change)
  BY DEF TransitionAllowed
<1>2. run.state \in ActiveStates /\ change.state \in States
  BY <1>1, EdgesAreForward
<1>3. run \in RunRecords /\ run.state \notin TerminalStates
  BY <1>2, SMTT(30) DEF RunInv, TypeOK, Absent, ActiveStates, TerminalStates
<1>4. run.finishedAt = NotFinished
  BY <1>3 DEF RunInv, ClosedConsistently
<1> DEFINE updated == Later(run.updatedAt, now)
<1>5. updated \in Times /\ updated >= run.updatedAt /\ run.revision \in Nat
  <2>1. run.updatedAt \in Times /\ run.revision \in Nat
    BY <1>3 DEF RunRecords
  <2>2. run.updatedAt \in Nat /\ now \in Nat
    BY <2>1, TimesAssumption
  <2>3. QED BY <2>1, <2>2, SMTT(30) DEF Later
<1>6. /\ run'.state = change.state
      /\ run'.revision = run.revision + 1
      /\ run'.failure = change.failure
      /\ run'.updatedAt = updated
      /\ run'.finishedAt = IF Terminal(change.state) THEN updated ELSE run.finishedAt
      /\ run'.toolExit = IF exit = Unset THEN run.toolExit ELSE exit
  BY DEF Stamped, Transition
<1>7. change.failure \in FailureCodes \union {NoFailure}
  BY DEF Changes
<1> HIDE DEF updated
<1>8. run' \in RunRecords
  <2>1. run'.toolExit \in ExitCodes \union {Unset}
    BY <1>3, <1>6 DEF RunRecords
  <2>2. run'.finishedAt \in Times \union {NotFinished}
    BY <1>4, <1>5, <1>6
  <2>3. run' = [state |-> run'.state, revision |-> run'.revision, failure |-> run'.failure,
                updatedAt |-> run'.updatedAt, finishedAt |-> run'.finishedAt,
                toolExit |-> run'.toolExit]
    BY DEF Stamped
  <2>4. QED BY <1>2, <1>5, <1>6, <1>7, <2>1, <2>2, <2>3, SMTT(30) DEF RunRecords
<1>9. CapNeverStrandsARun'
  <2>1. run.revision <= Depth(run.state)
    BY DEF RunInv, CapNeverStrandsARun
  <2>2. run'.revision <= Depth(change.state)
    BY <1>1, <1>5, <1>6, <2>1, EdgesLeadDeeper, SMTT(30)
  <2>3. QED
    BY <1>1, <1>5, <1>6, <2>2, EdgesLeadDeeper, MaxRevisionAssumption, SMTT(30) DEF CapNeverStrandsARun
<1>10. ClosedConsistently'
  <2>1. run'.finishedAt = IF run'.state \in TerminalStates THEN run'.updatedAt ELSE NotFinished
    BY <1>4, <1>6, TerminalIsTerminalStates
  <2>2. /\ (run'.failure # NoFailure) <=> RequiresFailure(run'.state)
        /\ run'.failure # NoFailure => AcceptsFailure(run'.state, run'.failure)
    BY <1>1, <1>6 DEF ValidFailure, AcceptsFailure, RequiresFailure
  <2>3. QED BY <2>1, <2>2 DEF ClosedConsistently
<1>11. run.toolExit # Unset => run'.toolExit # Unset
  BY <1>6
<1>12. QED BY <1>4, <1>5, <1>6, <1>8, <1>9, <1>10, <1>11 DEF RunInv, TypeOK

\* The change that cancellation asks for is one the lifecycle knows.
LEMMA CancellationChange ==
    ASSUME NEW s PROVE Change(CancellationTarget(s)) \in Changes
BY DEF Change, CancellationTarget, Changes, States, ActiveStates, TerminalStates

\* Every operation on a Run preserves the invariant and writes one revision, or none.
LEMMA RunStep ==
    ASSUME RunInv, Next
    PROVE  /\ RunInv'
           /\ \/ run' = run
              \/ /\ run.finishedAt = NotFinished
                 /\ run'.revision = run.revision + 1
                 /\ run'.updatedAt >= run.updatedAt
                 /\ run.toolExit # Unset => run'.toolExit # Unset
<1>1. CASE \E now \in Times : Create(now)
  <2>1. PICK now \in Times : Create(now) BY <1>1
  <2>2. RunInv'
    BY <2>1, TimesAssumption, MaxRevisionAssumption, SMTT(30)
       DEF Create, RunInv, TypeOK, RunRecords, CapNeverStrandsARun, ClosedConsistently, Depth,
           States, ActiveStates, TerminalStates, RequiresFailure, AcceptsFailure, NoFailure
  <2>3. run.finishedAt = NotFinished /\ run'.revision = run.revision + 1
        /\ run'.updatedAt >= run.updatedAt /\ run.toolExit = Unset
    BY <2>1, TimesAssumption, SMTT(30) DEF Create, Absent
  <2>4. QED BY <2>2, <2>3
<1>2. CASE \E now \in Times : Cancel(now)
  <2>1. PICK now \in Times : Cancel(now) BY <1>2
  <2>2. CASE AlreadyCancelled(run)
    BY <2>1, <2>2 DEF Cancel, RunInv, TypeOK, CapNeverStrandsARun, ClosedConsistently
  <2>3. CASE ~AlreadyCancelled(run)
    <3> DEFINE c == Change(CancellationTarget(run.state))
    <3>1. c \in Changes BY CancellationChange
    <3>2. TransitionAllowed(run, run.revision, c)
      BY <2>1, <2>3 DEF Cancel, CancellationAllowed
    <3>3. run' = Stamped(run, Transition(run, c), Unset, now)
      BY <2>1, <2>3 DEF Cancel, RequestCancellation
    <3> HIDE DEF c
    <3>4. QED BY <3>1, <3>2, <3>3, StampedResult
  <2>4. QED BY <2>2, <2>3
<1>3. CASE \E now \in Times, change \in Changes, exit \in ExitCodes \union {Unset} :
              \E expected \in 1..run.revision : Advance(expected, change, exit, now)
  <2>1. PICK now \in Times, change \in Changes, exit \in ExitCodes \union {Unset} :
              \E expected \in 1..run.revision : Advance(expected, change, exit, now)
    BY <1>3
  <2>2. /\ TransitionAllowed(run, run.revision, change)
        /\ run' = Stamped(run, Transition(run, change), exit, now)
    BY <2>1 DEF Advance, TransitionAllowed
  <2>3. QED BY <2>2, StampedResult
<1>4. QED BY <1>1, <1>2, <1>3 DEF Next

\* The invariant holds of a Run that has not been accepted.
LEMMA RunStart == Init => RunInv
BY MaxRevisionAssumption, SMTT(30)
   DEF Init, RunInv, TypeOK, CapNeverStrandsARun, ClosedConsistently, Depth, Absent,
       TerminalStates, RequiresFailure, NoFailure

\* A Run under Repository.Cancel and Repository.Advance: the revision cap strands nobody,
\* and snapshots are closed consistently.
THEOREM RunInvariant == Spec => [](TypeOK /\ CapNeverStrandsARun /\ ClosedConsistently)
<1>1. RunInv /\ [Next]_run => RunInv'
  <2>1. CASE Next BY <2>1, RunStep
  <2>2. CASE UNCHANGED run
    BY <2>2 DEF RunInv, TypeOK, CapNeverStrandsARun, ClosedConsistently
  <2>3. QED BY <2>1, <2>2
<1>2. QED BY <1>1, RunStart, PTL DEF Spec, RunInv

\* Every write is one more revision of an unfinished Run, dated no earlier than the last
\* (Run.Transition).
THEOREM RunHistory == Spec => HistoryMonotone
<1>1. RunInv /\ [Next]_run => RunInv'
  <2>1. CASE Next BY <2>1, RunStep
  <2>2. CASE UNCHANGED run
    BY <2>2 DEF RunInv, TypeOK, CapNeverStrandsARun, ClosedConsistently
  <2>3. QED BY <2>1, <2>2
<1>2. RunInv /\ [Next]_run =>
        [/\ run.finishedAt = NotFinished
         /\ run'.revision = run.revision + 1
         /\ run'.updatedAt >= run.updatedAt
         /\ run.toolExit # Unset => run'.toolExit # Unset]_run
  BY RunStep
<1>3. QED BY <1>1, <1>2, RunStart, PTL DEF Spec, HistoryMonotone

\* Stamping a snapshot leaves its state.
LEMMA StampedState ==
    ASSUME NEW old, NEW change, NEW exit, NEW now
    PROVE  Stamped(old, Transition(old, change), exit, now).state = change.state
BY DEF Stamped, Transition

\* A write creates the Run, repeats it, or takes it along an edge of the lifecycle.
LEMMA RunEdge ==
    ASSUME Next
    PROVE  \/ run = Absent /\ run'.state = "CREATED"
           \/ run' = run
           \/ CanTransition(run.state, run'.state)
<1>1. ASSUME NEW now \in Times, Create(now) PROVE run = Absent /\ run'.state = "CREATED"
  BY <1>1 DEF Create
<1>2. ASSUME NEW now \in Times, Cancel(now), ~AlreadyCancelled(run)
      PROVE  CanTransition(run.state, run'.state)
  <2> DEFINE c == Change(CancellationTarget(run.state))
  <2>1. c.state = CancellationTarget(run.state) BY DEF Change
  <2>2. run' = Stamped(run, Transition(run, c), Unset, now) BY <1>2 DEF Cancel, RequestCancellation
  <2>3. run'.state = c.state BY <2>2, StampedState, SMTT(30)
  <2>4. CanTransition(run.state, c.state) BY <1>2 DEF Cancel, CancellationAllowed, TransitionAllowed
  <2>5. QED BY <2>3, <2>4
<1>3. ASSUME NEW now \in Times, Cancel(now), AlreadyCancelled(run) PROVE run' = run
  BY <1>3 DEF Cancel
<1>4. ASSUME NEW now, NEW change, NEW exit, NEW expected, Advance(expected, change, exit, now)
      PROVE  CanTransition(run.state, run'.state)
  <2>1. run'.state = change.state BY <1>4, StampedState, SMTT(30) DEF Advance
  <2>2. QED BY <1>4, <2>1 DEF Advance, TransitionAllowed
<1>5. QED BY <1>1, <1>2, <1>3, <1>4 DEF Next

\* The phase its client sees the Run in.
Seen == [r \in {"run"} |-> PhaseOf(run.state)]

\* The moves between phases that PublicRun makes.
Promised(from, to) ==
    \/ from = "absent" /\ to = "accepted"
    \/ from = "accepted" /\ to \in {"executing", "cancelled", "failed"}
    \/ from = "executing" /\ to \in {"evaluating", "cancelling", "failed"}
    \/ from = "evaluating" /\ to \in {"completed", "cancelling", "failed"}
    \/ from = "cancelling" /\ to \in {"cancelled", "failed"}

\* An edge of the lifecycle, and the acceptance, are promised or are not seen.
LEMMA EdgeIsPromised ==
    ASSUME NEW from, NEW to, (from = "ABSENT" /\ to = "CREATED") \/ CanTransition(from, to)
    PROVE  PhaseOf(to) = PhaseOf(from) \/ Promised(PhaseOf(from), PhaseOf(to))
<1>1. CASE from = "ABSENT" /\ to = "CREATED"
  BY <1>1, SMTT(30) DEF PhaseOf, Promised
<1>2. CASE CanTransition(from, to)
  BY <1>2 DEF CanTransition, PhaseOf, Promised
<1>3. QED BY <1>1, <1>2

\* A promised move is a step of PublicRun.
LEMMA PromisedMove ==
    ASSUME NEW from, NEW to, Promised(from, to), Seen["run"] = from,
           Seen' = [Seen EXCEPT !["run"] = to]
    PROVE  Public!Next
<1>1. ASSUME NEW S, from \in S PROVE Public!Move("run", S, to)
  BY <1>1 DEF Public!Move, Seen
<1>2. \/ Public!Accept("run") \/ Public!Execute("run") \/ Public!Evaluate("run")
      \/ Public!Complete("run") \/ Public!Fail("run") \/ Public!Cancel("run") \/ Public!Stop("run")
  BY <1>1 DEF Promised, Public!Accept, Public!Execute, Public!Evaluate, Public!Complete,
              Public!Fail, Public!Cancel, Public!Stop
<1>3. QED BY <1>2 DEF Public!Next

\* A Run that its owner, a recovery loop and the reconcilers move is seen to move only as its
\* client was promised (Repository.Cancel, Repository.Advance).
THEOREM RunsImplementPublicRun == Spec => ImplementsPublicRun
<1>1. Init => Public!Init
  <2>1. Absent.state = "ABSENT" BY DEF Absent
  <2>2. PhaseOf("ABSENT") = "absent" BY SMTT(30) DEF PhaseOf
  <2>3. QED BY <2>1, <2>2 DEF Init, Public!Init
<1>2. ASSUME [Next]_run PROVE [Public!Next]_Seen
  <2>1. CASE run' = run BY <2>1 DEF Seen
  <2>2. CASE Next /\ run' # run
    <3>1. Seen["run"] = PhaseOf(run.state) /\ Seen' = [Seen EXCEPT !["run"] = PhaseOf(run'.state)]
      BY DEF Seen
    <3>2. (run.state = "ABSENT" /\ run'.state = "CREATED") \/ CanTransition(run.state, run'.state)
      <4>1. Absent.state = "ABSENT" BY DEF Absent
      <4>2. QED BY <2>2, <4>1, RunEdge, SMTT(30)
    <3>3. PhaseOf(run'.state) = PhaseOf(run.state) => Seen' = Seen BY DEF Seen
    <3>4. CASE Promised(PhaseOf(run.state), PhaseOf(run'.state))
      BY <3>1, <3>4, PromisedMove
    <3>5. QED BY <3>2, <3>3, <3>4, EdgeIsPromised
  <2>3. QED BY <1>2, <2>1, <2>2
<1>3. ASSUME [Next]_run PROVE [Public!Next]_[r \in {"run"} |-> PhaseOf(run.state)]
  BY <1>2, <1>3 DEF Seen
<1>4. QED BY <1>1, <1>3, PTL DEF Spec, ImplementsPublicRun, Public!Spec

-----------------------------------------------------------------------------
(* Integration moves the Run only as the lifecycle allows *)

\* The rows and the admissions in progress are well formed.
Rows == [context : Contexts, disposition : Dispositions]
Admissions == [event : Events, context : Contexts, shares : BOOLEAN, at : {0} \union Times,
               stage : {"review", "insert", "commit"},
               disposition : Dispositions \union {Undecided}]

\* An admission that will create a Run has dated it, has found the baseline approved, and
\* shares its row (newIntegration); what is being admitted has no disposition yet.
AdmissionInv ==
    /\ clock \in Times
    /\ tx \in [Requests -> Admissions \union {None}]
    /\ requests \in [Requests -> Rows \union {None}]
    /\ \A q \in Requests : InProgress(q) =>
          requests[q] = None /\ (tx[q].stage = "commit" => tx[q].disposition \in Dispositions)
    /\ \A q \in Requests :
          InProgress(q) /\ (tx[q].stage = "insert" \/ tx[q].disposition = "accepted") =>
              tx[q].at \in Times /\ tx[q].shares = TRUE /\ Approved(baseline)

\* The inductive invariant of Integration.
IntegrationInv ==
    RunInv /\ AdmissionInv /\ AnswersAreStable /\ (\A t \in told : t.request \in Requests)

\* A retained disposition is a row, and no admission or row is the absence of one.
LEMMA NoneIsNone ==
    /\ \A c, d : [context |-> c, disposition |-> d] # None
    /\ \A row \in Rows : row = [context |-> row.context, disposition |-> row.disposition]
<1>1. ASSUME NEW c, NEW d PROVE [context |-> c, disposition |-> d] # None
  <2>1. "context" \in DOMAIN [context |-> c, disposition |-> d] OBVIOUS
  <2>2. "context" \notin DOMAIN None BY DEF None
  <2>3. QED BY <2>1, <2>2
<1>2. ASSUME NEW row \in Rows PROVE row = [context |-> row.context, disposition |-> row.disposition]
  BY DEF Rows
<1>3. QED BY <1>1, <1>2

\* A Run that was accepted stays, and only its acceptance can make one appear.
LEMMA RunStays ==
    ASSUME RunInv, NEW now \in Times,
           \/ Cancel(now)
           \/ \E change \in Changes, exit \in ExitCodes \union {Unset} :
                 Advance(run.revision, change, exit, now)
    PROVE  Next /\ RunInv' /\ run # Absent /\ run' # Absent
<1>1. run.state \in States
  <2>1. CASE Cancel(now)
    BY <2>1, EdgesAreForward
       DEF Cancel, CancellationAllowed, AlreadyCancelled, TransitionAllowed, States, ActiveStates,
           TerminalStates
  <2>2. CASE \E change \in Changes, exit \in ExitCodes \union {Unset} :
                 Advance(run.revision, change, exit, now)
    BY <2>2, EdgesAreForward DEF Advance, TransitionAllowed, States
  <2>3. QED BY <2>1, <2>2
<1>2. run # Absent /\ run \in RunRecords
  BY <1>1, SMTT(30) DEF Absent, States, ActiveStates, TerminalStates, RunInv, TypeOK
<1>3. run.revision \in Nat /\ run.revision >= 1
  BY <1>2, SMTT(30) DEF RunRecords
<1>4. Next
  BY <1>3, SMTT(30) DEF Next
<1>5. run' # Absent
  BY <1>2, <1>3, <1>4, RunStep, SMTT(30) DEF Absent
<1>6. QED BY <1>2, <1>4, <1>5, RunStep

\* What the review of a request finds (ResolveIntegrationAdmission).
LEMMA Reviewed ==
    ASSUME NEW c \in Contexts
    PROVE  /\ ReviewResult(c) \in Dispositions \union {Undecided}
           /\ ReviewResult(c) # "accepted"
           /\ ReviewResult(c) = Undecided => ReadsBaseline(c) = TRUE /\ Approved(baseline)
           /\ ReadsBaseline(c) \in BOOLEAN
BY IntegrationAssumption
   DEF ReviewResult, ResolveIntegrationAdmission, integrationBaseline, ReadsBaseline,
       Dispositions, Undecided, Verdicts

\* Every step moves the Run as the lifecycle does, or leaves it alone, and preserves what
\* is invariant of the Run.
LEMMA StepMovesTheRun ==
    ASSUME RunInv, AdmissionInv, IntegrationNext
    PROVE  (Next \/ UNCHANGED run) /\ RunInv'
<1>1. ASSUME NEW q \in Requests, NEW lost \in BOOLEAN, Commit(q, lost), ~UNCHANGED run
      PROVE  Next
  BY <1>1 DEF Commit, AdmissionInv, Next
<1>2. ASSUME Cancel(clock) PROVE Next
  BY <1>2, RunStays DEF AdmissionInv
<1>3. ASSUME MoveRun PROVE Next
  BY <1>3, RunStays DEF AdmissionInv, MoveRun
<1>4. ASSUME NEW e \in Events, NEW q \in Requests, NEW c \in Contexts, CancelIntegration(e, q, c)
      PROVE  Next \/ UNCHANGED run
  BY <1>2, <1>4 DEF CancelIntegration
<1>5. ASSUME NEW e \in Events, NEW q \in Requests, NEW c \in Contexts, NEW lost \in BOOLEAN,
             Replay(e, q, c, lost) \/ Begin(e, q, c)
      PROVE  UNCHANGED run
  BY <1>5 DEF Replay, Begin
<1>6. ASSUME NEW q \in Requests, Review(q) \/ InsertRun(q) \/ RollBack(q)
      PROVE  UNCHANGED run
  BY <1>6 DEF Review, InsertRun, RollBack
<1>7. ASSUME NEW to, NEW expected, TransitionBaseline(expected, to) \/ Tick
      PROVE  UNCHANGED run
  BY <1>7 DEF TransitionBaseline, Tick
<1>8. ASSUME RecoverIntegration PROVE Next
  BY <1>2, <1>8 DEF RecoverIntegration
<1>9. Next \/ UNCHANGED run
  BY <1>1, <1>3, <1>4, <1>5, <1>6, <1>7, <1>8 DEF IntegrationNext
<1>10. QED BY <1>9, RunStep DEF RunInv, TypeOK, CapNeverStrandsARun, ClosedConsistently

\* A step on the admission of q that gives it a well-formed record, or none, preserves
\* AdmissionInv while nothing else changes.
LEMMA AdmissionStep ==
    ASSUME AdmissionInv, NEW q \in Requests, NEW t \in Admissions \union {None},
           tx' = [tx EXCEPT ![q] = t], UNCHANGED <<clock, baseline, requests>>,
           t # None => requests[q] = None,
           t # None /\ t.stage = "commit" => t.disposition \in Dispositions,
           t # None /\ (t.stage = "insert" \/ t.disposition = "accepted") =>
               t.at \in Times /\ t.shares = TRUE /\ Approved(baseline)
    PROVE  AdmissionInv'
<1>1. tx'[q] = t /\ \A p \in Requests \ {q} : tx'[p] = tx[p]
  BY DEF AdmissionInv
<1>2. QED BY <1>1 DEF AdmissionInv, InProgress, Approved

\* Every step preserves AdmissionInv.
LEMMA AdmissionStays ==
    ASSUME AdmissionInv, IntegrationNext
    PROVE  AdmissionInv'
<1> USE DEF Dispositions, Undecided
<1>1. ASSUME NEW e \in Events, NEW q \in Requests, NEW c \in Contexts, Begin(e, q, c)
      PROVE  AdmissionInv'
  <2> DEFINE t == [event |-> e, context |-> c, shares |-> FALSE, at |-> 0,
                   stage |-> IF clock < Deadline[c] THEN "review" ELSE "commit",
                   disposition |-> IF clock < Deadline[c] THEN Undecided ELSE "expired"]
  <2>1. t \in Admissions BY DEF Admissions
  <2>2. tx' = [tx EXCEPT ![q] = t] /\ UNCHANGED <<clock, baseline, requests>> /\ requests[q] = None
    BY <1>1 DEF Begin
  <2>3. /\ t.stage # "insert" /\ t.disposition # "accepted"
        /\ t.stage = "commit" => t.disposition \in Dispositions
    OBVIOUS
  <2> HIDE DEF t
  <2>4. QED BY <2>1, <2>2, <2>3, AdmissionStep
<1>2. ASSUME NEW q \in Requests, Review(q) PROVE AdmissionInv'
  <2> DEFINE c == tx[q].context
             result == IF clock < Deadline[c] THEN ReviewResult(c) ELSE "expired"
             t == [event |-> tx[q].event, context |-> c, shares |-> ReadsBaseline(c),
                   at |-> IF result = Undecided THEN clock ELSE 0,
                   disposition |-> result,
                   stage |-> IF result = Undecided THEN "insert" ELSE "commit"]
  <2>1. tx[q] \in Admissions /\ clock \in Times
    BY <1>2 DEF Review, AdmissionInv, InProgress
  <2>2. tx' = [tx EXCEPT ![q] = t] /\ UNCHANGED <<clock, baseline, requests>> /\ requests[q] = None
    BY <1>2 DEF Review, AdmissionInv
  <2>3. c \in Contexts /\ tx[q].event \in Events BY <2>1 DEF Admissions
  <2>4. /\ result \in Dispositions \union {Undecided} /\ result # "accepted"
        /\ result = Undecided => ReadsBaseline(c) = TRUE /\ Approved(baseline)
        /\ ReadsBaseline(c) \in BOOLEAN
    BY <2>3, Reviewed
  <2> HIDE DEF c, result
  <2>5. t \in Admissions BY <2>1, <2>3, <2>4 DEF Admissions
  <2>6. /\ t.stage = "insert" => result = Undecided
        /\ t.disposition # "accepted"
        /\ result = Undecided => t.at \in Times /\ t.shares = TRUE
        /\ t.stage = "commit" => t.disposition \in Dispositions
    BY <2>1, <2>4
  <2> HIDE DEF t
  <2>7. QED BY <2>2, <2>4, <2>5, <2>6, AdmissionStep
<1>3. ASSUME NEW q \in Requests, InsertRun(q) PROVE AdmissionInv'
  <2> DEFINE t == [event |-> tx[q].event, context |-> tx[q].context, shares |-> tx[q].shares,
                   at |-> tx[q].at, stage |-> "commit",
                   disposition |-> IF clock < Deadline[tx[q].context]
                                   THEN "accepted" ELSE "expired"]
  <2>1. /\ tx[q] \in Admissions /\ requests[q] = None
        /\ tx[q].at \in Times /\ tx[q].shares = TRUE /\ Approved(baseline)
    BY <1>3 DEF InsertRun, AdmissionInv, InProgress
  <2>2. tx' = [tx EXCEPT ![q] = t] /\ UNCHANGED <<clock, baseline, requests>>
    BY <1>3 DEF InsertRun
  <2>3. t \in Admissions BY <2>1 DEF Admissions
  <2>4. t.at \in Times /\ t.shares = TRUE /\ t.disposition \in Dispositions BY <2>1
  <2> HIDE DEF t
  <2>5. QED BY <2>1, <2>2, <2>3, <2>4, AdmissionStep
<1>4. ASSUME NEW q \in Requests, NEW lost \in BOOLEAN, Commit(q, lost) PROVE AdmissionInv'
  <2>1. tx[q] \in Admissions /\ tx[q].disposition \in Dispositions
    BY <1>4 DEF Commit, AdmissionInv, InProgress
  <2>2. [context |-> tx[q].context, disposition |-> tx[q].disposition] \in Rows
    BY <2>1 DEF Admissions, Rows
  <2>3. /\ tx'[q] = None /\ \A p \in Requests \ {q} : tx'[p] = tx[p] /\ requests'[p] = requests[p]
        /\ tx' \in [Requests -> Admissions \union {None}]
        /\ requests' \in [Requests -> Rows \union {None}]
        /\ UNCHANGED <<clock, baseline>>
    BY <1>4, <2>2 DEF Commit, AdmissionInv
  <2>4. QED BY <2>3 DEF AdmissionInv, InProgress, Approved
<1>5. ASSUME NEW q \in Requests, RollBack(q) PROVE AdmissionInv'
  BY <1>5, AdmissionStep DEF RollBack
<1>6. ASSUME NEW to, NEW expected, TransitionBaseline(expected, to) PROVE AdmissionInv'
  BY <1>6 DEF TransitionBaseline, AdmissionInv, InProgress
<1>7. ASSUME Tick PROVE AdmissionInv'
  BY <1>7 DEF Tick, AdmissionInv, InProgress, Approved
<1>8. ASSUME UNCHANGED <<clock, baseline, requests, tx>> PROVE AdmissionInv'
  BY <1>8 DEF AdmissionInv, InProgress, Approved
<1>9. ASSUME NEW e \in Events, NEW q \in Requests, NEW c \in Contexts, NEW lost \in BOOLEAN,
             Replay(e, q, c, lost) \/ CancelIntegration(e, q, c)
      PROVE  AdmissionInv'
  BY <1>8, <1>9 DEF Replay, CancelIntegration
<1>10. ASSUME RecoverIntegration \/ MoveRun PROVE AdmissionInv'
  BY <1>8, <1>10 DEF RecoverIntegration, MoveRun
<1>11. QED
  BY <1>1, <1>2, <1>3, <1>4, <1>5, <1>6, <1>7, <1>9, <1>10 DEF IntegrationNext

\* Apart from Replay and Commit no step touches what the sender was told or what is
\* retained, and none of them makes a Run or ends its existence.
LEMMA OtherSteps ==
    ASSUME RunInv, AdmissionInv, IntegrationNext,
           ~ \E q \in Requests, lost \in BOOLEAN : Commit(q, lost),
           ~ \E e \in Events, q \in Requests, c \in Contexts, lost \in BOOLEAN : Replay(e, q, c, lost)
    PROVE  UNCHANGED <<requests, told>> /\ (run # Absent <=> run' # Absent)
<1>1. ASSUME Cancel(clock) PROVE run # Absent /\ run' # Absent
  BY <1>1, RunStays DEF AdmissionInv
<1>2. ASSUME MoveRun PROVE UNCHANGED <<requests, told>> /\ run # Absent /\ run' # Absent
  BY <1>2, RunStays DEF AdmissionInv, MoveRun
<1>3. ASSUME NEW e \in Events, NEW q \in Requests, NEW c \in Contexts, CancelIntegration(e, q, c)
      PROVE  UNCHANGED <<requests, told>> /\ (run # Absent <=> run' # Absent)
  BY <1>1, <1>3 DEF CancelIntegration
<1>4. ASSUME NEW e \in Events, NEW q \in Requests, NEW c \in Contexts, Begin(e, q, c)
      PROVE  UNCHANGED <<run, requests, told>>
  BY <1>4 DEF Begin
<1>5. ASSUME NEW q \in Requests, Review(q) \/ InsertRun(q) \/ RollBack(q)
      PROVE  UNCHANGED <<run, requests, told>>
  BY <1>5 DEF Review, InsertRun, RollBack
<1>6. ASSUME NEW to, NEW expected, TransitionBaseline(expected, to) \/ Tick
      PROVE  UNCHANGED <<run, requests, told>>
  BY <1>6 DEF TransitionBaseline, Tick
<1>7. ASSUME RecoverIntegration
      PROVE  UNCHANGED <<requests, told>> /\ run # Absent /\ run' # Absent
  BY <1>1, <1>7 DEF RecoverIntegration
<1>8. QED BY <1>2, <1>3, <1>4, <1>5, <1>6, <1>7 DEF IntegrationNext

\* Every step preserves the inductive invariant.
LEMMA IntegrationStep ==
    ASSUME IntegrationInv, IntegrationNext
    PROVE  IntegrationInv'
<1> DEFINE Accepted(q) == requests[q] # None /\ requests[q].disposition = "accepted"
           Stable == AnswersAreStable /\ \A t \in told : t.request \in Requests
<1>1. RunInv' /\ AdmissionInv'
  BY StepMovesTheRun, AdmissionStays DEF IntegrationInv
<1>2. ASSUME NEW e \in Events, NEW q \in Requests, NEW c \in Contexts, NEW lost \in BOOLEAN,
             Replay(e, q, c, lost)
      PROVE  Stable'
  <2>1. requests[q] = [context |-> c, disposition |-> Retained(q, c)]
    BY <1>2, NoneIsNone DEF Replay, Retained, IntegrationInv, AdmissionInv
  <2>2. UNCHANGED <<run, requests>>
    BY <1>2 DEF Replay
  <2>3. \A t \in told' : t \in told \/ t = [request |-> q, context |-> c,
                                           disposition |-> Retained(q, c)]
    BY <1>2 DEF Replay, Answer
  <2>4. QED BY <2>1, <2>2, <2>3, SMTT(30) DEF IntegrationInv, AnswersAreStable
<1>3. ASSUME NEW q \in Requests, NEW lost \in BOOLEAN, Commit(q, lost)
      PROVE  Stable'
  <2> DEFINE row == [context |-> tx[q].context, disposition |-> tx[q].disposition]
  <2>1. requests[q] = None /\ \A p \in Requests : requests[p] = None
    BY <1>3 DEF Commit, AttemptTaken, IntegrationInv, AdmissionInv
  <2>2. told = {} /\ run = Absent
    <3>1. ASSUME NEW t \in told PROVE FALSE
      <4>1. requests[t.request] = None
        BY <2>1 DEF IntegrationInv
      <4>2. [context |-> t.context, disposition |-> t.disposition] = None
        BY <4>1 DEF IntegrationInv, AnswersAreStable
      <4>3. QED BY <4>2, NoneIsNone
    <3>2. run = Absent
      BY <2>1 DEF IntegrationInv, AnswersAreStable
    <3>3. QED BY <3>1, <3>2
  <2>3. requests'[q] = row /\ \A p \in Requests \ {q} : requests'[p] = None
    BY <1>3, <2>1 DEF Commit, IntegrationInv, AdmissionInv
  <2>4. row # None /\ row.disposition = tx[q].disposition BY NoneIsNone
  <2>5. \A t \in told' : t = [request |-> q, context |-> tx[q].context,
                             disposition |-> tx[q].disposition]
    BY <1>3, <2>2 DEF Commit, Answer
  <2>6. run' # Absent <=> tx[q].disposition = "accepted"
    BY <1>3, <2>2, SMTT(30) DEF Commit, Create, Absent
  <2>7. \A t \in told' : t.request = q /\ requests'[t.request] = [context |-> t.context,
                                                               disposition |-> t.disposition]
    <3>1. TAKE t \in told'
    <3>2. t = [request |-> q, context |-> tx[q].context, disposition |-> tx[q].disposition]
      BY <2>5
    <3>3. t.request = q /\ t.context = tx[q].context /\ t.disposition = tx[q].disposition
      BY <3>2, SMTT(30)
    <3>4. [context |-> t.context, disposition |-> t.disposition] = row BY <3>3
    <3>5. QED BY <2>3, <3>3, <3>4
  <2> HIDE DEF row
  <2>8. QED BY <2>3, <2>4, <2>6, <2>7 DEF AnswersAreStable
<1>4. ASSUME UNCHANGED <<requests, told>>, run # Absent <=> run' # Absent
      PROVE  Stable'
  BY <1>4 DEF IntegrationInv, AnswersAreStable
<1>5. Stable'
  BY <1>2, <1>3, <1>4, OtherSteps DEF IntegrationInv
<1>6. QED BY <1>1, <1>5 DEF IntegrationInv

\* A Run appears only in the commit of an admission that shares an approved baseline.
LEMMA AdmissionApproved ==
    ASSUME IntegrationInv, IntegrationNext, run = Absent, run' # Absent
    PROVE  Approved(baseline)
<1>1. ASSUME NEW q \in Requests, NEW lost \in BOOLEAN, Commit(q, lost)
      PROVE  Approved(baseline)
  BY <1>1 DEF Commit, IntegrationInv, AdmissionInv
<1>2. ASSUME NEW e \in Events, NEW q \in Requests, NEW c \in Contexts, NEW lost \in BOOLEAN,
             Replay(e, q, c, lost)
      PROVE  FALSE
  BY <1>2 DEF Replay
<1>3. QED BY <1>1, <1>2, OtherSteps DEF IntegrationInv

\* The inductive invariant holds at the start.
LEMMA IntegrationStart == IntegrationInit => IntegrationInv
<1>1. IntegrationInit => RunInv BY RunStart DEF IntegrationInit
<1>2. IntegrationInit => AdmissionInv BY DEF IntegrationInit, AdmissionInv, InProgress
<1>3. IntegrationInit => AnswersAreStable /\ told = {}
  BY DEF IntegrationInit, Init, AnswersAreStable
<1>4. QED BY <1>1, <1>2, <1>3 DEF IntegrationInv

\* Stuttering preserves it.
LEMMA IntegrationStutter ==
    ASSUME IntegrationInv, UNCHANGED integrationVars
    PROVE  IntegrationInv'
BY DEF integrationVars, IntegrationInv, RunInv, TypeOK, CapNeverStrandsARun, ClosedConsistently,
       AdmissionInv, InProgress, Approved, AnswersAreStable

\* The inductive invariant is one.
LEMMA IntegrationInvariant == IntegrationSpec => []IntegrationInv
<1>1. IntegrationInv /\ [IntegrationNext]_integrationVars => IntegrationInv'
  BY IntegrationStep, IntegrationStutter
<1>2. QED BY <1>1, IntegrationStart, PTL DEF IntegrationSpec

\* Admission answers a request once and for all: however messages are repeated, answers
\* lost and transactions rolled back (integration.go:72-180).
THEOREM AdmissionAnswersAreStable == IntegrationSpec => []AnswersAreStable
<1>1. IntegrationInv => AnswersAreStable BY DEF IntegrationInv
<1>2. QED BY <1>1, IntegrationInvariant, PTL

\* No retirement slips between the review of a baseline and the commit of the Run that
\* pins it (integration.go:182-231).
THEOREM AdmissionSeesTheBaseline == IntegrationSpec => ApprovedWhenAdmitted
<1>1. IntegrationInv /\ [IntegrationNext]_integrationVars =>
          [run = Absent /\ run' # Absent => Approved(baseline)]_integrationVars
  BY AdmissionApproved
<1>2. QED BY <1>1, IntegrationInvariant, PTL DEF IntegrationSpec, ApprovedWhenAdmitted

\* What integration does to a Run implements the Run lifecycle.
THEOREM IntegrationMovesTheRun == IntegrationSpec => MovesTheRun
<1>1. IntegrationInit => Init BY DEF IntegrationInit
<1>2. IntegrationInv /\ [IntegrationNext]_integrationVars => [Next]_run
  BY StepMovesTheRun DEF IntegrationInv, integrationVars
<1>3. QED BY <1>1, <1>2, IntegrationInvariant, PTL DEF IntegrationSpec, MovesTheRun, Spec

\* So a Run of an integration request is never stranded by the revision cap: while it is open
\* there are revisions left to close it with (domain.go:193-286).
THEOREM CapStrandsNoIntegratedRun == IntegrationSpec => []CapNeverStrandsARun
BY IntegrationMovesTheRun, RunInvariant, PTL DEF MovesTheRun

\* It has a failure, an exit code and a finishing time exactly where its state calls for them.
THEOREM IntegratedRunsAreConsistent == IntegrationSpec => []ClosedConsistently
BY IntegrationMovesTheRun, RunInvariant, PTL DEF MovesTheRun

\* And its history is monotone although the database clock is not.
THEOREM IntegratedRunsAreMonotone == IntegrationSpec => HistoryMonotone
BY IntegrationMovesTheRun, RunHistory, PTL DEF MovesTheRun

\* And a client sees a Run of an integration request move only as any Run is promised to:
\* cancelled for its deadline, it is stopped first and never returns (integration.go,
\* integration_cancellation.go).
THEOREM IntegratedRunsImplementPublicRun == IntegrationSpec => ImplementsPublicRun
BY IntegrationMovesTheRun, RunsImplementPublicRun, PTL DEF MovesTheRun

=============================================================================
