----------------------------- MODULE Integration -----------------------------
(***************************************************************************)
(* Performance requests of another system: admission, cancellation and     *)
(* deadline recovery (internal/postgres/integration.go and                 *)
(* integration_cancellation.go, behind internal/httpapi/integration.go and *)
(* internal/app/integration_recovery.go), on the Run of module             *)
(* RunLifecycle and the baseline of module Baseline.                       *)
(*                                                                         *)
(* The requests of Requests ask for the same attempt, so that at most one  *)
(* of them has a Run. The sender may send any message any number of times, *)
(* with any event identifier, and may send another context under an old    *)
(* request identifier. A call that is refused without having changed       *)
(* anything (conflict, validation, storage error) is not a step; an answer *)
(* may be lost after the commit.                                           *)
(*                                                                         *)
(* An admission holds the advisory locks of its event and of its request   *)
(* from Begin to Commit, and a share lock on the baseline from Review on.  *)
(***************************************************************************)
EXTENDS RunLifecycle, Baseline, FiniteSets

CONSTANTS Requests,     \* request identifiers, of one attempt
          Events,       \* event identifiers of the sender
          Contexts,     \* contents of a request
          RequestedAt,  \* [Contexts -> Nat]
          Deadline,     \* [Contexts -> Nat]
          Registry      \* [Contexts -> verdict of the reviewed registry]

VARIABLES clock,        \* the database clock
          baseline,     \* the version the contexts pin, in its approved revision
          events,       \* integration_events: the digest kept for an event
          requests,     \* integration_requests: the retained dispositions
          tx,           \* the admission in progress for a request; at dates its Run
          told          \* the dispositions the sender has been given

integrationVars == <<run, clock, baseline, events, requests, tx, told>>

None == [none |-> TRUE]      \* no row, no transaction
Verdicts == {"approved", "forbidden", "unsupported"}
Dispositions == {"accepted", "expired", "unavailable_reference", "unsupported_revision"}

ASSUME IntegrationAssumption ==
    /\ RequestedAt \in [Contexts -> Nat] /\ Deadline \in [Contexts -> Nat]
    /\ \A c \in Contexts : RequestedAt[c] < Deadline[c]
    /\ Registry \in [Contexts -> Verdicts]

\* The digest of a message covers its type, its request and its context.
Digest(kind, q, c) == [kind |-> kind, request |-> q, context |-> c]

Undecided == "undecided"

\* A message that carries the context is not dated before the request was made.
ValidContext(c, time) == time >= RequestedAt[c]

InProgress(q) == tx[q] # None

\* Nobody holds the advisory locks of event e and request q.
LocksFree(e, q) == ~InProgress(q) /\ \A p \in Requests : InProgress(p) => tx[p].event # e

\* The event is new, or was kept for the same message.
SameDelivery(e, digest) == events[e] \in {None, digest}

KeepEvent(e, digest) == events' = [events EXCEPT ![e] = digest]

Answer(q, c, disposition, lost) ==
    told' = IF lost THEN told
            ELSE told \union {[request |-> q, context |-> c, disposition |-> disposition]}

IntegrationInit ==
    /\ Init
    /\ clock \in Times
    /\ baseline = BaselineTransition(NewBaseline(1), "QUALIFIED", 1)
    /\ events = [e \in Events |-> None]
    /\ requests = [q \in Requests |-> None]
    /\ tx = [q \in Requests |-> None]
    /\ told = {}

-----------------------------------------------------------------------------
(* Admission *)

\* Mutation: a request past its deadline is answered so, whatever was answered before.
ReplayCurrent(q, c) == IF clock < Deadline[c] THEN requests[q].disposition ELSE "expired"

\* The disposition a repeated request is answered with: the retained one, before any
\* check of the deadline or of the approval.
Retained(q, c) == requests[q].disposition

Replay(e, q, c, lost) ==
    /\ LocksFree(e, q)
    /\ SameDelivery(e, Digest("request", q, c))
    /\ requests[q] # None
    /\ requests[q].context = c
    /\ KeepEvent(e, Digest("request", q, c))
    /\ Answer(q, c, Retained(q, c), lost)
    /\ UNCHANGED <<run, clock, baseline, requests, tx>>

\* A request not seen before: the locks are taken, the clock is read.
Begin(e, q, c) ==
    /\ LocksFree(e, q)
    /\ SameDelivery(e, Digest("request", q, c))
    /\ requests[q] = None
    /\ ValidContext(c, clock)
    /\ tx' = [tx EXCEPT ![q] =
                 [event |-> e, context |-> c, shares |-> FALSE, at |-> 0,
                  stage |-> IF clock < Deadline[c] THEN "review" ELSE "commit",
                  disposition |-> IF clock < Deadline[c] THEN Undecided ELSE "expired"]]
    /\ UNCHANGED <<run, clock, baseline, events, requests, told>>

\* The pinned record is, in this revision, the approved one: a pin names the revision, and
\* retirement makes another.
integrationBaseline == Approved(baseline)

\* The reviewed registry's verdict on the context and, where it has no objection, the
\* baseline's.
ResolveIntegrationAdmission(c) ==
    IF Registry[c] = "approved" /\ ~integrationBaseline THEN "forbidden" ELSE Registry[c]

\* The disposition a verdict leads to.
ReviewResult(c) ==
    CASE ResolveIntegrationAdmission(c) = "unsupported" -> "unsupported_revision"
      [] ResolveIntegrationAdmission(c) = "forbidden" -> "unavailable_reference"
      [] ResolveIntegrationAdmission(c) = "approved" -> Undecided

\* Mutation: the baseline is read without FOR SHARE.
ReadsBaselineUnlocked(c) == FALSE

\* The baseline is read, and its row locked, only for a context the registry knows.
ReadsBaseline(c) == Registry[c] = "approved"

\* The review, and the second reading of the clock. A response dated before its
\* request is not valid: such an admission can only be rolled back.
Review(q) ==
    /\ InProgress(q)
    /\ tx[q].stage = "review"
    /\ ValidContext(tx[q].context, clock)
    /\ LET c == tx[q].context
           result == IF clock < Deadline[c] THEN ReviewResult(c) ELSE "expired"
       IN  tx' = [tx EXCEPT ![q] =
                     [event |-> tx[q].event, context |-> c, shares |-> ReadsBaseline(c),
                      at |-> IF result = Undecided THEN clock ELSE 0,
                      disposition |-> result,
                      stage |-> IF result = Undecided THEN "insert" ELSE "commit"]]
    /\ UNCHANGED <<run, clock, baseline, events, requests, told>>

\* INSERT INTO runs ... WHERE clock_timestamp() < deadline.
InsertRun(q) ==
    /\ InProgress(q)
    /\ tx[q].stage = "insert"
    /\ tx' = [tx EXCEPT ![q] =
                 [event |-> tx[q].event, context |-> tx[q].context, shares |-> tx[q].shares,
                  at |-> tx[q].at, stage |-> "commit",
                  disposition |-> IF clock < Deadline[tx[q].context]
                                  THEN "accepted" ELSE "expired"]]
    /\ UNCHANGED <<run, clock, baseline, events, requests, told>>

\* The attempt's unique index refuses a second request.
AttemptTaken(q) == \E p \in Requests \ {q} : requests[p] # None

\* The disposition and the event are inserted and the transaction is committed.
Commit(q, lost) ==
    /\ InProgress(q)
    /\ tx[q].stage = "commit"
    /\ ~AttemptTaken(q)
    /\ IF tx[q].disposition = "accepted" THEN Create(tx[q].at) ELSE UNCHANGED run
    /\ requests' = [requests EXCEPT ![q] = [context |-> tx[q].context,
                                            disposition |-> tx[q].disposition]]
    /\ KeepEvent(tx[q].event, Digest("request", q, tx[q].context))
    /\ Answer(q, tx[q].context, tx[q].disposition, lost)
    /\ tx' = [tx EXCEPT ![q] = None]
    /\ UNCHANGED <<clock, baseline>>

\* The transaction is rolled back: the attempt is taken, an error, a timeout, a crash.
RollBack(q) ==
    /\ InProgress(q)
    /\ tx' = [tx EXCEPT ![q] = None]
    /\ UNCHANGED <<run, clock, baseline, events, requests, told>>

-----------------------------------------------------------------------------
(* The Run and the baseline *)

\* CancelIntegration: a Run that is already terminal is answered as it is.
CancelIntegration(e, q, c) ==
    /\ LocksFree(e, q)
    /\ SameDelivery(e, Digest("cancel", q, c))
    /\ requests[q] = [context |-> c, disposition |-> "accepted"]
    /\ IF Terminal(run.state) THEN UNCHANGED run ELSE Cancel(clock)
    /\ KeepEvent(e, Digest("cancel", q, c))
    /\ UNCHANGED <<clock, baseline, requests, tx, told>>

RecoverableStates == ActiveStates \ {"CANCELLING"}

\* Mutation: Runs in evaluation are not recovered.
RecoverableExecution(q) ==
    /\ requests[q] # None
    /\ requests[q].disposition = "accepted"
    /\ clock >= Deadline[requests[q].context]
    /\ run.state \in RecoverableStates \ {"COLLECTING", "ANALYZING", "REPORTING"}

\* The row is selected by the recovery query.
Recoverable(q) ==
    /\ requests[q] # None
    /\ requests[q].disposition = "accepted"
    /\ clock >= Deadline[requests[q].context]
    /\ run.state \in RecoverableStates

\* RecoverIntegration, called at start and at every poll. A poll that fails, or finds
\* the row locked, changes nothing.
RecoverIntegration ==
    /\ \E q \in Requests : Recoverable(q)
    /\ Cancel(clock)
    /\ UNCHANGED <<clock, baseline, events, requests, tx, told>>

\* Repository.Cancel and Repository.Advance, called by the owner and by the reconcilers;
\* a call with an old revision is refused.
MoveRun ==
    /\ \/ Cancel(clock)
       \/ \E change \in {ch \in Changes : TransitionAllowed(run, run.revision, ch)} :
             \E exit \in ExitCodes \union {Unset} : Advance(run.revision, change, exit, clock)
    /\ UNCHANGED <<clock, baseline, events, requests, tx, told>>

\* TransitionBaseline waits for the row while an admission shares it.
TransitionBaseline(expected, to) ==
    /\ \A q \in Requests : InProgress(q) => ~tx[q].shares
    /\ BaselineTransitionAllowed(baseline, expected, to, clock)
    /\ baseline' = BaselineTransition(baseline, to, clock)
    /\ UNCHANGED <<run, clock, events, requests, tx, told>>

\* The database clock runs on, or is set back.
Tick ==
    /\ clock' \in Times \ {clock}
    /\ UNCHANGED <<run, baseline, events, requests, tx, told>>

IntegrationNext ==
    \/ \E e \in Events, q \in Requests, c \in Contexts :
          \/ \E lost \in BOOLEAN : Replay(e, q, c, lost)
          \/ Begin(e, q, c)
          \/ CancelIntegration(e, q, c)
    \/ \E q \in Requests :
          \/ Review(q)
          \/ InsertRun(q)
          \/ \E lost \in BOOLEAN : Commit(q, lost)
          \/ RollBack(q)
    \/ RecoverIntegration
    \/ MoveRun
    \/ \E to \in BaselineStates, expected \in 1..baseline.revision :
          TransitionBaseline(expected, to)
    \/ Tick

\* The recovery loop polls for ever and its failures are not for ever.
IntegrationSpec ==
    IntegrationInit /\ [][IntegrationNext]_integrationVars
        /\ WF_integrationVars(RecoverIntegration)

-----------------------------------------------------------------------------
(* Properties *)

\* What the sender has been told is what is retained and stays so, however often and
\* under whatever event a request is repeated, across lost answers, roll-backs, passed
\* deadlines and retired baselines; the requests of an attempt have one disposition
\* between them, and a Run exists exactly when that is an acceptance
\* (integration.go:72-180).
AnswersAreStable ==
    /\ \A t \in told : requests[t.request] = [context |-> t.context,
                                             disposition |-> t.disposition]
    /\ \A p, q \in Requests : requests[p] # None /\ requests[q] # None => p = q
    /\ run # Absent <=> \E q \in Requests : requests[q] # None
                                           /\ requests[q].disposition = "accepted"

\* A Run is admitted only while the baseline its request pins is approved: a retirement
\* that races the admission waits for the commit or is seen by the review
\* (integration.go:182-231, the FOR SHARE read).
ApprovedWhenAdmitted == [][run = Absent /\ run' # Absent => Approved(baseline)]_integrationVars

\* What integration does to a Run is what the lifecycle allows: created once, then moved
\* by cancellations and transitions.
MovesTheRun == Spec

\* A Run that is active past its deadline is cancelled or finishes, unless the clock is
\* set back (integration_cancellation.go:91).
OverdueRunsAreCancelled ==
    LET overdue == \E q \in Requests : /\ requests[q] # None
                                       /\ requests[q].disposition = "accepted"
                                       /\ clock >= Deadline[requests[q].context]
    IN  overdue ~> ~overdue \/ run.state \in TerminalStates \union {"CANCELLING"}

=============================================================================
