------------------------------- MODULE Baseline -------------------------------
(***************************************************************************)
(* The lifecycle of one version of a performance baseline                  *)
(* (internal/baseline/domain.go) as Repository.TransitionBaseline applies  *)
(* it under the row's lock (internal/postgres/baselines.go).               *)
(*                                                                         *)
(* A record is its state, its revision and the time of its last lifecycle  *)
(* event. Actors, reasons and the qualification evidence of a decision are *)
(* validated input that no later decision reads, and are left out.         *)
(***************************************************************************)
EXTENDS Naturals

BaselineStates == {"CANDIDATE", "QUALIFIED", "APPROVED", "RETIRED"}

allowedTransition(from, to) ==
    \/ from = "CANDIDATE" /\ to \in {"QUALIFIED", "RETIRED"}
    \/ from = "QUALIFIED" /\ to \in {"APPROVED", "RETIRED"}
    \/ from = "APPROVED" /\ to = "RETIRED"

\* New, stored by CreateBaseline unless the version exists. Its source Run is another,
\* completed one.
NewBaseline(now) == [state |-> "CANDIDATE", revision |-> 1, at |-> now]

\* Record.Transition returns no error: the decision is about the current revision
\* and is not dated before the last one.
BaselineTransitionAllowed(record, expected, to, now) ==
    /\ record.revision = expected
    /\ allowedTransition(record.state, to)
    /\ now >= record.at

BaselineTransition(record, to, now) ==
    [state |-> to, revision |-> record.revision + 1, at |-> now]

\* ResolveApprovedBaseline finds the version, and MatchesSelection holds of it.
Approved(record) == record.state = "APPROVED"

=============================================================================
