------------------------------ MODULE Lifecycle ------------------------------
(***************************************************************************)
(* The pinned Run lifecycle and the two operations that move a Run along   *)
(* it: Run.Transition and Run.RequestCancellation (internal/run/domain.go, *)
(* internal/contract/snapshot/transitions.json).                           *)
(*                                                                         *)
(* A Run is a record with at least the fields state, revision and failure. *)
(* The request, the identifiers and the wording of a failure are data the  *)
(* lifecycle never looks at and are left out.                              *)
(***************************************************************************)
EXTENDS Naturals

CONSTANT MaxRevision    \* maxRunRevision, 2^53 - 1 in the program

\* The longest path through the lifecycle visits ten states.
ASSUME MaxRevisionAssumption == MaxRevision \in Nat /\ MaxRevision >= 10

ActiveStates == {"CREATED", "VALIDATING", "PROVISIONING", "WARMING_UP", "RUNNING",
                 "COLLECTING", "ANALYZING", "REPORTING", "CANCELLING"}

TerminalStates == {"COMPLETED", "INVALID", "ABORTED", "INFRASTRUCTURE_FAILURE",
                   "TEST_FAILURE"}

States == ActiveStates \union TerminalStates

FailureCodes == {"VALIDATION_FAILED", "INFRASTRUCTURE_ERROR", "PIPELINE_TIMEOUT",
                 "TOOL_ERROR", "ANALYSIS_ERROR"}

NoFailure == "none"

\* contract.CanTransition over the pinned table.
CanTransition(from, to) ==
    \/ from = "CREATED" /\ to \in {"VALIDATING", "ABORTED"}
    \/ from = "VALIDATING"
       /\ to \in {"PROVISIONING", "INVALID", "INFRASTRUCTURE_FAILURE", "ABORTED"}
    \/ from = "PROVISIONING"
       /\ to \in {"WARMING_UP", "RUNNING", "INFRASTRUCTURE_FAILURE", "CANCELLING"}
    \/ from = "WARMING_UP"
       /\ to \in {"RUNNING", "COLLECTING", "INFRASTRUCTURE_FAILURE", "CANCELLING"}
    \/ from = "RUNNING" /\ to \in {"COLLECTING", "INFRASTRUCTURE_FAILURE", "CANCELLING"}
    \/ from = "COLLECTING"
       /\ to \in {"ANALYZING", "TEST_FAILURE", "INFRASTRUCTURE_FAILURE", "CANCELLING"}
    \/ from = "ANALYZING" /\ to \in {"REPORTING", "INFRASTRUCTURE_FAILURE", "CANCELLING"}
    \/ from = "REPORTING" /\ to \in {"COMPLETED", "INFRASTRUCTURE_FAILURE", "CANCELLING"}
    \/ from = "CANCELLING" /\ to \in {"ABORTED", "INFRASTRUCTURE_FAILURE"}

\* contract.Terminal: a state of the table without an outgoing edge.
WithoutSuccessor == {state \in States : \A to \in States : ~CanTransition(state, to)}

Terminal(state) == state \in WithoutSuccessor

AcceptsFailure(state, code) ==
    \/ state = "INVALID" /\ code = "VALIDATION_FAILED"
    \/ state = "TEST_FAILURE" /\ code = "TOOL_ERROR"
    \/ /\ state = "INFRASTRUCTURE_FAILURE"
       /\ code \in {"INFRASTRUCTURE_ERROR", "PIPELINE_TIMEOUT", "ANALYSIS_ERROR"}

RequiresFailure(state) == state \in {"INVALID", "TEST_FAILURE", "INFRASTRUCTURE_FAILURE"}

Changes == [state : States, failure : FailureCodes \union {NoFailure}]

Change(state) == [state |-> state, failure |-> NoFailure]

Failing(state, code) == [state |-> state, failure |-> code]

\* The failure checks of Transition.
ValidFailure(change) ==
    /\ change.failure # NoFailure => AcceptsFailure(change.state, change.failure)
    /\ RequiresFailure(change.state) => change.failure # NoFailure

\* Mutation: any state may follow any state that is not terminal.
AnyTransitionAllowed(run, expected, change) ==
    /\ run.revision = expected
    /\ run.revision < MaxRevision
    /\ run.state \in ActiveStates
    /\ ValidFailure(change)

\* Mutation: the expected revision is not compared.
StaleTransitionAllowed(run, expected, change) ==
    /\ run.revision < MaxRevision
    /\ CanTransition(run.state, change.state)
    /\ ValidFailure(change)

\* Transition returns no error. ErrRevision (revision # expected) is the one error
\* callers tell apart from the others.
TransitionAllowed(run, expected, change) ==
    /\ run.revision = expected
    /\ run.revision < MaxRevision
    /\ CanTransition(run.state, change.state)
    /\ ValidFailure(change)

\* Mutation: a write that leaves the revision as it was.
TransitionInPlace(run, change) ==
    [state |-> change.state, revision |-> run.revision, failure |-> change.failure]

\* Mutation: a write that counts twice.
TransitionTwice(run, change) ==
    [state |-> change.state, revision |-> run.revision + 2, failure |-> change.failure]

\* The Run that Transition returns. change.Failure replaces the failure even when nil.
Transition(run, change) ==
    [state |-> change.state, revision |-> run.revision + 1, failure |-> change.failure]

\* The edge RequestCancellation takes from an active state.
CancellationTarget(state) ==
    IF state \in {"CREATED", "VALIDATING"} THEN "ABORTED" ELSE "CANCELLING"

AlreadyCancelled(run) == run.state \in {"CANCELLING", "ABORTED"}

\* Mutation: closed Runs can be cancelled.
AnyCancellationAllowed(run) == run.state \in States

\* RequestCancellation returns no error.
CancellationAllowed(run) ==
    \/ AlreadyCancelled(run)
    \/ TransitionAllowed(run, run.revision, Change(CancellationTarget(run.state)))

RequestCancellation(run) ==
    IF AlreadyCancelled(run) THEN run
    ELSE Transition(run, Change(CancellationTarget(run.state)))

-----------------------------------------------------------------------------
(* What properties say of a state *)

\* The position of a state on the longest path that reaches it.
Depth(state) ==
    CASE state = "ABSENT" -> 0
      [] state = "CREATED" -> 1
      [] state = "VALIDATING" -> 2
      [] state = "PROVISIONING" -> 3
      [] state = "WARMING_UP" -> 4
      [] state = "RUNNING" -> 5
      [] state = "COLLECTING" -> 6
      [] state = "ANALYZING" -> 7
      [] state = "REPORTING" -> 8
      [] state = "CANCELLING" -> 9
      [] OTHER -> 10

\* The phase a client sees a Run in.
PhaseOf(state) ==
    CASE state \in {"CREATED", "VALIDATING"} -> "accepted"
      [] state \in {"PROVISIONING", "WARMING_UP", "RUNNING"} -> "executing"
      [] state \in {"COLLECTING", "ANALYZING", "REPORTING"} -> "evaluating"
      [] state = "CANCELLING" -> "cancelling"
      [] state = "COMPLETED" -> "completed"
      [] state = "ABORTED" -> "cancelled"
      [] state \in {"INVALID", "TEST_FAILURE", "INFRASTRUCTURE_FAILURE"} -> "failed"
      [] OTHER -> "absent"

=============================================================================
