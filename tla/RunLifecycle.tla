----------------------------- MODULE RunLifecycle -----------------------------
(***************************************************************************)
(* One Run from its insertion on, under Repository.Cancel and              *)
(* Repository.Advance: each call locks the row (internal/postgres, mutate),*)
(* reads the clock after it has the lock, computes from the snapshot the   *)
(* next snapshot and writes it. Callers of Advance may hold any revision   *)
(* they have read before, and the wall clock may be set back between two   *)
(* calls.                                                                  *)
(*                                                                         *)
(* To the lifecycle of module Lifecycle this adds what a snapshot records  *)
(* about time and about the test process: updatedAt, finishedAt, toolExit. *)
(***************************************************************************)
EXTENDS Lifecycle

CONSTANT Times          \* readings of the database clock
CONSTANT ExitCodes      \* observed exit codes of the test process, 0..255

ASSUME TimesAssumption == Times \subseteq Nat \ {0}
ASSUME ExitCodesAssumption == ExitCodes \subseteq 0..255

VARIABLE run

Unset == 256            \* a nil ToolExitCode
NotFinished == 0        \* a nil FinishedAt

\* The row has not been inserted.
Absent ==
    [state |-> "ABSENT", revision |-> 0, failure |-> NoFailure, updatedAt |-> 0,
     finishedAt |-> NotFinished, toolExit |-> Unset]

RunRecords ==
    [state : States, revision : Nat \ {0}, failure : FailureCodes \union {NoFailure},
     updatedAt : Times, finishedAt : Times \union {NotFinished},
     toolExit : ExitCodes \union {Unset}]

Later(a, b) == IF a < b THEN b ELSE a

\* Mutation: a terminal snapshot without a finish time.
StampedOpen(old, new, exit, now) ==
    [state |-> new.state, revision |-> new.revision, failure |-> new.failure,
     updatedAt |-> Later(old.updatedAt, now),
     finishedAt |-> old.finishedAt,
     toolExit |-> IF exit = Unset THEN old.toolExit ELSE exit]

\* Mutation: the clock is trusted.
StampedUnclamped(old, new, exit, now) ==
    [state |-> new.state, revision |-> new.revision, failure |-> new.failure,
     updatedAt |-> now,
     finishedAt |-> IF Terminal(new.state) THEN now ELSE old.finishedAt,
     toolExit |-> IF exit = Unset THEN old.toolExit ELSE exit]

\* The clamped timestamps and the exit code that Transition adds to the new snapshot.
Stamped(old, new, exit, now) ==
    LET updated == Later(old.updatedAt, now) IN
    [state |-> new.state, revision |-> new.revision, failure |-> new.failure,
     updatedAt |-> updated,
     finishedAt |-> IF Terminal(new.state) THEN updated ELSE old.finishedAt,
     toolExit |-> IF exit = Unset THEN old.toolExit ELSE exit]

Init == run = Absent

\* Accept and admitIntegration store revision 1 of a new Run.
Create(now) ==
    /\ run = Absent
    /\ run' = [state |-> "CREATED", revision |-> 1, failure |-> NoFailure,
               updatedAt |-> now, finishedAt |-> NotFinished, toolExit |-> Unset]

Cancel(now) ==
    /\ CancellationAllowed(run)
    /\ run' = IF AlreadyCancelled(run) THEN run
              ELSE Stamped(run, RequestCancellation(run), Unset, now)

Advance(expected, change, exit, now) ==
    /\ TransitionAllowed(run, expected, change)
    /\ run' = Stamped(run, Transition(run, change), exit, now)

Next ==
    \/ \E now \in Times : Create(now) \/ Cancel(now)
    \/ \E now \in Times, change \in Changes, exit \in ExitCodes \union {Unset} :
          \E expected \in 1..run.revision : Advance(expected, change, exit, now)

Spec == Init /\ [][Next]_run

-----------------------------------------------------------------------------
(* Properties *)

TypeOK == run \in RunRecords \union {Absent}

\* The revision never runs ahead of the lifecycle, so that the revision cap in
\* Transition (domain.go:219) can never strand an active Run: however its callers
\* interleave, a Run that is not terminal is below maxRunRevision.
CapNeverStrandsARun ==
    /\ run.revision <= Depth(run.state)
    /\ run.state \notin TerminalStates => run.revision < MaxRevision

\* A snapshot is closed consistently: finishedAt is set exactly when the Run is
\* terminal and is the time of its last revision, and a failure is recorded exactly
\* when the terminal state calls for one and is of a kind that state accepts.
ClosedConsistently ==
    /\ run.finishedAt = IF run.state \in TerminalStates THEN run.updatedAt ELSE NotFinished
    /\ (run.failure # NoFailure) <=> RequiresFailure(run.state)
    /\ run.failure # NoFailure => AcceptsFailure(run.state, run.failure)

\* Each write is one revision of one unfinished Run: the revision grows by exactly
\* one, updatedAt never moves back although the clock may, and an exit code that was
\* recorded is not erased.
HistoryMonotone ==
    [][/\ run.finishedAt = NotFinished
       /\ run'.revision = run.revision + 1
       /\ run'.updatedAt >= run.updatedAt
       /\ run.toolExit # Unset => run'.toolExit # Unset]_run

Public == INSTANCE PublicRun WITH Runs <- {"run"},
                                  phase <- [r \in {"run"} |-> PhaseOf(run.state)]

\* A Run implements PublicRun: whoever cancels and advances it, each write is a step its
\* client was promised, or is invisible to it.
ImplementsPublicRun == Public!Spec

=============================================================================
