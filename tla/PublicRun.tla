------------------------------ MODULE PublicRun ------------------------------
(***************************************************************************)
(* What the control plane promises a client about its Runs, without leases,*)
(* workers or revisions: an accepted Run executes, is evaluated and is     *)
(* closed once; a cancelled Run is aborted at once if nothing has been     *)
(* provisioned for it, and otherwise is stopped first, and it never        *)
(* returns to execution or evaluation.                                     *)
(***************************************************************************)
CONSTANT Runs

VARIABLE phase

Move(r, from, to) ==
    /\ phase[r] \in from
    /\ phase' = [phase EXCEPT ![r] = to]

Init == phase = [r \in Runs |-> "absent"]

Accept(r) == Move(r, {"absent"}, "accepted")
Execute(r) == Move(r, {"accepted"}, "executing")
Evaluate(r) == Move(r, {"executing"}, "evaluating")
Complete(r) == Move(r, {"evaluating"}, "completed")
Fail(r) == Move(r, {"accepted", "executing", "evaluating", "cancelling"}, "failed")
Cancel(r) ==
    \/ Move(r, {"accepted"}, "cancelled")
    \/ Move(r, {"executing", "evaluating"}, "cancelling")
Stop(r) == Move(r, {"cancelling"}, "cancelled")

Next ==
    \E r \in Runs :
        \/ Accept(r) \/ Execute(r) \/ Evaluate(r) \/ Complete(r)
        \/ Fail(r) \/ Cancel(r) \/ Stop(r)

Spec == Init /\ [][Next]_phase

=============================================================================
