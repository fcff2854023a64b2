---------------------------- MODULE MCIntegration ----------------------------
(***************************************************************************)
(* Constants of module Integration for TLC: c1 is catalogued, c2 is dated  *)
(* ahead of c1 and names a revision the native API cannot represent.       *)
(***************************************************************************)
EXTENDS Integration, TLC

CONSTANTS c1, c2

MCRequestedAt == (c1 :> 1) @@ (c2 :> 2)
MCDeadline == (c1 :> 2) @@ (c2 :> 3)
MCRegistry == (c1 :> "approved") @@ (c2 :> "unsupported")

=============================================================================
