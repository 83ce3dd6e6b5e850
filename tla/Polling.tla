------------------------------ MODULE Polling -------------------------------
(***************************************************************************)
(* What the walks of SysPoll have in common: a timer's callback or a task  *)
(* that waits calls SysPoll itself, and the lists are walked from within.  *)
(***************************************************************************)
EXTENDS Naturals

CONSTANTS
  NULL,
  MaxDepth   \* bound: polls within polls

ASSUME DepthAssumption == MaxDepth \in Nat
=============================================================================
