---------------------------- MODULE MCWddmResidency ----------------------------
(* WddmResidency with two contexts and two allocations as model values.    *)
EXTENDS WddmResidency, TLC

CONSTANTS c1, c2, x1, x2
=============================================================================
