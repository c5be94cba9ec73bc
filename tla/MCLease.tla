------------------------------ MODULE MCLease ------------------------------
(* Lease with three frames and room for two, so that evictions, ties between *)
(* surfaces and silent leaders all occur within a few ticks.                 *)
EXTENDS Lease, TLC

Symmetry == Permutations(Frame)
============================================================================
