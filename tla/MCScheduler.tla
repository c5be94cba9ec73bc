---------------------------- MODULE MCScheduler ----------------------------
(* Scheduler with one slot fewer than there are keys, so that claims evict,  *)
(* replace and are refused while collections run.  One outcome of each kind: *)
(* the other failure reasons and degraded readings differ only in what they  *)
(* report, and module Connection tells them apart.                           *)
EXTENDS Scheduler, TLC

SomeOutcomes ==
    {[kind |-> "ready"],
     [kind |-> "degraded", unsupported |-> TRUE],
     [kind |-> "failed", reason |-> "runtime_unreachable"]}

Symmetry == Permutations(View) \cup Permutations(Key) \cup Permutations(Fingerprint)
============================================================================
