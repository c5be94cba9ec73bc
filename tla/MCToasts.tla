------------------------------ MODULE MCToasts ------------------------------
(* Two frames, a connection and answers of none, of which the book keeps     *)
(* one, clocks of a few ticks.  A tick stands for about ten seconds of dwell *)
(* and for twenty of the limits, so that each of them passes within the run. *)
EXTENDS Toasts, TLC

CONSTANTS k1, unslotted

rule(onset, off, cooldown, toast, rank) ==
    [onset |-> onset, off |-> off, cooldown |-> cooldown, toast |-> toast, rank |-> rank]

MCRule ==
    ("runtime-lost"       :> rule(1, 0, 0, TRUE, 3)) @@
    ("model-unloaded"     :> rule(0, 0, 2, TRUE, 1)) @@
    ("splash-recovering"  :> rule(0, 0, 0, FALSE, 2)) @@
    ("omlx-prefill-stall" :> rule(1, 0, 0, FALSE, 2)) @@
    ("omlx-memory-guard"  :> rule(0, 1, 0, FALSE, 2)) @@
    ("pressure-warning"   :> rule(1, 1, 0, FALSE, 2)) @@
    ("pressure-critical"  :> rule(0, 1, 2, TRUE, 3)) @@
    ("swap-growth"        :> rule(0, 1, 2, TRUE, 1)) @@
    ("thermal"            :> rule(0, 1, 2, TRUE, 2))

MCPartFresh == [mac |-> 1, thermal |-> 2]
MCSwap == [window |-> 2, span |-> 1, on |-> 1, off |-> 1]

reading(state, loaded, flag) == [state |-> state, loaded |-> loaded, stale |-> flag, guard |-> flag]
host(age, level, hot, swap) == [age |-> age, level |-> level, hot |-> hot, swap |-> swap]

\* A model is gone, its runtime recovers, stalls, and the host warns; the runtime
\* is gone and nothing of the host is known; all is well but for the host.
Read1 ==
    { <<reading("recovering", 0, TRUE), host(0, 2, FALSE, 0)>>,
      <<reading("unreachable", None, FALSE), None>>,
      <<reading("ready", 1, FALSE), host(0, 4, TRUE, 1)>> }

\* Nothing of a runtime, and the host is as ill.
Read2 == { <<reading("failing", None, FALSE), host(0, 4, TRUE, 1)>> }

MCReading == (k1 :> Read1) @@ (unslotted :> Read2)

Symmetry == Permutations(Frame)

MCBadged == Alert \ {"splash-recovering", "omlx-prefill-stall", "omlx-memory-guard"}
============================================================================
