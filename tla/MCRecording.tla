---------------------------- MODULE MCRecording ----------------------------
(* Recording with two frames that share the storage, with one upset, and     *)
(* with one of them alone, for more replies and two upsets.                  *)
EXTENDS Recording, TLC

CONSTANTS f1, f2

Small == [frames |-> {f1, f2}, made |-> 2, turns |-> 2, keys |-> 2, pending |-> 2, upsets |-> 1]
Alone == [frames |-> {f1}, made |-> 4, turns |-> 2, keys |-> 1, pending |-> 2, upsets |-> 2]
Both == {Small, Alone}

Symmetry == Permutations(Frame)
============================================================================
