---------------------------- MODULE MCConnection ----------------------------
(* Connection with two processes of a runtime whose key counts restarts       *)
(* (oMLX), and one of each of two others: one whose readings carry no key and *)
(* no probe identifies (mlx-lm), and one whose key names what it serves.      *)
EXTENDS Connection, TLC

CONSTANTS r1, r2, r3, a, b, c, d, k

Choices ==
    {[hint |-> None, explicit |-> None], [hint |-> r2, explicit |-> None],
     [hint |-> None, explicit |-> r2]}

Runtimes == (a :> r1) @@ (b :> r1) @@ (c :> r2) @@ (d :> r3)
KeysOf   == (a :> {}) @@ (b :> {}) @@ (c :> {None}) @@ (d :> {k})
=============================================================================
