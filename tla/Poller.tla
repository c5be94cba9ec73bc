------------------------------- MODULE Poller -------------------------------
(***************************************************************************)
(* The poller of a panel, panel/data/poller.ts: "one request and one timer *)
(* at most", over start, stop, pause and refresh in any order.  Its state  *)
(* is a record and its methods operators on it, each whole.                *)
(*                                                                         *)
(* The code compares its generation only with the one a request began in,  *)
(* so a run (a request in flight) carries `kept`: TRUE until the           *)
(* generation moves on.  The other fields of a run belong to whoever polls.*)
(* Delays are left out: an armed timer goes off some time.                 *)
(***************************************************************************)
EXTENDS Naturals

CONSTANTS
    RunId,    \* names for requests in flight
    NoRun

\* A request that ends may start the next one before it is forgotten.
ASSUME PollerAssumption ==
    /\ NoRun \notin RunId
    /\ \E i, j \in RunId : i # j

newPoller ==
    [timer |-> FALSE, stopped |-> TRUE, paused |-> FALSE, restart |-> FALSE,
     pending |-> NoRun, runs |-> [r \in {} |-> NoRun]]

On(p) == ~ p.stopped /\ ~ p.paused

Cleared(p) == [p EXCEPT !.timer = FALSE]

\* generation += 1
NextGeneration(p) ==
    [p EXCEPT !.runs = [r \in DOMAIN p.runs |-> [p.runs[r] EXCEPT !.kept = FALSE]]]

Begun(p, run) ==
    LET id == CHOOSE i \in RunId : i \notin DOMAIN p.runs
    IN  [p EXCEPT !.pending = id,
                  !.runs = [r \in DOMAIN p.runs \cup {id} |->
                               IF r = id THEN run ELSE p.runs[r]]]

\* Mutant: a request in flight does not hold back another one.
RefreshedTwice(p, run) ==
    IF On(p) THEN Begun(Cleared(p), run) ELSE Cleared(p)

\* Mutant: an outdated request in flight is waited for, and nothing follows it.
RefreshedOnce(p, run) ==
    CASE p.pending # NoRun            -> Cleared(p)
      [] p.pending = NoRun /\ On(p)   -> Begun(Cleared(p), run)
      [] p.pending = NoRun /\ ~ On(p) -> Cleared(p)

\* refresh joins a request in flight, and has another one follow it when it is
\* outdated.
Refreshed(p, run) ==
    CASE p.pending # NoRun            -> [Cleared(p) EXCEPT
                                             !.restart = @ \/ ~ p.runs[p.pending].kept]
      [] p.pending = NoRun /\ On(p)   -> Begun(Cleared(p), run)
      [] p.pending = NoRun /\ ~ On(p) -> Cleared(p)

Started(p, run) ==
    IF p.stopped THEN Refreshed(NextGeneration([p EXCEPT !.stopped = FALSE]), run) ELSE p

Stopped(p) == Cleared(NextGeneration([p EXCEPT !.stopped = TRUE, !.restart = FALSE]))

SetPaused(p, paused, run) ==
    LET q == Cleared(NextGeneration([p EXCEPT !.paused = paused]))
    IN  CASE p.paused = paused             -> p
          [] p.paused # paused /\ On(q)    -> Refreshed(q, run)
          [] p.paused # paused /\ ~ On(q)  -> q

\* What follows run r, which has ended: the timer when the run is still the
\* generation's and polling is on; then a request that was held back for it.
\* Nothing else runs between the `then` and the `finally` of the code, which are
\* microtasks.
Followed(p, r) ==
    [p EXCEPT !.timer = @ \/ (p.runs[r].kept /\ On(p)),
              !.pending = IF @ = r THEN NoRun ELSE @]

Forgotten(p, r) == [p EXCEPT !.runs = [i \in DOMAIN p.runs \ {r} |-> p.runs[i]]]

\* Mutant: a request that was held back starts although polling is off.
SettledAnyway(p, r, run) ==
    LET q == Followed(p, r)
    IN  Forgotten(IF q.restart THEN Begun(Cleared([q EXCEPT !.restart = FALSE]), run) ELSE q, r)

\* Mutant: the request that ended is still taken for pending.
SettledPending(p, r, run) ==
    LET q == [p EXCEPT !.timer = @ \/ (p.runs[r].kept /\ On(p))]
    IN  Forgotten(IF q.restart /\ On(q) THEN Refreshed([q EXCEPT !.restart = FALSE], run)
                  ELSE q, r)

Settled(p, r, run) ==
    LET q == Followed(p, r)
    IN  Forgotten(IF q.restart /\ On(q) THEN Refreshed([q EXCEPT !.restart = FALSE], run)
                  ELSE q, r)

PollerType(Run) ==
    [timer : BOOLEAN, stopped : BOOLEAN, paused : BOOLEAN, restart : BOOLEAN,
     pending : RunId \cup {NoRun}, runs : UNION {[R -> Run] : R \in SUBSET RunId}]
=============================================================================
