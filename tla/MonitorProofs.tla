---------------------------- MODULE MonitorProofs ----------------------------
(***************************************************************************)
(* What a polling frame promises for any selections and generations.       *)
(***************************************************************************)
EXTENDS Monitor, FiniteSetTheorems, TLAPS

\* A poller between two tasks: one request at most, which is the pending one,
\* and a timer only while polling is on and no request is pending.
Sound(p) ==
    /\ p \in PollerType(Run)
    /\ DOMAIN p.runs = {p.pending} \ {NoRun}
    /\ p.timer => p.pending = NoRun /\ On(p)

\* The poller is started in a mounted frame that is shown, and paused when the
\* frame cannot be seen.
GateDecides ==
    /\ poller.stopped = ~ (mounted /\ page = "shown")
    /\ mounted => poller.paused = ~ live

\* A request whose answer counts asked for the selection, and was asked since.
CurrentRuns ==
    \A r \in DOMAIN poller.runs : poller.runs[r].current =>
        poller.runs[r].selection = selection /\ r \notin earlier.runs

\* A reading from before is shown as one.
EarlierIsMarked == earlier.reading => view.awaitingFresh \/ view.frame

MonitorInv ==
    /\ TypeOK
    /\ Sound(poller)
    /\ GateDecides
    /\ CurrentRuns
    /\ EarlierIsMarked
    /\ FreshIsWatched
    /\ OneConnectionObserved
    /\ RefreshIsInFlight

----------------------------------------------------------------------------
(* The poller's methods.                                                   *)

LEMMA PollerFields ==
    ASSUME NEW p \in PollerType(Run)
    PROVE  /\ p.timer \in BOOLEAN /\ p.stopped \in BOOLEAN /\ p.paused \in BOOLEAN
           /\ p.restart \in BOOLEAN /\ p.pending \in RunId \cup {NoRun}
           /\ p.runs \in [DOMAIN p.runs -> Run] /\ DOMAIN p.runs \subseteq RunId
BY DEF PollerType

LEMMA BegunFacts ==
    ASSUME NEW p \in PollerType(Run), NEW run \in Run,
           NEW r \in RunId, DOMAIN p.runs \subseteq {r}
    PROVE  LET q == Begun(p, run)
           IN  /\ q \in PollerType(Run)
               /\ q.timer = p.timer /\ q.stopped = p.stopped /\ q.paused = p.paused
               /\ q.pending \in RunId \ DOMAIN p.runs
               /\ DOMAIN q.runs = DOMAIN p.runs \cup {q.pending}
               /\ q.runs[q.pending] = run
               /\ \A i \in DOMAIN p.runs : q.runs[i] = p.runs[i]
<1> DEFINE id == CHOOSE i \in RunId : i \notin DOMAIN p.runs
           runs == [i \in DOMAIN p.runs \cup {id} |-> IF i = id THEN run ELSE p.runs[i]]
<1>1. id \in RunId /\ id \notin DOMAIN p.runs
  <2>1. \E i \in RunId : i \notin DOMAIN p.runs
    BY PollerAssumption
  <2> QED
    BY <2>1
<1>2. Begun(p, run) = [p EXCEPT !.pending = id, !.runs = runs]
  BY DEF Begun
<1>3. runs \in [DOMAIN runs -> Run] /\ DOMAIN runs \subseteq RunId
  BY <1>1, PollerFields
<1> HIDE DEF id
<1>4. runs \in UNION {[R -> Run] : R \in SUBSET RunId}
  BY <1>3
<1>5. DOMAIN runs = DOMAIN p.runs \cup {id} /\ runs[id] = run
      /\ \A i \in DOMAIN p.runs : runs[i] = p.runs[i]
  BY <1>1
<1> HIDE DEF runs
<1> QED
  BY <1>1, <1>2, <1>4, <1>5 DEF PollerType

LEMMA NextGenerationFacts ==
    ASSUME NEW p \in PollerType(Run)
    PROVE  LET q == NextGeneration(p)
           IN  /\ q \in PollerType(Run)
               /\ q.timer = p.timer /\ q.stopped = p.stopped /\ q.paused = p.paused
               /\ q.pending = p.pending /\ q.restart = p.restart
               /\ DOMAIN q.runs = DOMAIN p.runs
               /\ \A r \in DOMAIN p.runs : q.runs[r].current = p.runs[r].current
                                           /\ q.runs[r].selection = p.runs[r].selection
<1> DEFINE runs == [r \in DOMAIN p.runs |-> [p.runs[r] EXCEPT !.kept = FALSE]]
<1>1. runs \in UNION {[R -> Run] : R \in SUBSET RunId}
  <2>1. runs \in [DOMAIN p.runs -> Run]
    BY PollerFields DEF Run
  <2> QED
    BY <2>1, PollerFields
<1>2. \A r \in DOMAIN p.runs : runs[r].current = p.runs[r].current
                               /\ runs[r].selection = p.runs[r].selection
  BY PollerFields DEF Run
<1>3. DOMAIN runs = DOMAIN p.runs /\ NextGeneration(p) = [p EXCEPT !.runs = runs]
  BY DEF NextGeneration
<1> HIDE DEF runs
<1> QED
  BY <1>1, <1>2, <1>3 DEF PollerType

\* state.generation += 1 leaves no request that counts.
LEMMA DiscardedFacts ==
    ASSUME NEW p, Sound(p)
    PROVE  LET q == Discarded(p)
           IN  /\ Sound(q)
               /\ q.stopped = p.stopped /\ q.paused = p.paused
               /\ DOMAIN q.runs = DOMAIN p.runs
               /\ \A r \in DOMAIN q.runs : ~ q.runs[r].current
<1>0. p \in PollerType(Run)
  BY DEF Sound
<1> DEFINE runs == [r \in DOMAIN p.runs |-> [p.runs[r] EXCEPT !.current = FALSE]]
<1>1. runs \in UNION {[R -> Run] : R \in SUBSET RunId}
  <2>1. runs \in [DOMAIN p.runs -> Run]
    BY <1>0, PollerFields DEF Run
  <2> QED
    BY <1>0, <2>1, PollerFields
<1>2. \A r \in DOMAIN p.runs : ~ runs[r].current
  BY <1>0, PollerFields DEF Run
<1>3. DOMAIN runs = DOMAIN p.runs /\ Discarded(p) = [p EXCEPT !.runs = runs]
  BY DEF Discarded
<1> HIDE DEF runs
<1>4. LET q == Discarded(p)
      IN  /\ q \in PollerType(Run) /\ q.runs = runs /\ q.timer = p.timer
          /\ q.stopped = p.stopped /\ q.paused = p.paused /\ q.pending = p.pending
  BY <1>0, <1>1, <1>3 DEF PollerType
<1> QED
  BY <1>2, <1>3, <1>4 DEF Sound, On

\* The requests of q are those of p, but for one that began as `run` while
\* polling was on.
Continues(q, p, run) ==
    /\ Sound(q)
    /\ DOMAIN p.runs \subseteq DOMAIN q.runs
    /\ \A r \in DOMAIN q.runs : \/ r \in DOMAIN p.runs
                                   /\ q.runs[r].current = p.runs[r].current
                                   /\ q.runs[r].selection = p.runs[r].selection
                                \/ r \notin DOMAIN p.runs /\ q.runs[r] = run /\ On(q)

LEMMA RefreshedFacts ==
    ASSUME NEW p, Sound(p), NEW run \in Run
    PROVE  LET q == Refreshed(p, run)
           IN  /\ Continues(q, p, run)
               /\ q.stopped = p.stopped /\ q.paused = p.paused
               /\ On(p) => DOMAIN q.runs # {}
               /\ p.pending # NoRun => q.pending = p.pending
<1>0. p \in PollerType(Run) /\ DOMAIN p.runs = {p.pending} \ {NoRun}
  BY DEF Sound
<1> DEFINE c == Cleared(p)
<1>1. /\ c \in PollerType(Run) /\ c.runs = p.runs /\ c.timer = FALSE /\ c.restart = p.restart
      /\ c.stopped = p.stopped /\ c.paused = p.paused /\ c.pending = p.pending
  BY <1>0 DEF Cleared, PollerType
<1> HIDE DEF c
<1>2. CASE p.pending # NoRun
  <2> DEFINE late == c.restart \/ ~ p.runs[p.pending].kept
             q == [c EXCEPT !.restart = late]
  <2>1. Refreshed(p, run) = [c EXCEPT !.restart = late]
    BY <1>2 DEF Refreshed, c
  <2>2. late \in BOOLEAN
    OBVIOUS
  <2> HIDE DEF late
  <2>3. /\ q \in PollerType(Run) /\ q.runs = p.runs /\ q.timer = FALSE
        /\ q.stopped = p.stopped /\ q.paused = p.paused /\ q.pending = p.pending
    BY <1>1, <2>2 DEF PollerType
  <2> HIDE DEF q
  <2> QED
    BY <1>0, <1>2, <2>1, <2>3 DEF q, Sound, On, Continues
<1>3. CASE p.pending = NoRun /\ On(p)
  <2> DEFINE q == Begun(c, run)
  <2>1. Refreshed(p, run) = q
    BY <1>3 DEF Refreshed, c
  <2>2. DOMAIN c.runs = {}
    BY <1>0, <1>1, <1>3
  <2>3. PICK r \in RunId : TRUE
    BY PollerAssumption
  <2>4. /\ q \in PollerType(Run)
        /\ q.timer = FALSE /\ q.stopped = p.stopped /\ q.paused = p.paused
        /\ q.pending \in RunId
        /\ DOMAIN q.runs = {q.pending}
        /\ q.runs[q.pending] = run
    BY <1>1, <2>2, <2>3, BegunFacts
  <2> HIDE DEF q
  <2> QED
    BY <1>0, <1>3, <2>1, <2>4, PollerAssumption DEF Sound, On, Continues
<1>4. CASE p.pending = NoRun /\ ~ On(p)
  <2>1. Refreshed(p, run) = c
    BY <1>4 DEF Refreshed, c
  <2> QED
    BY <1>0, <1>1, <1>4, <2>1 DEF Sound, On, Continues
<1> QED
  BY <1>2, <1>3, <1>4

LEMMA SetPausedFacts ==
    ASSUME NEW p, Sound(p), NEW paused \in BOOLEAN, NEW run \in Run
    PROVE  LET q == SetPaused(p, paused, run)
           IN  /\ Continues(q, p, run)
               /\ q.stopped = p.stopped /\ q.paused = paused
<1>0. p \in PollerType(Run) /\ DOMAIN p.runs = {p.pending} \ {NoRun}
  BY DEF Sound
<1> DEFINE flipped == [p EXCEPT !.paused = paused]
           next == NextGeneration(flipped)
           c == Cleared(next)
<1>1. /\ flipped \in PollerType(Run)
      /\ flipped.runs = p.runs /\ flipped.pending = p.pending
      /\ flipped.stopped = p.stopped /\ flipped.paused = paused
  BY <1>0 DEF PollerType
<1> HIDE DEF flipped
<1>2. /\ next \in PollerType(Run)
      /\ next.stopped = p.stopped /\ next.paused = paused /\ next.pending = p.pending
      /\ DOMAIN next.runs = DOMAIN p.runs
      /\ \A r \in DOMAIN p.runs : next.runs[r].current = p.runs[r].current
                                  /\ next.runs[r].selection = p.runs[r].selection
  BY <1>1, NextGenerationFacts
<1> HIDE DEF next
<1>3. /\ c \in PollerType(Run) /\ c.runs = next.runs /\ c.timer = FALSE
      /\ c.stopped = p.stopped /\ c.paused = paused /\ c.pending = p.pending
  BY <1>2 DEF Cleared, PollerType
<1>4. SetPaused(p, paused, run) = IF p.paused = paused THEN p
                                  ELSE IF On(c) THEN Refreshed(c, run) ELSE c
  BY DEF SetPaused, c, next, flipped
<1> HIDE DEF c
<1>5. Sound(c)
  BY <1>0, <1>2, <1>3 DEF Sound
<1>6. CASE p.paused = paused
  BY <1>4, <1>6 DEF Continues
<1>7. CASE p.paused # paused /\ On(c)
  <2> DEFINE q == Refreshed(c, run)
  <2>1. Continues(q, c, run) /\ q.stopped = c.stopped /\ q.paused = c.paused
    BY <1>5, RefreshedFacts
  <2> HIDE DEF q
  <2> QED
    BY <1>2, <1>3, <1>4, <1>7, <2>1 DEF Continues, q
<1>8. CASE p.paused # paused /\ ~ On(c)
  BY <1>2, <1>3, <1>4, <1>5, <1>8 DEF Continues
<1> QED
  BY <1>6, <1>7, <1>8

LEMMA StartedFacts ==
    ASSUME NEW p, Sound(p), NEW run \in Run
    PROVE  LET q == Started(p, run)
           IN  /\ Continues(q, p, run)
               /\ q.stopped = FALSE /\ q.paused = p.paused
<1>0. p \in PollerType(Run) /\ DOMAIN p.runs = {p.pending} \ {NoRun}
  BY DEF Sound
<1>1. CASE ~ p.stopped
  <2>1. Started(p, run) = p /\ p.stopped = FALSE
    BY <1>0, <1>1, PollerFields DEF Started
  <2> QED
    BY <2>1 DEF Continues
<1>2. CASE p.stopped
  <2> DEFINE flipped == [p EXCEPT !.stopped = FALSE]
             next == NextGeneration(flipped)
             q == Refreshed(next, run)
  <2>1. /\ flipped \in PollerType(Run)
        /\ flipped.runs = p.runs /\ flipped.pending = p.pending /\ flipped.timer = p.timer
        /\ flipped.stopped = FALSE /\ flipped.paused = p.paused
    BY <1>0 DEF PollerType
  <2>2. Started(p, run) = q
    BY <1>2 DEF Started
  <2> HIDE DEF flipped
  <2>3. /\ next \in PollerType(Run) /\ next.timer = p.timer
        /\ next.stopped = FALSE /\ next.paused = p.paused /\ next.pending = p.pending
        /\ DOMAIN next.runs = DOMAIN p.runs
        /\ \A r \in DOMAIN p.runs : next.runs[r].current = p.runs[r].current
                                    /\ next.runs[r].selection = p.runs[r].selection
    BY <2>1, NextGenerationFacts
  <2> HIDE DEF next
  <2>4. Sound(next)
    BY <1>0, <1>2, <2>3 DEF Sound, On
  <2>5. Continues(q, next, run) /\ q.stopped = FALSE /\ q.paused = p.paused
    BY <2>3, <2>4, RefreshedFacts
  <2> HIDE DEF q
  <2> QED
    BY <2>2, <2>3, <2>5 DEF Continues
<1> QED
  BY <1>1, <1>2

LEMMA StoppedFacts ==
    ASSUME NEW p, Sound(p)
    PROVE  LET q == Stopped(p)
           IN  /\ Sound(q) /\ q.stopped = TRUE /\ q.paused = p.paused
               /\ DOMAIN q.runs = DOMAIN p.runs
               /\ \A r \in DOMAIN q.runs : q.runs[r].current = p.runs[r].current
<1>0. p \in PollerType(Run) /\ DOMAIN p.runs = {p.pending} \ {NoRun}
  BY DEF Sound
<1> DEFINE flipped == [p EXCEPT !.stopped = TRUE, !.restart = FALSE]
           next == NextGeneration(flipped)
           q == Cleared(next)
<1>1. /\ flipped \in PollerType(Run)
      /\ flipped.runs = p.runs /\ flipped.pending = p.pending
      /\ flipped.stopped = TRUE /\ flipped.paused = p.paused
  BY <1>0 DEF PollerType
<1>2. Stopped(p) = q
  BY DEF Stopped
<1> HIDE DEF flipped
<1>3. /\ next \in PollerType(Run)
      /\ next.stopped = TRUE /\ next.paused = p.paused /\ next.pending = p.pending
      /\ DOMAIN next.runs = DOMAIN p.runs
      /\ \A r \in DOMAIN p.runs : next.runs[r].current = p.runs[r].current
  BY <1>1, NextGenerationFacts
<1> HIDE DEF next
<1>4. /\ q \in PollerType(Run) /\ q.runs = next.runs /\ q.timer = FALSE
      /\ q.stopped = TRUE /\ q.paused = p.paused /\ q.pending = p.pending
  BY <1>3 DEF Cleared, PollerType
<1> HIDE DEF q
<1> QED
  BY <1>0, <1>2, <1>3, <1>4 DEF Sound

\* A run that ends leaves nothing, or the request that was held back for it.
LEMMA SettledFacts ==
    ASSUME NEW p, Sound(p), NEW r \in DOMAIN p.runs, NEW run \in Run
    PROVE  LET q == Settled(p, r, run)
           IN  /\ Sound(q)
               /\ q.stopped = p.stopped /\ q.paused = p.paused
               /\ r \notin DOMAIN q.runs
               /\ \A i \in DOMAIN q.runs : q.runs[i] = run /\ On(q)
<1>0. p \in PollerType(Run) /\ DOMAIN p.runs = {r} /\ p.pending = r /\ r \in RunId /\ r # NoRun
  <2>1. p \in PollerType(Run) /\ DOMAIN p.runs = {p.pending} \ {NoRun}
    BY DEF Sound
  <2> QED
    BY <2>1, PollerFields, PollerAssumption
<1> DEFINE armed == p.timer \/ (p.runs[r].kept /\ On(p))
           q == Followed(p, r)
<1>1. q = [p EXCEPT !.timer = armed, !.pending = NoRun]
  BY <1>0 DEF Followed, PollerType
<1>2. armed \in BOOLEAN /\ (armed => On(p))
  BY <1>0, PollerFields DEF Sound
<1> HIDE DEF armed, q
<1>3. /\ q \in PollerType(Run) /\ q.timer = armed /\ q.pending = NoRun
      /\ q.stopped = p.stopped /\ q.paused = p.paused /\ q.runs = p.runs
      /\ q.restart = p.restart
  BY <1>0, <1>1, <1>2 DEF PollerType
<1>4. CASE q.restart /\ On(q)
  <2> DEFINE d == [q EXCEPT !.restart = FALSE]
             c == Cleared(d)
             b == Begun(c, run)
             f == Forgotten(b, r)
  <2>1. /\ d \in PollerType(Run) /\ d.pending = NoRun /\ d.runs = p.runs
        /\ d.stopped = p.stopped /\ d.paused = p.paused
    BY <1>3 DEF PollerType
  <2>2. Settled(p, r, run) = Forgotten(Refreshed(d, run), r)
    BY <1>4 DEF Settled, q
  <2> HIDE DEF d
  <2>3. Refreshed(d, run) = b
    BY <1>3, <1>4, <2>1 DEF Refreshed, On
  <2>4. /\ c \in PollerType(Run) /\ c.timer = FALSE /\ c.runs = p.runs
        /\ c.stopped = p.stopped /\ c.paused = p.paused
    BY <2>1 DEF Cleared, PollerType
  <2> HIDE DEF c
  <2>5. /\ b \in PollerType(Run) /\ b.timer = FALSE
        /\ b.stopped = p.stopped /\ b.paused = p.paused
        /\ b.pending \in RunId \ {r}
        /\ DOMAIN b.runs = {r, b.pending}
        /\ b.runs[b.pending] = run
    BY <1>0, <2>4, BegunFacts
  <2> HIDE DEF b
  <2> DEFINE runs == [i \in DOMAIN b.runs \ {r} |-> b.runs[i]]
  <2>6. DOMAIN runs = {b.pending} /\ runs[b.pending] = run
    BY <2>5
  <2>7. runs \in UNION {[R -> Run] : R \in SUBSET RunId}
    <3>1. runs \in [DOMAIN runs -> Run] /\ DOMAIN runs \in SUBSET RunId
      BY <2>5, <2>6
    <3> QED
      BY <3>1
  <2>8. f = [b EXCEPT !.runs = runs]
    BY DEF Forgotten
  <2> HIDE DEF runs, f
  <2>9. /\ f \in PollerType(Run) /\ f.runs = runs /\ f.timer = FALSE
        /\ f.stopped = p.stopped /\ f.paused = p.paused /\ f.pending = b.pending
    BY <2>5, <2>7, <2>8 DEF PollerType
  <2>10. Settled(p, r, run) = f
    BY <2>2, <2>3 DEF f
  <2>11. On(f) /\ b.pending # NoRun
    BY <1>3, <1>4, <2>5, <2>9, PollerAssumption DEF On
  <2> QED
    BY <2>5, <2>6, <2>9, <2>10, <2>11 DEF Sound
<1>5. CASE ~ (q.restart /\ On(q))
  <2> DEFINE runs == [i \in DOMAIN q.runs \ {r} |-> q.runs[i]]
             f == Forgotten(q, r)
  <2>1. DOMAIN runs = {}
    BY <1>0, <1>3
  <2>2. runs \in [{} -> Run]
    BY <2>1
  <2>3. f = [q EXCEPT !.runs = runs]
    BY DEF Forgotten
  <2> HIDE DEF runs, f
  <2>4. /\ f \in PollerType(Run) /\ f.runs = runs /\ f.timer = armed
        /\ f.stopped = p.stopped /\ f.paused = p.paused /\ f.pending = NoRun
    BY <1>3, <2>2, <2>3 DEF PollerType
  <2>5. Settled(p, r, run) = f
    BY <1>5 DEF Settled, q, f
  <2> QED
    BY <1>2, <2>1, <2>4, <2>5 DEF Sound, On
<1> QED
  BY <1>4, <1>5

----------------------------------------------------------------------------
(* The monitor's handlers.                                                 *)

\* A poller that was synced with the gate: its requests are those of p, which no
\* longer count, and perhaps one that has just begun.
SyncedFrom(q, p, isLive, s) ==
    /\ Sound(q)
    /\ q.paused = ~ isLive
    /\ DOMAIN p.runs \subseteq DOMAIN q.runs
    /\ \A r \in DOMAIN q.runs :
          /\ r \notin DOMAIN p.runs => On(q)
          /\ q.runs[r].current => q.runs[r].selection = s /\ r \notin DOMAIN p.runs

LEMMA SyncPollerFacts ==
    ASSUME NEW p, Sound(p), NEW isLive \in BOOLEAN, NEW s \in Selection
    PROVE  /\ SyncedFrom(syncPoller(p, isLive, s), p, isLive, s)
           /\ syncPoller(p, isLive, s).stopped = p.stopped
<1> DEFINE d == Discarded(p)
           q == SetPaused(d, ~ isLive, newRun(s))
<1>1. newRun(s) \in Run /\ newRun(s).selection = s
  BY DEF newRun, Run
<1>2. /\ Sound(d) /\ d.stopped = p.stopped
      /\ DOMAIN d.runs = DOMAIN p.runs
      /\ \A r \in DOMAIN d.runs : ~ d.runs[r].current
  BY DiscardedFacts
<1> HIDE DEF d
<1>3. Continues(q, d, newRun(s)) /\ q.stopped = d.stopped /\ q.paused = ~ isLive
  <2>1. (~ isLive) \in BOOLEAN
    OBVIOUS
  <2> QED
    BY <1>1, <1>2, <2>1, SetPausedFacts
<1>4. syncPoller(p, isLive, s) = q
  BY DEF syncPoller, d
<1> HIDE DEF q
<1> QED
  BY <1>1, <1>2, <1>3, <1>4 DEF Continues, SyncedFrom

LEMMA StartedSyncFacts ==
    ASSUME NEW p, Sound(p), NEW isLive \in BOOLEAN, NEW s \in Selection
    PROVE  /\ SyncedFrom(Started(syncPoller(p, isLive, s), newRun(s)), p, isLive, s)
           /\ Started(syncPoller(p, isLive, s), newRun(s)).stopped = FALSE
<1> DEFINE d == syncPoller(p, isLive, s)
           q == Started(d, newRun(s))
<1>1. newRun(s) \in Run /\ newRun(s).selection = s
  BY DEF newRun, Run
<1>2. /\ Sound(d) /\ d.paused = ~ isLive
      /\ DOMAIN p.runs \subseteq DOMAIN d.runs
      /\ \A r \in DOMAIN d.runs :
            /\ r \notin DOMAIN p.runs => On(d)
            /\ d.runs[r].current => d.runs[r].selection = s /\ r \notin DOMAIN p.runs
  BY SyncPollerFacts DEF SyncedFrom
<1> HIDE DEF d
<1>3. Continues(q, d, newRun(s)) /\ q.stopped = FALSE /\ q.paused = d.paused
  BY <1>1, <1>2, StartedFacts
<1> HIDE DEF q
<1>4. Sound(q) /\ DOMAIN d.runs \subseteq DOMAIN q.runs
  BY <1>3 DEF Continues
<1>5. On(d) => On(q)
  BY <1>3 DEF On
<1>6. \A r \in DOMAIN q.runs :
            /\ r \notin DOMAIN p.runs => On(q)
            /\ q.runs[r].current => q.runs[r].selection = s /\ r \notin DOMAIN p.runs
  BY <1>1, <1>2, <1>3, <1>5 DEF Continues
<1> QED
  BY <1>2, <1>3, <1>4, <1>6 DEF d, q, SyncedFrom

LEMMA InitInv == Init => MonitorInv
<1> SUFFICES ASSUME Init PROVE MonitorInv
  OBVIOUS
<1>1. /\ newPoller \in PollerType(Run) /\ newPoller.runs = [r \in {} |-> NoRun]
      /\ newPoller.pending = NoRun /\ newPoller.timer = FALSE /\ newPoller.stopped = TRUE
  <2>1. [r \in {} |-> NoRun] \in [{} -> Run]
    OBVIOUS
  <2>2. [r \in {} |-> NoRun] \in UNION {[R -> Run] : R \in SUBSET RunId}
    BY <2>1
  <2> QED
    BY <2>2 DEF newPoller, PollerType
<1>2. DOMAIN poller.runs = {}
  BY <1>1 DEF Init
<1>3. Sound(poller)
  BY <1>1, <1>2 DEF Init, Sound
<1>4. view \in View /\ view.snapshot = NoReading /\ view.observed = {}
  BY DEF Init, newView, View
<1>5. TypeOK
  BY <1>1, <1>2, <1>4 DEF Init, TypeOK
<1>6. GateDecides
  BY <1>1 DEF Init, GateDecides
<1> QED
  BY <1>2, <1>3, <1>4, <1>5, <1>6
  DEF Init, MonitorInv, CurrentRuns, EarlierIsMarked, FreshIsWatched, Fresh,
      OneConnectionObserved, RefreshIsInFlight

\* Syncing with the gate keeps what the frame shows and has gathered.
LEMMA SyncViewFacts ==
    ASSUME NEW v \in View, NEW isLive \in BOOLEAN
    PROVE  LET w == syncView(v, isLive)
           IN  /\ w \in View
               /\ w.snapshot = v.snapshot /\ w.frame = v.frame /\ w.stale = v.stale
               /\ w.monitored = v.monitored /\ w.observed = v.observed
               /\ isLive => w.freshnessTimer /\ w.awaitingFresh = v.awaitingFresh
               /\ ~ isLive => w.awaitingFresh
BY DEF syncView, View

\* What a handler that syncs with the gate must keep: the requests from before no
\* longer count, and if the gate is shut they and the reading shown are earlier.
LEMMA SyncedInv ==
    ASSUME MonitorInv,
           hidden' \in BOOLEAN, intersecting' \in BOOLEAN, userPaused' \in BOOLEAN,
           page' \in {"shown", "cache", "gone"}, mounted' \in BOOLEAN,
           UNCHANGED <<selection, manualRefresh>>,
           Sound(poller'), GateDecides',
           DOMAIN poller.runs \subseteq DOMAIN poller.runs',
           \A r \in DOMAIN poller.runs' : poller.runs'[r].current =>
              poller.runs'[r].selection = selection /\ r \notin DOMAIN poller.runs,
           view' = syncView(view, live'),
           earlier' = IF live' THEN earlier ELSE Before(poller)
    PROVE  MonitorInv'
<1>0. /\ view \in View /\ selection \in Selection /\ manualRefresh \in BOOLEAN
      /\ earlier \in [runs : SUBSET DOMAIN poller.runs, reading : BOOLEAN]
      /\ live' \in BOOLEAN
  BY DEF MonitorInv, TypeOK, live
<1>1. /\ view' \in View
      /\ view'.snapshot = view.snapshot /\ view'.frame = view.frame /\ view'.stale = view.stale
      /\ view'.monitored = view.monitored /\ view'.observed = view.observed
      /\ live' => view'.freshnessTimer /\ view'.awaitingFresh = view.awaitingFresh
      /\ ~ live' => view'.awaitingFresh
  BY <1>0, SyncViewFacts
<1>2. /\ earlier' \in [runs : SUBSET DOMAIN poller.runs, reading : BOOLEAN]
      /\ live' => earlier' = earlier
  BY <1>0 DEF Before
<1>3. TypeOK'
  <2>1. earlier' \in [runs : SUBSET DOMAIN poller.runs', reading : BOOLEAN]
    BY <1>2
  <2>2. poller' \in PollerType(Run) /\ poller.pending' \in DOMAIN poller.runs' \cup {NoRun}
    BY DEF Sound
  <2> QED
    BY <1>0, <1>1, <2>1, <2>2 DEF TypeOK
<1>4. CurrentRuns'
  BY <1>2 DEF CurrentRuns
<1>5. EarlierIsMarked'
  BY <1>1, <1>2 DEF MonitorInv, EarlierIsMarked
<1>6. FreshIsWatched'
  BY <1>1 DEF FreshIsWatched, Fresh
<1>7. OneConnectionObserved'
  BY <1>1 DEF MonitorInv, OneConnectionObserved
<1>8. RefreshIsInFlight'
  BY DEF MonitorInv, RefreshIsInFlight
<1> QED
  BY <1>3, <1>4, <1>5, <1>6, <1>7, <1>8 DEF MonitorInv

LEMMA SyncInv ==
    ASSUME MonitorInv, Sync,
           hidden' \in BOOLEAN, intersecting' \in BOOLEAN, userPaused' \in BOOLEAN,
           UNCHANGED <<selection, page, mounted, manualRefresh>>
    PROVE  MonitorInv' /\ (DOMAIN poller.runs' \ DOMAIN poller.runs # {} => Polling')
<1>1. /\ Sound(poller) /\ GateDecides /\ selection \in Selection
      /\ page \in {"shown", "cache", "gone"} /\ mounted \in BOOLEAN /\ live' \in BOOLEAN
  BY DEF MonitorInv, TypeOK, live
<1>2. poller' = syncPoller(poller, live', selection)
  BY DEF Sync
<1>3. /\ Sound(poller') /\ poller.stopped' = poller.stopped /\ poller.paused' = ~ live'
      /\ DOMAIN poller.runs \subseteq DOMAIN poller.runs'
      /\ \A r \in DOMAIN poller.runs' :
            /\ r \notin DOMAIN poller.runs => On(poller')
            /\ poller.runs'[r].current =>
                  poller.runs'[r].selection = selection /\ r \notin DOMAIN poller.runs
  <2> DEFINE q == syncPoller(poller, live', selection)
  <2>1. q.stopped = poller.stopped /\ SyncedFrom(q, poller, live', selection)
    BY <1>1, SyncPollerFacts
  <2>2. poller' = q
    BY <1>2
  <2> HIDE DEF q
  <2> QED
    BY <2>1, <2>2 DEF SyncedFrom
<1>4. GateDecides'
  BY <1>1, <1>3 DEF GateDecides
<1>5. MonitorInv'
  BY <1>1, <1>3, <1>4, SyncedInv DEF Sync
<1>6. On(poller') => Polling'
  BY <1>4 DEF On, GateDecides, Polling
<1> QED
  BY <1>3, <1>5, <1>6

\* Mount, and a return from the page cache: sync, then start.
LEMMA SyncStartInv ==
    ASSUME MonitorInv, mounted', page' = "shown",
           poller' = Started(syncPoller(poller, live, selection), newRun(selection)),
           view' = syncView(view, live),
           earlier' = IF live THEN earlier ELSE Before(poller),
           UNCHANGED <<gate, selection, manualRefresh>>
    PROVE  MonitorInv' /\ (DOMAIN poller.runs' \ DOMAIN poller.runs # {} => Polling')
<1>1. /\ Sound(poller) /\ selection \in Selection /\ live \in BOOLEAN /\ live' = live
      /\ hidden' \in BOOLEAN /\ intersecting' \in BOOLEAN /\ userPaused' \in BOOLEAN
  BY DEF MonitorInv, TypeOK, live, gate
<1>2. /\ Sound(poller') /\ poller.stopped' = FALSE /\ poller.paused' = ~ live
      /\ DOMAIN poller.runs \subseteq DOMAIN poller.runs'
      /\ \A r \in DOMAIN poller.runs' :
            /\ r \notin DOMAIN poller.runs => On(poller')
            /\ poller.runs'[r].current =>
                  poller.runs'[r].selection = selection /\ r \notin DOMAIN poller.runs
  <2> DEFINE q == Started(syncPoller(poller, live, selection), newRun(selection))
  <2>1. q.stopped = FALSE /\ SyncedFrom(q, poller, live, selection)
    BY <1>1, StartedSyncFacts
  <2>2. poller' = q
    OBVIOUS
  <2> HIDE DEF q
  <2> QED
    BY <2>1, <2>2 DEF SyncedFrom
<1>3. GateDecides'
  BY <1>1, <1>2 DEF GateDecides
<1>4. mounted' \in BOOLEAN
  BY <1>2, <1>3, PollerFields DEF GateDecides, Sound
<1>5. MonitorInv'
  BY <1>1, <1>2, <1>3, <1>4, SyncedInv
<1>6. On(poller') => Polling'
  BY <1>3 DEF On, GateDecides, Polling
<1> QED
  BY <1>2, <1>5, <1>6

LEMMA PageHideInv ==
    ASSUME MonitorInv, NEW persisted \in BOOLEAN, PageHide(persisted)
    PROVE  MonitorInv' /\ DOMAIN poller.runs' = DOMAIN poller.runs
<1> DEFINE d == Discarded(poller)
<1>1. /\ Sound(poller) /\ page = "shown" /\ page' \in {"cache", "gone"}
      /\ UNCHANGED <<gate, selection, mounted, manualRefresh>>
      /\ live' = live /\ live \in BOOLEAN
  BY DEF MonitorInv, PageHide, TypeOK, live, gate
<1>2. /\ Sound(d) /\ d.paused = poller.paused /\ DOMAIN d.runs = DOMAIN poller.runs
      /\ \A r \in DOMAIN d.runs : ~ d.runs[r].current
  BY <1>1, DiscardedFacts
<1>3. poller' = Stopped(d)
  BY DEF PageHide
<1> HIDE DEF d
<1>4. /\ Sound(poller') /\ poller.stopped' = TRUE /\ poller.paused' = poller.paused
      /\ DOMAIN poller.runs' = DOMAIN poller.runs
      /\ \A r \in DOMAIN poller.runs' : ~ poller.runs'[r].current
  <2>1. LET q == Stopped(d)
        IN  /\ Sound(q) /\ q.stopped = TRUE /\ q.paused = d.paused
            /\ DOMAIN q.runs = DOMAIN d.runs
            /\ \A r \in DOMAIN q.runs : q.runs[r].current = d.runs[r].current
    BY <1>2, StoppedFacts
  <2> QED
    BY <1>2, <1>3, <2>1
<1>5. /\ view' \in View /\ view'.awaitingFresh = TRUE
      /\ view'.observed = view.observed /\ view'.monitored = view.monitored
  BY DEF MonitorInv, TypeOK, PageHide, View
<1>6. earlier' \in [runs : SUBSET DOMAIN poller.runs', reading : BOOLEAN]
  BY <1>4 DEF PageHide, Before
<1>7. TypeOK'
  <2>1. poller' \in PollerType(Run) /\ poller.pending' \in DOMAIN poller.runs' \cup {NoRun}
    BY <1>4 DEF Sound
  <2> QED
    BY <1>1, <1>5, <1>6, <2>1 DEF MonitorInv, TypeOK, gate
<1>8. GateDecides'
  BY <1>1, <1>4 DEF MonitorInv, GateDecides
<1>9. CurrentRuns' /\ EarlierIsMarked' /\ FreshIsWatched'
  BY <1>4, <1>5 DEF CurrentRuns, EarlierIsMarked, FreshIsWatched, Fresh
<1>10. OneConnectionObserved' /\ RefreshIsInFlight'
  BY <1>1, <1>4, <1>5 DEF MonitorInv, OneConnectionObserved, RefreshIsInFlight
<1> QED
  BY <1>4, <1>7, <1>8, <1>9, <1>10 DEF MonitorInv

LEMMA SelectionInv ==
    ASSUME MonitorInv, NEW s \in Selection, SelectionChanges(s)
    PROVE  MonitorInv' /\ (DOMAIN poller.runs' \ DOMAIN poller.runs # {} => Polling')
<1> DEFINE d == Stopped(poller)
<1>1. /\ Sound(poller) /\ GateDecides /\ page = "shown" /\ selection' = s
      /\ UNCHANGED <<gate, page, mounted, manualRefresh>>
      /\ live' = live /\ live \in BOOLEAN /\ mounted \in BOOLEAN
  BY DEF MonitorInv, SelectionChanges, TypeOK, live, gate
<1>2. /\ Sound(d) /\ d.stopped = TRUE /\ DOMAIN d.runs = DOMAIN poller.runs
  BY <1>1, StoppedFacts
<1>3. poller' = IF mounted THEN Started(syncPoller(d, live, s), newRun(s))
                ELSE syncPoller(d, live, s)
  BY DEF SelectionChanges
<1> HIDE DEF d
<1>4. /\ Sound(poller') /\ poller.stopped' = ~ mounted /\ poller.paused' = ~ live
      /\ DOMAIN poller.runs \subseteq DOMAIN poller.runs'
      /\ \A r \in DOMAIN poller.runs' :
            /\ r \notin DOMAIN poller.runs => On(poller')
            /\ poller.runs'[r].current =>
                  poller.runs'[r].selection = s /\ r \notin DOMAIN poller.runs
  <2>1. CASE mounted
    <3> DEFINE q == Started(syncPoller(d, live, s), newRun(s))
    <3>1. q.stopped = FALSE /\ SyncedFrom(q, d, live, s)
      BY <1>1, <1>2, StartedSyncFacts
    <3>2. poller' = q
      BY <1>3, <2>1
    <3> HIDE DEF q
    <3> QED
      BY <1>2, <2>1, <3>1, <3>2 DEF SyncedFrom
  <2>2. CASE ~ mounted
    <3> DEFINE q == syncPoller(d, live, s)
    <3>1. q.stopped = TRUE /\ SyncedFrom(q, d, live, s)
      BY <1>1, <1>2, SyncPollerFacts
    <3>2. poller' = q
      BY <1>3, <2>2
    <3> HIDE DEF q
    <3> QED
      BY <1>2, <2>2, <3>1, <3>2 DEF SyncedFrom
  <2> QED
    BY <2>1, <2>2, <1>1
<1>5. GateDecides'
  BY <1>1, <1>4 DEF GateDecides
<1>6. /\ view' \in View /\ view'.awaitingFresh = TRUE /\ view'.observed = {}
  <2> DEFINE v == [clearObservations(view) EXCEPT !.awaitingFresh = TRUE,
                                                  !.interrupted = TRUE,
                                                  !.freshnessTimer = FALSE]
             w == apply(v, NoReading)
  <2>1. v \in View /\ v.awaitingFresh = TRUE /\ v.observed = {}
    BY DEF MonitorInv, TypeOK, View, clearObservations
  <2> HIDE DEF v
  <2>2. w \in View /\ w.awaitingFresh = TRUE /\ w.observed = {}
    BY <2>1 DEF apply, isNewConnection, accept, View
  <2>3. view' = syncView(w, live)
    BY DEF SelectionChanges, v
  <2> HIDE DEF w
  <2> QED
    BY <1>1, <2>2, <2>3, SyncViewFacts
<1>7. earlier' = Before(poller)
  BY DEF SelectionChanges
<1>8. TypeOK'
  <2>1. earlier' \in [runs : SUBSET DOMAIN poller.runs', reading : BOOLEAN]
    BY <1>4, <1>7 DEF Before
  <2>2. poller' \in PollerType(Run) /\ poller.pending' \in DOMAIN poller.runs' \cup {NoRun}
    BY <1>4 DEF Sound
  <2> QED
    BY <1>1, <1>6, <2>1, <2>2 DEF MonitorInv, TypeOK, gate
<1>9. CurrentRuns'
  BY <1>1, <1>4, <1>7 DEF CurrentRuns, Before
<1>10. EarlierIsMarked' /\ FreshIsWatched' /\ OneConnectionObserved'
  BY <1>6 DEF EarlierIsMarked, FreshIsWatched, Fresh, OneConnectionObserved
<1>11. RefreshIsInFlight'
  BY <1>1, <1>4 DEF MonitorInv, RefreshIsInFlight
<1>12. On(poller') => Polling'
  BY <1>5 DEF On, GateDecides, Polling
<1> QED
  BY <1>4, <1>5, <1>8, <1>9, <1>10, <1>11, <1>12 DEF MonitorInv

\* A refresh joins the request in flight or begins one, in a frame that polls.
LEMMA RefreshInv ==
    ASSUME MonitorInv, NEW p, Sound(p),
           p.runs = poller.runs, p.stopped = poller.stopped, p.paused = poller.paused,
           poller' = Refreshed(p, newRun(selection)),
           UNCHANGED <<gate, selection, page, mounted, view, earlier>>,
           manualRefresh' \in BOOLEAN,
           manualRefresh' => manualRefresh \/ On(p)
    PROVE  MonitorInv' /\ (DOMAIN poller.runs' \ DOMAIN poller.runs # {} => Polling')
<1>0. /\ GateDecides /\ selection \in Selection /\ live' = live
      /\ earlier \in [runs : SUBSET DOMAIN poller.runs, reading : BOOLEAN]
  BY DEF MonitorInv, TypeOK, live, gate
<1>1. newRun(selection) \in Run /\ newRun(selection).selection = selection
  BY <1>0 DEF newRun, Run
<1>2. /\ Continues(poller', p, newRun(selection))
      /\ poller.stopped' = poller.stopped /\ poller.paused' = poller.paused
      /\ On(p) => DOMAIN poller.runs' # {}
  <2> DEFINE q == Refreshed(p, newRun(selection))
  <2>1. /\ Continues(q, p, newRun(selection))
        /\ q.stopped = p.stopped /\ q.paused = p.paused
        /\ On(p) => DOMAIN q.runs # {}
    BY <1>1, RefreshedFacts
  <2>2. poller' = q
    OBVIOUS
  <2> HIDE DEF q
  <2> QED
    BY <2>1, <2>2
<1>3. /\ Sound(poller') /\ DOMAIN poller.runs \subseteq DOMAIN poller.runs'
      /\ \A r \in DOMAIN poller.runs' :
            /\ r \in DOMAIN poller.runs =>
                  /\ poller.runs'[r].current = poller.runs[r].current
                  /\ poller.runs'[r].selection = poller.runs[r].selection
            /\ r \notin DOMAIN poller.runs => poller.runs'[r].selection = selection /\ On(poller')
  BY <1>1, <1>2 DEF Continues
<1>4. TypeOK'
  <2>1. earlier' \in [runs : SUBSET DOMAIN poller.runs', reading : BOOLEAN]
    BY <1>0, <1>3
  <2>2. poller' \in PollerType(Run) /\ poller.pending' \in DOMAIN poller.runs' \cup {NoRun}
    BY <1>3 DEF Sound
  <2> QED
    BY <2>1, <2>2 DEF MonitorInv, TypeOK, gate
<1>5. GateDecides'
  BY <1>0, <1>2 DEF GateDecides
<1>6. CurrentRuns'
  BY <1>0, <1>3 DEF MonitorInv, CurrentRuns
<1>7. EarlierIsMarked' /\ FreshIsWatched' /\ OneConnectionObserved'
  BY <1>0 DEF MonitorInv, EarlierIsMarked, FreshIsWatched, Fresh, OneConnectionObserved
<1>8. RefreshIsInFlight'
  BY <1>2, <1>3 DEF MonitorInv, RefreshIsInFlight
<1>9. On(poller') => Polling'
  BY <1>5 DEF On, GateDecides, Polling
<1> QED
  BY <1>3, <1>4, <1>5, <1>6, <1>7, <1>8, <1>9 DEF MonitorInv

\* An answer that counts, when all that was observed is of one connection.
LEMMA AnsweredFacts ==
    ASSUME NEW v \in View, NEW reading \in Link \cup {NoReading}, NEW s,
           reading # NoReading => reading.selection = s,
           \A link \in v.observed : link = v.monitored /\ link.selection = s
    PROVE  LET w == Answered(v, reading)
           IN  /\ w \in View /\ w.freshnessTimer
               /\ \A link \in w.observed : link = w.monitored /\ link.selection = s
               /\ reading = NoReading => w.frame
<1> DEFINE a == [v EXCEPT !.awaitingFresh = FALSE]
           b == IF isNewConnection(a, reading) THEN clearObservations(a) ELSE a
           c == accept(b, reading)
<1>1. /\ a \in View /\ a.observed = v.observed /\ a.monitored = v.monitored
  BY DEF View
<1>2. Answered(v, reading) = [c EXCEPT !.freshnessTimer = TRUE]
  BY DEF Answered, apply
<1> HIDE DEF a
<1>3. b \in View
  BY <1>1 DEF clearObservations, View
<1>4. b.observed = {} \/ (b.observed = v.observed /\ b.monitored = v.monitored
                          /\ (reading = NoReading \/ v.monitored = NoReading
                              \/ reading = v.monitored))
  <2>1. CASE isNewConnection(a, reading)
    BY <1>1, <2>1 DEF clearObservations, View
  <2>2. CASE ~ isNewConnection(a, reading)
    BY <1>1, <2>2 DEF isNewConnection
  <2> QED
    BY <2>1, <2>2
<1>5. NoReading \notin Link /\ v.observed \subseteq Link
  BY MonitorAssumption DEF Link, View
<1> HIDE DEF b
<1>6. CASE reading = NoReading
  <2>1. c \in View /\ c.frame /\ c.observed = b.observed /\ c.monitored = b.monitored
    BY <1>3, <1>6 DEF accept, View
  <2> HIDE DEF c
  <2>2. \A link \in c.observed : link = c.monitored /\ link.selection = s
    BY <1>4, <2>1
  <2>3. LET w == [c EXCEPT !.freshnessTimer = TRUE]
        IN  /\ w \in View /\ w.freshnessTimer /\ w.frame
            /\ w.observed = c.observed /\ w.monitored = c.monitored
    BY <2>1 DEF View
  <2> QED
    BY <1>2, <2>2, <2>3
<1>7. CASE reading \in Link
  <2>1. reading # NoReading
    BY <1>5, <1>7
  <2>2. c \in View /\ c.observed = b.observed \cup {reading} /\ c.monitored = reading
    BY <1>3, <1>7, <2>1 DEF accept, View
  <2> HIDE DEF c
  <2>3. \A link \in c.observed : link = c.monitored /\ link.selection = s
    BY <1>4, <1>5, <2>1, <2>2
  <2>4. LET w == [c EXCEPT !.freshnessTimer = TRUE]
        IN  /\ w \in View /\ w.freshnessTimer
            /\ w.observed = c.observed /\ w.monitored = c.monitored
    BY <2>2 DEF View
  <2> QED
    BY <1>2, <2>1, <2>3, <2>4
<1> QED
  BY <1>6, <1>7

LEMMA PollEndsInv ==
    ASSUME MonitorInv, NEW r \in DOMAIN poller.runs, NEW reading \in Answers(r),
           PollEnds(r, reading)
    PROVE  MonitorInv' /\ (DOMAIN poller.runs' \ DOMAIN poller.runs # {} => Polling')
<1>0. /\ Sound(poller) /\ GateDecides /\ selection \in Selection /\ view \in View
      /\ earlier \in [runs : SUBSET DOMAIN poller.runs, reading : BOOLEAN]
      /\ UNCHANGED <<gate, selection, page, mounted>> /\ live' = live
  BY DEF MonitorInv, TypeOK, PollEnds, live, gate
<1>1. newRun(selection) \in Run /\ newRun(selection).selection = selection
  BY <1>0 DEF newRun, Run
<1>2. /\ Sound(poller') /\ r \notin DOMAIN poller.runs'
      /\ poller.stopped' = poller.stopped /\ poller.paused' = poller.paused
      /\ \A i \in DOMAIN poller.runs' : poller.runs'[i] = newRun(selection) /\ On(poller')
  <2> DEFINE q == Settled(poller, r, newRun(selection))
  <2>1. /\ Sound(q) /\ q.stopped = poller.stopped /\ q.paused = poller.paused
        /\ r \notin DOMAIN q.runs
        /\ \A i \in DOMAIN q.runs : q.runs[i] = newRun(selection) /\ On(q)
    BY <1>0, <1>1, SettledFacts
  <2>2. poller' = q
    BY DEF PollEnds
  <2> HIDE DEF q
  <2> QED
    BY <2>1, <2>2
<1>3. DOMAIN poller.runs = {r}
  BY <1>0 DEF Sound
<1>4. earlier.runs \ {r} = {} /\ earlier' \in [runs : {{}}, reading : BOOLEAN]
  <2>1. earlier.runs \ {r} = {}
    BY <1>0, <1>3
  <2> DEFINE shown == IF Counts(r) /\ reading # NoReading THEN r \in earlier.runs
                      ELSE earlier.reading
  <2>2. shown \in BOOLEAN
    <3>1. (r \in earlier.runs) \in BOOLEAN
      OBVIOUS
    <3>2. earlier.reading \in BOOLEAN
      BY <1>0
    <3>3. CASE Counts(r) /\ reading # NoReading
      BY <3>1, <3>3, Zenon
    <3>4. CASE ~ (Counts(r) /\ reading # NoReading)
      BY <3>2, <3>4, Zenon
    <3> QED
      BY <3>3, <3>4
  <2>3. earlier' = [runs |-> earlier.runs \ {r}, reading |-> shown]
    BY DEF PollEnds
  <2> HIDE DEF shown
  <2> QED
    BY <2>1, <2>2, <2>3
<1>5. reading \in Link \cup {NoReading} /\
      (reading # NoReading => reading.selection = poller.runs[r].selection)
  <2>1. poller.runs[r].selection \in Selection
    BY <1>0, PollerFields DEF Sound, Run
  <2> QED
    BY <2>1 DEF Answers, Link
<1>6. /\ view' \in View
      /\ Counts(r) => view'.freshnessTimer /\ (reading = NoReading => view'.frame)
      /\ ~ Counts(r) => view' = view
      /\ OneConnectionObserved'
  <2>1. CASE Counts(r)
    <3>1. poller.runs[r].selection = selection
      BY <2>1 DEF MonitorInv, CurrentRuns, Counts
    <3>2. \A link \in view.observed : link = view.monitored /\ link.selection = selection
      BY DEF MonitorInv, OneConnectionObserved
    <3> DEFINE w == Answered(view, reading)
    <3>3. /\ w \in View /\ w.freshnessTimer
          /\ \A link \in w.observed : link = w.monitored /\ link.selection = selection
          /\ reading = NoReading => w.frame
      BY <1>0, <1>5, <3>1, <3>2, AnsweredFacts
    <3>4. view' = w
      BY <2>1 DEF PollEnds
    <3> HIDE DEF w
    <3> QED
      BY <1>0, <2>1, <3>3, <3>4 DEF OneConnectionObserved
  <2>2. CASE ~ Counts(r)
    BY <1>0, <2>2 DEF PollEnds, MonitorInv, OneConnectionObserved
  <2> QED
    BY <2>1, <2>2
<1>7. TypeOK'
  <2>1. earlier' \in [runs : SUBSET DOMAIN poller.runs', reading : BOOLEAN]
    BY <1>4
  <2>2. poller' \in PollerType(Run) /\ poller.pending' \in DOMAIN poller.runs' \cup {NoRun}
    BY <1>2 DEF Sound
  <2>3. manualRefresh' = FALSE
    BY DEF PollEnds, StillRefreshing
  <2> QED
    BY <1>0, <1>6, <2>1, <2>2, <2>3 DEF MonitorInv, TypeOK, gate
<1>8. GateDecides'
  BY <1>0, <1>2 DEF GateDecides
<1>9. CurrentRuns'
  BY <1>0, <1>1, <1>2, <1>4 DEF CurrentRuns
<1>10. EarlierIsMarked'
  <2>1. CASE Counts(r) /\ reading # NoReading
    <3>1. earlier'.reading = (r \in earlier.runs)
      BY <2>1 DEF PollEnds
    <3>2. r \notin earlier.runs
      BY <2>1 DEF MonitorInv, CurrentRuns, Counts
    <3> QED
      BY <3>1, <3>2 DEF EarlierIsMarked
  <2>2. CASE ~ (Counts(r) /\ reading # NoReading)
    <3>1. earlier'.reading = earlier.reading
      BY <2>2 DEF PollEnds
    <3> QED
      BY <1>6, <2>2, <3>1 DEF MonitorInv, EarlierIsMarked
  <2> QED
    BY <2>1, <2>2
<1>11. FreshIsWatched'
  BY <1>0, <1>6 DEF MonitorInv, FreshIsWatched, Fresh
<1>12. RefreshIsInFlight'
  BY DEF PollEnds, StillRefreshing, RefreshIsInFlight
<1>13. On(poller') => Polling'
  BY <1>8 DEF On, GateDecides, Polling
<1> QED
  BY <1>2, <1>6, <1>7, <1>8, <1>9, <1>10, <1>11, <1>12, <1>13 DEF MonitorInv

LEMMA ViewInv ==
    ASSUME MonitorInv, DeadlinePasses \/ CadenceClick
    PROVE  MonitorInv' /\ UNCHANGED poller
<1>1. /\ UNCHANGED <<gate, selection, page, mounted, poller, manualRefresh, earlier>>
      /\ live' = live /\ live \in BOOLEAN
  BY DEF DeadlinePasses, CadenceClick, live, gate, MonitorInv, TypeOK
<1>2. /\ view' \in View /\ view'.frame = view.frame /\ view'.snapshot = view.snapshot
      /\ view'.awaitingFresh = view.awaitingFresh
      /\ view'.observed = view.observed /\ view'.monitored = view.monitored
      /\ view'.stale \/ view'.freshnessTimer = live
  BY <1>1 DEF DeadlinePasses, CadenceClick, MonitorInv, TypeOK, View
<1>3. TypeOK' /\ Sound(poller') /\ GateDecides' /\ CurrentRuns' /\ RefreshIsInFlight'
  BY <1>1, <1>2 DEF MonitorInv, TypeOK, GateDecides, CurrentRuns, RefreshIsInFlight, gate
<1>4. EarlierIsMarked' /\ FreshIsWatched' /\ OneConnectionObserved'
  BY <1>1, <1>2 DEF MonitorInv, EarlierIsMarked, FreshIsWatched, Fresh, OneConnectionObserved
<1> QED
  BY <1>1, <1>3, <1>4 DEF MonitorInv

\* Every step keeps the invariant, and begins a request only in a frame that polls.
LEMMA StepInv ==
    ASSUME MonitorInv, [Next]_vars
    PROVE  MonitorInv' /\ (DOMAIN poller.runs' \ DOMAIN poller.runs # {} => Polling')
<1>1. CASE HiddenChanges \/ IntersectionChanges \/ PauseClick
  <2>1. /\ Sync /\ UNCHANGED <<selection, page, mounted, manualRefresh>>
        /\ hidden' \in BOOLEAN /\ intersecting' \in BOOLEAN /\ userPaused' \in BOOLEAN
    BY <1>1 DEF HiddenChanges, IntersectionChanges, PauseClick, MonitorInv, TypeOK
  <2> QED
    BY <2>1, SyncInv
<1>2. CASE Mount
  BY <1>2, SyncStartInv DEF Mount
<1>3. CASE PageShow
  <2>1. CASE mounted
    BY <1>3, <2>1, SyncStartInv DEF PageShow
  <2>2. CASE ~ mounted
    <3>1. /\ UNCHANGED <<gate, selection, mounted, poller, view, manualRefresh, earlier>>
          /\ page' = "shown" /\ live' = live
      BY <1>3, <2>2 DEF PageShow, gate, live
    <3>2. TypeOK' /\ Sound(poller') /\ GateDecides' /\ CurrentRuns'
      BY <2>2, <3>1 DEF MonitorInv, TypeOK, GateDecides, CurrentRuns, gate
    <3>3. EarlierIsMarked' /\ FreshIsWatched' /\ OneConnectionObserved' /\ RefreshIsInFlight'
      BY <3>1 DEF MonitorInv, EarlierIsMarked, FreshIsWatched, Fresh,
                  OneConnectionObserved, RefreshIsInFlight
    <3> QED
      BY <3>1, <3>2, <3>3 DEF MonitorInv
  <2> QED
    BY <2>1, <2>2
<1>4. CASE \E persisted \in BOOLEAN : PageHide(persisted)
  BY <1>4, PageHideInv
<1>5. CASE \E s \in Selection : SelectionChanges(s)
  BY <1>5, SelectionInv
<1>6. CASE CadenceClick \/ DeadlinePasses
  BY <1>6, ViewInv
<1>7. CASE Hint \/ RefreshClick
  <2>1. Sound(poller) /\ manualRefresh \in BOOLEAN
    BY DEF MonitorInv, TypeOK
  <2>2. CASE Hint
    <3>1. /\ poller' = Refreshed(poller, newRun(selection))
          /\ UNCHANGED <<gate, selection, page, mounted, view, manualRefresh, earlier>>
      BY <2>2 DEF Hint
    <3> QED
      BY <2>1, <3>1, RefreshInv
  <2>3. CASE RefreshClick
    <3>1. /\ poller' = Refreshed(poller, newRun(selection))
          /\ UNCHANGED <<gate, selection, page, mounted, view, earlier>>
          /\ manualRefresh' = TRUE
          /\ page = "shown" /\ mounted /\ live
      BY <2>3 DEF RefreshClick
    <3>2. On(poller)
      BY <3>1 DEF MonitorInv, GateDecides, On
    <3> QED
      BY <2>1, <3>1, <3>2, RefreshInv
  <2> QED
    BY <1>7, <2>2, <2>3
<1>8. CASE TimerExpires
  <2> DEFINE p == Cleared(poller)
  <2>1. /\ Sound(p) /\ p.runs = poller.runs
        /\ p.stopped = poller.stopped /\ p.paused = poller.paused
    BY DEF MonitorInv, Sound, Cleared, PollerType
  <2>2. /\ poller' = Refreshed(p, newRun(selection))
        /\ UNCHANGED <<gate, selection, page, mounted, view, manualRefresh, earlier>>
    BY <1>8 DEF TimerExpires
  <2>3. manualRefresh' \in BOOLEAN /\ manualRefresh' = manualRefresh
    BY <2>2 DEF MonitorInv, TypeOK
  <2> HIDE DEF p
  <2> QED
    BY <2>1, <2>2, <2>3, RefreshInv
<1>9. CASE AnyPollEnds
  BY <1>9, PollEndsInv DEF AnyPollEnds
<1>10. CASE UNCHANGED vars
  <2>1. /\ UNCHANGED <<gate, selection, page, mounted, poller, view, manualRefresh, earlier>>
        /\ live' = live
    BY <1>10 DEF vars, gate, live
  <2>2. TypeOK' /\ Sound(poller') /\ GateDecides' /\ CurrentRuns'
    BY <2>1 DEF MonitorInv, TypeOK, GateDecides, CurrentRuns, gate
  <2>3. EarlierIsMarked' /\ FreshIsWatched' /\ OneConnectionObserved' /\ RefreshIsInFlight'
    BY <2>1 DEF MonitorInv, EarlierIsMarked, FreshIsWatched, Fresh,
                OneConnectionObserved, RefreshIsInFlight
  <2> QED
    BY <2>1, <2>2, <2>3 DEF MonitorInv
<1> QED
  BY <1>1, <1>2, <1>3, <1>4, <1>5, <1>6, <1>7, <1>8, <1>9, <1>10 DEF Next

----------------------------------------------------------------------------
(* What follows.                                                           *)

\* The handlers of a frame keep its invariant, whatever their order
\* (panel/render/monitor.ts, panel/data/poller.ts).
THEOREM MonitorInvariant == Spec => []MonitorInv
<1>1. MonitorInv /\ [Next]_vars => MonitorInv'
  BY StepInv
<1> QED
  BY InitInv, <1>1, PTL DEF Spec

\* The poller and the frame's state stay within their types.
THEOREM MonitorTypeCorrect == Spec => []TypeOK
<1>1. MonitorInv => TypeOK
  BY DEF MonitorInv
<1> QED
  BY MonitorInvariant, <1>1, PTL

\* One request or one timer at most, and neither work nor a timer in a frame that
\* nobody can see (panel/data/poller.ts:1).
THEOREM OneAtMost == Spec => []OneRequestOrTimer
<1>1. MonitorInv => OneRequestOrTimer
  <2> SUFFICES ASSUME MonitorInv PROVE OneRequestOrTimer
    OBVIOUS
  <2> DEFINE D == DOMAIN poller.runs
  <2>1. Sound(poller) /\ GateDecides /\ page \in {"shown", "cache", "gone"}
    BY DEF MonitorInv, TypeOK
  <2>2. D = {poller.pending} \ {NoRun}
    BY <2>1 DEF Sound
  <2>3. D = {} \/ \E r \in RunId : D = {r}
    BY <2>1, <2>2, PollerFields DEF Sound
  <2>4. Cardinality(D) <= 1
    <3>1. CASE D = {}
      BY <3>1, FS_EmptySet
    <3>2. CASE \E r \in RunId : D = {r}
      BY <3>2, FS_Singleton
    <3> QED
      BY <2>3, <3>1, <3>2
  <2>5. ASSUME poller.timer
        PROVE  poller.runs = [r \in {} |-> NoRun] /\ Polling
    <3>1. D = {} /\ On(poller)
      BY <2>1, <2>2, <2>5 DEF Sound
    <3>2. poller.runs \in [D -> Run]
      BY <2>1, PollerFields DEF Sound
    <3>3. poller.runs = [r \in {} |-> NoRun]
      BY <3>1, <3>2
    <3>4. Polling
      BY <2>1, <3>1 DEF On, GateDecides, Polling
    <3> QED
      BY <3>3, <3>4
  <2> QED
    BY <2>4, <2>5 DEF OneRequestOrTimer
<1> QED
  BY MonitorInvariant, <1>1, PTL

\* No request begins in a frame that nobody can see (panel/data/poller.ts:1).
THEOREM HiddenStaysQuiet == Spec => HiddenAsksNothing
<1>1. MonitorInv /\ [Next]_vars =>
         [DOMAIN poller'.runs \ DOMAIN poller.runs # {} => Polling']_vars
  BY StepInv
<1> QED
  BY MonitorInvariant, <1>1, PTL DEF Spec, HiddenAsksNothing

\* Readings shown as live have a deadline (panel/render/monitor.ts:103).
THEOREM FreshHasDeadline == Spec => []FreshIsWatched
<1>1. MonitorInv => FreshIsWatched
  BY DEF MonitorInv
<1> QED
  BY MonitorInvariant, <1>1, PTL

\* Nothing asked for before an interruption is shown as live
\* (panel/render/monitor.ts:115).
THEOREM NothingOldIsFresh == Spec => []FreshIsAskedSince
<1>1. MonitorInv => FreshIsAskedSince
  BY DEF MonitorInv, EarlierIsMarked, FreshIsAskedSince, Fresh
<1> QED
  BY MonitorInvariant, <1>1, PTL

\* What a frame has observed is of one connection, the one selected
\* (panel/render/monitor.ts:53).
THEOREM ObservationsAreOfOne == Spec => []OneConnectionObserved
<1>1. MonitorInv => OneConnectionObserved
  BY DEF MonitorInv
<1> QED
  BY MonitorInvariant, <1>1, PTL

\* The refresh button is always given back (panel/render/monitor.ts:46).
THEOREM RefreshIsGivenBack == Spec => []RefreshIsInFlight
<1>1. MonitorInv => RefreshIsInFlight
  BY DEF MonitorInv
<1> QED
  BY MonitorInvariant, <1>1, PTL
=============================================================================
