------------------------------- MODULE Trend --------------------------------
(***************************************************************************)
(* service/history/ring.ts: the readings of one slot's last hour.  A ring  *)
(* of Capacity short buckets keeps the newest value of every series with   *)
(* its place inside the bucket; segments say when Scope was reading; a     *)
(* query folds what is kept into Buckets wider ones and names every span   *)
(* nobody read.  A series is a number here, its rounding left out; a       *)
(* sample maps the series a reading carries to their values.  Marks, which *)
(* a query only filters, are left out.                                     *)
(***************************************************************************)
EXTENDS Integers, Sequences, SequencesExt, FiniteSetsExt

CONSTANTS
    Series,
    BucketMs,       \* TREND_BUCKET_MS
    Capacity,       \* TREND_CAPACITY: buckets of the ring
    Buckets,        \* TREND_BUCKETS: buckets of an answer
    None

TrendAssumption == {BucketMs, Capacity} \subseteq Nat \ {0} /\ Buckets \in Nat /\ Buckets > 2

Span        == BucketMs * Capacity
MaxSegments == Buckets - 2
BucketOf(at) == at \div BucketMs

EmptyRing ==
    [times |-> [i \in 0 .. Capacity - 1 |-> None],
     values |-> [s \in Series |-> None],
     bases |-> [s \in Series |-> None],
     segments |-> <<>>]

\* breakMs: the longest pause that continues a segment, 2.5 cadences.
BreakMs(cadence) == (5 * Max({BucketMs, cadence})) \div 2

\* Mutant: a pause never ends a segment.
IsCoveredAlways(ring, at, pause) == ring.segments # <<>>

\* Whether a reading continues the segment that is open.
IsCovered(ring, at, pause) == ring.segments # <<>> /\ at - Last(ring.segments).to <= pause

\* Segments that ended before the hour, or beyond what an answer can name, go.
Continued(ring, at, pause) ==
    LET segments == IF IsCovered(ring, at, pause)
                    THEN [ring.segments EXCEPT ![Len(ring.segments)].to = at]
                    ELSE Append(ring.segments, [from |-> at, to |-> at])
        recent   == SelectSeq(segments, LAMBDA s : s.to >= at - Span)
    IN  SubSeq(recent, Max({1, Len(recent) - MaxSegments + 1}), Len(recent))

\* Mutant: the values of the earlier lap stay.
ClearedNothing(ring, at) == ring.values

\* What a series holds once the buckets of an earlier lap are cleared.
Cleared(ring, at) ==
    LET index == BucketOf(at) % Capacity
        same  == ring.times[index] # None /\ BucketOf(ring.times[index]) = BucketOf(at)
    IN  [s \in Series |-> IF same \/ ring.values[s] = None THEN ring.values[s]
                          ELSE [ring.values[s] EXCEPT ![index] = None]]

\* One series of a reading: it starts over when its basis changes.
Stored(ring, values, s, sample, basis, at) ==
    LET fresh == ring.values[s] = None \/ ring.bases[s] # basis
        kept  == IF fresh THEN [i \in 0 .. Capacity - 1 |-> None] ELSE values[s]
    IN  [kept EXCEPT ![BucketOf(at) % Capacity] = [value |-> sample[s], offset |-> at % BucketMs]]

\* append: a reading no newer than the last adds nothing.
Appended(ring, at, sample, bases, pause) ==
    IF ring.segments # <<>> /\ at <= Last(ring.segments).to THEN ring
    ELSE LET values == Cleared(ring, at)
         IN  [times |-> [ring.times EXCEPT ![BucketOf(at) % Capacity] = at],
              values |-> [s \in Series |-> IF s \in DOMAIN sample
                                           THEN Stored(ring, values, s, sample, bases[s], at)
                                           ELSE values[s]],
              bases |-> [s \in Series |-> IF s \in DOMAIN sample THEN bases[s] ELSE ring.bases[s]],
              segments |-> Continued(ring, at, pause)]

\* What append answers: whether the reading continues the segment.
AppendCovered(ring, at, pause) ==
    \/ ring.segments # <<>> /\ at <= Last(ring.segments).to
    \/ IsCovered(ring, at, pause)

----------------------------------------------------------------------------
(* query(): the readings between now - window and now.                     *)

SeenIn(ring, window, now) ==
    SelectSeq(ring.segments, LAMBDA s : s.to >= now - window /\ s.from <= now)

\* Mutant: whatever lies in the ring counts as read.
WasReadEver(ring, window, now, at) == at <= now

WasRead(ring, window, now, at) ==
    /\ now - window <= at /\ at <= now
    /\ \E i \in DOMAIN ring.segments : ring.segments[i].from <= at /\ at <= ring.segments[i].to

\* The values of a series with the times they were read at.
Points(ring, s, window, now) ==
    LET timed(i) == [at |-> BucketOf(ring.times[i]) * BucketMs + ring.values[s][i].offset,
                     value |-> ring.values[s][i].value]
    IN  {p \in {timed(i) : i \in {j \in 0 .. Capacity - 1 : ring.values[s][j] # None}} :
            WasRead(ring, window, now, p.at)}

PlaceOf(at, window, now) == Min({Buckets - 1, ((at - (now - window)) * Buckets) \div window})

\* The lowest, the highest and the newest value of every bucket that holds one.
Folded(ring, s, window, now) ==
    LET of(k) == {p \in Points(ring, s, window, now) : PlaceOf(p.at, window, now) = k}
        fold(points) == [min |-> Min({p.value : p \in points}), max |-> Max({p.value : p \in points}),
                         last |-> (CHOOSE p \in points : \A q \in points : q.at <= p.at).value]
    IN  [k \in 0 .. Buckets - 1 |-> IF of(k) = {} THEN None ELSE fold(of(k))]

\* Every span of the window nobody read; the last segment runs on to now while
\* readings keep coming.
Gaps(ring, window, now, pause) ==
    LET seen   == SeenIn(ring, window, now)
        end(i) == IF i = 0 THEN now - window ELSE Max({now - window, seen[i].to})
        between == {[from |-> end(i - 1), to |-> seen[i].from] : i \in DOMAIN seen}
        trailing == IF seen = <<>> \/ now - end(Len(seen)) > pause
                    THEN {[from |-> end(Len(seen)), to |-> now]} ELSE {}
    IN  {g \in between : g.from < g.to} \cup trailing

Answer(ring, window, now, pause) ==
    LET held == {s \in Series : ring.values[s] # None}
    IN  [buckets |-> [s \in held |-> Folded(ring, s, window, now)],
         bases |-> [s \in held |-> ring.bases[s]],
         gaps |-> Gaps(ring, window, now, pause)]
=============================================================================
