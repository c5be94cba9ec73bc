------------------------------ MODULE History -------------------------------
(***************************************************************************)
(* service/history/history.ts, with CompletionSequence, CompletionRing and *)
(* HostCofactors of completions.ts: what the service remembers of every    *)
(* connection slot it read lately.  The slots are kept in the order of     *)
(* their use, at most HistorySlots; all of them number replies from one    *)
(* sequence and share the readings of the host and of the queue that a     *)
(* reply is given with.  What a collection reads is the environment: when  *)
(* the runtime and the host were sampled, and a reply that ended with it,  *)
(* an adapter's draft or the watch's.  Of the co-factors the queue stands  *)
(* for all: each is a list of points of which a reply gets the peak.  The  *)
(* alerts (Alerts) and the map of selections' bound are left out.          *)
(***************************************************************************)
EXTENDS Trend, FiniteSets

CONSTANTS
    Key,            \* connection slots
    Selection,      \* what frames ask for
    HistorySlots,   \* HISTORY_SLOTS
    RingSize,       \* COMPLETION_RING
    PageSize,       \* MAX_COMPLETIONS
    HostFresh,      \* HOST_FRESH_MS
    CadenceMemory,  \* CADENCE_MEMORY_MS
    Signal,         \* COMPLETION_SIGNALS: key -> the basis of its replies, or None
    Reading,        \* key -> what its collections may bring
    Window,         \* the windows a query may have
    Tick,           \* by how much time passes
    MaxNow, MaxReads    \* bounds

HistoryAssumption ==
    /\ TrendAssumption
    /\ Series = {"rate", "cpu"}
    /\ \A window \in Window : window <= Span /\ window >= BucketMs * Buckets
    /\ {HistorySlots, RingSize, PageSize} \subseteq Nat \ {0}

VARIABLES
    now,
    slots,       \* oldest use first: [key, trend, items, dropped, lastAt, polls]
    selections,  \* selection -> the slot it last polled, or None
    head,        \* the sequence's last number
    queue,       \* the co-factor's points
    reads        \* history: every reading recorded

vars == <<now, slots, selections, head, queue, reads>>

NewSlot(k) == [key |-> k, trend |-> EmptyRing, items |-> <<>>, dropped |-> 0, lastAt |-> -1, polls |-> {}]

Init ==
    /\ now = 0
    /\ slots = <<>>
    /\ selections = [s \in Selection |-> None]
    /\ head = 0
    /\ queue = <<>>
    /\ reads = {}

SlotOf(k) == LET mine == SelectSeq(slots, LAMBDA s : s.key = k)
             IN  IF mine = <<>> THEN NewSlot(k) ELSE mine[1]

\* slot(): the one used becomes the newest; the oldest beyond the limit go.
Used(slot) ==
    LET all == Append(SelectSeq(slots, LAMBDA s : s.key # slot.key), slot)
    IN  SubSeq(all, Max({1, Len(all) - HistorySlots + 1}), Len(all))

\* The cadence a slot is read at: the slowest interval handed out lately.
Polled(slot, pollMs) == {p \in slot.polls \cup {[at |-> now, ms |-> pollMs]} : p.at >= now - CadenceMemory}
PauseOf(slot) == BreakMs(Max({0} \cup {p.ms : p \in slot.polls}))

----------------------------------------------------------------------------
(* trendSample(): the series one reading carries.                          *)

\* Mutant: a part of the host counts however old it is.
IsFreshEver(sampledAt, at) == sampledAt # None

IsFreshAt(sampledAt, at) == sampledAt # None /\ at - sampledAt <= HostFresh

\* A rate exists only in its phase and with its capability; the host's only
\* while fresh.  The value is the time it was sampled.
Sample(reading, at, hostAt) ==
    [s \in {t \in Series : \/ t = "rate" /\ reading.phase = "decode" /\ reading.basis # None
                           \/ t = "cpu" /\ IsFreshAt(hostAt, at)} |->
        IF s = "rate" THEN at ELSE hostAt]

BasesOf(reading) == [s \in Series |-> IF s = "rate" THEN reading.basis ELSE "reported"]

----------------------------------------------------------------------------
(* HostCofactors.                                                          *)

\* observeWork: a point not newer than the last is the same reading again.
Pushed(at, value) ==
    IF value # None /\ (queue = <<>> \/ at > Last(queue).at)
    THEN Append(queue, [at |-> at, value |-> value])
    ELSE queue

\* Mutant: the point before the span counts although it has aged.
WithinAged(points, from, to) ==
    LET before == SelectSeq(points, LAMBDA p : p.at < from)
    IN  {p \in ToSet(points) : from <= p.at /\ p.at <= to} \cup {Last(x) : x \in {before} \ {<<>>}}

\* The points of a span, led by the one in effect at its beginning.
Within(points, from, to) ==
    LET before == SelectSeq(points, LAMBDA p : p.at < from)
    IN  {p \in ToSet(points) : from <= p.at /\ p.at <= to} \cup
        {Last(x) : x \in {y \in {before} : y # <<>> /\ from - Last(y).at <= HostFresh}}

\* over(): the peak during the reply, None when nothing is known.
Peak(points, from, to) ==
    LET values == {p.value : p \in Within(points, from, to)}
    IN  IF values = {} THEN None ELSE Max(values)

----------------------------------------------------------------------------
(* The completions of a slot.                                              *)

\* Mutant: any draft is.
IsAcceptedAny(k, draft) == draft # None

\* acceptDraft: only with the basis its runtime can have.
IsAccepted(k, draft) == draft # None /\ Signal[k] # None /\ draft.basis = Signal[k]

\* The numbers of the sequence are of all rings.
Numbered(slot, draft, points) ==
    LET item == [seq |-> head + 1, basis |-> draft.basis, from |-> draft.from, to |-> draft.to,
                 queuedMax |-> Peak(points, draft.from, draft.to)]
        all  == Append(slot.items, item)
    IN  IF Len(all) > RingSize
        THEN [slot EXCEPT !.items = Tail(all), !.dropped = Head(all).seq]
        ELSE [slot EXCEPT !.items = all]

HeadOf(slot) == IF slot.items = <<>> THEN 0 ELSE Last(slot.items).seq

\* since(): what a frame with this cursor is given.
Page(slot, since) ==
    LET reset == since # None /\ (since > HeadOf(slot) \/ since < slot.dropped)
        after == SelectSeq(slot.items, LAMBDA i : i.seq > since)
    IN  [cursor |-> HeadOf(slot), reset |-> reset,
         items |-> IF since = None \/ reset
                   THEN SubSeq(slot.items, Max({1, Len(slot.items) - PageSize + 1}), Len(slot.items))
                   ELSE SubSeq(after, 1, Min({PageSize, Len(after)}))]

----------------------------------------------------------------------------
(* record() and trend().                                                   *)

\* One snapshot of slot k asked as selection s: a reading already recorded, or
\* an older one, leaves the rings alone.
Record(k, s, reading, at) ==
    LET hostAt == IF reading.host = None THEN None ELSE at - reading.host
        polled == [SlotOf(k) EXCEPT !.polls = Polled(SlotOf(k), reading.pollMs)]
        points == Pushed(at, reading.queued)
        sample == Sample(reading, at, hostAt)
        drawn  == [polled EXCEPT !.lastAt = at,
                      !.trend = Appended(polled.trend, at, sample, BasesOf(reading), PauseOf(polled))]
        draft  == IF reading.draft = None \/ at < reading.draft.took THEN None
                  ELSE [basis |-> reading.draft.basis, from |-> at - reading.draft.took, to |-> at]
        isNew  == at > polled.lastAt
        given  == isNew /\ IsAccepted(k, draft)
    IN  /\ Cardinality(reads) < MaxReads
        /\ selections' = [selections EXCEPT ![s] = k]
        /\ queue' = points
        /\ slots' = Used(CASE given -> Numbered(drawn, draft, points)
                           [] isNew /\ ~ given -> drawn
                           [] OTHER -> polled)
        /\ head' = IF given THEN head + 1 ELSE head
        /\ reads' = reads \cup {[key |-> k, at |-> at, reading |-> reading, sample |-> sample, isNew |-> isNew,
                                 bases |-> BasesOf(reading),
                                 seq |-> IF given THEN head + 1 ELSE 0,
                                 pause |-> PauseOf(polled), by |-> now]}
        /\ UNCHANGED now

Passes == \E d \in Tick : now + d <= MaxNow /\ now' = now + d /\ UNCHANGED <<slots, selections, head, queue, reads>>

IsKept(k) == \E i \in DOMAIN slots : slots[i].key = k

\* A reading is of this moment or of one before; a cached one is the same again.
\* Answers may come late and out of order, but not across the loss of the slot.
Records ==
    \E k \in Key, s \in Selection, at \in {now - 1, now} : \E r \in Reading[k] :
        /\ at >= (IF r.host = None THEN 0 ELSE r.host)
        /\ \A q \in reads : q.key = k /\ q.at = at => q.reading = r
        /\ IsKept(k) \/ \A q \in reads : q.key = k => q.at <= at
        /\ Record(k, s, r, at)

Next == Passes \/ Records

Spec == Init /\ [][Next]_vars

\* trend(): the ring of the slot the selection last polled, while it is kept.
Trend(s, window) ==
    LET slot == IF selections[s] = None THEN NewSlot(None) ELSE SlotOf(selections[s])
    IN  Answer(slot.trend, window, now, PauseOf(slot))

----------------------------------------------------------------------------
(* Properties.                                                             *)

\* The readings of a slot that carried a series.
Carrying(k, s) == {r \in reads : r.key = k /\ r.isNew /\ s \in DOMAIN r.sample}

\* Every value of an answer was read of that connection in that bucket with the
\* basis the answer names, the last one is the newest of those the ring's own
\* bucket still held, and none lies inside a gap; a host's value was fresh.  Several laps of the
\* ring, a connection that comes back and a runtime detected anew lie between.
ValuesAreTrue(k, answer, window) ==
    \A s \in DOMAIN answer.buckets, b \in 0 .. Buckets - 1 :
        LET bucket == answer.buckets[s][b]
            there  == {r \in Carrying(k, s) :
                          /\ now - window <= r.at /\ r.at <= now
                          /\ PlaceOf(r.at, window, now) = b
                          /\ \A q \in Carrying(k, s) :
                                 BucketOf(q.at) = BucketOf(r.at) => q.at <= r.at}
            newest == CHOOSE r \in there : \A q \in there : q.at <= r.at
        IN  bucket # None =>
                /\ there # {}
                /\ bucket.last = newest.sample[s]
                /\ {bucket.min, bucket.max} \subseteq
                       {r.sample[s] : r \in {q \in there : q.bases[s] = answer.bases[s]}}
                /\ bucket.min <= bucket.last /\ bucket.last <= bucket.max
                /\ \A g \in answer.gaps : ~ (g.from < newest.at /\ newest.at < g.to)
                /\ s = "cpu" => newest.at - bucket.last <= HostFresh

\* A pause longer than the cadence explained at its end is inside a gap.
PausesAreGaps(k, answer, window) ==
    \A late \in {r \in reads : r.key = k /\ r.isNew} :
        LET earlier == {r.at : r \in {q \in reads : q.key = k /\ q.isNew /\ q.at < late.at}}
            from    == Max({now - window} \cup earlier)
        IN  late.at > from /\ late.at - Max({-late.pause - 1} \cup earlier) > late.pause =>
                \E g \in answer.gaps : g.from <= from /\ late.at <= g.to

\* A number is of one reply, whichever ring holds it, and the peak given with a
\* reply was read in its span or was in effect when it began.
RepliesAreTrue ==
    \A i \in DOMAIN slots : \A n \in DOMAIN slots[i].items :
        LET item == slots[i].items[n]
        IN  /\ \E r \in reads : r.seq = item.seq /\ r.key = slots[i].key /\ r.at = item.to
            /\ \A r, q \in reads : r.seq = item.seq /\ q.seq = item.seq => r = q
            /\ item.basis = Signal[slots[i].key]
            /\ item.queuedMax # None =>
                   \E r \in reads : /\ r.reading.queued = item.queuedMax
                                    /\ item.from - HostFresh <= r.at /\ r.at <= item.to

\* Together: what the trend and the replies of a connection say was read.
HistoryIsTrue ==
    /\ \A s \in Selection, window \in Window :
           selections[s] # None =>
               /\ ValuesAreTrue(selections[s], Trend(s, window), window)
               /\ PausesAreGaps(selections[s], Trend(s, window), window)
    /\ RepliesAreTrue

\* What completion.ts:28 says of queuedMax: requests the engine of the reply
\* reported waiting.  The points are of every slot.
QueuedIsOfItsEngine ==
    \A i \in DOMAIN slots : \A n \in DOMAIN slots[i].items :
        LET item == slots[i].items[n]
        IN  item.queuedMax # None =>
                \E r \in reads : r.key = slots[i].key /\ r.reading.queued = item.queuedMax

\* What completions.ts:56-58 says of since(): a cursor this ring never issued
\* makes a reset, so that nothing is missed unsaid.  Rings share the numbers.
ForeignCursorIsReset ==
    \A i \in DOMAIN slots : \A since \in 1 .. head :
        LET issued == {r.seq : r \in {q \in reads : q.key = slots[i].key}}
        IN  since \notin issued => Page(slots[i], since).reset
=============================================================================
