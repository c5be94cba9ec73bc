----------------------------- MODULE Recording -----------------------------
(***************************************************************************)
(* Reply history, from the service's completion ring to host storage:      *)
(* service/history/completions.ts (CompletionRing), the pipeline's `since`,*)
(* panel/history/ledger.ts (Ledger, LedgerRecorder) and the storage they   *)
(* share, for one connection.                                              *)
(*                                                                         *)
(* Every frame has a ledger; the frame the service calls leader appends    *)
(* each page of the ring to it and flushes it in chunks.  A chunk carries  *)
(* the cursor up to which the ring was read, so that the next leader goes  *)
(* on from there.  Polls and storage calls take time: a poll is answered   *)
(* before it is received, and a flush is four awaits long and goes on after*)
(* its frame lost the lease.                                               *)
(*                                                                         *)
(* Time is the number of replies finished so far: reply n finishes at 2n,  *)
(* and every clock reads 2 * made + 1; a frame's clock is read with the    *)
(* service's, when a poll is answered.  Left out: labels and turn rows, the*)
(* model dictionary and the baselines, retention and the quota (a chunk is *)
(* full when the model says so), the wait before a refused flush is tried  *)
(* again, values of another format, and the hold-back of `since` for       *)
(* replies without labels, which only sends again what a ledger has seen.  *)
(* A page that arrives while the one before is held back by a starting     *)
(* ledger waits.                                                           *)
(***************************************************************************)
EXTENDS Integers, Sequences, FiniteSets, FiniteSetsExt

CONSTANTS
    Frame,           \* panel frames
    None,
    RingSize,        \* COMPLETION_RING
    PageSize,        \* MAX_COMPLETIONS
    Bounds           \* what a behaviour is bounded by, one of these: the frames that
                     \* take part, the replies that finish, the times a frame takes
                     \* the lease, the chunks created, the rows that wait for a flush,
                     \* and the upsets

ASSUME RecordingAssumption ==
    /\ None \notin Frame \cup Nat \cup [instance : Nat, seq : Nat, at : Nat]
    /\ {RingSize, PageSize} \subseteq Nat \ {0}
    /\ Bounds \subseteq [frames : SUBSET Frame, made : Nat, turns : Nat, keys : Nat, pending : Nat, upsets : Nat]

VARIABLES
    bound,           \* of Bounds
    service,         \* replies made so far, and before each instance of it started
    lease,           \* the leader of the service's lease, and its epoch
    storage,         \* chunks, meta.clearedAt, pref.history, and the keys used so far
    frame,           \* each frame: its cursor, the poll in flight and its recorder
    ledger,          \* each frame's ledger
    flush,           \* each ledger's write in progress
    trail            \* what no code keeps: rows ever written, replies finished while
                     \* paused, declined by a leader for it, jumped over by a ledger's
                     \* first page, lost in a restart that a write took for read,
                     \* rows cut off; frames whose lease another took, and the upsets

vars == <<bound, service, lease, storage, frame, ledger, flush, trail>>

made     == service.made
instance == Len(service.starts)
before   == service.starts[instance]
now      == 2 * made + 1

Larger(a, b) == IF a >= b THEN a ELSE b

\* A row is a reply, a point in time, or a gap, the interval nobody observed.
ReplyRow(n)      == [from |-> 2 * n, to |-> 2 * n]
GapRow(from, to) == [from |-> from, to |-> to]
IsReply(row)     == row.from = row.to

Cursor(of, seq, at) == [instance |-> of, seq |-> seq, at |-> at]
Newer(a, b) == a.at > b.at \/ (a.at = b.at /\ a.seq > b.seq)

----------------------------------------------------------------------------
(* The ring.                                                               *)

\* The number of reply n in the ring a page is of.
SeqNumber(page, n) == n - page.before
head     == made - before
dropped  == Larger(0, head - RingSize)

\* What the service answers to `since`: the replies of the ring numbered from + 1
\* to "to", at most a page of them.
Page(since) ==
    LET reset == since # None /\ (since > head \/ since < dropped)
        all   == since = None \/ reset
        from  == IF all THEN Larger(dropped, head - PageSize) ELSE since
    IN  [instance |-> instance, before |-> before, cursor |-> head,
         reset |-> reset, since |-> since, at |-> now, from |-> from,
         to |-> IF all \/ head - from <= PageSize THEN head ELSE from + PageSize]

Replies(page) == page.before + page.from + 1 .. page.before + page.to
IsShort(page) == page.to - page.from < PageSize

----------------------------------------------------------------------------
(* The ledger, as functions of its state.                                  *)

Nothing == [i \in {} |-> None]

\* The rows that wait for a flush stand in order, each at a position of its own.
Empty ==
    [on |-> FALSE, cursor |-> None, resync |-> None, seen |-> {}, pending |-> Nothing,
     open |-> None, chunks |-> {}, clearedAt |-> 0, paused |-> FALSE]

Top(pending) == Max({0} \cup DOMAIN pending)
RowsOf(pending) == {pending[i].row : i \in DOMAIN pending}

\* The rows that stay, the first of them at position 1.
Without(pending, gone) ==
    LET left == DOMAIN pending \ gone
        by   == IF left = {} THEN 0 ELSE Min(left) - 1
    IN  [i \in {j - by : j \in left} |-> pending[i + by]]

newest(rows) == Max({row.to : row \in rows})

\* #load: the newest cursor of any chunk, the replies of the newest two, and the
\* newest chunk as the one to go on with.
Loaded ==
    LET chunks  == storage.chunks
        cursors == {chunks[k].cursor : k \in DOMAIN chunks}
        full    == {k \in DOMAIN chunks : chunks[k].rows # {}}
        Older(a, b) == \/ newest(chunks[a].rows) < newest(chunks[b].rows)
                       \/ newest(chunks[a].rows) = newest(chunks[b].rows) /\ a < b
        recent  == {k \in full : Cardinality({j \in full : Older(k, j)}) < 2}
        last    == Max({k \in full : newest(chunks[k].rows) = newest(UNION {chunks[j].rows : j \in full})})
    IN  [Empty EXCEPT !.on = TRUE,
                      !.cursor = IF cursors = {} THEN None
                                 ELSE CHOOSE c \in cursors : \A d \in cursors : ~ Newer(d, c),
                      !.seen = UNION {{row \in chunks[k].rows : IsReply(row)} : k \in recent},
                      !.chunks = full,
                      !.open = IF full = {} THEN None
                               ELSE [key |-> last, rows |-> chunks[last].rows, verified |-> FALSE],
                      !.clearedAt = storage.clearedAt, !.paused = storage.paused]

Fresh(l, page) == {n \in Replies(page) : ReplyRow(n) \notin l.seen}

\* What the ring lost: since the restart, or since the cursor the ring no longer reaches.
Lost(l, page) ==
    IF l.resync # None THEN l.resync
    ELSE IF page.reset /\ l.cursor # None THEN l.cursor.at ELSE None
Until(l, page) == IF Fresh(l, page) = {} THEN page.at ELSE 2 * Min(Fresh(l, page))
HasGap(l, page) == Lost(l, page) # None /\ Until(l, page) > Lost(l, page)

\* Behind what is pending comes a gap, and then each reply of a page has a place.
Place(l, page) == Top(l.pending) + IF HasGap(l, page) THEN 1 ELSE 0
Position(l, page, n) == Place(l, page) + SeqNumber(page, n) - page.from
NumberAt(l, page, i) == page.before + page.from + i - Place(l, page)

From(l, page) == IF l.cursor = None THEN Cursor(page.instance, 0, 0) ELSE l.cursor
After(l, page, n) ==
    Cursor(page.instance, Larger(From(l, page).seq, SeqNumber(page, n)), Larger(From(l, page).at, 2 * n))

\* Mutant: a cursor from before a restart is taken for one of this ring.
AppendedAcross(l, page) ==
    LET fresh == Fresh(l, page)
    IN  [l EXCEPT !.seen = @ \cup {ReplyRow(n) : n \in fresh},
                  !.pending = [i \in DOMAIN @ \cup {Position(l, page, n) : n \in fresh} |->
                                  IF i \in DOMAIN @ THEN @[i]
                                  ELSE [row |-> ReplyRow(NumberAt(l, page, i)),
                                        cursor |-> After(l, page, NumberAt(l, page, i))]],
                  !.cursor = IF fresh = {} THEN From(l, page) ELSE After(l, page, Max(fresh))]

Kept(l, page) == IF l.paused THEN {} ELSE {n \in Fresh(l, page) : 2 * n >= l.clearedAt}

\* A gap stands ahead of the first reply not seen yet, with the cursor from before it.
Behind(l, page) ==
    LET gaps == IF HasGap(l, page) THEN {Top(l.pending) + 1} ELSE {}
        rows == {Position(l, page, n) : n \in Kept(l, page)}
    IN  [i \in DOMAIN l.pending \cup gaps \cup rows |->
            IF i \in DOMAIN l.pending THEN l.pending[i]
            ELSE IF i \in gaps
            THEN [row |-> GapRow(Lost(l, page), Until(l, page)), cursor |-> From(l, page)]
            ELSE [row |-> ReplyRow(NumberAt(l, page, i)), cursor |-> After(l, page, NumberAt(l, page, i))]]

Consumed(l, page) ==
    LET fresh == Fresh(l, page)
        last  == IF fresh = {} THEN From(l, page) ELSE After(l, page, Max(fresh))
        end   == IF IsShort(page) THEN page.cursor ELSE last.seq
    IN  Cursor(page.instance, Larger(last.seq, end), IF last.at = 0 THEN page.at ELSE last.at)

IsAhead(l, page) ==
    /\ l.cursor # None /\ l.cursor.instance = page.instance
    /\ page.since # None /\ page.since > l.cursor.seq
IsAnother(l, page) == l.cursor # None /\ l.cursor.instance # page.instance

\* append: a page sent with a cursor ahead of the ledger's is left for the next
\* poll; another instance makes it read the new ring from its start first.
Appended(l, page) ==
    IF IsAhead(l, page) THEN l
    ELSE IF IsAnother(l, page)
    THEN [l EXCEPT !.resync = IF @ = None THEN l.cursor.at ELSE @,
                   !.cursor = Cursor(page.instance, 0, l.cursor.at)]
    ELSE [l EXCEPT !.resync = None,
                   !.seen = @ \cup {ReplyRow(n) : n \in Fresh(l, page)},
                   !.pending = Behind(l, page),
                   !.cursor = Consumed(l, page)]

\* The replies before a page that neither the ledger nor a gap tells of: all of them
\* for a ledger without a cursor, those past its cursor when the page starts later.
Jumped(l, page) ==
    IF IsAhead(l, page) \/ IsAnother(l, page) \/ (l.cursor # None /\ page.reset) THEN {}
    ELSE {ReplyRow(n) : n \in {m \in 1 .. made :
             /\ SeqNumber(page, m) <= page.from
             /\ l.cursor # None => l.cursor.seq < SeqNumber(page, m)}}

\* What appending a page adds to the trail.
Trailed(l, page) ==
    [trail EXCEPT !.declined = @ \cup IF l.paused THEN Appended(l, page).seen \ l.seen ELSE {},
                  !.skipped = @ \cup Jumped(l, page)]

\* #applyClear: what was recorded before the clear is forgotten.
Cleared(l, at) ==
    [l EXCEPT !.clearedAt = at, !.open = None,
              !.pending = Without(@, {i \in DOMAIN @ : @[i].row.to < at})]

\* #refresh: a clear, a pause and the chunks of other frames become known.
Refreshed(l) ==
    LET c == IF storage.clearedAt > l.clearedAt THEN Cleared(l, storage.clearedAt) ELSE l
    IN  [c EXCEPT !.paused = storage.paused,
                  !.chunks = DOMAIN storage.chunks,
                  !.open = IF @ # None /\ @.key \notin DOMAIN storage.chunks THEN None ELSE @]

\* #verifyOpen: an adopted chunk is read again and merged; what is stored there by
\* now is no longer pending.
Verified(l) ==
    IF l.open.key \notin DOMAIN storage.chunks THEN [l EXCEPT !.open = None]
    ELSE LET merged == storage.chunks[l.open.key].rows \cup l.open.rows
         IN  [l EXCEPT !.open = [key |-> @.key, rows |-> merged, verified |-> TRUE],
                       !.seen = @ \cup {row \in merged : IsReply(row)},
                       !.pending = Without(@, {i \in DOMAIN @ : @[i].row \in merged})]

\* Mutant: a write always acknowledges all that was read.
AckedAll(l, upto) == l.cursor

\* #cursorsAfter: all that was read once nothing stays pending, else up to the
\* last row taken.
Acked(l, upto) == IF \A i \in DOMAIN l.pending : i <= upto THEN l.cursor ELSE l.pending[upto].cursor

----------------------------------------------------------------------------
(* The service, the lease and polls.                                       *)

\* A view's reading finds another finished reply.
Complete ==
    /\ made < bound.made
    /\ service' = [service EXCEPT !.made = @ + 1]
    /\ trail' = [trail EXCEPT !.paused = @ \cup IF storage.paused THEN {ReplyRow(made + 1)} ELSE {}]
    /\ UNCHANGED <<lease, storage, frame, ledger, flush>>

\* Bound: a restart, a pause, a clear, a hidden frame or a failure may be had.
Calm == trail.upsets < bound.upsets
Upsetting == [trail EXCEPT !.upsets = @ + 1]

\* The service exits, and starts anew at the next request: another instance, an
\* empty ring and a lease that counts its epochs from 0 (Lease's Init).
Restart ==
    /\ Calm
    /\ service' = [service EXCEPT !.starts = Append(@, made)]
    /\ lease' = [lease EXCEPT !.leader = None, !.epoch = 0]
    /\ trail' = Upsetting
    /\ UNCHANGED <<storage, frame, ledger, flush>>

\* The `since` a poll sends: the frame's own, held back to the ledger's while it
\* records.
since(f) ==
    LET own  == frame[f].cursor
        mine == IF frame[f].leading /\ ledger[f].on THEN ledger[f].cursor ELSE None
    IN  IF mine = None THEN own
        ELSE IF own = None \/ mine.seq < own THEN mine.seq ELSE own

\* A poll of f reaches the service, which may hand it the lease (module Lease).
Poll(f) ==
    /\ frame[f].poll = None
    /\ \E leader \in {lease.leader, f} \ {None} :
         /\ LET taken == IF leader = lease.leader THEN 0 ELSE 1
            IN  /\ lease.turns + taken <= bound.turns
                /\ lease' = [leader |-> leader, epoch |-> lease.epoch + taken,
                             turns |-> lease.turns + taken]
         /\ frame' = [frame EXCEPT ![f].poll =
                         [page |-> Page(since(f)), leader |-> leader = f, epoch |-> lease'.epoch,
                          usurped |-> f \in trail.usurped]]
         /\ trail' = [trail EXCEPT !.usurped =
                         @ \cup {g \in Frame \ {leader} : frame[g].leading}]
    /\ UNCHANGED <<service, storage, ledger, flush>>

\* ScopeState.accept: the frame's own cursor after a page.
Accepted(own, of, page) ==
    LET same == own # None /\ of = page.instance /\ ~ page.reset /\ page.cursor >= own
    IN  IF IsShort(page) THEN page.cursor
        ELSE IF same THEN Larger(own, page.to) ELSE page.to

\* The answer arrives: LedgerRecorder.observe.  A frame that leads a new epoch
\* starts its ledger from storage, and one that does not lead, or that is hidden
\* by now, stops it.
Receive(f) ==
    /\ frame[f].poll # None
    /\ frame[f].held = None
    /\ \E leads \in {frame[f].poll.leader} \cup IF Calm THEN {FALSE} ELSE {} :
         LET answer  == frame[f].poll
             page    == answer.page
             starts  == leads /\ (~ frame[f].leading \/ answer.epoch # frame[f].epoch)
             restart == starts /\ frame[f].leading
         IN  /\ frame' = [frame EXCEPT ![f] =
                             [cursor |-> Accepted(@.cursor, @.instance, page),
                              instance |-> page.instance, poll |-> None, leading |-> leads,
                              epoch |-> answer.epoch,
                              starting |-> starts \/ (leads /\ @.starting),
                              held |-> IF leads /\ ~ restart /\ (starts \/ @.starting)
                                       THEN page ELSE None]]
             /\ IF starts \/ ~ leads
                THEN /\ ledger' = [ledger EXCEPT ![f] = Empty]
                     /\ flush' = [flush EXCEPT ![f].live = FALSE]
                     /\ trail' = [trail EXCEPT !.usurped = @ \ {f},
                                              !.upsets = IF leads = answer.leader THEN @ ELSE @ + 1]
                ELSE /\ ledger' = [ledger EXCEPT ![f] = IF @.on THEN Appended(@, page) ELSE @]
                     /\ trail' = IF ledger[f].on THEN Trailed(ledger[f], page) ELSE trail
                     /\ UNCHANGED flush
    /\ Cardinality(DOMAIN ledger'[f].pending) <= bound.pending
    /\ UNCHANGED <<service, lease, storage>>

\* The ledger's start has read storage; a page held until then is appended.
Load(f) ==
    /\ frame[f].starting
    /\ frame' = [frame EXCEPT ![f].starting = FALSE, ![f].held = None]
    /\ LET page == frame[f].held
       IN  /\ ledger' = [ledger EXCEPT ![f] = IF page = None THEN Loaded ELSE Appended(Loaded, page)]
           /\ trail' = IF page = None THEN trail ELSE Trailed(Loaded, page)
    /\ UNCHANGED <<service, lease, storage, flush>>

\* Storage cannot be read: the ledger stays stopped.
LoadFails(f) ==
    /\ Calm
    /\ frame[f].starting
    /\ frame' = [frame EXCEPT ![f].starting = FALSE, ![f].held = None]
    /\ trail' = Upsetting
    /\ UNCHANGED <<service, lease, storage, ledger, flush>>

----------------------------------------------------------------------------
(* A flush: refresh, verify, write, acknowledge.                           *)

NoWrite == [at |-> "none", live |-> FALSE, key |-> 0, rows |-> {}, cursor |-> None, take |-> 0]

Flush(f) ==
    /\ frame[f].leading
    /\ ledger[f].on
    /\ DOMAIN ledger[f].pending # {}
    /\ flush[f].at = "none"
    /\ flush' = [flush EXCEPT ![f] = [NoWrite EXCEPT !.at = "refresh", !.live = TRUE]]
    /\ UNCHANGED <<service, lease, storage, frame, ledger, trail>>

\* What is written of the rows up to a position: with what the chunk held, and the
\* cursor it acknowledges.
WriteOf(l, key, held, upto) ==
    LET taken == {i \in DOMAIN l.pending : i <= upto}
    IN  [at |-> "write", live |-> TRUE, key |-> key, rows |-> held \cup {l.pending[i].row : i \in taken},
         cursor |-> Acked(l, upto), take |-> Cardinality(taken)]

\* Mutant: the open chunk is written without what it held.
ComposedAnew(l) ==
    {WriteOf(l, IF l.open = None THEN storage.keys + 1 ELSE l.open.key, {}, Top(l.pending))}

\* The write as it is composed: into the open chunk, or into a new one when that
\* is full or a day old, with as many of the pending rows as fit.
Composed(l) ==
    (IF l.open = None THEN {} ELSE {WriteOf(l, l.open.key, l.open.rows, Top(l.pending))})
    \cup {WriteOf(l, storage.keys + 1, {}, upto) : upto \in IF storage.keys < bound.keys THEN DOMAIN l.pending ELSE {}}

\* What runs after the last read of a flush, up to the `set` of the chunk.
Prepare(f, l) ==
    /\ ledger' = [ledger EXCEPT ![f] = l]
    /\ IF ~ flush[f].live \/ DOMAIN l.pending = {}
       THEN flush' = [flush EXCEPT ![f] = NoWrite] /\ UNCHANGED storage
       ELSE \E write \in Composed(l) :
              /\ flush' = [flush EXCEPT ![f] = write]
              /\ storage' = [storage EXCEPT !.keys = Larger(@, write.key)]

Refresh(f) ==
    /\ flush[f].at = "refresh"
    /\ LET l == Refreshed(ledger[f])
       IN  IF l.open # None /\ ~ l.open.verified
           THEN /\ ledger' = [ledger EXCEPT ![f] = l]
                /\ flush' = [flush EXCEPT ![f].at = "verify"]
                /\ UNCHANGED storage
           ELSE Prepare(f, l)
    /\ UNCHANGED <<service, lease, frame, trail>>

Verify(f) ==
    /\ flush[f].at = "verify"
    /\ Prepare(f, IF ledger[f].open = None THEN ledger[f] ELSE Verified(ledger[f]))
    /\ UNCHANGED <<service, lease, frame, trail>>

\* The replies a restart lost, once their cursor has moved to the new ring in
\* storage while the gap that tells of them is in a ledger's memory only.
Unsaid(cursor) ==
    IF cursor.seq # 0 THEN {}
    ELSE {ReplyRow(n) : n \in {m \in 1 .. service.starts[cursor.instance] : 2 * m > cursor.at}}

\* The host stores the chunk, whatever became of the frame that sent it.
Store(f) ==
    /\ flush[f].at = "write"
    /\ LET w == flush[f]
       IN  storage' = [storage EXCEPT !.chunks =
                          [k \in DOMAIN @ \cup {w.key} |->
                              IF k = w.key THEN [rows |-> w.rows, cursor |-> w.cursor] ELSE @[k]]]
    /\ flush' = [flush EXCEPT ![f].at = "stored"]
    /\ trail' = [trail EXCEPT !.written = @ \cup flush[f].rows,
                              !.unsaid = @ \cup Unsaid(flush[f].cursor)]
    /\ UNCHANGED <<service, lease, frame, ledger>>

\* The host refuses; a read tells whether storage is gone for good.
Reject(f) ==
    /\ Calm
    /\ flush[f].at = "write"
    /\ flush' = [flush EXCEPT ![f] = NoWrite]
    /\ \/ UNCHANGED ledger
       \/ /\ flush[f].live
          /\ ledger' = [ledger EXCEPT ![f].pending = Nothing, ![f].on = FALSE]
    /\ trail' = Upsetting
    /\ UNCHANGED <<service, lease, storage, frame>>

\* #evict after a flush: the chunks older than the clear go.
Evicted(l) == {k \in l.chunks \ {l.open.key} :
                 k \in DOMAIN storage.chunks /\ newest(storage.chunks[k].rows) < l.clearedAt}

\* The first positions, as many as were taken: of what is pending by then.
First(pending, take) == {i \in DOMAIN pending : Cardinality({j \in DOMAIN pending : j <= i}) <= take}

\* The frame hears that its chunk is stored.
Acknowledge(f) ==
    /\ flush[f].at = "stored"
    /\ flush' = [flush EXCEPT ![f] = NoWrite]
    /\ IF flush[f].live
       THEN LET w == flush[f]
                l == [ledger[f] EXCEPT !.chunks = @ \cup {w.key},
                                       !.open = [key |-> w.key, rows |-> w.rows, verified |-> TRUE],
                                       !.pending = Without(@, First(@, w.take))]
            IN  /\ ledger' = [ledger EXCEPT ![f] = [l EXCEPT !.chunks = @ \ Evicted(l)]]
                /\ trail' = [trail EXCEPT !.cut = @ \cup ({ledger[f].pending[i].row : i \in First(ledger[f].pending, w.take)} \ w.rows)]
                /\ storage' = [storage EXCEPT !.chunks =
                                  [k \in DOMAIN @ \ Evicted(l) |-> @[k]]]
       ELSE UNCHANGED <<ledger, storage, trail>>
    /\ UNCHANGED <<service, lease, frame>>

----------------------------------------------------------------------------
(* History -> Storage, in any frame.                                       *)

\* setPaused: at once in this frame, and in `pref.v2` for the others.
SetPaused(f) ==
    /\ Calm
    /\ storage' = [storage EXCEPT !.paused = ~ @]
    /\ trail' = Upsetting
    /\ ledger' = [ledger EXCEPT ![f].paused = IF ledger[f].on THEN ~ storage.paused ELSE @]
    /\ UNCHANGED <<service, lease, frame, flush>>

\* clear: first meta.clearedAt, then every chunk goes, then this frame forgets its
\* own.  A host's answers reach a frame in order, so that a chunk stored before the
\* chunks went is acknowledged before the clear ends.
ClearStart(f) ==
    /\ Calm
    /\ storage.clearing = None
    /\ storage' = [storage EXCEPT !.clearedAt = now, !.clearing = f]
    /\ trail' = Upsetting
    /\ UNCHANGED <<service, lease, frame, ledger, flush>>

ClearChunks(f) ==
    /\ storage.clearing = f
    /\ ~ storage.cleared
    /\ storage' = [storage EXCEPT !.chunks = Nothing, !.cleared = TRUE]
    /\ UNCHANGED <<service, lease, frame, ledger, flush, trail>>

ClearEnd(f) ==
    /\ storage.clearing = f
    /\ storage.cleared
    /\ flush[f].at # "stored"
    /\ storage' = [storage EXCEPT !.clearing = None, !.cleared = FALSE]
    /\ ledger' = [ledger EXCEPT ![f] =
                     IF @.on THEN [Cleared(@, storage.clearedAt) EXCEPT !.chunks = @ \cap DOMAIN storage.chunks]
                     ELSE @]
    /\ UNCHANGED <<service, lease, frame, flush, trail>>

----------------------------------------------------------------------------

Init ==
    /\ bound \in Bounds
    /\ service = [starts |-> <<0>>, made |-> 0]
    /\ lease = [leader |-> None, epoch |-> 0, turns |-> 0]
    /\ storage = [chunks |-> Nothing, clearedAt |-> 0, paused |-> FALSE,
                  keys |-> 0, clearing |-> None, cleared |-> FALSE]
    /\ frame = [f \in Frame |-> [cursor |-> None, instance |-> 0, poll |-> None, leading |-> FALSE,
                                 epoch |-> 0, starting |-> FALSE, held |-> None]]
    /\ ledger = [f \in Frame |-> Empty]
    /\ flush = [f \in Frame |-> NoWrite]
    /\ trail = [written |-> {}, declined |-> {}, skipped |-> {}, unsaid |-> {}, cut |-> {}, paused |-> {}, usurped |-> {},
                upsets |-> 0]

Write(f) == Flush(f) \/ Refresh(f) \/ Verify(f) \/ Store(f) \/ Reject(f) \/ Acknowledge(f)

Next ==
    /\ \/ Complete
       \/ Restart
       \/ \E f \in bound.frames :
             \/ Poll(f) \/ Receive(f) \/ Load(f) \/ LoadFails(f) \/ Write(f)
             \/ SetPaused(f) \/ ClearStart(f) \/ ClearChunks(f) \/ ClearEnd(f)
    /\ UNCHANGED bound

Spec == Init /\ [][Next]_vars

----------------------------------------------------------------------------
Stored == UNION {storage.chunks[k].rows : k \in DOMAIN storage.chunks}

\* Reply n was recorded, or its time was recorded as a gap; it was declined while
\* recording was paused, or cleared; it was jumped over, or cut off.
Accounted(n) ==
    \/ 2 * n < storage.clearedAt
    \/ \E row \in trail.written \cup trail.declined \cup trail.skipped \cup trail.cut :
         row.from <= 2 * n /\ 2 * n <= row.to

\* A reply a stored cursor acknowledges is never read again, so it is accounted for.
AcknowledgedIsRecorded ==
    \A k \in DOMAIN storage.chunks : \A n \in before + 1 .. made :
        /\ storage.chunks[k].cursor.instance = instance
        /\ n - before <= storage.chunks[k].cursor.seq
        => Accounted(n)

Between(n) == /\ \E row \in Stored : row.to < 2 * n
              /\ \E row \in Stored : 2 * n < row.from

\* Between two replies of history nothing is missing without a gap, but for what
\* a write in the middle of a resync took for read.
NothingMissingBetween ==
    \A n \in 1 .. made : Between(n) /\ ReplyRow(n) \notin trail.unsaid => Accounted(n)

\* "A service restart re-reads the new ring from its start and records a gap": a
\* reply that went with the old ring lies in a gap as soon as later ones are stored.
RestartLeavesGap ==
    \A n \in 1 .. before : Between(n) => Accounted(n)

\* A leader's write drops no reply from a chunk that it will not read again: one it
\* has counted as recorded and does not hold pending.
SeenIsKeptStep ==
    \A f \in Frame : \A k \in DOMAIN storage.chunks \cap DOMAIN storage'.chunks :
        Store(f) /\ flush[f].live
        => \A row \in storage.chunks[k].rows \ storage'.chunks[k].rows :
              \/ row.to < storage.clearedAt
              \/ row \notin ledger[f].seen \ trail.declined
              \/ row \in RowsOf(ledger[f].pending)
SeenIsKept == [][SeenIsKeptStep]_vars

\* "Leadership handed away and back: another leader may have stored rows since, so
\* restart from storage": a frame that is told it leads, after another frame led,
\* starts its ledger anew.
HandoverIsNoticed ==
    [][\A f \in Frame :
          Receive(f) /\ frame[f].poll.leader /\ frame[f].poll.usurped /\ f \in trail.usurped
          => frame'[f].starting]_vars

\* "`reset` or a cursor jump records a gap row": a ledger that has a cursor is not
\* taken past replies it was never sent without a gap.
CursorJumpLeavesGap ==
    [][\A f \in Frame :
          \/ Load(f) /\ Loaded.cursor # None
          \/ Receive(f) /\ ledger[f].cursor # None
          => trail'.skipped = trail.skipped]_vars

\* "Pause recording: stops new records": a reply that finished while recording was
\* paused, and that a leader left out for it, is not recorded later.
PausedStaysOut == trail.paused \cap trail.declined \cap Stored = {}

\* "A flush that raced past a Clear is undone": once a clear is over, a ledger that
\* knows of it goes on with no stored chunk that holds what was cleared.
ClearedIsForgotten ==
    \A f \in Frame :
        /\ storage.clearing = None
        /\ ledger[f].on
        /\ ledger[f].open # None
        /\ ledger[f].open.verified
        /\ ledger[f].open.key \in DOMAIN storage.chunks
        => \A row \in ledger[f].open.rows : row.to >= ledger[f].clearedAt
============================================================================
