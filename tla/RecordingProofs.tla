--------------------------- MODULE RecordingProofs ---------------------------
(***************************************************************************)
(* What Recording promises for every number of frames, replies and upsets, *)
(* and every size of the ring and its pages.                               *)
(***************************************************************************)
EXTENDS Recording, WellFoundedInduction, TLAPS

----------------------------------------------------------------------------
(* The replies so far, and what is known of them: that they were recorded, *)
(* for one of the reasons Accounted gives or lost in a restart.  A world   *)
(* only grows.                                                             *)

known == {n \in 1 .. made : Accounted(n) \/ ReplyRow(n) \in trail.unsaid}

World == [starts |-> service.starts, made |-> made, known |-> known,
          written |-> trail.written, clearedAt |-> storage.clearedAt]

Tells(row, n) == row.from <= 2 * n /\ 2 * n <= row.to

IsRow(row, w) ==
    /\ row = [from |-> row.from, to |-> row.to]
    /\ row.from \in Nat /\ row.to \in Nat
    /\ 1 <= row.from /\ row.from <= 2 * w.made + 1 /\ row.to <= 2 * w.made + 1

\* A cursor stands at a time, and in the ring of an instance.
IsCursor(c, w) ==
    /\ c # None
    /\ c = [instance |-> c.instance, seq |-> c.seq, at |-> c.at]
    /\ c.instance \in 1 .. Len(w.starts)
    /\ c.seq \in Nat /\ c.at \in Nat
    /\ 1 <= c.at /\ c.at <= 2 * w.made + 1
    /\ w.starts[c.instance] + c.seq <= w.made

Reaches(c, n, w) == n <= w.starts[c.instance] + c.seq
Passes(c, n, w) == 2 * n <= c.at \/ (c.seq # 0 /\ Reaches(c, n, w))

\* Nothing that was written leaves out a reply before it.
IsWorld(w) ==
    /\ w.made \in Nat
    /\ w.starts \in Seq(Nat) /\ Len(w.starts) >= 1
    /\ \A i \in 1 .. Len(w.starts) : w.starts[i] <= w.starts[Len(w.starts)]
    /\ w.starts[Len(w.starts)] <= w.made
    /\ w.known \subseteq 1 .. w.made
    /\ w.clearedAt \in Nat
    /\ \A n \in 1 .. w.made : 2 * n < w.clearedAt => n \in w.known
    /\ \A row \in w.written : IsRow(row, w) /\ \A n \in 1 .. w.made : 2 * n < row.from \/ Tells(row, n) => n \in w.known

----------------------------------------------------------------------------
(* What waits in a ledger.                                                 *)

IsMap(p) == p = [i \in DOMAIN p |-> p[i]]

StandsAt(p, i, row, cursor) == i \in DOMAIN p /\ p[i].row = row /\ p[i].cursor = cursor

ToldBy(p, i, n) == \E j \in DOMAIN p : j <= i /\ Tells(p[j].row, n)
ToldIn(p, n) == \E j \in DOMAIN p : Tells(p[j].row, n)
Known(p, n, w) == n \in w.known \/ ToldIn(p, n)

\* A row waits behind all that tells of the replies before it, and of those its
\* cursor takes for read.
IsEntry(p, i, w) ==
    /\ IsRow(p[i].row, w) /\ IsCursor(p[i].cursor, w)
    /\ \A n \in 1 .. w.made : 2 * n < p[i].row.from \/ Passes(p[i].cursor, n, w)
         => n \in w.known \/ ToldBy(p, i, n)

IsPending(p, w) ==
    /\ IsMap(p)
    /\ DOMAIN p \subseteq Nat \ {0}
    /\ \E b \in Nat : \A i \in DOMAIN p : i <= b
    /\ \A i \in DOMAIN p : IsEntry(p, i, w)

IsRecord(l) ==
    l = [on |-> l.on, cursor |-> l.cursor, resync |-> l.resync, seen |-> l.seen, pending |-> l.pending,
         open |-> l.open, chunks |-> l.chunks, clearedAt |-> l.clearedAt, paused |-> l.paused]

Unread(l) ==
    l.cursor = None => l.seen = {} /\ DOMAIN l.pending = {} /\ l.resync = None /\ l.open = None

CursorIsTrue(l, w) ==
    l.cursor # None =>
        /\ IsCursor(l.cursor, w)
        /\ \A n \in 1 .. w.made : 2 * n <= l.cursor.at \/ (l.resync = None /\ Reaches(l.cursor, n, w))
             => Known(l.pending, n, w)

SeenIsKnown(l, w) ==
    \A n \in Nat : ReplyRow(n) \in l.seen => n \in 1 .. w.made /\ Known(l.pending, n, w)

ResyncIsCursor(l) == l.resync # None => l.cursor # None /\ l.resync = l.cursor.at /\ l.cursor.seq = 0

OpenIsWritten(l, w) ==
    l.open # None =>
        /\ l.open = [key |-> l.open.key, rows |-> l.open.rows, verified |-> l.open.verified]
        /\ l.open.key \in Nat /\ l.open.rows \subseteq w.written

IsLedger(l, w) ==
    /\ IsPending(l.pending, w)
    /\ Unread(l) /\ CursorIsTrue(l, w) /\ SeenIsKnown(l, w) /\ ResyncIsCursor(l) /\ OpenIsWritten(l, w)
    /\ l.clearedAt \in Nat /\ l.clearedAt <= w.clearedAt

IsPage(page, w) ==
    /\ page.instance \in 1 .. Len(w.starts)
    /\ page.before = w.starts[page.instance]
    /\ page.cursor \in Nat /\ page.from \in Nat /\ page.to \in Nat
    /\ page.from <= page.to /\ page.to <= page.cursor
    /\ page.to - page.from < PageSize => page.to = page.cursor
    /\ page.before + page.cursor <= w.made
    /\ page.at = 2 * (page.before + page.cursor) + 1
    /\ page.reset \in BOOLEAN
    /\ page.since \in Nat \cup {None}
    /\ page.since # None /\ ~ page.reset => page.from = page.since

IsChunk(c, w) ==
    /\ c.rows \subseteq w.written
    /\ IsCursor(c.cursor, w)
    /\ \A n \in 1 .. w.made : 2 * n <= c.cursor.at \/ Reaches(c.cursor, n, w) => n \in w.known

ToldOf(rows, n) == \E row \in rows : Tells(row, n)

IsWrite(write, w) ==
    /\ IsCursor(write.cursor, w)
    /\ \A row \in write.rows : IsRow(row, w)
    /\ \A n \in 1 .. w.made :
         Passes(write.cursor, n, w) \/ (\E row \in write.rows : 2 * n < row.from)
         => n \in w.known \/ ToldOf(write.rows, n)

----------------------------------------------------------------------------
IsShape ==
    /\ bound.frames \subseteq Frame
    /\ DOMAIN service = {"starts", "made"}
    /\ DOMAIN storage = {"chunks", "clearedAt", "paused", "keys", "clearing", "cleared"}
    /\ DOMAIN trail = {"written", "declined", "skipped", "unsaid", "cut", "paused", "usurped", "upsets"}
    /\ DOMAIN frame = Frame /\ DOMAIN ledger = Frame /\ DOMAIN flush = Frame
    /\ \A f \in Frame :
         /\ DOMAIN frame[f] = {"cursor", "instance", "poll", "leading", "epoch", "starting", "held"}
         /\ DOMAIN flush[f] = {"at", "live", "key", "rows", "cursor", "take"}

StorageIsTrue ==
    /\ storage.keys \in Nat
    /\ DOMAIN storage.chunks \subseteq 0 .. storage.keys
    /\ \A k \in DOMAIN storage.chunks : IsChunk(storage.chunks[k], World)

FrameIsTrue(f) ==
    /\ frame[f].cursor \in Nat \cup {None}
    /\ frame[f].poll # None => IsPage(frame[f].poll.page, World)
    /\ frame[f].held # None => IsPage(frame[f].held, World)
    /\ frame[f].starting => ~ ledger[f].on

LedgerIsTrue(f) ==
    /\ IsRecord(ledger[f])
    /\ ledger[f].on => IsLedger(ledger[f], World)

FlushIsTrue(f) ==
    /\ flush[f].at = "write" => IsWrite(flush[f], World)
    /\ flush[f].at = "stored" => flush[f].rows \subseteq trail.written
    /\ flush[f].at \in {"write", "stored"} =>
         /\ flush[f].key \in Nat /\ flush[f].key <= storage.keys
         /\ flush[f].live => ledger[f].cursor # None
    /\ flush[f].live => ledger[f].on

HistoryIsTrue ==
    /\ IsWorld(World)
    /\ \A n \in Nat : ReplyRow(n) \in trail.unsaid => n <= before
    /\ storage.clearedAt <= now
    /\ StorageIsTrue
    /\ \A f \in Frame : FrameIsTrue(f) /\ LedgerIsTrue(f) /\ FlushIsTrue(f)

RecordingInv == IsShape /\ HistoryIsTrue


----------------------------------------------------------------------------
(* Least and greatest.                                                     *)

\* A set of naturals has a least one, which Min is.
LEMMA MinIs ==
    ASSUME NEW S \in SUBSET Nat, S # {}
    PROVE  Min(S) \in S /\ \A y \in S : Min(S) <= y
<1>1. PICK x \in S : \A y \in S : ~ (<<y, x>> \in OpToRel(<, Nat))
  BY NatLessThanWellFounded, WFMin
<1>2. \A y \in S : x <= y
  <2>1. TAKE y \in S
  <2>2. ~ (y < x)
    BY <1>1, <2>1 DEF OpToRel
  <2> QED BY <2>2
<1> QED BY <1>2 DEF Min

\* A bounded one has a greatest, which Max is.
LEMMA MaxIs ==
    ASSUME NEW S \in SUBSET Nat, S # {}, NEW b \in Nat, \A y \in S : y <= b
    PROVE  Max(S) \in S /\ \A y \in S : y <= Max(S)
<1> DEFINE T == {b - y : y \in S}
<1>0. \A y \in S : b - y \in Nat
  OBVIOUS
<1>1. T \in SUBSET Nat /\ T # {}
  BY <1>0
<1>2. Min(T) \in T /\ \A t \in T : Min(T) <= t
  BY <1>1, MinIs
<1>3. PICK x \in S : Min(T) = b - x
  BY <1>2
<1>4. \A y \in S : y <= x
  <2>1. TAKE y \in S
  <2>2. b - y \in T
    OBVIOUS
  <2>3. b - x <= b - y
    BY <1>2, <1>3, <2>2
  <2> QED BY <2>3
<1> QED BY <1>4 DEF Max

\* The last position is one, and is 0 when nothing waits.
LEMMA TopIs ==
    ASSUME NEW p, DOMAIN p \subseteq Nat \ {0}, NEW b \in Nat, \A i \in DOMAIN p : i <= b
    PROVE  Top(p) \in Nat /\ \A i \in DOMAIN p : i <= Top(p)
<1> DEFINE S == {0} \cup DOMAIN p
<1>1. S \in SUBSET Nat /\ S # {} /\ \A y \in S : y <= b
  OBVIOUS
<1>2. Max(S) \in S /\ \A y \in S : y <= Max(S)
  BY <1>1, MaxIs
<1> QED BY <1>1, <1>2 DEF Top

----------------------------------------------------------------------------
(* What holds in a world holds in every one it grows into.                 *)

Grows(w, v) ==
    /\ IsWorld(w) /\ IsWorld(v)
    /\ w.made <= v.made /\ w.clearedAt <= v.clearedAt
    /\ Len(w.starts) <= Len(v.starts)
    /\ \A i \in 1 .. Len(w.starts) : v.starts[i] = w.starts[i]
    /\ w.known \subseteq v.known /\ w.written \subseteq v.written

LEMMA GrowsFacts ==
    ASSUME NEW w, NEW v, Grows(w, v)
    PROVE  /\ w.made \in Nat /\ v.made \in Nat /\ w.made <= v.made
           /\ w.starts \in Seq(Nat) /\ v.starts \in Seq(Nat)
           /\ Len(w.starts) \in Nat /\ Len(v.starts) \in Nat /\ Len(w.starts) <= Len(v.starts)
           /\ \A i \in 1 .. Len(w.starts) : w.starts[i] \in Nat /\ v.starts[i] = w.starts[i]
           /\ w.known \subseteq v.known /\ w.written \subseteq v.written
<1>1. /\ w.made \in Nat /\ v.made \in Nat /\ w.made <= v.made
      /\ w.known \subseteq v.known /\ w.written \subseteq v.written
  BY DEF Grows, IsWorld
<1>2. /\ w.starts \in Seq(Nat) /\ v.starts \in Seq(Nat)
      /\ Len(w.starts) <= Len(v.starts)
      /\ \A i \in 1 .. Len(w.starts) : v.starts[i] = w.starts[i]
  BY DEF Grows, IsWorld
<1>3. Len(w.starts) \in Nat /\ Len(v.starts) \in Nat
  BY <1>2
<1>4. \A i \in 1 .. Len(w.starts) : w.starts[i] \in Nat
  BY <1>2
<1> QED BY <1>1, <1>2, <1>3, <1>4, Zenon

LEMMA StartsGrow ==
    ASSUME NEW w, NEW v, Grows(w, v), NEW i, i \in 1 .. Len(w.starts)
    PROVE  w.starts[i] \in Nat /\ v.starts[i] = w.starts[i] /\ i \in 1 .. Len(v.starts)
<1>1. w.starts[i] \in Nat /\ v.starts[i] = w.starts[i]
  <2>1. \A j \in 1 .. Len(w.starts) : w.starts[j] \in Nat /\ v.starts[j] = w.starts[j]
    BY GrowsFacts
  <2> QED BY <2>1, Zenon
<1>2. i \in 1 .. Len(v.starts)
  <2>1. Len(w.starts) \in Nat /\ Len(v.starts) \in Nat /\ Len(w.starts) <= Len(v.starts)
    BY GrowsFacts
  <2> QED BY <2>1
<1> QED BY <1>1, <1>2

LEMMA RowGrows ==
    ASSUME NEW w, NEW v, Grows(w, v), NEW row, IsRow(row, w)
    PROVE  /\ IsRow(row, v)
           /\ \A n \in 1 .. v.made : 2 * n < row.from => n \in 1 .. w.made
BY GrowsFacts DEF IsRow

LEMMA CursorGrows ==
    ASSUME NEW w, NEW v, Grows(w, v), NEW c, IsCursor(c, w)
    PROVE  /\ IsCursor(c, v)
           /\ \A n : Reaches(c, n, v) <=> Reaches(c, n, w)
           /\ \A n \in 1 .. v.made : 2 * n <= c.at \/ Reaches(c, n, v) => n \in 1 .. w.made
<1>1. /\ c.instance \in 1 .. Len(w.starts) /\ c.seq \in Nat /\ c.at \in Nat
      /\ 1 <= c.at /\ c.at <= 2 * w.made + 1 /\ w.starts[c.instance] + c.seq <= w.made
  BY DEF IsCursor
<1>2. w.starts[c.instance] \in Nat /\ v.starts[c.instance] = w.starts[c.instance]
  BY <1>1, StartsGrow, Zenon
<1>3. IsCursor(c, v)
  <2>1. c.instance \in 1 .. Len(v.starts)
    BY <1>1, StartsGrow, Zenon
  <2>2. v.starts[c.instance] + c.seq <= v.made
    <3>1. w.made \in Nat /\ v.made \in Nat /\ w.made <= v.made
      BY GrowsFacts
    <3>2. w.starts[c.instance] + c.seq <= v.made
      BY <1>1, <1>2, <3>1
    <3> QED BY <3>2, <1>2, Zenon
  <2>3. c.at <= 2 * v.made + 1
    <3>1. w.made \in Nat /\ v.made \in Nat /\ w.made <= v.made
      BY GrowsFacts
    <3> QED BY <1>1, <3>1
  <2>4. c # None /\ c = [instance |-> c.instance, seq |-> c.seq, at |-> c.at]
    BY DEF IsCursor
  <2> QED BY <1>1, <2>1, <2>2, <2>3, <2>4 DEF IsCursor
<1>4. \A n : Reaches(c, n, v) <=> Reaches(c, n, w)
  BY <1>2 DEF Reaches
<1>5. ASSUME NEW n \in 1 .. v.made, 2 * n <= c.at \/ Reaches(c, n, v)
      PROVE  n \in 1 .. w.made
  <2>0. w.made \in Nat /\ v.made \in Nat
    BY GrowsFacts
  <2>1. CASE 2 * n <= c.at
    BY <1>1, <2>0, <2>1
  <2>2. CASE n <= w.starts[c.instance] + c.seq
    BY <1>1, <1>2, <2>0, <2>2
  <2> QED BY <1>2, <1>5, <2>1, <2>2 DEF Reaches
<1> QED BY <1>3, <1>4, <1>5

LEMMA EntryGrows ==
    ASSUME NEW w, NEW v, Grows(w, v), NEW p, NEW i, IsEntry(p, i, w)
    PROVE  IsEntry(p, i, v)
<1>1. IsRow(p[i].row, v) /\ IsCursor(p[i].cursor, v)
  BY RowGrows, CursorGrows DEF IsEntry
<1>2. ASSUME NEW n \in 1 .. v.made, 2 * n < p[i].row.from \/ Passes(p[i].cursor, n, v)
      PROVE  n \in v.known \/ ToldBy(p, i, n)
  <2>1. n \in 1 .. w.made /\ (2 * n < p[i].row.from \/ Passes(p[i].cursor, n, w))
    BY <1>2, RowGrows, CursorGrows DEF IsEntry, Passes
  <2> QED BY <2>1, GrowsFacts DEF IsEntry
<1> QED BY <1>1, <1>2 DEF IsEntry

LEMMA LedgerGrows ==
    ASSUME NEW w, NEW v, Grows(w, v), NEW l, IsLedger(l, w)
    PROVE  IsLedger(l, v)
<1>1. IsPending(l.pending, v)
  BY EntryGrows DEF IsLedger, IsPending
<1>2. Unread(l) /\ ResyncIsCursor(l)
  BY DEF IsLedger
<1>3. CursorIsTrue(l, v)
  <2> SUFFICES ASSUME l.cursor # None PROVE CursorIsTrue(l, v)
    BY DEF CursorIsTrue
  <2>1. IsCursor(l.cursor, w)
    BY DEF IsLedger, CursorIsTrue
  <2>2. ASSUME NEW n \in 1 .. v.made, 2 * n <= l.cursor.at \/ (l.resync = None /\ Reaches(l.cursor, n, v))
        PROVE  Known(l.pending, n, v)
    <3>1. n \in 1 .. w.made /\ (2 * n <= l.cursor.at \/ (l.resync = None /\ Reaches(l.cursor, n, w)))
      BY <2>1, <2>2, CursorGrows
    <3>2. Known(l.pending, n, w)
      BY <3>1 DEF IsLedger, CursorIsTrue
    <3> QED BY <3>2, GrowsFacts DEF Known
  <2> QED BY <2>1, <2>2, CursorGrows DEF CursorIsTrue
<1>4. SeenIsKnown(l, v)
  <2> SUFFICES ASSUME NEW n \in Nat, ReplyRow(n) \in l.seen PROVE n \in 1 .. v.made /\ Known(l.pending, n, v)
    BY DEF SeenIsKnown
  <2>1. n \in 1 .. w.made /\ Known(l.pending, n, w)
    BY DEF IsLedger, SeenIsKnown
  <2> QED BY <2>1, GrowsFacts DEF Known
<1>5. l.clearedAt \in Nat /\ l.clearedAt <= v.clearedAt
  BY DEF IsLedger, Grows, IsWorld
<1>6. OpenIsWritten(l, v)
  BY GrowsFacts DEF IsLedger, OpenIsWritten
<1> QED BY <1>1, <1>2, <1>3, <1>4, <1>5, <1>6 DEF IsLedger

LEMMA PageGrows ==
    ASSUME NEW w, NEW v, Grows(w, v), NEW page, IsPage(page, w)
    PROVE  IsPage(page, v)
<1>0. page.instance \in 1 .. Len(w.starts) /\ page.before = w.starts[page.instance]
  BY DEF IsPage
<1>1. page.instance \in 1 .. Len(v.starts) /\ page.before = v.starts[page.instance] /\ page.before \in Nat
  BY <1>0, StartsGrow, Zenon
<1>2. page.before + page.cursor <= v.made
  <2>1. w.made \in Nat /\ v.made \in Nat /\ w.made <= v.made
    BY GrowsFacts
  <2>2. page.cursor \in Nat /\ page.before + page.cursor <= w.made
    BY DEF IsPage
  <2> QED BY <1>1, <2>1, <2>2
<1> QED BY <1>1, <1>2 DEF IsPage

LEMMA ChunkGrows ==
    ASSUME NEW w, NEW v, Grows(w, v), NEW c, IsChunk(c, w)
    PROVE  IsChunk(c, v)
<1>1. ASSUME NEW n \in 1 .. v.made, 2 * n <= c.cursor.at \/ Reaches(c.cursor, n, v)
      PROVE  n \in v.known
  <2>1. n \in 1 .. w.made /\ (2 * n <= c.cursor.at \/ Reaches(c.cursor, n, w))
    BY <1>1, CursorGrows DEF IsChunk
  <2> QED BY <2>1, GrowsFacts DEF IsChunk
<1>2. IsCursor(c.cursor, v) /\ c.rows \subseteq v.written
  BY CursorGrows, GrowsFacts DEF IsChunk
<1> QED BY <1>1, <1>2 DEF IsChunk

LEMMA WriteGrows ==
    ASSUME NEW w, NEW v, Grows(w, v), NEW write, IsWrite(write, w)
    PROVE  IsWrite(write, v)
<1>1. IsCursor(write.cursor, v) /\ \A row \in write.rows : IsRow(row, v)
  BY CursorGrows, RowGrows DEF IsWrite
<1>2. ASSUME NEW n \in 1 .. v.made, Passes(write.cursor, n, v) \/ \E row \in write.rows : 2 * n < row.from
      PROVE  n \in v.known \/ ToldOf(write.rows, n)
  <2>1. CASE Passes(write.cursor, n, v)
    <3>1. n \in 1 .. w.made /\ Passes(write.cursor, n, w)
      BY <2>1, CursorGrows DEF IsWrite, Passes
    <3> QED BY <3>1, GrowsFacts DEF IsWrite
  <2>2. CASE \E row \in write.rows : 2 * n < row.from
    <3>1. n \in 1 .. w.made
      BY <2>2, RowGrows DEF IsWrite
    <3> QED BY <2>2, <3>1, GrowsFacts DEF IsWrite
  <2> QED BY <1>2, <2>1, <2>2
<1> QED BY <1>1, <1>2 DEF IsWrite

----------------------------------------------------------------------------
(* Rows that go from what is pending.                                      *)

\* Those that stay keep their rows and cursors, and their order.
LEMMA WithoutIs ==
    ASSUME NEW p, DOMAIN p \subseteq Nat \ {0}, NEW gone
    PROVE  \E by \in Nat :
             /\ \A i \in DOMAIN Without(p, gone) :
                  /\ i \in Nat \ {0}
                  /\ i + by \in DOMAIN p \ gone
                  /\ Without(p, gone)[i] = p[i + by]
             /\ \A j \in DOMAIN p \ gone : j - by \in DOMAIN Without(p, gone)
             /\ IsMap(Without(p, gone))
<1> DEFINE left == DOMAIN p \ gone
           by == IF left = {} THEN 0 ELSE Min(left) - 1
           S == {j - by : j \in left}
           q == [i \in S |-> p[i + by]]
<1>1. by \in Nat /\ \A j \in left : j - by \in Nat \ {0}
  <2>1. CASE left = {}
    BY <2>1
  <2>2. CASE left # {}
    <3>1. left \in SUBSET Nat /\ \A j \in left : j >= 1
      OBVIOUS
    <3>2. Min(left) \in left /\ \A j \in left : Min(left) <= j
      BY <2>2, <3>1, MinIs
    <3>3. by = Min(left) - 1
      BY <2>2
    <3>4. Min(left) \in Nat /\ Min(left) >= 1
      BY <3>1, <3>2
    <3> HIDE DEF by, left
    <3>5. by \in Nat
      BY <3>3, <3>4
    <3>6. ASSUME NEW j \in left PROVE j - by \in Nat \ {0}
      <4>1. j \in Nat /\ Min(left) <= j
        BY <3>1, <3>2
      <4> QED BY <3>3, <3>4, <4>1
    <3> QED BY <3>5, <3>6
  <2> QED BY <2>1, <2>2
<1>2. Without(p, gone) = q
  BY DEF Without
<1>3. DOMAIN q = S /\ \A i \in S : q[i] = p[i + by]
  OBVIOUS
<1>4. left \subseteq Nat /\ left = DOMAIN p \ gone
  OBVIOUS
<1>5. IsMap(q)
  BY <1>3 DEF IsMap
<1> HIDE DEF q, by, left
<1>6. \A i \in S : i \in Nat \ {0} /\ i + by \in left
  BY <1>1, <1>4
<1> HIDE DEF S
<1>7. \A j \in left : j - by \in S
  BY DEF S
<1> QED BY <1>1, <1>2, <1>3, <1>4, <1>5, <1>6, <1>7

\* Rows go without a loss when what they tell of is known.
LEMMA WithoutKeeps ==
    ASSUME NEW w, NEW p, IsPending(p, w), NEW gone,
           \A j \in DOMAIN p \cap gone : \A n \in 1 .. w.made : Tells(p[j].row, n) => n \in w.known
    PROVE  /\ IsPending(Without(p, gone), w)
           /\ \A n \in 1 .. w.made : Known(p, n, w) => Known(Without(p, gone), n, w)
<1> DEFINE q == Without(p, gone)
<1>1. DOMAIN p \subseteq Nat \ {0} /\ \A i \in DOMAIN p : IsEntry(p, i, w)
  BY DEF IsPending
<1>2. PICK b \in Nat : \A i \in DOMAIN p : i <= b
  BY DEF IsPending
<1>3. PICK by \in Nat :
        /\ \A i \in DOMAIN q : i \in Nat \ {0} /\ i + by \in DOMAIN p \ gone /\ q[i] = p[i + by]
        /\ \A j \in DOMAIN p \ gone : j - by \in DOMAIN q
        /\ IsMap(q)
  BY <1>1, WithoutIs
<1> HIDE DEF q
<1>4. ASSUME NEW n \in 1 .. w.made, NEW j \in DOMAIN p, Tells(p[j].row, n), n \notin w.known
      PROVE  j - by \in DOMAIN q /\ Tells(q[j - by].row, n)
  <2>1. j \in DOMAIN p \ gone /\ j \in Nat
    BY <1>1, <1>4
  <2>2. j - by \in DOMAIN q
    BY <1>3, <2>1
  <2>3. q[j - by] = p[(j - by) + by] /\ (j - by) + by = j
    BY <1>3, <2>1, <2>2
  <2> QED BY <1>4, <2>2, <2>3
<1>5. ASSUME NEW i \in DOMAIN q PROVE IsEntry(q, i, w)
  <2>1. i \in Nat /\ i + by \in DOMAIN p /\ q[i] = p[i + by]
    BY <1>3
  <2>2. IsEntry(p, i + by, w)
    BY <1>1, <2>1
  <2>3. ASSUME NEW n \in 1 .. w.made, 2 * n < q[i].row.from \/ Passes(q[i].cursor, n, w)
        PROVE  n \in w.known \/ ToldBy(q, i, n)
    <3> SUFFICES ASSUME n \notin w.known PROVE ToldBy(q, i, n)
      OBVIOUS
    <3>1. ToldBy(p, i + by, n)
      BY <2>1, <2>2, <2>3 DEF IsEntry
    <3>2. PICK j \in DOMAIN p : j <= i + by /\ Tells(p[j].row, n)
      BY <3>1 DEF ToldBy
    <3>3. j - by \in DOMAIN q /\ Tells(q[j - by].row, n)
      BY <1>4, <3>2
    <3>4. j - by <= i
      BY <1>1, <2>1, <3>2
    <3> QED BY <3>3, <3>4 DEF ToldBy
  <2>4. IsRow(q[i].row, w) /\ IsCursor(q[i].cursor, w)
    BY <2>1, <2>2 DEF IsEntry
  <2> QED BY <2>3, <2>4 DEF IsEntry
<1>6. \A i \in DOMAIN q : i <= b
  BY <1>1, <1>2, <1>3
<1>7. IsPending(q, w)
  BY <1>3, <1>5, <1>6 DEF IsPending
<1>8. ASSUME NEW n \in 1 .. w.made, Known(p, n, w) PROVE Known(q, n, w)
  BY <1>4, <1>8 DEF Known, ToldIn
<1> QED BY <1>7, <1>8 DEF q

----------------------------------------------------------------------------
(* A ledger between its reads of a page.                                   *)

\* A ledger is true as long as its cursor and what it has seen are, and what is
\* pending.
LEMMA LedgerSame ==
    ASSUME NEW w, NEW l, IsLedger(l, w), NEW m,
           m.cursor = l.cursor, m.resync = l.resync, m.pending = l.pending, m.seen = l.seen,
           OpenIsWritten(m, w), m.cursor = None => m.open = None,
           m.clearedAt \in Nat, m.clearedAt <= w.clearedAt
    PROVE  IsLedger(m, w)
<1>1. IsPending(m.pending, w) /\ Unread(m) /\ ResyncIsCursor(m)
  BY DEF IsLedger, Unread, ResyncIsCursor
<1>2. CursorIsTrue(m, w) /\ SeenIsKnown(m, w)
  BY DEF IsLedger, CursorIsTrue, SeenIsKnown
<1> QED BY <1>1, <1>2 DEF IsLedger

\* It stays true when rows go that tell of what is known, and when it sees more of
\* what is.
LEMMA LedgerShrinks ==
    ASSUME NEW w, IsWorld(w), NEW l, IsLedger(l, w), NEW m, NEW gone,
           \A j \in DOMAIN l.pending \cap gone : \A n \in 1 .. w.made : Tells(l.pending[j].row, n) => n \in w.known,
           m.cursor = l.cursor, m.resync = l.resync, m.pending = Without(l.pending, gone),
           \A n \in Nat : ReplyRow(n) \in m.seen => ReplyRow(n) \in l.seen \/ n \in w.known,
           OpenIsWritten(m, w), m.cursor = None => m.open = None /\ m.seen = {},
           m.clearedAt \in Nat, m.clearedAt <= w.clearedAt
    PROVE  IsLedger(m, w)
<1>1. /\ IsPending(m.pending, w)
      /\ \A n \in 1 .. w.made : Known(l.pending, n, w) => Known(m.pending, n, w)
  BY WithoutKeeps DEF IsLedger
<1>2. CursorIsTrue(m, w)
  BY <1>1 DEF IsLedger, CursorIsTrue
<1>3. SeenIsKnown(m, w)
  <2> SUFFICES ASSUME NEW n \in Nat, ReplyRow(n) \in m.seen PROVE n \in 1 .. w.made /\ Known(m.pending, n, w)
    BY DEF SeenIsKnown
  <2>1. CASE n \in w.known
    BY <2>1 DEF IsWorld, Known
  <2>2. CASE ReplyRow(n) \in l.seen
    BY <2>2, <1>1 DEF IsLedger, SeenIsKnown
  <2> QED BY <2>1, <2>2
<1>4. ResyncIsCursor(m)
  BY DEF IsLedger, ResyncIsCursor
<1>5. Unread(m)
  <2> SUFFICES ASSUME m.cursor = None PROVE DOMAIN m.pending = {} /\ m.resync = None
    BY DEF Unread
  <2>1. DOMAIN l.pending = {} /\ m.resync = None
    BY DEF IsLedger, Unread
  <2>2. DOMAIN l.pending \subseteq Nat \ {0}
    BY <2>1
  <2>3. \A i \in DOMAIN m.pending : FALSE
    BY <2>1, <2>2, WithoutIs
  <2> QED BY <2>1, <2>3
<1> QED BY <1>1, <1>2, <1>3, <1>4, <1>5 DEF IsLedger

LEMMA ClearedIs ==
    ASSUME NEW l, IsRecord(l), NEW at
    PROVE  /\ IsRecord(Cleared(l, at))
           /\ Cleared(l, at).on = l.on
           /\ Cleared(l, at).cursor = l.cursor /\ Cleared(l, at).resync = l.resync
           /\ Cleared(l, at).seen = l.seen /\ Cleared(l, at).open = None
           /\ Cleared(l, at).clearedAt = at
<1> DEFINE q == Without(l.pending, {i \in DOMAIN l.pending : l.pending[i].row.to < at})
<1>1. Cleared(l, at) = [l EXCEPT !.clearedAt = at, !.open = None, !.pending = q]
  BY DEF Cleared
<1> HIDE DEF q
<1>2. /\ IsRecord(Cleared(l, at))
      /\ Cleared(l, at).on = l.on
      /\ Cleared(l, at).cursor = l.cursor /\ Cleared(l, at).resync = l.resync
      /\ Cleared(l, at).seen = l.seen /\ Cleared(l, at).open = None
      /\ Cleared(l, at).clearedAt = at
  BY <1>1 DEF IsRecord
<1> QED BY <1>2

LEMMA ClearedKeeps ==
    ASSUME NEW w, IsWorld(w), NEW l, IsRecord(l), IsLedger(l, w)
    PROVE  IsLedger(Cleared(l, w.clearedAt), w)
<1> DEFINE gone == {i \in DOMAIN l.pending : l.pending[i].row.to < w.clearedAt}
<1>1. ASSUME NEW j \in DOMAIN l.pending \cap gone, NEW n \in 1 .. w.made, Tells(l.pending[j].row, n)
      PROVE  n \in w.known
  <2>1. IsRow(l.pending[j].row, w)
    BY DEF IsLedger, IsPending, IsEntry
  <2>2. l.pending[j].row.to \in Nat /\ l.pending[j].row.to < w.clearedAt /\ 2 * n <= l.pending[j].row.to
    BY <1>1, <2>1 DEF IsRow, Tells
  <2>3. 2 * n < w.clearedAt
    BY <2>2 DEF IsWorld
  <2> QED BY <2>3 DEF IsWorld
<1>5. Cleared(l, w.clearedAt) = [l EXCEPT !.clearedAt = w.clearedAt, !.open = None, !.pending = Without(l.pending, gone)]
  BY DEF Cleared
<1> HIDE DEF gone
<1>2. OpenIsWritten(Cleared(l, w.clearedAt), w)
  <2>1. Cleared(l, w.clearedAt).open = None
    BY ClearedIs
  <2> QED BY <2>1 DEF OpenIsWritten
<1>3. l.cursor = None => l.seen = {}
  BY DEF IsLedger, Unread
<1>4. w.clearedAt \in Nat
  BY DEF IsWorld
<1> DEFINE m == Cleared(l, w.clearedAt)
<1>6. /\ m.cursor = l.cursor /\ m.resync = l.resync /\ m.seen = l.seen /\ m.open = None /\ m.clearedAt = w.clearedAt
      /\ m.pending = Without(l.pending, gone)
  BY <1>5 DEF IsRecord
<1>7. OpenIsWritten(m, w) /\ m.clearedAt \in Nat /\ m.clearedAt <= w.clearedAt
  BY <1>2, <1>4, <1>6
<1> HIDE DEF m
<1> QED BY <1>1, <1>3, <1>6, <1>7, LedgerShrinks DEF m

LEMMA RefreshedIs ==
    ASSUME NEW l, IsRecord(l)
    PROVE  /\ IsRecord(Refreshed(l))
           /\ Refreshed(l).on = l.on /\ Refreshed(l).cursor = l.cursor
           /\ \E c : /\ c = (IF storage.clearedAt > l.clearedAt THEN Cleared(l, storage.clearedAt) ELSE l)
                     /\ Refreshed(l).resync = c.resync /\ Refreshed(l).seen = c.seen
                     /\ Refreshed(l).pending = c.pending /\ Refreshed(l).clearedAt = c.clearedAt
                     /\ Refreshed(l).cursor = c.cursor
                     /\ Refreshed(l).open = c.open \/ Refreshed(l).open = None
<1> DEFINE c == IF storage.clearedAt > l.clearedAt THEN Cleared(l, storage.clearedAt) ELSE l
<1>1. IsRecord(c) /\ c.on = l.on /\ c.cursor = l.cursor
  BY ClearedIs
<1>2. Refreshed(l) = [c EXCEPT !.paused = storage.paused,
                  !.chunks = DOMAIN storage.chunks,
                  !.open = IF @ # None /\ @.key \notin DOMAIN storage.chunks THEN None ELSE @]
  BY DEF Refreshed
<1> HIDE DEF c
<1>3. /\ IsRecord(Refreshed(l)) /\ Refreshed(l).on = c.on
      /\ Refreshed(l).resync = c.resync /\ Refreshed(l).seen = c.seen
      /\ Refreshed(l).pending = c.pending /\ Refreshed(l).clearedAt = c.clearedAt
      /\ Refreshed(l).cursor = c.cursor
      /\ Refreshed(l).open = c.open \/ Refreshed(l).open = None
  BY <1>1, <1>2 DEF IsRecord
<1> QED BY <1>1, <1>3 DEF c

LEMMA RefreshedKeeps ==
    ASSUME IsWorld(World), NEW l, IsRecord(l), IsLedger(l, World)
    PROVE  IsLedger(Refreshed(l), World)
<1>1. World.clearedAt = storage.clearedAt
  BY DEF World
<1>2. PICK c : /\ c = (IF storage.clearedAt > l.clearedAt THEN Cleared(l, storage.clearedAt) ELSE l)
               /\ Refreshed(l).resync = c.resync /\ Refreshed(l).seen = c.seen
               /\ Refreshed(l).pending = c.pending /\ Refreshed(l).clearedAt = c.clearedAt
               /\ Refreshed(l).cursor = c.cursor
               /\ Refreshed(l).open = c.open \/ Refreshed(l).open = None
  BY RefreshedIs
<1>3. IsLedger(c, World)
  <2>1. CASE storage.clearedAt > l.clearedAt
    BY <1>1, <1>2, <2>1, ClearedKeeps
  <2>2. CASE ~ (storage.clearedAt > l.clearedAt)
    BY <1>2, <2>2
  <2> QED BY <2>1, <2>2
<1> DEFINE r == Refreshed(l)
<1>4. /\ r.cursor = c.cursor /\ r.resync = c.resync /\ r.pending = c.pending /\ r.seen = c.seen
      /\ r.clearedAt = c.clearedAt /\ (r.open = c.open \/ r.open = None)
  BY <1>2
<1> HIDE DEF r
<1>5. OpenIsWritten(r, World) /\ (r.cursor = None => r.open = None)
  BY <1>3, <1>4 DEF IsLedger, OpenIsWritten, Unread
<1>6. r.clearedAt \in Nat /\ r.clearedAt <= World.clearedAt
  BY <1>3, <1>4 DEF IsLedger
<1> QED BY <1>3, <1>4, <1>5, <1>6, LedgerSame DEF r

\* A reply that was written is known.
LEMMA WrittenIsKnown ==
    ASSUME NEW w, IsWorld(w), NEW row, row \in w.written
    PROVE  /\ \A n \in 1 .. w.made : Tells(row, n) => n \in w.known
           /\ \A n \in Nat : ReplyRow(n) = row => n \in w.known
<1>1. IsRow(row, w) /\ \A n \in 1 .. w.made : Tells(row, n) => n \in w.known
  BY DEF IsWorld
<1>2. ASSUME NEW n \in Nat, ReplyRow(n) = row PROVE n \in w.known
  <2>1. row.from = 2 * n /\ row.to = 2 * n
    BY <1>2 DEF ReplyRow
  <2>2. n \in 1 .. w.made
    BY <1>1, <2>1 DEF IsRow, IsWorld
  <2>3. Tells(row, n)
    BY <2>1 DEF Tells
  <2> QED BY <1>1, <2>2, <2>3
<1> QED BY <1>1, <1>2

LEMMA VerifiedKeeps ==
    ASSUME IsWorld(World), StorageIsTrue, NEW l, IsRecord(l), IsLedger(l, World), l.open # None
    PROVE  /\ IsRecord(Verified(l)) /\ IsLedger(Verified(l), World)
           /\ Verified(l).on = l.on /\ Verified(l).cursor = l.cursor
<1> DEFINE v == Verified(l)
<1>0. /\ l.clearedAt \in Nat /\ l.clearedAt <= World.clearedAt
      /\ l.cursor = None => l.seen = {} /\ l.open = None
      /\ l.open.key \in Nat /\ l.open.rows \subseteq World.written
  BY DEF IsLedger, Unread, OpenIsWritten
<1>1. CASE l.open.key \notin DOMAIN storage.chunks
  <2>1. v = [l EXCEPT !.open = None]
    BY <1>1 DEF Verified
  <2> HIDE DEF v
  <2>2. /\ IsRecord(v) /\ v.on = l.on /\ v.cursor = l.cursor /\ v.resync = l.resync /\ v.seen = l.seen
        /\ v.pending = l.pending /\ v.clearedAt = l.clearedAt /\ v.open = None
    BY <2>1 DEF IsRecord
  <2>3. OpenIsWritten(v, World)
    BY <2>2 DEF OpenIsWritten
  <2>4. IsLedger(v, World)
    BY <1>0, <2>2, <2>3, LedgerSame
  <2> QED BY <2>2, <2>4 DEF v
<1>2. CASE l.open.key \in DOMAIN storage.chunks
  <2> DEFINE merged == storage.chunks[l.open.key].rows \cup l.open.rows
             replies == {row \in merged : IsReply(row)}
             gone == {i \in DOMAIN l.pending : l.pending[i].row \in merged}
             open == [key |-> l.open.key, rows |-> merged, verified |-> TRUE]
  <2>1. v = [l EXCEPT !.open = [key |-> l.open.key, rows |-> merged, verified |-> TRUE],
                      !.seen = l.seen \cup replies, !.pending = Without(l.pending, gone)]
    BY <1>2 DEF Verified, IsRecord
  <2>2. merged \subseteq World.written
    BY <1>0, <1>2 DEF StorageIsTrue, IsChunk
  <2>3. \A row \in replies : row \in merged
    OBVIOUS
  <2>4. \A i \in gone : l.pending[i].row \in merged
    OBVIOUS
  <2>5. open = [key |-> open.key, rows |-> open.rows, verified |-> open.verified] /\ open.key = l.open.key /\ open.rows = merged
    OBVIOUS
  <2>6. v = [l EXCEPT !.open = open, !.seen = l.seen \cup replies, !.pending = Without(l.pending, gone)]
    BY <2>1
  <2> HIDE DEF v, replies, gone, merged, open
  <2>7. /\ IsRecord(v) /\ v.on = l.on /\ v.cursor = l.cursor /\ v.resync = l.resync /\ v.seen = l.seen \cup replies
        /\ v.pending = Without(l.pending, gone) /\ v.clearedAt = l.clearedAt /\ v.open = open
    BY <2>6 DEF IsRecord
  <2>8. OpenIsWritten(v, World)
    <3>1. open.rows \subseteq World.written /\ open.key \in Nat
      BY <2>2, <2>5, <1>0
    <3> QED BY <2>5, <2>7, <3>1 DEF OpenIsWritten
  <2>9. \A j \in DOMAIN l.pending \cap gone : \A n \in 1 .. World.made : Tells(l.pending[j].row, n) => n \in World.known
    <3>1. \A j \in gone : l.pending[j].row \in World.written
      BY <2>2, <2>4
    <3> QED BY <3>1, WrittenIsKnown
  <2>10. ASSUME NEW n \in Nat, ReplyRow(n) \in v.seen PROVE ReplyRow(n) \in l.seen \/ n \in World.known
    <3>1. CASE ReplyRow(n) \in replies
      <4>1. ReplyRow(n) \in World.written
        BY <2>2, <2>3, <3>1
      <4> QED BY <4>1, WrittenIsKnown
    <3> QED BY <2>7, <2>10, <3>1
  <2>11. v.cursor # None
    BY <1>0, <2>7
  <2>12. IsLedger(v, World)
    BY <1>0, <2>7, <2>8, <2>9, <2>10, <2>11, LedgerShrinks
  <2> QED BY <2>7, <2>12 DEF v
<1> QED BY <1>1, <1>2

----------------------------------------------------------------------------
(* What is written.                                                        *)

\* A write tells of all that its cursor takes for read, and of all before its rows.
LEMMA WriteIsTrue ==
    ASSUME NEW w, IsWorld(w), NEW l, IsLedger(l, w), NEW key, NEW held, held \subseteq w.written,
           NEW upto \in DOMAIN l.pending
    PROVE  IsWrite(WriteOf(l, key, held, upto), w)
<1> DEFINE p == l.pending
           taken == {i \in DOMAIN p : i <= upto}
           rows == held \cup {p[i].row : i \in taken}
           write == WriteOf(l, key, held, upto)
<1>1. DOMAIN p \subseteq Nat \ {0} /\ \A i \in DOMAIN p : IsEntry(p, i, w)
  BY DEF IsLedger, IsPending
<1>2. write.rows = rows /\ write.cursor = Acked(l, upto)
  BY DEF WriteOf
<1>3. ASSUME NEW i \in DOMAIN p, i <= upto, NEW n \in 1 .. w.made, ToldBy(p, i, n)
      PROVE  ToldOf(rows, n)
  <2>1. PICK j \in DOMAIN p : j <= i /\ Tells(p[j].row, n)
    BY <1>3 DEF ToldBy
  <2>2. j \in taken
    BY <1>1, <1>3, <2>1
  <2>3. p[j].row \in rows
    BY <2>2
  <2> QED BY <2>1, <2>3 DEF ToldOf
<1>4. l.cursor # None
  BY DEF IsLedger, Unread
<1>5. IsCursor(l.cursor, w)
  BY <1>4 DEF IsLedger, CursorIsTrue
<1>6. IsCursor(write.cursor, w)
  BY <1>1, <1>2, <1>5 DEF Acked, IsEntry
<1>7. ASSUME NEW row \in rows PROVE IsRow(row, w)
  <2>1. CASE row \in held
    BY <2>1 DEF IsWorld
  <2>2. CASE row \notin held
    <3>1. PICK i \in taken : row = p[i].row
      BY <2>2
    <3> QED BY <1>1, <3>1 DEF IsEntry
  <2> QED BY <2>1, <2>2
<1>8. ASSUME NEW n \in 1 .. w.made, Passes(write.cursor, n, w) PROVE n \in w.known \/ ToldOf(rows, n)
  <2> SUFFICES ASSUME n \notin w.known PROVE ToldOf(rows, n)
    OBVIOUS
  <2>1. CASE \A i \in DOMAIN p : i <= upto
    <3>1. Passes(l.cursor, n, w)
      BY <1>2, <1>8, <2>1 DEF Acked
    <3>2. 2 * n <= l.cursor.at \/ (l.resync = None /\ Reaches(l.cursor, n, w))
      BY <3>1 DEF Passes, IsLedger, ResyncIsCursor
    <3>3. Known(p, n, w)
      BY <1>4, <3>2 DEF IsLedger, CursorIsTrue
    <3>4. PICK j \in DOMAIN p : Tells(p[j].row, n)
      BY <3>3 DEF Known, ToldIn
    <3>5. p[j].row \in rows
      BY <2>1
    <3> QED BY <3>4, <3>5 DEF ToldOf
  <2>2. CASE ~ \A i \in DOMAIN p : i <= upto
    <3>1. Passes(p[upto].cursor, n, w)
      BY <1>2, <1>8, <2>2 DEF Acked
    <3>2. ToldBy(p, upto, n)
      BY <1>1, <3>1 DEF IsEntry
    <3>3. upto <= upto
      BY <1>1
    <3> QED BY <1>3, <3>2, <3>3
  <2> QED BY <2>1, <2>2
<1>9. ASSUME NEW n \in 1 .. w.made, NEW row \in rows, 2 * n < row.from PROVE n \in w.known \/ ToldOf(rows, n)
  <2>1. CASE row \in held
    <3>1. row \in w.written
      BY <2>1
    <3> QED BY <1>9, <3>1 DEF IsWorld
  <2>2. CASE row \notin held
    <3>1. PICK i \in taken : row = p[i].row
      BY <2>2
    <3>2. IsEntry(p, i, w) /\ i \in DOMAIN p /\ i <= upto
      BY <1>1, <3>1
    <3>3. n \in w.known \/ ToldBy(p, i, n)
      BY <1>9, <3>1, <3>2 DEF IsEntry
    <3> QED BY <1>3, <3>2, <3>3
  <2> QED BY <2>1, <2>2
<1> HIDE DEF rows, write
<1>10. ASSUME NEW n \in 1 .. w.made, Passes(write.cursor, n, w) \/ (\E row \in write.rows : 2 * n < row.from)
       PROVE n \in w.known \/ ToldOf(write.rows, n)
  BY <1>2, <1>8, <1>9, <1>10
<1> QED BY <1>2, <1>6, <1>7, <1>10 DEF IsWrite, write

LEMMA ComposedIs ==
    ASSUME IsWorld(World), storage.keys \in Nat, NEW l, IsLedger(l, World), DOMAIN l.pending # {},
           NEW write \in Composed(l)
    PROVE  /\ IsWrite(write, World) /\ write.at = "write" /\ write.live
           /\ write.key \in Nat
<1>1. DOMAIN l.pending \subseteq Nat \ {0}
  BY DEF IsLedger, IsPending
<1>2. Top(l.pending) \in DOMAIN l.pending
  <2>1. PICK b \in Nat : \A i \in DOMAIN l.pending : i <= b
    BY DEF IsLedger, IsPending
  <2> DEFINE S == {0} \cup DOMAIN l.pending
  <2>2. S \in SUBSET Nat /\ S # {} /\ \A y \in S : y <= b
    BY <1>1, <2>1
  <2>3. Top(l.pending) \in S /\ \A y \in S : y <= Top(l.pending)
    BY <2>2, MaxIs DEF Top
  <2>4. PICK i \in DOMAIN l.pending : i \in Nat /\ i >= 1 /\ i <= Top(l.pending)
    BY <1>1, <2>3
  <2> QED BY <2>3, <2>4
<1>3. CASE write \in {WriteOf(l, storage.keys + 1, {}, upto) : upto \in IF storage.keys < bound.keys THEN DOMAIN l.pending ELSE {}}
  <2>1. PICK upto \in DOMAIN l.pending : write = WriteOf(l, storage.keys + 1, {}, upto)
    BY <1>3
  <2>2. IsWrite(write, World)
    BY <2>1, WriteIsTrue
  <2> QED BY <2>1, <2>2 DEF WriteOf
<1>4. CASE l.open # None /\ write = WriteOf(l, l.open.key, l.open.rows, Top(l.pending))
  <2>1. l.open.key \in Nat /\ l.open.rows \subseteq World.written
    BY <1>4 DEF IsLedger, OpenIsWritten
  <2>2. IsWrite(write, World)
    BY <1>2, <1>4, <2>1, WriteIsTrue
  <2> QED BY <1>4, <2>1, <2>2 DEF WriteOf
<1> QED BY <1>3, <1>4 DEF Composed

----------------------------------------------------------------------------
(* A page is appended.                                                     *)

\* What a page finds: replies that were jumped over are known, and those that are
\* declined.
CanAppend(l, page, w) ==
    /\ IsWorld(w) /\ IsLedger(l, w) /\ IsPage(page, w)
    /\ ~ IsAnother(l, page)
    /\ \A n \in 1 .. w.made :
         /\ ~ (l.cursor # None /\ page.reset)
         /\ SeqNumber(page, n) <= page.from
         /\ l.cursor # None => l.cursor.seq < SeqNumber(page, n)
         => n \in w.known
    /\ l.paused => \A n \in Fresh(l, page) : n \in w.known

LEMMA NoneIs ==
    /\ None \notin Nat
    /\ \A i, s, a \in Nat : Cursor(i, s, a) # None
<1>1. None \notin Frame \cup Nat \cup [instance : Nat, seq : Nat, at : Nat]
  BY RecordingAssumption, Zenon
<1>2. None \notin Nat /\ None \notin [instance : Nat, seq : Nat, at : Nat]
  BY <1>1, Zenon
<1>3. ASSUME NEW i \in Nat, NEW s \in Nat, NEW a \in Nat PROVE Cursor(i, s, a) # None
  <2>1. Cursor(i, s, a) \in [instance : Nat, seq : Nat, at : Nat]
    BY DEF Cursor
  <2> QED BY <1>2, <2>1, Zenon
<1> QED BY <1>2, <1>3

LEMMA MakesCursor ==
    ASSUME NEW w, IsWorld(w), NEW c, [instance |-> c.instance, seq |-> c.seq, at |-> c.at] = c,
           c.instance \in 1 .. Len(w.starts), c.seq \in Nat, c.at \in Nat,
           1 <= c.at, c.at <= 2 * w.made + 1, w.starts[c.instance] + c.seq <= w.made
    PROVE  IsCursor(c, w)
<1>1. c.instance \in Nat
  BY DEF IsWorld
<1>2. Cursor(c.instance, c.seq, c.at) # None
  BY <1>1, NoneIs
<1> QED BY <1>2 DEF IsCursor, Cursor

LEMMA PageIs ==
    ASSUME NEW w, IsWorld(w), NEW page, IsPage(page, w)
    PROVE  /\ w.made \in Nat
           /\ page.before \in Nat /\ page.from \in Nat /\ page.to \in Nat /\ page.cursor \in Nat
           /\ page.from <= page.to /\ page.to <= page.cursor
           /\ page.before + page.cursor <= w.made
           /\ page.at = 2 * (page.before + page.cursor) + 1
           /\ \A n \in Replies(page) : /\ n \in 1 .. w.made
                                       /\ page.before + page.from < n /\ n <= page.before + page.to
           /\ \A n \in Nat : page.before + page.from < n /\ n <= page.before + page.to => n \in Replies(page)
<1>1. w.starts \in Seq(Nat) /\ Len(w.starts) \in Nat /\ w.made \in Nat
  BY DEF IsWorld
<1>2. page.instance \in 1 .. Len(w.starts) /\ page.before = w.starts[page.instance]
  BY DEF IsPage
<1>3. page.before \in Nat
  <2>1. \A i \in 1 .. Len(w.starts) : w.starts[i] \in Nat
    BY <1>1
  <2> QED BY <1>2, <2>1, Zenon
<1>4. /\ page.from \in Nat /\ page.to \in Nat /\ page.cursor \in Nat
      /\ page.from <= page.to /\ page.to <= page.cursor
      /\ page.before + page.cursor <= w.made
      /\ page.at = 2 * (page.before + page.cursor) + 1
  BY DEF IsPage
<1>5. \A n \in Replies(page) : /\ n \in 1 .. w.made
                               /\ page.before + page.from < n /\ n <= page.before + page.to
  <2> SUFFICES ASSUME NEW n \in page.before + page.from + 1 .. page.before + page.to
               PROVE  n \in 1 .. w.made /\ page.before + page.from < n /\ n <= page.before + page.to
    BY DEF Replies
  <2>1. n \in Int /\ page.before + page.from + 1 <= n /\ n <= page.before + page.to
    BY <1>3, <1>4
  <2>2. page.before + page.to <= w.made
    BY <1>1, <1>3, <1>4
  <2> QED BY <1>1, <1>3, <1>4, <2>1, <2>2
<1>6. \A n \in Nat : page.before + page.from < n /\ n <= page.before + page.to => n \in Replies(page)
  BY <1>1, <1>3, <1>4 DEF Replies
<1> QED BY <1>1, <1>3, <1>4, <1>5, <1>6

\* From is the ledger's cursor, or where the ring starts.
LEMMA FromIs ==
    ASSUME NEW w, NEW l, NEW page, CanAppend(l, page, w)
    PROVE  /\ From(l, page).seq \in Nat /\ From(l, page).at \in Nat
           /\ From(l, page).at <= 2 * w.made + 1
           /\ page.before + From(l, page).seq <= w.made
           /\ l.cursor = None => From(l, page).seq = 0 /\ From(l, page).at = 0
           /\ l.cursor # None =>
                /\ From(l, page) = l.cursor /\ IsCursor(l.cursor, w) /\ 1 <= From(l, page).at
                /\ \A n : Reaches(l.cursor, n, w) <=> n <= page.before + From(l, page).seq
<1>1. IsWorld(w) /\ IsPage(page, w) /\ IsLedger(l, w) /\ ~ IsAnother(l, page)
  BY DEF CanAppend
<1>2. w.made \in Nat /\ page.before \in Nat /\ page.before <= w.made
  <2>1. page.before \in Nat /\ page.cursor \in Nat /\ page.before + page.cursor <= w.made /\ w.made \in Nat
    BY <1>1, PageIs
  <2> QED BY <2>1
<1>3. CASE l.cursor = None
  <2>1. From(l, page).seq = 0 /\ From(l, page).at = 0
    BY <1>3 DEF From, Cursor
  <2> QED BY <1>2, <1>3, <2>1
<1>4. CASE l.cursor # None
  <2>1. From(l, page) = l.cursor /\ l.cursor.instance = page.instance
    BY <1>1, <1>4 DEF From, IsAnother
  <2>2. IsCursor(l.cursor, w)
    BY <1>1, <1>4 DEF IsLedger, CursorIsTrue
  <2>3. w.starts[l.cursor.instance] = page.before
    BY <1>1, <2>1 DEF IsPage
  <2>4. /\ l.cursor.seq \in Nat /\ l.cursor.at \in Nat /\ l.cursor.at <= 2 * w.made + 1 /\ 1 <= l.cursor.at
        /\ w.starts[l.cursor.instance] + l.cursor.seq <= w.made
    BY <2>2 DEF IsCursor
  <2>5. page.before + l.cursor.seq <= w.made
    BY <2>3, <2>4
  <2>6. \A n : Reaches(l.cursor, n, w) <=> n <= page.before + l.cursor.seq
    BY <2>3 DEF Reaches
  <2> QED BY <1>4, <2>1, <2>2, <2>4, <2>5, <2>6
<1> QED BY <1>3, <1>4

\* A page leaves a gap only to a ledger that has a cursor, from that cursor's time
\* to a time no later than the first reply that is new.
LEMMA GapIs ==
    ASSUME NEW w, NEW l, NEW page, CanAppend(l, page, w)
    PROVE  /\ Until(l, page) \in Nat /\ Until(l, page) <= 2 * w.made + 1
           /\ 2 * (page.before + page.from) < Until(l, page)
           /\ Lost(l, page) # None => l.cursor # None /\ Lost(l, page) = From(l, page).at
           /\ l.cursor # None /\ (page.reset \/ l.resync # None) => Lost(l, page) # None
<1>1. IsWorld(w) /\ IsPage(page, w) /\ IsLedger(l, w)
  BY DEF CanAppend
<1>2. /\ w.made \in Nat
      /\ page.before \in Nat /\ page.from \in Nat /\ page.to \in Nat /\ page.cursor \in Nat
      /\ page.from <= page.to /\ page.to <= page.cursor
      /\ page.before + page.cursor <= w.made
      /\ page.at = 2 * (page.before + page.cursor) + 1
  BY <1>1, PageIs
<1>3. \A n \in Replies(page) : n \in 1 .. w.made /\ page.before + page.from < n /\ n <= page.before + page.to
  BY <1>1, PageIs
<1>4. /\ Until(l, page) \in Nat /\ Until(l, page) <= 2 * w.made + 1
      /\ 2 * (page.before + page.from) < Until(l, page)
  <2>1. CASE Fresh(l, page) = {}
    <3>1. Until(l, page) = page.at
      BY <2>1 DEF Until
    <3> QED BY <1>2, <3>1
  <2>2. CASE Fresh(l, page) # {}
    <3>1. Until(l, page) = 2 * Min(Fresh(l, page))
      BY <2>2 DEF Until
    <3>2. Fresh(l, page) \in SUBSET Nat
      BY <1>3 DEF Fresh
    <3>3. Min(Fresh(l, page)) \in Replies(page)
      BY <2>2, <3>2, MinIs DEF Fresh
    <3> QED BY <1>2, <1>3, <3>1, <3>3
  <2> QED BY <2>1, <2>2
<1>5. l.cursor # None => From(l, page) = l.cursor /\ l.cursor.at \in Nat
  BY FromIs DEF IsCursor
<1>6. ResyncIsCursor(l)
  BY <1>1 DEF IsLedger
<1>7. Lost(l, page) # None => l.cursor # None /\ Lost(l, page) = From(l, page).at
  BY <1>5, <1>6 DEF Lost, ResyncIsCursor
<1>8. None \notin Nat
  BY NoneIs
<1>9. l.cursor # None /\ (page.reset \/ l.resync # None) => Lost(l, page) # None
  BY <1>5, <1>8 DEF Lost
<1> QED BY <1>4, <1>7, <1>9

\* Where the entries stand once a page is appended: those from before, then the gap,
\* then each reply that is kept.
LEMMA BehindIs ==
    ASSUME NEW w, NEW l, NEW page, CanAppend(l, page, w)
    PROVE  /\ Top(l.pending) \in Nat /\ Place(l, page) \in Nat /\ Top(l.pending) <= Place(l, page)
           /\ IsMap(Behind(l, page))
           /\ \A i \in DOMAIN l.pending :
                /\ i \in Nat \ {0} /\ i <= Top(l.pending)
                /\ i \in DOMAIN Behind(l, page) /\ Behind(l, page)[i] = l.pending[i]
           /\ HasGap(l, page) =>
                /\ Place(l, page) = Top(l.pending) + 1
                /\ StandsAt(Behind(l, page), Place(l, page), GapRow(Lost(l, page), Until(l, page)), From(l, page))
           /\ \A n \in Kept(l, page) :
                StandsAt(Behind(l, page), Position(l, page, n), ReplyRow(n), After(l, page, n))
           /\ \A i \in DOMAIN Behind(l, page) :
                \/ i \in DOMAIN l.pending
                \/ HasGap(l, page) /\ i = Place(l, page)
                \/ \E n \in Kept(l, page) : i = Position(l, page, n)
<1> DEFINE q == Behind(l, page)
           p == l.pending
           base == Top(p)
           gaps == IF HasGap(l, page) THEN {base + 1} ELSE {}
           rows == {Position(l, page, n) : n \in Kept(l, page)}
           D == DOMAIN p \cup gaps \cup rows
<1>1. IsWorld(w) /\ IsPage(page, w) /\ IsPending(p, w)
  BY DEF CanAppend, IsLedger
<1>2. PICK b \in Nat : \A i \in DOMAIN p : i <= b
  BY <1>1 DEF IsPending
<1>3. DOMAIN p \subseteq Nat \ {0}
  BY <1>1 DEF IsPending
<1>4. base \in Nat /\ \A i \in DOMAIN p : i <= base
  BY <1>2, <1>3, TopIs
<1>5. Place(l, page) = base + (IF HasGap(l, page) THEN 1 ELSE 0)
  BY DEF Place
<1>6. q = [i \in D |->
            IF i \in DOMAIN p THEN p[i]
            ELSE IF i \in gaps
            THEN [row |-> GapRow(Lost(l, page), Until(l, page)), cursor |-> From(l, page)]
            ELSE [row |-> ReplyRow(NumberAt(l, page, i)), cursor |-> After(l, page, NumberAt(l, page, i))]]
  BY DEF Behind
<1> HIDE DEF q, base
<1>7. Place(l, page) \in Nat /\ base <= Place(l, page)
  BY <1>4, <1>5
<1>8. DOMAIN q = D /\ IsMap(q)
  BY <1>6 DEF IsMap
<1>9. ASSUME NEW i \in DOMAIN p PROVE i \in Nat \ {0} /\ i <= base /\ i \in DOMAIN q /\ q[i] = p[i]
  BY <1>3, <1>4, <1>6, <1>9
<1>10. ASSUME HasGap(l, page)
       PROVE  /\ Place(l, page) = base + 1
              /\ StandsAt(q, Place(l, page), GapRow(Lost(l, page), Until(l, page)), From(l, page))
  <2>1. Place(l, page) = base + 1 /\ gaps = {base + 1}
    BY <1>5, <1>10
  <2>2. base + 1 \notin DOMAIN p
    BY <1>3, <1>4
  <2> QED BY <1>6, <2>1, <2>2 DEF StandsAt
<1>11. ASSUME NEW n \in Kept(l, page)
       PROVE  StandsAt(q, Position(l, page, n), ReplyRow(n), After(l, page, n))
  <2>1. /\ page.before \in Nat /\ page.from \in Nat
        /\ n \in Nat /\ page.before + page.from < n
    <3>1. n \in Replies(page)
      BY DEF Kept, Fresh
    <3> QED BY <1>1, <3>1, PageIs
  <2> DEFINE i == Position(l, page, n)
  <2>2. i = Place(l, page) + (n - page.before) - page.from
    BY DEF Position, SeqNumber
  <2>3. i \in Nat /\ i > Place(l, page) /\ i > base
    BY <1>4, <1>7, <2>1, <2>2
  <2>4. NumberAt(l, page, i) = n
    BY <1>7, <2>1, <2>2 DEF NumberAt
  <2>5. i \in rows
    OBVIOUS
  <2> HIDE DEF i
  <2>6. i \notin DOMAIN p
    BY <1>3, <1>4, <2>3
  <2>7. i \notin gaps
    BY <1>4, <1>5, <1>7, <2>3
  <2> QED BY <1>6, <2>4, <2>5, <2>6, <2>7 DEF i, StandsAt
<1>12. ASSUME NEW i \in DOMAIN q
       PROVE  \/ i \in DOMAIN p
              \/ HasGap(l, page) /\ i = Place(l, page)
              \/ \E n \in Kept(l, page) : i = Position(l, page, n)
  BY <1>5, <1>8, <1>12
<1> QED BY <1>4, <1>7, <1>8, <1>9, <1>10, <1>11, <1>12 DEF q, base

\* What a page tells of is told behind: all before it, up to the gap, and each of
\* its replies, up to its place.
LEMMA BehindTells ==
    ASSUME NEW w, NEW l, NEW page, CanAppend(l, page, w)
    PROVE  /\ \A n \in 1 .. w.made :
                \/ 2 * n <= From(l, page).at
                \/ n <= page.before + From(l, page).seq
                \/ n <= page.before + page.from
                => n \in w.known \/ ToldBy(Behind(l, page), Place(l, page), n)
           /\ \A n \in Replies(page) :
                n \in w.known \/ ToldBy(Behind(l, page), Position(l, page, n), n)
<1> DEFINE q == Behind(l, page)
           p == l.pending
           base == Top(p)
           place == Place(l, page)
           from == From(l, page)
           B == page.before
<1>1. IsWorld(w) /\ IsPage(page, w) /\ IsLedger(l, w)
  BY DEF CanAppend
<1>2. base \in Nat /\ place \in Nat /\ base <= place
  BY BehindIs
<1>3. ASSUME NEW i \in DOMAIN p PROVE i \in Nat \ {0} /\ i <= base /\ i \in DOMAIN q /\ q[i] = p[i]
  BY BehindIs
<1>4. HasGap(l, page) => StandsAt(q, place, GapRow(Lost(l, page), Until(l, page)), from)
  BY BehindIs
<1>5. ASSUME NEW n \in Kept(l, page)
      PROVE  StandsAt(q, Position(l, page, n), ReplyRow(n), After(l, page, n))
  BY BehindIs
<1>6. /\ w.made \in Nat /\ B \in Nat /\ page.from \in Nat /\ page.to \in Nat
      /\ from.seq \in Nat /\ from.at \in Nat
  BY <1>1, PageIs, FromIs
<1>7. /\ Until(l, page) \in Nat /\ 2 * (B + page.from) < Until(l, page)
      /\ Lost(l, page) # None => l.cursor # None /\ Lost(l, page) = from.at
      /\ l.cursor # None /\ (page.reset \/ l.resync # None) => Lost(l, page) # None
  BY GapIs
<1>8. /\ l.cursor = None => from.seq = 0 /\ from.at = 0
      /\ l.cursor # None => from = l.cursor /\ \A n : Reaches(l.cursor, n, w) <=> n <= B + from.seq
  BY FromIs
<1>9. l.resync # None => from.seq = 0 /\ l.cursor # None
  BY <1>1, <1>8 DEF IsLedger, ResyncIsCursor
<1> HIDE DEF q, base, place, from
\* What was known of the ledger before.
<1>10. ASSUME NEW n \in 1 .. w.made, Known(p, n, w), NEW i \in Nat, base <= i
       PROVE  n \in w.known \/ ToldBy(q, i, n)
  <2> SUFFICES ASSUME n \notin w.known PROVE ToldBy(q, i, n)
    OBVIOUS
  <2>1. PICK j \in DOMAIN p : Tells(p[j].row, n)
    BY <1>10 DEF Known, ToldIn
  <2>2. j \in DOMAIN q /\ q[j] = p[j] /\ j <= i
    BY <1>2, <1>3, <1>10, <2>1
  <2> QED BY <2>1, <2>2 DEF ToldBy
\* What the gap tells of.
<1>11. ASSUME NEW n \in 1 .. w.made, Lost(l, page) # None, from.at < 2 * n, n <= B + page.from
       PROVE  ToldBy(q, place, n)
  <2>1. Lost(l, page) = from.at /\ 2 * n < Until(l, page)
    BY <1>6, <1>7, <1>11
  <2>2. HasGap(l, page)
    BY <1>6, <1>7, <1>11, <2>1 DEF HasGap
  <2>3. place \in DOMAIN q /\ q[place].row = GapRow(Lost(l, page), Until(l, page))
    BY <1>4, <2>2 DEF StandsAt
  <2>4. q[place].row.from = from.at /\ q[place].row.to = Until(l, page)
    BY <2>1, <2>3 DEF GapRow
  <2>5. Tells(q[place].row, n)
    BY <1>6, <1>7, <1>11, <2>1, <2>4 DEF Tells
  <2> QED BY <1>2, <2>3, <2>5 DEF ToldBy
<1>12. ASSUME NEW n \in 1 .. w.made, 2 * n <= from.at
       PROVE  n \in w.known \/ ToldBy(q, place, n)
  <2>1. l.cursor # None
    BY <1>6, <1>8, <1>12
  <2>2. Known(p, n, w)
    BY <1>1, <1>8, <1>12, <2>1 DEF IsLedger, CursorIsTrue
  <2> QED BY <1>2, <1>10, <2>2
\* Where the ring starts, before a ledger's cursor, or jumped over.
<1>13. ASSUME NEW n \in 1 .. w.made,
              ~ (l.cursor # None /\ page.reset), n <= B + page.from, l.cursor # None => from.seq < n - B
       PROVE  n \in w.known
  <2>1. SeqNumber(page, n) <= page.from /\ (l.cursor # None => l.cursor.seq < SeqNumber(page, n))
    BY <1>6, <1>8, <1>13 DEF SeqNumber
  <2> QED BY <1>13, <2>1 DEF CanAppend
<1>14. ASSUME NEW n \in 1 .. w.made, n <= B + from.seq
       PROVE  n \in w.known \/ ToldBy(q, place, n)
  <2>1. CASE l.cursor = None
    <3>1. n <= B + page.from
      BY <1>6, <1>8, <1>14, <2>1
    <3> QED BY <1>13, <2>1, <3>1
  <2>2. CASE l.cursor # None /\ l.resync = None
    <3>1. Known(p, n, w)
      BY <1>1, <1>8, <1>14, <2>2 DEF IsLedger, CursorIsTrue
    <3> QED BY <1>2, <1>10, <3>1
  <2>3. CASE l.cursor # None /\ l.resync # None
    <3>1. n <= B + page.from /\ Lost(l, page) # None
      BY <1>6, <1>7, <1>9, <1>14, <2>3
    <3> QED BY <1>6, <1>11, <1>12, <3>1
  <2> QED BY <2>1, <2>2, <2>3
<1>15. ASSUME NEW n \in 1 .. w.made, n <= B + page.from
       PROVE  n \in w.known \/ ToldBy(q, place, n)
  <2>1. CASE l.cursor = None
    BY <1>13, <1>15, <2>1
  <2>2. CASE l.cursor # None /\ page.reset
    <3>1. Lost(l, page) # None
      BY <1>7, <2>2
    <3> QED BY <1>6, <1>11, <1>12, <1>15, <3>1
  <2>3. CASE l.cursor # None /\ ~ page.reset
    <3>1. CASE n <= B + from.seq
      BY <1>14, <3>1
    <3>2. CASE ~ (n <= B + from.seq)
      <4>1. from.seq < n - B
        BY <1>6, <3>2
      <4> QED BY <1>13, <1>15, <2>3, <4>1
    <3> QED BY <3>1, <3>2
  <2> QED BY <2>1, <2>2, <2>3
<1>16. ASSUME NEW n \in Replies(page)
       PROVE  n \in w.known \/ ToldBy(q, Position(l, page, n), n)
  <2>1. n \in 1 .. w.made /\ B + page.from < n
    BY <1>1, PageIs
  <2>2. Position(l, page, n) = place + (n - B) - page.from
    BY DEF Position, SeqNumber, place
  <2>3. Position(l, page, n) \in Nat /\ base <= Position(l, page, n)
    BY <1>2, <1>6, <2>1, <2>2
  <2>4. CASE ReplyRow(n) \in l.seen
    <3>1. Known(p, n, w)
      BY <1>1, <2>1, <2>4 DEF IsLedger, SeenIsKnown
    <3> QED BY <1>10, <2>1, <2>3, <3>1
  <2>5. CASE ReplyRow(n) \notin l.seen /\ n \in Kept(l, page)
    <3>1. Position(l, page, n) \in DOMAIN q /\ q[Position(l, page, n)].row = ReplyRow(n)
      BY <1>5, <2>5 DEF StandsAt
    <3>2. Tells(ReplyRow(n), n)
      BY <2>1 DEF Tells, ReplyRow
    <3> QED BY <2>3, <3>1, <3>2 DEF ToldBy
  <2>6. CASE ReplyRow(n) \notin l.seen /\ n \notin Kept(l, page)
    <3>1. n \in Fresh(l, page)
      BY <2>6 DEF Fresh
    <3>2. CASE l.paused
      BY <3>1, <3>2 DEF CanAppend
    <3>3. CASE ~ l.paused
      <4>1. ~ (2 * n >= l.clearedAt)
        BY <2>6, <3>1, <3>3 DEF Kept
      <4>2. l.clearedAt \in Nat /\ l.clearedAt <= w.clearedAt /\ w.clearedAt \in Nat
        BY <1>1 DEF IsLedger, IsWorld
      <4>3. 2 * n < w.clearedAt
        BY <2>1, <4>1, <4>2
      <4> QED BY <1>1, <2>1, <4>3 DEF IsWorld
    <3> QED BY <3>2, <3>3
  <2> QED BY <2>4, <2>5, <2>6
<1> QED BY <1>12, <1>14, <1>15, <1>16 DEF q, place, from

\* A reply's cursor takes for read what the ledger's did, and the page up to the reply.
LEMMA AfterIs ==
    ASSUME NEW w, NEW l, NEW page, CanAppend(l, page, w), NEW m \in Replies(page)
    PROVE  /\ IsCursor(After(l, page, m), w)
           /\ \A n \in 1 .. w.made :
                2 * n <= After(l, page, m).at \/ Reaches(After(l, page, m), n, w)
                => \/ 2 * n <= From(l, page).at
                   \/ n <= page.before + From(l, page).seq
                   \/ n <= m
<1> DEFINE c == After(l, page, m)
           from == From(l, page)
           B == page.before
<1>1. IsWorld(w) /\ IsPage(page, w)
  BY DEF CanAppend
<1>2. /\ w.made \in Nat /\ B \in Nat /\ page.from \in Nat /\ page.to \in Nat /\ page.cursor \in Nat
      /\ page.to <= page.cursor /\ B + page.cursor <= w.made
      /\ m \in 1 .. w.made /\ B + page.from < m
  BY <1>1, PageIs
<1>3. from.seq \in Nat /\ from.at \in Nat /\ from.at <= 2 * w.made + 1 /\ B + from.seq <= w.made
  BY FromIs
<1>4. c = [instance |-> page.instance, seq |-> Larger(from.seq, m - B), at |-> Larger(from.at, 2 * m)]
  BY DEF After, Cursor, SeqNumber
<1>5. page.instance \in 1 .. Len(w.starts) /\ w.starts[page.instance] = B
  BY <1>1 DEF IsPage
<1> HIDE DEF from, B, c
<1>6. /\ c.instance = page.instance
      /\ c.seq = Larger(from.seq, m - B) /\ c.at = Larger(from.at, 2 * m)
      /\ [instance |-> c.instance, seq |-> c.seq, at |-> c.at] = c
  BY <1>4
<1>7. /\ c.seq \in Nat /\ c.at \in Nat /\ 1 <= c.at /\ c.at <= 2 * w.made + 1
      /\ B + c.seq <= w.made
  BY <1>2, <1>3, <1>6 DEF Larger
<1>8. w.starts[c.instance] + c.seq <= w.made
  BY <1>5, <1>6, <1>7
<1>10. IsCursor(c, w)
  BY <1>1, <1>5, <1>6, <1>7, <1>8, MakesCursor
<1>11. ASSUME NEW n \in 1 .. w.made, 2 * n <= c.at \/ Reaches(c, n, w)
       PROVE  2 * n <= from.at \/ n <= B + from.seq \/ n <= m
  <2>1. CASE 2 * n <= c.at
    BY <1>2, <1>3, <1>6, <2>1 DEF Larger
  <2>2. CASE Reaches(c, n, w)
    <3>1. n <= B + c.seq
      BY <1>5, <1>6, <2>2 DEF Reaches
    <3> QED BY <1>2, <1>3, <1>6, <3>1 DEF Larger
  <2> QED BY <1>11, <2>1, <2>2
<1> QED BY <1>10, <1>11 DEF c, from, B

LEMMA ToldUpTo ==
    ASSUME NEW w, NEW l, NEW page, CanAppend(l, page, w), NEW m \in Replies(page), NEW n \in 1 .. w.made,
           2 * n <= From(l, page).at \/ n <= page.before + From(l, page).seq \/ n <= m
    PROVE  n \in w.known \/ ToldBy(Behind(l, page), Position(l, page, m), n)
<1> DEFINE q == Behind(l, page)
           at == Position(l, page, m)
           place == Place(l, page)
           B == page.before
<1>1. IsWorld(w) /\ IsPage(page, w)
  BY DEF CanAppend
<1>2. /\ B \in Nat /\ page.from \in Nat /\ m \in Nat /\ B + page.from < m /\ m <= B + page.to /\ page.to \in Nat
      /\ n <= m /\ B + page.from < n => n \in Replies(page)
  BY <1>1, PageIs
<1>3. place \in Nat /\ \A i \in DOMAIN q : i \in Nat
  <2>1. Top(l.pending) \in Nat /\ place \in Nat
    BY BehindIs
  <2>2. ASSUME NEW i \in DOMAIN q PROVE i \in Nat
    <3>1. \/ i \in DOMAIN l.pending
          \/ i = place
          \/ \E k \in Kept(l, page) : i = Position(l, page, k)
      BY BehindIs
    <3>2. ASSUME NEW k \in Kept(l, page) PROVE Position(l, page, k) \in Nat
      <4>1. k \in Nat /\ B + page.from < k
        BY <1>1, PageIs DEF Kept, Fresh
      <4> QED BY <1>2, <2>1, <4>1 DEF Position, SeqNumber
    <3> QED BY <2>1, <3>1, <3>2, BehindIs
  <2> QED BY <2>1, <2>2
<1>4. at = place + (m - B) - page.from
  BY DEF Position, SeqNumber
<1>5. \A k \in Replies(page) : Position(l, page, k) = place + (k - B) - page.from
  BY DEF Position, SeqNumber
<1> HIDE DEF q, at, place
<1>6. at \in Nat /\ place <= at
  BY <1>2, <1>3, <1>4
<1>7. ASSUME NEW i \in Nat, i <= at, ToldBy(q, i, n) PROVE ToldBy(q, at, n)
  BY <1>3, <1>6, <1>7 DEF ToldBy
<1>8. CASE 2 * n <= From(l, page).at \/ n <= B + From(l, page).seq \/ n <= B + page.from
  <2>1. n \in w.known \/ ToldBy(q, place, n)
    BY <1>8, BehindTells DEF q, place
  <2> QED BY <1>3, <1>6, <1>7, <2>1 DEF q, at
<1>9. CASE n <= m /\ B + page.from < n
  <2>1. n \in w.known \/ ToldBy(q, Position(l, page, n), n)
    BY <1>2, <1>9, BehindTells DEF q
  <2>2. Position(l, page, n) \in Nat /\ Position(l, page, n) <= at
    BY <1>2, <1>3, <1>4, <1>5, <1>9
  <2> QED BY <1>7, <2>1, <2>2 DEF q, at
<1> QED BY <1>2, <1>8, <1>9

\* What is pending once a page is appended is in order.
LEMMA BehindKeeps ==
    ASSUME NEW w, NEW l, NEW page, CanAppend(l, page, w)
    PROVE  IsPending(Behind(l, page), w)
<1> DEFINE q == Behind(l, page)
           p == l.pending
           place == Place(l, page)
           B == page.before
<1>1. IsWorld(w) /\ IsPage(page, w) /\ IsPending(p, w)
  BY DEF CanAppend, IsLedger
<1>2. /\ w.made \in Nat /\ B \in Nat /\ page.from \in Nat /\ page.to \in Nat /\ page.from <= page.to
  BY <1>1, PageIs
<1>3. Top(p) \in Nat /\ place \in Nat /\ Top(p) <= place /\ IsMap(q)
  BY BehindIs
<1>4. ASSUME NEW i \in DOMAIN p PROVE i \in Nat \ {0} /\ i <= Top(p) /\ i \in DOMAIN q /\ q[i] = p[i]
  BY BehindIs
<1>5. HasGap(l, page) => place = Top(p) + 1 /\ StandsAt(q, place, GapRow(Lost(l, page), Until(l, page)), From(l, page))
  BY BehindIs
<1>6. ASSUME NEW n \in Kept(l, page) PROVE StandsAt(q, Position(l, page, n), ReplyRow(n), After(l, page, n))
  BY BehindIs
<1>7. ASSUME NEW i \in DOMAIN q
      PROVE  \/ i \in DOMAIN p
             \/ HasGap(l, page) /\ i = place
             \/ \E n \in Kept(l, page) : i = Position(l, page, n)
  BY BehindIs
<1>8. ASSUME NEW n \in Kept(l, page)
      PROVE  /\ n \in Replies(page) /\ n \in 1 .. w.made
             /\ Position(l, page, n) \in Nat \ {0} /\ Position(l, page, n) <= place + page.to
  <2>1. n \in Replies(page)
    BY DEF Kept, Fresh
  <2>2. n \in 1 .. w.made /\ B + page.from < n /\ n <= B + page.to
    BY <1>1, <2>1, PageIs
  <2>3. Position(l, page, n) = place + (n - B) - page.from
    BY DEF Position, SeqNumber
  <2> HIDE DEF place, B
  <2> QED BY <1>2, <1>3, <2>1, <2>2, <2>3
<1> HIDE DEF q, place
<1>9. DOMAIN q \subseteq Nat \ {0}
  BY <1>3, <1>4, <1>5, <1>7, <1>8
<1>10. \A i \in DOMAIN q : i <= place + page.to
  BY <1>2, <1>3, <1>4, <1>7, <1>8
<1>11. ASSUME NEW i \in DOMAIN p PROVE IsEntry(q, i, w)
  <2>1. IsEntry(p, i, w) /\ q[i] = p[i]
    BY <1>1, <1>4 DEF IsPending
  <2>2. \A n : ToldBy(p, i, n) => ToldBy(q, i, n)
    BY <1>4 DEF ToldBy
  <2> QED BY <2>1, <2>2 DEF IsEntry
<1>12. ASSUME HasGap(l, page) PROVE IsEntry(q, place, w)
  <2>1. q[place].row = GapRow(Lost(l, page), Until(l, page)) /\ q[place].cursor = From(l, page)
    BY <1>5, <1>12 DEF StandsAt
  <2>2. Lost(l, page) # None /\ Until(l, page) > Lost(l, page)
    BY <1>12 DEF HasGap
  <2>3. Lost(l, page) = From(l, page).at /\ l.cursor # None
    BY <2>2, GapIs
  <2>4. /\ From(l, page) = l.cursor /\ IsCursor(l.cursor, w)
        /\ From(l, page).at \in Nat /\ 1 <= From(l, page).at /\ From(l, page).at <= 2 * w.made + 1
        /\ \A n : Reaches(l.cursor, n, w) <=> n <= B + From(l, page).seq
    BY <2>3, FromIs
  <2>5. Until(l, page) \in Nat /\ Until(l, page) <= 2 * w.made + 1
    BY GapIs
  <2>6. q[place].row.from = From(l, page).at /\ q[place].row.to = Until(l, page)
    BY <2>1, <2>3 DEF GapRow
  <2>7. [from |-> q[place].row.from, to |-> q[place].row.to] = q[place].row
    BY <2>1, <2>6 DEF GapRow
  <2>8. IsRow(q[place].row, w)
    BY <2>4, <2>5, <2>6, <2>7 DEF IsRow
  <2>9. IsCursor(q[place].cursor, w)
    BY <2>1, <2>4
  <2>10. ASSUME NEW n \in 1 .. w.made, 2 * n < q[place].row.from \/ Passes(q[place].cursor, n, w)
         PROVE  n \in w.known \/ ToldBy(q, place, n)
    <3>1. 2 * n <= From(l, page).at \/ n <= B + From(l, page).seq
      <4>1. CASE 2 * n < q[place].row.from
        BY <2>4, <2>6, <4>1
      <4>2. CASE Passes(q[place].cursor, n, w)
        BY <2>1, <2>4, <4>2 DEF Passes
      <4> QED BY <2>10, <4>1, <4>2
    <3> QED BY <3>1, BehindTells DEF q, place
  <2> QED BY <2>8, <2>9, <2>10 DEF IsEntry
<1>13. ASSUME NEW m \in Kept(l, page) PROVE IsEntry(q, Position(l, page, m), w)
  <2> DEFINE i == Position(l, page, m)
  <2>1. q[i].row = ReplyRow(m) /\ q[i].cursor = After(l, page, m)
    BY <1>6 DEF StandsAt
  <2>2. m \in Replies(page) /\ m \in 1 .. w.made
    BY <1>8
  <2> HIDE DEF i
  <2>3. q[i].row.from = 2 * m /\ q[i].row.to = 2 * m /\ [from |-> q[i].row.from, to |-> q[i].row.to] = q[i].row
    BY <2>1 DEF ReplyRow
  <2>4. IsRow(q[i].row, w)
    BY <1>2, <2>2, <2>3 DEF IsRow
  <2>5. IsCursor(q[i].cursor, w)
    BY <2>1, <2>2, AfterIs
  <2>6. ASSUME NEW n \in 1 .. w.made, 2 * n < q[i].row.from \/ Passes(q[i].cursor, n, w)
        PROVE  n \in w.known \/ ToldBy(q, i, n)
    <3>1. 2 * n <= From(l, page).at \/ n <= B + From(l, page).seq \/ n <= m
      <4>1. CASE 2 * n < q[i].row.from
        BY <2>2, <2>3, <4>1
      <4>2. CASE Passes(q[i].cursor, n, w)
        BY <2>1, <2>2, <4>2, AfterIs DEF Passes
      <4> QED BY <2>6, <4>1, <4>2
    <3> QED BY <2>2, <3>1, ToldUpTo DEF q, i
  <2> QED BY <2>4, <2>5, <2>6 DEF IsEntry, i
<1>14. \A i \in DOMAIN q : IsEntry(q, i, w)
  BY <1>7, <1>11, <1>12, <1>13
<1>15. place + page.to \in Nat
  BY <1>2, <1>3
<1> QED BY <1>3, <1>9, <1>10, <1>14, <1>15 DEF IsPending, q

\* Once a page is appended, all that the ledger's cursor takes for read is known.
LEMMA ConsumedIs ==
    ASSUME NEW w, NEW l, NEW page, CanAppend(l, page, w)
    PROVE  /\ IsCursor(Consumed(l, page), w)
           /\ \A n \in 1 .. w.made :
                2 * n <= Consumed(l, page).at \/ Reaches(Consumed(l, page), n, w)
                => Known(Behind(l, page), n, w)
<1> DEFINE q == Behind(l, page)
           fresh == Fresh(l, page)
           from == From(l, page)
           last == IF fresh = {} THEN from ELSE After(l, page, Max(fresh))
           end == IF IsShort(page) THEN page.cursor ELSE last.seq
           c == Consumed(l, page)
           B == page.before
<1>1. IsWorld(w) /\ IsPage(page, w) /\ IsLedger(l, w)
  BY DEF CanAppend
<1>2. /\ w.made \in Nat /\ B \in Nat /\ page.from \in Nat /\ page.to \in Nat /\ page.cursor \in Nat
      /\ page.from <= page.to /\ page.to <= page.cursor /\ B + page.cursor <= w.made
      /\ page.at = 2 * (B + page.cursor) + 1
      /\ \A n \in Replies(page) : n \in 1 .. w.made /\ B + page.from < n /\ n <= B + page.to
      /\ \A n \in Nat : B + page.from < n /\ n <= B + page.to => n \in Replies(page)
  BY <1>1, PageIs
<1>3. /\ from.seq \in Nat /\ from.at \in Nat /\ from.at <= 2 * w.made + 1 /\ B + from.seq <= w.made
      /\ l.cursor = None => from.seq = 0 /\ from.at = 0
      /\ l.cursor # None => 1 <= from.at
  BY FromIs
<1>4. page.instance \in 1 .. Len(w.starts) /\ w.starts[page.instance] = B
  BY <1>1 DEF IsPage
<1>5. PageSize \in Nat /\ PageSize > 0
  BY RecordingAssumption
<1>6. IsShort(page) => page.to = page.cursor
  BY <1>1 DEF IsPage, IsShort
<1>7. fresh \subseteq Replies(page)
  BY DEF Fresh
<1>8. c = [instance |-> page.instance, seq |-> Larger(last.seq, end), at |-> IF last.at = 0 THEN page.at ELSE last.at]
  BY DEF Consumed, Cursor
<1> HIDE DEF q, fresh, from, c, B
\* What the last cursor of the page takes for read.
<1>9. CASE fresh # {}
  <2>1. fresh \in SUBSET Nat /\ \A y \in fresh : y <= B + page.to
    BY <1>2, <1>7
  <2>2. Max(fresh) \in Replies(page)
    <3>1. B + page.to \in Nat
      BY <1>2
    <3> QED BY <1>7, <1>9, <2>1, <3>1, MaxIs
  <2>3. last = After(l, page, Max(fresh))
    BY <1>9
  <2> HIDE DEF last
  <2>4. IsCursor(last, w) /\ last.at # 0
    BY <2>2, <2>3, AfterIs DEF IsCursor
  <2>5. last.instance = page.instance
    BY <2>3 DEF After, Cursor
  <2>6. last.seq \in Nat /\ last.at \in Nat /\ 1 <= last.at /\ last.at <= 2 * w.made + 1 /\ B + last.seq <= w.made
    <3>1. w.starts[last.instance] = B
      BY <1>4, <2>5
    <3> QED BY <2>4, <3>1 DEF IsCursor
  <2>7. ASSUME NEW n \in 1 .. w.made, 2 * n <= last.at \/ n <= B + last.seq PROVE Known(q, n, w)
    <3>1. 2 * n <= last.at \/ Reaches(last, n, w)
      BY <1>4, <2>5, <2>7 DEF Reaches
    <3>2. \/ 2 * n <= from.at
          \/ n <= B + from.seq
          \/ n <= Max(fresh)
      BY <2>2, <2>3, <3>1, AfterIs DEF from, B
    <3>3. n \in w.known \/ ToldBy(q, Position(l, page, Max(fresh)), n)
      BY <2>2, <3>2, ToldUpTo DEF from, B, q
    <3> QED BY <3>3 DEF Known, ToldBy, ToldIn
  <2> QED
    <3>1. ASSUME NEW n \in 1 .. w.made, n <= B + page.to PROVE Known(q, n, w)
      <4>1. CASE n <= B + page.from
        BY <4>1, BehindTells DEF q, B, Known, ToldBy, ToldIn
      <4>2. CASE ~ (n <= B + page.from)
        <5>1. n \in Replies(page)
          BY <1>2, <3>1, <4>2
        <5> QED BY <5>1, BehindTells DEF q, Known, ToldBy, ToldIn
      <4> QED BY <4>1, <4>2
    <3>2. c = [instance |-> page.instance, seq |-> Larger(last.seq, end), at |-> last.at]
      BY <1>8, <2>4
    <3>3. end \in Nat /\ B + end <= w.made /\ (end = page.to \/ end = last.seq)
      BY <1>2, <1>6, <2>6
    <3> HIDE DEF end
    <3>4. c.instance = page.instance /\ c.seq = Larger(last.seq, end) /\ c.at = last.at
          /\ [instance |-> c.instance, seq |-> c.seq, at |-> c.at] = c
      BY <3>2
    <3>5. c.seq \in Nat /\ (c.seq = last.seq \/ c.seq = page.to) /\ B + c.seq <= w.made
      BY <2>6, <3>3, <3>4 DEF Larger
    <3>6. IsCursor(c, w)
      <4>1. w.starts[c.instance] + c.seq <= w.made
        BY <1>4, <3>4, <3>5
      <4> QED BY <1>4, <2>6, <3>4, <3>5, <1>1, <4>1, MakesCursor
    <3>7. ASSUME NEW n \in 1 .. w.made, 2 * n <= c.at \/ Reaches(c, n, w) PROVE Known(q, n, w)
      <4>1. 2 * n <= last.at \/ n <= B + c.seq
        BY <1>4, <3>4, <3>7 DEF Reaches
      <4> QED BY <2>7, <3>1, <3>5, <4>1
    <3> QED BY <3>6, <3>7 DEF c, q
<1>10. CASE fresh = {}
  <2>1. last = from
    BY <1>10
  <2> HIDE DEF last
  <2>2. ASSUME NEW n \in 1 .. w.made, n <= B + page.to PROVE Known(q, n, w)
    <3>1. CASE n <= B + page.from
      BY <3>1, BehindTells DEF q, B, Known, ToldBy, ToldIn
    <3>2. CASE ~ (n <= B + page.from)
      <4>1. n \in Replies(page)
        BY <1>2, <2>2, <3>2
      <4> QED BY <4>1, BehindTells DEF q, Known, ToldBy, ToldIn
    <3> QED BY <3>1, <3>2
  <2>3. ASSUME NEW n \in 1 .. w.made, 2 * n <= from.at \/ n <= B + from.seq PROVE Known(q, n, w)
    BY <2>3, BehindTells DEF q, from, B, Known, ToldBy, ToldIn
  <2>4. CASE l.cursor = None
    \* It has seen no reply, so that the page is empty and the ring holds no more.
    <3>1. l.seen = {}
      BY <1>1, <2>4 DEF IsLedger, Unread
    <3>2. Replies(page) = {}
      BY <1>10, <3>1 DEF fresh, Fresh
    <3>3. page.from = page.to
      <4>1. CASE page.from < page.to
        <5>1. B + page.to \in Nat /\ B + page.from < B + page.to /\ B + page.to <= B + page.to
          BY <1>2, <4>1
        <5>2. B + page.to \in Replies(page)
          BY <1>2, <5>1
        <5> QED BY <3>2, <5>2
      <4> QED BY <1>2, <4>1
    <3>4. page.to = page.cursor /\ IsShort(page)
      BY <1>2, <1>5, <1>6, <3>3 DEF IsShort
    <3>5. from.seq = 0 /\ from.at = 0
      BY <1>3, <2>4
    <3>6. c = [instance |-> page.instance, seq |-> Larger(0, page.cursor), at |-> page.at]
      BY <1>8, <2>1, <3>4, <3>5
    <3>7. c.instance = page.instance /\ c.seq = page.cursor /\ c.at = page.at
          /\ [instance |-> c.instance, seq |-> c.seq, at |-> c.at] = c
      BY <1>2, <3>6 DEF Larger
    <3>8. c.seq \in Nat /\ c.at \in Nat /\ 1 <= c.at /\ c.at <= 2 * w.made + 1
      BY <1>2, <3>7
    <3>9. IsCursor(c, w)
      <4>1. w.starts[c.instance] + c.seq <= w.made
        BY <1>2, <1>4, <3>7
      <4> QED BY <1>4, <3>7, <3>8, <1>1, <4>1, MakesCursor
    <3>10. ASSUME NEW n \in 1 .. w.made, 2 * n <= c.at \/ Reaches(c, n, w) PROVE Known(q, n, w)
      <4>1. n <= B + page.to
        <5>1. CASE 2 * n <= c.at
          BY <1>2, <3>4, <3>7, <5>1
        <5>2. CASE Reaches(c, n, w)
          BY <1>4, <3>4, <3>7, <5>2 DEF Reaches
        <5> QED BY <3>10, <5>1, <5>2
      <4> QED BY <2>2, <4>1
    <3> QED BY <3>9, <3>10 DEF c, q
  <2>5. CASE l.cursor # None
    <3>1. from.at # 0
      BY <1>3, <2>5
    <3>2. c = [instance |-> page.instance, seq |-> Larger(from.seq, end), at |-> from.at]
      BY <1>8, <2>1, <3>1
    <3>3. end \in Nat /\ B + end <= w.made /\ (end = page.to \/ end = from.seq)
      BY <1>2, <1>3, <1>6, <2>1
    <3> HIDE DEF end
    <3>4. c.instance = page.instance /\ c.seq = Larger(from.seq, end) /\ c.at = from.at
          /\ [instance |-> c.instance, seq |-> c.seq, at |-> c.at] = c
      BY <3>2
    <3>5. c.seq \in Nat /\ (c.seq = from.seq \/ c.seq = page.to) /\ B + c.seq <= w.made
      BY <1>3, <3>3, <3>4 DEF Larger
    <3>6. c.at \in Nat /\ 1 <= c.at /\ c.at <= 2 * w.made + 1
      BY <1>3, <2>5, <3>4
    <3>7. IsCursor(c, w)
      <4>1. w.starts[c.instance] + c.seq <= w.made
        BY <1>4, <3>4, <3>5
      <4> QED BY <1>4, <3>4, <3>5, <3>6, <1>1, <4>1, MakesCursor
    <3>8. ASSUME NEW n \in 1 .. w.made, 2 * n <= c.at \/ Reaches(c, n, w) PROVE Known(q, n, w)
      <4>1. 2 * n <= from.at \/ n <= B + c.seq
        BY <1>4, <3>4, <3>8 DEF Reaches
      <4> QED BY <2>2, <2>3, <3>5, <4>1
    <3> QED BY <3>7, <3>8 DEF c, q
  <2> QED BY <2>4, <2>5
<1> QED BY <1>9, <1>10

LEMMA AppendedKeeps ==
    ASSUME NEW w, IsWorld(w), w.made = made, NEW l, IsRecord(l), IsLedger(l, w), NEW page, IsPage(page, w),
           \A n \in 1 .. w.made : ReplyRow(n) \in Jumped(l, page) => n \in w.known,
           l.paused => \A n \in 1 .. w.made : ReplyRow(n) \in Appended(l, page).seen \ l.seen => n \in w.known
    PROVE  /\ IsRecord(Appended(l, page)) /\ IsLedger(Appended(l, page), w)
           /\ Appended(l, page).on = l.on
           /\ l.cursor # None => Appended(l, page).cursor # None
<1> DEFINE m == Appended(l, page)
<1>1. CASE IsAhead(l, page)
  BY <1>1 DEF Appended
<1>2. CASE ~ IsAhead(l, page) /\ IsAnother(l, page)
  <2> DEFINE c == Cursor(page.instance, 0, l.cursor.at)
             lost == IF l.resync = None THEN l.cursor.at ELSE l.resync
  <2>1. l.cursor # None
    BY <1>2 DEF IsAnother
  <2>2. IsCursor(l.cursor, w) /\ ResyncIsCursor(l)
    BY <2>1 DEF IsLedger, CursorIsTrue
  <2>3. l.cursor.at \in Nat /\ 1 <= l.cursor.at /\ l.cursor.at <= 2 * w.made + 1
    BY <2>2 DEF IsCursor
  <2>4. lost = l.cursor.at /\ lost # None
    BY <2>2, <2>3, NoneIs DEF ResyncIsCursor
  <2>5. m = [l EXCEPT !.resync = lost, !.cursor = c]
    BY <1>2 DEF Appended, IsRecord
  <2>6. c = [instance |-> page.instance, seq |-> 0, at |-> l.cursor.at]
    BY DEF Cursor
  <2> HIDE DEF c, lost, m
  <2>7. /\ IsRecord(m) /\ m.on = l.on /\ m.cursor = c /\ m.resync = lost /\ m.seen = l.seen
        /\ m.pending = l.pending /\ m.clearedAt = l.clearedAt /\ m.open = l.open
    BY <2>5 DEF IsRecord
  <2>8. c.instance = page.instance /\ c.seq = 0 /\ c.at = l.cursor.at /\ [instance |-> c.instance, seq |-> c.seq, at |-> c.at] = c
    BY <2>6
  <2>9. IsCursor(c, w)
    <3>1. page.instance \in 1 .. Len(w.starts) /\ w.starts[page.instance] = page.before
      BY DEF IsPage
    <3>2. page.before \in Nat /\ page.cursor \in Nat /\ page.before + page.cursor <= w.made /\ w.made \in Nat
      BY PageIs
    <3>3. w.starts[c.instance] + c.seq <= w.made
      BY <2>8, <3>1, <3>2
    <3>4. c.seq \in Nat
      BY <2>8
    <3> QED BY <2>3, <2>8, <3>1, <3>3, <3>4, MakesCursor
  <2>10. CursorIsTrue(m, w)
    <3>1. \A n \in 1 .. w.made : 2 * n <= c.at => Known(l.pending, n, w)
      BY <2>1, <2>8 DEF IsLedger, CursorIsTrue
    <3> QED BY <2>4, <2>7, <2>9, <3>1 DEF CursorIsTrue
  <2>11. SeenIsKnown(m, w) /\ IsPending(m.pending, w)
    BY <2>7 DEF IsLedger, SeenIsKnown
  <2>12. c # None
    BY <2>9 DEF IsCursor
  <2>13. Unread(m) /\ ResyncIsCursor(m)
    BY <2>4, <2>7, <2>8, <2>12 DEF Unread, ResyncIsCursor
  <2>14. OpenIsWritten(m, w)
    BY <2>7 DEF IsLedger, OpenIsWritten
  <2>15. m.clearedAt \in Nat /\ m.clearedAt <= w.clearedAt
    BY <2>7 DEF IsLedger
  <2>16. IsLedger(m, w)
    BY <2>10, <2>11, <2>13, <2>14, <2>15 DEF IsLedger
  <2> QED BY <2>7, <2>12, <2>16 DEF m
<1>3. CASE ~ IsAhead(l, page) /\ ~ IsAnother(l, page)
  <2> DEFINE replies == {ReplyRow(n) : n \in Fresh(l, page)}
             c == Consumed(l, page)
             q == Behind(l, page)
  <2>1. m = [l EXCEPT !.resync = None, !.seen = l.seen \cup replies, !.pending = q, !.cursor = c]
    BY <1>3 DEF Appended, IsRecord
  <2>2. \A row \in replies : \E n \in Fresh(l, page) : row = ReplyRow(n)
    OBVIOUS
  <2>3. \A n \in Fresh(l, page) : ReplyRow(n) \in replies /\ ReplyRow(n) \notin l.seen
    BY DEF Fresh
  <2> HIDE DEF c, q, m, replies
  <2>4. /\ IsRecord(m) /\ m.on = l.on /\ m.cursor = c /\ m.resync = None /\ m.seen = l.seen \cup replies
        /\ m.pending = q /\ m.clearedAt = l.clearedAt /\ m.open = l.open
    BY <2>1 DEF IsRecord
  <2>5. CanAppend(l, page, w)
    <3>1. ASSUME NEW n \in 1 .. w.made, ~ (l.cursor # None /\ page.reset), SeqNumber(page, n) <= page.from,
                 l.cursor # None => l.cursor.seq < SeqNumber(page, n)
          PROVE  n \in w.known
      <4>1. ReplyRow(n) \in Jumped(l, page)
        BY <1>3, <3>1 DEF Jumped
      <4> QED BY <4>1
    <3>2. ASSUME l.paused, NEW n \in Fresh(l, page) PROVE n \in w.known
      <4>1. n \in 1 .. w.made
        BY PageIs DEF Fresh
      <4>2. ReplyRow(n) \in m.seen \ l.seen
        BY <2>3, <2>4
      <4> QED BY <3>2, <4>1, <4>2 DEF m
    <3> QED BY <1>3, <3>1, <3>2 DEF CanAppend
  <2>6. IsCursor(c, w) /\ \A n \in 1 .. w.made : 2 * n <= c.at \/ Reaches(c, n, w) => Known(q, n, w)
    BY <2>5, ConsumedIs DEF c, q
  <2>7. CursorIsTrue(m, w)
    BY <2>4, <2>6 DEF CursorIsTrue
  <2>8. IsPending(m.pending, w)
    BY <2>4, <2>5, BehindKeeps DEF q
  <2>9. SeenIsKnown(m, w)
    <3> SUFFICES ASSUME NEW n \in Nat, ReplyRow(n) \in m.seen PROVE n \in 1 .. w.made /\ Known(q, n, w)
      BY <2>4 DEF SeenIsKnown
    <3>1. CASE ReplyRow(n) \in l.seen
      <4>1. n \in 1 .. w.made /\ Known(l.pending, n, w)
        BY <3>1 DEF IsLedger, SeenIsKnown
      <4>2. ASSUME NEW i \in DOMAIN l.pending PROVE i \in DOMAIN q /\ q[i] = l.pending[i]
        BY <2>5, BehindIs DEF q
      <4> QED BY <4>1, <4>2 DEF Known, ToldIn
    <3>2. CASE ReplyRow(n) \in replies
      <4>1. PICK k \in Fresh(l, page) : ReplyRow(n) = ReplyRow(k)
        BY <2>2, <3>2
      <4>2. k \in Replies(page) /\ k \in 1 .. w.made
        BY PageIs DEF Fresh
      <4>3. n = k
        BY <4>1, <4>2 DEF ReplyRow
      <4> QED BY <2>5, <4>2, <4>3, BehindTells DEF q, Known, ToldBy, ToldIn
    <3> QED BY <2>4, <3>1, <3>2
  <2>10. c # None
    BY <2>6 DEF IsCursor
  <2>11. Unread(m) /\ ResyncIsCursor(m)
    BY <2>4, <2>10 DEF Unread, ResyncIsCursor
  <2>12. OpenIsWritten(m, w)
    BY <2>4 DEF IsLedger, OpenIsWritten
  <2>13. m.clearedAt \in Nat /\ m.clearedAt <= w.clearedAt
    BY <2>4 DEF IsLedger
  <2>14. IsLedger(m, w)
    BY <2>7, <2>8, <2>9, <2>11, <2>12, <2>13 DEF IsLedger
  <2> QED BY <2>4, <2>10, <2>14 DEF m
<1> QED BY <1>1, <1>2, <1>3

----------------------------------------------------------------------------
(* A ledger read from storage.                                             *)

LEMMA NewestIs ==
    ASSUME NEW w, IsWorld(w), NEW rows, rows \subseteq w.written, rows # {}
    PROVE  /\ newest(rows) \in Nat
           /\ \E row \in rows : row.to = newest(rows)
           /\ \A row \in rows : row.to <= newest(rows)
<1> DEFINE S == {row.to : row \in rows}
           b == 2 * w.made + 1
<1>1. \A row \in rows : row.to \in Nat /\ row.to <= b
  BY DEF IsWorld, IsRow
<1>2. b \in Nat
  BY DEF IsWorld
<1> HIDE DEF b
<1>3. S \in SUBSET Nat /\ S # {} /\ \A y \in S : y <= b
  BY <1>1
<1>4. Max(S) \in S /\ \A y \in S : y <= Max(S)
  BY <1>2, <1>3, MaxIs
<1>5. \A row \in rows : row.to \in S
  OBVIOUS
<1>6. newest(rows) = Max(S)
  BY DEF newest
<1> QED BY <1>3, <1>4, <1>5, <1>6

\* One of the cursors in storage is the newest.
LEMMA NewestCursor ==
    ASSUME NEW S, S # {}, NEW b \in Nat,
           \A c \in S : c.at \in Nat /\ c.at <= b /\ c.seq \in Nat /\ c.seq <= b
    PROVE  \E c \in S : \A d \in S : ~ Newer(d, c)
<1> DEFINE T == {c.at : c \in S}
<1>1. T \in SUBSET Nat /\ T # {} /\ \A y \in T : y <= b
  OBVIOUS
<1>2. Max(T) \in T /\ \A y \in T : y <= Max(T)
  BY <1>1, MaxIs
<1>3. PICK a \in Nat : (\E c \in S : c.at = a) /\ \A c \in S : c.at <= a
  <2>1. \A c \in S : c.at \in T
    OBVIOUS
  <2>2. \E c \in S : c.at = Max(T)
    BY <1>2
  <2> QED BY <1>1, <1>2, <2>1, <2>2
<1> DEFINE L == {c \in S : c.at = a}
           U == {c.seq : c \in L}
<1>4. U \in SUBSET Nat /\ U # {} /\ \A y \in U : y <= b
  BY <1>3
<1>5. Max(U) \in U /\ \A y \in U : y <= Max(U)
  BY <1>4, MaxIs
<1>6. PICK c \in L : c.seq = Max(U)
  BY <1>5
<1>7. \A d \in L : d.seq <= c.seq
  <2>1. \A d \in L : d.seq \in U
    OBVIOUS
  <2> QED BY <1>5, <1>6, <2>1
<1>8. ASSUME NEW d \in S, Newer(d, c) PROVE FALSE
  <2>1. c \in S /\ c.at = a /\ d.at <= a
    BY <1>3, <1>6
  <2>2. CASE d.at > c.at
    BY <1>3, <2>1, <2>2
  <2>3. CASE d.at = c.at /\ d.seq > c.seq
    <3>1. d \in L
      BY <2>1, <2>3
    <3> QED BY <1>7, <2>1, <2>3, <3>1
  <2> QED BY <1>8, <2>2, <2>3 DEF Newer
<1> QED BY <1>6, <1>8

LEMMA LoadedKeeps ==
    ASSUME IsWorld(World), StorageIsTrue
    PROVE  IsRecord(Loaded) /\ IsLedger(Loaded, World) /\ Loaded.on
<1> DEFINE chunks == storage.chunks
           cursors == {chunks[k].cursor : k \in DOMAIN chunks}
           full == {k \in DOMAIN chunks : chunks[k].rows # {}}
           Older(a, b) == \/ newest(chunks[a].rows) < newest(chunks[b].rows)
                          \/ newest(chunks[a].rows) = newest(chunks[b].rows) /\ a < b
           recent == {k \in full : Cardinality({j \in full : Older(k, j)}) < 2}
           all == UNION {chunks[j].rows : j \in full}
           latest == {k \in full : newest(chunks[k].rows) = newest(all)}
           last == Max(latest)
           cursor == IF cursors = {} THEN None ELSE CHOOSE c \in cursors : \A d \in cursors : ~ Newer(d, c)
           seen == UNION {{row \in chunks[k].rows : IsReply(row)} : k \in recent}
           open == IF full = {} THEN None ELSE [key |-> last, rows |-> chunks[last].rows, verified |-> FALSE]
           m == Loaded
<1>1. m = [Empty EXCEPT !.on = TRUE, !.cursor = cursor, !.seen = seen, !.chunks = full, !.open = open,
                        !.clearedAt = storage.clearedAt, !.paused = storage.paused]
  BY Zenon DEF Loaded
<1>2. ASSUME NEW k \in DOMAIN chunks
      PROVE  /\ k \in Nat /\ k <= storage.keys /\ storage.keys \in Nat
             /\ IsChunk(chunks[k], World) /\ chunks[k].rows \subseteq World.written
  BY DEF StorageIsTrue, IsChunk
<1>3. World.made \in Nat /\ World.clearedAt \in Nat /\ World.clearedAt = storage.clearedAt
  BY DEF IsWorld, World
\* The cursor is a chunk's.
<1>4. ASSUME cursors # {} PROVE cursor \in cursors
  <2>1. ASSUME NEW c \in cursors
        PROVE  c.at \in Nat /\ c.at <= 2 * World.made + 1 /\ c.seq \in Nat /\ c.seq <= 2 * World.made + 1
    <3>1. IsCursor(c, World)
      BY <1>2 DEF IsChunk
    <3>2. World.starts[c.instance] \in Nat
      <4>1. c.instance \in 1 .. Len(World.starts) /\ World.starts \in Seq(Nat)
        BY <3>1 DEF IsCursor, IsWorld
      <4> QED BY <4>1
    <3>3. World.starts[c.instance] + c.seq <= World.made /\ c.seq \in Nat
      BY <3>1 DEF IsCursor
    <3>4. c.seq <= 2 * World.made + 1
      BY <1>3, <3>2, <3>3
    <3> QED BY <3>1, <3>3, <3>4 DEF IsCursor
  <2>2. 2 * World.made + 1 \in Nat
    BY <1>3
  <2> HIDE DEF cursors
  <2>3. \E c \in cursors : \A d \in cursors : ~ Newer(d, c)
    BY <1>4, <2>1, <2>2, NewestCursor
  <2> QED BY <1>4, <2>3
<1>5. /\ cursor # None => \E k \in DOMAIN chunks : cursor = chunks[k].cursor
      /\ DOMAIN chunks # {} => cursor # None
  <2>1. CASE cursors = {}
    BY <2>1
  <2>2. CASE cursors # {}
    <3>1. \A c \in cursors : c # None
      BY <1>2 DEF IsChunk, IsCursor
    <3>2. PICK k \in DOMAIN chunks : cursor = chunks[k].cursor
      BY <1>4, <2>2
    <3> QED BY <1>4, <2>2, <3>1, <3>2
  <2> QED BY <2>1, <2>2
\* What was seen and the open chunk are of storage.
<1>6. \A row \in seen : row \in World.written
  BY <1>2
<1>7. DOMAIN chunks = {} => seen = {} /\ open = None
  OBVIOUS
<1>8. full # {} => last \in full
  <2> SUFFICES ASSUME full # {} PROVE last \in full
    OBVIOUS
  <2>1. all \subseteq World.written /\ all # {}
    BY <1>2
  <2>2. PICK row \in all : row.to = newest(all)
    BY <2>1, NewestIs
  <2>3. \A r \in all : r.to <= newest(all)
    BY <2>1, NewestIs
  <2>4. PICK k \in full : row \in chunks[k].rows
    BY <2>2
  <2>5. chunks[k].rows \subseteq World.written /\ chunks[k].rows # {} /\ chunks[k].rows \subseteq all
    BY <1>2, <2>4
  <2>6. newest(chunks[k].rows) \in Nat /\ row.to <= newest(chunks[k].rows)
    BY <2>4, <2>5, NewestIs
  <2>7. PICK r \in chunks[k].rows : r.to = newest(chunks[k].rows)
    BY <2>5, NewestIs
  <2>8. newest(all) \in Nat
    BY <2>1, NewestIs
  <2>9. newest(chunks[k].rows) = newest(all)
    BY <2>2, <2>3, <2>5, <2>6, <2>7, <2>8
  <2>10. latest \in SUBSET Nat /\ latest # {} /\ (\A y \in latest : y <= storage.keys) /\ storage.keys \in Nat
    BY <1>2, <2>4, <2>9
  <2>11. last \in latest
    BY <2>10, MaxIs
  <2> QED BY <2>11
<1>9. open # None =>
        /\ open = [key |-> open.key, rows |-> open.rows, verified |-> open.verified]
        /\ open.key \in Nat /\ open.rows \subseteq World.written
  <2> SUFFICES ASSUME open # None
               PROVE  /\ open = [key |-> open.key, rows |-> open.rows, verified |-> open.verified]
                      /\ open.key \in Nat /\ open.rows \subseteq World.written
    OBVIOUS
  <2>1. last \in DOMAIN chunks /\ open = [key |-> last, rows |-> chunks[last].rows, verified |-> FALSE]
    BY <1>8
  <2> HIDE DEF open, last
  <2>2. open.key = last /\ open.rows = chunks[last].rows
    BY <2>1
  <2> QED BY <1>2, <2>1, <2>2
<1> HIDE DEF m, cursor, seen, open, full, chunks
<1>10. /\ IsRecord(m) /\ m.on /\ m.cursor = cursor /\ m.resync = None /\ m.seen = seen
       /\ m.pending = Nothing /\ m.clearedAt = storage.clearedAt /\ m.open = open
  BY <1>1 DEF Empty, IsRecord
<1>11. DOMAIN Nothing = {} /\ IsMap(Nothing)
  BY DEF Nothing, IsMap
<1>12. IsPending(m.pending, World)
  BY <1>10, <1>11 DEF IsPending
<1>13. Unread(m) /\ ResyncIsCursor(m)
  BY <1>5, <1>7, <1>10, <1>11 DEF Unread, ResyncIsCursor
<1>14. CursorIsTrue(m, World)
  <2> SUFFICES ASSUME cursor # None PROVE CursorIsTrue(m, World)
    BY <1>10 DEF CursorIsTrue
  <2>1. PICK k \in DOMAIN chunks : cursor = chunks[k].cursor
    BY <1>5
  <2>2. IsCursor(cursor, World) /\ \A n \in 1 .. World.made : 2 * n <= cursor.at \/ Reaches(cursor, n, World) => n \in World.known
    BY <1>2, <2>1 DEF IsChunk
  <2> QED BY <1>10, <2>2 DEF CursorIsTrue, Known
<1>15. SeenIsKnown(m, World)
  <2> SUFFICES ASSUME NEW n \in Nat, ReplyRow(n) \in seen PROVE n \in World.known
    BY <1>10 DEF SeenIsKnown, Known, IsWorld
  <2> QED BY <1>6, WrittenIsKnown
<1>16. OpenIsWritten(m, World)
  BY <1>9, <1>10 DEF OpenIsWritten
<1>17. m.clearedAt \in Nat /\ m.clearedAt <= World.clearedAt
  BY <1>3, <1>10
<1>18. IsLedger(m, World)
  BY <1>12, <1>13, <1>14, <1>15, <1>16, <1>17 DEF IsLedger
<1> QED BY <1>10, <1>18 DEF m

----------------------------------------------------------------------------
(* What a step leaves alone.                                               *)

\* A world grows with the replies, the instances, the last clear and the trail.
LEMMA WorldGrows ==
    ASSUME IsWorld(World),
           made' \in Nat, made <= made',
           service'.starts \in Seq(Nat), Len(service.starts) <= Len(service'.starts),
           \A i \in 1 .. Len(service.starts) : service'.starts[i] = service.starts[i],
           \A i \in 1 .. Len(service'.starts) : service'.starts[i] <= service'.starts[Len(service'.starts)],
           service'.starts[Len(service'.starts)] <= made',
           storage'.clearedAt \in Nat, storage.clearedAt <= storage'.clearedAt,
           trail.written \subseteq trail'.written, trail.declined \subseteq trail'.declined,
           trail.skipped \subseteq trail'.skipped, trail.cut \subseteq trail'.cut,
           trail.unsaid \subseteq trail'.unsaid,
           \A row \in trail'.written \ trail.written :
              /\ IsRow(row, World')
              /\ \A n \in 1 .. made' : 2 * n < row.from \/ Tells(row, n) => n \in known'
    PROVE  Grows(World, World')
<1>1. /\ World.made = made /\ World.starts = service.starts /\ World.known = known
      /\ World.written = trail.written /\ World.clearedAt = storage.clearedAt
  BY DEF World
<1>2. /\ World'.made = made' /\ World'.starts = service'.starts /\ World'.known = known'
      /\ World'.written = trail'.written /\ World'.clearedAt = storage'.clearedAt
  BY DEF World
<1>3. made \in Nat /\ Len(service.starts) >= 1 /\ storage.clearedAt \in Nat
  BY <1>1 DEF IsWorld
<1>4. known \subseteq known'
  <2>1. ASSUME NEW n \in 1 .. made, Accounted(n) PROVE Accounted(n)'
    <3>1. CASE 2 * n < storage.clearedAt
      BY <1>3, <3>1 DEF Accounted
    <3>2. CASE ~ (2 * n < storage.clearedAt)
      BY <2>1, <3>2 DEF Accounted
    <3> QED BY <3>1, <3>2
  <2>2. \A n \in 1 .. made : n \in 1 .. made'
    BY <1>3
  <2> QED BY <2>1, <2>2 DEF known
<1>5. ASSUME NEW n \in 1 .. made', 2 * n < storage'.clearedAt PROVE n \in known'
  BY <1>5 DEF known, Accounted
<1>6. ASSUME NEW row \in trail.written
      PROVE  IsRow(row, World') /\ \A n \in 1 .. made' : 2 * n < row.from \/ Tells(row, n) => n \in known'
  <2>1. IsRow(row, World) /\ \A n \in 1 .. made : 2 * n < row.from \/ Tells(row, n) => n \in known
    BY <1>1 DEF IsWorld
  <2>2. /\ [from |-> row.from, to |-> row.to] = row
        /\ row.from \in Nat /\ row.to \in Nat /\ 1 <= row.from /\ row.from <= 2 * made + 1 /\ row.to <= 2 * made + 1
    BY <1>1, <2>1 DEF IsRow
  <2>3. ASSUME NEW n \in 1 .. made', 2 * n < row.from \/ Tells(row, n) PROVE n \in 1 .. made
    BY <1>3, <2>2, <2>3 DEF Tells
  <2>4. row.from <= 2 * made' + 1 /\ row.to <= 2 * made' + 1
    BY <1>3, <2>2
  <2>5. IsRow(row, World')
    BY <1>2, <2>2, <2>4 DEF IsRow
  <2> QED BY <1>4, <2>1, <2>3, <2>5
<1>7. known' \subseteq 1 .. made'
  BY DEF known
<1>8. Len(service'.starts) >= 1
  BY <1>3
<1>9. \A row \in trail'.written :
        IsRow(row, World') /\ \A n \in 1 .. made' : 2 * n < row.from \/ Tells(row, n) => n \in known'
  BY <1>6
<1>10. IsWorld(World')
  BY <1>2, <1>5, <1>7, <1>8, <1>9 DEF IsWorld
<1> QED BY <1>1, <1>2, <1>4, <1>10 DEF Grows

\* It does as long as the service stays as it is.
LEMMA WorldGrowsHere ==
    ASSUME IsWorld(World), UNCHANGED service,
           storage'.clearedAt \in Nat, storage.clearedAt <= storage'.clearedAt,
           trail.written \subseteq trail'.written, trail.declined \subseteq trail'.declined,
           trail.skipped \subseteq trail'.skipped, trail.cut \subseteq trail'.cut,
           trail.unsaid \subseteq trail'.unsaid,
           \A row \in trail'.written \ trail.written :
              /\ IsRow(row, World')
              /\ \A n \in 1 .. made' : 2 * n < row.from \/ Tells(row, n) => n \in known'
    PROVE  Grows(World, World')
<1>1. /\ made \in Nat /\ made' = made /\ service'.starts = service.starts
      /\ service.starts \in Seq(Nat) /\ Len(service.starts) >= 1
      /\ \A i \in 1 .. Len(service.starts) : service.starts[i] <= service.starts[Len(service.starts)]
      /\ service.starts[Len(service.starts)] <= made
  BY DEF IsWorld, World, made
<1>2. Len(service.starts) \in Nat
  BY <1>1
<1> QED BY <1>1, <1>2, WorldGrows

LEMMA StorageStays ==
    ASSUME Grows(World, World'), StorageIsTrue, storage'.chunks = storage.chunks, storage'.keys = storage.keys
    PROVE  StorageIsTrue'
BY ChunkGrows DEF StorageIsTrue

LEMMA FrameStays ==
    ASSUME Grows(World, World'), NEW f \in Frame, FrameIsTrue(f), frame'[f] = frame[f],
           ledger'[f].on => ledger[f].on
    PROVE  FrameIsTrue(f)'
BY PageGrows DEF FrameIsTrue

LEMMA LedgerStays ==
    ASSUME Grows(World, World'), NEW f \in Frame, LedgerIsTrue(f), ledger'[f] = ledger[f]
    PROVE  LedgerIsTrue(f)'
BY LedgerGrows DEF LedgerIsTrue

LEMMA FlushStays ==
    ASSUME Grows(World, World'), NEW f \in Frame, FlushIsTrue(f), flush'[f] = flush[f],
           storage.keys \in Nat, storage'.keys \in Nat, storage.keys <= storage'.keys,
           ledger[f].on => ledger'[f].on, ledger[f].cursor # None => ledger'[f].cursor # None
    PROVE  FlushIsTrue(f)'
<1>1. flush'[f].at = "write" => IsWrite(flush'[f], World')
  BY WriteGrows DEF FlushIsTrue
<1>2. flush'[f].at = "stored" => flush'[f].rows \subseteq trail'.written
  <2>1. trail.written \subseteq trail'.written
    BY DEF Grows, World
  <2> QED BY <2>1 DEF FlushIsTrue
<1>3. flush'[f].at \in {"write", "stored"} => flush'[f].key \in Nat /\ flush'[f].key <= storage'.keys
  BY DEF FlushIsTrue
<1>4. flush'[f].at \in {"write", "stored"} /\ flush'[f].live => ledger'[f].cursor # None
  BY DEF FlushIsTrue
<1>5. flush'[f].live => ledger'[f].on
  BY DEF FlushIsTrue
<1> QED BY <1>1, <1>2, <1>3, <1>4, <1>5 DEF FlushIsTrue

----------------------------------------------------------------------------
(* The actions.                                                            *)

LEMMA WriteShape ==
    ASSUME NEW l, NEW write \in Composed(l)
    PROVE  DOMAIN write = {"at", "live", "key", "rows", "cursor", "take"}
<1>1. \A key, held, upto :
        DOMAIN WriteOf(l, key, held, upto) = {"at", "live", "key", "rows", "cursor", "take"}
  BY DEF WriteOf
<1>2. \E key, held, upto : write = WriteOf(l, key, held, upto)
  BY DEF Composed
<1> QED BY <1>1, <1>2

LEMMA PrepareShape ==
    ASSUME NEW f \in Frame, NEW l, IsShape, Prepare(f, l)
    PROVE  /\ DOMAIN storage' = DOMAIN storage
           /\ DOMAIN ledger' = Frame /\ DOMAIN flush' = Frame
           /\ \A g \in Frame : DOMAIN flush'[g] = {"at", "live", "key", "rows", "cursor", "take"}
<1>1. CASE ~ flush[f].live \/ DOMAIN l.pending = {}
  BY <1>1 DEF Prepare, IsShape, NoWrite
<1>2. CASE ~ (~ flush[f].live \/ DOMAIN l.pending = {})
  <2>1. PICK write \in Composed(l) : /\ flush' = [flush EXCEPT ![f] = write]
                                     /\ storage' = [storage EXCEPT !.keys = Larger(@, write.key)]
    BY <1>2 DEF Prepare
  <2>2. DOMAIN write = {"at", "live", "key", "rows", "cursor", "take"}
    BY WriteShape
  <2>3. ledger' = [ledger EXCEPT ![f] = l]
    BY DEF Prepare
  <2> QED BY <2>1, <2>2, <2>3 DEF IsShape
<1> QED BY <1>1, <1>2

LEMMA ShapeStays ==
    ASSUME IsShape, Next
    PROVE  IsShape'
<1>0. bound.frames \subseteq Frame /\ bound' = bound
  BY DEF IsShape, Next
<1>1. CASE Complete
  BY <1>0, <1>1 DEF Complete, IsShape
<1>2. CASE Restart
  BY <1>0, <1>2 DEF Restart, Upsetting, IsShape
<1>3. ASSUME NEW f \in Frame, Poll(f) PROVE IsShape'
  BY <1>0, <1>3 DEF Poll, IsShape
<1>4. ASSUME NEW f \in Frame, Receive(f) PROVE IsShape'
  <2>1. DOMAIN service' = DOMAIN service /\ DOMAIN storage' = DOMAIN storage
    BY <1>4 DEF Receive
  <2>2. DOMAIN trail' = DOMAIN trail
    BY <1>0, <1>4 DEF Receive, Trailed, IsShape
  <2>3. DOMAIN frame' = Frame /\ DOMAIN ledger' = Frame /\ DOMAIN flush' = Frame
    BY <1>0, <1>4 DEF Receive, IsShape
  <2>4. ASSUME NEW g \in Frame
        PROVE  /\ DOMAIN frame'[g] = {"cursor", "instance", "poll", "leading", "epoch", "starting", "held"}
               /\ DOMAIN flush'[g] = {"at", "live", "key", "rows", "cursor", "take"}
    BY <1>0, <1>4 DEF Receive, IsShape
  <2> QED BY <1>0, <2>1, <2>2, <2>3, <2>4 DEF IsShape
<1>5. ASSUME NEW f \in Frame, Load(f) PROVE IsShape'
  <2>1. DOMAIN trail' = DOMAIN trail
    BY <1>0, <1>5 DEF Load, Trailed, IsShape
  <2> QED BY <1>0, <1>5, <2>1 DEF Load, IsShape
<1>6. ASSUME NEW f \in Frame, LoadFails(f) PROVE IsShape'
  BY <1>0, <1>6 DEF LoadFails, Upsetting, IsShape
<1>7. ASSUME NEW f \in Frame, Flush(f) PROVE IsShape'
  BY <1>0, <1>7 DEF Flush, NoWrite, IsShape
<1>8. ASSUME NEW f \in Frame, Refresh(f) PROVE IsShape'
  <2> DEFINE l == Refreshed(ledger[f])
  <2>1. CASE l.open # None /\ ~ l.open.verified
    BY <1>0, <1>8, <2>1 DEF Refresh, IsShape
  <2>2. CASE Prepare(f, l)
    BY <1>0, <1>8, <2>2, PrepareShape DEF Refresh, IsShape
  <2> QED BY <1>8, <2>1, <2>2 DEF Refresh
<1>9. ASSUME NEW f \in Frame, Verify(f) PROVE IsShape'
  <2>1. PICK l : Prepare(f, l)
    BY <1>9 DEF Verify
  <2> QED BY <1>0, <1>9, <2>1, PrepareShape DEF Verify, IsShape
<1>10. ASSUME NEW f \in Frame, Store(f) PROVE IsShape'
  BY <1>0, <1>10 DEF Store, IsShape
<1>11. ASSUME NEW f \in Frame, Reject(f) PROVE IsShape'
  BY <1>0, <1>11 DEF Reject, Upsetting, NoWrite, IsShape
<1>12. ASSUME NEW f \in Frame, Acknowledge(f) PROVE IsShape'
  <2>1. /\ DOMAIN storage' = DOMAIN storage /\ DOMAIN trail' = DOMAIN trail /\ DOMAIN ledger' = DOMAIN ledger
    BY <1>12 DEF Acknowledge
  <2> QED BY <1>0, <1>12, <2>1 DEF Acknowledge, NoWrite, IsShape
<1>13. ASSUME NEW f \in Frame, SetPaused(f) PROVE IsShape'
  BY <1>0, <1>13 DEF SetPaused, Upsetting, IsShape
<1>14. ASSUME NEW f \in Frame, ClearStart(f) \/ ClearChunks(f) \/ ClearEnd(f) PROVE IsShape'
  BY <1>0, <1>14 DEF ClearStart, ClearChunks, ClearEnd, Upsetting, IsShape
<1> QED BY <1>0, <1>1, <1>2, <1>3, <1>4, <1>5, <1>6, <1>7, <1>8, <1>9, <1>10, <1>11, <1>12, <1>13, <1>14
        DEF Next, Write

LEMMA InvIs ==
    ASSUME RecordingInv
    PROVE  /\ IsShape /\ IsWorld(World) /\ StorageIsTrue /\ storage.keys \in Nat
           /\ \A n \in Nat : ReplyRow(n) \in trail.unsaid => n <= before
           /\ made \in Nat /\ before \in Nat /\ before <= made
           /\ instance \in 1 .. Len(World.starts) /\ World.starts[instance] = before
           /\ World.made = made /\ World.starts = service.starts
           /\ storage.clearedAt \in Nat /\ storage.clearedAt <= now
           /\ \A f \in Frame : FrameIsTrue(f) /\ LedgerIsTrue(f) /\ FlushIsTrue(f)
<1>1. /\ IsShape /\ IsWorld(World) /\ StorageIsTrue
      /\ \A n \in Nat : ReplyRow(n) \in trail.unsaid => n <= before
      /\ storage.clearedAt <= now
      /\ \A f \in Frame : FrameIsTrue(f) /\ LedgerIsTrue(f) /\ FlushIsTrue(f)
  BY DEF RecordingInv, HistoryIsTrue
<1>2. World.made = made /\ World.starts = service.starts /\ World.clearedAt = storage.clearedAt
  BY DEF World
<1>3. /\ made \in Nat /\ service.starts \in Seq(Nat) /\ Len(service.starts) >= 1
      /\ service.starts[Len(service.starts)] <= made /\ storage.clearedAt \in Nat
  BY <1>1, <1>2 DEF IsWorld
<1>4. Len(service.starts) \in 1 .. Len(service.starts)
  BY <1>3
<1>5. service.starts[Len(service.starts)] \in Nat
  BY <1>3, <1>4
<1>6. storage.keys \in Nat
  BY <1>1 DEF StorageIsTrue
<1> QED BY <1>1, <1>2, <1>3, <1>4, <1>5, <1>6 DEF instance, before

\* A step of one frame keeps the invariant when it keeps what is of the service, of
\* storage and of that frame.
LEMMA Remains ==
    ASSUME RecordingInv, UNCHANGED service, Grows(World, World'),
           \A n \in Nat : ReplyRow(n) \in trail'.unsaid \ trail.unsaid => n <= before,
           storage'.clearedAt <= now, StorageIsTrue', storage.keys <= storage'.keys,
           NEW f \in Frame,
           \A g \in Frame \ {f} : frame'[g] = frame[g] /\ ledger'[g] = ledger[g] /\ flush'[g] = flush[g],
           FrameIsTrue(f)', LedgerIsTrue(f)', FlushIsTrue(f)'
    PROVE  HistoryIsTrue'
<1>1. before' = before /\ now' = now
  BY DEF before, instance, now, made
<1>2. IsWorld(World')
  BY DEF Grows
<1>3. \A n \in Nat : ReplyRow(n) \in trail'.unsaid => n <= before
  BY InvIs
<1>4. ASSUME NEW g \in Frame \ {f} PROVE FrameIsTrue(g)' /\ LedgerIsTrue(g)' /\ FlushIsTrue(g)'
  <2>1. frame'[g] = frame[g] /\ ledger'[g] = ledger[g] /\ flush'[g] = flush[g]
    OBVIOUS
  <2>2. FrameIsTrue(g) /\ LedgerIsTrue(g) /\ FlushIsTrue(g)
    BY InvIs
  <2>3. FrameIsTrue(g)' /\ LedgerIsTrue(g)'
    BY <2>1, <2>2, FrameStays, LedgerStays
  <2>4. storage'.keys \in Nat /\ storage.keys \in Nat
    BY InvIs DEF StorageIsTrue
  <2>5. FlushIsTrue(g)'
    BY <2>1, <2>2, <2>4, FlushStays
  <2> QED BY <2>3, <2>5
<1> QED BY <1>1, <1>2, <1>3, <1>4 DEF HistoryIsTrue

\* When no frame, ledger or flush changes, nor storage, the world has only to grow.
LEMMA AllRemains ==
    ASSUME RecordingInv, Grows(World, World'), UNCHANGED <<storage, frame, ledger, flush>>,
           \A n \in Nat : ReplyRow(n) \in trail'.unsaid => n <= before',
           storage'.clearedAt <= now'
    PROVE  HistoryIsTrue'
<1>1. IsWorld(World')
  BY DEF Grows
<1>2. StorageIsTrue'
  BY InvIs, StorageStays
<1>3. ASSUME NEW g \in Frame PROVE FrameIsTrue(g)' /\ LedgerIsTrue(g)' /\ FlushIsTrue(g)'
  <2>1. FrameIsTrue(g) /\ LedgerIsTrue(g) /\ FlushIsTrue(g)
    BY InvIs
  <2>2. FrameIsTrue(g)' /\ LedgerIsTrue(g)'
    BY <2>1, FrameStays, LedgerStays
  <2>3. storage.keys \in Nat /\ storage.keys <= storage.keys
    BY InvIs
  <2>4. FlushIsTrue(g)'
    BY <2>1, <2>3, FlushStays
  <2> QED BY <2>2, <2>4
<1> QED BY <1>1, <1>2, <1>3 DEF HistoryIsTrue

LEMMA CompleteKeeps ==
    ASSUME RecordingInv, Complete
    PROVE  HistoryIsTrue'
<1>1. /\ service'.made = service.made + 1 /\ service'.starts = service.starts
      /\ trail'.written = trail.written /\ trail'.declined = trail.declined /\ trail'.skipped = trail.skipped
      /\ trail'.cut = trail.cut /\ trail'.unsaid = trail.unsaid
      /\ UNCHANGED <<storage, frame, ledger, flush>>
  BY InvIs DEF Complete, IsShape
<1>2. made' = made + 1 /\ before' = before /\ now' = now + 2
  BY <1>1, InvIs DEF made, before, instance, now
<1>3. /\ made \in Nat /\ made' \in Nat /\ made <= made'
      /\ storage'.clearedAt = storage.clearedAt /\ storage.clearedAt \in Nat /\ storage.clearedAt <= now
      /\ service.starts \in Seq(Nat) /\ Len(service.starts) \in Nat
      /\ \A i \in 1 .. Len(service.starts) : service.starts[i] <= service.starts[Len(service.starts)]
      /\ service.starts[Len(service.starts)] <= made'
  <2>1. service.starts \in Seq(Nat) /\ Len(service.starts) \in Nat
        /\ \A i \in 1 .. Len(service.starts) : service.starts[i] <= service.starts[Len(service.starts)]
    BY InvIs DEF IsWorld
  <2>2. before = service.starts[Len(service.starts)]
    BY DEF before, instance
  <2>3. made \in Nat /\ made' \in Nat /\ made <= made' /\ before <= made'
    BY <1>2, InvIs
  <2> QED BY <1>1, <2>1, <2>2, <2>3, InvIs
<1>4. Grows(World, World')
  BY <1>1, <1>3, InvIs, WorldGrows
<1>5. storage'.clearedAt <= now'
  BY <1>2, <1>3 DEF now
<1> QED BY <1>1, <1>2, <1>4, <1>5, InvIs, AllRemains

LEMMA RestartKeeps ==
    ASSUME RecordingInv, Restart
    PROVE  HistoryIsTrue'
<1>1. /\ service'.made = service.made /\ service'.starts = Append(service.starts, made)
      /\ trail'.written = trail.written /\ trail'.declined = trail.declined /\ trail'.skipped = trail.skipped
      /\ trail'.cut = trail.cut /\ trail'.unsaid = trail.unsaid
      /\ UNCHANGED <<storage, frame, ledger, flush>>
  BY InvIs DEF Restart, Upsetting, IsShape
<1>2. /\ service.starts \in Seq(Nat) /\ Len(service.starts) \in Nat /\ made \in Nat
      /\ \A i \in 1 .. Len(service.starts) : service.starts[i] <= service.starts[Len(service.starts)]
      /\ service.starts[Len(service.starts)] <= made
  BY InvIs DEF IsWorld
<1>3. /\ service'.starts \in Seq(Nat) /\ Len(service'.starts) = Len(service.starts) + 1
      /\ \A i \in 1 .. Len(service.starts) : service'.starts[i] = service.starts[i]
      /\ service'.starts[Len(service'.starts)] = made
  BY <1>1, <1>2
<1>4. made' = made /\ before' = made /\ now' = now
  BY <1>1, <1>3 DEF made, before, instance, now
<1>5. \A i \in 1 .. Len(service'.starts) : service'.starts[i] <= made
  <2>1. ASSUME NEW i \in 1 .. Len(service'.starts) PROVE service'.starts[i] <= made
    <3>1. CASE i = Len(service'.starts)
      BY <1>2, <1>3, <3>1
    <3>2. CASE i # Len(service'.starts)
      <4>1. i \in 1 .. Len(service.starts)
        BY <1>2, <1>3, <3>2
      <4>2. service.starts[i] \in Nat /\ service.starts[Len(service.starts)] \in Nat /\ service.starts[i] <= service.starts[Len(service.starts)]
        BY <1>2, <4>1
      <4>3. service.starts[i] <= made
        BY <1>2, <4>2
      <4> QED BY <1>3, <4>1, <4>3
    <3> QED BY <3>1, <3>2
  <2> QED BY <2>1
<1>6. /\ made' \in Nat /\ made <= made' /\ Len(service.starts) <= Len(service'.starts)
      /\ \A i \in 1 .. Len(service'.starts) : service'.starts[i] <= service'.starts[Len(service'.starts)]
      /\ service'.starts[Len(service'.starts)] <= made'
      /\ storage'.clearedAt = storage.clearedAt /\ storage.clearedAt \in Nat /\ storage.clearedAt <= storage.clearedAt
  <2>1. made <= made /\ storage.clearedAt \in Nat /\ storage.clearedAt <= storage.clearedAt
    BY <1>2, InvIs
  <2>2. Len(service.starts) <= Len(service'.starts)
    BY <1>2, <1>3
  <2> QED BY <1>1, <1>2, <1>3, <1>4, <1>5, <2>1, <2>2
<1>7. Grows(World, World')
  BY <1>1, <1>3, <1>6, InvIs, WorldGrows
<1>8. \A n \in Nat : ReplyRow(n) \in trail'.unsaid => n <= before'
  <2>1. ASSUME NEW n \in Nat, n <= before PROVE n <= made
    BY <2>1, InvIs
  <2> QED BY <1>1, <1>4, <2>1, InvIs
<1>9. storage'.clearedAt <= now'
  BY <1>4, <1>6, InvIs
<1> QED BY <1>1, <1>7, <1>8, <1>9, AllRemains

LEMMA PageIsTrue ==
    ASSUME RecordingInv, NEW s \in Nat \cup {None}
    PROVE  IsPage(Page(s), World)
<1> DEFINE page == Page(s)
           lost == dropped
           reset == s # None /\ (s > head \/ s < lost)
           all == s = None \/ reset
           from == IF all THEN Larger(lost, head - PageSize) ELSE s
           to == IF all \/ head - from <= PageSize THEN head ELSE from + PageSize
<1>1. page = [instance |-> instance, before |-> before, cursor |-> head,
              reset |-> reset, since |-> s, at |-> now, from |-> from, to |-> to]
  BY DEF Page
<1>2. RingSize \in Nat /\ PageSize \in Nat /\ PageSize > 0
  BY RecordingAssumption
<1>3. /\ made \in Nat /\ before \in Nat /\ before <= made
      /\ instance \in 1 .. Len(World.starts) /\ World.starts[instance] = before /\ World.made = made
  BY InvIs
<1>4. head \in Nat /\ head = made - before
  BY <1>3 DEF head
<1>5. lost \in Nat /\ lost <= head
  BY <1>2, <1>4 DEF dropped, Larger
<1>6. None \notin Nat
  BY NoneIs
<1>7. from \in Nat /\ from <= head
  BY <1>2, <1>4, <1>5, <1>6 DEF Larger
<1>8. to \in Nat /\ from <= to /\ to <= head /\ (to - from < PageSize => to = head)
  <2> HIDE DEF from, all
  <2> QED BY <1>2, <1>4, <1>7
<1>9. s # None /\ ~ reset => from = s
  OBVIOUS
<1>10. reset \in BOOLEAN
  OBVIOUS
<1>11. now = 2 * (before + head) + 1 /\ before + head = made
  BY <1>3, <1>4 DEF now
<1> HIDE DEF page, lost, reset, all, from, to
<1>12. /\ page.instance = instance /\ page.before = before /\ page.cursor = head /\ page.reset = reset
       /\ page.since = s /\ page.at = now /\ page.from = from /\ page.to = to
  BY <1>1
<1>13. page.before + page.cursor <= World.made /\ page.at = 2 * (page.before + page.cursor) + 1
  <2>1. before + head <= made
    BY <1>3, <1>11
  <2> QED BY <1>3, <1>11, <1>12, <2>1
<1> QED BY <1>3, <1>4, <1>7, <1>8, <1>9, <1>10, <1>12, <1>13 DEF IsPage, page

LEMMA SinceIs ==
    ASSUME RecordingInv, NEW f \in Frame
    PROVE  since(f) \in Nat \cup {None}
<1>1. frame[f].cursor \in Nat \cup {None}
  BY InvIs DEF FrameIsTrue
<1>2. ledger[f].on /\ ledger[f].cursor # None => ledger[f].cursor.seq \in Nat
  BY InvIs DEF LedgerIsTrue, IsLedger, CursorIsTrue, IsCursor
<1> QED BY <1>1, <1>2 DEF since

\* The world when the service and the trail that tells of replies stay.
LEMMA WorldStays ==
    ASSUME RecordingInv, UNCHANGED service,
           storage'.clearedAt \in Nat, storage.clearedAt <= storage'.clearedAt,
           trail'.written = trail.written, trail'.unsaid = trail.unsaid,
           trail.declined \subseteq trail'.declined, trail.skipped \subseteq trail'.skipped,
           trail.cut \subseteq trail'.cut
    PROVE  Grows(World, World') /\ \A n \in Nat : ReplyRow(n) \in trail'.unsaid \ trail.unsaid => n <= before
BY InvIs, WorldGrowsHere

LEMMA PollKeeps ==
    ASSUME RecordingInv, NEW f \in Frame, Poll(f)
    PROVE  HistoryIsTrue'
<1> DEFINE page == Page(since(f))
<1>1. /\ trail'.written = trail.written /\ trail'.declined = trail.declined /\ trail'.skipped = trail.skipped
      /\ trail'.cut = trail.cut /\ trail'.unsaid = trail.unsaid
      /\ UNCHANGED <<service, storage, ledger, flush>>
  BY InvIs DEF Poll, IsShape
<1>2. IsPage(page, World)
  BY PageIsTrue, SinceIs
<1> HIDE DEF page
<1>3. /\ \A g \in Frame \ {f} : frame'[g] = frame[g]
      /\ frame'[f].cursor = frame[f].cursor /\ frame'[f].poll.page = page
      /\ frame'[f].held = frame[f].held /\ frame'[f].starting = frame[f].starting
  BY InvIs DEF Poll, IsShape, page
<1>4. Grows(World, World') /\ \A n \in Nat : ReplyRow(n) \in trail'.unsaid \ trail.unsaid => n <= before
  BY <1>1, InvIs, WorldStays
<1>5. FrameIsTrue(f)'
  <2>1. FrameIsTrue(f) /\ IsPage(page, World')
    BY <1>2, <1>4, InvIs, PageGrows
  <2>2. frame[f].held # None => IsPage(frame[f].held, World')
    BY <1>4, <2>1, PageGrows DEF FrameIsTrue
  <2> QED BY <1>1, <1>3, <2>1, <2>2 DEF FrameIsTrue
<1>6. LedgerIsTrue(f)'
  BY <1>1, <1>4, InvIs, LedgerStays
<1>7. FlushIsTrue(f)'
  <2>1. storage.keys \in Nat /\ storage'.keys \in Nat /\ storage.keys <= storage'.keys
    BY <1>1, InvIs
  <2> QED BY <1>1, <1>4, <2>1, InvIs, FlushStays
<1>8. StorageIsTrue' /\ storage'.clearedAt <= now /\ storage.keys <= storage'.keys
  BY <1>1, <1>4, InvIs, StorageStays
<1> QED BY <1>1, <1>3, <1>4, <1>5, <1>6, <1>7, <1>8, Remains

LEMMA LoadFailsKeeps ==
    ASSUME RecordingInv, NEW f \in Frame, LoadFails(f)
    PROVE  HistoryIsTrue'
<1>1. /\ trail'.written = trail.written /\ trail'.declined = trail.declined /\ trail'.skipped = trail.skipped
      /\ trail'.cut = trail.cut /\ trail'.unsaid = trail.unsaid
      /\ UNCHANGED <<service, storage, ledger, flush>>
  BY InvIs DEF LoadFails, Upsetting, IsShape
<1>2. /\ \A g \in Frame \ {f} : frame'[g] = frame[g]
      /\ frame'[f].cursor = frame[f].cursor /\ frame'[f].poll = frame[f].poll
      /\ frame'[f].held = None /\ frame'[f].starting = FALSE
  BY InvIs DEF LoadFails, IsShape
<1>3. Grows(World, World') /\ \A n \in Nat : ReplyRow(n) \in trail'.unsaid \ trail.unsaid => n <= before
  BY <1>1, InvIs, WorldStays
<1>4. FrameIsTrue(f)'
  BY <1>2, <1>3, InvIs, PageGrows DEF FrameIsTrue
<1>5. LedgerIsTrue(f)'
  BY <1>1, <1>3, InvIs, LedgerStays
<1>6. FlushIsTrue(f)'
  <2>1. storage.keys \in Nat /\ storage'.keys \in Nat /\ storage.keys <= storage'.keys
    BY <1>1, InvIs
  <2> QED BY <1>1, <1>3, <2>1, InvIs, FlushStays
<1>7. StorageIsTrue' /\ storage'.clearedAt <= now /\ storage.keys <= storage'.keys
  BY <1>1, <1>3, InvIs, StorageStays
<1> QED BY <1>1, <1>2, <1>3, <1>4, <1>5, <1>6, <1>7, Remains

LEMMA FlushKeeps ==
    ASSUME RecordingInv, NEW f \in Frame, Flush(f)
    PROVE  HistoryIsTrue'
<1>1. /\ UNCHANGED <<service, storage, frame, ledger, trail>> /\ ledger[f].on
  BY DEF Flush
<1>2. /\ \A g \in Frame \ {f} : flush'[g] = flush[g]
      /\ flush'[f].at = "refresh" /\ flush'[f].live = TRUE
  BY InvIs DEF Flush, NoWrite, IsShape
<1>3. Grows(World, World') /\ \A n \in Nat : ReplyRow(n) \in trail'.unsaid \ trail.unsaid => n <= before
  BY <1>1, InvIs, WorldStays
<1>4. FrameIsTrue(f)' /\ LedgerIsTrue(f)'
  BY <1>1, <1>3, InvIs, FrameStays, LedgerStays
<1>5. FlushIsTrue(f)'
  BY <1>1, <1>2 DEF FlushIsTrue
<1>6. StorageIsTrue' /\ storage'.clearedAt <= now /\ storage.keys <= storage'.keys
  BY <1>1, <1>3, InvIs, StorageStays
<1> QED BY <1>1, <1>2, <1>3, <1>4, <1>5, <1>6, Remains

LEMMA RejectKeeps ==
    ASSUME RecordingInv, NEW f \in Frame, Reject(f)
    PROVE  HistoryIsTrue'
<1>1. /\ trail'.written = trail.written /\ trail'.declined = trail.declined /\ trail'.skipped = trail.skipped
      /\ trail'.cut = trail.cut /\ trail'.unsaid = trail.unsaid
      /\ UNCHANGED <<service, storage, frame>>
  BY InvIs DEF Reject, Upsetting, IsShape
<1>2. /\ \A g \in Frame \ {f} : flush'[g] = flush[g] /\ ledger'[g] = ledger[g]
      /\ flush'[f].at = "none" /\ flush'[f].live = FALSE
  BY InvIs DEF Reject, NoWrite, IsShape
<1>3. Grows(World, World') /\ \A n \in Nat : ReplyRow(n) \in trail'.unsaid \ trail.unsaid => n <= before
  BY <1>1, InvIs, WorldStays
<1>4. ledger'[f] = ledger[f] \/ (ledger'[f].on = FALSE /\ IsRecord(ledger'[f]))
  <2>1. CASE UNCHANGED ledger
    BY <2>1
  <2>2. CASE ledger' = [ledger EXCEPT ![f].pending = Nothing, ![f].on = FALSE]
    <3>1. ledger'[f] = [ledger[f] EXCEPT !.pending = Nothing, !.on = FALSE]
      BY <2>2, InvIs DEF IsShape
    <3>2. IsRecord(ledger[f])
      BY InvIs DEF LedgerIsTrue
    <3> QED BY <3>1, <3>2 DEF IsRecord
  <2> QED BY <2>1, <2>2 DEF Reject
<1>5. LedgerIsTrue(f)'
  BY <1>3, <1>4, InvIs, LedgerStays DEF LedgerIsTrue
<1>6. FrameIsTrue(f)'
  BY <1>1, <1>3, <1>4, InvIs, FrameStays
<1>7. FlushIsTrue(f)'
  BY <1>2 DEF FlushIsTrue
<1>8. StorageIsTrue' /\ storage'.clearedAt <= now /\ storage.keys <= storage'.keys
  BY <1>1, <1>3, InvIs, StorageStays
<1> QED BY <1>1, <1>2, <1>3, <1>5, <1>6, <1>7, <1>8, Remains

LEMMA SetPausedKeeps ==
    ASSUME RecordingInv, NEW f \in Frame, SetPaused(f)
    PROVE  HistoryIsTrue'
<1>1. /\ trail'.written = trail.written /\ trail'.declined = trail.declined /\ trail'.skipped = trail.skipped
      /\ trail'.cut = trail.cut /\ trail'.unsaid = trail.unsaid
      /\ storage'.chunks = storage.chunks /\ storage'.keys = storage.keys /\ storage'.clearedAt = storage.clearedAt
      /\ UNCHANGED <<service, frame, flush>>
  BY InvIs DEF SetPaused, Upsetting, IsShape
<1>2. IsRecord(ledger[f])
  BY InvIs DEF LedgerIsTrue
<1>3. \A g \in Frame \ {f} : ledger'[g] = ledger[g]
  BY InvIs DEF SetPaused, IsShape
<1>4. PICK paused : ledger'[f] = [ledger[f] EXCEPT !.paused = paused]
  BY InvIs DEF SetPaused, IsShape
<1>5. /\ IsRecord(ledger'[f]) /\ ledger'[f].on = ledger[f].on /\ ledger'[f].cursor = ledger[f].cursor
      /\ ledger'[f].resync = ledger[f].resync /\ ledger'[f].seen = ledger[f].seen
      /\ ledger'[f].pending = ledger[f].pending /\ ledger'[f].open = ledger[f].open
      /\ ledger'[f].clearedAt = ledger[f].clearedAt
  BY <1>2, <1>4 DEF IsRecord
<1>6. Grows(World, World') /\ \A n \in Nat : ReplyRow(n) \in trail'.unsaid \ trail.unsaid => n <= before
  <2>1. storage'.clearedAt \in Nat /\ storage.clearedAt <= storage'.clearedAt
    BY <1>1, InvIs
  <2> QED BY <1>1, <2>1, InvIs, WorldStays
<1>7. LedgerIsTrue(f)'
  <2> SUFFICES ASSUME ledger[f].on PROVE IsLedger(ledger'[f], World')
    BY <1>5 DEF LedgerIsTrue
  <2>1. IsLedger(ledger[f], World')
    BY <1>6, InvIs, LedgerGrows DEF LedgerIsTrue
  <2>2. /\ OpenIsWritten(ledger'[f], World') /\ (ledger'[f].cursor = None => ledger'[f].open = None)
        /\ ledger'[f].clearedAt \in Nat /\ ledger'[f].clearedAt <= World'.clearedAt
    BY <1>5, <2>1 DEF IsLedger, OpenIsWritten, Unread
  <2> QED BY <1>5, <2>1, <2>2, LedgerSame
<1>8. FrameIsTrue(f)'
  BY <1>1, <1>5, <1>6, InvIs, FrameStays
<1>9. FlushIsTrue(f)'
  <2>1. storage.keys \in Nat /\ storage'.keys \in Nat /\ storage.keys <= storage'.keys
    BY <1>1, InvIs
  <2> QED BY <1>1, <1>5, <1>6, <2>1, InvIs, FlushStays
<1>10. StorageIsTrue' /\ storage'.clearedAt <= now /\ storage.keys <= storage'.keys
  BY <1>1, <1>6, InvIs, StorageStays
<1> QED BY <1>1, <1>3, <1>6, <1>7, <1>8, <1>9, <1>10, Remains

LEMMA ClearStartKeeps ==
    ASSUME RecordingInv, NEW f \in Frame, ClearStart(f)
    PROVE  HistoryIsTrue'
<1>1. /\ trail'.written = trail.written /\ trail'.declined = trail.declined /\ trail'.skipped = trail.skipped
      /\ trail'.cut = trail.cut /\ trail'.unsaid = trail.unsaid
      /\ storage'.chunks = storage.chunks /\ storage'.keys = storage.keys /\ storage'.clearedAt = now
      /\ UNCHANGED <<service, frame, ledger, flush>>
  BY InvIs DEF ClearStart, Upsetting, IsShape
<1>2. now \in Nat /\ storage.clearedAt <= now /\ now <= now
  BY InvIs DEF now
<1>3. Grows(World, World') /\ \A n \in Nat : ReplyRow(n) \in trail'.unsaid \ trail.unsaid => n <= before
  BY <1>1, <1>2, InvIs, WorldStays
<1>4. FrameIsTrue(f)' /\ LedgerIsTrue(f)'
  BY <1>1, <1>3, InvIs, FrameStays, LedgerStays
<1>5. FlushIsTrue(f)'
  <2>1. storage.keys \in Nat /\ storage'.keys \in Nat /\ storage.keys <= storage'.keys
    BY <1>1, InvIs
  <2> QED BY <1>1, <1>3, <2>1, InvIs, FlushStays
<1>6. StorageIsTrue' /\ storage'.clearedAt <= now /\ storage.keys <= storage'.keys
  BY <1>1, <1>2, <1>3, InvIs, StorageStays
<1> QED BY <1>1, <1>3, <1>4, <1>5, <1>6, Remains

LEMMA ClearChunksKeeps ==
    ASSUME RecordingInv, NEW f \in Frame, ClearChunks(f)
    PROVE  HistoryIsTrue'
<1>1. /\ storage'.chunks = Nothing /\ storage'.keys = storage.keys /\ storage'.clearedAt = storage.clearedAt
      /\ UNCHANGED <<service, frame, ledger, flush, trail>>
  BY InvIs DEF ClearChunks, IsShape
<1>2. Grows(World, World') /\ \A n \in Nat : ReplyRow(n) \in trail'.unsaid \ trail.unsaid => n <= before
  <2>1. storage'.clearedAt \in Nat /\ storage.clearedAt <= storage'.clearedAt
    BY <1>1, InvIs
  <2> QED BY <1>1, <2>1, InvIs, WorldStays
<1>3. FrameIsTrue(f)' /\ LedgerIsTrue(f)'
  BY <1>1, <1>2, InvIs, FrameStays, LedgerStays
<1>4. FlushIsTrue(f)'
  <2>1. storage.keys \in Nat /\ storage'.keys \in Nat /\ storage.keys <= storage'.keys
    BY <1>1, InvIs
  <2> QED BY <1>1, <1>2, <2>1, InvIs, FlushStays
<1>5. StorageIsTrue' /\ storage'.clearedAt <= now /\ storage.keys <= storage'.keys
  <2>1. DOMAIN Nothing = {}
    BY DEF Nothing
  <2>2. storage.keys \in Nat /\ storage.clearedAt <= now
    BY InvIs
  <2> QED BY <1>1, <2>1, <2>2 DEF StorageIsTrue
<1> QED BY <1>1, <1>2, <1>3, <1>4, <1>5, Remains

LEMMA ClearEndKeeps ==
    ASSUME RecordingInv, NEW f \in Frame, ClearEnd(f)
    PROVE  HistoryIsTrue'
<1> DEFINE c == Cleared(ledger[f], storage.clearedAt)
<1>1. /\ storage'.chunks = storage.chunks /\ storage'.keys = storage.keys /\ storage'.clearedAt = storage.clearedAt
      /\ UNCHANGED <<service, frame, flush, trail>>
  BY InvIs DEF ClearEnd, IsShape
<1>2. IsRecord(ledger[f])
  BY InvIs DEF LedgerIsTrue
<1>3. \A g \in Frame \ {f} : ledger'[g] = ledger[g]
  BY InvIs DEF ClearEnd, IsShape
<1>4. Grows(World, World') /\ \A n \in Nat : ReplyRow(n) \in trail'.unsaid \ trail.unsaid => n <= before
  <2>1. storage'.clearedAt \in Nat /\ storage.clearedAt <= storage'.clearedAt
    BY <1>1, InvIs
  <2> QED BY <1>1, <2>1, InvIs, WorldStays
<1>5. /\ LedgerIsTrue(f)'
      /\ ledger'[f].on = ledger[f].on /\ ledger'[f].cursor = ledger[f].cursor
  <2>1. CASE ~ ledger[f].on
    <3>1. ledger'[f] = ledger[f]
      BY <2>1, InvIs DEF ClearEnd, IsShape
    <3> QED BY <1>4, <3>1, InvIs, LedgerStays
  <2>2. CASE ledger[f].on
    <3>1. IsRecord(c) /\ c.on = ledger[f].on /\ c.cursor = ledger[f].cursor
      BY <1>2, ClearedIs
    <3>2. IsLedger(c, World)
      <4>1. IsLedger(ledger[f], World) /\ World.clearedAt = storage.clearedAt
        BY <2>2, InvIs DEF LedgerIsTrue, World
      <4> QED BY <1>2, <4>1, InvIs, ClearedKeeps
    <3>3. IsLedger(c, World')
      BY <1>4, <3>2, LedgerGrows
    <3> HIDE DEF c
    <3>4. PICK chunks : ledger'[f] = [c EXCEPT !.chunks = chunks]
      BY <2>2, InvIs DEF ClearEnd, IsShape, c
    <3>5. /\ IsRecord(ledger'[f]) /\ ledger'[f].on = c.on /\ ledger'[f].cursor = c.cursor
          /\ ledger'[f].resync = c.resync /\ ledger'[f].seen = c.seen
          /\ ledger'[f].pending = c.pending /\ ledger'[f].open = c.open
          /\ ledger'[f].clearedAt = c.clearedAt
      BY <3>1, <3>4 DEF IsRecord
    <3>6. /\ OpenIsWritten(ledger'[f], World') /\ (ledger'[f].cursor = None => ledger'[f].open = None)
          /\ ledger'[f].clearedAt \in Nat /\ ledger'[f].clearedAt <= World'.clearedAt
      BY <3>3, <3>5 DEF IsLedger, OpenIsWritten, Unread
    <3>7. IsLedger(ledger'[f], World')
      BY <3>3, <3>5, <3>6, LedgerSame
    <3> QED BY <3>1, <3>5, <3>7 DEF LedgerIsTrue
  <2> QED BY <2>1, <2>2
<1>6. FrameIsTrue(f)'
  BY <1>1, <1>4, <1>5, InvIs, FrameStays
<1>7. FlushIsTrue(f)'
  <2>1. storage.keys \in Nat /\ storage'.keys \in Nat /\ storage.keys <= storage'.keys
    BY <1>1, InvIs
  <2> QED BY <1>1, <1>4, <1>5, <2>1, InvIs, FlushStays
<1>8. StorageIsTrue' /\ storage'.clearedAt <= now /\ storage.keys <= storage'.keys
  BY <1>1, <1>4, InvIs, StorageStays
<1> QED BY <1>1, <1>3, <1>4, <1>5, <1>6, <1>7, <1>8, Remains

LEMMA FlushStaysOver ==
    ASSUME Grows(World, World'), NEW f \in Frame, FlushIsTrue(f),
           flush'[f].at = flush[f].at, flush'[f].key = flush[f].key, flush'[f].rows = flush[f].rows,
           flush'[f].cursor = flush[f].cursor, flush'[f].live = FALSE,
           storage.keys \in Nat, storage'.keys \in Nat, storage.keys <= storage'.keys
    PROVE  FlushIsTrue(f)'
<1>1. flush'[f].at = "write" => IsWrite(flush'[f], World')
  <2> SUFFICES ASSUME flush[f].at = "write" PROVE IsWrite(flush'[f], World')
    OBVIOUS
  <2>1. IsWrite(flush[f], World')
    BY WriteGrows DEF FlushIsTrue
  <2> QED BY <2>1 DEF IsWrite
<1>2. flush'[f].at = "stored" => flush'[f].rows \subseteq trail'.written
  <2>1. trail.written \subseteq trail'.written
    BY DEF Grows, World
  <2> QED BY <2>1 DEF FlushIsTrue
<1>3. flush'[f].at \in {"write", "stored"} => flush'[f].key \in Nat /\ flush'[f].key <= storage'.keys
  BY DEF FlushIsTrue
<1> QED BY <1>1, <1>2, <1>3 DEF FlushIsTrue

\* Appending a page keeps a ledger true in the world whose trail tells of what the
\* page leaves out.
LEMMA AppendingKeeps ==
    ASSUME RecordingInv, UNCHANGED service, storage'.clearedAt = storage.clearedAt,
           NEW l, IsRecord(l), IsLedger(l, World), NEW page, IsPage(page, World),
           trail'.written = trail.written, trail'.unsaid = trail.unsaid, trail'.cut = trail.cut,
           trail'.declined = Trailed(l, page).declined, trail'.skipped = Trailed(l, page).skipped
    PROVE  /\ Grows(World, World')
           /\ \A n \in Nat : ReplyRow(n) \in trail'.unsaid \ trail.unsaid => n <= before
           /\ IsRecord(Appended(l, page)) /\ IsLedger(Appended(l, page), World')
           /\ Appended(l, page).on = l.on
           /\ l.cursor # None => Appended(l, page).cursor # None
<1> DEFINE left == IF l.paused THEN Appended(l, page).seen \ l.seen ELSE {}
<1>1. trail'.declined = trail.declined \cup left /\ trail'.skipped = trail.skipped \cup Jumped(l, page)
  BY InvIs DEF Trailed, IsShape
<1>2. Grows(World, World') /\ \A n \in Nat : ReplyRow(n) \in trail'.unsaid \ trail.unsaid => n <= before
  <2>1. storage'.clearedAt \in Nat /\ storage.clearedAt <= storage'.clearedAt
    BY InvIs
  <2>2. trail.declined \subseteq trail'.declined /\ trail.skipped \subseteq trail'.skipped
    BY <1>1
  <2> QED BY <2>1, <2>2, InvIs, WorldStays
<1>3. World'.made = made /\ World'.known = known'
  BY DEF World, made
<1>4. IsWorld(World') /\ IsLedger(l, World') /\ IsPage(page, World')
  BY <1>2, LedgerGrows, PageGrows DEF Grows
<1>5. ASSUME NEW n \in 1 .. World'.made, ReplyRow(n) \in trail'.skipped \cup trail'.declined
      PROVE  n \in World'.known
  <2>1. n \in Nat /\ ReplyRow(n).from <= 2 * n /\ 2 * n <= ReplyRow(n).to
    BY <1>3, InvIs DEF ReplyRow
  <2>2. Accounted(n)'
    BY <1>5, <2>1 DEF Accounted
  <2>3. n \in 1 .. made'
    BY DEF World
  <2> QED BY <1>3, <2>2, <2>3 DEF known
<1>6. \A n \in 1 .. World'.made : ReplyRow(n) \in Jumped(l, page) => n \in World'.known
  BY <1>1, <1>5
<1>7. l.paused => \A n \in 1 .. World'.made : ReplyRow(n) \in Appended(l, page).seen \ l.seen => n \in World'.known
  BY <1>1, <1>5
<1>8. /\ IsRecord(Appended(l, page)) /\ IsLedger(Appended(l, page), World')
      /\ Appended(l, page).on = l.on
      /\ l.cursor # None => Appended(l, page).cursor # None
  BY <1>3, <1>4, <1>6, <1>7, AppendedKeeps
<1> QED BY <1>2, <1>8

LEMMA LoadKeeps ==
    ASSUME RecordingInv, NEW f \in Frame, Load(f)
    PROVE  HistoryIsTrue'
<1> DEFINE page == frame[f].held
           l == IF page = None THEN Loaded ELSE Appended(Loaded, page)
<1>1. UNCHANGED <<service, lease, storage, flush>> /\ ~ ledger[f].on /\ ~ flush[f].live
  BY InvIs DEF Load, FrameIsTrue, FlushIsTrue
<1>2. /\ \A g \in Frame \ {f} : frame'[g] = frame[g] /\ ledger'[g] = ledger[g]
      /\ frame'[f].cursor = frame[f].cursor /\ frame'[f].poll = frame[f].poll
      /\ frame'[f].held = None /\ frame'[f].starting = FALSE
  BY InvIs DEF Load, IsShape
<1>3. ledger'[f] = l
  BY InvIs DEF Load, IsShape
<1>4. IsRecord(Loaded) /\ IsLedger(Loaded, World) /\ Loaded.on
  BY InvIs, LoadedKeeps
<1>5. /\ Grows(World, World')
      /\ \A n \in Nat : ReplyRow(n) \in trail'.unsaid \ trail.unsaid => n <= before
      /\ IsRecord(l) /\ IsLedger(l, World')
  <2>1. CASE page = None
    <3>1. trail' = trail /\ l = Loaded
      BY <2>1 DEF Load
    <3>2. storage'.clearedAt \in Nat /\ storage.clearedAt <= storage'.clearedAt
      BY <1>1, InvIs
    <3>3. Grows(World, World') /\ \A n \in Nat : ReplyRow(n) \in trail'.unsaid \ trail.unsaid => n <= before
      BY <1>1, <3>1, <3>2, InvIs, WorldStays
    <3> QED BY <1>4, <3>1, <3>3, LedgerGrows
  <2>2. CASE page # None
    <3>1. trail' = Trailed(Loaded, page) /\ l = Appended(Loaded, page)
      BY <2>2 DEF Load
    <3>2. trail'.written = trail.written /\ trail'.unsaid = trail.unsaid /\ trail'.cut = trail.cut
      BY <3>1, InvIs DEF Trailed, IsShape
    <3>3. IsPage(page, World)
      BY <2>2, InvIs DEF FrameIsTrue
    <3> HIDE DEF l, page
    <3>4. /\ Grows(World, World')
          /\ \A n \in Nat : ReplyRow(n) \in trail'.unsaid \ trail.unsaid => n <= before
          /\ IsRecord(Appended(Loaded, page)) /\ IsLedger(Appended(Loaded, page), World')
      BY <1>1, <1>4, <3>1, <3>2, <3>3, InvIs, AppendingKeeps
    <3> QED BY <3>1, <3>4
  <2> QED BY <2>1, <2>2
<1> HIDE DEF l, page
<1>6. LedgerIsTrue(f)'
  BY <1>3, <1>5 DEF LedgerIsTrue
<1>7. FrameIsTrue(f)'
  BY <1>2, <1>5, InvIs, PageGrows DEF FrameIsTrue
<1>8. FlushIsTrue(f)'
  <2>1. storage.keys \in Nat /\ storage'.keys \in Nat /\ storage.keys <= storage'.keys
    BY <1>1, InvIs
  <2>2. FlushIsTrue(f) /\ (~ flush[f].live => flush[f].live # TRUE)
    BY InvIs
  <2>3. flush'[f].at = "write" => IsWrite(flush'[f], World')
    BY <1>1, <1>5, <2>2, WriteGrows DEF FlushIsTrue
  <2>4. trail.written \subseteq trail'.written
    BY <1>5 DEF Grows, World
  <2> QED BY <1>1, <2>1, <2>2, <2>3, <2>4 DEF FlushIsTrue
<1>9. StorageIsTrue' /\ storage'.clearedAt <= now /\ storage.keys <= storage'.keys
  BY <1>1, <1>5, InvIs, StorageStays
<1> QED BY <1>1, <1>2, <1>5, <1>6, <1>7, <1>8, <1>9, Remains

LEMMA AcceptedIs ==
    ASSUME NEW w, NEW page, IsWorld(w), IsPage(page, w), NEW own \in Nat \cup {None}, NEW of
    PROVE  Accepted(own, of, page) \in Nat \cup {None}
<1>1. page.cursor \in Nat /\ page.to \in Nat
  BY PageIs
<1> QED BY <1>1 DEF Accepted, Larger

LEMMA ReceiveKeeps ==
    ASSUME RecordingInv, NEW f \in Frame, Receive(f)
    PROVE  HistoryIsTrue'
<1> DEFINE answer == frame[f].poll
           page == answer.page
<1>1. PICK leads \in {frame[f].poll.leader} \cup IF Calm THEN {FALSE} ELSE {} :
        LET starts  == leads /\ (~ frame[f].leading \/ answer.epoch # frame[f].epoch)
            restart == starts /\ frame[f].leading
        IN  /\ frame' = [frame EXCEPT ![f] =
                             [cursor |-> Accepted(@.cursor, @.instance, page),
                              instance |-> page.instance, poll |-> None, leading |-> leads,
                              epoch |-> answer.epoch,
                              starting |-> starts \/ (leads /\ @.starting),
                              held |-> IF leads /\ ~ restart /\ (starts \/ @.starting)
                                       THEN page ELSE None]]
            /\ IF starts \/ ~ leads
                THEN /\ ledger' = [ledger EXCEPT ![f] = Empty]
                     /\ flush' = [flush EXCEPT ![f].live = FALSE]
                     /\ trail' = [trail EXCEPT !.usurped = @ \ {f},
                                              !.upsets = IF leads = answer.leader THEN @ ELSE @ + 1]
                ELSE /\ ledger' = [ledger EXCEPT ![f] = IF @.on THEN Appended(@, page) ELSE @]
                     /\ trail' = IF ledger[f].on THEN Trailed(ledger[f], page) ELSE trail
                     /\ UNCHANGED flush
  BY DEF Receive
<1>2. UNCHANGED <<service, lease, storage>> /\ answer # None
  BY DEF Receive
<1> DEFINE starts == leads /\ (~ frame[f].leading \/ answer.epoch # frame[f].epoch)
           held == IF leads /\ ~ (starts /\ frame[f].leading) /\ (starts \/ frame[f].starting) THEN page ELSE None
           own == Accepted(frame[f].cursor, frame[f].instance, page)
<1>3. IsPage(page, World)
  BY <1>2, InvIs DEF FrameIsTrue
<1>4. own \in Nat \cup {None}
  <2>1. frame[f].cursor \in Nat \cup {None}
    BY InvIs DEF FrameIsTrue
  <2> QED BY <1>3, <2>1, InvIs, AcceptedIs
<1>5. /\ \A g \in Frame \ {f} : frame'[g] = frame[g]
      /\ frame'[f].cursor = own /\ frame'[f].poll = None
      /\ frame'[f].starting = (starts \/ (leads /\ frame[f].starting)) /\ frame'[f].held = held
  BY <1>1, InvIs DEF IsShape
<1>6. held = None \/ held = page
  OBVIOUS
<1> HIDE DEF own, held
<1>7. storage.keys \in Nat /\ storage'.keys \in Nat /\ storage.keys <= storage'.keys
  BY <1>2, InvIs
<1>8. storage'.clearedAt \in Nat /\ storage.clearedAt <= storage'.clearedAt /\ storage'.clearedAt <= now
  BY <1>2, InvIs
<1>9. CASE starts \/ ~ leads
  <2>1. /\ ledger' = [ledger EXCEPT ![f] = Empty]
        /\ flush' = [flush EXCEPT ![f].live = FALSE]
        /\ trail' = [trail EXCEPT !.usurped = @ \ {f},
                                  !.upsets = IF leads = answer.leader THEN @ ELSE @ + 1]
    BY <1>1, <1>9
  <2>2. /\ trail'.written = trail.written /\ trail'.declined = trail.declined /\ trail'.skipped = trail.skipped
        /\ trail'.cut = trail.cut /\ trail'.unsaid = trail.unsaid
    BY <2>1, InvIs DEF IsShape
  <2>3. Grows(World, World') /\ \A n \in Nat : ReplyRow(n) \in trail'.unsaid \ trail.unsaid => n <= before
    BY <1>2, <1>8, <2>2, InvIs, WorldStays
  <2>4. /\ \A g \in Frame \ {f} : ledger'[g] = ledger[g] /\ flush'[g] = flush[g]
        /\ ledger'[f] = Empty
        /\ flush'[f].at = flush[f].at /\ flush'[f].key = flush[f].key /\ flush'[f].rows = flush[f].rows
        /\ flush'[f].cursor = flush[f].cursor /\ flush'[f].live = FALSE
    BY <2>1, InvIs DEF IsShape
  <2>5. IsRecord(Empty) /\ Empty.on = FALSE
    BY DEF Empty, IsRecord
  <2>6. LedgerIsTrue(f)'
    BY <2>4, <2>5 DEF LedgerIsTrue
  <2>7. FlushIsTrue(f)'
    BY <1>7, <2>3, <2>4, InvIs, FlushStaysOver
  <2>8. FrameIsTrue(f)'
    <3>1. held # None => IsPage(held, World')
      BY <1>3, <1>6, <2>3, PageGrows
    <3>2. ~ ledger'[f].on
      BY <2>4, <2>5
    <3> QED BY <1>4, <1>5, <3>1, <3>2 DEF FrameIsTrue
  <2>9. StorageIsTrue'
    BY <1>2, <2>3, InvIs, StorageStays
  <2> QED BY <1>2, <1>5, <1>7, <1>8, <2>3, <2>4, <2>6, <2>7, <2>8, <2>9, Remains
<1>10. CASE ~ (starts \/ ~ leads)
  <2>1. /\ ledger' = [ledger EXCEPT ![f] = IF @.on THEN Appended(@, page) ELSE @]
        /\ trail' = IF ledger[f].on THEN Trailed(ledger[f], page) ELSE trail
        /\ flush' = flush
    BY <1>1, <1>10
  <2>2. IsRecord(ledger[f])
    BY InvIs DEF LedgerIsTrue
  <2>3. /\ Grows(World, World')
        /\ \A n \in Nat : ReplyRow(n) \in trail'.unsaid \ trail.unsaid => n <= before
        /\ LedgerIsTrue(f)'
        /\ ledger'[f].on = ledger[f].on
        /\ ledger[f].cursor # None => ledger'[f].cursor # None
    <3>1. CASE ~ ledger[f].on
      <4>1. trail' = trail /\ ledger'[f] = ledger[f]
        BY <2>1, <3>1, InvIs DEF IsShape
      <4>2. Grows(World, World') /\ \A n \in Nat : ReplyRow(n) \in trail'.unsaid \ trail.unsaid => n <= before
        BY <1>2, <1>8, <4>1, InvIs, WorldStays
      <4> QED BY <4>1, <4>2, InvIs, LedgerStays
    <3>2. CASE ledger[f].on
      <4>1. trail' = Trailed(ledger[f], page) /\ ledger'[f] = Appended(ledger[f], page)
        BY <2>1, <3>2, InvIs DEF IsShape
      <4>2. trail'.written = trail.written /\ trail'.unsaid = trail.unsaid /\ trail'.cut = trail.cut
        BY <4>1, InvIs DEF Trailed, IsShape
      <4>3. IsLedger(ledger[f], World)
        BY <3>2, InvIs DEF LedgerIsTrue
      <4> HIDE DEF page
      <4>4. /\ Grows(World, World')
            /\ \A n \in Nat : ReplyRow(n) \in trail'.unsaid \ trail.unsaid => n <= before
            /\ IsRecord(Appended(ledger[f], page)) /\ IsLedger(Appended(ledger[f], page), World')
            /\ Appended(ledger[f], page).on = ledger[f].on
            /\ ledger[f].cursor # None => Appended(ledger[f], page).cursor # None
        BY <1>2, <1>3, <2>2, <4>1, <4>2, <4>3, AppendingKeeps
      <4> QED BY <4>1, <4>4 DEF LedgerIsTrue
    <3> QED BY <3>1, <3>2
  <2>4. \A g \in Frame \ {f} : ledger'[g] = ledger[g] /\ flush'[g] = flush[g]
    BY <2>1, InvIs DEF IsShape
  <2>5. FlushIsTrue(f)'
    BY <1>7, <2>1, <2>3, InvIs, FlushStays
  <2>6. FrameIsTrue(f)'
    <3>1. held # None => IsPage(held, World')
      BY <1>3, <1>6, <2>3, PageGrows
    <3>2. frame'[f].starting => frame[f].starting
      BY <1>5, <1>10
    <3>3. frame[f].starting => ~ ledger'[f].on
      BY <2>3, InvIs DEF FrameIsTrue
    <3> QED BY <1>4, <1>5, <3>1, <3>2, <3>3 DEF FrameIsTrue
  <2>7. StorageIsTrue'
    BY <1>2, <2>3, InvIs, StorageStays
  <2> QED BY <1>2, <1>5, <1>7, <1>8, <2>3, <2>4, <2>5, <2>6, <2>7, Remains
<1> QED BY <1>9, <1>10

LEMMA VerifiedIs ==
    ASSUME NEW l, IsRecord(l)
    PROVE  IsRecord(Verified(l)) /\ Verified(l).on = l.on
<1>1. CASE l.open.key \notin DOMAIN storage.chunks
  <2>1. Verified(l) = [l EXCEPT !.open = None]
    BY <1>1 DEF Verified
  <2> QED BY <2>1 DEF IsRecord
<1>2. CASE l.open.key \in DOMAIN storage.chunks
  <2> DEFINE merged == storage.chunks[l.open.key].rows \cup l.open.rows
             open == [key |-> l.open.key, rows |-> merged, verified |-> TRUE]
             seen == l.seen \cup {row \in merged : IsReply(row)}
             pending == Without(l.pending, {i \in DOMAIN l.pending : l.pending[i].row \in merged})
  <2>1. Verified(l) = [l EXCEPT !.open = open, !.seen = seen, !.pending = pending]
    BY <1>2 DEF Verified, IsRecord
  <2> HIDE DEF open, seen, pending
  <2> QED BY <2>1 DEF IsRecord
<1> QED BY <1>1, <1>2

\* A ledger that is true is prepared into a write that is.
LEMMA PrepareKeeps ==
    ASSUME RecordingInv, NEW f \in Frame, NEW l, IsRecord(l), l.on = ledger[f].on,
           l.on => IsLedger(l, World), Prepare(f, l), UNCHANGED <<service, frame, trail>>
    PROVE  HistoryIsTrue'
<1>1. /\ \A g \in Frame \ {f} : ledger'[g] = ledger[g]
      /\ ledger'[f] = l
  BY InvIs DEF Prepare, IsShape
<1>2. /\ \A g \in Frame \ {f} : flush'[g] = flush[g]
      /\ storage'.chunks = storage.chunks /\ storage'.clearedAt = storage.clearedAt
      /\ storage'.keys \in Nat /\ storage.keys <= storage'.keys
      /\ \/ flush'[f].at = "none" /\ flush'[f].live = FALSE
         \/ /\ flush[f].live /\ DOMAIN l.pending # {}
            /\ IsWrite(flush'[f], World) /\ flush'[f].at = "write"
            /\ flush'[f].key \in Nat /\ flush'[f].key <= storage'.keys
  <2>1. CASE ~ flush[f].live \/ DOMAIN l.pending = {}
    <3>1. flush' = [flush EXCEPT ![f] = NoWrite] /\ UNCHANGED storage
      BY <2>1 DEF Prepare
    <3>2. flush'[f].at = "none" /\ flush'[f].live = FALSE /\ \A g \in Frame \ {f} : flush'[g] = flush[g]
      BY <3>1, InvIs DEF IsShape, NoWrite
    <3>3. storage.keys \in Nat /\ storage.keys <= storage.keys
      BY InvIs
    <3> QED BY <3>1, <3>2, <3>3
  <2>2. CASE ~ (~ flush[f].live \/ DOMAIN l.pending = {})
    <3>1. PICK write \in Composed(l) : /\ flush' = [flush EXCEPT ![f] = write]
                                       /\ storage' = [storage EXCEPT !.keys = Larger(@, write.key)]
      BY <2>2 DEF Prepare
    <3>2. IsLedger(l, World)
      BY <2>2, InvIs DEF FlushIsTrue
    <3>3. IsWrite(write, World) /\ write.at = "write" /\ write.key \in Nat
      BY <2>2, <3>2, InvIs, ComposedIs
    <3>4. flush'[f] = write /\ \A g \in Frame \ {f} : flush'[g] = flush[g]
      BY <3>1, InvIs DEF IsShape
    <3>5. /\ storage'.chunks = storage.chunks /\ storage'.clearedAt = storage.clearedAt
          /\ storage'.keys = Larger(storage.keys, write.key)
      BY <3>1, InvIs DEF IsShape
    <3>6. storage'.keys \in Nat /\ storage.keys <= storage'.keys /\ write.key <= storage'.keys
      BY <3>3, <3>5, InvIs DEF Larger
    <3> QED BY <2>2, <3>3, <3>4, <3>5, <3>6
  <2> QED BY <2>1, <2>2
<1>3. Grows(World, World') /\ \A n \in Nat : ReplyRow(n) \in trail'.unsaid \ trail.unsaid => n <= before
  <2>1. storage'.clearedAt \in Nat /\ storage.clearedAt <= storage'.clearedAt
    BY <1>2, InvIs
  <2> QED BY <2>1, InvIs, WorldStays
<1>4. LedgerIsTrue(f)'
  BY <1>1, <1>3, LedgerGrows DEF LedgerIsTrue
<1>5. FrameIsTrue(f)'
  BY <1>1, <1>3, InvIs, FrameStays
<1>6. FlushIsTrue(f)'
  <2>1. CASE flush'[f].at = "none" /\ flush'[f].live = FALSE
    BY <2>1 DEF FlushIsTrue
  <2>2. CASE /\ flush[f].live /\ DOMAIN l.pending # {}
             /\ IsWrite(flush'[f], World) /\ flush'[f].at = "write"
             /\ flush'[f].key \in Nat /\ flush'[f].key <= storage'.keys
    <3>1. l.on /\ IsLedger(l, World)
      BY <2>2, InvIs DEF FlushIsTrue
    <3>2. l.cursor # None
      BY <2>2, <3>1 DEF IsLedger, Unread
    <3>3. IsWrite(flush'[f], World')
      BY <1>3, <2>2, WriteGrows
    <3> QED BY <1>1, <2>2, <3>1, <3>2, <3>3 DEF FlushIsTrue
  <2> QED BY <1>2, <2>1, <2>2
<1>7. StorageIsTrue'
  <2>1. DOMAIN storage'.chunks \subseteq 0 .. storage'.keys
    <3>1. DOMAIN storage.chunks \subseteq 0 .. storage.keys /\ storage.keys \in Nat
      BY InvIs DEF StorageIsTrue
    <3> QED BY <1>2, <3>1
  <2>2. \A k \in DOMAIN storage'.chunks : IsChunk(storage'.chunks[k], World')
    BY <1>2, <1>3, InvIs, ChunkGrows DEF StorageIsTrue
  <2> QED BY <1>2, <2>1, <2>2 DEF StorageIsTrue
<1>8. storage'.clearedAt <= now
  BY <1>2, InvIs
<1> QED BY <1>1, <1>2, <1>3, <1>4, <1>5, <1>6, <1>7, <1>8, Remains

LEMMA RefreshKeeps ==
    ASSUME RecordingInv, NEW f \in Frame, Refresh(f)
    PROVE  HistoryIsTrue'
<1> DEFINE l == Refreshed(ledger[f])
<1>1. IsRecord(ledger[f]) /\ (ledger[f].on => IsLedger(ledger[f], World)) /\ IsWorld(World)
  BY InvIs DEF LedgerIsTrue
<1>2. IsRecord(l) /\ l.on = ledger[f].on /\ l.cursor = ledger[f].cursor
  BY <1>1, RefreshedIs
<1>3. l.on => IsLedger(l, World)
  BY <1>1, <1>2, RefreshedKeeps
<1>4. CASE Prepare(f, l)
  <2>1. UNCHANGED <<service, frame, trail>>
    BY DEF Refresh
  <2> HIDE DEF l
  <2> QED BY <1>2, <1>3, <1>4, <2>1, PrepareKeeps
<1>5. CASE /\ ledger' = [ledger EXCEPT ![f] = l]
           /\ flush' = [flush EXCEPT ![f].at = "verify"]
           /\ UNCHANGED storage
  <2> HIDE DEF l
  <2>1. UNCHANGED <<service, frame, trail, storage>>
    BY <1>5 DEF Refresh
  <2>2. /\ \A g \in Frame \ {f} : ledger'[g] = ledger[g] /\ flush'[g] = flush[g]
        /\ ledger'[f] = l /\ flush'[f].at = "verify" /\ flush'[f].live = flush[f].live
    BY <1>5, InvIs DEF IsShape
  <2>3. Grows(World, World') /\ \A n \in Nat : ReplyRow(n) \in trail'.unsaid \ trail.unsaid => n <= before
    <3>1. storage'.clearedAt \in Nat /\ storage.clearedAt <= storage'.clearedAt
      BY <2>1, InvIs
    <3> QED BY <2>1, <3>1, InvIs, WorldStays
  <2>4. LedgerIsTrue(f)'
    BY <1>2, <1>3, <2>2, <2>3, LedgerGrows DEF LedgerIsTrue
  <2>5. FrameIsTrue(f)'
    BY <1>2, <2>1, <2>2, <2>3, InvIs, FrameStays
  <2>6. FlushIsTrue(f)'
    BY <1>2, <2>2, InvIs DEF FlushIsTrue
  <2>7. StorageIsTrue' /\ storage'.clearedAt <= now /\ storage.keys <= storage'.keys
    BY <2>1, <2>3, InvIs, StorageStays
  <2> QED BY <2>1, <2>2, <2>3, <2>4, <2>5, <2>6, <2>7, Remains
<1> QED BY <1>4, <1>5 DEF Refresh

LEMMA VerifyKeeps ==
    ASSUME RecordingInv, NEW f \in Frame, Verify(f)
    PROVE  HistoryIsTrue'
<1> DEFINE l == IF ledger[f].open = None THEN ledger[f] ELSE Verified(ledger[f])
<1>1. IsRecord(ledger[f]) /\ (ledger[f].on => IsLedger(ledger[f], World)) /\ IsWorld(World) /\ StorageIsTrue
  BY InvIs DEF LedgerIsTrue
<1>2. IsRecord(l) /\ l.on = ledger[f].on
  BY <1>1, VerifiedIs
<1>3. l.on => IsLedger(l, World)
  BY <1>1, <1>2, VerifiedKeeps
<1>4. Prepare(f, l) /\ UNCHANGED <<service, frame, trail>>
  BY DEF Verify
<1> HIDE DEF l
<1> QED BY <1>2, <1>3, <1>4, PrepareKeeps

\* What was known stays known.
LEMMA KnownGrows ==
    ASSUME RecordingInv, UNCHANGED service, storage'.clearedAt = storage.clearedAt,
           trail.written \subseteq trail'.written, trail.declined \subseteq trail'.declined,
           trail.skipped \subseteq trail'.skipped, trail.cut \subseteq trail'.cut,
           trail.unsaid \subseteq trail'.unsaid
    PROVE  /\ known \subseteq known'
           /\ \A n \in 1 .. made : \A row \in trail'.written \cup trail'.cut : Tells(row, n) => n \in known'
           /\ \A n \in 1 .. made : ReplyRow(n) \in trail'.unsaid => n \in known'
<1>1. made' = made
  BY DEF made
<1>2. ASSUME NEW n \in 1 .. made, Accounted(n) PROVE Accounted(n)'
  BY <1>2 DEF Accounted
<1>3. ASSUME NEW n \in 1 .. made, NEW row \in trail'.written \cup trail'.cut, Tells(row, n) PROVE n \in known'
  BY <1>1, <1>3 DEF known, Accounted, Tells
<1> QED BY <1>1, <1>2, <1>3 DEF known

LEMMA StoreKeeps ==
    ASSUME RecordingInv, NEW f \in Frame, Store(f)
    PROVE  HistoryIsTrue'
<1> DEFINE w == flush[f]
           chunk == [rows |-> w.rows, cursor |-> w.cursor]
<1>1. /\ storage'.chunks = [k \in DOMAIN storage.chunks \cup {w.key} |-> IF k = w.key THEN chunk ELSE storage.chunks[k]]
      /\ storage'.keys = storage.keys /\ storage'.clearedAt = storage.clearedAt
      /\ UNCHANGED <<service, frame, ledger>>
  BY InvIs DEF Store, IsShape
<1>2. /\ trail'.written = trail.written \cup w.rows /\ trail'.unsaid = trail.unsaid \cup Unsaid(w.cursor)
      /\ trail'.declined = trail.declined /\ trail'.skipped = trail.skipped /\ trail'.cut = trail.cut
  BY InvIs DEF Store, IsShape
<1>3. /\ \A g \in Frame \ {f} : flush'[g] = flush[g]
      /\ flush'[f].at = "stored" /\ flush'[f].rows = w.rows /\ flush'[f].key = w.key /\ flush'[f].live = w.live
  BY InvIs DEF Store, IsShape
<1>4. /\ w.at = "write" /\ IsWrite(w, World) /\ w.key \in Nat /\ w.key <= storage.keys
      /\ w.live => ledger[f].cursor # None /\ ledger[f].on
  BY InvIs DEF Store, FlushIsTrue
<1>5. chunk.rows = w.rows /\ chunk.cursor = w.cursor
  OBVIOUS
<1>6. /\ known \subseteq known'
      /\ \A n \in 1 .. made : \A row \in w.rows : Tells(row, n) => n \in known'
      /\ \A n \in 1 .. made : ReplyRow(n) \in Unsaid(w.cursor) => n \in known'
  BY <1>1, <1>2, KnownGrows
<1> HIDE DEF w, chunk
<1>7. /\ World'.made = made /\ World.made = made /\ World'.known = known' /\ World.known = known
      /\ World'.written = trail'.written /\ World'.starts = service.starts /\ World.starts = service.starts
      /\ made' = made
  BY <1>1 DEF World, made
<1>8. ASSUME NEW n \in 1 .. made, n \in World.known \/ ToldOf(w.rows, n) PROVE n \in known'
  BY <1>6, <1>7, <1>8 DEF ToldOf
<1>9. ASSUME NEW row \in w.rows
      PROVE  IsRow(row, World') /\ \A n \in 1 .. made' : 2 * n < row.from \/ Tells(row, n) => n \in known'
  <2>1. IsRow(row, World')
    BY <1>4, <1>7 DEF IsWrite, IsRow
  <2>2. ASSUME NEW n \in 1 .. made, 2 * n < row.from PROVE n \in known'
    BY <1>4, <1>7, <1>8, <2>2 DEF IsWrite
  <2> QED BY <1>6, <1>7, <2>1, <2>2
<1>10. Grows(World, World')
  <2>1. storage'.clearedAt \in Nat /\ storage.clearedAt <= storage'.clearedAt
    BY <1>1, InvIs
  <2>2. \A row \in trail'.written \ trail.written :
              /\ IsRow(row, World')
              /\ \A n \in 1 .. made' : 2 * n < row.from \/ Tells(row, n) => n \in known'
    BY <1>2, <1>9
  <2> QED BY <1>1, <1>2, <2>1, <2>2, InvIs, WorldGrowsHere
<1>11. IsCursor(w.cursor, World)
  BY <1>4 DEF IsWrite
<1>12. w.cursor.instance \in 1 .. Len(service.starts) /\ w.cursor.seq \in Nat /\ w.cursor.at \in Nat
  BY <1>7, <1>11 DEF IsCursor
<1>13. service.starts[w.cursor.instance] \in Nat /\ service.starts[w.cursor.instance] <= before
  <2>1. /\ service.starts \in Seq(Nat)
        /\ \A i \in 1 .. Len(service.starts) : service.starts[i] <= service.starts[Len(service.starts)]
    BY <1>7, InvIs DEF IsWorld
  <2>2. before = service.starts[Len(service.starts)]
    BY DEF before, instance
  <2> QED BY <1>12, <2>1, <2>2
<1>14. ASSUME NEW n \in Nat, ReplyRow(n) \in trail'.unsaid \ trail.unsaid PROVE n <= before
  <2>1. ReplyRow(n) \in Unsaid(w.cursor)
    BY <1>2, <1>14
  <2>2. PICK m \in 1 .. service.starts[w.cursor.instance] : ReplyRow(n) = ReplyRow(m)
    BY <2>1 DEF Unsaid
  <2>3. n = m
    BY <1>13, <2>2 DEF ReplyRow
  <2> QED BY <1>13, <2>2, <2>3, InvIs
<1>15. IsChunk(chunk, World')
  <2>1. IsCursor(w.cursor, World')
    BY <1>10, <1>11, CursorGrows
  <2>2. w.rows \subseteq World'.written
    BY <1>2, <1>7
  <2>3. ASSUME NEW n \in 1 .. made, 2 * n <= w.cursor.at \/ Reaches(w.cursor, n, World) PROVE n \in known'
    <3>1. CASE Passes(w.cursor, n, World)
      BY <1>4, <1>7, <1>8, <3>1 DEF IsWrite
    <3>2. CASE ~ Passes(w.cursor, n, World)
      <4>1. ~ (2 * n <= w.cursor.at) /\ w.cursor.seq = 0 /\ Reaches(w.cursor, n, World)
        BY <2>3, <3>2 DEF Passes
      <4>2. n <= service.starts[w.cursor.instance] + w.cursor.seq
        BY <1>7, <4>1 DEF Reaches
      <4>3. n \in 1 .. service.starts[w.cursor.instance] /\ 2 * n > w.cursor.at
        BY <1>12, <1>13, <4>1, <4>2
      <4>4. ReplyRow(n) \in Unsaid(w.cursor)
        BY <4>1, <4>3 DEF Unsaid
      <4> QED BY <1>6, <4>4
    <3> QED BY <3>1, <3>2
  <2>4. \A n : Reaches(w.cursor, n, World') <=> Reaches(w.cursor, n, World)
    BY <1>10, <1>11, CursorGrows
  <2> QED BY <1>5, <1>7, <2>1, <2>2, <2>3, <2>4 DEF IsChunk
<1>16. StorageIsTrue'
  <2>1. /\ DOMAIN storage.chunks \subseteq 0 .. storage.keys /\ storage.keys \in Nat
        /\ \A k \in DOMAIN storage.chunks : IsChunk(storage.chunks[k], World')
    BY <1>10, InvIs, ChunkGrows DEF StorageIsTrue
  <2>2. DOMAIN storage'.chunks \subseteq 0 .. storage'.keys
    BY <1>1, <1>4, <2>1
  <2>3. ASSUME NEW k \in DOMAIN storage'.chunks PROVE IsChunk(storage'.chunks[k], World')
    <3>1. CASE k = w.key
      BY <1>1, <1>15, <3>1
    <3>2. CASE k # w.key
      BY <1>1, <2>1, <3>2
    <3> QED BY <3>1, <3>2
  <2> QED BY <1>1, <2>1, <2>2, <2>3 DEF StorageIsTrue
<1>17. FrameIsTrue(f)' /\ LedgerIsTrue(f)'
  BY <1>1, <1>10, InvIs, FrameStays, LedgerStays
<1>18. FlushIsTrue(f)'
  BY <1>1, <1>2, <1>3, <1>4 DEF FlushIsTrue
<1>19. storage'.clearedAt <= now /\ storage.keys <= storage'.keys
  BY <1>1, InvIs
<1> QED BY <1>1, <1>3, <1>10, <1>14, <1>16, <1>17, <1>18, <1>19, Remains

LEMMA AcknowledgeKeeps ==
    ASSUME RecordingInv, NEW f \in Frame, Acknowledge(f)
    PROVE  HistoryIsTrue'
<1> DEFINE w == flush[f]
           p == ledger[f].pending
           gone == First(p, w.take)
           l == [ledger[f] EXCEPT !.chunks = @ \cup {w.key},
                                  !.open = [key |-> w.key, rows |-> w.rows, verified |-> TRUE],
                                  !.pending = Without(@, First(@, w.take))]
           cut == {p[i].row : i \in gone} \ w.rows
<1>1. UNCHANGED <<service, frame>> /\ w.at = "stored"
  BY DEF Acknowledge
<1>2. \A g \in Frame \ {f} : flush'[g] = flush[g]
  BY InvIs DEF Acknowledge, IsShape
<1>3. flush'[f].at = "none" /\ flush'[f].live = FALSE
  BY InvIs DEF Acknowledge, NoWrite, IsShape
<1>4. FlushIsTrue(f)'
  BY <1>3 DEF FlushIsTrue
<1>5. IsRecord(ledger[f])
  BY InvIs DEF LedgerIsTrue
<1>6. CASE ~ flush[f].live
  <2>1. UNCHANGED <<ledger, storage, trail>>
    BY <1>6 DEF Acknowledge
  <2>2. storage'.clearedAt \in Nat /\ storage.clearedAt <= storage'.clearedAt
    BY <2>1, InvIs
  <2>3. Grows(World, World') /\ \A n \in Nat : ReplyRow(n) \in trail'.unsaid \ trail.unsaid => n <= before
    BY <1>1, <2>1, <2>2, InvIs, WorldStays
  <2>4. FrameIsTrue(f)' /\ LedgerIsTrue(f)'
    BY <1>1, <2>1, <2>3, InvIs, FrameStays, LedgerStays
  <2>5. StorageIsTrue' /\ storage'.clearedAt <= now /\ storage.keys <= storage'.keys
    BY <2>1, <2>3, InvIs, StorageStays
  <2> QED BY <1>1, <1>2, <1>4, <2>1, <2>3, <2>4, <2>5, Remains
<1>7. CASE flush[f].live
  <2> DEFINE evicted == Evicted(l)
             open == [key |-> w.key, rows |-> w.rows, verified |-> TRUE]
             m == [l EXCEPT !.chunks = @ \ evicted]
  <2>1. /\ ledger' = [ledger EXCEPT ![f] = m]
        /\ trail' = [trail EXCEPT !.cut = @ \cup cut]
        /\ storage' = [storage EXCEPT !.chunks = [k \in DOMAIN @ \ evicted |-> @[k]]]
    BY <1>7 DEF Acknowledge
  <2>2. l = [ledger[f] EXCEPT !.chunks = ledger[f].chunks \cup {w.key}, !.open = open, !.pending = Without(p, gone)]
    BY <1>5 DEF IsRecord
  <2>3. /\ open.key = w.key /\ open.rows = w.rows
        /\ open = [key |-> open.key, rows |-> open.rows, verified |-> open.verified]
    OBVIOUS
  <2>4. \A i \in gone : p[i].row \in w.rows \cup cut
    OBVIOUS
  <2>5. ledger[f].on /\ w.rows \subseteq trail.written /\ w.key \in Nat /\ ledger[f].cursor # None
    BY <1>1, <1>7, InvIs DEF FlushIsTrue
  <2> HIDE DEF gone, cut, l, open, evicted
  <2>6. /\ IsRecord(l) /\ l.on = ledger[f].on /\ l.cursor = ledger[f].cursor /\ l.resync = ledger[f].resync
        /\ l.seen = ledger[f].seen /\ l.clearedAt = ledger[f].clearedAt /\ l.open = open
        /\ l.pending = Without(p, gone)
    BY <1>5, <2>2 DEF IsRecord
  <2>7. /\ IsRecord(m) /\ m.on = l.on /\ m.cursor = l.cursor /\ m.resync = l.resync
        /\ m.seen = l.seen /\ m.clearedAt = l.clearedAt /\ m.open = l.open /\ m.pending = l.pending
    BY <2>6 DEF IsRecord
  <2> HIDE DEF m
  <2>8. ledger'[f] = m /\ \A g \in Frame \ {f} : ledger'[g] = ledger[g]
    BY <2>1, InvIs DEF IsShape
  <2>9. /\ trail'.written = trail.written /\ trail'.declined = trail.declined /\ trail'.skipped = trail.skipped
        /\ trail'.cut = trail.cut \cup cut /\ trail'.unsaid = trail.unsaid
    BY <2>1, InvIs DEF IsShape
  <2>10. /\ storage'.chunks = [k \in DOMAIN storage.chunks \ evicted |-> storage.chunks[k]]
         /\ storage'.keys = storage.keys /\ storage'.clearedAt = storage.clearedAt
    BY <2>1, InvIs DEF IsShape
  <2>11. Grows(World, World') /\ \A n \in Nat : ReplyRow(n) \in trail'.unsaid \ trail.unsaid => n <= before
    <3>1. storage'.clearedAt \in Nat /\ storage.clearedAt <= storage'.clearedAt
      BY <2>10, InvIs
    <3>2. trail.cut \subseteq trail'.cut
      BY <2>9
    <3> QED BY <1>1, <2>9, <3>1, <3>2, InvIs, WorldStays
  <2>12. World'.made = made /\ World'.known = known' /\ World'.written = trail.written
    BY <1>1, <2>9 DEF World, made
  <2>13. ASSUME NEW j \in DOMAIN p \cap gone, NEW n \in 1 .. World'.made, Tells(p[j].row, n)
         PROVE  n \in World'.known
    <3>1. p[j].row \in trail'.written \cup trail'.cut
      BY <2>4, <2>5, <2>9
    <3>2. \A k \in 1 .. made : \A row \in trail'.written \cup trail'.cut : Tells(row, k) => k \in known'
      BY <1>1, <2>9, <2>10, KnownGrows
    <3> QED BY <2>12, <2>13, <3>1, <3>2
  <2>14. IsLedger(ledger[f], World')
    BY <2>5, <2>11, InvIs, LedgerGrows DEF LedgerIsTrue
  <2>15. IsWorld(World')
    BY <2>11 DEF Grows
  <2>16. OpenIsWritten(m, World')
    BY <2>3, <2>5, <2>6, <2>7, <2>12 DEF OpenIsWritten
  <2>17. m.cursor # None /\ m.clearedAt \in Nat /\ m.clearedAt <= World'.clearedAt
    BY <2>5, <2>6, <2>7, <2>14 DEF IsLedger
  <2>18. IsLedger(m, World')
    BY <2>6, <2>7, <2>13, <2>14, <2>15, <2>16, <2>17, LedgerShrinks
  <2>19. LedgerIsTrue(f)'
    BY <2>7, <2>8, <2>18 DEF LedgerIsTrue
  <2>20. FrameIsTrue(f)'
    BY <1>1, <2>6, <2>7, <2>8, <2>11, InvIs, FrameStays
  <2>21. StorageIsTrue'
    <3>1. /\ DOMAIN storage.chunks \subseteq 0 .. storage.keys /\ storage.keys \in Nat
          /\ \A k \in DOMAIN storage.chunks : IsChunk(storage.chunks[k], World')
      BY <2>11, InvIs, ChunkGrows DEF StorageIsTrue
    <3> QED BY <2>10, <3>1 DEF StorageIsTrue
  <2>22. storage'.clearedAt <= now /\ storage.keys <= storage'.keys
    BY <2>10, InvIs
  <2> QED BY <1>1, <1>2, <1>4, <2>8, <2>11, <2>19, <2>20, <2>21, <2>22, Remains
<1> QED BY <1>6, <1>7

----------------------------------------------------------------------------
(* The theorems.                                                           *)

LEMMA InitHolds ==
    ASSUME Init
    PROVE  RecordingInv
<1>1. /\ service.starts = <<0>> /\ service.made = 0 /\ DOMAIN service = {"starts", "made"}
      /\ storage = [chunks |-> Nothing, clearedAt |-> 0, paused |-> FALSE,
                    keys |-> 0, clearing |-> None, cleared |-> FALSE]
      /\ trail = [written |-> {}, declined |-> {}, skipped |-> {}, unsaid |-> {}, cut |-> {}, paused |-> {}, usurped |-> {},
                  upsets |-> 0]
      /\ frame = [f \in Frame |-> [cursor |-> None, instance |-> 0, poll |-> None, leading |-> FALSE,
                                   epoch |-> 0, starting |-> FALSE, held |-> None]]
      /\ ledger = [f \in Frame |-> Empty] /\ flush = [f \in Frame |-> NoWrite]
  BY DEF Init
<1>2. bound.frames \subseteq Frame
  <2>1. bound \in [frames : SUBSET Frame, made : Nat, turns : Nat, keys : Nat, pending : Nat, upsets : Nat]
    BY RecordingAssumption DEF Init
  <2> QED BY <2>1
<1>3. IsShape
  BY <1>1, <1>2 DEF IsShape, NoWrite
<1>4. instance = 1 /\ made = 0 /\ before = 0 /\ now = 1
  BY <1>1 DEF instance, made, before, now
<1>5. known = {}
  BY <1>4 DEF known
<1>6. /\ World.starts = <<0>> /\ World.made = 0 /\ World.known = {} /\ World.written = {} /\ World.clearedAt = 0
  BY <1>1, <1>4, <1>5 DEF World
<1>7. IsWorld(World)
  <2>1. /\ <<0>> \in Seq(Nat) /\ Len(<<0>>) = 1 /\ <<0>>[1] = 0
    OBVIOUS
  <2> QED BY <1>6, <2>1 DEF IsWorld
<1>8. StorageIsTrue
  <2>1. storage.keys = 0 /\ storage.chunks = Nothing /\ DOMAIN Nothing = {}
    BY <1>1 DEF Nothing
  <2> QED BY <2>1 DEF StorageIsTrue
<1>9. ASSUME NEW f \in Frame PROVE FrameIsTrue(f) /\ LedgerIsTrue(f) /\ FlushIsTrue(f)
  <2>1. frame[f].cursor = None /\ frame[f].poll = None /\ frame[f].held = None /\ frame[f].starting = FALSE
    BY <1>1
  <2>2. ledger[f] = Empty /\ IsRecord(Empty) /\ Empty.on = FALSE
    BY <1>1 DEF IsRecord, Empty
  <2>3. flush[f].at = "none" /\ flush[f].live = FALSE
    BY <1>1 DEF NoWrite
  <2> QED BY <2>1, <2>2, <2>3 DEF FrameIsTrue, LedgerIsTrue, FlushIsTrue
<1>10. (\A n \in Nat : ReplyRow(n) \in trail.unsaid => n <= before) /\ storage.clearedAt <= now
  BY <1>1, <1>4
<1> QED BY <1>3, <1>7, <1>8, <1>9, <1>10 DEF RecordingInv, HistoryIsTrue

LEMMA StutterKeeps ==
    ASSUME RecordingInv, UNCHANGED vars
    PROVE  RecordingInv'
<1>1. UNCHANGED <<bound, service, storage, frame, ledger, flush, trail>>
  BY DEF vars
<1>2. IsShape'
  BY <1>1, InvIs DEF IsShape
<1>3. /\ storage.clearedAt \in Nat /\ storage.clearedAt <= storage.clearedAt /\ storage.clearedAt <= now
      /\ now' = now /\ before' = before
  BY <1>1, InvIs DEF now, before, instance, made
<1>4. Grows(World, World')
  BY <1>1, <1>3, InvIs, WorldStays
<1>5. HistoryIsTrue'
  BY <1>1, <1>3, <1>4, InvIs, AllRemains
<1> QED BY <1>2, <1>5 DEF RecordingInv

LEMMA NextKeeps ==
    ASSUME RecordingInv, [Next]_vars
    PROVE  RecordingInv'
<1>1. CASE UNCHANGED vars
  BY <1>1, StutterKeeps
<1>2. CASE Next
  <2>1. IsShape /\ bound.frames \subseteq Frame
    BY InvIs DEF IsShape
  <2>2. IsShape'
    BY <1>2, <2>1, ShapeStays
  <2>3. HistoryIsTrue'
    <3>1. CASE Complete
      BY <3>1, CompleteKeeps
    <3>2. CASE Restart
      BY <3>2, RestartKeeps
    <3>3. ASSUME NEW f \in Frame, Poll(f) \/ Receive(f) \/ Load(f) \/ LoadFails(f) PROVE HistoryIsTrue'
      BY <3>3, PollKeeps, ReceiveKeeps, LoadKeeps, LoadFailsKeeps
    <3>4. ASSUME NEW f \in Frame, Write(f) PROVE HistoryIsTrue'
      BY <3>4, FlushKeeps, RefreshKeeps, VerifyKeeps, StoreKeeps, RejectKeeps, AcknowledgeKeeps DEF Write
    <3>5. ASSUME NEW f \in Frame, SetPaused(f) \/ ClearStart(f) \/ ClearChunks(f) \/ ClearEnd(f) PROVE HistoryIsTrue'
      BY <3>5, SetPausedKeeps, ClearStartKeeps, ClearChunksKeeps, ClearEndKeeps
    <3> QED BY <1>2, <2>1, <3>1, <3>2, <3>3, <3>4, <3>5 DEF Next
  <2> QED BY <2>2, <2>3 DEF RecordingInv
<1> QED BY <1>1, <1>2

\* The ledgers, what they have in flight and storage agree with the trail throughout:
\* each row and each cursor stands behind all that tells of the replies before it.
THEOREM RecordingIsTrue == Spec => []RecordingInv
<1>1. Init => RecordingInv
  BY InitHolds
<1>2. RecordingInv /\ [Next]_vars => RecordingInv'
  BY NextKeeps
<1> QED BY <1>1, <1>2, PTL DEF Spec

\* A reply up to which a chunk in storage says the ring was read is never read again
\* (Ledger #load, append), so it is accounted for: whichever frames led meanwhile, and
\* wherever a poll or a flush of theirs was cut short.
THEOREM AcknowledgedHolds == Spec => []AcknowledgedIsRecorded
<1>1. RecordingInv => AcknowledgedIsRecorded
  <2> SUFFICES ASSUME RecordingInv, NEW k \in DOMAIN storage.chunks, NEW n \in before + 1 .. made,
                      storage.chunks[k].cursor.instance = instance,
                      n - before <= storage.chunks[k].cursor.seq
               PROVE  Accounted(n)
    BY DEF AcknowledgedIsRecorded
  <2> DEFINE c == storage.chunks[k].cursor
  <2>1. made \in Nat /\ before \in Nat /\ before <= made /\ World.starts[instance] = before /\ World.made = made
    BY InvIs
  <2>2. n \in 1 .. made /\ n > before
    BY <2>1
  <2>3. IsChunk(storage.chunks[k], World)
    BY InvIs DEF StorageIsTrue
  <2>4. c.seq \in Nat
    BY <2>3 DEF IsChunk, IsCursor
  <2>5. n <= World.starts[c.instance] + c.seq
    <3>1. n <= before + c.seq
      BY <2>1, <2>2, <2>4
    <3> QED BY <2>1, <3>1
  <2>6. n \in World.known
    BY <2>1, <2>2, <2>3, <2>5 DEF IsChunk, Reaches
  <2>7. Accounted(n) \/ ReplyRow(n) \in trail.unsaid
    BY <2>6 DEF World, known
  <2>8. ReplyRow(n) \notin trail.unsaid
    BY <2>1, <2>2, InvIs
  <2> QED BY <2>7, <2>8
<1> QED BY <1>1, RecordingIsTrue, PTL

\* Between two replies of history nothing is missing that no gap tells of (Ledger
\* append, #write), but for what a write in the middle of a resync took for read.
THEOREM NothingMissingHolds == Spec => []NothingMissingBetween
<1>1. RecordingInv => NothingMissingBetween
  <2> SUFFICES ASSUME RecordingInv, NEW n \in 1 .. made, Between(n), ReplyRow(n) \notin trail.unsaid
               PROVE  Accounted(n)
    BY DEF NothingMissingBetween
  <2>1. PICK row \in Stored : 2 * n < row.from
    BY DEF Between
  <2>2. PICK k \in DOMAIN storage.chunks : row \in storage.chunks[k].rows
    BY DEF Stored
  <2>3. row \in World.written
    BY <2>2, InvIs DEF StorageIsTrue, IsChunk
  <2>4. n \in World.known
    BY <2>1, <2>3, InvIs DEF IsWorld
  <2> QED BY <2>4 DEF World, known
<1> QED BY <1>1, RecordingIsTrue, PTL
=============================================================================
