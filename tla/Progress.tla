------------------------------- MODULE Progress -------------------------------
(***************************************************************************)
(* Prompt progress on its way from OpenCode to the Splash adapter.         *)
(*                                                                         *)
(* bridge/opencode/stream.js reads the counters of a reply's stream,       *)
(* bridge/opencode/store.js writes those of its process to a file of its   *)
(* own, and service/adapters/splash-progress.ts reads the files of all     *)
(* processes, one after the other, and shows the prompt of the only        *)
(* request there is.  Nobody locks anything, and writers crash.            *)
(*                                                                         *)
(* A tick is longer than the writes are apart.  Hashes, modes, owners and  *)
(* sizes of files are left out: a file that is refused is one more way of  *)
(* seeing nothing.  The server and its streams are external.               *)
(***************************************************************************)
EXTENDS Integers, FiniteSets, SequencesExt

CONSTANTS
    Writer,             \* processes of OpenCode
    Request, Matching, Primary,     \* the latter are for the endpoint and model observed; and from a chat
    Total,              \* tokens of a prompt
    None,
    TTL, Continuity,    \* in ticks
    MaxWriters, MaxEntries,         \* PROGRESS_MAX_WRITERS, MAX_ENTRIES
    MaxNow, MaxCounters, MaxReads,
    MaxFaults           \* bounds; faults are failed writes, crashes, unloading and the lack of a scope

\* What a store says of a prompt, and what it writes to its file.
Point == [processed : Nat, at : Nat, until : Nat]
Body == [updated : Nat, entries : UNION {[S -> Point] : S \in SUBSET Request}]

ProgressAssumption ==
    /\ Primary \subseteq Matching /\ Matching \subseteq Request
    /\ {TTL, Continuity, MaxWriters, MaxEntries} \subseteq Nat \ {0}
    /\ IsFiniteSet(Request)
    /\ None \notin Writer /\ None \notin Body /\ \A S \in SUBSET Writer : S # None

VARIABLES
    now,
    streams,    \* request -> the reply's stream
    stores,     \* writer -> its store
    files,      \* writer -> its file, or None
    reader,     \* SplashPromptProgress
    reads,      \* its flights, in the order of their sequence
    best,       \* history: request -> the progress last shown, and when it was observed
    counters, faults    \* bounds

progressVars == <<now, streams, stores, files, reader, reads, best, counters, faults>>

newStore == [entries |-> [r \in {} |-> None], writing |-> "no", body |-> None, dirty |-> FALSE, timer |-> FALSE,
             closed |-> FALSE, alive |-> TRUE, last |-> -1,
             failed |-> FALSE]      \* history: its last write failed

Kept(f, S) == [r \in DOMAIN f \cap S |-> f[r]]
Put(f, r, x) == [q \in DOMAIN f \cup {r} |-> IF q = r THEN x ELSE f[q]]

Pruned(entries) == Kept(entries, {r \in DOMAIN entries : entries[r].until > now})

----------------------------------------------------------------------------
(* The store.  write begins: what it writes it takes later.                *)

Begun(s) ==
    LET entries == Pruned(s.entries)
    IN  [s EXCEPT !.timer = FALSE, !.dirty = FALSE, !.entries = entries,
                  !.writing = IF s.closed \/ entries = <<>> THEN "removing" ELSE "creating"]

\* schedule: at once, or by the timer when this tick's write was made.
Scheduled(s) ==
    LET t == [s EXCEPT !.dirty = TRUE]
    IN  IF s.closed \/ s.timer \/ s.writing # "no" THEN t
        ELSE IF s.last < now THEN Begun(t)
        ELSE [t EXCEPT !.timer = TRUE]

Updated(s, r, processed) ==
    LET entries == Pruned(s.entries)
    IN  IF s.closed \/ (r \notin DOMAIN entries /\ Cardinality(DOMAIN entries) >= MaxEntries)
        THEN [s EXCEPT !.entries = IF s.closed THEN @ ELSE entries]
        ELSE Scheduled([s EXCEPT !.entries = Put(entries, r, [processed |-> processed, at |-> now, until |-> now + TTL])])

Removed(s, r) ==
    IF r \in DOMAIN s.entries THEN Scheduled([s EXCEPT !.entries = Kept(@, Request \ {r})]) ELSE s

\* Mutant: what changed during a write waits for the next change.
EndedQuietly(s) == [s EXCEPT !.writing = "no", !.body = None]

\* A write ends, well or not; what changed meanwhile is scheduled.
Ended(s) ==
    LET t == [s EXCEPT !.writing = "no", !.body = None]
    IN  IF t.dirty /\ ~ t.closed THEN Scheduled(t) ELSE t

Fault(is) == faults' = (IF is THEN faults + 1 ELSE faults) /\ faults' <= MaxFaults

TimerFires(w) ==
    /\ stores[w].alive /\ stores[w].timer /\ stores[w].last < now
    /\ stores' = [stores EXCEPT ![w] = Begun(@)]
    /\ UNCHANGED <<now, streams, files, reader, reads, best, faults, counters>>

\* The directory is there: the entries of this moment go to a temporary file.
Compose(w) ==
    /\ stores[w].alive /\ stores[w].writing = "creating"
    /\ stores' = [stores EXCEPT ![w].writing = "renaming",
                    ![w].body = [updated |-> now, entries |-> stores[w].entries]]
    /\ UNCHANGED <<now, streams, files, reader, reads, best, faults, counters>>

\* rename, or unlink.
WriteEnds(w) ==
    LET s == stores[w]
    IN  /\ s.alive /\ s.writing \in {"renaming", "removing"}
        /\ files' = [files EXCEPT ![w] = s.body]
        /\ stores' = [stores EXCEPT ![w] =
              Ended([s EXCEPT !.failed = FALSE, !.last = IF s.writing = "renaming" THEN now ELSE @])]
        /\ UNCHANGED <<now, streams, reader, reads, best, faults, counters>>

WriteFails(w) ==
    /\ stores[w].alive /\ stores[w].writing # "no" /\ Fault(TRUE)
    /\ stores' = [stores EXCEPT ![w] = Ended([@ EXCEPT !.failed = TRUE])]
    /\ UNCHANGED <<now, streams, files, reader, reads, best, counters>>

\* The reaper looks each second.
Reap(w) ==
    /\ stores[w].alive /\ ~ stores[w].closed /\ Pruned(stores[w].entries) # stores[w].entries
    /\ stores' = [stores EXCEPT ![w] = Scheduled([@ EXCEPT !.entries = Pruned(stores[w].entries)])]
    /\ UNCHANGED <<now, streams, files, reader, reads, best, faults, counters>>

\* close waits for the write under way, and makes another.
Close(w) ==
    /\ stores[w].alive /\ ~ stores[w].closed /\ Fault(TRUE)
    /\ stores' = [stores EXCEPT ![w] = [@ EXCEPT !.closed = TRUE, !.timer = FALSE, !.entries = <<>>, !.dirty = TRUE]]
    /\ UNCHANGED <<now, streams, files, reader, reads, best, counters>>

CloseWrites(w) ==
    /\ stores[w].alive /\ stores[w].closed /\ stores[w].dirty /\ stores[w].writing = "no"
    /\ stores' = [stores EXCEPT ![w] = Begun(@)]
    /\ UNCHANGED <<now, streams, files, reader, reads, best, faults, counters>>

Crash(w) ==
    /\ stores[w].alive /\ Fault(TRUE)
    /\ stores' = [stores EXCEPT ![w] = [newStore EXCEPT !.alive = FALSE]]
    /\ streams' = [r \in Request |-> IF streams[r].writer = w THEN [streams[r] EXCEPT !.stage = "over"] ELSE streams[r]]
    /\ UNCHANGED <<now, files, reader, reads, best, counters>>

----------------------------------------------------------------------------
(* A stream.                                                               *)

Grows(r, processed) == processed \in 1..Total /\ processed > streams[r].processed

\* Counters arrive; those that make no sense end the observation, as output does.
Counters(r, processed) ==
    LET w == streams[r].writer
    IN  /\ streams[r].stage = "open" /\ stores[w].alive
        /\ IF Grows(r, processed)
           THEN /\ streams' = [streams EXCEPT ![r].processed = processed]
                /\ stores' = [stores EXCEPT ![w] = Updated(@, r, processed)]
           ELSE /\ streams' = [streams EXCEPT ![r].stage = "over"]
                /\ stores' = [stores EXCEPT ![w] = Removed(@, r)]
        /\ counters < MaxCounters /\ counters' = counters + 1
        /\ UNCHANGED <<now, files, reader, reads, best, faults>>

Open(r, w) ==
    /\ streams[r].stage = "new" /\ stores[w].alive /\ ~ stores[w].closed
    /\ streams' = [streams EXCEPT ![r] = [stage |-> "open", writer |-> w, processed |-> 0]]
    /\ UNCHANGED <<now, stores, files, reader, reads, best, faults, counters>>

----------------------------------------------------------------------------
(* The reader.                                                             *)

ResetReader(p, at) ==
    [p EXCEPT !.sequence = @ + 1, !.anchor = None, !.lastAt = None,
              !.boundary = IF at > @ THEN at ELSE @]

\* The entries of a file that are alive at the time the read began, or None where
\* the file says something the reader cannot account for; the read then ends with
\* nothing, and as little follows from it as from files that tell of no prompt.
parseProgressFile(w, at) ==
    LET body == files[w]
    IN  IF body = None \/ body.updated > at THEN None
        ELSE {[writer |-> w, request |-> r, processed |-> body.entries[r].processed, at |-> body.entries[r].at] :
                r \in {q \in DOMAIN body.entries : body.entries[q].until > at /\ body.updated + TTL > at}}

\* history: matching requests that were there all the time of a read
Present(at) == {r \in Matching : \E w \in Writer : files[w] # None /\ r \in DOMAIN files[w].entries
                                                     /\ files[w].entries[r].until > at}

\* observe, until it reads; without a scope, or too long after the last, it resets.
Observe(scope) ==
    /\ reader.sequence < MaxReads /\ Fault(~ scope)
    /\ IF ~ scope \/ (reader.lastAt # None /\ (now <= reader.lastAt \/ now - reader.lastAt > Continuity))
       THEN reader' = ResetReader(reader, now) /\ UNCHANGED reads
       ELSE /\ reader' = [reader EXCEPT !.lastAt = now, !.sequence = @ + 1]
            /\ reads' = Append(reads, [sequence |-> reader.sequence + 1, at |-> now, todo |-> None,
                                       entries |-> {}, present |-> Present(now)])
    /\ UNCHANGED <<now, streams, stores, files, best, counters>>

Step(i, read) == reads' = [reads EXCEPT ![i] = [read EXCEPT !.present = read.present \cap Present(read.at)]]

Scan(i) ==
    LET listed == {w \in Writer : files[w] # None}
    IN  /\ reads[i].todo = None
        /\ Step(i, IF Cardinality(listed) > MaxWriters THEN [reads[i] EXCEPT !.todo = {}]
                   ELSE [reads[i] EXCEPT !.todo = listed])
        /\ UNCHANGED <<now, streams, stores, files, reader, best, faults, counters>>

Read(i, w) ==
    LET parsed == parseProgressFile(w, reads[i].at)
    IN  /\ reads[i].todo # None /\ w \in reads[i].todo
        /\ Step(i, IF parsed = None THEN [reads[i] EXCEPT !.todo = {}, !.entries = {}]
                   ELSE [reads[i] EXCEPT !.todo = reads[i].todo \ {w},
                             !.entries = reads[i].entries \cup parsed])
        /\ UNCHANGED <<now, streams, stores, files, reader, best, faults, counters>>

\* What was read counts unless another observation or a reset has come since.
\* Only a prompt that stands alone, began after the last reset and goes on is shown.
Contradicts(e) ==
    /\ reader.anchor # None /\ reader.anchor.request = e.request
    /\ e.writer # reader.anchor.writer \/ e.at < reader.anchor.at \/ e.processed < reader.anchor.processed

\* Mutant: any of them will do.
IsAny(matching) == matching # {}

IsSole(matching) == Cardinality(matching) = 1

ReadEnds(i) ==
    LET read == reads[i]
        matching == {e \in read.entries : e.request \in Matching}
        e == CHOOSE x \in matching : TRUE
    IN  /\ read.todo = {}
        /\ reads' = RemoveAt(reads, i)
        /\ IF read.sequence # reader.sequence THEN UNCHANGED <<reader, best>>
           ELSE IF ~ IsSole(matching) \/ e.request \notin Primary
           THEN reader' = ResetReader(reader, read.at) /\ UNCHANGED best
           ELSE IF e.at <= reader.boundary
           THEN reader' = [reader EXCEPT !.anchor = None] /\ UNCHANGED best
           ELSE IF Contradicts(e)
           THEN reader' = ResetReader(reader, read.at) /\ UNCHANGED best
           ELSE /\ reader' = [reader EXCEPT !.anchor = e]
                /\ best' = [best EXCEPT ![e.request] = [processed |-> e.processed, at |-> e.at,
                                back |-> e.processed < @.processed,
                                alone |-> read.present \subseteq {e.request}]]
        /\ UNCHANGED <<now, streams, stores, files, faults, counters>>

Tick == now < MaxNow /\ now' = now + 1 /\ UNCHANGED <<streams, stores, files, reader, reads, best, faults, counters>>

ProgressInit ==
    /\ now = 0 /\ faults = 0 /\ counters = 0 /\ reads = <<>>
    /\ streams = [r \in Request |-> [stage |-> "new", writer |-> None, processed |-> 0]]
    /\ stores = [w \in Writer |-> newStore]
    /\ files = [w \in Writer |-> None]
    /\ reader = [anchor |-> None, boundary |-> -1, lastAt |-> None, sequence |-> 0]
    /\ best = [r \in Request |-> [processed |-> 0, at |-> -1, back |-> FALSE, alone |-> TRUE]]

ProgressNext ==
    \/ Tick
    \/ \E w \in Writer : \/ TimerFires(w) \/ Compose(w) \/ WriteEnds(w) \/ WriteFails(w) \/ Reap(w)
                         \/ Close(w) \/ CloseWrites(w) \/ Crash(w)
                         \/ \E r \in Request : Open(r, w)
    \/ \E r \in Request, processed \in 0..Total : Counters(r, processed)
    \/ \E scope \in BOOLEAN : Observe(scope)
    \/ \E i \in DOMAIN reads : Scan(i) \/ ReadEnds(i) \/ \E w \in Writer : Read(i, w)

----------------------------------------------------------------------------
\* What is shown of a prompt never goes back, not even across resets, was observed
\* after the last of them, and is of the only request that was in the files all the
\* while they were read.
PromptIsOfOne == \A r \in Request : ~ best[r].back /\ best[r].alone

\* Unless its last write failed, a store at rest has left in its file what its
\* streams last said, and nothing when closed.
FileFollowsStreams ==
    \A w \in Writer :
        LET s == stores[w]
        IN  s.alive /\ s.writing = "no" /\ ~ s.timer /\ ~ s.failed /\ ~ (s.closed /\ s.dirty)
              => IF s.entries = <<>> THEN files[w] = None
                 ELSE files[w] # None /\ files[w].entries = s.entries

\* What streams say reaches the files, and what the reader makes of the files is
\* of one request.
ProgressIsOfOne == PromptIsOfOne /\ FileFollowsStreams
==============================================================================
