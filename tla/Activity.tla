------------------------------ MODULE Activity ------------------------------
(***************************************************************************)
(* service/adapters/lmstudio-activity.ts: what Scope concludes about LM    *)
(* Studio's requests from the lines of `lms log stream`.  ActivityTracker  *)
(* tallies the start and finish lines per model tag, first in, first out,  *)
(* and gives a summary, which names no model, to the only request in       *)
(* flight or to the one that just ended.  StreamActivity owns the child    *)
(* that delivers the lines: it is started only by a touch, backs off when  *)
(* it ends, gives up after silent exits and stops when nobody touches it.  *)
(* LM Studio, its requests and the pipe of each child are the environment: *)
(* lines wait in the pipe, also in that of a child already stopped.        *)
(* A start time is named by the request that started; prompt progress,     *)
(* which only paints the request, the length of the backoff (failures) and *)
(* the text of the lines are left out.                                     *)
(***************************************************************************)
EXTENDS Integers, Sequences, FiniteSets

CONSTANTS
    Request, ModelOf,       \* requests and the model tag of each
    Streams,                \* the requests that announce "Streaming response"
    Port,                   \* internal ports the application listens on
    None,
    PendingLimit,           \* PENDING_LIMIT
    SilentExitLimit,        \* SILENT_EXIT_LIMIT
    MaxStarts,              \* bound: children spawned
    MaxLines,               \* bound: lines written and not yet read
    MaxAges                 \* bound: requests forgotten after ABANDONED_MS

ActivityAssumption == IsFiniteSet(Request) /\ Streams \subseteq Request /\ PendingLimit \in Nat /\ None \notin Nat

VARIABLES
    stage,       \* how far LM Studio is with each request; "broken" failed as it streamed
    app,         \* the port it listens on
    pipes,       \* the lines each child has written and nobody has read yet
    child,       \* this.child: the number of the current child, or None
    port,        \* this.port, or None before the first touch
    healthy, silentExits, retry,
    entries,     \* tracker.entries: per model tag, its requests in flight
    recent,      \* tracker.recent while it is younger than RECENT_MS
    pending,     \* tracker.pending
    ages,
    open, blind  \* history: the requests in flight as this child's lines tell
                 \* it, and whether lines of one of them were missed

activityVars == <<stage, app, pipes, child, port, healthy, silentExits,
                  retry, entries, recent, pending, ages, open, blind>>
world == <<stage, app>>
stream == <<child, port, healthy, silentExits, retry>>
tracker == <<entries, recent, pending, ages, open, blind>>

Models == {ModelOf[r] : r \in Request}
Running == {r \in Request : stage[r] \in {"started", "streaming", "summarised"}}
Idle == [starts |-> <<>>, streamed |-> 0, overlapped |-> FALSE]

ActivityInit ==
    /\ stage = [r \in Request |-> "idle"]
    /\ app \in Port
    /\ pipes = <<>>
    /\ child = None /\ port = None
    /\ healthy = FALSE /\ silentExits = 0 /\ retry = FALSE
    /\ entries = [m \in Models |-> Idle]
    /\ recent = None /\ pending = <<>> /\ ages = 0
    /\ open = {} /\ blind = FALSE

-----------------------------------------------------------------------------
(* LM Studio: each request writes its lines in order, the requests interleave. *)

Write(kind, r) ==
    pipes' = IF child # None /\ port = app
             THEN [pipes EXCEPT ![child] = Append(@, [kind |-> kind, of |-> r])]
             ELSE pipes

Advance(r, from, to, kind) ==
    /\ stage[r] \in from
    /\ child # None => Len(pipes[child]) < MaxLines
    /\ stage' = [stage EXCEPT ![r] = to]
    /\ Write(kind, r)
    /\ UNCHANGED <<app, stream, tracker>>

Run(r) == Advance(r, {"idle"}, "started", "started")
Stream(r) == r \in Streams /\ Advance(r, {"started"}, "streaming", "streaming")
Summarise(r) ==
    Advance(r, {IF r \in Streams THEN "streaming" ELSE "started"}, "summarised", "done")
Finish(r) ==
    Advance(r, {"summarised"}, "over", IF r \in Streams THEN "finished" ELSE "prediction")
Fail(r) == Advance(r, {"started"}, "failed", "failed") \/ Advance(r, {"streaming"}, "broken", "failed")

\* The application restarts on another port: what it served is gone.
Restart(p) ==
    /\ p # app
    /\ app' = p
    /\ stage' = [r \in Request |-> IF r \in Running THEN "over" ELSE stage[r]]
    /\ UNCHANGED <<pipes, stream, tracker>>

-----------------------------------------------------------------------------
(* ActivityTracker *)

Active(m) == Len(entries[m].starts)
InFlight == {m \in Models : Active(m) > 0}
Single == {m \in InFlight : \A n \in InFlight : n = m /\ Active(m) = 1}

\* Mutant: a start overlaps only the request that starts.
OverlapsNew(entry, overlapping) == entry.overlapped \/ (entry = Idle /\ overlapping)

\* Any request in flight at a start overlaps it, and it overlaps them.
Overlaps(entry, overlapping) == entry.overlapped \/ overlapping

Started(r) ==
    LET overlapping == InFlight # {} IN
    /\ entries' = [m \in Models |->
          LET entry == IF m = ModelOf[r]
                       THEN [entries[m] EXCEPT !.starts = Append(@, r)] ELSE entries[m]
          IN  [entry EXCEPT !.overlapped =
                  entry.starts # <<>> /\ Overlaps(entries[m], overlapping)]]
    /\ open' = open \cup {r}
    /\ UNCHANGED <<recent, pending, blind>>

\* A request leaves the history's count with its last line; once nothing is in
\* flight, nothing is missed any more.
Closes(r) ==
    /\ open' = open \ {r}
    /\ blind' = (blind /\ open' # {})

End(m, entry) ==
    LET rest == Tail(entry.starts) IN
    /\ recent' = [model |-> m, start |-> Head(entry.starts), overlapped |-> entry.overlapped]
    /\ entries' = [entries EXCEPT ![m] =
          IF rest = <<>> THEN Idle
          ELSE [entry EXCEPT !.starts = rest,
                             !.streamed = IF @ > Len(rest) THEN Len(rest) ELSE @]]

Streaming(m) ==
    /\ entries' = [entries EXCEPT ![m].streamed = IF @ < Active(m) THEN @ + 1 ELSE @]
    /\ UNCHANGED recent

\* Streamed requests end at "Finished streaming response"; a prediction line
\* ends only one that never announced streaming.
Finished(m, prediction) ==
    IF Active(m) = 0 \/ (prediction /\ Active(m) <= entries[m].streamed)
    THEN UNCHANGED <<entries, recent>>
    ELSE End(m, [entries[m] EXCEPT !.streamed =
                    IF ~prediction /\ @ > 0 THEN @ - 1 ELSE @])

Failed(m) ==
    IF Active(m) = 0 THEN UNCHANGED <<entries, recent>> ELSE End(m, entries[m])

\* The summary names no model: it goes to the only request in flight, else to
\* the one that just ended.
Attributed ==
    CASE Single # {} ->
           LET m == CHOOSE m \in Single : TRUE
           IN  [model |-> m, start |-> Head(entries[m].starts),
                overlapped |-> entries[m].overlapped]
      [] InFlight = {} /\ recent # None -> recent
      [] OTHER -> [model |-> None, start |-> None, overlapped |-> TRUE]

Done(r) ==
    LET all == Append(pending, [told |-> Attributed, of |-> r, blind |-> blind])
    IN  /\ pending' = IF Len(all) > PendingLimit THEN Tail(all) ELSE all
        /\ UNCHANGED <<entries, recent, open, blind>>

Apply(line) ==
    LET r == line.of m == ModelOf[r] IN
    \/ line.kind = "started" /\ Started(r)
    \/ line.kind = "streaming" /\ Streaming(m) /\ UNCHANGED <<pending, open, blind>>
    \/ line.kind = "done" /\ Done(r)
    \/ line.kind = "prediction" /\ Finished(m, TRUE) /\ UNCHANGED pending /\ Closes(r)
    \/ line.kind = "finished" /\ Finished(m, FALSE) /\ UNCHANGED pending /\ Closes(r)
    \/ line.kind = "failed" /\ Failed(m) /\ UNCHANGED pending /\ Closes(r)

\* resetActive, when a stream starts over
ResetActive ==
    /\ entries' = [m \in Models |-> Idle]
    /\ recent' = None
    /\ open' = {} /\ blind' = FALSE
    /\ UNCHANGED <<pending, ages>>

\* RECENT_MS pass: what just ended takes no summary any more.
Lapse ==
    /\ recent # None
    /\ recent' = None
    /\ UNCHANGED <<world, pipes, stream, entries, pending, ages, open, blind>>

-----------------------------------------------------------------------------
(* StreamActivity *)

\* Mutant: the output of a stopped child still counts.
IsAnyChild(c) == child # None

\* A line of the child's output; a child that is no longer the current one is
\* not listened to.
IsCurrent(c) == c = child
Deliver(c) ==
    /\ pipes[c] # <<>>
    /\ pipes' = [pipes EXCEPT ![c] = Tail(@)]
    /\ IF IsCurrent(c)
       THEN /\ Apply(Head(pipes[c]))
            /\ healthy' = TRUE
            /\ silentExits' = IF healthy THEN silentExits ELSE 0
            /\ UNCHANGED ages
       ELSE UNCHANGED <<healthy, silentExits, tracker>>
    /\ UNCHANGED <<world, child, port, retry>>

Spawnable == Len(pipes) < MaxStarts

\* touch(port) after a greeting: a stream of another port is stopped, a missing
\* one is started unless it backs off or has given up.
Touch ==
    /\ Spawnable
    /\ LET moved == port \notin {None, app}
           absent == moved \/ child = None
           starts == absent /\ (moved \/ (silentExits < SilentExitLimit /\ ~retry))
       IN  /\ starts
           /\ port' = app
           /\ child' = Len(pipes) + 1
           /\ pipes' = Append(pipes, <<>>)
           /\ healthy' = FALSE /\ retry' = FALSE
           /\ silentExits' = IF moved THEN 0 ELSE silentExits
           /\ IF moved THEN entries' = [m \in Models |-> Idle] /\ recent' = None
              ELSE UNCHANGED <<entries, recent>>
           /\ open' = Running
           /\ blind' = (Running # {})
    /\ UNCHANGED <<world, pending, ages>>

\* stop, by the idle timer IDLE_STOP_MS after the last touch or by dispose
Stop ==
    /\ port # None
    /\ child' = None /\ healthy' = FALSE
    /\ silentExits' = 0 /\ retry' = FALSE
    /\ ResetActive
    /\ UNCHANGED <<world, pipes, port>>

\* The child ends: with output it is retried after a backoff, without any it
\* counts towards giving up.
Exit(output) ==
    /\ child # None
    /\ output \/ (~healthy /\ pipes[child] = <<>>)
    /\ child' = None /\ healthy' = FALSE /\ retry' = TRUE
    /\ silentExits' = IF output THEN silentExits ELSE silentExits + 1
    /\ ResetActive
    /\ UNCHANGED <<world, pipes, port>>

\* now() reaches retryAt.
BackedOff ==
    /\ retry /\ retry' = FALSE
    /\ UNCHANGED <<world, pipes, child, port, healthy, silentExits, tracker>>

\* view(): the completions leave with it, and a tag without a line for
\* ABANDONED_MS is dropped.
View(old) ==
    /\ port # None
    /\ old \subseteq InFlight
    /\ ages + Cardinality(old) <= MaxAges
    /\ pending # <<>> \/ old # {}
    /\ entries' = [m \in Models |-> IF m \in old THEN Idle ELSE entries[m]]
    /\ pending' = <<>>
    /\ ages' = ages + Cardinality(old)
    /\ blind' = (blind \/ old # {})
    /\ UNCHANGED <<world, pipes, stream, recent, open>>

ActivityNext ==
    \/ \E r \in Request :
          Run(r) \/ Stream(r) \/ Summarise(r) \/ Finish(r) \/ Fail(r)
    \/ \E p \in Port : Restart(p)
    \/ \E c \in DOMAIN pipes : Deliver(c)
    \/ Touch \/ Stop \/ BackedOff \/ Lapse
    \/ \E output \in BOOLEAN : Exit(output)
    \/ \E old \in SUBSET Models : View(old)

-----------------------------------------------------------------------------
\* A completion not marked as overlapped is told of the request it summarises:
\* its model and its start, never those of a request that ran beside it or
\* before it - as long as the child saw every request in flight.
CompletionsAreOwn ==
    \A i \in DOMAIN pending :
        LET c == pending[i] IN
        ~c.told.overlapped /\ ~c.blind =>
            c.told.model = ModelOf[c.of] /\ c.told.start = c.of

OpenOf(m) == {r \in open : ModelOf[r] = m}

\* The requests shown in flight are no fewer than the lines read so far leave
\* unfinished, whatever the order in which they end and whichever child the lines
\* came from; and no more, unless a request of the tag failed as it streamed.
TallyIsTrue ==
    ~blind => \A m \in Models :
        /\ Active(m) >= Cardinality(OpenOf(m))
        /\ (\A r \in Request : ModelOf[r] = m => stage[r] # "broken") => Active(m) = Cardinality(OpenOf(m))

\* "requests in flight: Scope's tally of start and finish lines"
TallyIsExact == ~blind => \A m \in Models : Active(m) = Cardinality(OpenOf(m))

\* What the child's lines become is true of the requests.
ActivityIsTrue == CompletionsAreOwn /\ TallyIsTrue
=============================================================================
