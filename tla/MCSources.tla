----------------------------- MODULE MCSources -----------------------------
(* What several processes or frames change in one place: the jobs of      *)
(* media sources, shown and cancelled from two frames, the addon's        *)
(* files and OpenCode's configuration, set up by two services, of one     *)
(* frame only the replies given to its chats; and, on OpenCode's side,    *)
(* the chats its companion tracks and the progress of prompts its         *)
(* processes leave in files. "part" says which one runs, and the          *)
(* variables of the others stay None.                                     *)
EXTENDS Integers, FiniteSets, TLC

CONSTANTS
    None, Frames, Bound, a, b, Services, Versions, UserEdits, Tasks, Upsets, Parts,
    s1, m1, e1, e2, w1, w2, r1, r2,
    OfChat, OfProgress      \* the constants of Chat and Progress

VARIABLES
    part,
    faults,
    engine, listed, disco, slot, pending, generation, cache, snap, work, frame,
    accepted, resent, stale, changes,
    addon, config, lock, service, last, kept, raced, edits, tasks,
    now, open, local, turns, requests, feed, samples, view, verdicts, instance,
    events,
    tracker, store, subscribed, stream, calls,
    streams, stores, files, reader, best, counters, reads

media == <<engine, listed, disco, slot, pending, generation, cache, snap, work, frame,
           accepted, resent, stale, changes>>
setup == <<addon, config, lock, service, last, kept, raced, edits, tasks>>
chats == <<now, open, local, turns, requests, feed, samples, view, verdicts, instance,
           events>>
tracking == <<tracker, store, subscribed, stream, calls>>
progress == <<streams, stores, files, reader, best, counters>>

\* A visible view asks for the chat wherever its model is, on this Mac, or not at all.
Target(d) == [session |-> s1, model |-> m1, destination |-> d]

SmallChat == [sessions |-> {s1}, models |-> {m1}, endpoints |-> {e1, e2}, remote |-> {e2},
              window |-> 1, lasting |-> 2, routeLife |-> 2, chats |-> 1, shape |-> 1,
              demand |-> {{Target("local")}, {Target("local"), Target("remote")}},
              now |-> 2, calls |-> 2, stream |-> 4, output |-> 5, reads |-> 1, faults |-> 1]
SmallProgress == [writers |-> {w1, w2}, requests |-> {r1, r2}, matching |-> {r1, r2}, primary |-> {r1, r2},
                  total |-> 2, ttl |-> 1, continuity |-> 1, files |-> 2, entries |-> 2,
                  now |-> 1, faults |-> 1, reads |-> 2, counters |-> 2]

Media == INSTANCE Media WITH
    Frame <- Frames, MaxReads <- Bound, MaxCancels <- Bound, MaxChanges <- Bound, MaxFaults <- Bound

Setup == INSTANCE CompanionSetup WITH
    Pid <- Services, Version <- Versions, MaxEdits <- UserEdits, MaxTasks <- Tasks, MaxFaults <- Upsets

\* Two chats, one turn, two requests that may run together; for three units of
\* time with an upset, or for four without.
Attribution == INSTANCE Attribution WITH
    Chat <- {a, b}, Hold <- 1, Break <- 1, MaxNow <- 4, MaxTurns <- 1, MaxRequests <- 2, MaxEvents <- 1

Chat == INSTANCE Chat WITH
    Session <- OfChat.sessions, Model <- OfChat.models, Endpoint <- OfChat.endpoints, Remote <- OfChat.remote,
    Window <- OfChat.window, Lasting <- OfChat.lasting, RouteLife <- OfChat.routeLife,
    MaxChats <- OfChat.chats, ShapeLimit <- OfChat.shape, Demand <- OfChat.demand,
    MaxNow <- OfChat.now, MaxCalls <- OfChat.calls, MaxStream <- OfChat.stream,
    MaxOutput <- OfChat.output, MaxReads <- OfChat.reads, MaxFaults <- OfChat.faults

Progress == INSTANCE Progress WITH
    Writer <- OfProgress.writers, Request <- OfProgress.requests, Matching <- OfProgress.matching,
    Primary <- OfProgress.primary, Total <- OfProgress.total, TTL <- OfProgress.ttl,
    Continuity <- OfProgress.continuity, MaxWriters <- OfProgress.files, MaxEntries <- OfProgress.entries,
    MaxNow <- OfProgress.now, MaxFaults <- OfProgress.faults, MaxReads <- OfProgress.reads,
    MaxCounters <- OfProgress.counters

MediaRests ==
    /\ engine = None /\ listed = None /\ disco = None /\ slot = None
    /\ pending = None /\ generation = None /\ cache = None /\ snap = None
    /\ work = None /\ frame = None /\ accepted = None /\ resent = None /\ stale = None
    /\ changes = None
SetupRests ==
    /\ addon = None /\ config = None /\ lock = None /\ service = None /\ last = None
    /\ kept = None /\ raced = None /\ edits = None /\ tasks = None
AttributionRests ==
    /\ open = None /\ local = None /\ turns = None /\ requests = None
    /\ feed = None /\ samples = None /\ view = None /\ verdicts = None
    /\ instance = None /\ events = None
ChatRests == tracker = None /\ store = None /\ subscribed = None /\ stream = None /\ calls = None
ProgressRests ==
    streams = None /\ stores = None /\ files = None /\ reader = None /\ best = None /\ counters = None
CompanionRests == ChatRests /\ ProgressRests /\ reads = None
SourcesRest == MediaRests /\ SetupRests /\ AttributionRests

ASSUME MediaConstants == Media!MediaAssumption
ASSUME SetupConstants == Setup!SetupAssumption
ASSUME ChatConstants == Chat!ChatAssumption
ASSUME ProgressConstants == Progress!ProgressAssumption

Starts ==
    \/ /\ part = "media" /\ Media!MediaInit
       /\ SetupRests /\ AttributionRests /\ CompanionRests /\ now = None
    \/ /\ part = "setup" /\ Setup!SetupInit
       /\ MediaRests /\ AttributionRests /\ CompanionRests /\ now = None
    \/ /\ part = "chats" /\ Attribution!AttributionInit
       /\ MediaRests /\ SetupRests /\ CompanionRests
       /\ faults = None
    \/ part = "chat" /\ Chat!ChatInit /\ ProgressRests /\ SourcesRest
    \/ part = "progress" /\ Progress!ProgressInit /\ ChatRests /\ SourcesRest

Init == part \in Parts /\ Starts

MediaSteps ==
    /\ part = "media" /\ Media!MediaNext
    /\ UNCHANGED <<part, setup, chats, tracking, progress, reads>>
SetupSteps ==
    /\ part = "setup" /\ Setup!SetupNext
    /\ UNCHANGED <<part, media, chats, tracking, progress, reads>>
AttributionSteps ==
    /\ part = "chats" /\ Attribution!AttributionNext
    /\ UNCHANGED <<part, faults, media, setup, tracking, progress, reads>>
ReplyRests == UNCHANGED <<open, local, turns, requests, feed, samples, view, verdicts, instance, events>>
ChatSteps ==
    /\ part = "chat" /\ Chat!ChatNext
    /\ UNCHANGED <<part, media, setup, progress>> /\ ReplyRests
ProgressSteps ==
    /\ part = "progress" /\ Progress!ProgressNext
    /\ UNCHANGED <<part, media, setup, tracking>> /\ ReplyRests
Next == MediaSteps \/ SetupSteps \/ AttributionSteps \/ ChatSteps \/ ProgressSteps

Symmetry == Permutations(Frames) \cup Permutations(Services) \cup Permutations({a, b})
CompanionSymmetry == Permutations({w1, w2}) \cup Permutations({r1, r2})

----------------------------------------------------------------------------
\* service/media/ and panel/media/: Media's properties.
CancellationIsSound == part = "media" => Media!CancellationIsSound

\* companion-setup.ts: CompanionSetup's properties.
SetupIsSafe == part = "setup" => Setup!SetupIsSafe

\* attribution/join.ts: Attribution's property.
InferredIsSound == [][part = "chats" => Attribution!InferredIsSoundStep]_chats

\* bridge/opencode/chat.js: Chat's property.
RatesAreOfTheirEndpoint == part = "chat" => Chat!RatesAreOfTheirEndpoint

\* bridge/opencode/store.js and splash-progress.ts: Progress's properties.
ProgressIsOfOne == part = "progress" => Progress!ProgressIsOfOne

\* companion-setup.ts:255: CompanionSetup's statement on the lock.
LockIsExclusive == part = "setup" => Setup!LockIsExclusive
============================================================================
