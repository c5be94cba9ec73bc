# Formal models of MLX Scope

MLX Scope is a panel with a small service beside it. The service reads a local model runtime and the
Mac it runs on, only while a panel frame asks; frames (the status section, the rail panel, the full
page) poll it, one of them at a time is the *leader*, and the leader writes the history of replies to
the storage of the host and shows the toasts. These modules model the parts where several actors meet:
frames that share a lease, views that share a collection, a runtime that is replaced under a connection
or sleeps between two requests of one read, ledgers that share a storage without compare-and-swap,
processes that share files without locks, and a frame whose polls race its gate. TLC checks small
instances of all of them; TLAPS proves most of the safety properties for every instance.

Paths below are relative to the repository.

## 1. The system

| Component | Source | State | Operations | What makes it hard | Here |
| --- | --- | --- | --- | --- | --- |
| Frame lease | `service/core/lease.ts` | table of frames, leader, epoch | `observe`, `elect` | frames come and go, a full table, equal surfaces | `Lease`, `Terms`; proved |
| Slot machine | `service/core/slot.ts` | health of a connection slot | `stepSlot`, `redetectDue`, `backoffMs` | episodes and streaks | `Slot` |
| Scheduler | `service/core/scheduler.ts` | slots, generations, flights | `claim`, `read`, `bump` | shared flights, eviction, backoff | `Scheduler`; proved |
| Runtime connection | `service/runtime-client.ts`, `service/core/llama-swap.ts`, `service/core/registry.ts` | adapter, route, reported change, generation key | `collect`, `collectOnce`, `redetect`, `followSwap`, `retarget` | the server changes at every await | `Connection`; safety proved |
| Runtime adapters | `service/adapters/*` | caches, sessions, children, drafts | `read` of each | servers sleep, restart and fail between the requests of a read | `LlamaServer`, `SlotWatch`, `Omlx`, `LmStudio`, `Splash`, `Activity`; safety proved |
| Completion ring | `service/history/completions.ts` | last 128 replies, sequence | `append`, `since` | overflow, restart, paging | `Recording`, `History` |
| Reply ledger | `panel/history/ledger.ts` | cursors, pending rows, chunks | `start`, `append`, `flush`, `setPaused`, `clear`, `dispose`, `LedgerRecorder` | four awaits in a flush, hand-over, crash | `Recording`; safety proved |
| Frame state, pipeline | `panel/state/scope-state.ts`, `panel/state/pipeline.ts` | completion cursor, identity and state of the readings | `accept`, `since`, `received`, `clearObservations` | two cursors for one ring | `Recording` and `Monitor`, in part |
| Poller | `panel/data/poller.ts` | one timer, one request, generation | `start`, `stop`, `setPaused`, `refresh` | calls while a request of an older generation is in flight | `Poller`; proved |
| Monitor, panel entry | `panel/render/monitor.ts`, `panel/data/visibility.ts`, `panel/main.ts` | gate, generation, deadline, refresh button | `#poll`, `apply`, `armFreshness`, `sync`, page and click handlers | late answers, page cache, no reading from before shown as live | `Monitor`; safety proved |
| Service server | `service/server.ts`, `service/main.ts` | requests open, idle timer | snapshot handler, `idleTracker`, `stop` | idle exit against requests; leader flag over awaits | `ServiceExit`, `Toasts` |
| Alerts and toasts | `service/history/alerts.ts`, `panel/alerts/*` | episodes, log, limits, what each frame accounted for | `evaluate`, `view`, `Signals` | late readings, gaps, evictions, hand-over | `Alerts`, `Toasts`; proved |
| Trend rings, history | `service/history/{ring,history,completions}.ts` | segments, buckets, slots, co-factors | `observe`, `append`, `query` | gaps, wrapping, eviction | `Trend`, `History` |
| Chat telemetry and demand | `service/chat-telemetry.ts`, `bridge/opencode/*` | demand file, tracker, progress files | `observe`, `dispose`, event and dispatch handlers | processes that share files, late events | `Demand`, `Chat`, `Progress` |
| Media service | `service/media/*`, `panel/media/controller.ts` | discovery, slot, pending cancels, caches | `snapshot`, `cancel`, `invalidate` | invalidation under a flight, retries | `Media`; proved |
| Host sampler | `service/host/sampler.ts`, `power.ts`, `footprint.ts` | flights, spawn budget, power readers | `read`, `run`, `updatePower` | budget over a window, PID reuse | `HostProbes`, `PowerStream` |
| Configuration, setup | `service/config.ts`, `service/companion-setup.ts` | shared configuration, lock, installation | read, install, remove | files edited between two reads, a crash between two writes | `Config`; `CompanionSetup`, proved |
| Attribution | `panel/attribution/*` | turns, coverage, joins | feed, poll, join | late messages, two chats at once | `Attribution` |
| Usage cache, verdicts, marks, prompt reuse | `service/history/usage-cache.ts`, `service/core/*` | small bounded tables | `get`, `record` | one flight per key | not modelled |
| Presentation | `panel/present/*`, `panel/render/*` | — | pure | — | not modelled |

How they interact. A frame's poll is one request of the service: the lease hears of the frame
(`Lease.Observe`), the connection is claimed and read (`Scheduler.Request`), which may run a
collection (`Connection`), finished replies enter the ring, and the answer carries the page after the
frame's cursor and whether the frame leads. When a frame asks, and whether an answer still counts
when it comes, is decided by its gate (`Monitor`). In the frame, `ScopeState.accept` moves the frame's
cursor and the recorder of the leader appends the page to its ledger, which a later flush writes to
storage (`Recording`). Storage outlives frames and service; the ring and the lease do not outlive the
service.

## 2. Modules

`EXTENDS` relations: `Scheduler` and `Connection` extend `Slot`, `Monitor` extends `Poller`, `History`
extends `Trend`, `Toasts` extends `Alerts` and instantiates `Terms`. Each `...Proofs` module extends the
module it proves about. Of the `MC...` modules those of `Lease`, `Scheduler`, `Connection`, `Recording` and `Toasts`
only give TLC its constants; `Monitor` needs none and is checked as it is, with `MCMonitor.cfg`. The others (`MCAdapters`,
`MCService`, `MCSources`, `MCHost`) hold several components that share no state in the code either: a variable `part` says which one
runs, the variables of the others stay `None`, and each property speaks of its own part. Where a proof is
about such a part, the instance takes its constants from constants of the MC module (`OfLlama`, `OfWatch`,
`OfOmlx`, `OfProgress`, `Frames`, `Bound`), so that the theorem holds for every value of them.

### Lease

`frames`, `leader` and `epoch` are the fields of `Lease`; `told` is the answer to the last poll and
`now` the clock it is given. `Observe(f, s)` is one call of `observe`, whole: frames silent for longer
than the time to live go (`Purged`), a full table pushes one out for a newcomer (`RoomFor`, `IsVictim`: of those
that do not lead the one seen longest ago, whatever its surface), the caller is recorded (`Entered`: its surface
and when it was seen are new, when it first came is kept), and `elect` keeps or moves the lease (`BestOf`, `KeepsLease`,
`EpochAfter`): the leader keeps it unless a frame of a higher surface is there, so that a change of surface changes
who outranks whom and never makes a newcomer.
Where the code takes the first of equals in the Map's order the model takes any of them. `Terms` is what
the frames may rely on: terms with one holder each, and answers that name the term and whether the caller
holds it. `Lease` implements it, and `Toasts` uses it as the lease of its frames.

### Slot, Scheduler

`Slot` holds the pure functions of the slot machine. In `Scheduler`, `slots` is the Map (a slot's
`born`, its first generation, gives the Map's order), `generations` the counter, `waiting` the
collection each view awaits. `Request` is `claim` and `read` of `RuntimeClient.read`, which have no
await in between. A collection may bump its generation, run a detection pass (`Redetect`) and
finishes with any outcome; `Finish` is the `then` of the flight.

### Connection

One slot over an environment that decides what answers on the port: nothing, a server that wants a
key, one nobody can read, a model server, or llama-swap idle, loading, refusing to choose, or routing
to a model server. `slot.at` names the await a collection is in; each action is what comes back and
the code up to the next await. The operators `Opened`, `Asked`, `Looked`, `Identified`, `Concluded`
are those synchronous stretches in the order of `collect` and `collectOnce`. `heard` remembers what
readings carried which generation. Model servers have no names beyond their identity, and a routed
server answers only while llama-swap routes to it. A reading may carry a generation key: one that names what is served
(llama-server, LM Studio, Splash), the adapter's own count of restarts (oMLX, the runtimes in `Counting`; `Keys`), or none
(Ollama, mlx-lm, vllm-mlx). Only a key that differs from the one before makes a new generation (`Keyed`), so that nothing is
said of servers whose readings have none or count alike.

### Poller, Monitor

`Poller` is the class as a record and its methods as operators, each whole: `Started`, `Stopped`,
`SetPaused` and `Refreshed`, and `Settled` for what happens when a request ends. The `then` that sets
the timer and the `finally` that starts what was held back are microtasks of one task, so no handler
runs between them. A generation is only ever compared with the one a request began in; instead of a
number, a request in flight (a *run*) carries whether it is still the generation's: `kept` for the
poller's, `current` for the state's. No counter needs a bound.

`Monitor` is one frame: its gate (`hidden`, `intersecting`, `userPaused`), its page (shown, in the page
cache, gone), what it is asked to select, its poller, and `view`, the fields of `ScopeState` that
decide how a reading is shown. Every handler of `main.ts` that reaches the poller is an action, with the
`sync` it ends in: visibility and intersection, pause, mount, page hide and show, a new selection,
refresh, a change of cadence, the hints that ask for a poll. `PollEnds` is the rest of `#poll` after its
await, for an answer with a body or without; `Answers` are links of the run's selection in any
generation, so a connection may come back as another one. `earlier` is history only: the runs that began, and whether the
reading on screen was asked for, before the last interruption. In the page cache only visibility events and
answers already on their way are let through.

Left out: delays and the failure count that chooses them, the timer of a chat's expiry, the boundary
that splits Splash's rates, and the contents of readings. The Work Status section has no
refresh button; it is a frame in which `RefreshClick` does not happen. It also reads the stored selection
once more without a reset, which `Monitor` leaves out.

### Recording

The ring, the lease's answer, storage, and for each frame its cursor and poll in flight, its ledger
and the write in progress. `Page` is `CompletionRing.since`, `Accepted` is `ScopeState.accept`,
`Appended` is `Ledger.append`, `Loaded` is `#load`; `Flush`, `Refresh`, `Verify`, `Store`, `Acknowledge`
are the awaits of `#write` in their order, and `Reject` is its `catch`. A disposed ledger's write goes on (`live`
is FALSE): the host stores what it was sent. The lease is reduced to who leads and the epoch: any
frame that polls may be given it, which is more than `Lease` allows.

The rows that wait for a flush are a function from positions to a row and its cursor. A page has a position for
each of its replies, behind one for a gap, and a reply that is not recorded leaves its position empty (`Behind`); so an
append says what stands where, with no loop over the page. An acknowledgement takes the first positions away
(`Without`). `Consumed` is the cursor a ledger is left with.
`bound`, chosen from the constant `Bounds`, is what a behaviour may use up: its frames, replies, terms, chunks, waiting rows and upsets.

Time is the number of finished replies: reply *n* finishes at *2n* and clocks read *2·made + 1*, so a
gap is an interval between replies. The rounding to seconds, the order of two replies in one second,
labels, turn rows, the model dictionary, baselines, retention and quotas are left out; a chunk is full
when TLC says so, which covers every capacity. The hold-back of `since` for late verdicts only re-sends
replies the ledger has seen, and is left out.

`trail` is history only: the rows ever written; the replies that were *declined* (a paused leader read
past them), *skipped* (a ledger without a cursor begins at the page it is given, by design; one with a cursor may be given
a page from further on, see `CursorJumpLeavesGap`), *cut*
(see below), or *unsaid* (lost in a restart, see `RestartLeavesGap`); and the number of upsets.
The properties name these exceptions; each is a deliberate choice of the code or a finding of its own.
Rows are *cut* when a clear drops pending rows while a write is in flight and the acknowledgement then
cuts as many rows as it took from a shorter list (`ledger.ts:454`).

### Alerts, Toasts

`Alerts` is the alert book of the service as operators on one record: `Evaluated` is a reading of a slot or
of the host (gaps, the dwell of each of the nine rules, hysteresis, cooldown, the eviction of slots, the log),
`Offered` the answer to a request, which decides which episodes get a toast and grants them within the
limits. `Toasts` composes it with frames: `Ask` takes the lease before the awaits of a request, `Serve`
evaluates and answers in whatever order requests come to their end, and the frame's `Signals` accounts for what it is
shown (`Accounted`, baseline and claims). An answer is of any slot: what a frame selected may be another one at each poll, or
none, when nothing was read (`UNSLOTTED`, a key of its own); or it is of a remote chat and has no alerts (`AnswerRemote`).
Frames give up requests and come back. For history, what a frame has shown is `up` until an answer leaves its alert out
though it is still up in the book: the frame forgets it then, and shows it again (`ToastShownOnce`).

### Runtime adapters

Each adapter is modelled against its server, which goes on between the requests of a read.
`LlamaServer` is the order of `/health`, `/props`, `/metrics` and `/slots` in one read, and what is cached to
decide whether `/slots` may be asked: it wakes a sleeping server. `woken` is history: how long the sleeping servers it
reached had been idle. `SlotWatch` follows the one busy slot and
reports its completion. `Splash` tells replies from totals, `Omlx` is the admin session shared by two
readers (cookie, refused key, retry, the restart concluded from an uptime), `Activity` the log stream of LM
Studio and the tally of its requests, `LmStudio` the greeting, the recorded ports and when `lms` may run.
What bodies contain beyond the fields these decisions use is left out.

### Chat, Demand, Progress

`Demand` is the file in which services ask the helpers of OpenCode to observe chats; `Chat` the helper's
tracker, which must find out the endpoint of a call from dispatches and may tell no rate of another;
an endpoint stands for what a dispatch showed of its URL. History is in three fields: `of`, the call a route was
noted for, `proof`, the call whose dispatch gave an announced chat its endpoint, and `proved`, whether the tracker took
a call's own dispatch. They tell the two cases in which a rate may be told of another endpoint
from all the rest: the announcement came after the dispatch of the next call and took its route (`Overtaken`), or
the tracker was not told of the dispatch and kept an older route (`Unproven`);
`Progress` the way of prompt progress through one file per process to the Splash adapter.

### Media, CompanionSetup, Attribution

`Media` is discovery, collection, cache and cancellation in the service and the controller of each frame.
A request joins what is under way; a configuration change or a cancellation invalidates it by generation.
`frame[f].after` remembers what had happened when the frame asked: a cancellation accepted, the source
paused; a source that comes back ends the latter. `CompanionSetup` is the installation, step by step, each of
which may fail or be the last; `Attribution` the feed of the host's turns and the rule that gives a reply to a chat.

### Trend, History, HostProbes, PowerStream, Config, ServiceExit

`Trend` is the ring of short buckets and its query, `History` the slots and the replies given with their
co-factors. `HostProbes` is the sampler with its flights, budget and the guard on process numbers, `PowerStream`
the child that streams power. The guard compares the name and the peak of what has the number (`SameProcess`); processes also
have an identity nobody reads, `life`, which only properties speak of. A number is not given again between an `lsof` and the first
report of what it found: the code has nothing to compare that report with.

`Config` resolves connections and keys from files edited between two reads. A flight reads OpenCode's documents, oMLX's settings
and the credentials one after the other (`ReadFile`), and then the file a value refers to once for each time that value is expanded
(`ReadReference`, in the order of `Referring`): for what is declared, for the endpoint, for the key. Each may find other contents.
`disks` is history: what the files held in the course of the flight.

`ServiceExit` counts requests and ends the process, after the idle timer or a signal; the handlers are set with `once`, so a second
signal of a name kills it.

## 3. What is checked

A `pass` run finishes with no error; a `violation` run checks one statement of the repository that the
code does not keep, and its finding in `PROJECT.json` quotes it.

| Run | Instance | Shows |
| --- | --- | --- |
| `lease` | 3 frames, 2 places, 3 surfaces, time to live 2, clock to 3, epochs to 3 | `EpochFencesLeaders`, `LeaderKeepsLease`, `PollFindsLiveLeader`; `LeaseIsTerms` (refinement) |
| `scheduler` | 2 views, 3 keys, 2 fingerprints, 2 slots, clock and generations bounded | `AwaitedReadsAreHeld`, `GenerationsAreUnique`, `ReadsAreSpaced` |
| `connection` | 4 servers of 3 runtimes: two whose key counts restarts, one without a key that no probe identifies, one whose key names it; 3 choices, 2 changes | `AdapterFollowsSlot`, `ExplicitChoiceStands`, `RoutesAreFenced`; under fairness `PortIsFollowed`, `ChangeIsWithdrawn` |
| `monitor` | 1 frame, 2 selections, 2 generations of each, 2 names for requests, nothing else bounded | `FreshIsWatched`, `FreshIsAskedSince`, `OneConnectionObserved`, `RefreshIsInFlight`; under fairness `LiveFramePolls`, `ResumedFrameIsAnswered` |
| `recording` | ring and page of 1; 2 frames, 2 replies, one upset of any kind; 1 frame, 4 replies, two upsets | `AcknowledgedIsRecorded`, `SeenIsKept`; `NothingMissingBetween` |
| `toasts` | 2 frames, a connection and none of which the book keeps one, remote answers, a clock of 2 with lags, 3 requests served, 2 terms | `EpisodesAreSound`, `ToastsAreLimited`, `ToastsOncePerTerm` |
| `adapters` | one or two models, two or three requests, two or three reads of each adapter, one failure | `IdleIsLeftAlone`, `CompletionsAreTrue`, `RepliesAreTold`, `ServerIsReadRightly`, `ActivityIsTrue`, `LmIsReadRightly` |
| `companion` | one chat, two endpoints, two calls, a stream of four events; two writers and two requests | `RatesAreOfTheirEndpoint`, `ProgressIsOfOne` |
| `service` | two services, one helper, one frame; three requests | under fairness `DemandIsMet`, `ServiceEndsWhenIdle` |
| `sources` | two frames and one job; two services and one edit; two chats, one turn each, two requests | `CancellationIsSound`, `SetupIsSafe`, `InferredIsSound` |
| `hosts` | two connections, three reads; two callers, two process numbers and names, peaks to 2, one restart of the server; two power readers; one edit of any of seven files, three of them beside the documents | `HistoryIsTrue`, `HostIsTrue`, `ConfigIsTrue` |
| `setup_lock` | two services | violation of `LockIsExclusive` |

Further statements of the repository that the code does not keep are stated in the modules, beside
the line they quote, and listed as findings without a run of their own: `GenerationNamesOneServer` and
`UnsupportedIsRechecked` (`Connection`), `RestartLeavesGap`, `CursorJumpLeavesGap`, `HandoverIsNoticed`,
`PausedStaysOut` and `ClearedIsForgotten` (`Recording`), `HandoverRepeatsNothing` and `ToastShownOnce` (`Toasts`), `SlotsOnlyWhileWorking`
and `NeverWakes` (`LlamaServer`), `EarlierIsIgnored` (`Chat`), `PromptsAreOfTheReply` (`Splash`), `TallyIsExact` (`Activity`), `RowsAreOfTheirPort` and `KeyIsOfOneList` (`LmStudio`),
`QueuedIsOfItsEngine` and `ForeignCursorIsReset` (`History`), `FootprintIsOfTheGeneration` and `ReuseIsNoticed` (`HostProbes`), `KeyIsOfItsEndpoint` (`Config`).
TLC finds each of them violated when it is added to a configuration; for `HandoverIsNoticed` that needs four
turns of the lease, for `CursorJumpLeavesGap` three replies with two frames, for `KeyIsOfItsEndpoint` two edits.

Why the bounds are enough. *Lease*: three frames over two places make every poll of the third evict or
be refused; a clock of 3 over a time to live of 2 lets frames expire and come back. *Scheduler*: three
keys over two slots evict, two fingerprints replace, two views share and refuse. *Connection*: two
changes allow there-and-back, and a change in the middle of each await. *Monitor*: the handlers may fire
in any order for ever; a frame compares only two selections and two generations at a time, and a
poller has one request in flight, beside which the one that follows it is created. *Recording*: with a ring of one and pages of one, every second reply
overflows the ring and every page is full, the hard case of `since` and `accept`; two frames are
enough because the storage calls of a third would meet the same states; an *upset* (a restart of the
service, a pause, a clear, a hidden frame, a refused or failed storage call) is what the run varies. The
gap property needs more replies, which one frame allows: its hand-overs are to
itself, through hide and return. *Toasts*: one place for two connections evicts, two clocks apart give late
readings and gaps. With `Hour` 3 and a clock that ends at 2 no grant is ever forgotten in this run; the
forgetting is in the model, and `LimitsHold` is proved with it; a remote
answer leaves out alerts that are up. *Adapters*: a deadline of 1 and a sleep
of 2 let a server sleep while the scrape that says it works still counts, and after it. Three reads are one before, one at and one after what the adapter
caches; a failure, a restart and a changed key each happen between any two requests. *Companion*: a
stream of four holds what is left of a call whose announcement is late, and the next dispatch beside it; with three
the overtaken announcement never meets output; views that ask for the chat on this Mac, or there and elsewhere, begin, end and
change demand. *Hosts*: a file that is edited during a reading of the configuration is the hard case, a second edit is left to the
finding `KeyIsOfItsEndpoint`; of two names and peaks to 2 one process has either in common with the one before it, or
both. *Companion*, *Sources*, *Hosts*: two of whatever shares a file, a child or a job, one unit of each lifetime, and one
upset; the third of anything would meet the states of the second.

What every bound is: `Max...` constants (`MaxNow`, `MaxEpoch`, `MaxGeneration`, `MaxChanges`, 
`MaxReads`, `MaxFaults`, ...) stop counters of the environment or of
history, and so do `UserEdits`, `Bound`, the fields of `Bounds`, the fields of `OfSplash` and `OfActivity` that
count (`now`, `reads`, `faults`; `starts`, `lines`, `ages`), `upsets` of `OfStudio`, which counts changes of
the application and faults together, `MaxPeak`, `MaxRestarts` and `MaxSamples` of `HostProbes`, and `MaxTasks`, `MaxEdits` and `MaxFaults` of `CompanionSetup`; the clock and the events of `Attribution` share `MaxNow`; none cuts a choice of the code short except that TLC does not look beyond it. `bound.pending` of `Recording` holds pages back while
that many rows wait for a flush; the code has no such limit. `CHECK_DEADLOCK FALSE` appears where these
bounds stop everything.

Symmetry is used for names that the properties and the code treat alike: frames, callers, keys, views,
fingerprints, process numbers, ports and requests, and only in runs without liveness properties. In `adapters` only
the ports are symmetric: the requests of `Activity` differ by tag and by whether they are streamed.

Fairness. `Connection`, `Monitor`, `Demand` and `ServiceExit` have liveness properties. In `Connection`, `FairSpec` assumes that
a collection in progress goes on, since every request has a timeout, that an idle slot is read again,
which is the case while any view polls, and that the adapter's identity interval comes round. In
`Monitor` it assumes that a request ends, with an answer or as a failure when the host gives up on it,
that an armed timer goes off, and that the stored settings a mount waits for arrive. The deadline, the
reader and the environment owe nothing: the properties speak of a port that settles, and of a frame that stays in view.

`MCService` joins `DemandFairness` and `ExitFairness`: time passes; a service writes the demand it has
to write, a frame that may ask again and again does, as a visible view polls, and a helper polls the
demand; the check of the idle timer runs, and the server closes once its requests are answered or the
grace has run out. No request need end.

Each property of a passing run has a mutant: a definition changed the way a bug would change it
(`AckedAll`, `EvictedLate`, `RetargetedKept`, ...), written beside the definition it replaces. With it
in place TLC finds the property violated.

## 4. What is proved

`LeaseProofs` (any set of frames, capacity of at least one, any time to live; assumption
`LeaseAssumption`):

- `LeaseInvariant`: `LeaseInv` is inductive. It joins the types, `SeenInThePast`,
  `ViewsFollowHolder`, `EpochFencesLeaders` and `LeaderIsTopFrame`. The fence is not inductive by itself:
  that no two frames are told they lead one epoch follows only when no frame was told of a future epoch,
  and whoever was told it leads the current one still holds it, or nobody does (`ViewsFollowHolder`).
- From it: `TypeCorrect`, `EpochFence`, `LeaderOnTop`, and the action properties `LeaseIsKept` and
  `LiveLeaderFound`.
- `LeaseImplementsTerms`: every step of `Lease` is a step of `Terms` or a stutter, under the mapping of
  `LeaseIsTerms`; the fence and the live leader are what makes an answer one of the present term's.

`SchedulerProofs` (any views, keys, fingerprints and cadences; `SchedulerAssumption` and
`SlotAssumption`):

- `SchedulerInvariant`: types with the capacity, `AwaitedReadsAreHeld` and `GenerationsAreUnique` are
  inductive together. A claim is safe for the collections in flight because only idle slots go
  (`ClaimedFacts`), and generations stay unique because the counter is ahead of all of them.
- From it: `SchedulerTypeCorrect`, `AwaitedReadsStay`, `GenerationsDiffer`, `CollectionsAreSpaced`
  (no request breaks the floor or the backoff) and `GenerationsOnlyGrow`.

`MonitorProofs` (any selections and generations, at least two names for requests; `MonitorAssumption`
and `PollerAssumption`):

- `MonitorInvariant`: `MonitorInv` is inductive. Beside the types and the properties it holds what
  makes them so: a poller between two tasks has no run but the pending one, and a timer only while it
  is on with nothing pending (`Sound`); it is started exactly in a mounted frame that is shown, and paused exactly
  when the frame cannot be seen (`GateDecides`); a run whose answer counts asked for the present
  selection and began since the last interruption (`CurrentRuns`); and a reading from before is shown
  as awaiting a fresh one or with an issue (`EarlierIsMarked`). The lemmas say what each method of the
  poller does to `Sound` and to the runs (`RefreshedFacts`, `SettledFacts`, ...).
- From it: `MonitorTypeCorrect`, `OneAtMost`, `HiddenStaysQuiet`, `FreshHasDeadline`, `NothingOldIsFresh`,
  `ObservationsAreOfOne` and `RefreshIsGivenBack`.

`ConnectionProofs` (any runtimes, servers, choices and number of changes):

- `ConnectionInvariant`: that routes are fenced speaks of readings long past, and is not inductive: the
  next reading is fenced only if the slot still knows the runtime, the model server behind llama-swap and the key of the
  generation it would add to (`HeardBy`). It knows no more of a server than these: two of a runtime whose readings carry no key, or
  only oMLX's count, are one to it, which is the finding `GenerationNamesOneServer`. Beside it stand the types, `Consistent` (the adapter is of the slot's runtime and
  route, the runtime is the explicit choice) and `Placed` (what the await a collection resumes from
  needs). Each synchronous stretch (`SwitchedFacts`, `RetargetedFacts`, `IdentifiedFacts`, ...) keeps them, so
  an action, which is one or two of them, does.
- From it: `ConnectionTypeCorrect`, `AdapterIsCurrent`, `ExplicitChoiceKept`, `RoutesFenced`.

`AdapterProofs` (any models, slots, requests, ports, numbers of reads and faults; `LlamaAssumption`,
`WatchAssumption`, `OmlxAssumption`, `LmAssumption`, `SplashAssumption`, `ActivityAssumption`). The parts of `MCAdapters` share no state; each has an invariant its own
steps keep.

- `SleepersAreLeft`: whatever the adapter goes by when it reads `/slots` (a scrape with work, a busy slot) is no newer than
  the server's last work (`WorkedSince`) and at most twice the metrics' period old when the read begins (`SlotsFindWork`); a
  server asleep has been without work since (`SleepsIdle`). It rests on the slot gap being at most that long, and on nothing of the
  server: how soon it sleeps is any number. That a server which sleeps sooner is never woken is the finding `NeverWakes`.
- `OmlxIsReadRightly`: a cookie or a key refused is one of a boot or an epoch that is over, unless it was forgotten
  on its way (`Sound`), and what an uptime is compared with is dated no later than it was read.
- `SlotsAreWatched`: the span in progress is of the one request that was busy, counted what it made, and
  remembers whether it began before or beside others.
- `StudioIsReadRightly`: a child of `lms` outlives the read that started it, and the next reads share its promise. Whatever
  is cached or running is dated by the start of its child (`DatedByStart`), so that lists are as far apart as
  their starts; and what a read carries over its awaits, the inventory above all, is of the answers it
  got (`StudioReadIsTrue`).
- `RepliesAreToldRightly`: a body, the anchor of the open span and the engine now stand in one order, `Follows`, which is
  reflexive, transitive and kept by every step of the server. Between two of them and one engine, the counters count
  the requests that ended, tokens only those that decoded; so a span whose totals grew by one request,
  with nobody else at either end, is that request's. A prompt that waits for its reply is of a
  request no reply was told of (`PromptWaits`, `PromptsAreLeft`).
- `ActivityIsToldTrue`: the tracker lags behind the application by the lines of the child it has not read. The
  invariant says of these lines that they lead from the requests the tracker was told of to
  where the requests are now (`LinesFit`: each request's lines in order, its start first; `NoneMissed`: none is
  lacking while the child listens where the application is). The tally of a tag is at least the
  requests told of and not ended unless something was missed, and no more unless one of them is broken
  (`TallyFits`); no more of them count as streamed than announced it; and a tally nothing overlapped holds
  the one request that is open. Finish lines name no request: that a *first in, first out* tally ends with
  the right number is why it is a property of counts, and `CompletionsAreOwn` one of a single request.

`ToastProofs` (any frames, slots, rules, limits with `Minute <= Hour`, and requests served in any order):

- The book keeps `BookInv` through a reading, which is a sequence of moves on single tracks (`Moves`, `Judges`): an
  open track's episode is its last, log and episodes agree, numbers grow. From it `EpisodesHold`.
- `LimitsHold`: the limiter forgets grants and judges by request times that may go back; what it forgot
  is older than any it would have to remember (`Limited`).
- `ToastsHold`: an answer has numbers only where the book gave them to an alert that is up (`IsView`), whichever slot it is of. A
  frame that shows a toast has accounted for it under that number, and still has as long as every answer since had the alert or
  found it closed (`IsShown`, where `up` says so; `KeptIs` follows it through an answer); and in a term of the lease one
  frame led (`OneLeads`). That an answer without an alert that is up makes the frame show it again is the finding
  `ToastShownOnce`.

`SourceProofs` (any frames, services, versions, sessions, endpoints, calls, writers, requests and bounds; `MediaAssumption`,
`SetupAssumption`, `ChatAssumption`, `ProgressAssumption`):

- `CancellationHolds`: `MediaInv` joins the types; what is over stays over in every cache (`OverIsOver`); a
  cancellation in flight is the only one and ends in an accepted or a withdrawn one (`CancelsOnce`); what a snapshot
  in the making will show once a cancellation was accepted (`ShowsCancelled`); which discovery
  and list it goes by (`Discovered`, `Lists`), by generation; and what each frame was told (`FramesAreTold`).
- `PromptsAreOfOne`: `ProgressInv` says three things of the way of a prompt through a file. A request is told of by one writer
  only, in its store, in what it is writing and in its file (`ToldByWriter`). What these tell of it stands in one
  order: the file says no more than the body being written, that no more than the store, that no more than the
  stream, and what is shown is behind the file until the writer dies (`Dated`, `ToldInOrder`). A read remembers which
  requests were in the files all the while, so that what it found in one file is still good for these when it
  comes to its end (`ReadsFollow`): the sole request it finds is the sole one there was. And a store that is
  neither writing nor dirty has written what it holds (`WritesFollow`).
- `RatesAreTold`: `ChatInv` says where the endpoint of each chat comes from. One that an announcement began has it from
  a route whose dispatch is of its own call or of a later one (`IsAnnounced`); one that a dispatch began is of that call, and
  takes output of no later one because the announcements of later calls are still to come in the stream, and drop it
  (`IsSeeded`, `Awaited`). This rests on the routes, each of the last dispatch the tracker took of its chat and model
  (`IsTrueRoute`), on OpenCode, whose calls of one chat follow one another (`CallsInOrder`), and on a stream in which what is
  said of a call is still true of it, though late or repeated (`StreamIsTrue`). What is published repeats
  the chat it was published of.
- `SetupHolds`: `SetupInv` speaks of the one task that has the lock. At each of its steps, what it has
  replaced, what it has still to replace and what it found at its first look say what every file holds, but for the user's edits
  (`IsReplacing`, `IsRestoring`); its first look at the configuration stays good for all but the number of
  edits (`IsBase`); the marker is written last (`FirstIsOne`). A process that
  dies leaves no task, and what it leaves is what the invariant says of the files alone (`Whole`, `Finishable`,
  `Keeps`). The theorem, like the property, says nothing once two tasks had the lock together (`raced`);
  that they can is what the run `setup_lock` shows.

`RecordingProofs` (any frames, any sizes of ring and page, any `Bounds`; `RecordingAssumption`):

- `RecordingIsTrue`: `RecordingInv`, which is `HistoryIsTrue` beside the domains of the records (`IsShape`), is inductive. Neither property is so by itself: what is stored is what some
  ledger took from pages it read much earlier. `HistoryIsTrue` says of everything on the way to storage, pages in
  flight, ledgers, writes and chunks, that it stands behind what tells of the replies before it: a waiting row and its
  cursor behind replies that are known or told by rows that wait in front of them, a write behind replies that are known
  or told by its own rows, a chunk behind known ones. A reply is *known* when it is `Accounted` for, or `unsaid`.
- What is known only grows (`World`, `Grows`), so what an action does not touch stays true (the `...Grows` lemmas).
  `Append` is taken apart: what stands where in what waits behind a page (`BehindIs`), that it tells of all replies
  before (`BehindTells`), that what was there stays (`BehindKeeps`), the cursor it ends with (`ConsumedIs`), and together
  (`AppendedKeeps`). Each action of `Next` has its lemma. Least and greatest positions come from the well-founded
  induction of the library, applied to sets.
- From it: `AcknowledgedHolds` and `NothingMissingHolds`. That a write is acknowledged after its frame lost the lease,
  that a flush is cut short, or that two ledgers go on from one cursor, are cases of the induction.

Each inductive invariant was checked with TLC on a small instance before it was proved (of `RecordingInv` the part
`HistoryIsTrue`, for numbers up to a bound). The assumptions
are the modules' own `...Assumption`, which TLC evaluates in the runs.

Model-checked only: `SeenIsKept` of `Recording`, which needs an invariant that ties each frame's open chunk to what
other frames stored in it; `Attribution`; the parts of `hosts`; `Demand` and `ServiceExit`. Out of the prover's
reach in any case are the liveness properties (fairness and ENABLED), and what a recursive definition
or `SelectSeq` computes for every input (induction over data), which `Trend`, `Config` and `Attribution` rest on;
elsewhere the modules use folds and CHOOSE over finite sets.

## 5. Plan

In order of weight:

1. Proofs: `SeenIsKept`; `HostIsTrue`; an abstract poller
   ("at most one request, and one more while live") that `Monitor` implements.
2. `RequestWatch`, the usage cache, verdicts, marks and prompt reuse, as operators on small tables.
3. The remaining adapters (Ollama, MLX-LM, vllm-mlx, Draw Things) and oMLX's normalisation, whose order of requests
   and decisions about missing fields can be checked against reference definitions.
4. The routing, validation and assembly of a snapshot in `service/server.ts`, with failures of a part.
5. The energy saver's floor against a restart that outlives a pause (`panel/data/poller.ts:53`), which
   needs a model of when a poll is due.

## 6. Not modelled, and why

Parsing and normalisation turn the bodies of each runtime into readings: data without concurrency of
its own; where a decision rests on a missing or an odd field the adapters' modules have it. Presentation
is a function of a reading. Scripts, fixtures and the contract's types are not behaviour of the running
system. The usage cache, verdicts, marks and prompt reuse are small tables of the service, left for later. Every
component's own note in `PROJECT.json` says what of it is left out.
