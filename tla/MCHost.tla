----------------------------- MODULE MCHost -----------------------------
(* What a service reads of the machine it runs on and keeps of it:     *)
(* the trends and replies of its connections, the probes and the       *)
(* power stream of its host, and the user's configuration. "part"      *)
(* says which one runs, and the variables of the others stay None.     *)
EXTENDS Integers, Sequences, FiniteSets, TLC

CONSTANTS None, c1, c2, p1, p2, n1, n2, f1, f2

VARIABLES
    part,
    now, samples, callers,
    slots, selections, head, queue, reads,
    server, generation, restarts, attempts, flights, spawns, listener, process, mac,
    readers, child, alive, output, spawned, idleAt, restartAt, silent,
    edits, env, disk, configFlight, cache, detected

history == <<slots, selections, head, queue, reads>>
probes == <<server, generation, restarts, attempts, flights, spawns, listener, process, mac>>
power == <<readers, child, alive, output, spawned, idleAt, restartAt, silent>>
files == <<edits, env, disk, configFlight, cache, detected>>

\* What two connections report at once: a phase, the basis of a rate, how old the
\* host's sample is, how many requests wait, the cadence, and a finished reply.
Said(phase, basis, host, queued, pollMs, draft) ==
    [phase |-> phase, basis |-> basis, host |-> host, queued |-> queued, pollMs |-> pollMs,
     draft |-> draft]
Reply(basis, took) == [basis |-> basis, took |-> took]
Readings == [k1 |-> {Said("decode", "reported", 0, 1, 2, None),
                     Said("idle", "reported", 3, 0, 3, Reply("reported", 2)),
                     Said("decode", "observed", None, None, 2, Reply("observed", 3)),
                     Said("decode", None, 1, 2, 2, None)},
             k2 |-> {Said("decode", "observed", 0, None, 2, Reply("observed", 3))}]

\* A probe runs now and then, more often while a model works, never for a glance
\* unless it is cheap.
Cadences == [memory |-> [idle |-> 2, active |-> 2, glance |-> 2],
             listener |-> [idle |-> 2, active |-> 2, glance |-> None],
             footprint |-> [idle |-> 2, active |-> 1, glance |-> None]]

\* Two providers in two documents, the files beside them, oMLX's own settings and
\* OpenCode's credentials.
Providers(one, omlx) == [id \in {"one", "omlx"} |-> IF id = "one" THEN one ELSE omlx]
Entry(base, key) == [base |-> base, key |-> key]
Nothing == Providers(None, None)
Opened(model, legacy, v2) == [status |-> "ok", model |-> model, legacy |-> legacy, v2 |-> v2]
Text(text) == [status |-> "ok", text |-> text]
Settings(origin) == [status |-> "ok", origin |-> origin, key |-> "nk"]
Files ==
    [open |-> {Opened("one", Providers(Entry("{base}", "{key}"), None), Nothing),
               Opened(None, Providers(Entry("e1", None), None), Providers(Entry("e2", None), None)),
               Opened(None, Providers(Entry("e1", "k1"), Entry("cloud", "ko")), Nothing)},
     custom |-> {[status |-> "malformed", model |-> None, legacy |-> Nothing, v2 |-> Nothing],
                 Opened("omlx", Providers(Entry(None, "{key}"), None), Nothing),
                 Opened(None, Nothing, Providers(Entry("e2", "{missing}"), None))},
     native |-> {Settings("e1"), Settings("e2")},
     auth |-> {[status |-> "ok", keys |-> Providers("ka", "kb")],
               [status |-> "malformed", keys |-> Nothing]},
     base |-> {Text("e1"), Text("e2")}, key |-> {Text("kf"), Text("kg")},
     other |-> {[status |-> "unreadable"]}]
\* The files beside the documents are edited from one of their contents.
Disks == [open : Files.open, custom : Files.custom, native : Files.native, auth : Files.auth,
          base : {Text("e1")}, key : {Text("kf")}, other : Files.other]

History == INSTANCE History WITH
    Series <- {"rate", "cpu"}, BucketMs <- 2, Capacity <- 4, Buckets <- 3,
    Key <- {"k1", "k2"}, Selection <- {"s"}, HistorySlots <- 1, RingSize <- 1, PageSize <- 1,
    HostFresh <- 2, CadenceMemory <- 3, Signal <- [k1 |-> "reported", k2 |-> "observed"],
    Reading <- Readings, Window <- {6, 8}, Tick <- {2, 5}, MaxNow <- 10, MaxReads <- 3

Host == INSTANCE HostProbes WITH
    Caller <- {c1, c2}, Pid <- {p1, p2}, Name <- {n1, n2}, Cadence <- Cadences, Budget <- [active |-> 5, glance |-> 3],
    PartLife <- [memory |-> 1, listener |-> 1, footprint |-> 1], BudgetWindow <- 2,
    Context <- {[activity |-> "active", port |-> TRUE], [activity |-> "glance", port |-> FALSE]},
    MaxNow <- 2, MaxPeak <- 2, MaxRestarts <- 1, MaxSamples <- 3

Power == INSTANCE PowerStream WITH
    Frame <- {f1, f2}, ReaderLife <- 2, IdleStop <- 2, Interval <- 2, Stale <- 2, SilentLimit <- 2,
    Backoff <- 1, Watts <- {1, 3}, MaxNow <- 4, MaxLines <- 2, MaxSpawns <- 2

Config == INSTANCE Config WITH
    Caller <- {c1}, Document <- <<"open", "custom">>, Provider <- <<"one", "omlx">>, Contents <- Files, Disks <- Disks,
    Beside <- [open |-> [r \in {"{base}", "{key}"} |-> IF r = "{base}" THEN "base" ELSE "key"],
               custom |-> [r \in {"{base}", "{key}"} |-> "other"]],
    Local <- {"e1", "e2"},
    Hint <- Providers(None, "omlx"), Serves <- [e1 |-> "omlx", e2 |-> "splash"],
    Environment <- {Entry(None, None), Entry("e2", "ek")},
    Select <- {[provider |-> "one", runtime |-> None], [provider |-> None, runtime |-> "omlx"],
               [provider |-> None, runtime |-> None]},
    Chooser <- 2, CacheLife <- 1, MaxNow <- 1, MaxEdits <- 1

HistoryRests ==
    /\ slots = None /\ selections = None /\ head = None /\ queue = None
    /\ reads = None
HostRests ==
    /\ server = None /\ generation = None /\ restarts = None /\ attempts = None
    /\ flights = None /\ spawns = None /\ listener = None /\ process = None
    /\ mac = None
PowerRests ==
    /\ readers = None /\ child = None /\ alive = None /\ output = None
    /\ spawned = None /\ idleAt = None /\ restartAt = None /\ silent = None
ConfigRests ==
    /\ edits = None /\ env = None /\ disk = None
    /\ configFlight = None /\ cache = None /\ detected = None

ASSUME HistoryConstants == History!HistoryAssumption

Init ==
    \/ /\ part = "history" /\ History!Init
       /\ HostRests /\ PowerRests /\ ConfigRests
       /\ samples = None /\ callers = None
    \/ /\ part = "probes" /\ Host!HostInit
       /\ HistoryRests /\ PowerRests /\ ConfigRests
    \/ /\ part = "power" /\ Power!PowerInit
       /\ HistoryRests /\ HostRests /\ ConfigRests
       /\ callers = None
    \/ /\ part = "files" /\ Config!ConfigInit
       /\ HistoryRests /\ HostRests /\ PowerRests
       /\ samples = None

HistorySteps ==
    /\ part = "history" /\ History!Next
    /\ UNCHANGED <<part, samples, callers, probes, power, files>>
HostSteps ==
    /\ part = "probes" /\ Host!HostNext
    /\ UNCHANGED <<part, history, power, files>>
PowerSteps ==
    /\ part = "power" /\ Power!PowerNext
    /\ UNCHANGED <<part, callers, history, probes, files>>
ConfigSteps ==
    /\ part = "files" /\ Config!ConfigNext
    /\ UNCHANGED <<part, samples, history, probes, power>>
Next == HistorySteps \/ HostSteps \/ PowerSteps \/ ConfigSteps

Symmetry == Permutations({c1, c2}) \cup Permutations({p1, p2}) \cup Permutations({n1, n2}) \cup Permutations({f1, f2})

-------------------------------------------------------------------------
\* service/history/ and src/history/: History's property.
HistoryIsTrue == part = "history" => History!HistoryIsTrue

\* service/host/: the properties of HostProbes and PowerStream.
HostIsTrue ==
    /\ part = "probes" => Host!HostIsTrue
    /\ part = "power" => Power!PowerIsSound

\* service/config.ts: Config's property.
ConfigIsTrue == part = "files" => Config!ConfigIsTrue
=========================================================================
