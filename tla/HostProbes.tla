----------------------------- MODULE HostProbes -----------------------------
(***************************************************************************)
(* service/host/sampler.ts, with the guard of footprint.ts: the children   *)
(* the sampler spawns while frames read, and what it says of the process   *)
(* behind oMLX's port.  Reads that overlap share one flight per probe, a   *)
(* cadence spaces them and a budget bounds the children of any window.     *)
(* lsof finds the process that listens, footprint reports the name and the *)
(* peak of what has its number, as long as they may be of the same one.    *)
(* The servers, how their peaks grow and the outcome of every child are    *)
(* the environment; a number is not given again between an lsof and the    *)
(* first report of what it found.  "memory" stands for the probes that     *)
(* only read the Mac; its cpu ticks are left out.                          *)
(***************************************************************************)
EXTENDS Integers, FiniteSetsExt, Functions

CONSTANTS
    Caller,         \* snapshots in progress
    Context,        \* what frames read with: their activity, and whether oMLX's port
    Pid, Name,      \* numbers and names of processes
    None,
    Cadence,        \* PROBE_CADENCE: probe -> activity -> its pause, None if not there
    Budget,         \* SPAWN_BUDGET_PER_MIN, by activity
    BudgetWindow,   \* BUDGET_WINDOW_MS
    PartLife,       \* ttl(), by probe
    MaxNow, MaxPeak, MaxRestarts, MaxSamples    \* bounds

Probe == {"memory", "listener", "footprint"}
Spawns == [p \in Probe |-> IF p = "memory" THEN 2 ELSE 1]
Never == -BudgetWindow - 100

VARIABLES
    now,
    server,     \* the process behind the port: its life, number, name and peak
    generation, \* what the connection calls the server it reads
    restarts, samples,
    callers,    \* caller -> its context and the await it is at, or None
    attempts,   \* probe -> when it was last started
    flights,    \* probe -> the flight in progress, or None
    spawns,     \* time -> children started then
    listener,   \* this.listener
    process,    \* this.process, with the report it is of and, for history, what lsof had found
    mac         \* when this.mac was sampled, or None

hostVars == <<now, server, generation, restarts, samples, callers, attempts, flights, spawns,
              listener, process, mac>>
world == <<server, generation, restarts>>

HostInit ==
    /\ now = 0
    /\ server \in [life : {1}, pid : Pid, name : Name, peak : {1}]
    /\ generation = 1 /\ restarts = 0 /\ samples = 0
    /\ callers = [c \in Caller |-> None]
    /\ attempts = [p \in Probe |-> Never]
    /\ flights = [p \in Probe |-> None]
    /\ spawns = [t \in 0 .. MaxNow |-> 0]
    /\ listener = None /\ process = None /\ mac = None

----------------------------------------------------------------------------
(* run() and reserve(): what a caller starts, one probe after the other.   *)

\* Mutant: children of the window before are not counted.
ReservesNow(p, activity, counts) == counts[now] + Spawns[p] <= Budget[activity]

Started(at, counts) == FoldFunctionOnSet(+, 0, counts, {t \in 0 .. at : at - t < BudgetWindow})

Reserves(p, activity, counts) == Started(now, counts) + Spawns[p] <= Budget[activity]

Runs(p, activity, force) ==
    /\ flights[p] = None
    /\ Cadence[p][activity] # None
    /\ force \/ now - attempts[p] >= Cadence[p][activity]

\* The probes of ps that are due, in their order: each reserves before the next.
RunsFirst(p, activity, force, counts) == Runs(p, activity, force) /\ Reserves(p, activity, counts)
Spawned(p, counts) == [counts EXCEPT ![now] = @ + Spawns[p]]

----------------------------------------------------------------------------
(* sample() and readProcess().                                             *)

Full(ctx) == ctx.port /\ ctx.activity # "glance"

Matches(ctx) == listener # None /\ listener.generation = ctx.generation

\* sample: memory first, then the process; a new generation forgets the one
\* shown and looks for the listener at once.
Sample(c, ctx) ==
    LET memory  == RunsFirst("memory", ctx.activity, FALSE, spawns)
        after   == IF memory THEN Spawned("memory", spawns) ELSE spawns
        changed == ~ Matches(ctx)
        looks   == Full(ctx) /\ RunsFirst("listener", ctx.activity, changed, after)
    IN  /\ callers[c] = None /\ samples < MaxSamples
        /\ samples' = samples + 1
        /\ callers' = [callers EXCEPT ![c] = [ctx |-> ctx, at |-> IF Full(ctx) THEN "listener" ELSE "parts"]]
        /\ spawns' = IF looks THEN Spawned("listener", after) ELSE after
        /\ attempts' = [attempts EXCEPT !["memory"] = IF memory THEN now ELSE @,
                                        !["listener"] = IF looks THEN now ELSE @]
        /\ flights' = [flights EXCEPT !["memory"] = IF memory THEN [life |-> 0] ELSE @,
                                      !["listener"] = IF looks THEN [generation |-> ctx.generation] ELSE @]
        /\ process' = IF Full(ctx) /\ listener # None /\ changed THEN None ELSE process
        /\ UNCHANGED <<now, world, listener, mac>>

\* A caller goes on as soon as the flight it awaits is over.
Goes(c) == callers[c] # None /\ \/ callers[c].at = "listener" /\ flights["listener"] = None
                                \/ callers[c].at = "footprint" /\ flights["footprint"] = None
Waits == \A c \in Caller : ~ Goes(c)

\* What a footprint of the number reports now.
Behind(pid) == IF server.pid = pid THEN [life |-> server.life, name |-> server.name, peak |-> server.peak] ELSE None

\* After the listener: only that of this generation is asked for its footprint.
Resume(c) ==
    LET ctx   == callers[c].ctx
        finds == Matches(ctx) /\ listener.pid # None
        asks  == finds /\ RunsFirst("footprint", ctx.activity, FALSE, spawns)
    IN  /\ Goes(c)
        /\ callers' = [callers EXCEPT ![c].at = IF @ = "listener" /\ finds THEN "footprint" ELSE "parts"]
        /\ IF callers[c].at = "listener" /\ asks
           THEN /\ attempts' = [attempts EXCEPT !["footprint"] = now]
                /\ spawns' = Spawned("footprint", spawns)
                /\ flights' = [flights EXCEPT !["footprint"] = [listener |-> listener, report |-> Behind(listener.pid)]]
           ELSE UNCHANGED <<attempts, spawns, flights>>
        /\ UNCHANGED <<now, world, samples, listener, process, mac>>

\* Mutant: whatever the number reports is taken for the process.
SameProcessAny(first, next) == TRUE

\* lsof ends: the one process it names, or none.
ListenerEnds(found) ==
    /\ Waits /\ flights["listener"] # None
    /\ found \in {server.pid, None}
    /\ listener' = [generation |-> flights["listener"].generation, pid |-> found,
                    found |-> Behind(found), identity |-> None, nth |-> samples]
    /\ attempts' = [attempts EXCEPT !["footprint"] = Never]
    /\ process' = IF found = None THEN None ELSE process
    /\ flights' = [flights EXCEPT !["listener"] = None]
    /\ UNCHANGED <<now, world, samples, callers, spawns, mac>>

\* Mutant: a report counts although the listener was looked up again meanwhile.
IsCurrentAlways(l) == listener # None

\* sameProcess: the number keeps its name, and its peak never shrinks.
SameProcess(first, next) == first = None \/ (next.name = first.name /\ next.peak >= first.peak)

IsCurrent(l) == listener = l

\* footprint ends with the report of whatever had the number meanwhile, or none;
\* what it says is what the next one is compared with.
FootprintEnds(report) ==
    LET asked == flights["footprint"].listener
        same  == report # None /\ SameProcess(asked.identity, report)
    IN  /\ flights' = [flights EXCEPT !["footprint"] = None]
        /\ IF ~ IsCurrent(asked)
           THEN UNCHANGED <<listener, process>>
           ELSE /\ listener' = IF same THEN [asked EXCEPT !.identity = [name |-> report.name, peak |-> report.peak]]
                              ELSE None
                /\ process' = IF same THEN [report |-> report, found |-> asked.found,
                                          generation |-> asked.generation, at |-> now]
                              ELSE None
        /\ UNCHANGED <<now, world, samples, callers, attempts, spawns, mac>>

FootprintsEnd ==
    /\ Waits /\ flights["footprint"] # None
    /\ \E report \in {None, flights["footprint"].report, Behind(flights["footprint"].listener.pid)} :
           FootprintEnds(report)

\* Mutant: a part is given however old it is.
FreshEver(at, p) == at # None

MemoryEnds(reads) ==
    /\ Waits /\ flights["memory"] # None
    /\ flights' = [flights EXCEPT !["memory"] = None]
    /\ mac' = IF reads THEN now ELSE mac
    /\ UNCHANGED <<now, world, samples, callers, attempts, spawns, listener, process>>

Fresh(at, p) == at # None /\ now - at <= PartLife[p]

\* The parts are in: what the caller is given of them.
Given(c) ==
    [mac |-> IF Fresh(mac, "memory") THEN mac ELSE None,
     process |-> IF process # None /\ callers[c].ctx.port /\ Fresh(process.at, "footprint")
                 THEN process ELSE None]

IsGiven(c) == /\ Waits /\ callers[c] # None
              /\ callers[c].at = "parts" /\ flights["memory"] = None

Return(c) ==
    /\ IsGiven(c)
    /\ callers' = [callers EXCEPT ![c] = None]
    /\ UNCHANGED <<now, world, samples, attempts, flights, spawns, listener, process, mac>>

----------------------------------------------------------------------------
(* The environment.                                                        *)

Calls == \E c \in Caller, reads \in Context :
             Waits /\ Sample(c, [activity |-> reads.activity, port |-> reads.port, generation |-> generation])

\* Another process listens, of any name and with a new peak, under any number but
\* one lsof has just found.
Restarts ==
    /\ restarts < MaxRestarts
    /\ \E pid \in Pid :
           /\ listener # None /\ listener.identity = None => pid # listener.pid
           /\ \E name \in Name : server' = [life |-> server.life + 1, pid |-> pid, name |-> name, peak |-> 1]
    /\ restarts' = restarts + 1
    /\ UNCHANGED <<now, generation, samples, callers, attempts, flights, spawns, listener, process, mac>>

Grows ==
    /\ server.peak < MaxPeak
    /\ server' = [server EXCEPT !.peak = @ + 1]
    /\ UNCHANGED <<now, generation, restarts, samples, callers, attempts, flights, spawns, listener, process, mac>>

\* The connection notices that the server is another one.
Notices ==
    /\ generation < server.life
    /\ generation' = server.life
    /\ UNCHANGED <<now, server, restarts, samples, callers, attempts, flights, spawns, listener, process, mac>>

Passes == now < MaxNow /\ Waits /\ now' = now + 1
          /\ UNCHANGED <<world, samples, callers, attempts, flights, spawns, listener, process, mac>>

HostNext ==
    \/ Calls \/ Restarts \/ Grows \/ Notices \/ Passes
    \/ \E c \in Caller : Resume(c) \/ Return(c)
    \/ FootprintsEnd
    \/ \E ok \in BOOLEAN : MemoryEnds(ok)
    \/ \E pid \in Pid \cup {None} : ListenerEnds(pid)

----------------------------------------------------------------------------
(* Properties.                                                             *)

\* Whatever tiers and frames read, no window has more children than the most
\* active of them may start.
SpawnsAreBounded == \A t \in 0 .. MaxNow : Started(t, spawns) <= Max({Budget[a] : a \in DOMAIN Budget})

\* What a frame is given was sampled lately, and a footprint is that of the process
\* lsof had found or of one that has its name and at least the peak it had then: what
\* was given its number since is noticed if its name is another or its peak smaller.
PartsAreTrue ==
    \A c \in {d \in Caller : IsGiven(d)} :
        LET given == Given(c)
        IN  /\ given.mac # None => now - given.mac <= PartLife["memory"]
            /\ given.process # None => /\ now - given.process.at <= PartLife["footprint"]
                                       /\ given.process.report.name = given.process.found.name
                                       /\ given.process.report.peak >= given.process.found.peak

HostIsTrue == SpawnsAreBounded /\ PartsAreTrue

\* "A process that reused the PID starts a new peak, so it fails the check and the
\* listener is looked up again" (footprint.ts:30): a footprint is that of the process
\* lsof had found.
ReuseIsNoticed ==
    \A c \in {d \in Caller : IsGiven(d)} :
        Given(c).process # None => Given(c).process.report.life = Given(c).process.found.life

\* What line 206 and the reset of line 193 are for: once a frame's connection
\* has noticed another server, it is not given the footprint of the one before.
FootprintIsOfTheGeneration ==
    \A c \in {d \in Caller : IsGiven(d)} :
        Given(c).process # None => Given(c).process.report.life >= callers[c].ctx.generation
=============================================================================
