------------------------------ MODULE LmStudio ------------------------------
(***************************************************************************)
(* service/adapters/lmstudio.ts and lmstudio-cli.ts: one connection to LM  *)
(* Studio.  A read asks the greeting, the inventory of the current API and *)
(* the list of the former one, which says what is loaded; only if the      *)
(* ports the application recorded name this connection, and it has just    *)
(* greeted, does it run lms beside it, whose children are spaced, shared   *)
(* by concurrent callers and may outlive the read that started them.  The  *)
(* application starts again on other ports, and another one may answer     *)
(* through a tunnel on the connection's port.  Model names, formats, the   *)
(* texts lms prints and the log stream itself (Activity) are left out.     *)
(***************************************************************************)
EXTENDS Integers, FiniteSets

CONSTANTS
    Model,          \* instance ids
    Rest, Internal, \* ports the application records
    Conn,           \* the connection's port
    GreetingWindow, \* GREETING_WINDOW_MS
    GreetingEvery,  \* GREETING_EVERY_MS
    PortsEvery,     \* PORTS_EVERY_MS
    PsMin, PsEvery, \* LMS_PS_MIN_MS, LMS_PS_EVERY_MS
    EnginesLife,    \* LMS_RUNTIME_CACHE_MS
    Deadline,       \* how long a read may wait
    None,
    Server,         \* which routes a server has, and whether it lists a row Scope cannot read
    Tick,           \* how far time may jump between reads
    MaxReads, MaxUpsets     \* bounds

Command == {"ps", "runtime-ls"}
Window == {1}

\* What a child is asked, and what it came to.
Rows == UNION {[models -> Window] : models \in SUBSET Model}
Children == [port : Internal, generation : Int, at : Int, found : {None} \cup Rows]
Outcomes == [port : Internal, generation : Int, at : Int, failed : BOOLEAN,
             value : {None} \cup [rows : Rows, port : Internal]]

Never == -100

LmAssumption ==
    /\ IsFiniteSet(Model)
    /\ Internal # {}
    /\ Tick \subseteq Nat
    /\ PortsEvery \in Nat \ {0}
    /\ {PsMin, PsEvery, GreetingWindow, GreetingEvery} \subseteq Nat
    /\ PsMin <= PsEvery
    /\ Never + GreetingWindow < 0 /\ Never + GreetingEvery < 0
    /\ None \notin Int \cup Internal \cup Children \cup Outcomes

\* A model is not loaded, loads, or is loaded with a window.
States == {0, 2} \cup Window
Loading == 2

VARIABLES
    now, reads, changes, faults,
    app,        \* the application: its ports and its models, or None
    record,     \* the ports its files name
    tunnel,     \* the models of what answers on Conn when the application does not, or None
    apis,       \* the routes the servers have, and whether a row is one Scope cannot read
    adapter,    \* legacy, greetedAt, key, generation
    ports,      \* this.ports
    lastRows,   \* lastPs and lastEngines, by command
    cached,     \* the cli's ps and engines, by command
    child,      \* psFlight and enginesFlight, by command
    read,       \* the read in progress, or None
    shown,      \* the last reading, or None
    spawns      \* history: the last child started, by command

lmVars == <<now, reads, changes, faults, app, record, tunnel, apis, adapter, ports, lastRows, cached, child, read, shown, spawns>>
outside == <<reads, changes, app, record, tunnel, apis>>

\* Another application, behind a tunnel.
Other(greets) == [greets |-> greets, models |-> [m \in Model |-> Loading]]

LmInit ==
    /\ now = 0 /\ reads = 0 /\ changes = 0 /\ faults = 0
    /\ \E r \in Rest : app = [rest |-> r, internal |-> CHOOSE p \in Internal : TRUE,
              models |-> [m \in Model |-> 1]]
    /\ record = [rest |-> app.rest, internal |-> app.internal]
    /\ tunnel = IF app.rest = Conn THEN None ELSE Other(TRUE)
    /\ apis \in Server
    /\ adapter = [legacy |-> FALSE, greetedAt |-> Never, key |-> None, generation |-> 0]
    /\ ports = None
    /\ lastRows = [c \in Command |-> None]
    /\ cached = [c \in Command |-> None]
    /\ child = [c \in Command |-> None]
    /\ read = None /\ shown = None /\ spawns = [c \in Command |-> None]

Bound == app # None /\ app.rest = Conn

\* What answers on the connection's port: its models, None if nothing does.  The
\* other one may be of a build without the greeting.
Answering == IF Bound THEN app.models ELSE IF tunnel = None THEN None ELSE tunnel.models
Greets == IF Bound THEN apis.greets ELSE tunnel.greets

----------------------------------------------------------------------------
(* Inventories and readings.                                               *)

\* parseV1Models: every instance with its window; a model that loads is not listed.
V1Of(models) == [loaded |-> [m \in {x \in Model : models[x] \in Window} |-> models[m]],
                 loading |-> {}, countKnown |-> ~ apis.odd]

\* parseV0Models: the load states, without windows.
V0Of(models) == [loaded |-> [m \in {x \in Model : models[x] \in Window} |-> None],
                 loading |-> {m \in Model : models[m] = Loading}, countKnown |-> ~ apis.odd]

\* modelsGenerationKey and instancesKey: the models' states, or the instances.
StatesKey(models) == <<"v0", [m \in Model |-> IF models[m] \in Window THEN 1 ELSE models[m]]>>
InstancesKey(v1) == <<"v1", v1.loaded>>

\* residencyOf: lms's row first, then what the inventory says.
Row(inventory, ps, m) ==
    IF ps # None /\ m \in DOMAIN ps.rows
    THEN [source |-> "lms-ps", window |-> ps.rows[m], of |-> ps]
    ELSE [source |-> "runtime", window |-> inventory.loaded[m], of |-> None]

\* Mutant: an unreadable row is taken for none.
CountAll(inventory) == Cardinality(DOMAIN inventory.loaded)

LoadedCount(inventory) == IF inventory.countKnown THEN Cardinality(DOMAIN inventory.loaded) ELSE None

\* The phase while no request is in flight, which only the log stream tells.
PhaseOf(inventory) ==
    IF inventory.loading # {} THEN "loading"
    ELSE IF LoadedCount(inventory) = 0 THEN "not-loaded"
    ELSE IF apis.stream /\ LoadedCount(inventory) # None THEN "idle" ELSE "unknown"

Reading(ps) ==
    LET inventory == read.inventory IN
    [state |-> IF read.blocked THEN "lms_unavailable" ELSE "ready",
     models |-> read.models, port |-> read.port, key |-> read.key,
     phase |-> PhaseOf(inventory),
     rows |-> [m \in DOMAIN inventory.loaded |-> Row(inventory, ps, m)],
     loading |-> inventory.loading \ DOMAIN inventory.loaded,
     residencyCount |-> IF LoadedCount(inventory) = None THEN None
                        ELSE Cardinality(DOMAIN inventory.loaded \cup inventory.loading)]

----------------------------------------------------------------------------
(* createLmsCli: when a child is started, and what a caller gets.          *)

Kept(last, port) == IF last # None /\ last.port = port THEN last.value ELSE None

\* Mutant: a change is asked about at once.
PsDueAtOnce(last, port, generation) ==
    \/ last = None \/ now - last.at >= PsEvery
    \/ last.port # port \/ last.generation # generation \/ last.failed

\* ps: for a change, but not too soon after the last attempt, or after a while.
PsDue(last, port, generation) ==
    \/ last = None \/ now - last.at >= PsEvery
    \/ /\ last.port # port \/ last.generation # generation \/ last.failed
       /\ now - last.at >= PsMin

EnginesDue(last, port) ==
    ~ (/\ last # None /\ last.port = port
       /\ now - last.at < (IF last.failed THEN PsMin ELSE EnginesLife))

\* What a call returns without a child.
Cached(c, port) == IF c = "ps" THEN Kept(cached[c], port)
                   ELSE IF cached[c] = None THEN None ELSE cached[c].value

\* What lms finds as it starts: what the application behind that port has loaded.
Found(port) == IF app = None \/ app.internal # port THEN None
               ELSE [m \in {x \in Model : app.models[x] \in Window} |-> app.models[m]]

\* lms ends: with what it found, or without.
ChildEnds(c, fails) ==
    LET asked == child[c]
        right == ~ fails /\ asked.found # None
        value == IF right THEN [rows |-> asked.found, port |-> asked.port]
                 ELSE Kept(cached[c], asked.port)
    IN  /\ asked # None
        /\ cached' = [cached EXCEPT ![c] = [port |-> asked.port, at |-> asked.at, generation |-> asked.generation,
                                           failed |-> ~ right, value |-> value]]
        /\ child' = [child EXCEPT ![c] = None]
        /\ read' = IF read # None /\ read.at = "lms" /\ c \in read.waits
                   THEN [read EXCEPT !.waits = @ \ {c}, !.got = [@ EXCEPT ![c] = value]] ELSE read
        /\ faults' = IF fails THEN faults + 1 ELSE faults
        /\ UNCHANGED <<now, outside, adapter, ports, lastRows, shown, spawns>>

----------------------------------------------------------------------------
(* read(): one at a time.                                                  *)

Ends(reading) == read' = None /\ shown' = reading

\* Nothing has greeted for a while.
GreetingDue(at) == at - adapter.greetedAt >= GreetingEvery

\* The next read begins a while after the former: as a glance, a whole frame or
\* one of the Server tab.  greet() asks first; with nothing there, the read fails.
Begin(wanted, wait) ==
    /\ read = None /\ reads < MaxReads
    /\ reads' = reads + 1 /\ now' = now + wait
    /\ IF GreetingDue(now') /\ Answering = None
       THEN Ends(None) /\ UNCHANGED adapter
       ELSE /\ adapter' = IF GreetingDue(now') /\ Greets THEN [adapter EXCEPT !.greetedAt = now'] ELSE adapter
            /\ read' = [at |-> "v1", began |-> now', wanted |-> wanted, v1 |-> None, models |-> None]
            /\ shown' = None
    /\ UNCHANGED <<faults, changes, app, record, tunnel, apis, ports, lastRows, cached, child, spawns>>

\* inventory(), first: a server without the route is asked no more; an error ends the read.
AskV1(fails) ==
    /\ read # None /\ read.at = "v1"
    /\ faults' = IF fails THEN faults + 1 ELSE faults
    /\ IF ~ adapter.legacy /\ (fails \/ Answering = None)
       THEN Ends(None) /\ UNCHANGED adapter
       ELSE /\ adapter' = [adapter EXCEPT !.legacy = @ \/ ~ apis.v1]
            /\ read' = [read EXCEPT !.at = "v0", !.models = Answering,
                            !.v1 = IF adapter.legacy \/ ~ apis.v1 THEN None ELSE V1Of(Answering)]
            /\ UNCHANGED shown
    /\ UNCHANGED <<now, outside, ports, lastRows, cached, child, spawns>>

\* Mutant: an application that once greeted is taken for running.
GreetedEver == adapter.greetedAt # Never

Greeted == now - adapter.greetedAt <= GreetingWindow

\* localPorts(): what the application recorded, read again now and then.
PortsNow == IF ports = None \/ now - ports.at >= PortsEvery THEN [at |-> now, value |-> record] ELSE ports

\* Mutant: any connection may use lms.
IsBoundAny(value) == value.internal # None

\* Only the connection on the port this Mac's application recorded uses lms.
IsBound(value) == value.internal # None /\ value.rest = Conn

\* inventory(), then: what is known of the models, and the children wanted for it.
AskV0(fails) ==
    LET v0     == apis.v0 /\ ~ fails /\ Answering # None
        known  == read.v1 # None \/ v0
        models == Answering
        inventory == IF read.v1 # None
                     THEN [read.v1 EXCEPT !.loading = IF v0 THEN V0Of(models).loading ELSE {}]
                     ELSE V0Of(models)
        key    == IF v0 THEN StatesKey(models) ELSE InstancesKey(read.v1)
        port   == IF IsBound(PortsNow.value) /\ Greeted THEN PortsNow.value.internal ELSE None
        wanted == IF port = None THEN {} ELSE read.wanted
        generation == IF key # adapter.key THEN adapter.generation + 1 ELSE adapter.generation
        starts(c) == child[c] = None /\ IF c = "ps" THEN PsDue(cached[c], port, generation) ELSE EnginesDue(cached[c], port)
        awaited == {c \in wanted : child[c] # None \/ starts(c)}
    IN  /\ read # None /\ read.at = "v0"
        /\ faults' = IF fails THEN faults + 1 ELSE faults
        /\ IF Answering = None \/ ~ known
           THEN Ends(None) /\ UNCHANGED <<adapter, ports, child, spawns>>
           ELSE /\ adapter' = [adapter EXCEPT !.key = key, !.generation = generation]
                /\ ports' = PortsNow
                /\ child' = [c \in Command |->
                                 IF c \in wanted /\ starts(c)
                                 THEN [port |-> port, generation |-> generation, at |-> now, found |-> Found(port)]
                                 ELSE child[c]]
                /\ spawns' = [c \in Command |->
                       IF c \in wanted /\ starts(c)
                       THEN [at |-> now, spaced |-> spawns[c] = None \/ now - spawns[c].at >= PsMin, bound |-> ports'.value.rest,
                             greeting |-> now - adapter.greetedAt, recorded |-> now - ports'.at]
                       ELSE spawns[c]]
                /\ read' = [at |-> "lms", began |-> read.began, models |-> IF read.v1 = None THEN models ELSE read.models,
                            inventory |-> inventory, key |-> key, port |-> port,
                            blocked |-> IsBound(PortsNow.value) /\ ~ Greeted, waits |-> awaited,
                            got |-> [c \in Command |-> IF c \in wanted \ awaited THEN Cached(c, port) ELSE None]]
                /\ UNCHANGED shown
        /\ UNCHANGED <<now, outside, lastRows, cached>>

\* The reading is made of what came in time; rows of another port are not shown.
Finish ==
    LET rows == [c \in Command |-> IF read.port # None /\ read.got[c] # None
                                   THEN [port |-> read.port, rows |-> read.got[c]] ELSE lastRows[c]]
        ps   == IF read.port # None /\ rows["ps"] # None /\ rows["ps"].port = read.port
                THEN rows["ps"].rows ELSE None
    IN  /\ read # None /\ read.at = "lms"
        /\ read.waits = {} \/ now - read.began >= Deadline
        /\ lastRows' = rows
        /\ Ends(Reading(ps))
        /\ UNCHANGED <<now, faults, outside, adapter, ports, cached, child, spawns>>

----------------------------------------------------------------------------
(* The environment.                                                        *)

Change == changes + faults < MaxUpsets /\ (reads < MaxReads \/ read # None) /\ changes' = changes + 1
          /\ UNCHANGED <<now, reads, faults, apis, adapter, ports, lastRows, cached, child, read, shown, spawns>>

\* A model is loaded or unloaded.
Loads == /\ app # None /\ UNCHANGED <<tunnel, record>>
         /\ \E m \in Model, s \in States :
                s # app.models[m] /\ app' = [app EXCEPT !.models[m] = s]
         /\ Change

\* The application quits, clearing its files unless it crashed, and starts again on other ports.
Quits == /\ app # None /\ app' = None /\ UNCHANGED tunnel
         /\ record' \in {record, [rest |-> None, internal |-> None]}
         /\ Change
Restarts == /\ app = None /\ UNCHANGED tunnel
            /\ \E r \in Rest, i \in Internal, s \in {0, 1} :
                   /\ app' = [rest |-> r, internal |-> i, models |-> [m \in Model |-> s]]
                   /\ record' = [rest |-> r, internal |-> i]
            /\ Change
Tunnels == /\ tunnel = None /\ app = None /\ \E g \in BOOLEAN : tunnel' = Other(g)
           /\ UNCHANGED <<app, record>> /\ Change

Passes == /\ read # None /\ now - read.began < Deadline
          /\ now' = now + 1
          /\ UNCHANGED <<faults, outside, adapter, ports, lastRows, cached, child, read, shown, spawns>>

Fault == {FALSE} \cup (IF changes + faults < MaxUpsets THEN {TRUE} ELSE {})

LmNext ==
    \/ Finish \/ Loads \/ Quits \/ Restarts \/ Tunnels \/ Passes
    \/ \E wanted \in {{}, {"ps"}, Command}, wait \in Tick : Begin(wanted, wait)
    \/ \E fails \in Fault : AskV1(fails) \/ AskV0(fails)
    \/ \E c \in Command, fails \in Fault : ChildEnds(c, fails)

----------------------------------------------------------------------------
(* Properties.                                                             *)

\* lms is run only beside an application that answered a moment ago, for the
\* connection it recorded then; lists of models are spaced and never overlap.
LmsIsWanted == \A c \in Command : spawns[c] # None =>
    /\ spawns[c].greeting <= GreetingWindow
    /\ spawns[c].bound = Conn /\ spawns[c].recorded < PortsEvery
    /\ c = "ps" => spawns[c].spaced

\* "Not loaded" and a count are told only of a server whose every row was read.
InventoryIsKnown ==
    shown # None =>
        /\ shown.phase = "not-loaded" =>
               ~ apis.odd /\ \A m \in Model : shown.models[m] \notin Window
        /\ shown.residencyCount # None => ~ apis.odd
        /\ \A m \in DOMAIN shown.rows : shown.rows[m].source = "lms-ps" => shown.port # None

LmIsReadRightly == LmsIsWanted /\ InventoryIsKnown

\* What lmstudio-cli.test.ts:159 says of ps: another internal port "never
\* reports the old app instance".  A child under way is shared whatever its port.
RowsAreOfTheirPort ==
    shown # None => \A m \in DOMAIN shown.rows :
        shown.rows[m].of # None => shown.rows[m].of.port = shown.port

\* What runtime-client.ts:328 says of the key: it changes as LM Studio loads or
\* unloads a model.  It is another one as well when the former list fails once.
KeyIsOfOneList == shown # None => shown.key[1] = IF apis.v0 THEN "v0" ELSE "v1"
=============================================================================
