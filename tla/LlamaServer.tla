----------------------------- MODULE LlamaServer -----------------------------
(***************************************************************************)
(* service/adapters/llama-server.ts: what the adapter reads of a server    *)
(* that goes to sleep when it is idle, and wakes when /slots is read.      *)
(*                                                                         *)
(* The server is external.  A read is several requests, between which the  *)
(* server goes on; mono, the time at which it began, stands for all of it. *)
(* Of the slots only whether one is busy is told; SlotWatch has the rest.  *)
(* Rates, the catalogue and what else a reading holds are left out.        *)
(***************************************************************************)
EXTENDS Integers

CONSTANTS
    Model,
    None,
    MetricsEvery, SlotGap, PropsEvery,      \* LLAMA_METRICS_EVERY_MS, LLAMA_SLOT_GAP_MS, LLAMA_PROPS_EVERY_MS
    Deadline,       \* of a read
    SleepAfter,     \* the server's --sleep-idle-seconds
    MaxNow, MaxReads, MaxFaults     \* bounds

\* /slots is read again as long after its last reading as work in /metrics is recent.
LlamaAssumption ==
    /\ Model # {}
    /\ {MetricsEvery, SlotGap, PropsEvery, Deadline, SleepAfter} \subseteq Nat
    /\ SlotGap <= 2 * MetricsEvery

VARIABLES
    now,
    server,     \* up, model, asleep, busy, idleSince
    adapter,    \* LlamaAdapter's fields; of its scrapes the latest
    watch,      \* SlotWatch's previous: when, and whether a slot was busy; or None
    read,       \* the read under way
    woken,      \* history: how long the sleeping servers a read of /slots reached had been idle
    idled,      \* history: one was made though the latest scrape shows no work
    reads, faults

llamaVars == <<now, server, adapter, watch, read, woken, idled, reads, faults>>
External == <<now, server>>

Never == -100
newAdapter == [props |-> None, triedAt |-> Never, reloaded |-> FALSE, wokeAt |-> Never, off |-> FALSE, scrape |-> None, slotsIdleAt |-> Never]
noRead == [pc |-> "none", mono |-> 0]

Go(pc) == read' = [read EXCEPT !.pc = pc]
Done == read' = noRead

----------------------------------------------------------------------------
(* The read: /health, /props, /metrics, /slots.                            *)

Room == now - read.mono < Deadline

Begin ==
    /\ read.pc = "none" /\ reads < MaxReads
    /\ read' = [pc |-> "health", mono |-> now] /\ reads' = reads + 1
    /\ UNCHANGED <<adapter, watch, woken, idled, faults, External>>

Health ==
    /\ read.pc = "health"
    /\ IF server.up THEN Go("props") /\ UNCHANGED adapter
       ELSE adapter' = [adapter EXCEPT !.reloaded = TRUE] /\ Done
    /\ UNCHANGED <<watch, woken, idled, reads, faults, External>>

\* loadProps: at most once in PropsEvery, or after loading; another model starts over.
Props ==
    LET mono == read.mono
        parsed == [at |-> mono, sleeping |-> server.asleep, model |-> server.model]
        other == adapter.props # None /\ adapter.props.model # parsed.model
    IN  /\ read.pc = "props"
        /\ IF ~adapter.reloaded /\ mono - adapter.triedAt < PropsEvery
           THEN (IF adapter.props = None THEN Done ELSE Go("metrics")) /\ UNCHANGED <<adapter, watch, faults>>
           ELSE IF ~server.up THEN Done /\ UNCHANGED <<adapter, watch, faults>>
           ELSE \/ /\ adapter' = [adapter EXCEPT !.props = parsed, !.triedAt = mono, !.off = FALSE, !.reloaded = FALSE,
                                                 !.scrape = IF other THEN None ELSE @]
                   /\ watch' = IF other THEN None ELSE watch
                   /\ Go("metrics") /\ UNCHANGED faults
                \* a failed answer keeps the last one
                \/ /\ faults < MaxFaults /\ faults' = faults + 1
                   /\ adapter' = [adapter EXCEPT !.triedAt = mono, !.reloaded = FALSE]
                   /\ (IF adapter.props = None THEN Done ELSE Go("metrics")) /\ UNCHANGED watch
        /\ UNCHANGED <<woken, idled, reads, External>>

ScrapeIsDue == ~adapter.off /\ (adapter.scrape # None => read.mono - adapter.scrape.at >= MetricsEvery) /\ Room

\* scrape: one may fail, find the server loading, or find no such route, which is then left alone until the next /props.
Scrape ==
    LET taken == [at |-> read.mono, work |-> server.busy]
        woke == adapter.props.sleeping /\ taken.at > adapter.props.at /\ taken.work
    IN  /\ read.pc = "metrics"
        /\ IF ~ScrapeIsDue THEN Go("slots") /\ UNCHANGED <<adapter, faults>>
           ELSE IF ~server.up THEN adapter' = [adapter EXCEPT !.reloaded = TRUE] /\ Done /\ UNCHANGED faults
           ELSE /\ Go("slots")
                /\ \/ adapter' = [adapter EXCEPT !.scrape = taken, !.wokeAt = IF woke THEN taken.at ELSE @] /\ UNCHANGED faults
                   \/ faults < MaxFaults /\ faults' = faults + 1 /\ (UNCHANGED adapter \/ adapter' = [adapter EXCEPT !.off = TRUE])
        /\ UNCHANGED <<watch, woken, idled, reads, External>>

Latest == IF adapter.off THEN None ELSE adapter.scrape
Asleep == adapter.props.sleeping /\ adapter.wokeAt <= adapter.props.at

\* Mutant: an old scrape says as much as a recent one.
WorkingEver == Latest # None /\ Latest.work /\ Latest.at > adapter.slotsIdleAt

\* Work in a recent scrape taken after the last idle read of /slots.
Working == Latest # None /\ Latest.work /\ Latest.at > adapter.slotsIdleAt /\ read.mono - Latest.at <= 2 * MetricsEvery

Following == watch # None /\ read.mono - watch.mono <= SlotGap /\ watch.busy

\* The read of /slots wakes the server, or puts off its sleep.
Slots ==
    /\ read.pc = "slots" /\ Done
    /\ IF ~(~adapter.off /\ ~Asleep /\ Latest # None /\ (Working \/ Following) /\ Room /\ server.up)
       THEN UNCHANGED <<server, adapter, watch, woken, idled>>
       ELSE /\ server' = [server EXCEPT !.asleep = FALSE, !.idleSince = now]
            /\ adapter' = IF server.busy THEN adapter ELSE [adapter EXCEPT !.slotsIdleAt = read.mono]
            /\ watch' = [mono |-> read.mono, busy |-> server.busy]
            /\ woken' = (IF server.asleep THEN woken \cup {now - server.idleSince} ELSE woken)
            /\ idled' = (idled \/ ~Latest.work)
    /\ UNCHANGED <<now, reads, faults>>

----------------------------------------------------------------------------
(* The server.                                                             *)

Inner == <<adapter, watch, read, woken, idled, reads>>

Start ==
    /\ server.up /\ ~server.busy
    /\ server' = [server EXCEPT !.asleep = FALSE, !.busy = TRUE]
    /\ UNCHANGED <<now, faults, Inner>>

End ==
    /\ server.busy
    /\ server' = [server EXCEPT !.busy = FALSE, !.idleSince = now]
    /\ UNCHANGED <<now, faults, Inner>>

Sleep ==
    /\ server.up /\ ~server.asleep /\ ~server.busy /\ now - server.idleSince >= SleepAfter
    /\ server' = [server EXCEPT !.asleep = TRUE]
    /\ UNCHANGED <<now, faults, Inner>>

\* The model is changed while nothing runs: the server is loading, then up.
Reload ==
    /\ server.up /\ ~server.busy /\ faults < MaxFaults /\ faults' = faults + 1
    /\ \E m \in Model : server' = [server EXCEPT !.up = FALSE, !.model = m, !.asleep = FALSE]
    /\ UNCHANGED <<now, Inner>>

Loaded ==
    /\ ~server.up /\ server' = [server EXCEPT !.up = TRUE, !.idleSince = now]
    /\ UNCHANGED <<now, faults, Inner>>

\* A read ends no later than its deadline.
Tick ==
    /\ now < MaxNow /\ (read.pc # "none" => now - read.mono < Deadline)
    /\ now' = now + 1
    /\ UNCHANGED <<server, faults, Inner>>

LlamaInit ==
    /\ now = 0
    /\ \E m \in Model, busy \in BOOLEAN :
           server = [up |-> TRUE, model |-> m, asleep |-> FALSE, busy |-> busy, idleSince |-> 0]
    /\ adapter = newAdapter /\ watch = None /\ read = noRead
    /\ woken = {} /\ idled = FALSE
    /\ reads = 0 /\ faults = 0

LlamaNext ==
    \/ Begin \/ Health \/ Props \/ Scrape \/ Slots
    \/ Start \/ End \/ Sleep \/ Reload \/ Loaded \/ Tick

----------------------------------------------------------------------------
\* However soon a server sleeps, no read of /slots reaches it asleep once it had no
\* work for as long as a scrape is taken for recent and a read may last: one that
\* sleeps no sooner is never woken, though the adapter goes by an older scrape.
IdleIsLeftAlone == \A age \in woken : age < 2 * MetricsEvery + Deadline

\* "Scope never wakes a sleeping server" (SECURITY.md:64), however soon it sleeps.
NeverWakes == woken = {}

\* docs/COMPATIBILITY.md: "/slots is read only while /metrics reports requests_processing >= 1".
SlotsOnlyWhileWorking == ~idled
==============================================================================
