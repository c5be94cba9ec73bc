------------------------------- MODULE Alerts -------------------------------
(***************************************************************************)
(* The alert book of the service, service/history/alerts.ts, as operators  *)
(* on one record: what a reading does to the episodes (Evaluated) and what *)
(* an answer does to their toasts (Offered).                               *)
(*                                                                         *)
(* Covered: all nine alerts with dwell, hysteresis and gaps, the slots and *)
(* their eviction, the log, the toast limits.  A track the Map lacks is    *)
(* the blank one.  Parameters shown with an alert are left out, save the   *)
(* growth of swap, which decides.                                          *)
(***************************************************************************)
EXTENDS Integers, FiniteSets, Sequences, SequencesExt

CONSTANTS
    Key,            \* connection slots
    None,           \* JavaScript's null and undefined
    Rule,           \* ALERT_RULES: times in ticks, per alert
    Minute, Hour,   \* of the toast limits
    PerHour,        \* TOAST_LIMITS.perHour; a minute allows one
    ToastFresh,     \* TOAST_FRESH_MS
    HostGap,        \* HOST_GAP_MS
    PartFresh,      \* PART_FRESH_MS, per part
    Swap,           \* SWAP_GROWTH: window, span (coverage of it), on, off
    AlertSlots,     \* ALERT_SLOTS
    LogSize         \* MAX_ALERT_LOG

HostAlert == {"pressure-warning", "pressure-critical", "swap-growth", "thermal"}
RuntimeAlert == {"runtime-lost", "model-unloaded", "splash-recovering", "omlx-prefill-stall", "omlx-memory-guard"}
Alert == HostAlert \cup RuntimeAlert

ASSUME AlertsAssumption ==
    /\ Rule \in [Alert -> [onset : Nat, off : Nat, cooldown : Nat, toast : BOOLEAN, rank : 1..3]]
    /\ {ToastFresh, HostGap} \subseteq Nat
    /\ {Minute, Hour, PerHour, AlertSlots, LogSize} \subseteq Nat \ {0} /\ Minute <= Hour
    /\ "host" \notin Key
    /\ None \notin Int \cup Key \cup {"host"}

Host == "host"      \* the owner of the shared tracks, beside the slots
Owner == Key \cup {Host}
AlertOf(o) == IF o = Host THEN HostAlert ELSE RuntimeAlert

Track == [onset : Int \cup {None}, off : Int \cup {None}, episode : Nat \cup {None}]
blank == [onset |-> None, off |-> None, episode |-> None]

\* toast is Undecided until a leader's view decides: then None or a number.
Undecided == 0
Episode == [id : Alert, owner : Owner, since : Int, until : Int \cup {None},
            startedAt : Int, toast : Nat \cup {None}]

\* behind: how many slots were judged after this one, which is the Map's order.
Runtime == [lastAt : Int, behind : Nat, alive : BOOLEAN, loaded : Nat \cup {None}, unloaded : BOOLEAN]

Larger(a, b) == IF a > b THEN a ELSE b

newBook ==
    [tracks |-> [o \in Owner |-> [id \in Alert |-> blank]],
     runtimes |-> [k \in {} |-> None],
     hostAt |-> None, segmentAt |-> None, swap |-> <<>>,
     episodes |-> [n \in {} |-> None], log |-> {}, opened |-> 0,
     granted |-> <<>>, dropped |-> 0, lastToast |-> [id \in Alert |-> None], toastSeq |-> 0,
     forgotten |-> {}]      \* history: the slots ever evicted

\* When the tracks of an owner were last judged.
LastAt(b, o) == IF o = Host THEN b.hostAt ELSE b.runtimes[o].lastAt

----------------------------------------------------------------------------
(* Episodes.                                                               *)

\* Forget the episodes that neither the log nor a track refers to.
Kept(b) ==
    LET held == UNION {{b.tracks[o][id].episode : id \in Alert} : o \in Owner}
    IN  [b EXCEPT !.episodes = [n \in DOMAIN b.episodes \cap (b.log \cup held) |-> b.episodes[n]]]

\* The entry a full log gives up: the earliest since, the first opened of those.
Oldest(b, log) ==
    CHOOSE n \in log : \A m \in log :
        \/ b.episodes[n].since < b.episodes[m].since
        \/ b.episodes[n].since = b.episodes[m].since /\ n <= m

WithTrack(b, o, id, t) == [b EXCEPT !.tracks[o][id] = t]

Opened(b, o, id, since, at) ==
    LET n == b.opened + 1
        e == [id |-> id, owner |-> o, since |-> since, until |-> None, startedAt |-> at, toast |-> Undecided]
        c == [b EXCEPT !.opened = n, !.tracks[o][id].episode = n,
                       !.episodes = [m \in DOMAIN @ \cup {n} |-> IF m = n THEN e ELSE @[m]]]
        log == b.log \cup {n}
    IN  [c EXCEPT !.log = IF Cardinality(log) > LogSize THEN log \ {Oldest(c, log)} ELSE log]

\* Mutant: the episode leaves its track but stays open in the log.
ClosedUnmarked(b, o, id, until) == WithTrack(b, o, id, blank)

\* End the episode of a track, if it has one, and begin the track again.
Closed(b, o, id, until) ==
    LET n == b.tracks[o][id].episode
        c == WithTrack(b, o, id, blank)
    IN  IF n = None THEN c
        ELSE [c EXCEPT !.episodes[n].until = Larger(b.episodes[n].since, until)]

\* A gap in the readings of these owners ends each of their open episodes at its
\* owner's last reading and begins every track again.
Gap(b, owners) ==
    LET ended(e) == [e EXCEPT !.until = Larger(e.since, LastAt(b, e.owner))]
        isOpen(n) == b.tracks[b.episodes[n].owner][b.episodes[n].id].episode = n
    IN  [b EXCEPT !.tracks = [o \in Owner |-> IF o \in owners THEN [id \in Alert |-> blank] ELSE b.tracks[o]],
                  !.episodes = [n \in DOMAIN b.episodes |->
                      IF b.episodes[n].owner \in owners /\ isOpen(n) THEN ended(b.episodes[n]) ELSE b.episodes[n]]]

\* A track as its condition holds or fails at "at", which counts from the first time.
OnsetOf(t, at) == IF t.onset = None THEN at ELSE t.onset
OffOf(t, at)   == IF t.off = None THEN at ELSE t.off

Held(t)        == [t EXCEPT !.off = None]
Dwelling(t, at) == [t EXCEPT !.off = None, !.onset = OnsetOf(t, at)]
Absent(t)      == [t EXCEPT !.onset = None]
Fading(t, at)  == [t EXCEPT !.onset = None, !.off = OffOf(t, at)]

\* The condition of an alert holds: it opens once it has for as long as its rule asks.
Met(b, o, id, at) ==
    LET t == b.tracks[o][id]
        c == WithTrack(b, o, id, Dwelling(t, at))
    IN  IF t.episode # None THEN WithTrack(b, o, id, Held(t))
        ELSE IF at - OnsetOf(t, at) >= Rule[id].onset THEN Opened(c, o, id, OnsetOf(t, at), at)
        ELSE c

\* It does not hold: an open one ends once it has not for as long as its rule asks.
Unmet(b, o, id, at) ==
    LET t == b.tracks[o][id]
    IN  IF t.episode = None THEN WithTrack(b, o, id, Absent(t))
        ELSE IF at - OffOf(t, at) >= Rule[id].off THEN Closed(b, o, id, OffOf(t, at))
        ELSE WithTrack(b, o, id, Fading(t, at))

\* One alert meets its condition at a reading, which may be unknown.
Step(b, o, id, condition, at) ==
    IF condition = None THEN b
    ELSE IF condition THEN Met(b, o, id, at) ELSE Unmet(b, o, id, at)

----------------------------------------------------------------------------
(* A reading of a slot: state of the runtime, loaded models, whether its    *)
(* prefill stalls and its guard is up (both oMLX only).                     *)

\* Slots beyond the limit go, those judged longest ago.
EvictedRuntimes(b) ==
    LET gone == {k \in DOMAIN b.runtimes : b.runtimes[k].behind >= AlertSlots}
    IN  [Gap(b, gone) EXCEPT !.forgotten = @ \cup gone,
                             !.runtimes = [k \in DOMAIN b.runtimes \ gone |-> b.runtimes[k]]]

newRuntime == [lastAt |-> 0, behind |-> 0, alive |-> FALSE, loaded |-> None, unloaded |-> FALSE]

\* The slot, known or past a gap begun again, is the one judged last.
Put(b, k, r, at) ==
    LET known  == k \in DOMAIN b.runtimes
        passed == {j \in DOMAIN b.runtimes : known => b.runtimes[j].behind < b.runtimes[k].behind}
    IN  [b EXCEPT !.runtimes = [j \in DOMAIN b.runtimes \cup {k} |->
            IF j = k THEN [r EXCEPT !.lastAt = at, !.behind = 0]
            ELSE IF j \in passed THEN [b.runtimes[j] EXCEPT !.behind = @ + 1] ELSE b.runtimes[j]]]

Entered(b, k, at, covered) ==
    IF k \notin DOMAIN b.runtimes THEN EvictedRuntimes(Put(b, k, newRuntime, at))
    ELSE IF covered THEN Put(b, k, b.runtimes[k], at)
    ELSE Put(Gap(b, {k}), k, newRuntime, at)

\* What is remembered of a runtime after a reading r.
AliveAfter(s, r) == s.alive \/ r.state \in {"ready", "degraded", "recovering"}

UnloadedAfter(s, r) ==
    IF r.loaded = None THEN s.unloaded
    ELSE r.loaded = 0 /\ (s.unloaded \/ (s.loaded # None /\ s.loaded # 0))

LoadedAfter(s, r) == IF r.loaded = None THEN s.loaded ELSE r.loaded

Counted(s, r) ==
    IF r.state \in {"unreachable", "failing"} THEN [s EXCEPT !.loaded = None, !.unloaded = FALSE]
    ELSE [s EXCEPT !.alive = AliveAfter(s, r), !.loaded = LoadedAfter(s, r), !.unloaded = UnloadedAfter(s, r)]

WithRuntime(b, k, s) == [b EXCEPT !.runtimes[k] = s]

\* The alerts of one slot, in the order they are stepped.
Judged(b, k, r, at, covered) ==
    LET entered == Entered(b, k, at, covered)
        s == Counted(entered.runtimes[k], r)
        b0 == WithRuntime(entered, k, s)
        b1 == Step(b0, k, "runtime-lost", s.alive /\ r.state = "unreachable", at)
        b2 == Step(b1, k, "model-unloaded", s.unloaded, at)
        b3 == Step(b2, k, "splash-recovering", r.state = "recovering", at)
        b4 == Step(b3, k, "omlx-prefill-stall", r.stale, at)
    IN  Step(b4, k, "omlx-memory-guard", r.state \notin {"unreachable", "failing"} /\ r.guard, at)

\* Mutant: a reading of an earlier request is judged like any other.
EvaluatedLate(b, k, r, at, covered) == Judged(b, k, r, at, covered)

\* A request that began before the last one judged says nothing of now.
EvaluatedRuntime(b, k, r, at, covered) ==
    IF k \in DOMAIN b.runtimes /\ at < b.runtimes[k].lastAt THEN b ELSE Judged(b, k, r, at, covered)

----------------------------------------------------------------------------
(* A reading of the host, with the age of its parts at the request.        *)

\* The timeline goes on, or begins again after a gap.
HostSeen(b, at) == [b EXCEPT !.hostAt = at]
HostBegun(b, at) == [b EXCEPT !.hostAt = at, !.segmentAt = at, !.swap = <<>>]

\* Another slot's recent read keeps the host's timeline going.
HostEntered(b, at, covered) ==
    IF b.hostAt = None \/ (~ covered /\ at - b.hostAt > HostGap)
    THEN HostBegun(Gap(b, {Host}), at)
    ELSE HostSeen(b, at)

\* The samples of the window, with this one unless it is of before the segment or old.
SwapAfter(b, sampledAt, bytes, at) ==
    LET news == /\ bytes # None
                /\ sampledAt >= b.segmentAt
                /\ b.swap = <<>> \/ sampledAt > Last(b.swap).at
        all  == IF news THEN Append(b.swap, [at |-> sampledAt, bytes |-> bytes]) ELSE b.swap
    IN  SelectSeq(all, LAMBDA p : p.at >= at - Swap.window)

SwapGrows(b, at) ==
    LET span == IF at - b.segmentAt < Swap.window THEN at - b.segmentAt ELSE Swap.window
        growth == Last(b.swap).bytes - Min({b.swap[i].bytes : i \in DOMAIN b.swap})
    IN  IF b.tracks[Host]["swap-growth"].episode # None THEN growth >= Swap.off
        ELSE span >= Swap.span /\ growth >= Swap.on

WithSwap(b, swap) == [b EXCEPT !.swap = swap]

SteppedSwap(b, sampledAt, bytes, at) ==
    LET c == WithSwap(b, SwapAfter(b, sampledAt, bytes, at))
    IN  Step(c, Host, "swap-growth", IF bytes = None \/ c.swap = <<>> THEN None ELSE SwapGrows(c, at), at)

\* Critical pressure supersedes a warning, which may start again after it.
SteppedPressure(b, level, at) ==
    LET is(n) == IF level = None THEN None ELSE level = n
        c     == Step(b, Host, "pressure-critical", is(4), at)
    IN  IF c.tracks[Host]["pressure-critical"].episode # None THEN Closed(c, Host, "pressure-warning", at)
        ELSE Step(c, Host, "pressure-warning", is(2), at)

EvaluatedHost(b, h, at, covered) ==
    IF b.hostAt # None /\ at < b.hostAt THEN b
    ELSE LET mac     == h # None /\ h.age <= PartFresh.mac
             thermal == h # None /\ h.age <= PartFresh.thermal
             c == SteppedPressure(HostEntered(b, at, covered), IF mac THEN h.level ELSE None, at)
             d == Step(c, Host, "thermal", IF thermal THEN h.hot ELSE None, at)
         IN  SteppedSwap(d, IF mac THEN at - h.age ELSE None, IF mac THEN h.swap ELSE None, at)

Evaluated(b, k, r, h, at, covered) == Kept(EvaluatedHost(EvaluatedRuntime(b, k, r, at, covered), h, at, covered))

----------------------------------------------------------------------------
(* The answer to a frame.                                                  *)

OpenIn(b, k) ==
    (UNION {{b.tracks[o][id].episode : id \in AlertOf(o)} : o \in {k, Host}}) \ {None}

\* The order in which the tracks of a Map came to be, as the code steps them.
Place(id) ==
    CASE id = "pressure-critical" -> 1 [] id = "pressure-warning" -> 2 [] id = "thermal" -> 3
      [] id = "swap-growth" -> 4 [] id = "runtime-lost" -> 5 [] id = "model-unloaded" -> 6
      [] id = "splash-recovering" -> 7 [] id = "omlx-prefill-stall" -> 8 [] id = "omlx-memory-guard" -> 9

\* Most severe first, then the longest open; the Maps' order among equals.
Before(b, m, n) ==
    LET x == b.episodes[m]
        y == b.episodes[n]
    IN  \/ Rule[x.id].rank > Rule[y.id].rank
        \/ Rule[x.id].rank = Rule[y.id].rank /\ x.since < y.since
        \/ Rule[x.id].rank = Rule[y.id].rank /\ x.since = y.since /\ Place(x.id) < Place(y.id)

\* ToastLimiter: granted keeps every grant for history, of which the limiter
\* has dropped the first ones. The grants it drops are those that lead the
\* others and are an hour old.
DroppedAt(granted, dropped, now) ==
    CHOOSE d \in dropped..Len(granted) :
        /\ \A i \in (dropped + 1)..d : now - granted[i] >= Hour
        /\ d < Len(granted) => now - granted[d + 1] < Hour

\* Mutants: only the hour is limited, or only the minute.
AllowedHourly(granted, dropped, now) == Len(granted) - dropped < PerHour

AllowedSparsely(granted, dropped, now) == \A i \in (dropped + 1)..Len(granted) : now - granted[i] >= Minute

\* A clock that went back counts as recent.
Allowed(granted, dropped, now) ==
    /\ Len(granted) - dropped < PerHour
    /\ \A i \in (dropped + 1)..Len(granted) : now - granted[i] >= Minute

\* The episodes offerToast decides on: once per episode, by the first leader's view.
Offers(b, k) == {n \in OpenIn(b, k) : Rule[b.episodes[n].id].toast /\ b.episodes[n].toast = Undecided}

\* Those recent enough, of an alert that has no cooldown or is past it.
IsDue(b, n, now) ==
    LET e    == b.episodes[n]
        rule == Rule[e.id]
        last == b.lastToast[e.id]
    IN  /\ now - e.startedAt <= ToastFresh
        /\ ~ (rule.cooldown > 0 /\ last # None /\ now - last < rule.cooldown)

\* The limiter grants one toast a minute, so to the first of those it is asked for.
First(b, due) == {n \in due : \A m \in due \ {n} : Before(b, n, m)}

\* What was offered is decided, for good: the chosen get the next number.
Decided(b, offers, chosen) ==
    [b EXCEPT !.episodes = [n \in DOMAIN b.episodes |->
        IF n \in chosen THEN [b.episodes[n] EXCEPT !.toast = b.toastSeq + 1]
        ELSE IF n \in offers THEN [b.episodes[n] EXCEPT !.toast = None] ELSE b.episodes[n]]]

Dropping(b, now) == [b EXCEPT !.dropped = DroppedAt(b.granted, b.dropped, now)]

Granting(b, chosen, now) ==
    [b EXCEPT !.granted = Append(b.granted, now), !.toastSeq = b.toastSeq + 1,
              !.lastToast = [id \in Alert |->
                  IF \E n \in chosen : b.episodes[n].id = id THEN now ELSE b.lastToast[id]]]

OfferedAll(b, k, now) ==
    LET offers  == Offers(b, k)
        due     == {n \in offers : IsDue(b, n, now)}
        chosen  == First(b, due)
        dropped == Dropping(b, now)
    IN  IF due = {} THEN Decided(b, offers, {})
        ELSE IF Allowed(b.granted, dropped.dropped, now)
        THEN Granting(Decided(dropped, offers, chosen), chosen, now)
        ELSE Decided(dropped, offers, {})

\* Only the leader's view decides about toasts.
Offered(b, k, leader, now) == IF leader THEN OfferedAll(b, k, now) ELSE b

\* The alerts of an answer: which are open, since when, and for the leader
\* the number of the toast.
ViewedAlerts(b, k, leader) ==
    [id \in {b.episodes[n].id : n \in OpenIn(b, k)} |->
        LET n == CHOOSE m \in OpenIn(b, k) : b.episodes[m].id = id
            e == b.episodes[n]
        IN  [since |-> e.since, seq |-> IF leader /\ e.toast # Undecided THEN e.toast ELSE None]]

----------------------------------------------------------------------------
BookTypeOK(b) ==
    /\ b.tracks \in [Owner -> [Alert -> Track]]
    /\ DOMAIN b.runtimes \subseteq Key /\ \A k \in DOMAIN b.runtimes : b.runtimes[k] \in Runtime
    /\ Cardinality(DOMAIN b.runtimes) <= AlertSlots
    /\ \A n \in DOMAIN b.episodes : b.episodes[n] \in Episode
    /\ b.log \subseteq DOMAIN b.episodes /\ Cardinality(b.log) <= LogSize
    /\ b.granted \in Seq(Int) /\ b.dropped \in 0..Len(b.granted)
============================================================================
