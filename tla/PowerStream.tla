---------------------------- MODULE PowerStream -----------------------------
(***************************************************************************)
(* service/host/power.ts and the sampler's side of it (updatePower,        *)
(* powerStream): macmon is streamed only while a frame that shows the      *)
(* details of a busy server reads, is stopped by the release of the last   *)
(* of them or by its own idle timer, and is started again while it fails,  *)
(* until it has been silent too often.  Each line is the mean power of the *)
(* second before it; the energy of a reply is scaled from the part of its  *)
(* span that the lines cover.  Frames, the children and their lines, and   *)
(* how late a line arrives, are the environment.                           *)
(***************************************************************************)
EXTENDS Integers, Sequences, SequencesExt, FiniteSetsExt

CONSTANTS
    Frame, None,
    ReaderLife,     \* LEASE_TTL_MS
    IdleStop,       \* POWER_IDLE_STOP_MS
    Interval,       \* INTERVAL_MS
    Stale,          \* POWER_STALE_MS
    SilentLimit,    \* SILENT_EXIT_LIMIT
    Backoff,        \* the pause before a restart, its growth left out
    Watts,          \* what a line may say
    MaxNow, MaxLines, MaxSpawns    \* bounds

VARIABLES
    now,
    readers,     \* powerReaders: frame -> when it last wanted power, or None
    child,       \* this.child: the number of the current child, or None
    alive,       \* the children that have not ended
    output,      \* those that have written a line
    spawned,     \* children started
    idleAt, restartAt,  \* when the timers fire, or None
    silent,      \* silentExits
    samples      \* the lines kept: [from, at, watts]

powerVars == <<now, readers, child, alive, output, spawned, idleAt, restartAt, silent, samples>>

PowerInit ==
    /\ now = 0
    /\ readers = [f \in Frame |-> None]
    /\ child = None /\ alive = {} /\ output = {} /\ spawned = 0
    /\ idleAt = None /\ restartAt = None /\ silent = 0
    /\ samples = <<>>

----------------------------------------------------------------------------
(* The stream.                                                             *)

\* start(): a child, unless none may be had.
Starts == /\ child' = spawned + 1
          /\ alive' = alive \cup {spawned + 1}
          /\ spawned' = spawned + 1

\* Mutant: the release leaves the restart behind.
HaltTimers == idleAt' = None /\ UNCHANGED restartAt

\* touch(): the idle stop is put off, and a stream that is neither running nor
\* about to restart, and was not silent too often, starts.
Touch ==
    /\ idleAt' = now + IdleStop
    /\ IF child = None /\ restartAt = None /\ silent < SilentLimit /\ spawned < MaxSpawns
       THEN Starts ELSE UNCHANGED <<child, alive, spawned>>
    /\ UNCHANGED <<restartAt, silent>>

\* halt(): the timers end and the child is told to; only the idle stop forgets
\* failures.
HaltsTimers == idleAt' = None /\ restartAt' = None

Halt(forgets) ==
    /\ HaltsTimers
    /\ child' = None
    /\ silent' = IF forgets THEN 0 ELSE silent
    /\ UNCHANGED <<alive, spawned>>

\* updatePower: readers not heard of for the time a frame lives are gone.
StaleReaders == {f \in Frame : readers[f] # None /\ now - readers[f] >= ReaderLife}

\* A frame is read for: it wants power, or wants none any more.
Read(f, wants) ==
    LET kept == [g \in Frame |-> IF g \in StaleReaders THEN None ELSE readers[g]]
    IN  /\ readers' = [kept EXCEPT ![f] = IF wants THEN now ELSE None]
        /\ IF wants THEN Touch
           ELSE IF \A g \in Frame : readers'[g] = None THEN Halt(FALSE)
           ELSE UNCHANGED <<child, alive, spawned, idleAt, restartAt, silent>>
        /\ UNCHANGED <<now, output, samples>>

\* Mutant: a line counts for a whole second, however near the last one is.
FromUnclipped(at) == at - Interval

IdleStops ==
    /\ idleAt # None /\ now >= idleAt
    /\ Halt(TRUE)
    /\ UNCHANGED <<now, readers, output, samples>>

\* A line covers the second before it, clipped at the line before.
From(at) == Max({at - Interval} \cup {samples[i].at : i \in DOMAIN samples})

\* A line of the current child; those of a child already stopped are dropped.
Line(c, watts) ==
    /\ c \in alive /\ Len(samples) < MaxLines
    /\ output' = output \cup {c}
    /\ IF c = child
       THEN /\ samples' = Append(samples, [from |-> From(now), at |-> now, watts |-> watts])
            /\ silent' = 0
       ELSE UNCHANGED <<samples, silent>>
    /\ UNCHANGED <<now, readers, child, alive, spawned, idleAt, restartAt>>

\* A child ends: the current one is started again later, as long as the stream
\* is wanted and was not silent too often.
Ends(c) ==
    /\ c \in alive
    /\ alive' = alive \ {c}
    /\ IF c # child THEN UNCHANGED <<child, silent, restartAt>>
       ELSE /\ child' = None
            /\ silent' = IF c \in output THEN silent ELSE silent + 1
            /\ restartAt' = IF idleAt # None /\ silent' < SilentLimit THEN now + Backoff ELSE restartAt
    /\ UNCHANGED <<now, readers, output, spawned, idleAt, samples>>

RestartFires ==
    /\ restartAt # None /\ now >= restartAt
    /\ restartAt' = None
    /\ IF idleAt # None /\ child = None /\ spawned < MaxSpawns
       THEN Starts ELSE UNCHANGED <<child, alive, spawned>>
    /\ UNCHANGED <<now, readers, output, idleAt, silent, samples>>

\* Timers fire on time.
Passes ==
    /\ now < MaxNow
    /\ idleAt # None => now < idleAt
    /\ restartAt # None => now < restartAt
    /\ now' = now + 1
    /\ UNCHANGED <<readers, child, alive, output, spawned, idleAt, restartAt, silent, samples>>

PowerNext ==
    \/ Passes \/ IdleStops \/ RestartFires
    \/ \E f \in Frame, wants \in BOOLEAN : Read(f, wants)
    \/ \E c \in alive : Ends(c) \/ \E w \in Watts : Line(c, w)

----------------------------------------------------------------------------
(* What is said of it.                                                     *)

Overlap(s, from, to) == Max({0, Min({to, s.at}) - Max({from, s.from})})
CoveredMs(from, to) == MapThenSumSet(LAMBDA i : Overlap(samples[i], from, to), DOMAIN samples)
Joules(from, to) == MapThenSumSet(LAMBDA i : Overlap(samples[i], from, to) * samples[i].watts, DOMAIN samples)

\* view(): the newest line, unless the stream has stalled.
View == IF samples # <<>> /\ now - Last(samples).at <= Stale THEN Last(samples) ELSE None

\* The energy of a covered span is one that power between the lowest and the
\* highest of its lines makes: no moment counts twice, whatever the lines' delays.
EnergyIsOfTheSpan ==
    \A from \in 0 .. now : \A to \in from + 1 .. now :
        LET ms == CoveredMs(from, to)
            watts == {s.watts : s \in {t \in ToSet(samples) : t.at > from /\ t.at - Interval < to}}
        IN  /\ ms <= to - from
            /\ ms > 0 => Min(watts) * ms <= Joules(from, to) /\ Joules(from, to) <= Max(watts) * ms

\* A macmon runs or is about to be started only while its idle stop is set, and
\* not both: no view closed, lost or released leaves one behind.
MacmonIsWanted ==
    /\ child # None \/ restartAt # None => idleAt # None /\ idleAt <= now + IdleStop
    /\ child # None => restartAt = None
    /\ (\E f \in Frame : readers[f] # None) \/ child = None

\* A line shown is of a moment ago and of the child that ran then.
PowerIsSound == EnergyIsOfTheSpan /\ MacmonIsWanted /\ (View # None => now - View.at <= Stale)
=============================================================================
