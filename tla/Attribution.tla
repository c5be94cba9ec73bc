---------------------------- MODULE Attribution ----------------------------
(***************************************************************************)
(* panel/attribution/: how one frame decides that a reply of the runtime   *)
(* is the open chat's.  The session feed (sessions.ts) turns the host's    *)
(* session and lifecycle messages into turn windows, the activity track    *)
(* (coverage.ts) remembers the frame's own readings, and the auto rule     *)
(* (join.ts) says "inferred" only if every condition holds over the reply, *)
(* once the hold after it has passed (controller.ts).                      *)
(* The host's chats and the runtime's requests are the environment.  Which *)
(* chat a request belongs to is left open: what may be concluded depends   *)
(* only on when things ran.  One unit of time is the hold and the          *)
(* tolerance; messages of the host arrive within it, and a reply is judged *)
(* a unit after it ended.  A visible frame polls once a unit; a poll that  *)
(* fails or comes late is an event.  Marks, tags, the verdict queue and    *)
(* the turn summary are left out.                                          *)
(***************************************************************************)
EXTENDS Integers, Sequences, FiniteSets, SequencesExt, FiniteSetsExt

CONSTANTS
    Chat, None,
    Hold,           \* LIFECYCLE_HOLD_MS and CLOCK_TOLERANCE_MS
    Break,          \* SEGMENT_BREAK_FACTOR times the cadence
    MaxNow,         \* bound: the clock and the events, together
    MaxTurns,       \* bound: turns the chats run
    MaxRequests,    \* bound: requests the runtime serves
    MaxEvents       \* bound: chats opened, models changed, frames hidden, polls
                    \* failed and services restarted

VARIABLES
    now,
    open,           \* the chat the host shows
    local,          \* whether each chat's provider is the monitored connection
    turns,          \* history: the turns that ran, [chat, from, to, local]
    requests,       \* history: the requests served, [from, to]
    feed,           \* SessionFeed
    samples,        \* ActivityTrack.#samples
    view,           \* Attribution: visible, subscribed, body, seen, pending, and
                    \* whether the poll of this unit is done
    verdicts,       \* #verdicts of this service instance: [request, attr, chat]
    instance, events

attributionVars == <<now, open, local, turns, requests, feed, samples, view, verdicts,
                     instance, events>>
chats == <<open, local, turns>>
panel == <<feed, samples, view, verdicts>>
limits == <<instance, events>>

\* One of the events that are bounded; a longer run has fewer.
Upset == events < MaxEvents /\ now + events < MaxNow /\ events' = events + 1

Running(c) == \E i \in DOMAIN turns : turns[i].chat = c /\ turns[i].to = None
Active == Cardinality({i \in DOMAIN requests : requests[i].to = None})

AttributionInit ==
    /\ now = 0
    /\ open \in Chat
    /\ local = [c \in Chat |-> TRUE]
    /\ turns = <<>> /\ requests = <<>>
    /\ feed = [chat |-> None, provider |-> None, phase |-> "unknown",
               observed |-> None, last |-> None, windows |-> <<>>]
    /\ samples = <<>>
    /\ view = [visible |-> TRUE, subscribed |-> FALSE, body |-> FALSE, polled |-> FALSE,
               seen |-> {}, pending |-> {}]
    /\ verdicts = {}
    /\ instance = 0 /\ events = 0

-----------------------------------------------------------------------------
(* sessions.ts: the session feed *)

IsOpen(windows) == windows # <<>> /\ Last(windows).end = None
Amend(windows, field, value) ==
    [windows EXCEPT ![Len(windows)] = [@ EXCEPT ![field] = value]]

\* Observation stops: an open window ends with no outcome and the next message
\* is a baseline again.
Cut(f) ==
    [f EXCEPT !.phase = "unknown", !.observed = None,
              !.windows = IF IsOpen(@) THEN Amend(@, "end", now) ELSE @]

SwitchTo(f, c) == [Cut(f) EXCEPT !.chat = c, !.provider = None]

Window(f, start) ==
    [chat |-> f.chat, start |-> start, end |-> None, outcome |-> FALSE,
     provider |-> f.provider, mixed |-> FALSE, joined |-> IF start = None THEN now ELSE None]

\* The first message after mount, switch or hide is a replay: the phase is
\* known, the start of the turn is not.
Phase(f, busy) ==
    LET phase == IF busy THEN "busy" ELSE "idle" IN
    CASE f.phase = "unknown" ->
           [f EXCEPT !.phase = phase, !.observed = now,
                     !.windows = IF busy THEN Append(@, Window(f, None)) ELSE @]
      [] f.phase = phase -> f
      [] f.phase = "idle" /\ busy ->
           [f EXCEPT !.phase = phase, !.windows = Append(@, Window(f, now))]
      [] OTHER ->
           [f EXCEPT !.phase = phase,
                     !.windows = IF IsOpen(@) THEN Amend(Amend(@, "end", now), "outcome", TRUE)
                                 ELSE @]

\* #session: repeats are ignored, the provider is the window's unless it changes
\* while the window is open.
OnSession(old, m) ==
    IF old.last = m THEN old
    ELSE LET f == IF old.chat = m.chat THEN old ELSE SwitchTo(old, m.chat)
             w == f.windows
             named == [f EXCEPT !.provider = m.provider, !.last = m,
                 !.windows = IF ~IsOpen(w) THEN w
                             ELSE IF Last(w).provider = None THEN Amend(w, "provider", m.provider)
                             ELSE IF Last(w).provider # m.provider THEN Amend(w, "mixed", TRUE)
                             ELSE w]
         IN  Phase(named, m.busy)

\* #lifecycle: a chat unheard of is a switch.
OnLife(f, c, busy) == Phase(IF f.chat = c THEN f ELSE SwitchTo(f, c), busy)

-----------------------------------------------------------------------------
(* The host and the runtime *)

\* What the frame hears of chat c: its session and its phase, on two channels
\* without an order between them.
Heard(f, c, busy, provider, first) ==
    LET m == [chat |-> c, busy |-> busy, provider |-> provider] IN
    IF first THEN OnSession(OnLife(f, c, busy), m) ELSE OnLife(OnSession(f, m), c, busy)
Announce(c, busy, provider) ==
    IF view.subscribed /\ c = open
    THEN \E first \in BOOLEAN : feed' = Heard(feed, c, busy, provider, first)
    ELSE UNCHANGED feed

Ended(c) ==
    [i \in DOMAIN turns |-> IF turns[i].chat = c /\ turns[i].to = None
                            THEN [turns[i] EXCEPT !.to = now] ELSE turns[i]]

StartTurn(c) ==
    /\ ~Running(c) /\ Len(turns) < MaxTurns
    /\ turns' = Append(turns, [chat |-> c, from |-> now, to |-> None, local |-> local[c]])
    /\ Announce(c, TRUE, local[c])
    /\ UNCHANGED <<now, open, local, requests, samples, view, verdicts, limits>>

EndTurn(c) ==
    /\ \E i \in DOMAIN turns : turns[i].chat = c /\ turns[i].to = None /\ turns[i].from < now
    /\ turns' = Ended(c)
    /\ Announce(c, FALSE, local[c])
    /\ UNCHANGED <<now, open, local, requests, samples, view, verdicts, limits>>

\* The chat moves to another provider, or back.
Remodel(c) ==
    /\ Upset
    /\ local' = [local EXCEPT ![c] = ~@]
    /\ turns' = [i \in DOMAIN turns |-> IF turns[i].chat = c /\ turns[i].to = None
                                         THEN [turns[i] EXCEPT !.local = FALSE] ELSE turns[i]]
    /\ feed' = IF view.subscribed /\ c = open
               THEN OnSession(feed, [chat |-> c, busy |-> Running(c), provider |-> ~local[c]])
               ELSE feed
    /\ UNCHANGED <<now, open, requests, samples, view, verdicts, instance>>

\* Another chat is opened: its session and phase are replayed.
Open(c) ==
    /\ c # open /\ Upset
    /\ open' = c
    /\ IF view.subscribed
       THEN \E first \in BOOLEAN : feed' = Heard(feed, c, Running(c), local[c], first)
       ELSE UNCHANGED feed
    /\ UNCHANGED <<now, local, turns, requests, samples, view, verdicts, instance>>

Serve ==
    /\ Len(requests) < MaxRequests
    /\ requests' = Append(requests, [from |-> now, to |-> None])
    /\ UNCHANGED <<now, chats, panel, limits>>

Answer(i) ==
    /\ requests[i].to = None /\ requests[i].from < now
    /\ requests' = [requests EXCEPT ![i].to = now]
    /\ UNCHANGED <<now, chats, panel, limits>>

Tick ==
    /\ now + events < MaxNow
    /\ view.visible => view.polled
    /\ now' = now + 1
    /\ view' = [view EXCEPT !.polled = FALSE]
    /\ UNCHANGED <<chats, requests, feed, samples, verdicts, limits>>

-----------------------------------------------------------------------------
(* coverage.ts: the frame's own readings *)

Later(at) == IF samples = <<>> \/ Last(samples).at < at THEN at ELSE Last(samples).at
Gap == [at |-> Later(now), key |-> None, active |-> 0]
Sample == [at |-> now, key |-> instance, active |-> Active]

Observed ==
    LET kept == IF samples # <<>> /\ Last(samples).key \notin {None, instance}
                THEN <<>> ELSE samples
    IN  IF kept # <<>> /\ Last(kept).at = now /\ Last(kept).key = instance
        THEN kept ELSE Append(kept, Sample)

Continuous(a, b) == a.key # None /\ a.key = b.key /\ b.at - a.at <= Break

\* One unbroken stretch of readings runs from at or before "from" to at or
\* after "to".
Covered(read, from, to) ==
    LET before == {i \in DOMAIN read : read[i].at <= from}
        i == Max(before)
    IN  /\ before # {}
        /\ \E j \in i .. Len(read) :
             /\ read[j].at >= to
             /\ \A k \in i .. j : read[k].key # None
             /\ \A k \in i .. j - 1 : Continuous(read[k], read[k + 1])

Overlapping(read, from, to) ==
    \E i \in DOMAIN read :
        read[i].at \in from .. to /\ read[i].key # None /\ read[i].active > 1

\* The last idle reading before "at", if the readings since are all usable.
IdleBefore(read, at) ==
    LET before == {i \in DOMAIN read : read[i].at < at}
        stops == {i \in before : read[i].key = None \/ read[i].active = 0}
    IN  IF stops = {} \/ read[Max(stops)].key = None THEN None ELSE read[Max(stops)].at

-----------------------------------------------------------------------------
(* join.ts: the auto rule *)

Early == -1000
From(w) == IF w.start = None THEN Early ELSE w.start
Until(w) == IF w.end = None THEN MaxNow + 1000 ELSE w.end

Touches(w, from, to) ==
    /\ From(w) <= to + Hold
    /\ Until(w) >= from - Hold
    /\ ~(w.start = None /\ to < w.joined)

\* Mutant: a reply that began in the turn is in it.
BeginsInside(w, from, to) == from >= From(w) - Hold
Inside(w, from, to) == from >= From(w) - Hold /\ to <= Until(w) + Hold

\* Mutant: breaks in the readings do not count.
CoveredAnyway(read, from, to) == TRUE
IsCovered(read, from, to) == Covered(read, from, to)

\* The conditions on the preference, on counting and on the service's own mark
\* of an overlap, which only withhold more, are left out.
\* What the rule infers of a reply that ran from "start" (None: not reported) to
\* "end": the chat it is given to, or None.
Inferred(read, start, end) ==
    LET from == IF start = None THEN IdleBefore(read, end) ELSE start
        low == IF from = None THEN end ELSE from
        touched == {i \in DOMAIN feed.windows : Touches(feed.windows[i], low, end)}
        w == feed.windows[Max(touched)]
    IN  IF /\ touched # {} /\ from # None
           /\ w.provider = TRUE /\ ~w.mixed
           /\ w.start # None
           /\ ~Overlapping(read, from - Hold, end)
           /\ Inside(w, from, end)
           /\ IsCovered(read, from - Hold, end)
        THEN w.chat ELSE None

-----------------------------------------------------------------------------
(* controller.ts: the frame's polls *)

\* The requests that ran beside request i.
Beside(i) ==
    {j \in DOMAIN requests \ {i} :
        /\ requests[j].from < requests[i].to
        /\ requests[j].to = None \/ requests[j].to > requests[i].from}

Replayed ==
    \E first \in BOOLEAN : feed' = Heard(feed, open, Running(open), local[open], first)

\* observe(body): what finished is held, and what has been held long enough is
\* judged by the windows and readings of this moment.  "start" says whether the
\* service reports when replies began.
Poll(start) ==
    /\ view.visible /\ ~view.polled
    /\ LET fresh == {i \in DOMAIN requests : requests[i].to # None} \ view.seen
           held == view.pending \cup fresh
           due == {i \in held : now >= requests[i].to + Hold}
           read == Observed
       IN  /\ samples' = read
           /\ view' = [view EXCEPT !.body = TRUE, !.subscribed = TRUE, !.polled = TRUE,
                                   !.seen = @ \cup fresh, !.pending = held \ due]
           /\ verdicts' = verdicts \cup
                {[request |-> i,
                  chat |-> Inferred(read, IF start THEN requests[i].from ELSE None,
                                    requests[i].to)] : i \in due}
    \* Subscribing replays the open chat's session and phase.
    /\ IF view.subscribed THEN UNCHANGED feed ELSE Replayed
    /\ UNCHANGED <<now, chats, requests, limits>>

\* A failed poll breaks the readings.
FailedPoll ==
    /\ view.visible /\ ~view.polled
    /\ Upset
    /\ samples' = Append(samples, Gap)
    /\ view' = [view EXCEPT !.body = FALSE, !.polled = TRUE]
    /\ UNCHANGED <<now, chats, requests, feed, verdicts, instance>>

\* The frame's timer is late by a unit.
LatePoll ==
    /\ view.visible /\ ~view.polled
    /\ Upset
    /\ view' = [view EXCEPT !.polled = TRUE]
    /\ UNCHANGED <<now, chats, requests, feed, samples, verdicts, instance>>

\* setVisible(false): the readings break, and the feed stops listening unless
\* the last poll failed.
Hide ==
    /\ view.visible
    /\ Upset
    /\ samples' = Append(samples, Gap)
    /\ view' = [view EXCEPT !.visible = FALSE, !.subscribed = @ /\ ~view.body]
    /\ IF view.body
       THEN feed' = [Cut(feed) EXCEPT !.last = None]
       ELSE UNCHANGED feed
    /\ UNCHANGED <<now, chats, requests, verdicts, instance>>

Show ==
    /\ ~view.visible
    /\ view' = [view EXCEPT !.visible = TRUE, !.subscribed = @ \/ view.body]
    /\ IF view.body /\ ~view.subscribed THEN Replayed ELSE UNCHANGED feed
    /\ UNCHANGED <<now, chats, requests, samples, verdicts, limits>>

\* The service restarts: what it knew of replies is gone, and the next poll
\* starts over.
Restart ==
    /\ Upset
    /\ instance' = instance + 1
    /\ view' = [view EXCEPT !.pending = {}, !.seen = {i \in DOMAIN requests : requests[i].to # None}]
    /\ verdicts' = {} /\ samples' = <<>>
    /\ UNCHANGED <<now, chats, requests, feed>>

AttributionNext ==
    \/ \E c \in Chat : StartTurn(c) \/ EndTurn(c) \/ Remodel(c) \/ Open(c)
    \/ Serve \/ Tick
    \/ \E i \in DOMAIN requests : Answer(i)
    \/ \E start \in BOOLEAN : Poll(start)
    \/ FailedPoll \/ LatePoll \/ Hide \/ Show \/ Restart

-----------------------------------------------------------------------------
RanInTurn(q, chat) ==
    \E i \in DOMAIN turns :
        /\ turns[i].chat = chat /\ turns[i].local
        /\ turns[i].from - Hold <= q.from
        /\ turns[i].to = None \/ q.to <= turns[i].to + Hold

Together(q, other) ==
    Min({q.to} \cup ({other.to} \ {None})) - Max({q.from, other.from})

SoundIn(q, chat, i) ==
    /\ RanInTurn(q, chat)
    /\ \A j \in Beside(i) : Together(q, requests[j]) <= Break

\* A reply given to a chat (join.ts) ran inside a turn of that chat, up to the
\* tolerance, the chat was on the monitored connection throughout, and nothing
\* ran beside the reply for longer than two readings may be apart; however
\* often the frame was hidden, polls failed or came late, the chat was switched,
\* its model changed or the service restarted meanwhile.
InferredIsSoundStep ==
    \A v \in verdicts' \ verdicts :
        v.chat # None => SoundIn(requests[v.request], v.chat, v.request)
InferredIsSound == [][InferredIsSoundStep]_attributionVars
=============================================================================
