-------------------------------- MODULE Chat --------------------------------
(***************************************************************************)
(* The chat tracker of the OpenCode companion, bridge/opencode/chat.js: a  *)
(* fold of public events and of dispatches observed by a hook, into one    *)
(* measurement per watched chat.  Events come late, from a subscription    *)
(* that demand starts and ends; dispatches come at once.                   *)
(*                                                                         *)
(* Here a call of a chat goes to an endpoint the events do not name.  The  *)
(* tracker must find it out from the dispatches, and must not count output *)
(* of one call for the endpoint of another.                                *)
(*                                                                         *)
(* A reply has one part; a rate is the set of calls it counts output of.   *)
(* OpenCode, which makes the calls, is external.                           *)
(***************************************************************************)
EXTENDS Integers, Sequences, FiniteSets

CONSTANTS
    Session, Model, Endpoint,   \* keys of chats, models and destinations
    Remote,                     \* the endpoints that are not on this Mac
    None,                       \* JavaScript's null and undefined
    Window,                     \* WINDOW_MS
    Lasting,                    \* how long a finished chat is shown
    RouteLife,                  \* how long a dispatch may wait for its step
    MaxChats,                   \* MAX_CHATS
    ShapeLimit,                 \* SHAPE_LIMIT
    Demand,                     \* the demands that may be read: sets of Target
    MaxNow, MaxCalls, MaxStream, MaxOutput, MaxReads,   \* bounds
    MaxFaults                   \* bound: what does not go by the book, of all kinds

Destination(e) == IF e \in Remote THEN "remote" ELSE "local"
Target == [session : Session, model : Model, destination : {"local", "remote"}]

ChatAssumption ==
    /\ None \notin Nat
    /\ Remote \subseteq Endpoint
    /\ {Window, Lasting, RouteLife} \subseteq Nat /\ MaxChats \in Nat \ {0}
    /\ \A d \in Demand : d \subseteq Target

VARIABLES
    now,
    tracker,        \* what createChatTracker holds, and the failure count of its observer
    store,          \* the chat store: a measurement per session
    subscribed,     \* the Location has a subscription
    stream,         \* events on their way to it
    calls,          \* external: the calls made so far
    reads,          \* bound: reads of the demand file
    faults          \* bound: interruptions, repetitions and the like

chatVars == <<now, tracker, store, subscribed, stream, calls, reads, faults>>

Reset  == {"retry"}                 \* RESET_EVENTS
Cancel == {"interrupted"}           \* CANCEL_EVENTS
End    == {"succeeded", "streamed", "ended"}    \* END_EVENTS

newTracker == [watched |-> {}, routes |-> [r \in {} |-> None], chats |-> [s \in {} |-> None],
               calibration |-> {}, failures |-> 0]

Without(f, S) == [x \in DOMAIN f \ S |-> f[x]]
With(f, x, y) == [z \in DOMAIN f \cup {x} |-> IF z = x THEN y ELSE f[z]]

\* The tracker and the store change together: t is a pair of them.
pair == [chat |-> tracker, store |-> store]

Dropped(t, s) == [t EXCEPT !.chat.chats = Without(@, {s}), !.store = Without(@, {s})]

cleared(t) == [t EXCEPT !.chat.chats = Without(@, DOMAIN @), !.store = Without(@, DOMAIN t.chat.chats),
                        !.chat.routes = Without(@, DOMAIN @), !.chat.watched = {}]

IsWatched(t, s, m, destination) == [session |-> s, model |-> m, destination |-> destination] \in t.chat.watched
Matches(t, s, m) == \E d \in {"local", "remote"} : IsWatched(t, s, m, d)

Settled(c) == c.stale \/ c.phase \in {"complete", "cancelled", "tool"}

\* A chat whose endpoint is known is published; expired entries leave the store.
Emitted(t, s, c, phase, counted, reported) ==
    LET entry == [model |-> c.model, endpoint |-> c.endpoint, phase |-> phase, counted |-> counted, proof |-> c.proof,
                  reported |-> reported, at |-> now, until |-> now + (IF reported THEN Lasting ELSE Window)]
        fresh == {r \in DOMAIN t.store : t.store[r].until > now}
        kept  == [r \in fresh |-> t.store[r]]
    IN  [t EXCEPT !.chat.chats = With(@, s, [c EXCEPT !.phase = phase, !.updated = now, !.stale = FALSE]),
                  !.store = IF s \in fresh \/ Cardinality(fresh) < MaxChats THEN With(kept, s, entry) ELSE kept]

----------------------------------------------------------------------------
(* Demand.                                                                 *)

\* setWatched: what is no longer asked for is forgotten.
Watching(t, d) ==
    LET u == [t EXCEPT !.chat.watched = d]
        out == {s \in DOMAIN t.chat.chats :
                  LET c == t.chat.chats[s]
                  IN  \/ ~ Matches(u, s, c.model)
                      \/ c.endpoint # None /\ ~ IsWatched(u, s, c.model, Destination(c.endpoint))}
    IN  [u EXCEPT !.chat.chats = Without(@, out), !.store = Without(@, out),
                  !.chat.routes = Without(@, {r \in DOMAIN @ : ~ IsWatched(u, r[1], r[2], Destination(@[r].endpoint))})]

\* tick: silent chats go stale, then away.
Aged(t) ==
    LET chats == t.chat.chats
        over(c)  == now - c.updated >= (IF c.phase \in {"complete", "cancelled"} THEN Lasting ELSE RouteLife)
        gone  == {s \in DOMAIN chats : over(chats[s])}
        quiet == {s \in DOMAIN chats \ gone : /\ chats[s].phase # "complete" /\ ~ chats[s].stale
                                               /\ now - chats[s].updated >= Window}
        silent(c) == [c EXCEPT !.stale = TRUE, !.counted = {},
                               !.eligible = @ /\ c.lastDelta = None, !.lastDelta = None]
    IN  [t EXCEPT !.chat.chats = [s \in DOMAIN chats \ gone |-> IF s \in quiet THEN silent(chats[s]) ELSE chats[s]],
                  !.chat.routes = Without(@, {r \in DOMAIN @ : now - @[r].at > RouteLife}),
                  !.store = Without(@, gone \cup quiet)]

Withdrawn(t) == t.chat.failures >= ShapeLimit

\* collect, with what the demand file says: the subscription follows demand.
Collected(t, d) ==
    IF d = {} \/ Withdrawn(t) THEN cleared(t) ELSE Aged(Watching(t, d))

Wants(t, d) == d # {} /\ ~ Withdrawn(t)

----------------------------------------------------------------------------
(* A dispatch.                                                             *)

newChat(m, e) ==
    [model |-> m, endpoint |-> e, dispatched |-> None, call |-> None, seen |-> {}, part |-> "none",
     chars |-> 0, counted |-> {}, lastDelta |-> None, eligible |-> TRUE, streamed |-> FALSE,
     updated |-> now, phase |-> None, stale |-> FALSE,
     proof |-> None]    \* history: the call whose dispatch told the endpoint of an announced chat

Known(t, s) == s \in DOMAIN t.chat.chats
Own(t, s, m) == Known(t, s) /\ t.chat.chats[s].model = m

\* A dispatch to another endpoint ends the observation of the last call.
LeftBehind(t, s, m, e) == IF Own(t, s, m) /\ t.chat.chats[s].endpoint # e THEN Dropped(t, s) ELSE t

\* authorize returns before it has taken the dispatch as proof; e is None where none can be told.
Proves(t, n, e) ==
    LET key == <<calls[n].session, calls[n].model>>
    IN  /\ e # None /\ IsWatched(t, key[1], key[2], Destination(e))
        /\ Cardinality(DOMAIN t.chat.routes) < MaxChats \/ key \in DOMAIN t.chat.routes

\* authorize, for a primary dispatch.
Authorized(t, n, e) ==
    LET s == calls[n].session
        m == calls[n].model
        v == [LeftBehind(t, s, m, e) EXCEPT !.chat.routes = With(@, <<s, m>>, [endpoint |-> e, at |-> now, of |-> n])]
    IN  IF ~ Matches(t, s, m) THEN t
        ELSE IF e = None \/ ~ IsWatched(t, s, m, Destination(e))
        THEN Dropped([t EXCEPT !.chat.routes = Without(@, {<<s, m>>})], s)
        ELSE IF ~ Proves(t, n, e) THEN t
        ELSE IF Own(t, s, m) /\ t.chat.chats[s].endpoint = None
        THEN Emitted(t, s, [t.chat.chats[s] EXCEPT !.endpoint = e, !.proof = n], "waiting", {}, FALSE)
        ELSE IF IF Known(v, s) THEN ~ Settled(v.chat.chats[s]) ELSE Cardinality(DOMAIN v.chat.chats) >= MaxChats
        THEN v
        ELSE Emitted(v, s, [newChat(m, e) EXCEPT !.dispatched = now, !.eligible = FALSE], "waiting", {}, FALSE)

----------------------------------------------------------------------------
(* An event.                                                               *)

Failed(t, s) == [Dropped(t, s) EXCEPT !.chat.failures = IF @ < ShapeLimit THEN @ + 1 ELSE @]

\* session.step.started takes the dispatch that was waiting for it, if any.
Started(t, ev) ==
    LET u == Dropped(t, ev.session)
        key == <<ev.session, ev.model>>
        routed == key \in DOMAIN u.chat.routes
        route == u.chat.routes[key]
        late == routed /\ (~ IsWatched(u, ev.session, ev.model, Destination(route.endpoint)) \/ now - route.at > RouteLife)
        v == [u EXCEPT !.chat.routes = Without(@, {key})]
        c == [newChat(ev.model, IF routed THEN route.endpoint ELSE None)
                EXCEPT !.call = ev.call, !.proof = IF routed THEN route.of ELSE None]
    IN  IF ~ Matches(u, ev.session, ev.model) \/ late \/ Cardinality(DOMAIN u.chat.chats) >= MaxChats THEN u
        ELSE IF routed THEN Emitted(v, ev.session, c, "waiting", {}, FALSE)
        ELSE [v EXCEPT !.chat.chats = With(@, ev.session, c)]

\* sample: output counts, unless the reading was silent for a window.
Sampled(t, s, c, call) ==
    LET fresh == c.lastDelta # None /\ now - c.lastDelta >= Window
        counted == (IF fresh THEN {} ELSE c.counted) \cup {call}
    IN  Emitted(t, s, [c EXCEPT !.counted = counted, !.lastDelta = now, !.eligible = @ /\ ~ fresh, !.chars = @ + 1],
                "generating", counted, FALSE)

quietened(c) == [c EXCEPT !.counted = {}, !.lastDelta = None]

\* session.step.ended: an eligible step calibrates its endpoint and reports its average.
Ended(t, s, c, ev) ==
    LET eligible == c.eligible /\ ev.finish = "stop" /\ c.chars > 0 /\ c.part = "ended" /\ c.streamed
        step == [endpoint |-> c.endpoint, call |-> ev.call, chars |-> c.chars, proof |-> c.proof]
    IN  IF eligible
        THEN Emitted([t EXCEPT !.chat.calibration = @ \cup {step}, !.chat.failures = IF @ < ShapeLimit THEN 0 ELSE @],
                     s, quietened(c), "complete", {ev.call}, TRUE)
        ELSE Emitted(t, s, quietened(c), IF ev.finish = "stop" THEN "complete" ELSE "tool", {}, ev.finish = "stop")

\* Output of the reply the chat is bound to.
Output(t, s, c, ev) ==
    CASE ev.type = "part"   -> IF c.part # "none" THEN Dropped(t, s)
                               ELSE [t EXCEPT !.chat.chats[s] = [c EXCEPT !.part = "open"]]
      [] ev.type = "delta"  -> IF c.part # "open" THEN Dropped(t, s) ELSE Sampled(t, s, c, ev.call)
      [] ev.type = "parted" -> IF c.part # "open" THEN Dropped(t, s)
                               ELSE IF ev.chars = c.chars
                               THEN [t EXCEPT !.chat.chats[s] = [c EXCEPT !.part = "ended"]]
                               ELSE Emitted(t, s, [quietened(c) EXCEPT !.part = "ended", !.eligible = FALSE], "waiting", {}, FALSE)
      [] ev.type = "tool"     -> Emitted(t, s, [quietened(c) EXCEPT !.eligible = FALSE], "tool", {}, FALSE)
      [] ev.type = "streamed" -> Emitted(t, s, [quietened(c) EXCEPT !.streamed = TRUE], "waiting", {}, FALSE)
      [] ev.type = "ended"    -> Ended(t, s, c, ev)
      [] ev.type = "unknown"  -> Failed(t, s)

\* A chat with a known endpoint takes an event it has not seen.
Taken(t, s, ev) ==
    LET c == [t.chat.chats[s] EXCEPT !.seen = @ \cup {ev.id}]
        u == [t EXCEPT !.chat.chats[s] = c]
        \* the first reply after a dispatch that had no step: its route proves no other
        binds == c.call = None
        bound == [c EXCEPT !.call = ev.call]
        key == <<s, c.model>>
        used == binds /\ key \in DOMAIN t.chat.routes /\ t.chat.routes[key].at = c.dispatched
    IN  IF ev.type \in Reset THEN Dropped(u, s)
        ELSE IF ev.type \in Cancel THEN Emitted(u, s, [quietened(c) EXCEPT !.eligible = FALSE], "cancelled", {}, FALSE)
        ELSE IF ev.type = "succeeded"
        THEN IF c.phase = "complete" THEN u ELSE Emitted(u, s, quietened(c), "complete", {}, TRUE)
        ELSE IF c.phase \in {"cancelled", "complete"} \/ ev.type = "metadata" THEN u
        ELSE IF ~ binds /\ ev.call # c.call THEN Dropped(u, s)
        ELSE Output([u EXCEPT !.chat.chats[s] = bound,
                              !.chat.routes = IF used THEN Without(@, {key}) ELSE @], s, bound, ev)

\* Mutant: any event is news.
PrecedesNot(c, ev) == FALSE

\* What was said before the dispatch that began a chat is of an earlier call.
Precedes(c, ev) == c.dispatched # None /\ ev.created < c.dispatched

\* event: a late one is no observation.
Event(t, ev) ==
    LET s == ev.session
        \* a boundary ends the dispatches it cannot be older than
        old == {r \in DOMAIN t.chat.routes : r[1] = s /\ t.chat.routes[r].at <= ev.created}
        u == IF ev.type \in Reset \cup Cancel \cup End THEN [t EXCEPT !.chat.routes = Without(@, old)] ELSE t
        c == u.chat.chats[s]
    IN  IF now - ev.created > Window THEN Dropped(t, s)
        ELSE IF ev.type = "started" THEN Started(u, ev)
        ELSE IF ~ Known(u, s) THEN u
        ELSE IF c.endpoint = None THEN IF ev.type = "metadata" THEN u ELSE Dropped(u, s)
        ELSE IF ev.id \in c.seen \/ Precedes(c, ev) THEN u
        ELSE Taken(u, s, ev)

----------------------------------------------------------------------------
(* Actions.                                                                *)

Fault(is) == faults' = (IF is THEN faults + 1 ELSE faults) /\ faults' <= MaxFaults

Becomes(t) == tracker' = t.chat /\ store' = t.store

\* A dispatch or the timer reads the demand file.  A subscription begins empty,
\* and its end loses what was on its way.
Collect(d) ==
    /\ reads < MaxReads /\ reads' = reads + 1
    /\ Becomes(Collected(pair, d))
    /\ subscribed' = Wants(pair, d)
    /\ stream' = IF subscribed' THEN stream ELSE <<>>
    /\ UNCHANGED <<now, calls, faults>>

\* The subscription ends by itself; the next collection begins another.
SubscriptionEnds ==
    /\ subscribed /\ Fault(TRUE)
    /\ Becomes(cleared(pair))
    /\ subscribed' = FALSE /\ stream' = <<>>
    /\ UNCHANGED <<now, calls, reads>>

\* The oldest event arrives, and may arrive once more.
Arrive(again) ==
    /\ stream # <<>> /\ Fault(again)
    /\ Becomes(Event(pair, Head(stream)))
    /\ stream' = IF again THEN stream ELSE Tail(stream)
    /\ UNCHANGED <<now, subscribed, calls, reads>>

Tick == now < MaxNow /\ now' = now + 1 /\ UNCHANGED <<tracker, store, subscribed, stream, calls, reads, faults>>

(* OpenCode.  It announces a step before or after it dispatches the call,   *)
(* and sends no two calls of one chat, nor a call and the output of the     *)
(* last one, within one tick.                                               *)
Current(s) == {n \in DOMAIN calls : calls[n].session = s /\ calls[n].stage # "over"}

Says(n, type) ==
    LET c == calls[n]
        ev == [type |-> type, session |-> c.session, model |-> c.model, call |-> n, created |-> now,
               id |-> <<n, c.said>>, chars |-> c.chars, finish |-> c.finish]
    IN  /\ c.said < MaxOutput
        /\ Len(stream) < MaxStream
        /\ stream' = IF subscribed THEN Append(stream, ev) ELSE stream

Calls(n, c) == calls' = [calls EXCEPT ![n] = [c EXCEPT !.said = @ + 1, !.at = now]]

Begin(s, m, e) ==
    /\ Len(calls) < MaxCalls /\ Current(s) = {}
    /\ \A n \in DOMAIN calls : calls[n].session = s => calls[n].at < now
    /\ \E finish \in {"stop", "tool-calls"} :
          calls' = Append(calls, [session |-> s, model |-> m, endpoint |-> e, stage |-> "new", announced |-> FALSE,
                                  said |-> 0, chars |-> 0, finish |-> finish, at |-> now, proved |-> FALSE])
    /\ UNCHANGED <<now, tracker, store, subscribed, stream, reads, faults>>

Announce(n) ==
    /\ calls[n].stage \in {"new", "sent"} /\ ~ calls[n].announced
    /\ Says(n, "started") /\ Calls(n, [calls[n] EXCEPT !.announced = TRUE])
    /\ UNCHANGED <<now, tracker, store, subscribed, reads, faults>>

\* The hook of a dispatch has collected first; withdrawn, it is ignored.
Dispatch(n) ==
    /\ calls[n].stage = "new"
    /\ \E seen \in {calls[n].endpoint, None} :
          LET heard == subscribed /\ ~ Withdrawn(pair)
          IN  /\ Fault(seen = None)
              /\ IF heard THEN Becomes(Authorized(pair, n, seen)) ELSE UNCHANGED <<tracker, store>>
              /\ calls' = [calls EXCEPT ![n] = [@ EXCEPT !.stage = "sent", !.at = now,
                                                         !.proved = heard /\ Proves(pair, n, seen)]]
    /\ UNCHANGED <<now, subscribed, stream, reads>>

\* A reply opens its part, adds to it, closes it, ends; or calls a tool, or is cut off.
Reply(n, type, from, to) ==
    LET c == calls[n]
    IN  /\ c.announced /\ c.stage = from
        /\ Says(n, type) /\ Fault(type \in {"tool", "unknown"})
        /\ Calls(n, [c EXCEPT !.stage = to, !.chars = IF type = "delta" THEN @ + 1 ELSE @])
        /\ UNCHANGED <<now, tracker, store, subscribed, reads>>

Replies(n) ==
    \/ Reply(n, "part", "sent", "open") \/ Reply(n, "delta", "open", "open") \/ Reply(n, "parted", "open", "closed")
    \/ Reply(n, "tool", "closed", "closed") \/ Reply(n, "streamed", "closed", "streamed")
    \/ Reply(n, "ended", "streamed", "over") \/ Reply(n, "unknown", "open", "open")

\* Between its beginning and its end a call may be retried as another, interrupted or done.
CutOff(n, type) ==
    /\ calls[n].stage # "over"
    /\ Fault(TRUE) /\ Says(n, type) /\ Calls(n, [calls[n] EXCEPT !.stage = "over"])
    /\ UNCHANGED <<now, tracker, store, subscribed, reads>>

Metadata(n) ==
    /\ calls[n].stage # "over"
    /\ Fault(TRUE) /\ Says(n, "metadata") /\ Calls(n, calls[n])
    /\ UNCHANGED <<now, tracker, store, subscribed, reads>>

ChatInit ==
    /\ now = 0 /\ tracker = newTracker /\ store = [s \in {} |-> None]
    /\ subscribed = FALSE /\ stream = <<>> /\ calls = <<>> /\ reads = 0 /\ faults = 0

ChatNext ==
    \/ Tick \/ SubscriptionEnds
    \/ \E again \in BOOLEAN : Arrive(again)
    \/ \E d \in Demand : Collect(d)
    \/ \E s \in Session, m \in Model, e \in Endpoint : Begin(s, m, e)
    \/ \E n \in DOMAIN calls : \/ Announce(n) \/ Dispatch(n) \/ Replies(n) \/ Metadata(n)
                               \/ \E type \in {"retry", "interrupted", "succeeded"} : CutOff(n, type)

----------------------------------------------------------------------------
Proven(n, entry) == calls[n].endpoint = entry.endpoint

\* The next call was dispatched before the announcement of this one arrived.
Overtaken(n, entry) == entry.proof # None /\ entry.proof > n

\* history: the tracker was not told of this dispatch, or could not take it.
Unproven(n) == ~ calls[n].proved

\* What a rate or a calibration counts of call n is of the endpoint it names.
IsOfEndpoint(n, entry) == Proven(n, entry) \/ Overtaken(n, entry) \/ Unproven(n)

\* What is published of a chat is tracked and asked for; and every rate, live or
\* reported, counts only output of calls that went to the endpoint it names, as
\* every calibration does, with the whole of its step: whatever the order of
\* announcements, dispatches, late and repeated events, but for calls whose own
\* dispatch proved nothing, and those whose announcement the dispatch of the
\* next call overtook.
RatesAreOfTheirEndpoint ==
    /\ \A s \in DOMAIN store :
          /\ Known(pair, s)
          /\ IsWatched(pair, s, store[s].model, Destination(store[s].endpoint))
          /\ \A n \in store[s].counted : calls[n].session = s /\ IsOfEndpoint(n, store[s])
    /\ \A step \in tracker.calibration :
          step.chars = calls[step.call].chars /\ IsOfEndpoint(step.call, step)

\* bridge/opencode/README.md:110: a dispatch-seeded observation ignores everything
\* published before the dispatch.  An announcement published before it does not:
\* chat.js:166 takes the newer dispatch for its own, and what follows of the
\* earlier call counts for the newer one's endpoint.
EarlierIsIgnored ==
    \A s \in DOMAIN store : \A n \in store[s].counted : ~ Overtaken(n, store[s])
=============================================================================
