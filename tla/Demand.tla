------------------------------- MODULE Demand -------------------------------
(***************************************************************************)
(* The files through which views ask OpenCode helpers to observe chats:    *)
(* service/chat-telemetry.ts writes the demand of its frames and reads     *)
(* what helpers publish; bridge/opencode/demand.js polls the demand.  The  *)
(* file outlives its writer, has no lock, and several services may write   *)
(* it: an exiting one and its successor overlap.                           *)
(*                                                                         *)
(* Times are what is left until something expires, so that there is no     *)
(* clock to bound.  What a chat says is the module Chat.                   *)
(***************************************************************************)
EXTENDS Integers, FiniteSets, Sequences

CONSTANTS
    Service, Helper, Frame,
    Chat,           \* what a frame may ask for: the target of a chat
    None,
    TTL,            \* how long demand and a frame last, in ticks
    MaxFrames,      \* a service keeps so many frames
    MaxQueue        \* bound: writes a service has queued

DemandAssumption == TTL \in Nat \ {0} /\ MaxFrames \in Nat \ {0}

VARIABLES
    looks,      \* frame -> its service and the chat it shows, or None while hidden
    services,   \* service -> its process
    demand,     \* demand.json: owner, chats, time left; None when absent
    helpers,    \* helper -> the chats it observes
    asked       \* history: chat -> time left of its last being asked for

demandVars == <<looks, services, demand, helpers, asked>>

Less(n) == IF n > 0 THEN n - 1 ELSE 0

newService == [state |-> "off", frames |-> [f \in {} |-> None], signature |-> {}, written |-> FALSE,
               queue |-> <<>>, awaited |-> 0]

Targets(frames) == {frames[f].chat : f \in DOMAIN frames}

\* ChatTelemetry.observe up to its queue: the frame is noted, and the demand is
\* written when it changes, or again when it was last written a tick ago.
Noted(s, f, c) ==
    LET frames == services[s].frames
    IN  IF c = None THEN [g \in DOMAIN frames \ {f} |-> frames[g]]
        ELSE IF f \in DOMAIN frames \/ Cardinality(DOMAIN frames) < MaxFrames
        THEN [g \in DOMAIN frames \cup {f} |-> IF g = f THEN [chat |-> c, left |-> TTL] ELSE frames[g]]
        ELSE frames

\* Mutant: the demand is written only when it changes.
RewritesOnChange(s, watched) == watched # services[s].signature

Rewrites(s, watched) == watched # services[s].signature \/ (watched # {} /\ ~ services[s].written)

Observe(s, f) ==
    LET c == looks[f].chat
        frames == Noted(s, f, c)
        watched == Targets(frames)
    IN  /\ looks[f].service = s /\ services[s].state \in {"up", "leaving", "removing"}
        /\ Len(services[s].queue) < MaxQueue
        /\ services' = [services EXCEPT ![s].frames = frames,
              ![s].signature = IF Rewrites(s, watched) THEN watched ELSE @,
              ![s].written = @ \/ Rewrites(s, watched),
              ![s].queue = IF Rewrites(s, watched) THEN Append(@, [chats |-> watched, left |-> TTL]) ELSE @]
        /\ asked' = IF c = None THEN asked ELSE [asked EXCEPT ![c] = 2 * TTL]
        /\ UNCHANGED <<looks, demand, helpers>>

\* One queued write: a rename over the file, or its removal, whoever wrote it.
Write(s) ==
    /\ services[s].queue # <<>>
    /\ LET body == Head(services[s].queue)
       IN  demand' = IF body.chats = {} THEN None ELSE [owner |-> s, chats |-> body.chats, left |-> body.left]
    /\ services' = [services EXCEPT ![s].queue = Tail(@), ![s].awaited = Less(@)]
    /\ UNCHANGED <<looks, helpers, asked>>

\* dispose: wait for what is queued, read the owner, then remove the file.  Only
\* then does the server stop taking requests.
Dispose(s) ==
    /\ services[s].state = "up"
    /\ services' = [services EXCEPT ![s].state = "leaving", ![s].frames = newService.frames,
                                       ![s].awaited = Len(services[s].queue)]
    /\ UNCHANGED <<looks, demand, helpers, asked>>

IsOwn(s) == demand # None /\ demand.owner = s

CheckOwner(s) ==
    /\ services[s].state = "leaving" /\ services[s].awaited = 0
    /\ services' = [services EXCEPT ![s].state = IF IsOwn(s) THEN "removing" ELSE "closing"]
    /\ UNCHANGED <<looks, demand, helpers, asked>>

Unlink(s) ==
    /\ services[s].state = "removing"
    /\ services' = [services EXCEPT ![s].state = "closing"]
    /\ demand' = None
    /\ UNCHANGED <<looks, helpers, asked>>

\* The process may end at any time, and does two seconds after a stop at the latest.
Exit(s) ==
    /\ services[s].state \notin {"off", "gone"}
    /\ services' = [services EXCEPT ![s] = [newService EXCEPT !.state = "gone"]]
    /\ UNCHANGED <<looks, demand, helpers, asked>>

ServiceStarts(s) ==
    /\ services[s].state = "off"
    /\ services' = [services EXCEPT ![s].state = "up"]
    /\ UNCHANGED <<looks, demand, helpers, asked>>

\* A frame is shown with another chat, or hidden, or finds another service.
Look(f, s, c) ==
    /\ services[s].state = "up"
    /\ looks' = [looks EXCEPT ![f] = [service |-> s, chat |-> c]]
    /\ UNCHANGED <<services, demand, helpers, asked>>

----------------------------------------------------------------------------
(* A helper.                                                               *)

Demanded == IF demand = None \/ demand.left = 0 THEN {} ELSE demand.chats

\* collect: what is asked for now, and nothing else.
Poll(h) ==
    /\ helpers' = [helpers EXCEPT ![h] = Demanded]
    /\ UNCHANGED <<looks, services, demand, asked>>

\* Mutant: a frame that polls no more is kept.
AgedKept(frames) == [f \in DOMAIN frames |-> [frames[f] EXCEPT !.left = Less(@)]]

Aged(frames) ==
    [f \in {g \in DOMAIN frames : frames[g].left > 1} |-> [frames[f] EXCEPT !.left = @ - 1]]

\* Time passes.  A write takes less than a tick.  Expired frames, which
\* observe forgets when it looks at them next, are gone at once.
Tick ==
    /\ \A s \in Service : services[s].queue = <<>>
    /\ services' = [s \in Service |->
          [services[s] EXCEPT !.written = FALSE, !.frames = Aged(@)]]
    /\ demand' = IF demand = None THEN None ELSE [demand EXCEPT !.left = Less(@)]
    /\ asked' = [c \in Chat |-> Less(asked[c])]
    /\ UNCHANGED <<looks, helpers>>

DemandInit ==
    /\ services = [s \in Service |-> newService]
    /\ looks \in [Frame -> [service : {CHOOSE s \in Service : TRUE}, chat : {None}]]
    /\ demand = None
    /\ helpers = [h \in Helper |-> {}]
    /\ asked = [c \in Chat |-> 0]

Leave(s) == Dispose(s) \/ CheckOwner(s) \/ Unlink(s)

DemandNext ==
    \/ Tick
    \/ \E s \in Service : ServiceStarts(s) \/ Leave(s) \/ Exit(s) \/ Write(s)
    \/ \E s \in Service, f \in Frame : Observe(s, f) \/ \E c \in Chat \cup {None} : Look(f, s, c)
    \/ \E h \in Helper : Poll(h)

\* Visible frames poll, a service writes what it queued, a helper polls well
\* within the life of a demand, time goes on.
DemandFairness ==
    /\ WF_demandVars(Tick)
    /\ \A s \in Service : WF_demandVars(Write(s)) /\ \A f \in Frame : SF_demandVars(Observe(s, f))
    /\ \A h \in Helper : SF_demandVars(Poll(h) /\ Demanded # {}) /\ WF_demandVars(Poll(h))

----------------------------------------------------------------------------
\* Privacy: a helper begins to observe, and a service reports, only chats a
\* visible view has asked for within two lives of a demand.
ObservedWasAsked ==
    /\ \A s \in Service, f \in Frame : f \in DOMAIN services[s].frames => asked[services[s].frames[f].chat] > TTL
    /\ \A c \in Demanded : asked[c] > 0

\* Alone is the service of a frame, once others have left.
Alone(s) == services[s].state = "up" /\ \A r \in Service \ {s} : services[r].state \in {"off", "gone"}

\* Whatever services wrote and removed before, a chat that a view goes on asking
\* for is observed again and again.
AskedIsObserved ==
    \A s \in Service, f \in Frame, c \in Chat :
        <>[](Alone(s) /\ looks[f] = [service |-> s, chat |-> c]) => []<>(\A h \in Helper : c \in helpers[h])

\* Demand is neither too wide nor lost: the module's property.
DemandIsMet == [][ObservedWasAsked']_demandVars /\ AskedIsObserved
=============================================================================
