----------------------------- MODULE Connection -----------------------------
(***************************************************************************)
(* One connection slot while its runtime comes, goes and changes:          *)
(* service/runtime-client.ts from collect to followSwap, on the slot       *)
(* machine of module Slot.                                                 *)
(*                                                                         *)
(* The environment decides what answers on the connection's port: nothing, *)
(* a server that wants a key, one nobody can read, a model server, or      *)
(* llama-swap in front of one.  It may change at every await.  A           *)
(* collection is the only writer of its slot (module Scheduler: one in     *)
(* flight, never evicted), so its steps are those between two awaits.      *)
(*                                                                         *)
(* Time is a choice: an outage was long enough to count, or not, and the   *)
(* identity interval has passed, or not.  Left out: the cadence and the    *)
(* backoff (module Scheduler), the deadline of a collection, which ends in *)
(* the same reading as an unreachable port, and what a reading says beyond *)
(* its status and its generation key.  A reading that is not ready repeats *)
(* a key already told, or tells one a reading early: its key is left out.  *)
(***************************************************************************)
EXTENDS Slot

CONSTANTS
    Runtime,         \* the runtimes Scope has adapters for
    Detectable,      \* those a probe can identify: all but mlx-lm
    Server,          \* processes of a runtime with their models loaded; behind
                     \* llama-swap, what /running names: an origin and a model
    RuntimeOf,       \* the runtime of each server
    Key,             \* the generation keys adapters make of what a server says
    KeyOf,           \* those a reading of each server may carry; None is no key
    Counting,        \* runtimes whose key is the adapter's count of restarts: oMLX
    Choice,          \* the configured hints and explicit choices of a connection
    None,
    MaxChanges       \* bound: how often the environment changes

Adapter == [runtime : Runtime, upstream : Server \cup {None}]

ASSUME ConnectionAssumption ==
    /\ Detectable \subseteq Runtime
    /\ RuntimeOf \in [Server -> Runtime]
    /\ KeyOf \in [Server -> SUBSET (Key \cup {None})]
    /\ Counting \subseteq Runtime
    /\ Choice \subseteq [hint : Runtime \cup {None}, explicit : Runtime \cup {None}]
    /\ None \notin Runtime \cup Server \cup Key \cup Nat \cup BOOLEAN \cup Adapter \cup SlotEvent
    /\ MaxChanges \in Nat

VARIABLES
    port,            \* what answers on the connection's port
    changes,         \* how often that changed
    choice,          \* the configured hint and the panel's explicit choice
    slot,            \* the slot, its context and where its collection is
    heard            \* every reading of a server so far: its generation, route and key

vars == <<port, changes, choice, slot, heard>>

SwapKind == {"loading", "idle", "refused", "routed"}

Port ==
         [kind : {"down", "locked", "other", "loading", "idle", "refused"}, server : {None}]
    \cup [kind : {"direct", "routed"}, server : Server]

GenerationKey == Key \cup Nat \cup {None}

Slots ==
    [at : {"idle", "follow", "redetect", "detect", "identity", "recheck", "read", "probe"},
     state : SlotState, redetect : BOOLEAN, generation : Nat \ {0},
     runtime : Runtime \cup {None}, adapter : Adapter \cup {None},
     changed : Runtime \cup {None}, key : GenerationKey,
     swap : BOOLEAN \cup {None}, upstream : Server \cup {None},
     due : BOOLEAN, pass : BOOLEAN, first : SlotEvent \cup {None},
     last : Server \cup {None}]

ready          == [kind |-> "ready"]
degraded(u)    == [kind |-> "degraded", unsupported |-> u]
failed(reason) == [kind |-> "failed", reason |-> reason]
unreachable    == failed("runtime_unreachable")

\* The runtime a slot is read as before anything is known.
Declared == IF choice.explicit # None THEN choice.explicit ELSE choice.hint

----------------------------------------------------------------------------
(* What requests meet.                                                     *)

\* The port itself, or the model server llama-swap named: that one is gone as
\* soon as llama-swap routes elsewhere.
Target(upstream) ==
    IF upstream = None THEN port
    ELSE IF port = [kind |-> "routed", server |-> upstream]
         THEN [kind |-> "direct", server |-> upstream]
         ELSE [kind |-> "down", server |-> None]

Speaks(target, runtime) == target.kind = "direct" /\ RuntimeOf[target.server] = runtime

\* What a detection pass finds there; the hint adds no step for mlx-lm.
Found(target) ==
    IF target.kind = "direct" /\ RuntimeOf[target.server] \in Detectable
    THEN RuntimeOf[target.server] ELSE None

\* The outcome of an adapter's read, by the status of its reading.
ReadOutcome(target, runtime) ==
    CASE target.kind = "down"    -> unreachable
      [] target.kind = "locked"  -> failed("authentication_failed")
      [] Speaks(target, runtime) -> ready
      [] OTHER                   -> degraded(TRUE)

----------------------------------------------------------------------------
(* The synchronous stretches between two awaits, as functions of the slot. *)

\* Counts past the streak tell nothing more apart.
Saturated(state) ==
    CASE state.kind = "degraded" -> [state EXCEPT !.unsupported = Smaller(@, RedetectStreak + 1)]
      [] state.kind = "failing"  -> [state EXCEPT !.failures = 1, !.streak = 1]
      [] OTHER                   -> state

\* The reading is kept and the slot machine moves; `waited` is how long the
\* state before it lasted.
Finished(s, event, waited) ==
    LET next == stepSlot(s.state, event, 0)
    IN  [s EXCEPT !.at = "idle", !.first = None, !.state = Saturated(next),
                  !.redetect = @ \/ redetectDue(s.state, next, waited)]

Unsupported(event) == event \in {degraded(TRUE), failed("unsupported_runtime")}

\* A collection ends, or first asks once whether this is llama-swap.
Concluded(s, event, waited) ==
    IF s.swap = None /\ Unsupported(event)
    THEN [s EXCEPT !.at = "probe", !.first = event]
    ELSE Finished(s, event, waited)

Created(s) ==
    [s EXCEPT !.adapter = [runtime |-> s.runtime, upstream |-> s.upstream],
              !.due = FALSE, !.at = "read"]

\* The runtime is known: make its adapter, ask whether it is still there, or read.
Identified(s) ==
    IF s.adapter = None THEN Created(s)
    ELSE IF s.changed # None \/ s.due
         THEN [s EXCEPT !.at = "identity", !.pass = s.due, !.due = FALSE]
         ELSE [s EXCEPT !.at = "read"]

Looked(s) == IF s.runtime = None THEN [s EXCEPT !.at = "detect"] ELSE Identified(s)

\* A pass that is due runs, unless a change is reported already.
Asked(s) ==
    IF s.redetect /\ s.changed = None
    THEN [s EXCEPT !.redetect = FALSE, !.at = "redetect"]
    ELSE Looked([s EXCEPT !.redetect = FALSE])

Opened(s) == IF s.swap = TRUE THEN [s EXCEPT !.at = "follow"] ELSE Asked(s)

\* Mutant: a pass that finds another runtime replaces an explicit choice as well.
SwitchedAlways(s, runtime) ==
    CASE runtime = None      -> s
      [] runtime = s.runtime -> [s EXCEPT !.changed = None]
      [] OTHER               -> [s EXCEPT !.adapter = None, !.runtime = runtime, !.changed = None,
                                          !.key = None, !.generation = @ + 1]

\* Mutant: every slot only reports another runtime.
SwitchedNever(s, runtime) ==
    CASE runtime = None      -> s
      [] runtime = s.runtime -> [s EXCEPT !.changed = None]
      [] OTHER               -> [s EXCEPT !.changed = runtime]

\* A finished pass: the same runtime withdraws a reported change, another one is
\* reported to an explicit choice and followed by any other.
Switched(s, runtime) ==
    CASE runtime = None      -> s
      [] runtime = s.runtime -> [s EXCEPT !.changed = None]
      [] OTHER               ->
           IF choice.explicit # None THEN [s EXCEPT !.changed = runtime]
           ELSE [s EXCEPT !.adapter = None, !.runtime = runtime, !.changed = None,
                          !.key = None, !.generation = @ + 1]

\* Mutant: the adapter of the previous model server is kept.
RetargetedKept(s, upstream) ==
    IF s.upstream = upstream THEN s
    ELSE [s EXCEPT !.upstream = upstream, !.key = None, !.changed = None,
                   !.generation = IF s.upstream # None THEN @ + 1 ELSE @]

\* Mutant: only a swap straight to another model server is a new generation.
RetargetedDirect(s, upstream) ==
    IF s.upstream = upstream THEN s
    ELSE [s EXCEPT !.upstream = upstream, !.adapter = None, !.runtime = Declared,
                   !.changed = None, !.key = None,
                   !.generation = IF s.upstream # None /\ upstream # None THEN @ + 1 ELSE @]

\* The slot is pointed at another model server behind llama-swap, or at none.
Retargeted(s, upstream) ==
    IF s.upstream = upstream THEN s
    ELSE [s EXCEPT !.upstream = upstream, !.adapter = None, !.runtime = Declared,
                   !.changed = None, !.key = None,
                   !.generation = IF s.upstream # None THEN @ + 1 ELSE @]

\* The keys a reading of server v may carry.  A count of restarts begins with the
\* adapter and is raised if the uptime of another process fell behind; any other
\* key may be the one told last (llama-server's is of properties a minute old).
Keys(s, v) ==
    IF RuntimeOf[v] \notin Counting THEN KeyOf[v] \cup {s.key}
    ELSE IF s.key = None THEN {0}
    ELSE IF s.last = v THEN {s.key}
    ELSE {s.key, s.key + 1}

\* A reading of server v: another key under the same adapter is a new generation,
\* and one without a key says nothing.
Keyed(s, v, key) ==
    IF key = None THEN [s EXCEPT !.last = v]
    ELSE [s EXCEPT !.key = key, !.last = v,
                   !.generation = IF s.key # None /\ s.key # key THEN @ + 1 ELSE @]

----------------------------------------------------------------------------
(* One action per await: what comes back, and what runs until the next.    *)

Waited == {0, RedetectAfter}

Quiet == UNCHANGED <<port, changes, choice, heard>>

\* A panel polls and the reading is stale.
Begin ==
    /\ slot.at = "idle"
    /\ slot' = Opened(slot)
    /\ Quiet

\* GET /running of a connection known as llama-swap.
Follow ==
    /\ slot.at = "follow"
    /\ \E waited \in Waited :
         LET none == Retargeted(slot, None)
         IN  slot' = CASE port.kind = "down"    -> Concluded(slot, unreachable, waited)
                       [] port.kind = "routed"  -> Asked(Retargeted(slot, port.server))
                       [] port.kind = "loading" -> Concluded(none, degraded(FALSE), waited)
                       [] port.kind = "idle"    -> Concluded(none, ready, waited)
                       [] OTHER                 -> Concluded(none, degraded(TRUE), waited)
    /\ Quiet

\* Mutant: the pass on the interval reads on with the adapter it had.
RedetectUncreated ==
    /\ slot.at \in {"redetect", "recheck"}
    /\ Target(slot.upstream).kind # "down"
    /\ LET passed == Switched([slot EXCEPT !.state = initialSlot(0)], Found(Target(slot.upstream)))
       IN  slot' = IF slot.at = "redetect" THEN Looked(passed) ELSE [passed EXCEPT !.at = "read"]
    /\ Quiet

\* A detection pass over a runtime already known; one that cannot complete
\* throws before it changes anything.
Redetect ==
    /\ slot.at \in {"redetect", "recheck"}
    /\ LET target == Target(slot.upstream)
           passed == Switched([slot EXCEPT !.state = initialSlot(0)], Found(target))
       IN  \/ /\ target.kind = "down"
              /\ \E waited \in Waited : slot' = Concluded(slot, unreachable, waited)
           \/ /\ target.kind # "down"
              /\ slot' = IF slot.at = "redetect" THEN Looked(passed)
                         ELSE IF passed.adapter = None THEN Created(passed)
                         ELSE [passed EXCEPT !.at = "read"]
    /\ Quiet

\* The detection pass of a slot without a runtime.
Detect ==
    /\ slot.at = "detect"
    /\ LET target == Target(slot.upstream)
           found  == Found(target)
       IN  \/ /\ found # None
              /\ slot' = Identified([slot EXCEPT !.runtime = found])
           \/ /\ found = None
              /\ \E waited \in Waited :
                   slot' = Concluded(slot, CASE target.kind = "down"   -> unreachable
                                             [] target.kind = "locked" -> failed("authentication_failed")
                                             [] OTHER -> failed("unsupported_runtime"), waited)
    /\ Quiet

\* Mutant: a reported change is never asked about again.
IdentitySticky ==
    /\ slot.at = "identity"
    /\ slot' = IF slot.pass /\ ~ Speaks(Target(slot.adapter.upstream), slot.adapter.runtime)
               THEN [slot EXCEPT !.at = "recheck"] ELSE [slot EXCEPT !.at = "read"]
    /\ Quiet

\* The adapter's cheap check; only on the interval does a failed one start a pass.
Identity ==
    /\ slot.at = "identity"
    /\ slot' = IF Speaks(Target(slot.adapter.upstream), slot.adapter.runtime)
               THEN [slot EXCEPT !.changed = None, !.at = "read"]
               ELSE [slot EXCEPT !.at = IF slot.pass THEN "recheck" ELSE "read"]
    /\ Quiet

\* The adapter's read, and the reading the panel gets.
Read ==
    /\ slot.at = "read"
    /\ LET target == Target(slot.adapter.upstream)
           event  == ReadOutcome(target, slot.adapter.runtime)
       IN  \/ /\ event # ready
              /\ \E waited \in Waited : slot' = Concluded(slot, event, waited)
              /\ UNCHANGED heard
           \/ /\ event = ready
              /\ \E key \in Keys(slot, target.server), waited \in Waited :
                   LET keyed == Keyed(slot, target.server, key)
                   IN  /\ slot' = Concluded(keyed, event, waited)
                       /\ heard' = heard \cup {[generation |-> keyed.generation,
                                                server |-> target.server, key |-> key,
                                                routed |-> slot.adapter.upstream # None]}
    /\ UNCHANGED <<port, changes, choice>>

\* The one GET /running that tells whether an unreadable server is llama-swap.
Probe ==
    /\ slot.at = "probe"
    /\ \/ /\ port.kind \in SwapKind
          /\ slot' = [slot EXCEPT !.swap = TRUE, !.first = None, !.at = "follow"]
       \/ /\ port.kind \notin SwapKind
          /\ \E waited \in Waited :
               slot' = Finished([slot EXCEPT !.swap = FALSE], slot.first, waited)
    /\ Quiet

Collection == Begin \/ Follow \/ Redetect \/ Detect \/ Identity \/ Read \/ Probe

\* The identity interval of the adapter has passed.
Interval ==
    /\ slot.adapter # None
    /\ ~ slot.due
    /\ slot' = [slot EXCEPT !.due = TRUE]
    /\ Quiet

\* Something else answers on the port.
Change ==
    /\ changes < MaxChanges
    /\ port' \in Port \ {port}
    /\ changes' = changes + 1
    /\ UNCHANGED <<choice, slot, heard>>

Init ==
    /\ port \in Port
    /\ changes = 0
    /\ choice \in Choice
    /\ slot = [at |-> "idle", state |-> initialSlot(0), redetect |-> FALSE, generation |-> 1,
               runtime |-> Declared, adapter |-> None, changed |-> None, key |-> None,
               swap |-> None, upstream |-> None, due |-> FALSE, pass |-> FALSE,
               first |-> None, last |-> None]
    /\ heard = {}

Next == Collection \/ Interval \/ Change

Spec == Init /\ [][Next]_vars

\* A panel keeps polling, awaits end (requests time out) and time passes.
FairSpec == Spec /\ WF_vars(Collection) /\ WF_vars(Interval)

----------------------------------------------------------------------------
\* The types, and what each await needs: `context.adapter!.read` has an adapter.
TypeOK ==
    /\ port \in Port
    /\ changes \in 0 .. MaxChanges
    /\ choice \in Choice
    /\ slot \in Slots
    /\ heard \subseteq [generation : Nat \ {0}, server : Server, routed : BOOLEAN,
                     key : GenerationKey]
    /\ slot.at \in {"identity", "recheck", "read"} => slot.adapter # None
    /\ slot.at = "detect" => slot.runtime = None
    /\ slot.at = "follow" => slot.swap = TRUE
    /\ (slot.at = "probe") = (slot.first # None)

\* An adapter only ever reads for the runtime the slot names, from the model
\* server the slot is pointed at: no stale one survives a switch.
AdapterFollowsSlot ==
    slot.adapter # None =>
        slot.adapter.runtime = slot.runtime /\ slot.adapter.upstream = slot.upstream

\* An explicit choice is never read as another runtime, whatever passes find.
ExplicitChoiceStands ==
    choice.explicit # None =>
        /\ slot.runtime = choice.explicit
        /\ \A h \in heard : RuntimeOf[h.server] = choice.explicit

\* By one route, on the port itself or behind llama-swap, a generation has the
\* readings of one runtime, one model server if llama-swap names it, and one
\* generation key, but for those that carry none.
RoutesAreFenced ==
    \A g, h \in heard :
        g.generation = h.generation /\ g.routed = h.routed =>
            /\ RuntimeOf[g.server] = RuntimeOf[h.server]
            /\ g.routed => g.server = h.server
            /\ None \in {g.key, h.key} \/ g.key = h.key

\* "The connection generation is v2's continuity counter: a change means a new
\* stream of readings": readings of two servers never share one.
GenerationNamesOneServer ==
    \A g, h \in heard : g.generation = h.generation => g.server = h.server

\* "A runtime that stays unsupported is re-checked every three readings": while a
\* model server answers on the port, an automatic slot does not stay degraded for
\* good without another detection pass.
UnsupportedIsRechecked ==
    choice.explicit = None =>
        ~ <>[](port.kind = "direct" /\ RuntimeOf[port.server] \in Detectable
               /\ slot.state.kind = "degraded")

\* A server that settles on the port is eventually read, however the slot got
\* there, if its runtime is the chosen one or one that can be detected, and if the
\* connection was not known as llama-swap's.
PortIsFollowed ==
    \A v \in Server :
        /\ choice.explicit \in {None, RuntimeOf[v]}
        /\ RuntimeOf[v] \in Detectable
        /\ <>[](port = [kind |-> "direct", server |-> v] /\ slot.swap # TRUE)
        => <>[](slot.last = v /\ slot.state.kind \in {"ready", "detecting"})

\* A reported change of runtime is withdrawn once the chosen one is back.
ChangeIsWithdrawn ==
    \A v \in Server :
        /\ choice.explicit = RuntimeOf[v]
        /\ <>[](port = [kind |-> "direct", server |-> v] /\ slot.swap # TRUE)
        => <>[](slot.changed = None)
=============================================================================
