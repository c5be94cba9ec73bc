----------------------------- MODULE Scheduler -----------------------------
(***************************************************************************)
(* The slot table that every runtime read goes through,                    *)
(* service/core/scheduler.ts: claim, bump and read.                        *)
(*                                                                         *)
(* Views (requests of panel frames) claim the slot of a connection key and *)
(* read it in one synchronous step; they share a collection in flight, get *)
(* a reading that is recent enough at once, or are deferred when every     *)
(* slot is mid-read.  What a collection does while it runs is left open    *)
(* here (module Connection models it): it may move the slot to a new       *)
(* generation, may run the detection pass the slot asked for, and ends     *)
(* with any outcome, for "collect must resolve".                           *)
(*                                                                         *)
(* Left out: `activeAt`, which only feeds the reported idle time, and      *)
(* `marker`, renewed together with `generation`.                           *)
(***************************************************************************)
EXTENDS Slot, FiniteSets

CONSTANTS
    View,            \* requests of panel frames
    Key,             \* connection keys: a connection and its chosen runtime
    Fingerprint,     \* endpoint, credential and runtime behind a key
    None,
    Capacity,        \* SLOT_CAPACITY
    Floor,           \* FLOOR_MS, in ticks
    Cadence,         \* the cadences the adapters ask for
    Outcome,         \* what collections can end with
    MaxNow,          \* bound: the clock stops here
    MaxGeneration    \* bound: no claim and no bump past this generation

ASSUME SchedulerAssumption ==
    /\ None \notin Key \cup Fingerprint \cup Nat
    /\ Capacity \in Nat \ {0}
    /\ Floor \in Nat \ {0}
    /\ Cadence \subseteq Nat
    /\ Outcome \subseteq SlotEvent
    /\ MaxNow \in Nat
    /\ MaxGeneration \in Nat

VARIABLES
    now,             \* the monotonic clock
    slots,           \* the Map from key to slot
    generations,     \* the last generation given out
    waiting          \* the slot, by its birth, whose collection a view awaits

vars == <<now, slots, generations, waiting>>

Tier == {"glance", "full"}

\* `born` is the generation a slot was created with: the Map's order.
SlotRecord ==
    [fingerprint : Fingerprint, born : Nat \ {0}, generation : Nat \ {0},
     value : Tier \cup {None}, inFlight : Tier \cup {None},
     sampledAt : Nat, state : SlotState, redetect : BOOLEAN]

\* Mutant: the counter is read before it is advanced.
NewSlotBefore(f) ==
    [fingerprint |-> f, born |-> generations, generation |-> generations,
     value |-> None, inFlight |-> None, sampledAt |-> 0,
     state |-> initialSlot(now), redetect |-> FALSE]

\* Mutant: each slot counts its own generations.
NewSlotRestart(f) ==
    [fingerprint |-> f, born |-> generations + 1, generation |-> 1,
     value |-> None, inFlight |-> None, sampledAt |-> 0,
     state |-> initialSlot(now), redetect |-> FALSE]

NewSlot(f) ==
    [fingerprint |-> f, born |-> generations + 1, generation |-> generations + 1,
     value |-> None, inFlight |-> None, sampledAt |-> 0,
     state |-> initialSlot(now), redetect |-> FALSE]

Idle(k) == slots[k].inFlight = None

----------------------------------------------------------------------------
(* claim                                                                   *)

Held(k, f) == k \in DOMAIN slots /\ slots[k].fingerprint = f

\* The keys whose slot can go to make room: the oldest that is not mid-read.
IdleKeys ==
    {k \in DOMAIN slots :
        Idle(k) /\ \A j \in DOMAIN slots : Idle(j) => slots[k].born <= slots[j].born}

\* Mutant: a slot mid-read can be replaced by a new endpoint.
RefusedWhenFull(k) ==
    k \notin DOMAIN slots /\ Cardinality(DOMAIN slots) >= Capacity /\ IdleKeys = {}

\* claim returns null: an in-flight slot is never replaced nor evicted.
Refused(k) ==
    IF k \in DOMAIN slots THEN ~ Idle(k)
    ELSE Cardinality(DOMAIN slots) >= Capacity /\ IdleKeys = {}

\* Mutant: one slot too many fits.
EvictedLate(k) ==
    IF Cardinality(DOMAIN slots \ {k}) > Capacity THEN IdleKeys ELSE {None}

\* The keys a new slot for k can push out; None when there is room.
Evicted(k) ==
    IF Cardinality(DOMAIN slots \ {k}) >= Capacity THEN IdleKeys ELSE {None}

Claimed(k, f, gone) ==
    [j \in (DOMAIN slots \ {gone}) \cup {k} |-> IF j = k THEN NewSlot(f) ELSE slots[j]]

----------------------------------------------------------------------------
(* read                                                                    *)

\* A failed runtime is being given time, however it failed.
BackingOff(slot) == now < slot.sampledAt + backoff(failuresOf(slot.state))

\* Mutant: a request for more detail does not wait for the backoff.
FreshIfFits(slot, tier, cadence) ==
    /\ slot.value # None
    /\ \/ now - slot.sampledAt < Floor
       \/ /\ slot.value = "full" \/ tier = "glance"
          /\ \/ now - slot.sampledAt < cadence
             \/ BackingOff(slot)

\* A stored reading answers the request: it is younger than the floor, or it
\* has the detail asked for and is within the cadence, or a failed runtime is
\* being given time.
Fresh(slot, tier, cadence) ==
    /\ slot.value # None
    /\ \/ now - slot.sampledAt < Floor
       \/ /\ slot.value = "full" \/ tier = "glance"
          /\ now - slot.sampledAt < cadence
       \/ BackingOff(slot)

Reading(slot, tier, cadence) ==
    IF slot.inFlight = None /\ ~ Fresh(slot, tier, cadence)
    THEN [slot EXCEPT !.inFlight = tier]
    ELSE slot

\* A view asks for key k: claim, then read, with no await in between.
Request(v, k, f, tier, cadence) ==
    /\ waiting[v] = None
    /\ \/ /\ Held(k, f)
          /\ slots' = [slots EXCEPT ![k] = Reading(@, tier, cadence)]
          /\ UNCHANGED generations
       \/ /\ ~ Held(k, f)
          /\ ~ Refused(k)
          /\ generations < MaxGeneration
          /\ \E gone \in Evicted(k) :
                slots' = [Claimed(k, f, gone) EXCEPT ![k] = Reading(@, tier, cadence)]
          /\ generations' = generations + 1
    /\ waiting' = [waiting EXCEPT ![v] =
                      IF slots'[k].inFlight = None THEN None ELSE slots'[k].born]
    /\ UNCHANGED now

----------------------------------------------------------------------------
(* A collection, which `collect` runs for the slot of k while in flight.   *)

\* Re-detection switched the runtime, or the runtime's models changed.
Bump(k) ==
    /\ ~ Idle(k)
    /\ generations < MaxGeneration
    /\ slots' = [slots EXCEPT ![k].generation = generations + 1]
    /\ generations' = generations + 1
    /\ UNCHANGED <<now, waiting>>

\* The collection runs the detection pass that an earlier reading called for.
Redetect(k) ==
    /\ ~ Idle(k)
    /\ slots[k].redetect
    /\ slots' = [slots EXCEPT ![k].redetect = FALSE, ![k].state = initialSlot(now)]
    /\ UNCHANGED <<now, generations, waiting>>

Sampled(slot, event) ==
    LET next == stepSlot(slot.state, event, now)
    IN  [slot EXCEPT !.value = slot.inFlight, !.inFlight = None, !.sampledAt = now,
                     !.state = next,
                     !.redetect = @ \/ redetectDue(slot.state, next, now)]

\* The collection resolves: the slot keeps the reading and every view sharing
\* the promise gets it.
Finish(k, event) ==
    /\ ~ Idle(k)
    /\ slots' = [slots EXCEPT ![k] = Sampled(@, event)]
    /\ waiting' = [v \in View |-> IF waiting[v] = slots[k].born THEN None ELSE waiting[v]]
    /\ UNCHANGED <<now, generations>>

Tick ==
    /\ now < MaxNow
    /\ now' = now + 1
    /\ UNCHANGED <<slots, generations, waiting>>

----------------------------------------------------------------------------

Init ==
    /\ now = 0
    /\ slots = [k \in {} |-> None]
    /\ generations = 0
    /\ waiting = [v \in View |-> None]

Next ==
    \/ Tick
    \/ \E v \in View, k \in Key, f \in Fingerprint, tier \in Tier, cadence \in Cadence :
          Request(v, k, f, tier, cadence)
    \/ \E k \in DOMAIN slots : Bump(k) \/ Redetect(k)
    \/ \E k \in DOMAIN slots, event \in Outcome : Finish(k, event)

Spec == Init /\ [][Next]_vars

----------------------------------------------------------------------------
\* The types, and a table that never outgrows its capacity.
TypeOK ==
    /\ now \in Nat
    /\ DOMAIN slots \subseteq Key
    /\ slots \in [DOMAIN slots -> SlotRecord]
    /\ IsFiniteSet(DOMAIN slots)
    /\ Cardinality(DOMAIN slots) <= Capacity
    /\ generations \in Nat
    /\ waiting \in [View -> Nat \cup {None}]

\* Whoever awaits a collection awaits one that is still in the table and still
\* running: no claim for another key or endpoint ever takes it away.
AwaitedReadsAreHeld ==
    \A v \in View : waiting[v] # None =>
        \E k \in DOMAIN slots : slots[k].born = waiting[v] /\ ~ Idle(k)

\* A generation names one stretch of one slot: no two slots share one, and none
\* was used before its number was given out.
GenerationsAreUnique ==
    /\ \A k \in DOMAIN slots : slots[k].born <= slots[k].generation
                               /\ slots[k].generation <= generations
    /\ \A j, k \in DOMAIN slots : j # k => slots[j].generation # slots[k].generation

\* The generation seen under a key only ever grows, across replacement too.
GenerationsGrow ==
    [][\A k \in DOMAIN slots \cap DOMAIN slots' :
         slots'[k].generation >= slots[k].generation]_vars

\* A slot is read again only after the floor, and after a failure only once its
\* backoff is over, whatever detail is asked for and however often.
ReadsAreSpaced ==
    [][\A k \in DOMAIN slots \cap DOMAIN slots' :
         /\ slots[k].born = slots'[k].born
         /\ slots[k].value # None
         /\ slots[k].inFlight = None /\ slots'[k].inFlight # None
         => /\ now >= slots[k].sampledAt + Floor
            /\ ~ BackingOff(slots[k])]_vars
============================================================================
