-------------------------- MODULE SchedulerProofs --------------------------
(***************************************************************************)
(* What the scheduler promises for any number of views, keys and slots.    *)
(* The invariants of Scheduler are inductive together: a claim is safe for *)
(* the collections in flight because it evicts only idle slots, and safe   *)
(* for the generations because the counter is ahead of all of them.        *)
(***************************************************************************)
EXTENDS Scheduler, FiniteSetTheorems, TLAPS

SchedulerInv ==
    /\ TypeOK
    /\ AwaitedReadsAreHeld
    /\ GenerationsAreUnique

----------------------------------------------------------------------------
(* The slot machine stays within its states.                               *)

LEMMA InitialSlotType == ASSUME NEW at \in Nat PROVE initialSlot(at) \in SlotState
BY DEF initialSlot, SlotState

LEMMA StepSlotType ==
    ASSUME NEW state \in SlotState, NEW event \in SlotEvent, NEW at \in Nat
    PROVE  stepSlot(state, event, at) \in SlotState
<1>1. CASE event.kind = "ready"
  BY <1>1 DEF stepSlot, SlotState
<1>2. CASE event.kind = "degraded"
  <2>1. event.unsupported \in BOOLEAN
    BY <1>2 DEF SlotEvent
  <2>2. Degraded(state, event.unsupported, at) \in SlotState
    <3>1. CASE state.kind = "degraded"
      <4>1. state.since \in Nat /\ state.unsupported \in Nat
        BY <3>1 DEF SlotState
      <4> QED
        BY <3>1, <4>1, <2>1 DEF Degraded, SlotState
    <3>2. CASE state.kind # "degraded"
      BY <3>2, <2>1 DEF Degraded, SlotState
    <3> QED
      BY <3>1, <3>2
  <2> QED
    BY <1>2, <2>2 DEF stepSlot
<1>3. CASE event.kind = "failed"
  <2>1. event.reason \in FailureReason
    BY <1>3 DEF SlotEvent
  <2>2. CASE state.kind # "failing"
    BY <1>3, <2>1, <2>2 DEF stepSlot, Failed, SlotState
  <2>3. CASE state.kind = "failing"
    <3>1. state \in [kind : {"failing"}, since : Nat, failures : Nat \ {0},
                     reason : FailureReason, streak : Nat \ {0}]
      BY <2>3 DEF SlotState
    <3>2. Failed(state, event.reason, at) \in
             [kind : {"failing"}, since : Nat, failures : Nat \ {0},
              reason : FailureReason, streak : Nat \ {0}]
      <4>1. /\ state.since \in Nat
            /\ state.failures \in Nat \ {0}
            /\ state.streak \in Nat \ {0}
        BY <3>1
      <4>2. state.failures + 1 \in Nat \ {0} /\ state.streak + 1 \in Nat \ {0}
        BY <4>1
      <4>3. Failed(state, event.reason, at) =
               [kind |-> "failing", since |-> state.since, failures |-> state.failures + 1,
                reason |-> event.reason,
                streak |-> IF state.reason = event.reason THEN state.streak + 1 ELSE 1]
        BY <2>3, <3>1 DEF Failed
      <4> QED
        BY <2>1, <4>1, <4>2, <4>3
    <3> QED
      BY <1>3, <3>2 DEF stepSlot, SlotState
  <2> QED
    BY <2>2, <2>3
<1> QED
  BY <1>1, <1>2, <1>3 DEF SlotEvent

LEMMA NewSlotType ==
    ASSUME TypeOK, NEW f \in Fingerprint
    PROVE  NewSlot(f) \in SlotRecord
BY InitialSlotType DEF NewSlot, SlotRecord, TypeOK

\* Starting a collection, or not, changes nothing but `inFlight`.
LEMMA ReadingFacts ==
    ASSUME NEW slot \in SlotRecord, NEW tier \in Tier, NEW cadence
    PROVE  /\ Reading(slot, tier, cadence) \in SlotRecord
           /\ Reading(slot, tier, cadence).born = slot.born
           /\ Reading(slot, tier, cadence).generation = slot.generation
           /\ slot.inFlight # None => Reading(slot, tier, cadence) = slot
           /\ slot.inFlight = None /\ Reading(slot, tier, cadence).inFlight # None
                 => ~ Fresh(slot, tier, cadence)
BY DEF Reading, SlotRecord

----------------------------------------------------------------------------
(* claim                                                                   *)

\* A claim keeps the table within its capacity and every running collection.
LEMMA ClaimedFacts ==
    ASSUME TypeOK, NEW k \in Key, NEW f \in Fingerprint,
           ~ Refused(k), NEW gone \in Evicted(k)
    PROVE  /\ DOMAIN Claimed(k, f, gone) \subseteq Key
           /\ k \in DOMAIN Claimed(k, f, gone)
           /\ Claimed(k, f, gone)[k] = NewSlot(f)
           /\ \A j \in DOMAIN Claimed(k, f, gone) \ {k} :
                 j \in DOMAIN slots /\ Claimed(k, f, gone)[j] = slots[j]
           /\ \A j \in DOMAIN slots : ~ Idle(j) =>
                 j # k /\ j \in DOMAIN Claimed(k, f, gone)
           /\ IsFiniteSet(DOMAIN Claimed(k, f, gone))
           /\ Cardinality(DOMAIN Claimed(k, f, gone)) <= Capacity
<1> DEFINE D == DOMAIN slots
           E == (D \ {gone}) \cup {k}
<1>1. DOMAIN Claimed(k, f, gone) = E
  BY DEF Claimed
<1>2. gone = None \/ gone \in IdleKeys
  BY DEF Evicted
<1>3. IdleKeys \subseteq D /\ None \notin Key /\ D \subseteq Key
  BY SchedulerAssumption DEF IdleKeys, TypeOK
<1>4. \A j \in D : ~ Idle(j) => j # k /\ j \in E
  BY <1>2, <1>3 DEF Refused, IdleKeys
<1>5. /\ IsFiniteSet(D) /\ IsFiniteSet(D \ {k}) /\ IsFiniteSet(D \ {gone}) /\ IsFiniteSet(E)
  BY FS_RemoveElement, FS_AddElement DEF TypeOK
<1>6. /\ Cardinality(D) \in Nat /\ Cardinality(D \ {k}) \in Nat
      /\ Cardinality(D \ {gone}) \in Nat /\ Cardinality(D) <= Capacity
  BY <1>5, FS_CardinalityType DEF TypeOK
<1>7. Cardinality(E) <= Capacity
  <2>1. CASE Cardinality(D \ {k}) >= Capacity
    <3>1. k \notin D /\ gone \in D
      BY <2>1, <1>3, <1>5, <1>6, FS_RemoveElement, SchedulerAssumption DEF Evicted, TypeOK
    <3>2. Cardinality(D \ {gone}) = Cardinality(D) - 1
      BY <3>1, <1>5, FS_RemoveElement
    <3>3. Cardinality(E) = Cardinality(D \ {gone}) + 1
      BY <3>1, <1>5, FS_AddElement
    <3> QED
      BY <3>2, <3>3, <1>6, SchedulerAssumption
  <2>2. CASE ~ (Cardinality(D \ {k}) >= Capacity)
    <3>1. gone = None
      BY <2>2 DEF Evicted
    <3>2. E = (D \ {k}) \cup {k}
      BY <3>1, <1>3
    <3>3. Cardinality(E) = Cardinality(D \ {k}) + 1
      BY <3>2, <1>5, FS_AddElement
    <3> QED
      BY <2>2, <3>3, <1>6, SchedulerAssumption
  <2> QED
    BY <2>1, <2>2
<1>8. /\ Claimed(k, f, gone)[k] = NewSlot(f)
      /\ \A j \in E \ {k} : j \in D /\ Claimed(k, f, gone)[j] = slots[j]
  BY DEF Claimed
<1> HIDE DEF D, E
<1> QED
  BY <1>1, <1>3, <1>4, <1>5, <1>7, <1>8 DEF D, E

----------------------------------------------------------------------------
(* The steps.                                                              *)

\* A request keeps, replaces or adds one slot and leaves the others alone.
LEMMA RequestFacts ==
    ASSUME TypeOK, GenerationsAreUnique,
           NEW v \in View, NEW k \in Key, NEW f \in Fingerprint,
           NEW tier \in Tier, NEW cadence \in Cadence,
           Request(v, k, f, tier, cadence)
    PROVE  /\ DOMAIN slots' \subseteq Key /\ k \in DOMAIN slots'
           /\ slots' \in [DOMAIN slots' -> SlotRecord]
           /\ IsFiniteSet(DOMAIN slots') /\ Cardinality(DOMAIN slots') <= Capacity
           /\ generations' \in Nat /\ generations <= generations'
           /\ \A j \in DOMAIN slots' \ {k} : j \in DOMAIN slots /\ slots'[j] = slots[j]
           /\ \A j \in DOMAIN slots : ~ Idle(j) =>
                 j \in DOMAIN slots' /\ slots'[j] = slots[j]
           /\ \/ /\ k \in DOMAIN slots
                 /\ slots'[k].born = slots[k].born
                 /\ slots'[k].generation = slots[k].generation
                 /\ slots[k].inFlight = None /\ slots'[k].inFlight # None
                       => ~ Fresh(slots[k], tier, cadence)
              \/ /\ generations' = generations + 1
                 /\ slots'[k].born = generations'
                 /\ slots'[k].generation = generations'
           /\ waiting' = [waiting EXCEPT ![v] =
                 IF slots'[k].inFlight = None THEN None ELSE slots'[k].born]
           /\ now' = now
<1>0. /\ slots \in [DOMAIN slots -> SlotRecord] /\ DOMAIN slots \subseteq Key
      /\ generations \in Nat /\ IsFiniteSet(DOMAIN slots)
      /\ Cardinality(DOMAIN slots) <= Capacity
  BY DEF TypeOK
<1>1. CASE Held(k, f) /\ slots' = [slots EXCEPT ![k] = Reading(@, tier, cadence)]
           /\ UNCHANGED generations
  <2>1. k \in DOMAIN slots /\ slots[k] \in SlotRecord /\ DOMAIN slots' = DOMAIN slots
    BY <1>0, <1>1 DEF Held
  <2>2. slots'[k] = Reading(slots[k], tier, cadence)
    BY <1>1, <2>1
  <2>3. /\ slots'[k] \in SlotRecord
        /\ slots'[k].born = slots[k].born
        /\ slots'[k].generation = slots[k].generation
        /\ slots[k].inFlight # None => slots'[k] = slots[k]
        /\ slots[k].inFlight = None /\ slots'[k].inFlight # None
              => ~ Fresh(slots[k], tier, cadence)
    BY <2>1, <2>2, ReadingFacts
  <2>4. \A j \in DOMAIN slots \ {k} : slots'[j] = slots[j]
    BY <1>1
  <2>5. slots' \in [DOMAIN slots' -> SlotRecord]
    BY <1>0, <1>1, <2>1, <2>3, <2>4
  <2>6. \A j \in DOMAIN slots : ~ Idle(j) => slots'[j] = slots[j]
    BY <2>3, <2>4 DEF Idle
  <2> QED
    BY <1>0, <1>1, <2>1, <2>3, <2>4, <2>5, <2>6 DEF Request
<1>2. CASE /\ ~ Refused(k)
           /\ \E gone \in Evicted(k) :
                 slots' = [Claimed(k, f, gone) EXCEPT ![k] = Reading(@, tier, cadence)]
           /\ generations' = generations + 1
  <2>1. PICK gone \in Evicted(k) :
           slots' = [Claimed(k, f, gone) EXCEPT ![k] = Reading(@, tier, cadence)]
    BY <1>2
  <2> DEFINE table == Claimed(k, f, gone)
  <2>2. /\ DOMAIN table \subseteq Key
        /\ k \in DOMAIN table
        /\ table[k] = NewSlot(f)
        /\ \A j \in DOMAIN table \ {k} : j \in DOMAIN slots /\ table[j] = slots[j]
        /\ \A j \in DOMAIN slots : ~ Idle(j) => j # k /\ j \in DOMAIN table
        /\ IsFiniteSet(DOMAIN table)
        /\ Cardinality(DOMAIN table) <= Capacity
    BY <1>2, ClaimedFacts
  <2> HIDE DEF table
  <2>3. /\ DOMAIN slots' = DOMAIN table
        /\ slots'[k] = Reading(NewSlot(f), tier, cadence)
        /\ \A j \in DOMAIN table \ {k} : slots'[j] = slots[j]
    BY <2>1, <2>2 DEF table
  <2>4. /\ slots'[k] \in SlotRecord
        /\ slots'[k].born = generations'
        /\ slots'[k].generation = generations'
    BY <2>3, <1>2, ReadingFacts, NewSlotType DEF NewSlot
  <2>5. slots' = [j \in DOMAIN slots' |-> slots'[j]]
    BY <2>1, <2>2, <2>3 DEF table
  <2>6. slots' \in [DOMAIN slots' -> SlotRecord]
    BY <1>0, <2>2, <2>3, <2>4, <2>5
  <2> QED
    BY <1>0, <1>2, <2>2, <2>3, <2>4, <2>6 DEF Request
<1> QED
  BY <1>1, <1>2 DEF Request

LEMMA InitInv == Init => SchedulerInv
<1> SUFFICES ASSUME Init PROVE SchedulerInv
  OBVIOUS
<1>1. DOMAIN slots = {}
  BY DEF Init
<1> QED
  BY <1>1, FS_EmptySet, SchedulerAssumption
  DEF Init, SchedulerInv, TypeOK, AwaitedReadsAreHeld, GenerationsAreUnique

LEMMA RequestInv ==
    ASSUME SchedulerInv,
           NEW v \in View, NEW k \in Key, NEW f \in Fingerprint,
           NEW tier \in Tier, NEW cadence \in Cadence,
           Request(v, k, f, tier, cadence)
    PROVE  SchedulerInv'
<1>0. TypeOK /\ GenerationsAreUnique
  BY DEF SchedulerInv
<1>1. TypeOK'
  <2>1. slots'[k] \in SlotRecord
    BY <1>0, RequestFacts
  <2>2. slots'[k].born \in Nat
    BY <2>1 DEF SlotRecord
  <2>3. waiting' \in [View -> Nat \cup {None}]
    BY <1>0, <2>2, RequestFacts DEF TypeOK
  <2> QED
    BY <1>0, <2>3, RequestFacts DEF TypeOK
<1>2. AwaitedReadsAreHeld'
  <2> SUFFICES ASSUME NEW u \in View, waiting'[u] # None
               PROVE  \E j \in DOMAIN slots' : slots'[j].born = waiting'[u] /\ slots'[j].inFlight # None
    BY DEF AwaitedReadsAreHeld, Idle
  <2>1. CASE u = v
    <3>1. waiting'[v] = IF slots'[k].inFlight = None THEN None ELSE slots'[k].born
      BY <1>0, RequestFacts DEF TypeOK
    <3>2. k \in DOMAIN slots'
      BY <1>0, RequestFacts
    <3> QED
      BY <2>1, <3>1, <3>2
  <2>2. CASE u # v
    <3>1. waiting'[u] = waiting[u]
      BY <2>2, <1>0, RequestFacts DEF TypeOK
    <3>2. PICK j \in DOMAIN slots : slots[j].born = waiting[u] /\ ~ Idle(j)
      BY <3>1 DEF SchedulerInv, AwaitedReadsAreHeld
    <3>3. j \in DOMAIN slots' /\ slots'[j] = slots[j]
      BY <1>0, <3>2, RequestFacts
    <3> QED
      BY <3>1, <3>2, <3>3 DEF Idle
  <2> QED
    BY <2>1, <2>2
<1>3. GenerationsAreUnique'
  <2>1. \A j \in DOMAIN slots : /\ slots[j].born \in Nat /\ slots[j].generation \in Nat
                                /\ slots[j].born <= slots[j].generation
                                /\ slots[j].generation <= generations
    BY <1>0 DEF TypeOK, GenerationsAreUnique, SlotRecord
  <2>2. generations \in Nat
    BY <1>0 DEF TypeOK
  <2>3. \A j \in DOMAIN slots' \ {k} : j \in DOMAIN slots /\ slots'[j] = slots[j]
    BY <1>0, RequestFacts
  <2>4. generations' \in Nat /\ generations <= generations'
    BY <1>0, RequestFacts
  <2>5. \/ /\ k \in DOMAIN slots
           /\ slots'[k].born = slots[k].born
           /\ slots'[k].generation = slots[k].generation
        \/ /\ generations' = generations + 1
           /\ slots'[k].born = generations'
           /\ slots'[k].generation = generations'
    BY <1>0, RequestFacts
  <2>6. \A j \in DOMAIN slots' : slots'[j].born <= slots'[j].generation
                                 /\ slots'[j].generation <= generations'
    BY <2>1, <2>2, <2>3, <2>4, <2>5
  <2>7. \A j \in DOMAIN slots' \ {k} : slots'[j].generation # slots'[k].generation
    BY <1>0, <2>1, <2>2, <2>3, <2>5 DEF GenerationsAreUnique
  <2>8. \A i, j \in DOMAIN slots' : i # j => slots'[i].generation # slots'[j].generation
    BY <1>0, <2>3, <2>7 DEF GenerationsAreUnique
  <2> QED
    BY <2>6, <2>8 DEF GenerationsAreUnique
<1> QED
  BY <1>1, <1>2, <1>3 DEF SchedulerInv

\* A step of a collection changes one slot in place, and only its own fields.
LEMMA InPlaceInv ==
    ASSUME SchedulerInv, NEW k \in DOMAIN slots, NEW slot \in SlotRecord,
           slots' = [slots EXCEPT ![k] = slot],
           slot.born = slots[k].born,
           \/ slot.generation = slots[k].generation /\ generations' = generations
           \/ slot.generation = generations + 1 /\ generations' = generations + 1,
           waiting' \in [View -> Nat \cup {None}],
           \A v \in View : waiting'[v] # None =>
              waiting'[v] = waiting[v] /\ (slot.inFlight = None => waiting[v] # slot.born),
           slots[k].inFlight # None,
           now' = now
    PROVE  SchedulerInv'
<1>0. /\ DOMAIN slots' = DOMAIN slots /\ slots'[k] = slot
      /\ \A j \in DOMAIN slots \ {k} : slots'[j] = slots[j]
      /\ slots \in [DOMAIN slots -> SlotRecord]
      /\ generations \in Nat
  BY DEF SchedulerInv, TypeOK
<1>1. TypeOK'
  BY <1>0 DEF SchedulerInv, TypeOK
<1>2. AwaitedReadsAreHeld'
  <2> SUFFICES ASSUME NEW u \in View, waiting'[u] # None
               PROVE  \E j \in DOMAIN slots' : slots'[j].born = waiting'[u] /\ slots'[j].inFlight # None
    BY DEF AwaitedReadsAreHeld, Idle
  <2>1. PICK j \in DOMAIN slots : slots[j].born = waiting[u] /\ slots[j].inFlight # None
    BY DEF SchedulerInv, AwaitedReadsAreHeld, Idle
  <2>2. CASE j = k
    BY <1>0, <2>1, <2>2
  <2>3. CASE j # k
    BY <1>0, <2>1, <2>3
  <2> QED
    BY <2>2, <2>3
<1>3. GenerationsAreUnique'
  <2>1. \A j \in DOMAIN slots : /\ slots[j].born \in Nat /\ slots[j].generation \in Nat
                                /\ slots[j].born <= slots[j].generation
                                /\ slots[j].generation <= generations
    BY <1>0 DEF SchedulerInv, GenerationsAreUnique, SlotRecord
  <2>2. \A j \in DOMAIN slots : /\ slots'[j].born <= slots'[j].generation
                                /\ slots'[j].generation <= generations'
    BY <1>0, <2>1
  <2>3. \A j \in DOMAIN slots \ {k} : slots'[j].generation # slots'[k].generation
    BY <1>0, <2>1 DEF SchedulerInv, GenerationsAreUnique
  <2>4. \A i, j \in DOMAIN slots' : i # j => slots'[i].generation # slots'[j].generation
    BY <1>0, <2>3 DEF SchedulerInv, GenerationsAreUnique
  <2> QED
    BY <1>0, <2>2, <2>4 DEF GenerationsAreUnique
<1> QED
  BY <1>1, <1>2, <1>3 DEF SchedulerInv

LEMMA CollectionInv ==
    ASSUME SchedulerInv, NEW k \in DOMAIN slots,
           \/ Bump(k)
           \/ Redetect(k)
           \/ \E event \in Outcome : Finish(k, event)
    PROVE  SchedulerInv'
<1>0. /\ slots[k] \in SlotRecord /\ generations \in Nat /\ now \in Nat
      /\ waiting \in [View -> Nat \cup {None}]
  BY DEF SchedulerInv, TypeOK
<1>1. CASE Bump(k)
  <2> DEFINE slot == [slots[k] EXCEPT !.generation = generations + 1]
  <2>1. /\ slot \in SlotRecord /\ slot.born = slots[k].born
        /\ slot.generation = generations + 1 /\ slot.inFlight = slots[k].inFlight
    BY <1>0 DEF SlotRecord
  <2>2. slots' = [slots EXCEPT ![k] = slot]
    BY <1>1 DEF Bump
  <2>3. /\ generations' = generations + 1 /\ waiting' = waiting /\ now' = now
        /\ slots[k].inFlight # None
    BY <1>1 DEF Bump, Idle
  <2> HIDE DEF slot
  <2> QED
    BY <1>0, <2>1, <2>2, <2>3, InPlaceInv
<1>2. CASE Redetect(k)
  <2> DEFINE slot == [slots[k] EXCEPT !.redetect = FALSE, !.state = initialSlot(now)]
  <2>1. /\ slot \in SlotRecord /\ slot.born = slots[k].born
        /\ slot.generation = slots[k].generation /\ slot.inFlight = slots[k].inFlight
    BY <1>0, InitialSlotType DEF SlotRecord
  <2>2. slots' = [slots EXCEPT ![k] = slot]
    BY <1>2 DEF Redetect
  <2>3. /\ generations' = generations /\ waiting' = waiting /\ now' = now
        /\ slots[k].inFlight # None
    BY <1>2 DEF Redetect, Idle
  <2> HIDE DEF slot
  <2> QED
    BY <1>0, <2>1, <2>2, <2>3, InPlaceInv
<1>3. ASSUME NEW event \in Outcome, Finish(k, event)
      PROVE  SchedulerInv'
  <2> DEFINE slot == Sampled(slots[k], event)
  <2>1. event \in SlotEvent /\ slots[k].state \in SlotState
    BY <1>0, SchedulerAssumption DEF SlotRecord
  <2>2. stepSlot(slots[k].state, event, now) \in SlotState
    BY <1>0, <2>1, StepSlotType
  <2>3. redetectDue(slots[k].state, stepSlot(slots[k].state, event, now), now) \in BOOLEAN
    BY DEF redetectDue
  <2>4. /\ slot \in SlotRecord /\ slot.born = slots[k].born
        /\ slot.generation = slots[k].generation /\ slot.inFlight = None
    BY <1>0, <2>2, <2>3 DEF SlotRecord, Sampled
  <2>5. slots' = [slots EXCEPT ![k] = slot]
    BY <1>3 DEF Finish
  <2>6. /\ generations' = generations /\ now' = now
        /\ waiting' = [v \in View |-> IF waiting[v] = slots[k].born THEN None ELSE waiting[v]]
        /\ slots[k].inFlight # None
    BY <1>3 DEF Finish, Idle
  <2>7. waiting' \in [View -> Nat \cup {None}]
    BY <1>0, <2>6
  <2>8. \A v \in View : waiting'[v] # None =>
           waiting'[v] = waiting[v] /\ waiting[v] # slot.born
    BY <2>4, <2>6
  <2> HIDE DEF slot
  <2> QED
    BY <2>4, <2>5, <2>6, <2>7, <2>8, InPlaceInv
<1> QED
  BY <1>1, <1>2, <1>3

LEMMA NextInv == SchedulerInv /\ [Next]_vars => SchedulerInv'
<1> SUFFICES ASSUME SchedulerInv, [Next]_vars PROVE SchedulerInv'
  OBVIOUS
<1>1. CASE Tick
  BY <1>1 DEF Tick, SchedulerInv, TypeOK, AwaitedReadsAreHeld, GenerationsAreUnique, Idle
<1>2. CASE \E v \in View, k \in Key, f \in Fingerprint, tier \in Tier, cadence \in Cadence :
             Request(v, k, f, tier, cadence)
  BY <1>2, RequestInv
<1>3. CASE \E k \in DOMAIN slots :
             Bump(k) \/ Redetect(k) \/ \E event \in Outcome : Finish(k, event)
  BY <1>3, CollectionInv
<1>4. CASE UNCHANGED vars
  BY <1>4 DEF vars, SchedulerInv, TypeOK, AwaitedReadsAreHeld, GenerationsAreUnique, Idle
<1> QED
  BY <1>1, <1>2, <1>3, <1>4 DEF Next

\* The three invariants hold together in every reachable state.
THEOREM SchedulerInvariant == Spec => []SchedulerInv
BY InitInv, NextInv, PTL DEF Spec

----------------------------------------------------------------------------
(* The results.                                                            *)

\* Types, and a table that never outgrows its capacity.
THEOREM SchedulerTypeCorrect == Spec => []TypeOK
<1>1. SchedulerInv => TypeOK
  BY DEF SchedulerInv
<1> QED
  BY <1>1, SchedulerInvariant, PTL

\* No claim takes away a collection that somebody awaits.
THEOREM AwaitedReadsStay == Spec => []AwaitedReadsAreHeld
<1>1. SchedulerInv => AwaitedReadsAreHeld
  BY DEF SchedulerInv
<1> QED
  BY <1>1, SchedulerInvariant, PTL

\* No two slots ever carry the same generation.
THEOREM GenerationsDiffer == Spec => []GenerationsAreUnique
<1>1. SchedulerInv => GenerationsAreUnique
  BY DEF SchedulerInv
<1> QED
  BY <1>1, SchedulerInvariant, PTL

\* A panel that compares the generations under one key sees them only grow: a
\* request leaves a slot or gives its key a number ahead of all others, and a
\* collection leaves the number or moves it ahead.
THEOREM GenerationsOnlyGrow == Spec => GenerationsGrow
<1> DEFINE A == \A k \in DOMAIN slots \cap DOMAIN slots' :
                   slots'[k].generation >= slots[k].generation
<1>1. SchedulerInv /\ [Next]_vars => [A]_vars
  <2> SUFFICES ASSUME SchedulerInv, Next, NEW k \in DOMAIN slots, k \in DOMAIN slots'
               PROVE  slots'[k].generation >= slots[k].generation
    OBVIOUS
  <2>1. TypeOK /\ GenerationsAreUnique
    BY DEF SchedulerInv
  <2>2. /\ generations \in Nat /\ slots[k].generation \in Nat
        /\ slots[k].generation <= generations
        /\ slots \in [DOMAIN slots -> SlotRecord]
    BY <2>1 DEF TypeOK, GenerationsAreUnique, SlotRecord
  <2>3. CASE Tick
    BY <2>2, <2>3 DEF Tick
  <2>4. ASSUME NEW v \in View, NEW q \in Key, NEW f \in Fingerprint,
               NEW tier \in Tier, NEW cadence \in Cadence, Request(v, q, f, tier, cadence)
        PROVE  slots'[k].generation >= slots[k].generation
    <3>1. CASE k = q
      BY <2>1, <2>2, <2>4, <3>1, RequestFacts
    <3>2. CASE k # q
      BY <2>1, <2>2, <2>4, <3>2, RequestFacts
    <3> QED
      BY <3>1, <3>2
  <2>5. ASSUME NEW q \in DOMAIN slots, Bump(q)
        PROVE  slots'[k].generation >= slots[k].generation
    BY <2>2, <2>5 DEF Bump, SlotRecord
  <2>6. ASSUME NEW q \in DOMAIN slots, Redetect(q)
        PROVE  slots'[k].generation >= slots[k].generation
    BY <2>2, <2>6 DEF Redetect, SlotRecord
  <2>7. ASSUME NEW q \in DOMAIN slots, NEW event \in Outcome, Finish(q, event)
        PROVE  slots'[k].generation >= slots[k].generation
    BY <2>2, <2>7 DEF Finish, Sampled, SlotRecord
  <2> QED
    BY <2>3, <2>4, <2>5, <2>6, <2>7 DEF Next
<1> QED
  BY <1>1, SchedulerInvariant, PTL DEF Spec, GenerationsGrow

\* The floor and the backoff space the collections of a slot, for any cadence.
THEOREM CollectionsAreSpaced == Spec => ReadsAreSpaced
<1> DEFINE Start(k) == /\ slots[k].born = slots'[k].born
                       /\ slots[k].value # None
                       /\ slots[k].inFlight = None /\ slots'[k].inFlight # None
           A == \A k \in DOMAIN slots \cap DOMAIN slots' :
                   Start(k) => /\ now >= slots[k].sampledAt + Floor
                               /\ ~ BackingOff(slots[k])
<1>1. SchedulerInv /\ [Next]_vars => [A]_vars
  <2> SUFFICES ASSUME SchedulerInv, Next, NEW k \in DOMAIN slots \cap DOMAIN slots', Start(k)
               PROVE  /\ now >= slots[k].sampledAt + Floor
                      /\ ~ BackingOff(slots[k])
    OBVIOUS
  <2>1. PICK v \in View, q \in Key, f \in Fingerprint, tier \in Tier, cadence \in Cadence :
           Request(v, q, f, tier, cadence)
    <3>1. ASSUME NEW q \in DOMAIN slots, Bump(q) \/ Redetect(q) PROVE FALSE
      BY <3>1 DEF Bump, Redetect, Idle, SchedulerInv, TypeOK, SlotRecord
    <3>2. ASSUME NEW q \in DOMAIN slots, NEW e \in Outcome, Finish(q, e) PROVE FALSE
      BY <3>2 DEF Finish, Sampled, Idle, SchedulerInv, TypeOK, SlotRecord
    <3>3. ~ Tick
      BY DEF Tick
    <3> QED
      BY <3>1, <3>2, <3>3 DEF Next
  <2>2. TypeOK /\ GenerationsAreUnique
    BY DEF SchedulerInv
  <2>3. k = q
    BY <2>1, <2>2, RequestFacts
  <2>4. /\ slots[k].born \in Nat /\ slots[k].born <= generations
        /\ slots[k].sampledAt \in Nat /\ now \in Nat /\ generations \in Nat
    BY <2>2 DEF TypeOK, GenerationsAreUnique, SlotRecord
  <2>5. ~ Fresh(slots[k], tier, cadence)
    BY <2>1, <2>2, <2>3, <2>4, RequestFacts
  <2> QED
    BY <2>4, <2>5, SchedulerAssumption DEF Fresh
<1> QED
  BY <1>1, SchedulerInvariant, PTL DEF Spec, ReadsAreSpaced
============================================================================
