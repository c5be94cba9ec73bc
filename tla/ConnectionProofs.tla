-------------------------- MODULE ConnectionProofs --------------------------
(***************************************************************************)
(* What Connection promises for every set of runtimes and servers, however *)
(* often the port changes.                                                 *)
(*                                                                         *)
(* That routes are fenced speaks of readings long past and is not          *)
(* inductive: the next reading is fenced only if the slot still knows the  *)
(* runtime, the model server and the key of the generation it would add    *)
(* to.  HeardBy says so of a slot; each stretch between two awaits keeps   *)
(* it, so that an action, one or two of them, does.                        *)
(***************************************************************************)
EXTENDS Connection, TLAPS

\* A slot whose adapter is of the runtime and the route it names, and whose
\* runtime is the explicit choice if there is one.  A key is of the kind that
\* runtime's adapter gives.
Consistent(s) ==
    /\ s \in Slots
    /\ s.adapter # None => s.adapter.runtime = s.runtime /\ s.adapter.upstream = s.upstream
    /\ choice.explicit # None => s.runtime = choice.explicit
    /\ s.key # None => s.runtime # None /\ s.key \in (IF s.runtime \in Counting THEN Nat ELSE Key)

\* What was heard is of the slot's generation or an earlier one.  Of its own
\* generation, a routed reading is of the server the slot is pointed at, and every
\* one is of the slot's runtime and key, but for direct ones once the slot has been
\* pointed at its first server behind llama-swap.
HeardBy(s) ==
    \A h \in heard :
        /\ h.generation \in 1 .. s.generation /\ h.server \in Server
        /\ h.generation = s.generation =>
              /\ h.routed => s.upstream = h.server
              /\ h.routed \/ s.upstream = None =>
                    RuntimeOf[h.server] = s.runtime /\ (h.key # None => s.key = h.key)

Good(s) == Consistent(s) /\ HeardBy(s)

\* What each await needs.
Placed(s) ==
    /\ s.at \in {"identity", "recheck", "read"} => s.adapter # None
    /\ s.at = "detect" => s.runtime = None
    /\ s.at = "follow" => s.swap = TRUE
    /\ (s.at = "probe") = (s.first # None)

ConnectionInv ==
    /\ TypeOK
    /\ Good(slot)
    /\ RoutesAreFenced
    /\ ExplicitChoiceStands

----------------------------------------------------------------------------
(* The stretches between two awaits.                                       *)

\* The states of the slot machine, and the bound on their counts, are states.
LEMMA StepFacts ==
    ASSUME NEW state \in SlotState, NEW event \in SlotEvent
    PROVE  Saturated(stepSlot(state, event, 0)) \in SlotState
<1> USE SlotAssumption
<1>1. CASE event.kind = "ready"
  <2>1. stepSlot(state, event, 0) \in [kind : {"detecting", "ready"}, since : Nat]
    BY <1>1 DEF stepSlot, SlotState, SlotEvent
  <2> QED
    BY <2>1 DEF Saturated, SlotState
<1>2. CASE event.kind = "degraded"
  <2>1. Degraded(state, event.unsupported, 0) \in [kind : {"degraded"}, since : Nat, unsupported : Nat]
    BY <1>2 DEF Degraded, SlotState, SlotEvent
  <2> QED
    BY <1>2, <2>1 DEF stepSlot, Saturated, SlotState, Smaller
<1>3. CASE event.kind = "failed"
  <2> DEFINE Failing == [kind : {"failing"}, since : Nat, failures : Nat \ {0},
                         reason : FailureReason, streak : Nat \ {0}]
  <2> Failing \subseteq SlotState
    BY DEF SlotState
  <2> HIDE DEF Failing
  <2>1. event.reason \in FailureReason
    BY <1>3 DEF SlotEvent
  <2>2. CASE state.kind # "failing"
    <3> DEFINE first == [kind |-> "failing", since |-> 0, failures |-> 1,
                         reason |-> event.reason, streak |-> 1]
    <3>1. stepSlot(state, event, 0) = first
      BY <1>3, <2>2 DEF Failed, stepSlot
    <3>2. first \in Failing
      BY <2>1 DEF Failing
    <3>3. Saturated(first) = [first EXCEPT !.failures = 1, !.streak = 1]
      BY DEF Saturated
    <3>4. Saturated(first) = first
      BY <3>3
    <3> QED
      BY <3>1, <3>2, <3>4
  <2>3. CASE state.kind = "failing"
    <3>1. state \in Failing
      BY <2>3 DEF SlotState, Failing
    <3>0. \A x \in Failing, r \in FailureReason, m, n \in Nat \ {0} :
             [x EXCEPT !.failures = m, !.reason = r, !.streak = n] \in Failing
      BY DEF Failing
    <3> DEFINE more == [state EXCEPT !.failures = @ + 1, !.reason = event.reason,
                                     !.streak = IF state.reason = event.reason THEN @ + 1 ELSE 1]
    <3>2. stepSlot(state, event, 0) = more
      BY <1>3, <2>3 DEF Failed, stepSlot
    <3>3. more \in Failing
      <4>1. state.failures + 1 \in Nat \ {0} /\ state.streak + 1 \in Nat \ {0} /\ 1 \in Nat \ {0}
        BY <3>1 DEF Failing
      <4> QED
        BY <2>1, <3>0, <3>1, <4>1
    <3>4. more.kind = "failing"
      BY <3>3 DEF Failing
    <3> HIDE DEF more
    <3>5. Saturated(more) = [more EXCEPT !.failures = 1, !.streak = 1]
      BY <3>4 DEF Saturated
    <3>6. Saturated(more) \in Failing
      <4>1. \A m, n \in Nat \ {0} : [more EXCEPT !.failures = m, !.streak = n] \in Failing
        BY <3>3 DEF Failing
      <4>2. 1 \in Nat \ {0}
        OBVIOUS
      <4> QED
        BY <3>5, <4>1, <4>2
    <3> QED
      BY <3>2, <3>6
  <2> QED
    BY <2>2, <2>3
<1> QED
  BY <1>1, <1>2, <1>3 DEF SlotEvent

LEMMA KeyFacts == None \in GenerationKey
BY DEF GenerationKey

\* Where a collection is, and what it remembers beside them, is no matter.
LEMMA SameReader ==
    ASSUME NEW s, Good(s), NEW t \in Slots,
           t.adapter = s.adapter, t.runtime = s.runtime, t.upstream = s.upstream,
           t.generation = s.generation, t.key = s.key
    PROVE  Good(t)
BY DEF Good, Consistent, HeardBy

LEMMA FinishedFacts ==
    ASSUME NEW s, Good(s), NEW event \in SlotEvent, NEW waited
    PROVE  LET t == Finished(s, event, waited)
           IN  /\ Good(t) /\ Placed(t)
               /\ t.adapter = s.adapter /\ t.runtime = s.runtime /\ t.upstream = s.upstream
               /\ t.generation = s.generation /\ t.key = s.key
<1> DEFINE f == Finished(s, event, waited)
<1>1. Saturated(stepSlot(s.state, event, 0)) \in SlotState
  BY StepFacts DEF Good, Consistent, Slots
<1>2. ASSUME NEW state \in SlotState, NEW redetect \in BOOLEAN
      PROVE  [s EXCEPT !.at = "idle", !.first = None, !.state = state, !.redetect = redetect] \in Slots
  BY DEF Good, Consistent, Slots
<1>3. \E state \in SlotState, redetect \in BOOLEAN :
         f = [s EXCEPT !.at = "idle", !.first = None, !.state = state, !.redetect = redetect]
  <2>1. (s.redetect \/ redetectDue(s.state, stepSlot(s.state, event, 0), waited)) \in BOOLEAN
    OBVIOUS
  <2> QED
    BY <1>1, <2>1, Zenon DEF Finished
<1>4. /\ f \in Slots
      /\ f.at = "idle" /\ f.first = None
      /\ f.adapter = s.adapter /\ f.runtime = s.runtime /\ f.upstream = s.upstream
      /\ f.generation = s.generation /\ f.key = s.key
  <2>1. PICK state \in SlotState, redetect \in BOOLEAN :
           f = [s EXCEPT !.at = "idle", !.first = None, !.state = state, !.redetect = redetect]
    BY <1>3
  <2> HIDE DEF f
  <2>2. f \in Slots
    BY <1>2, <2>1
  <2> QED
    BY <2>1, <2>2 DEF Good, Consistent, Slots
<1> QED
  BY <1>4 DEF Good, Consistent, HeardBy, Placed

LEMMA ConcludedFacts ==
    ASSUME NEW s, Good(s), NEW event \in SlotEvent, NEW waited
    PROVE  LET t == Concluded(s, event, waited)
           IN  /\ Good(t) /\ Placed(t)
               /\ t.adapter = s.adapter /\ t.runtime = s.runtime /\ t.upstream = s.upstream
               /\ t.generation = s.generation /\ t.key = s.key
<1>1. CASE s.swap = None /\ Unsupported(event)
  <2> DEFINE c == [s EXCEPT !.at = "probe", !.first = event]
  <2>1. Concluded(s, event, waited) = c
    BY <1>1 DEF Concluded
  <2>2. event # None
    BY ConnectionAssumption
  <2>3. c \in Slots
    BY DEF Good, Consistent, Slots
  <2> QED
    BY <2>1, <2>2, <2>3 DEF Good, Consistent, HeardBy, Placed, Slots
<1>2. CASE ~ (s.swap = None /\ Unsupported(event))
  BY <1>2, FinishedFacts DEF Concluded
<1> QED
  BY <1>1, <1>2

\* A pass answers for a slot whose runtime or adapter it may take away.
LEMMA SwitchedFacts ==
    ASSUME NEW s, Good(s), NEW runtime \in Runtime \cup {None}
    PROVE  LET t == Switched(s, runtime)
           IN  /\ Good(t) /\ t.at = s.at /\ t.first = s.first /\ t.swap = s.swap
               /\ s.runtime # None \/ runtime # None => t.runtime # None
<1> DEFINE t == Switched(s, runtime)
           cleared == [s EXCEPT !.changed = None]
           reported == [s EXCEPT !.changed = runtime]
           replaced == [s EXCEPT !.adapter = None, !.runtime = runtime, !.changed = None,
                                 !.key = None, !.generation = @ + 1]
<1>1. \/ t = s /\ runtime = None
      \/ t = cleared /\ runtime = s.runtime
      \/ t = reported /\ choice.explicit # None /\ runtime # None
      \/ t = replaced /\ choice.explicit = None /\ runtime # None
  BY DEF Switched
<1>2. CASE t = s /\ runtime = None
  BY <1>2
<1>3. CASE t = cleared /\ runtime = s.runtime
  <2>1. cleared \in Slots
    BY DEF Good, Consistent, Slots
  <2> QED
    BY <1>3, <2>1 DEF Good, Consistent, HeardBy, Slots
<1>4. CASE t = reported /\ choice.explicit # None /\ runtime # None
  <2>1. reported \in Slots
    BY DEF Good, Consistent, Slots
  <2>2. s.runtime # None
    BY <1>4 DEF Good, Consistent
  <2> QED
    BY <1>4, <2>1, <2>2 DEF Good, Consistent, HeardBy, Slots
<1>5. CASE t = replaced /\ choice.explicit = None /\ runtime # None
  <2>1. replaced \in Slots /\ s.generation \in Nat
    <3>1. s.generation + 1 \in Nat \ {0} /\ s.generation \in Nat
      BY DEF Good, Consistent, Slots
    <3>2. ASSUME NEW g \in Nat \ {0}
          PROVE  [s EXCEPT !.adapter = None, !.runtime = runtime, !.changed = None,
                           !.key = None, !.generation = g] \in Slots
      BY KeyFacts DEF Good, Consistent, Slots
    <3> QED
      BY <3>1, <3>2
  <2>2. /\ replaced.generation = s.generation + 1 /\ replaced.adapter = None
        /\ replaced.at = s.at /\ replaced.first = s.first /\ replaced.swap = s.swap
        /\ replaced.runtime = runtime
    BY DEF Good, Consistent, Slots
  <2>3. HeardBy(replaced)
    BY <2>1, <2>2 DEF Good, HeardBy
  <2> QED
    BY <1>5, <2>1, <2>2, <2>3 DEF Good, Consistent
<1> QED
  BY <1>1, <1>2, <1>3, <1>4, <1>5

\* Another route: the generation is left behind, unless it had none.
LEMMA RetargetedFacts ==
    ASSUME NEW s, Good(s), choice \in Choice, NEW upstream \in Server \cup {None}
    PROVE  LET t == Retargeted(s, upstream)
           IN  Good(t) /\ t.at = s.at /\ t.first = s.first /\ t.swap = s.swap
<1> DEFINE t == Retargeted(s, upstream)
<1>1. CASE s.upstream = upstream
  BY <1>1 DEF Retargeted
<1>2. CASE s.upstream # upstream
  <2> DEFINE g == IF s.upstream # None THEN s.generation + 1 ELSE s.generation
             pointed == [s EXCEPT !.upstream = upstream, !.adapter = None, !.runtime = Declared,
                                  !.changed = None, !.key = None, !.generation = g]
  <2>1. t = pointed
    BY <1>2 DEF Retargeted
  <2>2. /\ g \in Nat \ {0} /\ s.generation \in Nat
        /\ Declared \in Runtime \cup {None}
        /\ choice.explicit # None => Declared = choice.explicit
    BY ConnectionAssumption DEF Good, Consistent, Slots, Declared
  <2>3. \A n \in Nat \ {0}, r \in Runtime \cup {None} :
           [s EXCEPT !.upstream = upstream, !.adapter = None, !.runtime = r,
                     !.changed = None, !.key = None, !.generation = n] \in Slots
    BY KeyFacts DEF Good, Consistent, Slots
  <2>4. pointed \in Slots
    BY <2>2, <2>3
  <2>5. /\ pointed.generation = g /\ pointed.adapter = None /\ pointed.upstream = upstream
        /\ pointed.at = s.at /\ pointed.first = s.first /\ pointed.swap = s.swap
        /\ pointed.runtime = Declared /\ pointed.key = None
    BY DEF Good, Consistent, Slots
  <2>6. HeardBy(pointed)
    <3> HIDE DEF pointed
    <3> QED
      BY <1>2, <2>2, <2>5, ConnectionAssumption DEF Good, HeardBy
  <2> QED
    BY <2>1, <2>2, <2>4, <2>5, <2>6 DEF Good, Consistent
<1> QED
  BY <1>1, <1>2

\* What follows once the runtime is known, and before.
LEMMA IdentifiedFacts ==
    ASSUME NEW s, Good(s), s.runtime # None, s.first = None
    PROVE  Good(Identified(s)) /\ Placed(Identified(s))
<1> DEFINE a == [runtime |-> s.runtime, upstream |-> s.upstream]
<1>1. a \in Adapter /\ a # None
  BY ConnectionAssumption DEF Good, Consistent, Slots, Adapter
<1>2. CASE s.adapter = None
  <2>1. Identified(s) = [s EXCEPT !.adapter = a, !.due = FALSE, !.at = "read"]
    BY <1>2 DEF Identified, Created
  <2>2. \A x \in Adapter : [s EXCEPT !.adapter = x, !.due = FALSE, !.at = "read"] \in Slots
    BY DEF Good, Consistent, Slots
  <2> DEFINE t == [s EXCEPT !.adapter = a, !.due = FALSE, !.at = "read"]
  <2>5. t \in Slots
    BY <1>1, <2>2
  <2>3. /\ t.adapter = a /\ t.at = "read" /\ t.first = s.first /\ t.runtime = s.runtime
        /\ t.upstream = s.upstream /\ t.generation = s.generation /\ t.key = s.key
    BY DEF Good, Consistent, Slots
  <2> HIDE DEF t
  <2>4. Good(t)
    BY <2>3, <2>5 DEF Good, Consistent, HeardBy
  <2> QED
    BY <1>1, <2>1, <2>3, <2>4 DEF Placed, t
<1>3. CASE s.adapter # None
  <2>1. CASE Identified(s) = [s EXCEPT !.at = "identity", !.pass = s.due, !.due = FALSE]
    <3> DEFINE t == [s EXCEPT !.at = "identity", !.pass = s.due, !.due = FALSE]
    <3>1. t \in Slots
      <4>1. s.due \in BOOLEAN
        BY DEF Good, Consistent, Slots
      <4>2. [s EXCEPT !.at = "identity"] \in Slots
        BY DEF Good, Consistent, Slots
      <4>3. ASSUME NEW u \in Slots, NEW x \in BOOLEAN
            PROVE  [u EXCEPT !.due = x] \in Slots /\ [u EXCEPT !.pass = x] \in Slots
        BY DEF Slots
      <4>4. t = [[[s EXCEPT !.at = "identity"] EXCEPT !.pass = s.due] EXCEPT !.due = FALSE]
        OBVIOUS
      <4> QED
        BY <4>1, <4>2, <4>3, <4>4
    <3>2. /\ t.adapter = s.adapter /\ t.at = "identity" /\ t.first = s.first /\ t.runtime = s.runtime
          /\ t.upstream = s.upstream /\ t.generation = s.generation /\ t.key = s.key
      BY DEF Good, Consistent, Slots
    <3> HIDE DEF t
    <3>3. Good(t) /\ Placed(t)
      BY <1>3, <3>1, <3>2, SameReader DEF Placed
    <3> QED
      BY <2>1, <3>3 DEF t
  <2>2. CASE Identified(s) = [s EXCEPT !.at = "read"]
    <3> DEFINE t == [s EXCEPT !.at = "read"]
    <3>1. /\ t \in Slots
          /\ t.adapter = s.adapter /\ t.at = "read" /\ t.first = s.first /\ t.runtime = s.runtime
          /\ t.upstream = s.upstream /\ t.generation = s.generation /\ t.key = s.key
      BY DEF Good, Consistent, Slots
    <3> HIDE DEF t
    <3>2. Good(t) /\ Placed(t)
      BY <1>3, <3>1, SameReader DEF Placed
    <3> QED
      BY <2>2, <3>2 DEF t
  <2> QED
    BY <1>3, <2>1, <2>2 DEF Identified
<1> QED
  BY <1>2, <1>3

LEMMA LookedFacts ==
    ASSUME NEW s, Good(s), s.first = None
    PROVE  Good(Looked(s)) /\ Placed(Looked(s))
<1>1. CASE s.runtime = None
  BY <1>1 DEF Looked, Good, Consistent, HeardBy, Placed, Slots
<1>2. CASE s.runtime # None
  BY <1>2, IdentifiedFacts DEF Looked
<1> QED
  BY <1>1, <1>2

LEMMA AskedFacts ==
    ASSUME NEW s, Good(s), s.first = None
    PROVE  Good(Asked(s)) /\ Placed(Asked(s))
<1> DEFINE c == [s EXCEPT !.redetect = FALSE]
<1>1. Good(c) /\ c.first = None
  <2>1. c \in Slots
    <3>1. ASSUME NEW b \in BOOLEAN PROVE [s EXCEPT !.redetect = b] \in Slots
      BY DEF Good, Consistent, Slots
    <3> QED
      BY <3>1
  <2>2. /\ c.adapter = s.adapter /\ c.first = s.first /\ c.runtime = s.runtime
        /\ c.upstream = s.upstream /\ c.generation = s.generation /\ c.key = s.key
    BY DEF Good, Consistent, Slots
  <2> HIDE DEF c
  <2> QED
    BY <2>1, <2>2, SameReader
<1>2. CASE s.redetect /\ s.changed = None
  BY <1>2 DEF Asked, Good, Consistent, HeardBy, Placed, Slots
<1>3. CASE ~ (s.redetect /\ s.changed = None)
  <2>1. Asked(s) = Looked(c)
    BY <1>3 DEF Asked
  <2> HIDE DEF c
  <2> QED
    BY <1>1, <2>1, LookedFacts
<1> QED
  BY <1>2, <1>3

\* A reading of a server of the slot's runtime.
LEMMA KeyedFacts ==
    ASSUME NEW s, Good(s), NEW v \in Server, RuntimeOf[v] = s.runtime, NEW key \in Keys(s, v)
    PROVE  LET t == Keyed(s, v, key)
           IN  /\ Consistent(t) /\ key \in GenerationKey
               /\ t.first = s.first /\ t.adapter = s.adapter
               /\ t.upstream = s.upstream /\ t.runtime = s.runtime
               /\ t.key = (IF key = None THEN s.key ELSE key)
               /\ key # None /\ s.key \notin {None, key} => t.generation = s.generation + 1
               /\ key = None \/ s.key \in {None, key} => t.generation = s.generation
<1> DEFINE g == IF s.key # None /\ s.key # key THEN s.generation + 1 ELSE s.generation
           t == Keyed(s, v, key)
<1>1. g \in Nat \ {0} /\ s.generation \in Nat
  BY DEF Good, Consistent, Slots
<1>2. /\ key # None => key \in (IF s.runtime \in Counting THEN Nat ELSE Key)
      /\ s.runtime # None
  <2>1. CASE s.runtime \in Counting
    <3>1. s.key # None => s.key \in Nat
      BY <2>1 DEF Good, Consistent
    <3> QED
      BY <2>1, <3>1, ConnectionAssumption DEF Keys
  <2>2. CASE s.runtime \notin Counting
    <3>1. key \in KeyOf[v] \cup {s.key}
      BY <2>2 DEF Keys
    <3>2. KeyOf[v] \subseteq Key \cup {None}
      BY ConnectionAssumption
    <3>3. s.key # None => s.key \in Key
      BY <2>2 DEF Good, Consistent
    <3> QED
      BY <2>2, <3>1, <3>2, <3>3, ConnectionAssumption
  <2> QED
    BY <2>1, <2>2
<1> HIDE DEF t
<1>0. key \in GenerationKey
  BY <1>2 DEF GenerationKey
<1>3. CASE key = None
  <2>1. t = [s EXCEPT !.last = v]
    BY <1>3 DEF Keyed, t
  <2>2. t \in Slots
    BY <2>1 DEF Good, Consistent, Slots
  <2>3. /\ t.adapter = s.adapter /\ t.first = s.first /\ t.runtime = s.runtime
        /\ t.upstream = s.upstream /\ t.generation = s.generation /\ t.key = s.key
    BY <2>1 DEF Good, Consistent, Slots
  <2> QED
    BY <1>0, <1>3, <2>2, <2>3 DEF Good, Consistent, t
<1>4. CASE key # None
  <2>1. t = [s EXCEPT !.key = key, !.last = v, !.generation = g]
    BY <1>4 DEF Keyed, t
  <2>2. \A n \in Nat \ {0}, x \in GenerationKey :
           [s EXCEPT !.key = x, !.last = v, !.generation = n] \in Slots
    BY DEF Good, Consistent, Slots
  <2>4. t \in Slots
    BY <1>0, <1>1, <2>1, <2>2
  <2>5. /\ t.adapter = s.adapter /\ t.first = s.first /\ t.runtime = s.runtime
        /\ t.upstream = s.upstream /\ t.generation = g /\ t.key = key
    BY <2>1 DEF Good, Consistent, Slots
  <2>6. Consistent(t)
    BY <1>2, <1>4, <2>4, <2>5 DEF Good, Consistent
  <2> QED
    BY <1>0, <1>1, <1>4, <2>5, <2>6 DEF t
<1> QED
  BY <1>3, <1>4

----------------------------------------------------------------------------
(* The actions.                                                            *)

\* What is found at a target, and what the port says.
LEMMA TargetFacts ==
    ASSUME TypeOK, NEW upstream \in Server \cup {None}
    PROVE  /\ Found(Target(upstream)) \in Runtime \cup {None}
           /\ Target(upstream).kind = "direct" =>
                 /\ Target(upstream).server \in Server
                 /\ upstream # None => Target(upstream).server = upstream
           /\ port.kind = "routed" => port.server \in Server
<1>1. port.kind \in {"direct", "routed"} => port.server \in Server
  BY DEF TypeOK, Port
<1>2. Target(upstream).kind = "direct" =>
         /\ Target(upstream).server \in Server
         /\ upstream # None => Target(upstream).server = upstream
  BY <1>1 DEF Target
<1> QED
  BY <1>1, <1>2, ConnectionAssumption DEF Found

LEMMA InitInv == Init => ConnectionInv
<1> SUFFICES ASSUME Init PROVE ConnectionInv
  OBVIOUS
<1>1. Declared \in Runtime \cup {None} /\ (choice.explicit # None => Declared = choice.explicit)
  BY ConnectionAssumption DEF Init, Declared
<1>2. initialSlot(0) \in SlotState
  BY DEF initialSlot, SlotState
<1>3. slot \in Slots
  <2>1. ASSUME NEW state \in SlotState, NEW runtime \in Runtime \cup {None}
        PROVE  [at |-> "idle", state |-> state, redetect |-> FALSE, generation |-> 1,
                runtime |-> runtime, adapter |-> None, changed |-> None, key |-> None,
                swap |-> None, upstream |-> None, due |-> FALSE, pass |-> FALSE,
                first |-> None, last |-> None] \in Slots
    BY KeyFacts DEF Slots
  <2> QED
    BY <1>1, <1>2, <2>1 DEF Init
<1>4. Good(slot) /\ Placed(slot)
  BY <1>1, <1>3 DEF Init, Good, Consistent, HeardBy, Placed
<1>5. TypeOK
  BY <1>3, <1>4, ConnectionAssumption DEF Init, TypeOK, Placed
<1> QED
  BY <1>4, <1>5 DEF Init, ConnectionInv, RoutesAreFenced, ExplicitChoiceStands, Good, Consistent

\* An action that hears nothing keeps the invariant if it leaves a good slot.
LEMMA QuietInv ==
    ASSUME ConnectionInv, Quiet, Good(slot'), Placed(slot')
    PROVE  ConnectionInv'
<1>1. Good(slot)' /\ (slot \in Slots)'
  BY DEF Quiet, Good, Consistent, HeardBy
<1>2. TypeOK'
  BY <1>1 DEF ConnectionInv, TypeOK, Quiet, Placed
<1> QED
  BY <1>1, <1>2 DEF ConnectionInv, RoutesAreFenced, ExplicitChoiceStands, Quiet, Good, Consistent

LEMMA BeginInv == ConnectionInv /\ Begin => ConnectionInv'
<1> SUFFICES ASSUME ConnectionInv, Begin PROVE ConnectionInv'
  OBVIOUS
<1>1. slot.first = None
  BY DEF Begin, ConnectionInv, TypeOK
<1>2. CASE slot.swap = TRUE
  <2> DEFINE t == [slot EXCEPT !.at = "follow"]
  <2>1. slot' = t
    BY <1>2 DEF Begin, Opened
  <2>2. t \in Slots
    BY DEF ConnectionInv, Good, Consistent, Slots
  <2>3. /\ t.adapter = slot.adapter /\ t.first = slot.first /\ t.runtime = slot.runtime
        /\ t.upstream = slot.upstream /\ t.generation = slot.generation /\ t.key = slot.key
        /\ t.at = "follow" /\ t.swap = slot.swap
    BY DEF ConnectionInv, Good, Consistent, Slots
  <2> HIDE DEF t
  <2>4. Good(t) /\ Placed(t)
    BY <1>1, <1>2, <2>2, <2>3, SameReader DEF Placed, ConnectionInv
  <2> QED
    BY <2>1, <2>4, QuietInv DEF Begin
<1>3. CASE slot.swap # TRUE
  <2>1. slot' = Asked(slot)
    BY <1>3 DEF Begin, Opened
  <2> QED
    BY <1>1, <2>1, AskedFacts, QuietInv DEF Begin, ConnectionInv
<1> QED
  BY <1>2, <1>3

LEMMA FollowInv == ConnectionInv /\ Follow => ConnectionInv'
<1> SUFFICES ASSUME ConnectionInv, Follow PROVE ConnectionInv'
  OBVIOUS
<1>1. slot.first = None /\ Good(slot) /\ choice \in Choice
  BY DEF Follow, ConnectionInv, TypeOK
<1>2. unreachable \in SlotEvent /\ ready \in SlotEvent /\ degraded(FALSE) \in SlotEvent
      /\ degraded(TRUE) \in SlotEvent
  BY DEF unreachable, failed, ready, degraded, SlotEvent, FailureReason
<1>3. Good(Retargeted(slot, None))
  BY <1>1, RetargetedFacts
<1>4. CASE port.kind = "routed"
  <2>1. slot' = Asked(Retargeted(slot, port.server))
    BY <1>4 DEF Follow
  <2>2. port.server \in Server
    BY <1>4 DEF ConnectionInv, TypeOK, Port
  <2> QED
    BY <1>1, <2>1, <2>2, RetargetedFacts, AskedFacts, QuietInv DEF Follow
<1>5. CASE port.kind # "routed"
  <2>1. \E waited : \/ slot' = Concluded(slot, unreachable, waited)
                     \/ slot' = Concluded(Retargeted(slot, None), degraded(FALSE), waited)
                     \/ slot' = Concluded(Retargeted(slot, None), ready, waited)
                     \/ slot' = Concluded(Retargeted(slot, None), degraded(TRUE), waited)
    BY <1>5 DEF Follow
  <2>2. Good(slot') /\ Placed(slot')
    BY <1>1, <1>2, <1>3, <2>1, ConcludedFacts
  <2> QED
    BY <2>2, QuietInv DEF Follow
<1> QED
  BY <1>4, <1>5

LEMMA RedetectInv == ConnectionInv /\ Redetect => ConnectionInv'
<1> SUFFICES ASSUME ConnectionInv, Redetect PROVE ConnectionInv'
  OBVIOUS
<1> DEFINE target == Target(slot.upstream)
           fresh  == [slot EXCEPT !.state = initialSlot(0)]
           passed == Switched(fresh, Found(target))
<1>1. /\ slot.first = None /\ Good(slot)
      /\ slot.upstream \in Server \cup {None}
      /\ slot.at = "recheck" => slot.adapter # None /\ slot.runtime # None
  <2>1. slot.adapter # None => slot.adapter \in Adapter
    BY DEF ConnectionInv, Good, Consistent, Slots
  <2> QED
    BY <2>1, ConnectionAssumption DEF Redetect, ConnectionInv, TypeOK, Good, Consistent, Slots, Adapter
<1>2. Found(target) \in Runtime \cup {None}
  BY <1>1, TargetFacts DEF ConnectionInv
<1>3. Good(fresh) /\ fresh.first = None /\ fresh.at = slot.at /\ fresh.runtime = slot.runtime
  <2>1. initialSlot(0) \in SlotState
    BY DEF initialSlot, SlotState
  <2>2. \A state \in SlotState : [slot EXCEPT !.state = state] \in Slots
    BY <1>1 DEF Good, Consistent, Slots
  <2>3. fresh \in Slots
    BY <2>1, <2>2
  <2>4. /\ fresh.adapter = slot.adapter /\ fresh.first = slot.first /\ fresh.runtime = slot.runtime
        /\ fresh.upstream = slot.upstream /\ fresh.generation = slot.generation
        /\ fresh.key = slot.key /\ fresh.at = slot.at
    BY <1>1 DEF Good, Consistent, Slots
  <2> HIDE DEF fresh
  <2> QED
    BY <1>1, <2>3, <2>4, SameReader
<1> HIDE DEF fresh
<1>4. /\ Good(passed) /\ passed.first = None /\ passed.at = slot.at
      /\ slot.runtime # None => passed.runtime # None
  BY <1>1, <1>2, <1>3, SwitchedFacts
<1>5. CASE target.kind = "down"
  <2>1. \E waited : slot' = Concluded(slot, unreachable, waited)
    BY <1>5 DEF Redetect
  <2>2. unreachable \in SlotEvent
    BY DEF unreachable, failed, SlotEvent, FailureReason
  <2> QED
    BY <1>1, <2>1, <2>2, ConcludedFacts, QuietInv DEF Redetect
<1>6. CASE target.kind # "down" /\ slot.at = "redetect"
  <2>1. slot' = Looked(passed)
    BY <1>6 DEF Redetect, fresh
  <2> HIDE DEF passed
  <2> QED
    BY <1>4, <2>1, LookedFacts, QuietInv DEF Redetect
<1>7. CASE target.kind # "down" /\ slot.at = "recheck" /\ passed.adapter = None
  <2>1. slot' = Identified(passed)
    BY <1>7 DEF Redetect, fresh, Identified
  <2> HIDE DEF passed
  <2> QED
    BY <1>1, <1>4, <1>7, <2>1, IdentifiedFacts, QuietInv DEF Redetect
<1>8. CASE target.kind # "down" /\ slot.at = "recheck" /\ passed.adapter # None
  <2>1. slot' = [passed EXCEPT !.at = "read"]
    BY <1>8 DEF Redetect, fresh
  <2> HIDE DEF passed
  <2>2. slot' \in Slots
    BY <1>4, <2>1 DEF Good, Consistent, Slots
  <2>3. /\ slot'.adapter = passed.adapter /\ slot'.first = passed.first
        /\ slot'.runtime = passed.runtime /\ slot'.upstream = passed.upstream
        /\ slot'.generation = passed.generation /\ slot'.key = passed.key /\ slot'.at = "read"
    BY <1>4, <2>1 DEF Good, Consistent, Slots
  <2>4. Good(slot') /\ Placed(slot')
    BY <1>4, <1>8, <2>2, <2>3, SameReader DEF Placed
  <2> QED
    BY <2>4, QuietInv DEF Redetect
<1> QED
  BY <1>5, <1>6, <1>7, <1>8 DEF Redetect

LEMMA DetectInv == ConnectionInv /\ Detect => ConnectionInv'
<1> SUFFICES ASSUME ConnectionInv, Detect PROVE ConnectionInv'
  OBVIOUS
<1> DEFINE target == Target(slot.upstream)
           found  == Found(target)
           named  == [slot EXCEPT !.runtime = found]
<1>1. /\ slot.first = None /\ Good(slot) /\ slot.runtime = None
      /\ slot.upstream \in Server \cup {None}
  BY DEF Detect, ConnectionInv, TypeOK, Good, Consistent, Slots
<1>2. found \in Runtime \cup {None}
  BY <1>1, TargetFacts DEF ConnectionInv
<1>3. CASE found # None
  <2>1. slot' = Identified(named)
    BY <1>3 DEF Detect
  <2>2. named \in Slots
    BY <1>1, <1>2 DEF Good, Consistent, Slots
  <2>3. /\ named.adapter = slot.adapter /\ named.first = slot.first /\ named.runtime = found
        /\ named.upstream = slot.upstream /\ named.generation = slot.generation
        /\ named.key = slot.key
    BY <1>1 DEF Good, Consistent, Slots
  <2>4. slot.adapter = None /\ choice.explicit = None
    <3>1. slot.adapter # None => slot.adapter.runtime \in Runtime
      BY <1>1 DEF Good, Consistent, Slots, Adapter
    <3> QED
      BY <1>1, <3>1, ConnectionAssumption DEF Good, Consistent
  <2> HIDE DEF named
  <2>5. Good(named)
    <3>1. slot.key = None
      BY <1>1 DEF Good, Consistent
    <3>2. HeardBy(named)
      <4>1. ASSUME NEW h \in heard, h.generation = slot.generation, h.routed \/ slot.upstream = None
            PROVE  FALSE
        <5>1. RuntimeOf[h.server] = None
          BY <1>1, <4>1 DEF Good, HeardBy
        <5>2. RuntimeOf[h.server] \in Runtime
          BY ConnectionAssumption DEF ConnectionInv, TypeOK
        <5> QED
          BY <5>1, <5>2, ConnectionAssumption
      <4> QED
        BY <1>1, <2>3, <4>1 DEF Good, HeardBy
    <3> QED
      BY <1>1, <2>2, <2>3, <2>4, <3>1, <3>2 DEF Good, Consistent
  <2> QED
    BY <1>1, <1>3, <2>1, <2>3, <2>5, IdentifiedFacts, QuietInv DEF Detect
<1>4. CASE found = None
  <2> DEFINE event == CASE target.kind = "down"   -> unreachable
                        [] target.kind = "locked" -> failed("authentication_failed")
                        [] OTHER -> failed("unsupported_runtime")
  <2>1. event \in SlotEvent
    BY DEF unreachable, failed, SlotEvent, FailureReason
  <2>2. \E waited : slot' = Concluded(slot, event, waited)
    BY <1>4 DEF Detect
  <2> QED
    BY <1>1, <2>1, <2>2, ConcludedFacts, QuietInv DEF Detect
<1> QED
  BY <1>3, <1>4

LEMMA IdentityInv == ConnectionInv /\ Identity => ConnectionInv'
<1> SUFFICES ASSUME ConnectionInv, Identity PROVE ConnectionInv'
  OBVIOUS
<1>1. /\ slot.first = None /\ Good(slot) /\ slot.adapter # None
  BY DEF Identity, ConnectionInv, TypeOK
<1>2. \/ slot' = [slot EXCEPT !.changed = None, !.at = "read"]
      \/ slot' = [slot EXCEPT !.at = "recheck"]
      \/ slot' = [slot EXCEPT !.at = "read"]
  BY DEF Identity
<1>3. slot' \in Slots
  <2>1. ASSUME NEW u \in Slots
        PROVE  [u EXCEPT !.at = "read"] \in Slots /\ [u EXCEPT !.at = "recheck"] \in Slots
    BY DEF Slots
  <2>2. slot \in Slots /\ [slot EXCEPT !.changed = None] \in Slots
    BY <1>1 DEF Good, Consistent, Slots
  <2>3. [slot EXCEPT !.changed = None, !.at = "read"] = [[slot EXCEPT !.changed = None] EXCEPT !.at = "read"]
    OBVIOUS
  <2> QED
    BY <1>2, <2>1, <2>2, <2>3
<1>4. /\ slot'.adapter = slot.adapter /\ slot'.first = slot.first /\ slot'.runtime = slot.runtime
      /\ slot'.upstream = slot.upstream /\ slot'.generation = slot.generation
      /\ slot'.key = slot.key /\ slot'.at \in {"recheck", "read"}
  BY <1>1, <1>2 DEF Good, Consistent, Slots
<1>5. Good(slot') /\ Placed(slot')
  BY <1>1, <1>3, <1>4, SameReader DEF Placed
<1> QED
  BY <1>5, QuietInv DEF Identity

\* The one action that hears: the slot tells whether the generation may be kept.
LEMMA ReadInv == ConnectionInv /\ Read => ConnectionInv'
<1> SUFFICES ASSUME ConnectionInv, Read PROVE ConnectionInv'
  OBVIOUS
<1> DEFINE target == Target(slot.adapter.upstream)
           event  == ReadOutcome(target, slot.adapter.runtime)
           v      == target.server
<1>1. /\ slot.first = None /\ Good(slot) /\ slot.adapter # None
      /\ slot.adapter.upstream = slot.upstream /\ slot.adapter.runtime = slot.runtime
      /\ slot.upstream \in Server \cup {None}
      /\ slot.generation \in Nat \ {0}
  BY DEF Read, ConnectionInv, TypeOK, Good, Consistent, Slots
<1>2. event \in SlotEvent
  BY DEF ReadOutcome, unreachable, failed, ready, degraded, SlotEvent, FailureReason
<1>3. event = ready => /\ v \in Server /\ RuntimeOf[v] = slot.runtime
                       /\ slot.upstream # None => v = slot.upstream
  <2>1. event = ready => Speaks(target, slot.adapter.runtime)
    BY DEF ReadOutcome, unreachable, failed, ready, degraded
  <2> QED
    BY <1>1, <2>1, TargetFacts DEF Speaks, ConnectionInv
<1>4. UNCHANGED <<port, changes, choice>>
  BY DEF Read
<1>5. CASE event # ready
  <2>1. (\E waited : slot' = Concluded(slot, event, waited)) /\ heard' = heard
    BY <1>5 DEF Read
  <2> QED
    BY <1>1, <1>2, <1>4, <2>1, ConcludedFacts, QuietInv DEF Quiet
<1>6. CASE event = ready
  <2>1. PICK key \in Keys(slot, v), waited \in Waited :
           /\ slot' = Concluded(Keyed(slot, v, key), event, waited)
           /\ heard' = heard \cup {[generation |-> Keyed(slot, v, key).generation, server |-> v,
                                   key |-> key, routed |-> slot.adapter.upstream # None]}
    BY <1>6 DEF Read
  <2> DEFINE keyed   == Keyed(slot, v, key)
             reading == [generation |-> keyed.generation, server |-> v, key |-> key,
                         routed |-> slot.adapter.upstream # None]
  <2>2. /\ v \in Server /\ RuntimeOf[v] = slot.runtime
        /\ slot.upstream # None => v = slot.upstream
        /\ heard' = heard \cup {reading}
    BY <1>3, <1>6, <2>1
  <2> HIDE DEF v
  <2>3. /\ Consistent(keyed) /\ key \in GenerationKey
        /\ keyed.first = None /\ keyed.adapter = slot.adapter
        /\ keyed.upstream = slot.upstream /\ keyed.runtime = slot.runtime
        /\ keyed.key = (IF key = None THEN slot.key ELSE key)
        /\ key # None /\ slot.key \notin {None, key} => keyed.generation = slot.generation + 1
        /\ key = None \/ slot.key \in {None, key} => keyed.generation = slot.generation
    BY <1>1, <2>2, KeyedFacts
  <2>4. /\ reading.generation = keyed.generation /\ reading.server = v /\ reading.key = key
        /\ reading.routed = (slot.upstream # None)
    BY <1>1
  <2>5. slot' = Concluded(keyed, event, waited)
    BY <2>1
  <2> HIDE DEF keyed
  <2>6. keyed.generation \in Nat \ {0}
    BY <2>3 DEF Consistent, Slots
  <2>7. reading \in [generation : Nat \ {0}, server : Server, routed : BOOLEAN,
                     key : GenerationKey]
    BY <1>1, <2>2, <2>3, <2>6
  <2> HIDE DEF reading
  <2> DEFINE Known(h) == /\ h.generation \in 1 .. keyed.generation /\ h.server \in Server
                         /\ h.generation = keyed.generation =>
                               /\ h.routed => keyed.upstream = h.server
                               /\ h.routed \/ keyed.upstream = None =>
                                     /\ RuntimeOf[h.server] = keyed.runtime
                                     /\ h.key # None => keyed.key = h.key
  <2>8. ASSUME NEW h \in heard PROVE Known(h)
    <3>1. /\ h.generation \in 1 .. slot.generation /\ h.server \in Server
          /\ h.generation = slot.generation =>
                /\ h.routed => slot.upstream = h.server
                /\ h.routed \/ slot.upstream = None =>
                      RuntimeOf[h.server] = slot.runtime /\ (h.key # None => slot.key = h.key)
      BY <1>1 DEF Good, HeardBy
    <3>2. CASE key # None /\ slot.key \notin {None, key}
      BY <1>1, <2>3, <3>1, <3>2
    <3>3. CASE key = None \/ slot.key \in {None, key}
      BY <1>1, <2>3, <3>1, <3>3
    <3> QED
      BY <3>2, <3>3
  <2>9. Known(reading)
    <3>1. reading.generation \in 1 .. keyed.generation
      BY <2>4, <2>6
    <3>2. reading.routed => keyed.upstream = reading.server
      BY <2>2, <2>3, <2>4
    <3>3. RuntimeOf[reading.server] = keyed.runtime /\ (reading.key # None => keyed.key = reading.key)
      BY <2>2, <2>3, <2>4
    <3> QED
      BY <2>2, <2>4, <3>1, <3>2, <3>3
  <2>10. \A h \in heard' : Known(h)
    BY <2>2, <2>8, <2>9
  <2>11. Good(keyed)
    BY <2>3, <2>8 DEF Good, HeardBy
  <2>12. /\ Good(slot') /\ Placed(slot')
         /\ slot'.adapter = keyed.adapter /\ slot'.runtime = keyed.runtime
         /\ slot'.upstream = keyed.upstream /\ slot'.generation = keyed.generation
         /\ slot'.key = keyed.key
    BY <1>2, <2>5, <2>11, ConcludedFacts
  <2>13. TypeOK'
    BY <1>4, <2>2, <2>7, <2>12 DEF ConnectionInv, TypeOK, Good, Consistent, Placed
  <2>14. Good(slot)'
    <3>1. Consistent(slot)'
      BY <1>4, <2>12 DEF Good, Consistent
    <3>2. HeardBy(slot)'
      BY <2>10, <2>12 DEF HeardBy
    <3> QED
      BY <3>1, <3>2 DEF Good
  <2>15. RoutesAreFenced'
    <3>1. ASSUME NEW h \in heard', h.generation = reading.generation, h.routed = reading.routed
          PROVE  /\ RuntimeOf[h.server] = RuntimeOf[reading.server]
                 /\ h.routed => h.server = reading.server
                 /\ None \in {h.key, reading.key} \/ h.key = reading.key
      <4>1. Known(h)
        BY <2>10
      <4>2. h.routed \/ keyed.upstream = None
        BY <2>3, <2>4, <3>1
      <4> QED
        BY <2>2, <2>3, <2>4, <3>1, <4>1, <4>2
    <3>2. ASSUME NEW g \in heard', NEW h \in heard',
                 g.generation = h.generation, g.routed = h.routed
          PROVE  /\ RuntimeOf[g.server] = RuntimeOf[h.server]
                 /\ g.routed => g.server = h.server
                 /\ None \in {g.key, h.key} \/ g.key = h.key
      <4>1. CASE g \in heard /\ h \in heard
        BY <3>2, <4>1 DEF ConnectionInv, RoutesAreFenced
      <4>2. CASE g = reading
        BY <3>1, <3>2, <4>2
      <4>3. CASE h = reading
        BY <3>1, <3>2, <4>3
      <4> QED
        BY <2>2, <4>1, <4>2, <4>3
    <3> QED
      BY <3>2 DEF RoutesAreFenced
  <2>16. ExplicitChoiceStands'
    BY <1>1, <1>4, <2>2, <2>4, <2>14 DEF ConnectionInv, ExplicitChoiceStands, Good, Consistent
  <2> QED
    BY <2>13, <2>14, <2>15, <2>16 DEF ConnectionInv
<1> QED
  BY <1>5, <1>6

LEMMA ProbeInv == ConnectionInv /\ Probe => ConnectionInv'
<1> SUFFICES ASSUME ConnectionInv, Probe PROVE ConnectionInv'
  OBVIOUS
<1>1. /\ slot.first # None /\ Good(slot) /\ slot.first \in SlotEvent
  BY DEF Probe, ConnectionInv, TypeOK, Good, Consistent, Slots
<1>2. CASE slot' = [slot EXCEPT !.swap = TRUE, !.first = None, !.at = "follow"]
  <2> DEFINE t == [slot EXCEPT !.swap = TRUE, !.first = None, !.at = "follow"]
  <2>1. t \in Slots
    <3>1. ASSUME NEW b \in BOOLEAN PROVE [slot EXCEPT !.swap = b] \in Slots
      BY <1>1 DEF Good, Consistent, Slots
    <3>2. ASSUME NEW u \in Slots PROVE [u EXCEPT !.first = None, !.at = "follow"] \in Slots
      BY DEF Slots
    <3>3. t = [[slot EXCEPT !.swap = TRUE] EXCEPT !.first = None, !.at = "follow"]
      OBVIOUS
    <3> QED
      BY <3>1, <3>2, <3>3
  <2>2. /\ t.adapter = slot.adapter /\ t.runtime = slot.runtime /\ t.upstream = slot.upstream
        /\ t.generation = slot.generation /\ t.key = slot.key
        /\ t.at = "follow" /\ t.first = None /\ t.swap = TRUE
    BY <1>1 DEF Good, Consistent, Slots
  <2> HIDE DEF t
  <2>3. Good(t) /\ Placed(t)
    BY <1>1, <2>1, <2>2, SameReader DEF Placed
  <2> QED
    BY <1>2, <2>3, QuietInv DEF Probe, t
<1>3. CASE \E waited : slot' = Finished([slot EXCEPT !.swap = FALSE], slot.first, waited)
  <2> DEFINE t == [slot EXCEPT !.swap = FALSE]
  <2>1. t \in Slots
    <3>1. ASSUME NEW b \in BOOLEAN PROVE [slot EXCEPT !.swap = b] \in Slots
      BY <1>1 DEF Good, Consistent, Slots
    <3> QED
      BY <3>1
  <2>2. /\ t.adapter = slot.adapter /\ t.runtime = slot.runtime /\ t.upstream = slot.upstream
        /\ t.generation = slot.generation /\ t.key = slot.key
    BY <1>1 DEF Good, Consistent, Slots
  <2> HIDE DEF t
  <2>3. Good(t)
    BY <1>1, <2>1, <2>2, SameReader
  <2>4. \E waited : slot' = Finished(t, slot.first, waited)
    BY <1>3 DEF t
  <2> QED
    BY <1>1, <2>3, <2>4, FinishedFacts, QuietInv DEF Probe
<1> QED
  BY <1>2, <1>3 DEF Probe

LEMMA IntervalInv == ConnectionInv /\ Interval => ConnectionInv'
<1> SUFFICES ASSUME ConnectionInv, Interval PROVE ConnectionInv'
  OBVIOUS
<1>1. Good(slot) /\ Placed(slot)
  BY DEF ConnectionInv, TypeOK, Placed
<1>2. slot' \in Slots
  <2>1. ASSUME NEW b \in BOOLEAN PROVE [slot EXCEPT !.due = b] \in Slots
    BY <1>1 DEF Good, Consistent, Slots
  <2> QED
    BY <2>1 DEF Interval
<1>3. /\ slot'.adapter = slot.adapter /\ slot'.runtime = slot.runtime
      /\ slot'.upstream = slot.upstream /\ slot'.generation = slot.generation
      /\ slot'.key = slot.key /\ slot'.at = slot.at /\ slot'.first = slot.first
      /\ slot'.swap = slot.swap
  BY <1>1 DEF Interval, Good, Consistent, Slots
<1>4. Good(slot') /\ Placed(slot')
  BY <1>1, <1>2, <1>3, SameReader DEF Placed
<1> QED
  BY <1>4, QuietInv DEF Interval

LEMMA NextInv == ConnectionInv /\ [Next]_vars => ConnectionInv'
<1> SUFFICES ASSUME ConnectionInv, [Next]_vars PROVE ConnectionInv'
  OBVIOUS
<1>1. CASE Collection
  BY <1>1, BeginInv, FollowInv, RedetectInv, DetectInv, IdentityInv, ReadInv, ProbeInv DEF Collection
<1>2. CASE Interval
  BY <1>2, IntervalInv
<1>3. CASE Change
  BY <1>3, ConnectionAssumption
     DEF Change, ConnectionInv, TypeOK, Good, Consistent, HeardBy, RoutesAreFenced, ExplicitChoiceStands
<1>4. CASE UNCHANGED vars
  BY <1>4 DEF vars, ConnectionInv, TypeOK, Good, Consistent, HeardBy, RoutesAreFenced, ExplicitChoiceStands
<1> QED
  BY <1>1, <1>2, <1>3, <1>4 DEF Next

----------------------------------------------------------------------------
(* The results.                                                            *)

\* ConnectionInv holds in every reachable state.
THEOREM ConnectionInvariant == Spec => []ConnectionInv
BY InitInv, NextInv, PTL DEF Spec

\* Types, and an adapter wherever the code dereferences one.
THEOREM ConnectionTypeCorrect == Spec => []TypeOK
<1>1. ConnectionInv => TypeOK
  BY DEF ConnectionInv
<1> QED
  BY <1>1, ConnectionInvariant, PTL

\* No stale adapter survives a switch of runtime or model server.
THEOREM AdapterIsCurrent == Spec => []AdapterFollowsSlot
<1>1. ConnectionInv => AdapterFollowsSlot
  BY DEF ConnectionInv, Good, Consistent, AdapterFollowsSlot
<1> QED
  BY <1>1, ConnectionInvariant, PTL

\* An explicit choice is never read as another runtime.
THEOREM ExplicitChoiceKept == Spec => []ExplicitChoiceStands
<1>1. ConnectionInv => ExplicitChoiceStands
  BY DEF ConnectionInv
<1> QED
  BY <1>1, ConnectionInvariant, PTL

\* By one route, a generation has the readings of one runtime, of one model server
\* behind llama-swap, and of one generation key where there is one.
THEOREM RoutesFenced == Spec => []RoutesAreFenced
<1>1. ConnectionInv => RoutesAreFenced
  BY DEF ConnectionInv
<1> QED
  BY <1>1, ConnectionInvariant, PTL
=============================================================================
