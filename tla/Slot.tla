-------------------------------- MODULE Slot --------------------------------
(***************************************************************************)
(* The health of one connection slot, service/core/slot.ts: a pure state   *)
(* machine over the outcome of each reading, the backoff it implies and    *)
(* the moves that call for a fresh detection pass.                         *)
(***************************************************************************)
EXTENDS Integers

CONSTANTS
    BackoffBase,     \* BACKOFF_BASE_MS, in ticks
    BackoffMax,      \* BACKOFF_MAX_MS, in ticks
    RedetectStreak,  \* REDETECT_STREAK, unsupported readings in a row
    RedetectAfter    \* REDETECT_AFTER_MS, in ticks

ASSUME SlotAssumption ==
    /\ BackoffBase \in Nat \ {0}
    /\ BackoffMax \in Nat \ {0}
    /\ RedetectStreak \in Nat \ {0}
    /\ RedetectAfter \in Nat

FailureReason == {"runtime_unreachable", "authentication_failed", "unsupported_runtime"}

SlotState ==
         [kind : {"detecting", "ready"}, since : Nat]
    \cup [kind : {"degraded"}, since : Nat, unsupported : Nat]
    \cup [kind : {"failing"}, since : Nat, failures : Nat \ {0},
          reason : FailureReason, streak : Nat \ {0}]

SlotEvent ==
         [kind : {"ready"}]
    \cup [kind : {"degraded"}, unsupported : BOOLEAN]
    \cup [kind : {"failed"}, reason : FailureReason]

initialSlot(at) == [kind |-> "detecting", since |-> at]

\* A degraded reading continues the degraded period it falls in; only readings
\* that are unsupported count, and any other one starts the count again.
Degraded(state, unsupported, at) ==
    LET was == state.kind = "degraded"
    IN  [kind |-> "degraded",
         since |-> IF was THEN state.since ELSE at,
         unsupported |-> IF ~ unsupported THEN 0
                         ELSE IF was THEN state.unsupported + 1 ELSE 1]

\* A failure continues the episode; `streak` counts its current reason alone.
Failed(state, reason, at) ==
    IF state.kind # "failing"
    THEN [kind |-> "failing", since |-> at, failures |-> 1, reason |-> reason, streak |-> 1]
    ELSE [state EXCEPT !.failures = @ + 1,
                       !.reason = reason,
                       !.streak = IF state.reason = reason THEN @ + 1 ELSE 1]

stepSlot(state, event, at) ==
    CASE event.kind = "ready"    -> IF state.kind = "ready" THEN state
                                    ELSE [kind |-> "ready", since |-> at]
      [] event.kind = "degraded" -> Degraded(state, event.unsupported, at)
      [] event.kind = "failed"   -> Failed(state, event.reason, at)

failuresOf(state) == IF state.kind = "failing" THEN state.failures ELSE 0

Smaller(a, b) == IF a <= b THEN a ELSE b

\* min(8 s, 0.5 s * 2^n) after n failures in a row, and nothing while healthy.
backoff(failures) ==
    IF failures > 0 THEN Smaller(BackoffMax, BackoffBase * 2 ^ Smaller(failures, 5)) ELSE 0

\* The runtime answers again after an outage long enough for it to have moved.
recovered(previous, at) ==
    /\ previous.kind = "failing"
    /\ previous.reason = "runtime_unreachable"
    /\ at - previous.since >= RedetectAfter

redetectDue(previous, next, at) ==
    \/ next.kind = "degraded" /\ (next.unsupported = RedetectStreak \/ recovered(previous, at))
    \/ next.kind = "ready" /\ recovered(previous, at)
=============================================================================
