------------------------------ MODULE SlotWatch ------------------------------
(***************************************************************************)
(* SlotWatch of service/adapters/llama-server.ts: it follows the one busy  *)
(* slot of a server across reads of /slots, and reports a completion when  *)
(* that slot is released or has taken another request.                     *)
(*                                                                         *)
(* The server is external; a request is a number, its id_task.  Two reads  *)
(* are continuous or too far apart; times, rates and prompts are left out. *)
(***************************************************************************)
EXTENDS Integers, Sequences

CONSTANTS
    SlotId,
    None,
    MaxTasks, MaxTokens, MaxReads   \* bounds

SlotStates == [SlotId -> [busy : BOOLEAN, task : 0 .. MaxTasks, decoded : 0 .. MaxTokens]]

WatchAssumption == {MaxTasks, MaxTokens} \subseteq Nat /\ None \notin SlotStates

VARIABLES
    slots,      \* of the server: id -> busy, task, decoded
    clears,     \* whether a released slot's count is cleared (b10519) or kept (b6700)
    previous,   \* the slots read last, or None
    lapsed,     \* that was longer ago than the gap
    span,       \* the request followed, or None
    drafts,     \* history: the completions
    truth,      \* history: task -> the tokens it made, whether it runs, and the tasks it was read busy beside
    reads

watchVars == <<slots, clears, previous, lapsed, span, drafts, truth, reads>>

Busy(read) == {s \in SlotId : read[s].busy}
Tasks(read) == {read[s].task : s \in Busy(read)}

Alone(set) == \E s \in set : set = {s}

Continuous == previous # None /\ ~lapsed

\* Mutant: a slot that is busy again is still on its request.
IsSameSlot(followed, read) == read[followed.id].busy /\ read[followed.id].decoded >= followed.last.decoded

IsSame(followed, read) ==
    read[followed.id].busy /\ read[followed.id].task = followed.task /\ read[followed.id].decoded >= followed.last.decoded

\* complete: a released slot that keeps its count has the final one.
Draft(followed, read) ==
    LET s == read[followed.id]
        final == IF ~s.busy /\ s.task = followed.task /\ s.decoded >= followed.last.decoded THEN s.decoded ELSE followed.last.decoded
    IN  [task |-> followed.task, tokens |-> final, started |-> followed.started,
         overlapped |-> followed.overlapped \/ Busy(read) \ {followed.id} # {}]

\* A start is observed when the slot was seen idle, or on another request, just before.
Begun(s, read, before) ==
    [id |-> s, task |-> read[s].task, last |-> read[s], overlapped |-> before \ {s} # {},
     started |-> Continuous /\ (~previous[s].busy \/ previous[s].task # read[s].task)]

\* observe
Observe ==
    LET before == IF Continuous THEN Busy(previous) ELSE {}
        busy == Busy(slots)
        followed == IF Continuous THEN span ELSE None
        same == followed # None /\ IsSame(followed, slots)
    IN  /\ reads < MaxReads /\ reads' = reads + 1
        /\ drafts' = IF followed # None /\ ~same /\ Alone(before) THEN Append(drafts, Draft(followed, slots)) ELSE drafts
        /\ span' = IF same THEN [followed EXCEPT !.overlapped = @ \/ busy \ {followed.id} # {}, !.last = slots[followed.id]]
                   ELSE IF Alone(busy) THEN Begun(CHOOSE s \in busy : TRUE, slots, before)
                   ELSE None
        /\ previous' = slots /\ lapsed' = FALSE
        /\ truth' = [t \in DOMAIN truth |-> IF t \in Tasks(slots) THEN [truth[t] EXCEPT !.beside = @ \cup (Tasks(slots) \ {t})] ELSE truth[t]]
        /\ UNCHANGED <<slots, clears>>

Lapse ==
    /\ ~lapsed /\ lapsed' = TRUE
    /\ UNCHANGED <<slots, clears, previous, span, drafts, truth, reads>>

\* Another build or model: reset
Reset ==
    /\ previous # None /\ Busy(slots) = {}
    /\ previous' = None /\ span' = None
    /\ UNCHANGED <<slots, clears, lapsed, drafts, truth, reads>>

\* The server.
Launch(s) ==
    LET t == Len(truth) + 1
    IN  /\ ~slots[s].busy /\ t <= MaxTasks
        /\ slots' = [slots EXCEPT ![s] = [busy |-> TRUE, task |-> t, decoded |-> 0]]
        /\ truth' = Append(truth, [tokens |-> 0, runs |-> TRUE, beside |-> {}])
        /\ UNCHANGED <<clears, previous, lapsed, span, drafts, reads>>

Decode(s) ==
    /\ slots[s].busy /\ slots[s].decoded < MaxTokens
    /\ slots' = [slots EXCEPT ![s].decoded = @ + 1]
    /\ truth' = [truth EXCEPT ![slots[s].task].tokens = @ + 1]
    /\ UNCHANGED <<clears, previous, lapsed, span, drafts, reads>>

Release(s) ==
    /\ slots[s].busy
    /\ slots' = [slots EXCEPT ![s].busy = FALSE, ![s].decoded = IF clears THEN 0 ELSE @]
    /\ truth' = [truth EXCEPT ![slots[s].task].runs = FALSE]
    /\ UNCHANGED <<clears, previous, lapsed, span, drafts, reads>>

WatchInit ==
    /\ slots = [s \in SlotId |-> [busy |-> FALSE, task |-> 0, decoded |-> 0]] /\ clears \in BOOLEAN
    /\ previous = None /\ lapsed = FALSE /\ span = None
    /\ drafts = <<>> /\ truth = <<>> /\ reads = 0

WatchNext ==
    \/ Observe \/ Lapse \/ Reset
    \/ \E s \in SlotId : Launch(s) \/ Decode(s) \/ Release(s)

----------------------------------------------------------------------------
\* A completion is of a request that has ended, no request has two, none counts a
\* token that was not made, and one of which the start was seen says it overlapped
\* if /slots ever showed another request beside it.
CompletionsAreTrue ==
    /\ \A i \in DOMAIN drafts : LET d == drafts[i] IN
          /\ ~truth[d.task].runs /\ d.tokens <= truth[d.task].tokens
          /\ d.started /\ ~d.overlapped => truth[d.task].beside = {}
    /\ \A i, j \in DOMAIN drafts : i # j => drafts[i].task # drafts[j].task
==============================================================================
