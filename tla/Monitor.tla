------------------------------- MODULE Monitor -------------------------------
(***************************************************************************)
(* How one panel frame polls the service, panel/render/monitor.ts with the *)
(* handlers of panel/main.ts that drive it and the parts of                *)
(* panel/state/scope-state.ts that say how a reading is shown.             *)
(*                                                                         *)
(* The frame polls while it can be seen and is not paused.  Everything may *)
(* happen while a request is in flight: the frame is hidden and shown,     *)
(* paused, put in the page cache, refreshed, given another connection.  An *)
(* answer counts only if the state's generation is still the one its       *)
(* request began in; a run carries that as `current`.                      *)
(*                                                                         *)
(* Left out: cadences and the failure count, which choose delays;          *)
(* completions, which module Recording models; what a reading says.        *)
(***************************************************************************)
EXTENDS Poller, FiniteSets

CONSTANTS
    Selection,    \* what a frame may ask for: a connection, or the chat's
    Epoch,        \* generations of a connection
    NoReading

ASSUME MonitorAssumption == NoReading \notin [selection : Selection, epoch : Epoch]

VARIABLES
    hidden, intersecting,  \* what the page and its observer say
    userPaused,
    selection,             \* the selection that the next poll asks for
    page,                  \* "shown", in the page "cache", or "gone"
    mounted,
    poller,
    view,                  \* the frame's readings, and how they are shown
    manualRefresh,         \* the refresh button waits for a poll
    earlier                \* history: requests in flight, and whether the
                           \* reading shown was asked for, before the frame was
                           \* last hidden, paused or given another selection

gate == <<hidden, intersecting, userPaused>>
vars == <<gate, selection, page, mounted, poller, view, manualRefresh, earlier>>

\* The identity of a link: what was selected and the generation it is in.
Link == [selection : Selection, epoch : Epoch]

Run == [kept : BOOLEAN, current : BOOLEAN, selection : Selection]

View ==
    [snapshot : Link \cup {NoReading}, frame : BOOLEAN, stale : BOOLEAN,
     monitored : Link \cup {NoReading}, observed : SUBSET Link,
     awaitingFresh : BOOLEAN, interrupted : BOOLEAN, freshnessTimer : BOOLEAN]

newView ==
    [snapshot |-> NoReading, frame |-> FALSE, stale |-> FALSE,
     monitored |-> NoReading, observed |-> {},
     awaitingFresh |-> FALSE, interrupted |-> FALSE, freshnessTimer |-> FALSE]

live == ~ userPaused /\ ~ hidden /\ intersecting

\* The readings are shown as what is going on now.
Fresh ==
    /\ live
    /\ view.snapshot # NoReading
    /\ ~ view.stale /\ ~ view.frame /\ ~ view.awaitingFresh

newRun(s) == [kept |-> TRUE, current |-> TRUE, selection |-> s]

\* Mutant: an answer to a request from before still counts.
DiscardedNone(p) == p

\* state.generation += 1
Discarded(p) ==
    [p EXCEPT !.runs = [r \in DOMAIN p.runs |-> [p.runs[r] EXCEPT !.current = FALSE]]]

----------------------------------------------------------------------------
(* Readings                                                                *)

clearObservations(v) ==
    [v EXCEPT !.snapshot = NoReading, !.monitored = NoReading, !.observed = {}]

isNewConnection(v, reading) ==
    reading # NoReading /\ v.monitored # NoReading /\ reading # v.monitored

\* Mutant: a failed poll forgets which connection the observations are from.
acceptForgetting(v, reading) ==
    IF reading = NoReading
    THEN [v EXCEPT !.frame = TRUE, !.monitored = NoReading]
    ELSE [v EXCEPT !.monitored = reading, !.observed = @ \cup {reading},
                   !.snapshot = reading, !.frame = FALSE, !.stale = FALSE]

\* A poll without a body says why and leaves what was observed; a body replaces
\* the snapshot and joins the observations.
accept(v, reading) ==
    IF reading = NoReading
    THEN [v EXCEPT !.frame = TRUE]
    ELSE [v EXCEPT !.monitored = reading, !.observed = @ \cup {reading},
                   !.snapshot = reading, !.frame = FALSE, !.stale = FALSE]

apply(v, reading) ==
    accept(IF isNewConnection(v, reading) THEN clearObservations(v) ELSE v, reading)

\* Mutant: an answer does not arm the deadline of the next one.
AnsweredUnwatched(v, reading) == apply([v EXCEPT !.awaitingFresh = FALSE], reading)

\* Mutant: only a reading ends the wait for one.
AnsweredByBody(v, reading) ==
    [apply([v EXCEPT !.awaitingFresh = @ /\ reading = NoReading], reading) EXCEPT
        !.freshnessTimer = TRUE]

\* A poll that counts: the reading is applied, and the next has its deadline.
Answered(v, reading) ==
    [apply([v EXCEPT !.awaitingFresh = FALSE], reading) EXCEPT !.freshnessTimer = TRUE]

----------------------------------------------------------------------------
(* sync: the gate decides whether the frame polls                          *)

syncPoller(p, isLive, s) == SetPaused(Discarded(p), ~ isLive, newRun(s))

syncView(v, isLive) ==
    IF isLive
    THEN [v EXCEPT !.interrupted = FALSE, !.freshnessTimer = TRUE]
    ELSE [v EXCEPT !.interrupted = TRUE, !.awaitingFresh = TRUE, !.freshnessTimer = FALSE]

\* Everything asked for or shown so far is from before.
Before(p) == [runs |-> DOMAIN p.runs, reading |-> TRUE]

Sync ==
    /\ poller' = syncPoller(poller, live', selection)
    /\ view' = syncView(view, live')
    /\ earlier' = IF live' THEN earlier ELSE Before(poller)

HiddenChanges ==
    /\ page # "gone"
    /\ hidden' = ~ hidden
    /\ UNCHANGED <<intersecting, userPaused, selection, page, mounted, manualRefresh>>
    /\ Sync

IntersectionChanges ==
    /\ page = "shown"
    /\ intersecting' = ~ intersecting
    /\ UNCHANGED <<hidden, userPaused, selection, page, mounted, manualRefresh>>
    /\ Sync

PauseClick ==
    /\ page = "shown" /\ mounted
    /\ userPaused' = ~ userPaused
    /\ UNCHANGED <<hidden, intersecting, selection, page, mounted, manualRefresh>>
    /\ Sync

----------------------------------------------------------------------------
(* The frame's life                                                        *)

\* The gate decides before the first poll.
Mount ==
    /\ page = "shown" /\ ~ mounted
    /\ mounted' = TRUE
    /\ poller' = Started(syncPoller(poller, live, selection), newRun(selection))
    /\ view' = syncView(view, live)
    /\ earlier' = IF live THEN earlier ELSE Before(poller)
    /\ UNCHANGED <<gate, selection, page, manualRefresh>>

\* The frame goes for good, or into the page cache.
PageHide(persisted) ==
    /\ page = "shown"
    /\ page' = IF persisted THEN "cache" ELSE "gone"
    /\ poller' = Stopped(Discarded(poller))
    /\ view' = [view EXCEPT !.interrupted = TRUE, !.awaitingFresh = TRUE,
                            !.freshnessTimer = FALSE]
    /\ earlier' = Before(poller)
    /\ UNCHANGED <<gate, selection, mounted, manualRefresh>>

PageShow ==
    /\ page = "cache"
    /\ page' = "shown"
    /\ \/ /\ mounted
          /\ poller' = Started(syncPoller(poller, live, selection), newRun(selection))
          /\ view' = syncView(view, live)
          /\ earlier' = IF live THEN earlier ELSE Before(poller)
       \/ /\ ~ mounted
          /\ UNCHANGED <<poller, view, earlier>>
    /\ UNCHANGED <<gate, selection, mounted, manualRefresh>>

\* resetSelection: the reader or the chat in view selects something else.
SelectionChanges(s) ==
    /\ page = "shown"
    /\ s # selection
    /\ selection' = s
    /\ LET synced == syncPoller(Stopped(poller), live, s)
       IN  poller' = IF mounted THEN Started(synced, newRun(s)) ELSE synced
    /\ view' = syncView(apply([clearObservations(view) EXCEPT !.awaitingFresh = TRUE,
                                                              !.interrupted = TRUE,
                                                              !.freshnessTimer = FALSE],
                              NoReading), live)
    /\ earlier' = Before(poller)
    /\ UNCHANGED <<gate, page, mounted, manualRefresh>>

\* The reader, or a stored setting, chose or left energy saving: the deadline
\* starts again.
CadenceClick ==
    /\ page = "shown"
    /\ view' = [view EXCEPT !.freshnessTimer = live]
    /\ UNCHANGED <<gate, selection, page, mounted, poller, manualRefresh, earlier>>

----------------------------------------------------------------------------
(* Polls                                                                   *)

\* The chat became busy or idle or a label is due, in a frame that is live; or a
\* view that shows more was rendered, in any frame.
Hint ==
    /\ page # "gone" /\ mounted
    /\ poller' = Refreshed(poller, newRun(selection))
    /\ UNCHANGED <<gate, selection, page, mounted, view, manualRefresh, earlier>>

RefreshClick ==
    /\ page = "shown" /\ mounted /\ live
    /\ ~ manualRefresh
    /\ manualRefresh' = TRUE
    /\ poller' = Refreshed(poller, newRun(selection))
    /\ UNCHANGED <<gate, selection, page, mounted, view, earlier>>

TimerExpires ==
    /\ poller.timer
    /\ poller' = Refreshed(Cleared(poller), newRun(selection))
    /\ UNCHANGED <<gate, selection, page, mounted, view, manualRefresh, earlier>>

\* An answer to run r counts: nothing asked to discard it, and it can be seen.
Counts(r) == poller.runs[r].current /\ live /\ page # "gone"

\* Mutant: the button is given back only by an answer that counts.
GivenBackByCounting(r) == manualRefresh /\ ~ Counts(r)

\* The refresh button waits on after run r.
StillRefreshing(r) == FALSE

\* What run r can bring: no body, or a reading of what it asked for.
Answers(r) == {NoReading} \cup [selection : {poller.runs[r].selection}, epoch : Epoch]

\* A poll ends, with a reading or without one, and the poller goes on.
PollEnds(r, reading) ==
    /\ view' = IF Counts(r) THEN Answered(view, reading) ELSE view
    /\ manualRefresh' = StillRefreshing(r)
    /\ poller' = Settled(poller, r, newRun(selection))
    /\ earlier' = [runs |-> earlier.runs \ {r},
                   reading |-> IF Counts(r) /\ reading # NoReading THEN r \in earlier.runs
                               ELSE earlier.reading]
    /\ UNCHANGED <<gate, selection, page, mounted>>

DeadlinePasses ==
    /\ view.freshnessTimer
    /\ view' = [view EXCEPT !.freshnessTimer = FALSE, !.stale = TRUE]
    /\ UNCHANGED <<gate, selection, page, mounted, poller, manualRefresh, earlier>>

----------------------------------------------------------------------------

Init ==
    /\ hidden \in BOOLEAN /\ intersecting \in BOOLEAN /\ userPaused = FALSE
    /\ selection \in Selection
    /\ page = "shown" /\ mounted = FALSE
    /\ poller = newPoller
    /\ view = newView
    /\ manualRefresh = FALSE
    /\ earlier = [runs |-> {}, reading |-> FALSE]

AnyPollEnds ==
    \E r \in DOMAIN poller.runs : \E reading \in Answers(r) : PollEnds(r, reading)

Next ==
    \/ HiddenChanges \/ IntersectionChanges \/ PauseClick
    \/ Mount \/ PageShow
    \/ \E persisted \in BOOLEAN : PageHide(persisted)
    \/ \E s \in Selection : SelectionChanges(s)
    \/ CadenceClick \/ Hint \/ RefreshClick
    \/ TimerExpires \/ AnyPollEnds \/ DeadlinePasses

Spec == Init /\ [][Next]_vars

\* A request ends, since the host gives up on it in time; timers go off; the
\* stored settings that a mount waits for arrive.
FairSpec == Spec /\ WF_vars(AnyPollEnds) /\ WF_vars(TimerExpires) /\ WF_vars(Mount)

----------------------------------------------------------------------------
TypeOK ==
    /\ hidden \in BOOLEAN /\ intersecting \in BOOLEAN /\ userPaused \in BOOLEAN
    /\ selection \in Selection
    /\ page \in {"shown", "cache", "gone"} /\ mounted \in BOOLEAN
    /\ poller \in PollerType(Run)
    /\ poller.pending \in DOMAIN poller.runs \cup {NoRun}
    /\ view \in View
    /\ manualRefresh \in BOOLEAN
    /\ earlier \in [runs : SUBSET DOMAIN poller.runs, reading : BOOLEAN]

\* The frame is one that polls.
Polling == page = "shown" /\ mounted /\ live

\* "One request and one timer at most. Hidden panels do no polling work": never
\* two requests, nor a timer beside one, and no timer when nobody can see the
\* frame, through any order of hiding, pausing, caching and refreshing.
OneRequestOrTimer ==
    /\ Cardinality(DOMAIN poller.runs) <= 1
    /\ poller.timer => poller.runs = [r \in {} |-> NoRun] /\ Polling

\* No request begins in a frame that nobody can see, not even one that was held
\* back for a request still in flight.
HiddenAsksNothing ==
    [][DOMAIN poller'.runs \ DOMAIN poller.runs # {} => Polling']_vars

\* "A stalled request cannot leave a live rate on screen": whatever is shown as
\* live has a deadline running.
FreshIsWatched == Fresh => view.freshnessTimer

\* "Resuming never shows old readings as live": what is shown as live was asked
\* for since the frame was last hidden, paused or given another selection.
FreshIsAskedSince == Fresh => ~ earlier.reading

\* "A reading from another connection first discards every observation of the
\* previous one": what a frame has gathered is of one connection, in one
\* generation, and the one selected.
OneConnectionObserved ==
    \A link \in view.observed : link = view.monitored /\ link.selection = selection

\* The refresh button waits only while a poll that gives it back is in flight.
RefreshIsInFlight == manualRefresh => DOMAIN poller.runs # {}

\* A frame that stays in view keeps polling.
LiveFramePolls == <>[]Polling => []<>(DOMAIN poller.runs # {})

\* A frame that stays in view with one selection gets an answer to it.
ResumedFrameIsAnswered ==
    <>[]Polling /\ <>[][selection' = selection]_selection => <>[](~ view.awaitingFresh)
=============================================================================
