-------------------------------- MODULE Media --------------------------------
(***************************************************************************)
(* Media jobs: service/media/service.ts with its discovery of sources, and *)
(* panel/media/controller.ts in each frame.  Frames share one snapshot, a  *)
(* collection of the source, a list of sources and one cancellation, each  *)
(* of which is joined by whoever comes while it is under way.              *)
(*                                                                         *)
(* There is one source with one job, which the source (external) ends, or  *)
(* stops some time after it accepted a cancellation.  A collection is what *)
(* it says of the job: "running", "over", "lost" when it cannot be reached *)
(* and the job was running, "none".  Caches expire at any time.            *)
(***************************************************************************)
EXTENDS Integers

CONSTANTS
    Frame,
    None,
    MaxReads, MaxCancels, MaxChanges, MaxFaults     \* bounds: requests of a frame, changes of the setup, failures

Said  == {"running", "over", "lost", "none"}
Slots == [value : {None} \cup Said, fresh : BOOLEAN, flight : {None, "begun"} \cup Said]
MediaAssumption ==
    /\ None \notin Said \cup {"cancelling", "begun", "listed", "absent"}
    /\ None \notin Slots

VARIABLES
    engine,     \* the job at the source: "running", "stopping", "over"
    listed,     \* configuration: the source is monitored, "listed" or "absent"
    disco,      \* MediaDiscovery: cached, valid (now < until), flight: None, "begun" or what it read
    slot,       \* slots' one entry: value, fresh (now < until), flight; or None
    pending,    \* the job's cancellation was accepted
    generation,
    cache,      \* snapshotCache: what it shows of the job, or None
    snap,       \* snapshotFlight
    work,       \* cancels' one entry
    frame,      \* the controllers, and their requests
    accepted,   \* history: the service saw the cancellation accepted, and said so
    resent,     \* history: it was sent again after that
    stale,      \* history: a discovery had read its configuration when the setup changed last
    changes, faults

mediaVars == <<engine, listed, disco, slot, pending, generation, cache, snap, work, frame,
               accepted, resent, stale, changes, faults>>

idle == [pc |-> "none", value |-> None, generation |-> 0]
newFrame == [snapshot |-> "none", confirm |-> FALSE, cancelling |-> FALSE, read |-> "none", shown |-> None,
             after |-> {}, post |-> "none", reads |-> 0, posts |-> 0]

----------------------------------------------------------------------------
(* What is shared.                                                         *)

\* MediaDiscovery.configurations: joins the flight, takes the cache, or begins a flight.
Valid == disco.flight = None /\ disco.valid
Listing(w) == IF Valid THEN [w EXCEPT !.pc = "listed", !.value = disco.cached] ELSE [w EXCEPT !.pc = "list"]
Discovering == IF disco.flight = None /\ ~disco.valid THEN [disco EXCEPT !.flight = "begun"] ELSE disco

DiscoveryReads ==
    /\ disco.flight = "begun"
    /\ disco' = [disco EXCEPT !.flight = listed]
    /\ UNCHANGED <<engine, listed, slot, pending, generation, cache, snap, work, frame, accepted, resent, stale, changes, faults>>

\* until = now + 30 s, even when it was invalidated meanwhile
DiscoveryEnds ==
    LET Resumed(w) == IF w.pc = "list" THEN [w EXCEPT !.pc = "listed", !.value = disco.flight] ELSE w
    IN  /\ disco.flight \in {"listed", "absent"}
        /\ disco' = [cached |-> disco.flight, valid |-> TRUE, flight |-> None]
        /\ snap' = Resumed(snap) /\ work' = Resumed(work)
        /\ UNCHANGED <<engine, listed, slot, pending, generation, cache, frame, accepted, resent, stale, changes, faults>>

\* read: joins the collection under way, takes a fresh value unless asked for a new one, or begins a collection.
newSlot == [value |-> None, fresh |-> FALSE, flight |-> None]
Slot == IF slot = None THEN newSlot ELSE slot
Reading(w, new) == IF Slot.flight = None /\ ~new /\ Slot.fresh THEN [w EXCEPT !.pc = "got", !.value = Slot.value] ELSE [w EXCEPT !.pc = "read"]
Collecting(new) == IF Slot.flight # None \/ (~new /\ Slot.fresh) THEN Slot ELSE [Slot EXCEPT !.flight = "begun"]

Answer == IF engine = "over" THEN "over" ELSE "running"
\* What is left of the last value when the source cannot be reached: no job, or one without news.
Withdrawn == CASE slot.value = "running" -> "lost" [] slot.value = None -> "none" [] OTHER -> slot.value

CollectionReads ==
    /\ slot # None /\ slot.flight = "begun"
    /\ \/ slot' = [slot EXCEPT !.flight = Answer] /\ UNCHANGED faults
       \/ faults < MaxFaults /\ slot' = [slot EXCEPT !.flight = Withdrawn] /\ faults' = faults + 1
    /\ UNCHANGED <<engine, listed, disco, pending, generation, cache, snap, work, frame, accepted, resent, stale, changes>>

CollectionEnds ==
    LET Resumed(w) == IF w.pc = "read" THEN [w EXCEPT !.pc = "got", !.value = slot.flight] ELSE w
    IN  /\ slot # None /\ slot.flight \notin {None, "begun"}
        /\ slot' = [value |-> slot.flight, fresh |-> TRUE, flight |-> None]
        /\ snap' = Resumed(snap) /\ work' = Resumed(work)
        /\ UNCHANGED <<engine, listed, disco, pending, generation, cache, frame, accepted, resent, stale, changes, faults>>

Expire ==
    /\ \/ disco.valid /\ disco' = [disco EXCEPT !.valid = FALSE] /\ UNCHANGED <<slot, cache>>
       \/ slot # None /\ slot.fresh /\ slot' = [slot EXCEPT !.fresh = FALSE] /\ UNCHANGED <<disco, cache>>
       \/ cache # None /\ cache' = None /\ UNCHANGED <<disco, slot>>
    /\ UNCHANGED <<engine, listed, pending, generation, snap, work, frame, accepted, resent, stale, changes, faults>>

----------------------------------------------------------------------------
(* snapshot and compose.                                                   *)

\* What a request must take notice of when it arrives.
Known == (IF accepted THEN {"accepted"} ELSE {}) \cup (IF listed = "absent" /\ ~stale THEN {"absent"} ELSE {})

Arrives(f) ==
    /\ frame[f].read = "sent"
    /\ IF snap.pc # "none" THEN frame' = [frame EXCEPT ![f].read = "wait", ![f].after = Known] /\ UNCHANGED <<snap, disco>>
       ELSE IF cache # None THEN frame' = [frame EXCEPT ![f].read = "back", ![f].shown = cache, ![f].after = Known] /\ UNCHANGED <<snap, disco>>
       ELSE /\ frame' = [frame EXCEPT ![f].read = "wait", ![f].after = Known]
            /\ snap' = Listing([idle EXCEPT !.generation = generation]) /\ disco' = Discovering
    /\ UNCHANGED <<engine, listed, slot, pending, generation, cache, work, accepted, resent, stale, changes, faults>>

\* The slots of sources no longer listed are dropped; a cancellation still awaits its collection.
SnapshotReads ==
    /\ snap.pc = "listed"
    /\ IF snap.value = "absent"
       THEN /\ slot' = None /\ snap' = [snap EXCEPT !.pc = "got", !.value = "none"]
            /\ work' = IF work.pc = "read" THEN [work EXCEPT !.pc = "orphan", !.value = slot.flight] ELSE work
       ELSE slot' = Collecting(FALSE) /\ snap' = Reading(snap, FALSE) /\ UNCHANGED work
    /\ UNCHANGED <<engine, listed, disco, pending, generation, cache, frame, accepted, resent, stale, changes, faults>>

\* Mutant: a snapshot begun before a change is served.
IsServed(s) == TRUE

IsCurrent(s) == s.generation = generation

\* A job whose cancellation was accepted is shown as being cancelled until it is over.
Compose ==
    LET awaited == pending /\ snap.value # "over"
        shown == IF awaited /\ snap.value \in {"running", "lost"} THEN "cancelling" ELSE snap.value
    IN  /\ snap.pc = "got"
        /\ pending' = awaited
        /\ IF IsCurrent(snap)
           THEN /\ cache' = shown /\ snap' = idle /\ UNCHANGED disco
                /\ frame' = [f \in Frame |-> IF frame[f].read = "wait" THEN [frame[f] EXCEPT !.read = "back", !.shown = shown] ELSE frame[f]]
           ELSE /\ snap' = Listing([idle EXCEPT !.generation = generation]) /\ disco' = Discovering
                /\ UNCHANGED <<cache, frame>>
        /\ UNCHANGED <<engine, listed, slot, generation, work, accepted, resent, stale, changes, faults>>

----------------------------------------------------------------------------
(* cancel and doCancel.                                                    *)

Post(f) == frame[f].post = "sent"

CancelArrives(f) ==
    /\ Post(f)
    /\ frame' = [frame EXCEPT ![f].post = "wait"]
    /\ IF work.pc # "none" THEN UNCHANGED <<work, disco>>
       ELSE work' = Listing(idle) /\ disco' = Discovering
    /\ UNCHANGED <<engine, listed, slot, pending, generation, cache, snap, accepted, resent, stale, changes, faults>>

Replied(status) == [f \in Frame |-> IF frame[f].post = "wait" THEN [frame[f] EXCEPT !.post = status] ELSE frame[f]]
Reply(status) == frame' = Replied(status) /\ work' = idle

\* Mutant: nothing is known of an earlier cancellation.
IsForgotten == FALSE

IsPending == pending

CancelReads ==
    /\ work.pc = "listed"
    /\ IF work.value = "absent" THEN Reply("not-found") /\ UNCHANGED slot
       ELSE IF IsPending THEN Reply("requested") /\ UNCHANGED slot
       ELSE slot' = Collecting(TRUE) /\ work' = Reading(work, TRUE) /\ UNCHANGED frame
    /\ UNCHANGED <<engine, listed, disco, pending, generation, cache, snap, accepted, resent, stale, changes, faults>>

\* The collection of a dropped slot ends for the cancellation alone.
OrphanEnds ==
    /\ work.pc = "orphan"
    /\ work' = [work EXCEPT !.pc = "got", !.value = IF work.value = "begun" THEN Answer ELSE work.value]
    /\ UNCHANGED <<engine, listed, disco, slot, pending, generation, cache, snap, frame, accepted, resent, stale, changes, faults>>

CancelDecides ==
    /\ work.pc = "got"
    /\ CASE work.value = "none" -> Reply("not-found")
         [] work.value \in {"over", "lost"} -> Reply("conflict")
         [] work.value = "running" -> work' = [work EXCEPT !.pc = "send"] /\ UNCHANGED frame
    /\ UNCHANGED <<engine, listed, disco, slot, pending, generation, cache, snap, accepted, resent, stale, changes, faults>>

\* cancelMedia: the source accepts it, refuses a job that is over, or the answer is lost.
CancelSends ==
    /\ work.pc = "send"
    /\ resent' = (resent \/ accepted)
    /\ engine' \in IF engine = "running" THEN {"running", "stopping"} ELSE {engine}
    /\ \/ engine # "over" /\ engine' = "stopping" /\ work' = [work EXCEPT !.pc = "ok"] /\ UNCHANGED <<frame, faults>>
       \/ engine = "over" /\ Reply("failed") /\ UNCHANGED faults
       \/ faults < MaxFaults /\ faults' = faults + 1 /\ Reply("failed")
    /\ UNCHANGED <<listed, disco, slot, pending, generation, cache, snap, accepted, stale, changes>>

\* Mutant: the snapshot served last is still good.
CacheAfterCancelKept == cache

CacheAfterCancel == IF slot = None THEN cache ELSE None

\* It is noted before the slot is looked up, and without the slot that throws: the caller hears "failed".
CancelEnds ==
    /\ work.pc = "ok"
    /\ pending' = TRUE /\ cache' = CacheAfterCancel
    /\ IF slot = None THEN Reply("failed") /\ UNCHANGED <<slot, generation, accepted>>
       ELSE /\ slot' = [slot EXCEPT !.fresh = FALSE]
            /\ generation' = generation + 1
            /\ accepted' = TRUE
            /\ Reply("requested")
    /\ UNCHANGED <<engine, listed, disco, snap, resent, stale, changes, faults>>

----------------------------------------------------------------------------
(* The controller of a frame.                                              *)

Refresh(f) ==
    /\ frame[f].read = "none" /\ frame[f].reads < MaxReads
    /\ frame' = [frame EXCEPT ![f].read = "sent", ![f].reads = @ + 1]
    /\ UNCHANGED <<engine, listed, disco, slot, pending, generation, cache, snap, work, accepted, resent, stale, changes, faults>>

\* The rest of #read: what is under way or to be confirmed is dropped when the job no longer allows it.
Receive(f) ==
    LET job == frame[f].shown
    IN  /\ frame[f].read = "back"
        /\ frame' = [frame EXCEPT ![f].read = "none", ![f].shown = None, ![f].after = {}, ![f].snapshot = job,
              ![f].cancelling = @ /\ job \notin {"none", "over"}, ![f].confirm = @ /\ job = "running"]
        /\ UNCHANGED <<engine, listed, disco, slot, pending, generation, cache, snap, work, accepted, resent, stale, changes, faults>>

RequestCancel(f) ==
    /\ frame[f].snapshot = "running" /\ ~frame[f].confirm
    /\ frame' = [frame EXCEPT ![f].confirm = TRUE]
    /\ UNCHANGED <<engine, listed, disco, slot, pending, generation, cache, snap, work, accepted, resent, stale, changes, faults>>

Cancel(f) ==
    /\ frame[f].confirm /\ frame[f].snapshot = "running" /\ ~frame[f].cancelling /\ frame[f].post = "none" /\ frame[f].posts < MaxCancels
    /\ frame' = [frame EXCEPT ![f].confirm = FALSE, ![f].cancelling = TRUE, ![f].post = "sent", ![f].posts = @ + 1]
    /\ UNCHANGED <<engine, listed, disco, slot, pending, generation, cache, snap, work, accepted, resent, stale, changes, faults>>

\* A refresh follows the answer.
Cancelled(f) ==
    /\ frame[f].post \notin {"none", "sent", "wait"}
    /\ frame' = [frame EXCEPT ![f].post = "none", ![f].cancelling = @ /\ frame[f].post = "requested",
                     ![f].read = IF @ = "none" THEN "sent" ELSE @]
    /\ UNCHANGED <<engine, listed, disco, slot, pending, generation, cache, snap, work, accepted, resent, stale, changes, faults>>

----------------------------------------------------------------------------
JobEnds ==
    /\ engine # "over" /\ engine' = "over"
    /\ UNCHANGED <<listed, disco, slot, pending, generation, cache, snap, work, frame, accepted, resent, stale, changes, faults>>

\* Setup pauses or resumes the source, and invalidates what is cached.
Change ==
    /\ changes < MaxChanges /\ changes' = changes + 1
    /\ listed' = IF listed = "listed" THEN "absent" ELSE "listed"
    /\ generation' = generation + 1 /\ cache' = None
    /\ disco' = [disco EXCEPT !.valid = FALSE]
    /\ slot' = IF slot = None THEN None ELSE [slot EXCEPT !.fresh = FALSE]
    /\ stale' = (disco.flight \in {"listed", "absent"})
    /\ frame' = [f \in Frame |-> [frame[f] EXCEPT !.after = @ \ {"absent"}]]
    /\ UNCHANGED <<engine, pending, snap, work, accepted, resent, faults>>

MediaInit ==
    /\ engine = "running" /\ listed = "listed"
    /\ disco = [cached |-> "absent", valid |-> FALSE, flight |-> None]
    /\ slot = None /\ pending = FALSE /\ generation = 0 /\ cache = None
    /\ snap = idle /\ work = idle /\ frame = [f \in Frame |-> newFrame]
    /\ accepted = FALSE /\ resent = FALSE /\ stale = FALSE /\ changes = 0 /\ faults = 0

MediaNext ==
    \/ DiscoveryReads \/ DiscoveryEnds \/ CollectionReads \/ CollectionEnds \/ Expire
    \/ SnapshotReads \/ Compose
    \/ CancelReads \/ OrphanEnds \/ CancelDecides \/ CancelSends \/ CancelEnds
    \/ JobEnds \/ Change
    \/ \E f \in Frame : Arrives(f) \/ CancelArrives(f) \/ Refresh(f) \/ Receive(f) \/ RequestCancel(f) \/ Cancel(f) \/ Cancelled(f)

----------------------------------------------------------------------------
\* However the frames' requests, the caches and the source's configuration meet: a
\* cancellation answered "requested" is not sent a second time.  One the source took
\* but whose answer was lost, or given as failed since its slot was gone, may be.
CancelIsSentOnce == ~resent

\* A frame that asks after a cancellation was answered "requested" is not shown a
\* job it could cancel again, and one that asks after the source was paused is
\* shown none of its jobs until that changes, whichever collection or snapshot it
\* joins: unless a discovery had read the configuration before, whose list is kept
\* for another 30 s.
SnapshotsAreCurrent ==
    \A f \in Frame : frame[f].read = "back" =>
        /\ "accepted" \in frame[f].after => frame[f].shown # "running"
        /\ "absent" \in frame[f].after => frame[f].shown = "none"

\* No frame is led to cancel what it cancelled, and nothing accepted is sent again.
CancellationIsSound == CancelIsSentOnce /\ SnapshotsAreCurrent
==============================================================================
