---------------------------- MODULE SourceProofs ----------------------------
(***************************************************************************)
(* What MCSources checks of media jobs, of companion setup, of chats and   *)
(* of prompt progress, for every number of frames, services, versions,     *)
(* sessions, endpoints, calls, writers and requests and every bound.  The  *)
(* parts of MCSources share no state: the invariant of each is kept by its *)
(* own steps, and no step of the others concerns it.                       *)
(***************************************************************************)
EXTENDS MCSources, FiniteSetTheorems, SequenceTheorems, TLAPS

----------------------------------------------------------------------------
(* Types.                                                                  *)

Shown == Media!Said \cup {"cancelling"}

Discoveries == [cached : {"listed", "absent"}, valid : BOOLEAN, flight : {None, "begun", "listed", "absent"}]

\* Of these only the fields matter, not all of their values.
IsWork(w) == w = [pc |-> w.pc, value |-> w.value, generation |-> w.generation]
IsController(c) ==
    c = [snapshot |-> c.snapshot, confirm |-> c.confirm, cancelling |-> c.cancelling, read |-> c.read,
         shown |-> c.shown, after |-> c.after, post |-> c.post, reads |-> c.reads, posts |-> c.posts]

ConfigTyped ==
    /\ engine \in {"running", "stopping", "over"}
    /\ listed \in {"listed", "absent"}
    /\ disco \in Discoveries
    /\ pending \in BOOLEAN /\ accepted \in BOOLEAN /\ resent \in BOOLEAN /\ stale \in BOOLEAN
    /\ generation \in Nat
    /\ cache \in {None} \cup Shown

SlotTyped ==
    /\ slot \in {None} \cup Media!Slots
    /\ slot # None /\ slot.fresh => slot.value # None

SnapTyped ==
    /\ IsWork(snap) /\ snap.generation \in Nat
    /\ snap.pc = "got" => snap.value \in Media!Said
    /\ snap.pc = "listed" => snap.value \in {"listed", "absent"}

WorkTyped ==
    /\ IsWork(work)
    /\ work.pc = "got" => work.value \in Media!Said
    /\ work.pc = "orphan" => work.value \in {"begun"} \cup Media!Said
    /\ work.pc = "read" => slot # None /\ slot.flight # None

FramesTypeOK ==
    /\ frame = [f \in Frames |-> frame[f]]
    /\ \A f \in Frames : IsController(frame[f])

MediaTypeOK == ConfigTyped /\ SlotTyped /\ SnapTyped /\ WorkTyped /\ FramesTypeOK

----------------------------------------------------------------------------
(* The inductive invariant.                                                *)

\* Neither the last collection nor the one under way says that the job runs.
SaysGone == slot # None => slot.value # "running" /\ slot.flight # "running"

\* A job said to be over is, and nothing says that it runs once a snapshot, which
\* may forget its cancellation, has it as over.
OverIsOver ==
    /\ slot # None /\ (slot.value = "over" \/ slot.flight = "over") => engine = "over"
    /\ snap.pc = "got" /\ snap.value = "over" => engine = "over" /\ SaysGone

\* While a cancellation is pending none gets past that; it is forgotten only when
\* the job is over and no collection says otherwise, so that none sends another.
CancelsOnce ==
    /\ pending => work.pc \in {"none", "list", "listed"}
    /\ accepted /\ ~pending => engine = "over" /\ SaysGone
    /\ accepted => work.pc \notin {"send", "ok"}
    /\ accepted /\ work.pc \in {"got", "orphan"} => work.value # "running"
    /\ ~resent

\* Nor does any snapshot say that it can be cancelled.
ShowsCancelled ==
    /\ accepted /\ ~pending /\ snap.pc = "got" => snap.value # "running"
    /\ accepted => cache # "running"

Cancels == OverIsOver /\ CancelsOnce /\ ShowsCancelled

\* No discovery that read the configuration before it changed is under way.
Discovered ==
    /\ ~stale => disco.flight \in {None, "begun", listed} /\ (disco.valid => disco.cached = listed)
    /\ snap.generation <= generation

Current == ~stale /\ snap.generation = generation

\* A snapshot of the current generation has read the current configuration.
Lists ==
    /\ Current /\ snap.pc = "listed" => snap.value = listed
    /\ Current /\ listed = "absent" /\ snap.pc = "got" => snap.value = "none"
    /\ Current /\ listed = "absent" => snap.pc # "read"
    /\ ~stale /\ listed = "absent" => cache \in {None, "none"}

Sources == Discovered /\ Lists

\* What the frames were told, and what they must take notice of.
Told(c) ==
    /\ "accepted" \in c.after => accepted
    /\ c.read = "wait" /\ "absent" \in c.after => ~stale /\ listed = "absent"
    /\ c.read = "back" /\ "accepted" \in c.after => c.shown # "running"
    /\ c.read = "back" /\ "absent" \in c.after => c.shown = "none"

FramesAreTold == \A f \in Frames : Told(frame[f])

MediaInv == MediaTypeOK /\ Cancels /\ Sources /\ FramesAreTold

----------------------------------------------------------------------------
(* What the longer steps do.                                               *)

\* A snapshot that begins anew, or a first one.
Relisted == Media!Listing([Media!idle EXCEPT !.generation = generation])

\* It takes the list that is cached, or waits for a discovery.
LEMMA Relists ==
    ASSUME ConfigTyped
    PROVE  /\ IsWork(Relisted) /\ Relisted.generation = generation
           /\ \/ Relisted.pc = "list"
              \/ Relisted.pc = "listed" /\ disco.valid /\ Relisted.value = disco.cached
BY DEF Relisted, Media!Listing, Media!Valid, Media!idle, IsWork

\* A discovery is begun where there is neither one nor a valid list.
LEMMA Discovers ==
    ASSUME ConfigTyped
    PROVE  /\ Media!Discovering \in Discoveries
           /\ Media!Discovering.cached = disco.cached /\ Media!Discovering.valid = disco.valid
           /\ \/ Media!Discovering.flight = disco.flight
              \/ disco.flight = None /\ Media!Discovering.flight = "begun"
BY DEF ConfigTyped, Discoveries, Media!Discovering

\* What a snapshot that read that much of the job shows.
ShownNow == IF pending /\ snap.value \in {"running", "lost"} THEN "cancelling" ELSE snap.value

\* A current snapshot is shown, and another one begins anew.
LEMMA Composes ==
    ASSUME ConfigTyped, SnapTyped, Media!Compose
    PROVE  /\ snap.pc = "got" /\ snap.value \in Media!Said
           /\ pending' <=> pending /\ snap.value # "over"
           /\ \/ /\ snap.generation = generation /\ cache' = ShownNow
                 /\ snap' = Media!idle /\ disco' = disco
                 /\ frame' = [f \in Frames |-> IF frame[f].read = "wait"
                                               THEN [frame[f] EXCEPT !.read = "back", !.shown = ShownNow] ELSE frame[f]]
              \/ /\ snap.generation # generation /\ cache' = cache /\ frame' = frame
                 /\ snap' = Relisted /\ disco' = Media!Discovering
           /\ UNCHANGED <<engine, listed, slot, generation, work, accepted, resent, stale>>
<1>1. snap.pc = "got" /\ snap.value \in Media!Said
  BY DEF SnapTyped, Media!Compose
<1>2. pending' <=> pending /\ snap.value # "over"
  BY Zenon DEF Media!Compose
<1>3. (IF (pending /\ snap.value # "over") /\ snap.value \in {"running", "lost"} THEN "cancelling" ELSE snap.value) = ShownNow
  BY DEF ShownNow
<1> QED
  BY <1>1, <1>2, <1>3, Zenon DEF Media!Compose, Media!IsCurrent, Relisted

\* Without the frames, that is:
LEMMA ComposesShared ==
    ASSUME ConfigTyped, SnapTyped, Media!Compose
    PROVE  /\ snap.pc = "got" /\ snap.value \in Media!Said
           /\ pending' <=> pending /\ snap.value # "over"
           /\ snap'.pc \in {"none", "list", "listed"} /\ IsWork(snap') /\ snap'.generation \in {0, generation}
           /\ snap'.pc = "listed" => disco.valid /\ snap'.value = disco.cached
           /\ \/ disco' = disco
              \/ disco' = Media!Discovering
           /\ \/ snap.generation = generation /\ cache' = ShownNow
              \/ cache' = cache
           /\ UNCHANGED <<engine, listed, slot, generation, work, accepted, resent, stale>>
<1>1. IsWork(Media!idle) /\ Media!idle.pc = "none" /\ Media!idle.generation = 0
  BY DEF IsWork, Media!idle
<1>2. \/ snap' = Media!idle /\ snap.generation = generation /\ cache' = ShownNow /\ disco' = disco
      \/ snap' = Relisted /\ cache' = cache /\ disco' = Media!Discovering
  BY Composes, Zenon
<1>3. snap'.pc \in {"none", "list", "listed"} /\ IsWork(snap') /\ snap'.generation \in {0, generation}
  BY <1>1, <1>2, Relists
<1>4. snap'.pc = "listed" => disco.valid /\ snap'.value = disco.cached
  BY <1>1, <1>2, Relists
<1> QED
  BY <1>2, <1>3, <1>4, Composes, Zenon

\* A cancellation that has the job as running is sent, any other is answered.
LEMMA Decides ==
    ASSUME WorkTyped, Media!CancelDecides
    PROVE  /\ work.pc = "got"
           /\ \/ work.value = "running" /\ work' = [work EXCEPT !.pc = "send"] /\ frame' = frame
              \/ work' = Media!idle /\ \E status \in {"not-found", "conflict"} : frame' = Media!Replied(status)
           /\ UNCHANGED <<engine, listed, disco, slot, pending, generation, cache, snap, accepted, resent, stale>>
<1>1. work.pc = "got" /\ work.value \in {"running", "over", "lost", "none"}
  BY DEF Media!CancelDecides, WorkTyped, Media!Said
<1>2. CASE work.value = "running"
  BY <1>1, <1>2 DEF Media!CancelDecides
<1>3. CASE work.value \in {"over", "lost"}
  BY <1>1, <1>3 DEF Media!CancelDecides, Media!Reply
<1>4. CASE work.value = "none"
  BY <1>1, <1>4 DEF Media!CancelDecides, Media!Reply
<1> QED
  BY <1>1, <1>2, <1>3, <1>4

----------------------------------------------------------------------------
(* What every step keeps.                                                  *)

\* The job, the configuration, discovery and the cache.
LEMMA ConfigTypedKept == MediaInv /\ Media!MediaNext => ConfigTyped'
<1> SUFFICES ASSUME MediaInv, Media!MediaNext PROVE ConfigTyped'
  OBVIOUS
<1>a. ConfigTyped /\ SnapTyped
  BY DEF MediaInv, MediaTypeOK
<1> USE MediaConstants, <1>a DEF Media!MediaAssumption, Media!Said
<1>1. CASE Media!DiscoveryReads
  BY <1>1 DEF Media!DiscoveryReads, ConfigTyped, SnapTyped, Discoveries, IsWork, Media!Said, Shown
<1>2. CASE Media!DiscoveryEnds
  BY <1>2 DEF Media!DiscoveryEnds, ConfigTyped, SnapTyped, Discoveries, IsWork, Media!Said, Shown
<1>3. CASE Media!CollectionReads
  BY <1>3 DEF Media!CollectionReads, Media!Answer, Media!Withdrawn, ConfigTyped, SnapTyped, Discoveries, IsWork, Media!Said, Shown
<1>4. CASE Media!CollectionEnds
  BY <1>4 DEF Media!CollectionEnds, ConfigTyped, SnapTyped, Discoveries, IsWork, Media!Said, Shown
<1>5. CASE Media!Expire
  BY <1>5 DEF Media!Expire, ConfigTyped, SnapTyped, Discoveries, IsWork, Media!Said, Shown
<1>6. CASE Media!SnapshotReads
  BY <1>6 DEF Media!SnapshotReads, Media!Collecting, Media!Slot, Media!newSlot, Media!Reading, ConfigTyped, SnapTyped, Discoveries, IsWork, Media!Said, Shown
<1>7. CASE Media!Compose
  <2>1. pending' \in BOOLEAN
    <3>1. pending' = (pending /\ snap.value # "over")
      BY <1>7, Zenon DEF Media!Compose
    <3> QED
      BY <3>1, Zenon
  <2>2. cache' \in {None} \cup Shown
    BY <1>7, ComposesShared DEF ConfigTyped, ShownNow, Shown
  <2>3. disco' \in Discoveries
    BY <1>7, ComposesShared, Discovers DEF ConfigTyped
  <2> QED
    BY <1>7, <2>1, <2>2, <2>3, ComposesShared DEF ConfigTyped
<1>8. CASE Media!CancelReads
  BY <1>8 DEF Media!CancelReads, Media!IsPending, Media!Reply, Media!Replied, Media!Collecting, Media!Slot, Media!newSlot, Media!Reading, Media!idle, ConfigTyped, SnapTyped, Discoveries, IsWork, Media!Said, Shown
<1>9. CASE Media!OrphanEnds
  BY <1>9 DEF Media!OrphanEnds, Media!Answer, ConfigTyped, SnapTyped, Discoveries, IsWork, Media!Said, Shown
<1>10. CASE Media!CancelDecides
  BY <1>10 DEF Media!CancelDecides, Media!Reply, Media!Replied, Media!idle, ConfigTyped, SnapTyped, Discoveries, IsWork, Media!Said, Shown
<1>11. CASE Media!CancelSends
  BY <1>11 DEF Media!CancelSends, Media!Reply, Media!Replied, Media!idle, ConfigTyped, SnapTyped, Discoveries, IsWork, Media!Said, Shown
<1>12. CASE Media!CancelEnds
  <2>1. cache' \in {None} \cup Shown
    BY <1>12 DEF Media!CancelEnds, Media!CacheAfterCancel, ConfigTyped
  <2>2. accepted' = TRUE \/ accepted' = accepted
    BY <1>12 DEF Media!CancelEnds
  <2>3. pending' = TRUE /\ generation' \in Nat
    BY <1>12 DEF Media!CancelEnds, ConfigTyped
  <2> QED
    BY <1>12, <2>1, <2>2, <2>3 DEF Media!CancelEnds, ConfigTyped
<1>13. CASE Media!JobEnds
  BY <1>13 DEF Media!JobEnds, ConfigTyped, SnapTyped, Discoveries, IsWork, Media!Said, Shown
<1>14. CASE Media!Change
  <2>1. stale' \in BOOLEAN
    BY <1>14 DEF Media!Change
  <2>2. listed' \in {"listed", "absent"} /\ generation' \in Nat /\ cache' = None
    BY <1>14 DEF Media!Change, ConfigTyped
  <2>3. disco' \in Discoveries
    BY <1>14 DEF Media!Change, ConfigTyped, Discoveries
  <2> QED
    BY <1>14, <2>1, <2>2, <2>3 DEF Media!Change, ConfigTyped
<1>15. ASSUME NEW f \in Frames, Media!Arrives(f) PROVE ConfigTyped'
  BY <1>15 DEF Media!Arrives, Media!Known, Media!Listing, Media!Valid, Media!Discovering, Media!idle, ConfigTyped, SnapTyped, Discoveries, IsWork, Media!Said, Shown
<1>16. ASSUME NEW f \in Frames, Media!CancelArrives(f) PROVE ConfigTyped'
  BY <1>16 DEF Media!CancelArrives, Media!Post, Media!Listing, Media!Valid, Media!Discovering, Media!idle, ConfigTyped, SnapTyped, Discoveries, IsWork, Media!Said, Shown
<1>17. ASSUME NEW f \in Frames, Media!Refresh(f) PROVE ConfigTyped'
  BY <1>17 DEF Media!Refresh, ConfigTyped, SnapTyped, Discoveries, IsWork, Media!Said, Shown
<1>18. ASSUME NEW f \in Frames, Media!Receive(f) PROVE ConfigTyped'
  BY <1>18 DEF Media!Receive, ConfigTyped, SnapTyped, Discoveries, IsWork, Media!Said, Shown
<1>19. ASSUME NEW f \in Frames, Media!RequestCancel(f) PROVE ConfigTyped'
  BY <1>19 DEF Media!RequestCancel, ConfigTyped, SnapTyped, Discoveries, IsWork, Media!Said, Shown
<1>20. ASSUME NEW f \in Frames, Media!Cancel(f) PROVE ConfigTyped'
  BY <1>20 DEF Media!Cancel, ConfigTyped, SnapTyped, Discoveries, IsWork, Media!Said, Shown
<1>21. ASSUME NEW f \in Frames, Media!Cancelled(f) PROVE ConfigTyped'
  BY <1>21 DEF Media!Cancelled, ConfigTyped, SnapTyped, Discoveries, IsWork, Media!Said, Shown
<1> QED
  BY <1>1, <1>2, <1>3, <1>4, <1>5, <1>6, <1>7, <1>8, <1>9, <1>10, <1>11, <1>12, <1>13, <1>14, <1>15, <1>16, <1>17, <1>18, <1>19, <1>20, <1>21 DEF Media!MediaNext

\* The collection of the source.
LEMMA SlotTypedKept == MediaInv /\ Media!MediaNext => SlotTyped'
<1> SUFFICES ASSUME MediaInv, Media!MediaNext PROVE SlotTyped'
  OBVIOUS
<1>a. SlotTyped
  BY DEF MediaInv, MediaTypeOK
<1> USE MediaConstants, <1>a DEF Media!MediaAssumption, Media!Said
<1>1. CASE Media!DiscoveryReads
  BY <1>1 DEF Media!DiscoveryReads, SlotTyped, Media!Slots, Media!Said, Shown
<1>2. CASE Media!DiscoveryEnds
  BY <1>2 DEF Media!DiscoveryEnds, SlotTyped, Media!Slots, Media!Said, Shown
<1>3. CASE Media!CollectionReads
  BY <1>3 DEF Media!CollectionReads, Media!Answer, Media!Withdrawn, SlotTyped, Media!Slots, Media!Said, Shown
<1>4. CASE Media!CollectionEnds
  BY <1>4 DEF Media!CollectionEnds, SlotTyped, Media!Slots, Media!Said, Shown
<1>5. CASE Media!Expire
  BY <1>5 DEF Media!Expire, SlotTyped, Media!Slots, Media!Said, Shown
<1>6. CASE Media!SnapshotReads
  BY <1>6 DEF Media!SnapshotReads, Media!Collecting, Media!Slot, Media!newSlot, Media!Reading, SlotTyped, Media!Slots, Media!Said, Shown
<1>7. CASE Media!Compose
  BY <1>7 DEF Media!Compose, Media!IsCurrent, Media!Listing, Media!Valid, Media!Discovering, Media!idle, SlotTyped, Media!Slots, Media!Said, Shown
<1>8. CASE Media!CancelReads
  BY <1>8 DEF Media!CancelReads, Media!IsPending, Media!Reply, Media!Replied, Media!Collecting, Media!Slot, Media!newSlot, Media!Reading, Media!idle, SlotTyped, Media!Slots, Media!Said, Shown
<1>9. CASE Media!OrphanEnds
  BY <1>9 DEF Media!OrphanEnds, Media!Answer, SlotTyped, Media!Slots, Media!Said, Shown
<1>10. CASE Media!CancelDecides
  BY <1>10 DEF Media!CancelDecides, Media!Reply, Media!Replied, Media!idle, SlotTyped, Media!Slots, Media!Said, Shown
<1>11. CASE Media!CancelSends
  BY <1>11 DEF Media!CancelSends, Media!Reply, Media!Replied, Media!idle, SlotTyped, Media!Slots, Media!Said, Shown
<1>12. CASE Media!CancelEnds
  BY <1>12 DEF Media!CancelEnds, Media!CacheAfterCancel, Media!Reply, Media!Replied, Media!idle, SlotTyped, Media!Slots, Media!Said, Shown
<1>13. CASE Media!JobEnds
  BY <1>13 DEF Media!JobEnds, SlotTyped, Media!Slots, Media!Said, Shown
<1>14. CASE Media!Change
  BY <1>14 DEF Media!Change, SlotTyped, Media!Slots, Media!Said, Shown
<1>15. ASSUME NEW f \in Frames, Media!Arrives(f) PROVE SlotTyped'
  BY <1>15 DEF Media!Arrives, Media!Known, Media!Listing, Media!Valid, Media!Discovering, Media!idle, SlotTyped, Media!Slots, Media!Said, Shown
<1>16. ASSUME NEW f \in Frames, Media!CancelArrives(f) PROVE SlotTyped'
  BY <1>16 DEF Media!CancelArrives, Media!Post, Media!Listing, Media!Valid, Media!Discovering, Media!idle, SlotTyped, Media!Slots, Media!Said, Shown
<1>17. ASSUME NEW f \in Frames, Media!Refresh(f) PROVE SlotTyped'
  BY <1>17 DEF Media!Refresh, SlotTyped, Media!Slots, Media!Said, Shown
<1>18. ASSUME NEW f \in Frames, Media!Receive(f) PROVE SlotTyped'
  BY <1>18 DEF Media!Receive, SlotTyped, Media!Slots, Media!Said, Shown
<1>19. ASSUME NEW f \in Frames, Media!RequestCancel(f) PROVE SlotTyped'
  BY <1>19 DEF Media!RequestCancel, SlotTyped, Media!Slots, Media!Said, Shown
<1>20. ASSUME NEW f \in Frames, Media!Cancel(f) PROVE SlotTyped'
  BY <1>20 DEF Media!Cancel, SlotTyped, Media!Slots, Media!Said, Shown
<1>21. ASSUME NEW f \in Frames, Media!Cancelled(f) PROVE SlotTyped'
  BY <1>21 DEF Media!Cancelled, SlotTyped, Media!Slots, Media!Said, Shown
<1> QED
  BY <1>1, <1>2, <1>3, <1>4, <1>5, <1>6, <1>7, <1>8, <1>9, <1>10, <1>11, <1>12, <1>13, <1>14, <1>15, <1>16, <1>17, <1>18, <1>19, <1>20, <1>21 DEF Media!MediaNext

\* The snapshot under way.
LEMMA SnapTypedKept == MediaInv /\ Media!MediaNext => SnapTyped'
<1> SUFFICES ASSUME MediaInv, Media!MediaNext PROVE SnapTyped'
  OBVIOUS
<1>a. ConfigTyped /\ SlotTyped /\ SnapTyped
  BY DEF MediaInv, MediaTypeOK
<1> USE MediaConstants, <1>a DEF Media!MediaAssumption, Media!Said
<1>1. CASE Media!DiscoveryReads
  BY <1>1 DEF Media!DiscoveryReads, ConfigTyped, Discoveries, SlotTyped, Media!Slots, SnapTyped, IsWork, Media!Said, Shown
<1>2. CASE Media!DiscoveryEnds
  BY <1>2 DEF Media!DiscoveryEnds, ConfigTyped, Discoveries, SlotTyped, Media!Slots, SnapTyped, IsWork, Media!Said, Shown
<1>3. CASE Media!CollectionReads
  BY <1>3 DEF Media!CollectionReads, Media!Answer, Media!Withdrawn, ConfigTyped, Discoveries, SlotTyped, Media!Slots, SnapTyped, IsWork, Media!Said, Shown
<1>4. CASE Media!CollectionEnds
  BY <1>4 DEF Media!CollectionEnds, ConfigTyped, Discoveries, SlotTyped, Media!Slots, SnapTyped, IsWork, Media!Said, Shown
<1>5. CASE Media!Expire
  BY <1>5 DEF Media!Expire, ConfigTyped, Discoveries, SlotTyped, Media!Slots, SnapTyped, IsWork, Media!Said, Shown
<1>6. CASE Media!SnapshotReads
  BY <1>6 DEF Media!SnapshotReads, Media!Collecting, Media!Slot, Media!newSlot, Media!Reading, ConfigTyped, Discoveries, SlotTyped, Media!Slots, SnapTyped, IsWork, Media!Said, Shown
<1>7. CASE Media!Compose
  BY <1>7, ComposesShared, Discovers DEF ConfigTyped, Discoveries, SnapTyped
<1>8. CASE Media!CancelReads
  BY <1>8 DEF Media!CancelReads, Media!IsPending, Media!Reply, Media!Replied, Media!Collecting, Media!Slot, Media!newSlot, Media!Reading, Media!idle, ConfigTyped, Discoveries, SlotTyped, Media!Slots, SnapTyped, IsWork, Media!Said, Shown
<1>9. CASE Media!OrphanEnds
  BY <1>9 DEF Media!OrphanEnds, Media!Answer, ConfigTyped, Discoveries, SlotTyped, Media!Slots, SnapTyped, IsWork, Media!Said, Shown
<1>10. CASE Media!CancelDecides
  BY <1>10 DEF Media!CancelDecides, Media!Reply, Media!Replied, Media!idle, ConfigTyped, Discoveries, SlotTyped, Media!Slots, SnapTyped, IsWork, Media!Said, Shown
<1>11. CASE Media!CancelSends
  BY <1>11 DEF Media!CancelSends, Media!Reply, Media!Replied, Media!idle, ConfigTyped, Discoveries, SlotTyped, Media!Slots, SnapTyped, IsWork, Media!Said, Shown
<1>12. CASE Media!CancelEnds
  BY <1>12 DEF Media!CancelEnds, Media!CacheAfterCancel, Media!Reply, Media!Replied, Media!idle, ConfigTyped, Discoveries, SlotTyped, Media!Slots, SnapTyped, IsWork, Media!Said, Shown
<1>13. CASE Media!JobEnds
  BY <1>13 DEF Media!JobEnds, ConfigTyped, Discoveries, SlotTyped, Media!Slots, SnapTyped, IsWork, Media!Said, Shown
<1>14. CASE Media!Change
  BY <1>14 DEF Media!Change, ConfigTyped, Discoveries, SlotTyped, Media!Slots, SnapTyped, IsWork, Media!Said, Shown
<1>15. ASSUME NEW f \in Frames, Media!Arrives(f) PROVE SnapTyped'
  BY <1>15 DEF Media!Arrives, Media!Known, Media!Listing, Media!Valid, Media!Discovering, Media!idle, ConfigTyped, Discoveries, SlotTyped, Media!Slots, SnapTyped, IsWork, Media!Said, Shown
<1>16. ASSUME NEW f \in Frames, Media!CancelArrives(f) PROVE SnapTyped'
  BY <1>16 DEF Media!CancelArrives, Media!Post, Media!Listing, Media!Valid, Media!Discovering, Media!idle, ConfigTyped, Discoveries, SlotTyped, Media!Slots, SnapTyped, IsWork, Media!Said, Shown
<1>17. ASSUME NEW f \in Frames, Media!Refresh(f) PROVE SnapTyped'
  BY <1>17 DEF Media!Refresh, ConfigTyped, Discoveries, SlotTyped, Media!Slots, SnapTyped, IsWork, Media!Said, Shown
<1>18. ASSUME NEW f \in Frames, Media!Receive(f) PROVE SnapTyped'
  BY <1>18 DEF Media!Receive, ConfigTyped, Discoveries, SlotTyped, Media!Slots, SnapTyped, IsWork, Media!Said, Shown
<1>19. ASSUME NEW f \in Frames, Media!RequestCancel(f) PROVE SnapTyped'
  BY <1>19 DEF Media!RequestCancel, ConfigTyped, Discoveries, SlotTyped, Media!Slots, SnapTyped, IsWork, Media!Said, Shown
<1>20. ASSUME NEW f \in Frames, Media!Cancel(f) PROVE SnapTyped'
  BY <1>20 DEF Media!Cancel, ConfigTyped, Discoveries, SlotTyped, Media!Slots, SnapTyped, IsWork, Media!Said, Shown
<1>21. ASSUME NEW f \in Frames, Media!Cancelled(f) PROVE SnapTyped'
  BY <1>21 DEF Media!Cancelled, ConfigTyped, Discoveries, SlotTyped, Media!Slots, SnapTyped, IsWork, Media!Said, Shown
<1> QED
  BY <1>1, <1>2, <1>3, <1>4, <1>5, <1>6, <1>7, <1>8, <1>9, <1>10, <1>11, <1>12, <1>13, <1>14, <1>15, <1>16, <1>17, <1>18, <1>19, <1>20, <1>21 DEF Media!MediaNext

\* The cancellation under way, which awaits a collection only while there is one.
LEMMA WorkTypedKept == MediaInv /\ Media!MediaNext => WorkTyped'
<1> SUFFICES ASSUME MediaInv, Media!MediaNext PROVE WorkTyped'
  OBVIOUS
<1>a. ConfigTyped /\ SlotTyped /\ WorkTyped
  BY DEF MediaInv, MediaTypeOK
<1> USE MediaConstants, <1>a DEF Media!MediaAssumption, Media!Said
<1>1. CASE Media!DiscoveryReads
  BY <1>1 DEF Media!DiscoveryReads, ConfigTyped, Discoveries, SlotTyped, Media!Slots, WorkTyped, IsWork, Media!Said, Shown
<1>2. CASE Media!DiscoveryEnds
  BY <1>2 DEF Media!DiscoveryEnds, ConfigTyped, Discoveries, SlotTyped, Media!Slots, WorkTyped, IsWork, Media!Said, Shown
<1>3. CASE Media!CollectionReads
  BY <1>3 DEF Media!CollectionReads, Media!Answer, Media!Withdrawn, ConfigTyped, Discoveries, SlotTyped, Media!Slots, WorkTyped, IsWork, Media!Said, Shown
<1>4. CASE Media!CollectionEnds
  BY <1>4 DEF Media!CollectionEnds, ConfigTyped, Discoveries, SlotTyped, Media!Slots, WorkTyped, IsWork, Media!Said, Shown
<1>5. CASE Media!Expire
  <2>1. IsWork(work) /\ work' = work
    BY <1>5 DEF WorkTyped, Media!Expire
  <2>2. work.pc = "read" => slot' # None /\ slot'.flight = slot.flight
    <3>1. CASE UNCHANGED slot
      BY <3>1 DEF WorkTyped
    <3>2. CASE slot # None /\ slot' = [slot EXCEPT !.fresh = FALSE]
      <4>1. slot \in Media!Slots
        BY <3>2 DEF SlotTyped
      <4>2. slot' \in Media!Slots /\ slot'.flight = slot.flight
        BY <3>2, <4>1 DEF Media!Slots
      <4> QED
        BY <4>2
    <3> QED
      BY <1>5, <3>1, <3>2 DEF Media!Expire
  <2> QED
    BY <2>1, <2>2 DEF WorkTyped
<1>6. CASE Media!SnapshotReads
  BY <1>6 DEF Media!SnapshotReads, Media!Collecting, Media!Slot, Media!newSlot, Media!Reading, ConfigTyped, Discoveries, SlotTyped, Media!Slots, WorkTyped, IsWork, Media!Said, Shown
<1>7. CASE Media!Compose
  <2>1. UNCHANGED <<slot, work>>
    BY <1>7 DEF Media!Compose
  <2> QED
    BY <2>1 DEF WorkTyped, IsWork
<1>8. CASE Media!CancelReads
  <2>1. CASE work' = Media!idle
    BY <2>1 DEF WorkTyped, IsWork, Media!idle
  <2>2. CASE slot' = Media!Collecting(TRUE) /\ work' = Media!Reading(work, TRUE)
    <3>1. work' = [work EXCEPT !.pc = "read"]
      BY <2>2 DEF Media!Reading
    <3>2. slot' # None /\ slot'.flight # None
      BY <2>2 DEF SlotTyped, Media!Slots, Media!Collecting, Media!Slot, Media!newSlot
    <3> QED
      BY <3>1, <3>2 DEF WorkTyped, IsWork
  <2> QED
    BY <1>8, <2>1, <2>2 DEF Media!CancelReads, Media!Reply
<1>9. CASE Media!OrphanEnds
  BY <1>9 DEF Media!OrphanEnds, Media!Answer, ConfigTyped, Discoveries, SlotTyped, Media!Slots, WorkTyped, IsWork, Media!Said, Shown
<1>10. CASE Media!CancelDecides
  BY <1>10, Decides DEF Media!idle, WorkTyped, IsWork
<1>11. CASE Media!CancelSends
  BY <1>11 DEF Media!CancelSends, Media!Reply, Media!Replied, Media!idle, ConfigTyped, Discoveries, SlotTyped, Media!Slots, WorkTyped, IsWork, Media!Said, Shown
<1>12. CASE Media!CancelEnds
  BY <1>12 DEF Media!CancelEnds, Media!CacheAfterCancel, Media!Reply, Media!Replied, Media!idle, ConfigTyped, Discoveries, SlotTyped, Media!Slots, WorkTyped, IsWork, Media!Said, Shown
<1>13. CASE Media!JobEnds
  BY <1>13 DEF Media!JobEnds, ConfigTyped, Discoveries, SlotTyped, Media!Slots, WorkTyped, IsWork, Media!Said, Shown
<1>14. CASE Media!Change
  BY <1>14 DEF Media!Change, ConfigTyped, Discoveries, SlotTyped, Media!Slots, WorkTyped, IsWork, Media!Said, Shown
<1>15. ASSUME NEW f \in Frames, Media!Arrives(f) PROVE WorkTyped'
  BY <1>15 DEF Media!Arrives, Media!Known, Media!Listing, Media!Valid, Media!Discovering, Media!idle, ConfigTyped, Discoveries, SlotTyped, Media!Slots, WorkTyped, IsWork, Media!Said, Shown
<1>16. ASSUME NEW f \in Frames, Media!CancelArrives(f) PROVE WorkTyped'
  BY <1>16 DEF Media!CancelArrives, Media!Post, Media!Listing, Media!Valid, Media!Discovering, Media!idle, ConfigTyped, Discoveries, SlotTyped, Media!Slots, WorkTyped, IsWork, Media!Said, Shown
<1>17. ASSUME NEW f \in Frames, Media!Refresh(f) PROVE WorkTyped'
  BY <1>17 DEF Media!Refresh, ConfigTyped, Discoveries, SlotTyped, Media!Slots, WorkTyped, IsWork, Media!Said, Shown
<1>18. ASSUME NEW f \in Frames, Media!Receive(f) PROVE WorkTyped'
  BY <1>18 DEF Media!Receive, ConfigTyped, Discoveries, SlotTyped, Media!Slots, WorkTyped, IsWork, Media!Said, Shown
<1>19. ASSUME NEW f \in Frames, Media!RequestCancel(f) PROVE WorkTyped'
  BY <1>19 DEF Media!RequestCancel, ConfigTyped, Discoveries, SlotTyped, Media!Slots, WorkTyped, IsWork, Media!Said, Shown
<1>20. ASSUME NEW f \in Frames, Media!Cancel(f) PROVE WorkTyped'
  BY <1>20 DEF Media!Cancel, ConfigTyped, Discoveries, SlotTyped, Media!Slots, WorkTyped, IsWork, Media!Said, Shown
<1>21. ASSUME NEW f \in Frames, Media!Cancelled(f) PROVE WorkTyped'
  BY <1>21 DEF Media!Cancelled, ConfigTyped, Discoveries, SlotTyped, Media!Slots, WorkTyped, IsWork, Media!Said, Shown
<1> QED
  BY <1>1, <1>2, <1>3, <1>4, <1>5, <1>6, <1>7, <1>8, <1>9, <1>10, <1>11, <1>12, <1>13, <1>14, <1>15, <1>16, <1>17, <1>18, <1>19, <1>20, <1>21 DEF Media!MediaNext

\* The controllers of the frames.
LEMMA FramesTypesKept == MediaInv /\ Media!MediaNext => FramesTypeOK'
<1> SUFFICES ASSUME MediaInv, Media!MediaNext PROVE FramesTypeOK'
  OBVIOUS
<1>a. ConfigTyped /\ SnapTyped /\ WorkTyped /\ FramesTypeOK
  BY DEF MediaInv, MediaTypeOK
<1> USE MediaConstants, <1>a DEF Media!MediaAssumption, Media!Said
<1>1. CASE Media!DiscoveryReads
  BY <1>1 DEF Media!DiscoveryReads, ConfigTyped, SnapTyped, FramesTypeOK, IsController, Media!Said, Shown
<1>2. CASE Media!DiscoveryEnds
  BY <1>2 DEF Media!DiscoveryEnds, ConfigTyped, SnapTyped, FramesTypeOK, IsController, Media!Said, Shown
<1>3. CASE Media!CollectionReads
  BY <1>3 DEF Media!CollectionReads, Media!Answer, Media!Withdrawn, ConfigTyped, SnapTyped, FramesTypeOK, IsController, Media!Said, Shown
<1>4. CASE Media!CollectionEnds
  BY <1>4 DEF Media!CollectionEnds, ConfigTyped, SnapTyped, FramesTypeOK, IsController, Media!Said, Shown
<1>5. CASE Media!Expire
  BY <1>5 DEF Media!Expire, ConfigTyped, SnapTyped, FramesTypeOK, IsController, Media!Said, Shown
<1>6. CASE Media!SnapshotReads
  BY <1>6 DEF Media!SnapshotReads, Media!Collecting, Media!Slot, Media!newSlot, Media!Reading, ConfigTyped, SnapTyped, FramesTypeOK, IsController, Media!Said, Shown
<1>7. CASE Media!Compose
  <2>1. CASE frame' = frame
    BY <2>1 DEF FramesTypeOK
  <2>2. CASE frame' = [f \in Frames |-> IF frame[f].read = "wait"
                                       THEN [frame[f] EXCEPT !.read = "back", !.shown = ShownNow] ELSE frame[f]]
    BY <2>2 DEF FramesTypeOK, IsController
  <2> QED
    BY <1>7, <2>1, <2>2, Composes
<1>8. CASE Media!CancelReads
  BY <1>8 DEF Media!CancelReads, Media!IsPending, Media!Reply, Media!Replied, Media!Collecting, Media!Slot, Media!newSlot, Media!Reading, Media!idle, ConfigTyped, SnapTyped, FramesTypeOK, IsController, Media!Said, Shown
<1>9. CASE Media!OrphanEnds
  BY <1>9 DEF Media!OrphanEnds, Media!Answer, ConfigTyped, SnapTyped, FramesTypeOK, IsController, Media!Said, Shown
<1>10. CASE Media!CancelDecides
  <2>1. CASE frame' = frame
    BY <2>1 DEF FramesTypeOK
  <2>2. ASSUME NEW status \in {"not-found", "conflict"}, frame' = Media!Replied(status) PROVE FramesTypeOK'
    BY <2>2 DEF FramesTypeOK, IsController, Media!Replied
  <2>3. frame' = frame \/ \E status \in {"not-found", "conflict"} : frame' = Media!Replied(status)
    BY <1>10, Decides, Zenon
  <2> QED
    BY <2>1, <2>2, <2>3, Zenon
<1>11. CASE Media!CancelSends
  BY <1>11 DEF Media!CancelSends, Media!Reply, Media!Replied, Media!idle, ConfigTyped, SnapTyped, FramesTypeOK, IsController, Media!Said, Shown
<1>12. CASE Media!CancelEnds
  BY <1>12 DEF Media!CancelEnds, Media!CacheAfterCancel, Media!Reply, Media!Replied, Media!idle, ConfigTyped, SnapTyped, FramesTypeOK, IsController, Media!Said, Shown
<1>13. CASE Media!JobEnds
  BY <1>13 DEF Media!JobEnds, ConfigTyped, SnapTyped, FramesTypeOK, IsController, Media!Said, Shown
<1>14. CASE Media!Change
  BY <1>14 DEF Media!Change, ConfigTyped, SnapTyped, FramesTypeOK, IsController, Media!Said, Shown
<1>15. ASSUME NEW f \in Frames, Media!Arrives(f) PROVE FramesTypeOK'
  BY <1>15 DEF Media!Arrives, Media!Known, Media!Listing, Media!Valid, Media!Discovering, Media!idle, ConfigTyped, SnapTyped, FramesTypeOK, IsController, Media!Said, Shown
<1>16. ASSUME NEW f \in Frames, Media!CancelArrives(f) PROVE FramesTypeOK'
  BY <1>16 DEF Media!CancelArrives, Media!Post, Media!Listing, Media!Valid, Media!Discovering, Media!idle, ConfigTyped, SnapTyped, FramesTypeOK, IsController, Media!Said, Shown
<1>17. ASSUME NEW f \in Frames, Media!Refresh(f) PROVE FramesTypeOK'
  BY <1>17 DEF Media!Refresh, ConfigTyped, SnapTyped, FramesTypeOK, IsController, Media!Said, Shown
<1>18. ASSUME NEW f \in Frames, Media!Receive(f) PROVE FramesTypeOK'
  BY <1>18 DEF Media!Receive, ConfigTyped, SnapTyped, FramesTypeOK, IsController, Media!Said, Shown
<1>19. ASSUME NEW f \in Frames, Media!RequestCancel(f) PROVE FramesTypeOK'
  BY <1>19 DEF Media!RequestCancel, ConfigTyped, SnapTyped, FramesTypeOK, IsController, Media!Said, Shown
<1>20. ASSUME NEW f \in Frames, Media!Cancel(f) PROVE FramesTypeOK'
  BY <1>20 DEF Media!Cancel, ConfigTyped, SnapTyped, FramesTypeOK, IsController, Media!Said, Shown
<1>21. ASSUME NEW f \in Frames, Media!Cancelled(f) PROVE FramesTypeOK'
  BY <1>21 DEF Media!Cancelled, ConfigTyped, SnapTyped, FramesTypeOK, IsController, Media!Said, Shown
<1> QED
  BY <1>1, <1>2, <1>3, <1>4, <1>5, <1>6, <1>7, <1>8, <1>9, <1>10, <1>11, <1>12, <1>13, <1>14, <1>15, <1>16, <1>17, <1>18, <1>19, <1>20, <1>21 DEF Media!MediaNext

\* Nothing takes a job for over before it is, or for running after.
LEMMA OverIsOverKept == MediaInv /\ Media!MediaNext => OverIsOver'
<1> SUFFICES ASSUME MediaInv, Media!MediaNext PROVE OverIsOver'
  OBVIOUS
<1>a. ConfigTyped /\ SlotTyped /\ SnapTyped /\ WorkTyped /\ OverIsOver
  BY DEF MediaInv, MediaTypeOK, Cancels
<1> USE MediaConstants, <1>a DEF Media!MediaAssumption, Media!Said
<1>1. CASE Media!DiscoveryReads
  BY <1>1 DEF Media!DiscoveryReads, OverIsOver, SaysGone, ConfigTyped, Discoveries, SlotTyped, Media!Slots, SnapTyped, WorkTyped, IsWork, Media!Said, Shown
<1>2. CASE Media!DiscoveryEnds
  BY <1>2 DEF Media!DiscoveryEnds, OverIsOver, SaysGone, ConfigTyped, Discoveries, SlotTyped, Media!Slots, SnapTyped, WorkTyped, IsWork, Media!Said, Shown
<1>3. CASE Media!CollectionReads
  BY <1>3 DEF Media!CollectionReads, Media!Answer, Media!Withdrawn, OverIsOver, SaysGone, ConfigTyped, Discoveries, SlotTyped, Media!Slots, SnapTyped, WorkTyped, IsWork, Media!Said, Shown
<1>4. CASE Media!CollectionEnds
  BY <1>4 DEF Media!CollectionEnds, OverIsOver, SaysGone, ConfigTyped, Discoveries, SlotTyped, Media!Slots, SnapTyped, WorkTyped, IsWork, Media!Said, Shown
<1>5. CASE Media!Expire
  BY <1>5 DEF Media!Expire, OverIsOver, SaysGone, ConfigTyped, Discoveries, SlotTyped, Media!Slots, SnapTyped, WorkTyped, IsWork, Media!Said, Shown
<1>6. CASE Media!SnapshotReads
  <2>1. engine' = engine /\ snap.pc = "listed"
    BY <1>6 DEF Media!SnapshotReads
  <2>2. CASE slot' = None /\ snap' = [snap EXCEPT !.pc = "got", !.value = "none"]
    BY <2>1, <2>2 DEF OverIsOver, SaysGone, SnapTyped, IsWork
  <2>3. CASE slot' = Media!Collecting(FALSE) /\ snap' = Media!Reading(snap, FALSE)
    <3>1. slot' # None => slot'.value = Media!Slot.value /\ slot'.flight \in {Media!Slot.flight, "begun"}
      BY <2>3 DEF SlotTyped, Media!Slots, Media!Collecting, Media!Slot, Media!newSlot
    <3>2. slot = None => Media!Slot.value = None /\ Media!Slot.flight = None
      BY DEF Media!Slot, Media!newSlot
    <3>3. slot # None => Media!Slot = slot
      BY DEF Media!Slot
    <3>4. snap'.pc = "got" => /\ snap'.value = Media!Slot.value /\ Media!Slot.fresh
                             /\ Media!Slot.flight = None
      BY <2>3 DEF Media!Reading, SnapTyped, IsWork
    <3>5. snap'.pc = "got" => slot # None /\ slot' = slot
      BY <2>3, <3>4 DEF Media!Slot, Media!newSlot, Media!Collecting
    <3> QED
      BY <2>1, <3>1, <3>2, <3>3, <3>4, <3>5 DEF OverIsOver, SaysGone
  <2> QED
    BY <1>6, <2>2, <2>3 DEF Media!SnapshotReads
<1>7. CASE Media!Compose
  BY <1>7, ComposesShared, Discovers DEF OverIsOver, SaysGone
<1>8. CASE Media!CancelReads
  BY <1>8 DEF Media!CancelReads, Media!IsPending, Media!Reply, Media!Replied, Media!Collecting, Media!Slot, Media!newSlot, Media!Reading, Media!idle, OverIsOver, SaysGone, ConfigTyped, Discoveries, SlotTyped, Media!Slots, SnapTyped, WorkTyped, IsWork, Media!Said, Shown
<1>9. CASE Media!OrphanEnds
  BY <1>9 DEF Media!OrphanEnds, Media!Answer, OverIsOver, SaysGone, ConfigTyped, Discoveries, SlotTyped, Media!Slots, SnapTyped, WorkTyped, IsWork, Media!Said, Shown
<1>10. CASE Media!CancelDecides
  BY <1>10 DEF Media!CancelDecides, Media!Reply, Media!Replied, Media!idle, OverIsOver, SaysGone, ConfigTyped, Discoveries, SlotTyped, Media!Slots, SnapTyped, WorkTyped, IsWork, Media!Said, Shown
<1>11. CASE Media!CancelSends
  BY <1>11 DEF Media!CancelSends, Media!Reply, Media!Replied, Media!idle, OverIsOver, SaysGone, ConfigTyped, Discoveries, SlotTyped, Media!Slots, SnapTyped, WorkTyped, IsWork, Media!Said, Shown
<1>12. CASE Media!CancelEnds
  BY <1>12 DEF Media!CancelEnds, Media!CacheAfterCancel, Media!Reply, Media!Replied, Media!idle, OverIsOver, SaysGone, ConfigTyped, Discoveries, SlotTyped, Media!Slots, SnapTyped, WorkTyped, IsWork, Media!Said, Shown
<1>13. CASE Media!JobEnds
  BY <1>13 DEF Media!JobEnds, OverIsOver, SaysGone, ConfigTyped, Discoveries, SlotTyped, Media!Slots, SnapTyped, WorkTyped, IsWork, Media!Said, Shown
<1>14. CASE Media!Change
  BY <1>14 DEF Media!Change, OverIsOver, SaysGone, ConfigTyped, Discoveries, SlotTyped, Media!Slots, SnapTyped, WorkTyped, IsWork, Media!Said, Shown
<1>15. ASSUME NEW f \in Frames, Media!Arrives(f) PROVE OverIsOver'
  BY <1>15 DEF Media!Arrives, Media!Known, Media!Listing, Media!Valid, Media!Discovering, Media!idle, OverIsOver, SaysGone, ConfigTyped, Discoveries, SlotTyped, Media!Slots, SnapTyped, WorkTyped, IsWork, Media!Said, Shown
<1>16. ASSUME NEW f \in Frames, Media!CancelArrives(f) PROVE OverIsOver'
  BY <1>16 DEF Media!CancelArrives, Media!Post, Media!Listing, Media!Valid, Media!Discovering, Media!idle, OverIsOver, SaysGone, ConfigTyped, Discoveries, SlotTyped, Media!Slots, SnapTyped, WorkTyped, IsWork, Media!Said, Shown
<1>17. ASSUME NEW f \in Frames, Media!Refresh(f) PROVE OverIsOver'
  BY <1>17 DEF Media!Refresh, OverIsOver, SaysGone, ConfigTyped, Discoveries, SlotTyped, Media!Slots, SnapTyped, WorkTyped, IsWork, Media!Said, Shown
<1>18. ASSUME NEW f \in Frames, Media!Receive(f) PROVE OverIsOver'
  BY <1>18 DEF Media!Receive, OverIsOver, SaysGone, ConfigTyped, Discoveries, SlotTyped, Media!Slots, SnapTyped, WorkTyped, IsWork, Media!Said, Shown
<1>19. ASSUME NEW f \in Frames, Media!RequestCancel(f) PROVE OverIsOver'
  BY <1>19 DEF Media!RequestCancel, OverIsOver, SaysGone, ConfigTyped, Discoveries, SlotTyped, Media!Slots, SnapTyped, WorkTyped, IsWork, Media!Said, Shown
<1>20. ASSUME NEW f \in Frames, Media!Cancel(f) PROVE OverIsOver'
  BY <1>20 DEF Media!Cancel, OverIsOver, SaysGone, ConfigTyped, Discoveries, SlotTyped, Media!Slots, SnapTyped, WorkTyped, IsWork, Media!Said, Shown
<1>21. ASSUME NEW f \in Frames, Media!Cancelled(f) PROVE OverIsOver'
  BY <1>21 DEF Media!Cancelled, OverIsOver, SaysGone, ConfigTyped, Discoveries, SlotTyped, Media!Slots, SnapTyped, WorkTyped, IsWork, Media!Said, Shown
<1> QED
  BY <1>1, <1>2, <1>3, <1>4, <1>5, <1>6, <1>7, <1>8, <1>9, <1>10, <1>11, <1>12, <1>13, <1>14, <1>15, <1>16, <1>17, <1>18, <1>19, <1>20, <1>21 DEF Media!MediaNext

\* No second cancellation gets as far as the source.
LEMMA CancelsOnceKept == MediaInv /\ Media!MediaNext => CancelsOnce'
<1> SUFFICES ASSUME MediaInv, Media!MediaNext PROVE CancelsOnce'
  OBVIOUS
<1>a. ConfigTyped /\ SlotTyped /\ SnapTyped /\ WorkTyped /\ OverIsOver /\ CancelsOnce
  BY DEF MediaInv, MediaTypeOK, Cancels
<1> USE MediaConstants, <1>a DEF Media!MediaAssumption, Media!Said
<1>1. CASE Media!DiscoveryReads
  BY <1>1 DEF Media!DiscoveryReads, OverIsOver, CancelsOnce, SaysGone, ConfigTyped, Discoveries, SlotTyped, Media!Slots, SnapTyped, WorkTyped, IsWork, Media!Said, Shown
<1>2. CASE Media!DiscoveryEnds
  BY <1>2 DEF Media!DiscoveryEnds, OverIsOver, CancelsOnce, SaysGone, ConfigTyped, Discoveries, SlotTyped, Media!Slots, SnapTyped, WorkTyped, IsWork, Media!Said, Shown
<1>3. CASE Media!CollectionReads
  BY <1>3 DEF Media!CollectionReads, Media!Answer, Media!Withdrawn, OverIsOver, CancelsOnce, SaysGone, ConfigTyped, Discoveries, SlotTyped, Media!Slots, SnapTyped, WorkTyped, IsWork, Media!Said, Shown
<1>4. CASE Media!CollectionEnds
  BY <1>4 DEF Media!CollectionEnds, OverIsOver, CancelsOnce, SaysGone, ConfigTyped, Discoveries, SlotTyped, Media!Slots, SnapTyped, WorkTyped, IsWork, Media!Said, Shown
<1>5. CASE Media!Expire
  BY <1>5 DEF Media!Expire, OverIsOver, CancelsOnce, SaysGone, ConfigTyped, Discoveries, SlotTyped, Media!Slots, SnapTyped, WorkTyped, IsWork, Media!Said, Shown
<1>6. CASE Media!SnapshotReads
  BY <1>6 DEF Media!SnapshotReads, Media!Collecting, Media!Slot, Media!newSlot, Media!Reading, OverIsOver, CancelsOnce, SaysGone, ConfigTyped, Discoveries, SlotTyped, Media!Slots, SnapTyped, WorkTyped, IsWork, Media!Said, Shown
<1>7. CASE Media!Compose
  BY <1>7, ComposesShared, Discovers DEF ConfigTyped, OverIsOver, CancelsOnce, SaysGone
<1>8. CASE Media!CancelReads
  BY <1>8 DEF Media!CancelReads, Media!IsPending, Media!Reply, Media!Replied, Media!Collecting, Media!Slot, Media!newSlot, Media!Reading, Media!idle, OverIsOver, CancelsOnce, SaysGone, ConfigTyped, Discoveries, SlotTyped, Media!Slots, SnapTyped, WorkTyped, IsWork, Media!Said, Shown
<1>9. CASE Media!OrphanEnds
  BY <1>9 DEF Media!OrphanEnds, Media!Answer, OverIsOver, CancelsOnce, SaysGone, ConfigTyped, Discoveries, SlotTyped, Media!Slots, SnapTyped, WorkTyped, IsWork, Media!Said, Shown
<1>10. CASE Media!CancelDecides
  BY <1>10, Decides DEF Media!idle, CancelsOnce, SaysGone, WorkTyped, IsWork
<1>11. CASE Media!CancelSends
  BY <1>11 DEF Media!CancelSends, Media!Reply, Media!Replied, Media!idle, OverIsOver, CancelsOnce, SaysGone, ConfigTyped, Discoveries, SlotTyped, Media!Slots, SnapTyped, WorkTyped, IsWork, Media!Said, Shown
<1>12. CASE Media!CancelEnds
  BY <1>12 DEF Media!CancelEnds, Media!CacheAfterCancel, Media!Reply, Media!Replied, Media!idle, OverIsOver, CancelsOnce, SaysGone, ConfigTyped, Discoveries, SlotTyped, Media!Slots, SnapTyped, WorkTyped, IsWork, Media!Said, Shown
<1>13. CASE Media!JobEnds
  BY <1>13 DEF Media!JobEnds, OverIsOver, CancelsOnce, SaysGone, ConfigTyped, Discoveries, SlotTyped, Media!Slots, SnapTyped, WorkTyped, IsWork, Media!Said, Shown
<1>14. CASE Media!Change
  BY <1>14 DEF Media!Change, OverIsOver, CancelsOnce, SaysGone, ConfigTyped, Discoveries, SlotTyped, Media!Slots, SnapTyped, WorkTyped, IsWork, Media!Said, Shown
<1>15. ASSUME NEW f \in Frames, Media!Arrives(f) PROVE CancelsOnce'
  BY <1>15 DEF Media!Arrives, Media!Known, Media!Listing, Media!Valid, Media!Discovering, Media!idle, OverIsOver, CancelsOnce, SaysGone, ConfigTyped, Discoveries, SlotTyped, Media!Slots, SnapTyped, WorkTyped, IsWork, Media!Said, Shown
<1>16. ASSUME NEW f \in Frames, Media!CancelArrives(f) PROVE CancelsOnce'
  BY <1>16 DEF Media!CancelArrives, Media!Post, Media!Listing, Media!Valid, Media!Discovering, Media!idle, OverIsOver, CancelsOnce, SaysGone, ConfigTyped, Discoveries, SlotTyped, Media!Slots, SnapTyped, WorkTyped, IsWork, Media!Said, Shown
<1>17. ASSUME NEW f \in Frames, Media!Refresh(f) PROVE CancelsOnce'
  BY <1>17 DEF Media!Refresh, OverIsOver, CancelsOnce, SaysGone, ConfigTyped, Discoveries, SlotTyped, Media!Slots, SnapTyped, WorkTyped, IsWork, Media!Said, Shown
<1>18. ASSUME NEW f \in Frames, Media!Receive(f) PROVE CancelsOnce'
  BY <1>18 DEF Media!Receive, OverIsOver, CancelsOnce, SaysGone, ConfigTyped, Discoveries, SlotTyped, Media!Slots, SnapTyped, WorkTyped, IsWork, Media!Said, Shown
<1>19. ASSUME NEW f \in Frames, Media!RequestCancel(f) PROVE CancelsOnce'
  BY <1>19 DEF Media!RequestCancel, OverIsOver, CancelsOnce, SaysGone, ConfigTyped, Discoveries, SlotTyped, Media!Slots, SnapTyped, WorkTyped, IsWork, Media!Said, Shown
<1>20. ASSUME NEW f \in Frames, Media!Cancel(f) PROVE CancelsOnce'
  BY <1>20 DEF Media!Cancel, OverIsOver, CancelsOnce, SaysGone, ConfigTyped, Discoveries, SlotTyped, Media!Slots, SnapTyped, WorkTyped, IsWork, Media!Said, Shown
<1>21. ASSUME NEW f \in Frames, Media!Cancelled(f) PROVE CancelsOnce'
  BY <1>21 DEF Media!Cancelled, OverIsOver, CancelsOnce, SaysGone, ConfigTyped, Discoveries, SlotTyped, Media!Slots, SnapTyped, WorkTyped, IsWork, Media!Said, Shown
<1> QED
  BY <1>1, <1>2, <1>3, <1>4, <1>5, <1>6, <1>7, <1>8, <1>9, <1>10, <1>11, <1>12, <1>13, <1>14, <1>15, <1>16, <1>17, <1>18, <1>19, <1>20, <1>21 DEF Media!MediaNext

\* No snapshot shows a job that was cancelled as one that can be.
LEMMA ShowsCancelledKept == MediaInv /\ Media!MediaNext => ShowsCancelled'
<1> SUFFICES ASSUME MediaInv, Media!MediaNext PROVE ShowsCancelled'
  OBVIOUS
<1>a. ConfigTyped /\ SlotTyped /\ SnapTyped /\ WorkTyped /\ OverIsOver /\ CancelsOnce /\ ShowsCancelled
  BY DEF MediaInv, MediaTypeOK, Cancels
<1> USE MediaConstants, <1>a DEF Media!MediaAssumption, Media!Said
<1>1. CASE Media!DiscoveryReads
  BY <1>1 DEF Media!DiscoveryReads, OverIsOver, CancelsOnce, ShowsCancelled, SaysGone, ConfigTyped, Discoveries, SlotTyped, Media!Slots, SnapTyped, WorkTyped, IsWork, Media!Said, Shown
<1>2. CASE Media!DiscoveryEnds
  BY <1>2 DEF Media!DiscoveryEnds, OverIsOver, CancelsOnce, ShowsCancelled, SaysGone, ConfigTyped, Discoveries, SlotTyped, Media!Slots, SnapTyped, WorkTyped, IsWork, Media!Said, Shown
<1>3. CASE Media!CollectionReads
  BY <1>3 DEF Media!CollectionReads, Media!Answer, Media!Withdrawn, OverIsOver, CancelsOnce, ShowsCancelled, SaysGone, ConfigTyped, Discoveries, SlotTyped, Media!Slots, SnapTyped, WorkTyped, IsWork, Media!Said, Shown
<1>4. CASE Media!CollectionEnds
  BY <1>4 DEF Media!CollectionEnds, OverIsOver, CancelsOnce, ShowsCancelled, SaysGone, ConfigTyped, Discoveries, SlotTyped, Media!Slots, SnapTyped, WorkTyped, IsWork, Media!Said, Shown
<1>5. CASE Media!Expire
  BY <1>5 DEF Media!Expire, OverIsOver, CancelsOnce, ShowsCancelled, SaysGone, ConfigTyped, Discoveries, SlotTyped, Media!Slots, SnapTyped, WorkTyped, IsWork, Media!Said, Shown
<1>6. CASE Media!SnapshotReads
  BY <1>6 DEF Media!SnapshotReads, Media!Collecting, Media!Slot, Media!newSlot, Media!Reading, OverIsOver, CancelsOnce, ShowsCancelled, SaysGone, ConfigTyped, Discoveries, SlotTyped, Media!Slots, SnapTyped, WorkTyped, IsWork, Media!Said, Shown
<1>7. CASE Media!Compose
  BY <1>7, ComposesShared, Discovers DEF ConfigTyped, OverIsOver, CancelsOnce, ShowsCancelled, SaysGone, ShownNow
<1>8. CASE Media!CancelReads
  BY <1>8 DEF Media!CancelReads, Media!IsPending, Media!Reply, Media!Replied, Media!Collecting, Media!Slot, Media!newSlot, Media!Reading, Media!idle, OverIsOver, CancelsOnce, ShowsCancelled, SaysGone, ConfigTyped, Discoveries, SlotTyped, Media!Slots, SnapTyped, WorkTyped, IsWork, Media!Said, Shown
<1>9. CASE Media!OrphanEnds
  BY <1>9 DEF Media!OrphanEnds, Media!Answer, OverIsOver, CancelsOnce, ShowsCancelled, SaysGone, ConfigTyped, Discoveries, SlotTyped, Media!Slots, SnapTyped, WorkTyped, IsWork, Media!Said, Shown
<1>10. CASE Media!CancelDecides
  BY <1>10 DEF Media!CancelDecides, Media!Reply, Media!Replied, Media!idle, OverIsOver, CancelsOnce, ShowsCancelled, SaysGone, ConfigTyped, Discoveries, SlotTyped, Media!Slots, SnapTyped, WorkTyped, IsWork, Media!Said, Shown
<1>11. CASE Media!CancelSends
  BY <1>11 DEF Media!CancelSends, Media!Reply, Media!Replied, Media!idle, OverIsOver, CancelsOnce, ShowsCancelled, SaysGone, ConfigTyped, Discoveries, SlotTyped, Media!Slots, SnapTyped, WorkTyped, IsWork, Media!Said, Shown
<1>12. CASE Media!CancelEnds
  BY <1>12 DEF Media!CancelEnds, Media!CacheAfterCancel, Media!Reply, Media!Replied, Media!idle, OverIsOver, CancelsOnce, ShowsCancelled, SaysGone, ConfigTyped, Discoveries, SlotTyped, Media!Slots, SnapTyped, WorkTyped, IsWork, Media!Said, Shown
<1>13. CASE Media!JobEnds
  BY <1>13 DEF Media!JobEnds, OverIsOver, CancelsOnce, ShowsCancelled, SaysGone, ConfigTyped, Discoveries, SlotTyped, Media!Slots, SnapTyped, WorkTyped, IsWork, Media!Said, Shown
<1>14. CASE Media!Change
  BY <1>14 DEF Media!Change, OverIsOver, CancelsOnce, ShowsCancelled, SaysGone, ConfigTyped, Discoveries, SlotTyped, Media!Slots, SnapTyped, WorkTyped, IsWork, Media!Said, Shown
<1>15. ASSUME NEW f \in Frames, Media!Arrives(f) PROVE ShowsCancelled'
  BY <1>15 DEF Media!Arrives, Media!Known, Media!Listing, Media!Valid, Media!Discovering, Media!idle, OverIsOver, CancelsOnce, ShowsCancelled, SaysGone, ConfigTyped, Discoveries, SlotTyped, Media!Slots, SnapTyped, WorkTyped, IsWork, Media!Said, Shown
<1>16. ASSUME NEW f \in Frames, Media!CancelArrives(f) PROVE ShowsCancelled'
  BY <1>16 DEF Media!CancelArrives, Media!Post, Media!Listing, Media!Valid, Media!Discovering, Media!idle, OverIsOver, CancelsOnce, ShowsCancelled, SaysGone, ConfigTyped, Discoveries, SlotTyped, Media!Slots, SnapTyped, WorkTyped, IsWork, Media!Said, Shown
<1>17. ASSUME NEW f \in Frames, Media!Refresh(f) PROVE ShowsCancelled'
  BY <1>17 DEF Media!Refresh, OverIsOver, CancelsOnce, ShowsCancelled, SaysGone, ConfigTyped, Discoveries, SlotTyped, Media!Slots, SnapTyped, WorkTyped, IsWork, Media!Said, Shown
<1>18. ASSUME NEW f \in Frames, Media!Receive(f) PROVE ShowsCancelled'
  BY <1>18 DEF Media!Receive, OverIsOver, CancelsOnce, ShowsCancelled, SaysGone, ConfigTyped, Discoveries, SlotTyped, Media!Slots, SnapTyped, WorkTyped, IsWork, Media!Said, Shown
<1>19. ASSUME NEW f \in Frames, Media!RequestCancel(f) PROVE ShowsCancelled'
  BY <1>19 DEF Media!RequestCancel, OverIsOver, CancelsOnce, ShowsCancelled, SaysGone, ConfigTyped, Discoveries, SlotTyped, Media!Slots, SnapTyped, WorkTyped, IsWork, Media!Said, Shown
<1>20. ASSUME NEW f \in Frames, Media!Cancel(f) PROVE ShowsCancelled'
  BY <1>20 DEF Media!Cancel, OverIsOver, CancelsOnce, ShowsCancelled, SaysGone, ConfigTyped, Discoveries, SlotTyped, Media!Slots, SnapTyped, WorkTyped, IsWork, Media!Said, Shown
<1>21. ASSUME NEW f \in Frames, Media!Cancelled(f) PROVE ShowsCancelled'
  BY <1>21 DEF Media!Cancelled, OverIsOver, CancelsOnce, ShowsCancelled, SaysGone, ConfigTyped, Discoveries, SlotTyped, Media!Slots, SnapTyped, WorkTyped, IsWork, Media!Said, Shown
<1> QED
  BY <1>1, <1>2, <1>3, <1>4, <1>5, <1>6, <1>7, <1>8, <1>9, <1>10, <1>11, <1>12, <1>13, <1>14, <1>15, <1>16, <1>17, <1>18, <1>19, <1>20, <1>21 DEF Media!MediaNext

\* Discovery follows the configuration.
LEMMA DiscoveredKept == MediaInv /\ Media!MediaNext => Discovered'
<1> SUFFICES ASSUME MediaInv, Media!MediaNext PROVE Discovered'
  OBVIOUS
<1>a. ConfigTyped /\ SnapTyped /\ Discovered
  BY DEF MediaInv, MediaTypeOK, Sources
<1> USE MediaConstants, <1>a DEF Media!MediaAssumption, Media!Said
<1>1. CASE Media!DiscoveryReads
  BY <1>1 DEF Media!DiscoveryReads, ConfigTyped, Discoveries, SnapTyped, IsWork, Discovered
<1>2. CASE Media!DiscoveryEnds
  BY <1>2 DEF Media!DiscoveryEnds, ConfigTyped, Discoveries, SnapTyped, IsWork, Discovered
<1>3. CASE Media!CollectionReads
  BY <1>3 DEF Media!CollectionReads, Media!Answer, Media!Withdrawn, ConfigTyped, Discoveries, SnapTyped, IsWork, Discovered
<1>4. CASE Media!CollectionEnds
  BY <1>4 DEF Media!CollectionEnds, ConfigTyped, Discoveries, SnapTyped, IsWork, Discovered
<1>5. CASE Media!Expire
  BY <1>5 DEF Media!Expire, ConfigTyped, Discoveries, SnapTyped, IsWork, Discovered
<1>6. CASE Media!SnapshotReads
  BY <1>6 DEF Media!SnapshotReads, Media!Collecting, Media!Slot, Media!newSlot, Media!Reading, ConfigTyped, Discoveries, SnapTyped, IsWork, Discovered
<1>7. CASE Media!Compose
  <2>1. snap'.generation <= generation'
    BY <1>7, ComposesShared DEF ConfigTyped, Discovered
  <2>2. /\ disco'.cached = disco.cached /\ disco'.valid = disco.valid
        /\ disco'.flight = disco.flight \/ disco'.flight = "begun"
    BY <1>7, ComposesShared, Discovers
  <2>3. stale' = stale /\ listed' = listed
    BY <1>7, ComposesShared
  <2> QED
    BY <2>1, <2>2, <2>3 DEF Discovered
<1>8. CASE Media!CancelReads
  BY <1>8 DEF Media!CancelReads, Media!IsPending, Media!Reply, Media!Replied, Media!Collecting, Media!Slot, Media!newSlot, Media!Reading, Media!idle, ConfigTyped, Discoveries, SnapTyped, IsWork, Discovered
<1>9. CASE Media!OrphanEnds
  BY <1>9 DEF Media!OrphanEnds, Media!Answer, ConfigTyped, Discoveries, SnapTyped, IsWork, Discovered
<1>10. CASE Media!CancelDecides
  BY <1>10 DEF Media!CancelDecides, Media!Reply, Media!Replied, Media!idle, ConfigTyped, Discoveries, SnapTyped, IsWork, Discovered
<1>11. CASE Media!CancelSends
  BY <1>11 DEF Media!CancelSends, Media!Reply, Media!Replied, Media!idle, ConfigTyped, Discoveries, SnapTyped, IsWork, Discovered
<1>12. CASE Media!CancelEnds
  BY <1>12 DEF Media!CancelEnds, Media!CacheAfterCancel, Media!Reply, Media!Replied, Media!idle, ConfigTyped, Discoveries, SnapTyped, IsWork, Discovered
<1>13. CASE Media!JobEnds
  BY <1>13 DEF Media!JobEnds, ConfigTyped, Discoveries, SnapTyped, IsWork, Discovered
<1>14. CASE Media!Change
  <2>1. ~stale' => disco.flight \in {None, "begun"}
    BY <1>14 DEF Media!Change, ConfigTyped, Discoveries
  <2>2. disco'.flight = disco.flight /\ ~disco'.valid
    BY <1>14 DEF Media!Change, ConfigTyped, Discoveries
  <2>3. snap'.generation <= generation'
    BY <1>14 DEF Media!Change, ConfigTyped, SnapTyped, Discovered
  <2> QED
    BY <2>1, <2>2, <2>3 DEF Discovered
<1>15. ASSUME NEW f \in Frames, Media!Arrives(f) PROVE Discovered'
  <2>1. CASE snap' = snap /\ disco' = disco
    BY <1>15, <2>1 DEF Media!Arrives, Discovered
  <2>2. CASE snap' = Relisted /\ disco' = Media!Discovering
    <3>1. snap'.generation <= generation'
      BY <1>15, <2>2, Relists DEF Media!Arrives, ConfigTyped
    <3>2. /\ disco'.cached = disco.cached /\ disco'.valid = disco.valid
          /\ disco'.flight = disco.flight \/ disco'.flight = "begun"
      BY <2>2, Discovers
    <3> QED
      BY <1>15, <3>1, <3>2 DEF Media!Arrives, Discovered
  <2> QED
    BY <1>15, <2>1, <2>2 DEF Media!Arrives, Relisted
<1>16. ASSUME NEW f \in Frames, Media!CancelArrives(f) PROVE Discovered'
  BY <1>16 DEF Media!CancelArrives, Media!Post, Media!Listing, Media!Valid, Media!Discovering, Media!idle, ConfigTyped, Discoveries, SnapTyped, IsWork, Discovered
<1>17. ASSUME NEW f \in Frames, Media!Refresh(f) PROVE Discovered'
  BY <1>17 DEF Media!Refresh, ConfigTyped, Discoveries, SnapTyped, IsWork, Discovered
<1>18. ASSUME NEW f \in Frames, Media!Receive(f) PROVE Discovered'
  BY <1>18 DEF Media!Receive, ConfigTyped, Discoveries, SnapTyped, IsWork, Discovered
<1>19. ASSUME NEW f \in Frames, Media!RequestCancel(f) PROVE Discovered'
  BY <1>19 DEF Media!RequestCancel, ConfigTyped, Discoveries, SnapTyped, IsWork, Discovered
<1>20. ASSUME NEW f \in Frames, Media!Cancel(f) PROVE Discovered'
  BY <1>20 DEF Media!Cancel, ConfigTyped, Discoveries, SnapTyped, IsWork, Discovered
<1>21. ASSUME NEW f \in Frames, Media!Cancelled(f) PROVE Discovered'
  BY <1>21 DEF Media!Cancelled, ConfigTyped, Discoveries, SnapTyped, IsWork, Discovered
<1> QED
  BY <1>1, <1>2, <1>3, <1>4, <1>5, <1>6, <1>7, <1>8, <1>9, <1>10, <1>11, <1>12, <1>13, <1>14, <1>15, <1>16, <1>17, <1>18, <1>19, <1>20, <1>21 DEF Media!MediaNext

\* So does what is composed from it.
LEMMA ListsKept == MediaInv /\ Media!MediaNext => Lists'
<1> SUFFICES ASSUME MediaInv, Media!MediaNext PROVE Lists'
  OBVIOUS
<1>a. ConfigTyped /\ SnapTyped /\ Discovered /\ Lists
  BY DEF MediaInv, MediaTypeOK, Sources
<1> USE MediaConstants, <1>a DEF Media!MediaAssumption, Media!Said
<1>1. CASE Media!DiscoveryReads
  BY <1>1 DEF Media!DiscoveryReads, ConfigTyped, Discoveries, SnapTyped, IsWork, Discovered, Lists, Current, Media!Said, Shown
<1>2. CASE Media!DiscoveryEnds
  BY <1>2 DEF Media!DiscoveryEnds, ConfigTyped, Discoveries, SnapTyped, IsWork, Discovered, Lists, Current, Media!Said, Shown
<1>3. CASE Media!CollectionReads
  BY <1>3 DEF Media!CollectionReads, Media!Answer, Media!Withdrawn, ConfigTyped, Discoveries, SnapTyped, IsWork, Discovered, Lists, Current, Media!Said, Shown
<1>4. CASE Media!CollectionEnds
  BY <1>4 DEF Media!CollectionEnds, ConfigTyped, Discoveries, SnapTyped, IsWork, Discovered, Lists, Current, Media!Said, Shown
<1>5. CASE Media!Expire
  BY <1>5 DEF Media!Expire, ConfigTyped, Discoveries, SnapTyped, IsWork, Discovered, Lists, Current, Media!Said, Shown
<1>6. CASE Media!SnapshotReads
  BY <1>6 DEF Media!SnapshotReads, Media!Collecting, Media!Slot, Media!newSlot, Media!Reading, ConfigTyped, Discoveries, SnapTyped, IsWork, Discovered, Lists, Current, Media!Said, Shown
<1>7. CASE Media!Compose
  BY <1>7, ComposesShared, Discovers DEF ConfigTyped, Discovered, Lists, Current, ShownNow
<1>8. CASE Media!CancelReads
  BY <1>8 DEF Media!CancelReads, Media!IsPending, Media!Reply, Media!Replied, Media!Collecting, Media!Slot, Media!newSlot, Media!Reading, Media!idle, ConfigTyped, Discoveries, SnapTyped, IsWork, Discovered, Lists, Current, Media!Said, Shown
<1>9. CASE Media!OrphanEnds
  BY <1>9 DEF Media!OrphanEnds, Media!Answer, ConfigTyped, Discoveries, SnapTyped, IsWork, Discovered, Lists, Current, Media!Said, Shown
<1>10. CASE Media!CancelDecides
  BY <1>10 DEF Media!CancelDecides, Media!Reply, Media!Replied, Media!idle, ConfigTyped, Discoveries, SnapTyped, IsWork, Discovered, Lists, Current, Media!Said, Shown
<1>11. CASE Media!CancelSends
  BY <1>11 DEF Media!CancelSends, Media!Reply, Media!Replied, Media!idle, ConfigTyped, Discoveries, SnapTyped, IsWork, Discovered, Lists, Current, Media!Said, Shown
<1>12. CASE Media!CancelEnds
  BY <1>12 DEF Media!CancelEnds, Media!CacheAfterCancel, Media!Reply, Media!Replied, Media!idle, ConfigTyped, Discoveries, SnapTyped, IsWork, Discovered, Lists, Current, Media!Said, Shown
<1>13. CASE Media!JobEnds
  BY <1>13 DEF Media!JobEnds, ConfigTyped, Discoveries, SnapTyped, IsWork, Discovered, Lists, Current, Media!Said, Shown
<1>14. CASE Media!Change
  BY <1>14 DEF Media!Change, ConfigTyped, Discoveries, SnapTyped, IsWork, Discovered, Lists, Current, Media!Said, Shown
<1>15. ASSUME NEW f \in Frames, Media!Arrives(f) PROVE Lists'
  BY <1>15 DEF Media!Arrives, Media!Known, Media!Listing, Media!Valid, Media!Discovering, Media!idle, ConfigTyped, Discoveries, SnapTyped, IsWork, Discovered, Lists, Current, Media!Said, Shown
<1>16. ASSUME NEW f \in Frames, Media!CancelArrives(f) PROVE Lists'
  BY <1>16 DEF Media!CancelArrives, Media!Post, Media!Listing, Media!Valid, Media!Discovering, Media!idle, ConfigTyped, Discoveries, SnapTyped, IsWork, Discovered, Lists, Current, Media!Said, Shown
<1>17. ASSUME NEW f \in Frames, Media!Refresh(f) PROVE Lists'
  BY <1>17 DEF Media!Refresh, ConfigTyped, Discoveries, SnapTyped, IsWork, Discovered, Lists, Current, Media!Said, Shown
<1>18. ASSUME NEW f \in Frames, Media!Receive(f) PROVE Lists'
  BY <1>18 DEF Media!Receive, ConfigTyped, Discoveries, SnapTyped, IsWork, Discovered, Lists, Current, Media!Said, Shown
<1>19. ASSUME NEW f \in Frames, Media!RequestCancel(f) PROVE Lists'
  BY <1>19 DEF Media!RequestCancel, ConfigTyped, Discoveries, SnapTyped, IsWork, Discovered, Lists, Current, Media!Said, Shown
<1>20. ASSUME NEW f \in Frames, Media!Cancel(f) PROVE Lists'
  BY <1>20 DEF Media!Cancel, ConfigTyped, Discoveries, SnapTyped, IsWork, Discovered, Lists, Current, Media!Said, Shown
<1>21. ASSUME NEW f \in Frames, Media!Cancelled(f) PROVE Lists'
  BY <1>21 DEF Media!Cancelled, ConfigTyped, Discoveries, SnapTyped, IsWork, Discovered, Lists, Current, Media!Said, Shown
<1> QED
  BY <1>1, <1>2, <1>3, <1>4, <1>5, <1>6, <1>7, <1>8, <1>9, <1>10, <1>11, <1>12, <1>13, <1>14, <1>15, <1>16, <1>17, <1>18, <1>19, <1>20, <1>21 DEF Media!MediaNext

----------------------------------------------------------------------------
(* What the frames are told.                                               *)

\* Whatever a frame is given agrees with what it must take notice of.
LEMMA ToldKept == MediaInv /\ Media!MediaNext => FramesAreTold'
<1> SUFFICES ASSUME MediaInv, Media!MediaNext, NEW g \in Frames PROVE Told(frame[g])'
  BY DEF FramesAreTold
<1>a. /\ ConfigTyped /\ SnapTyped /\ WorkTyped /\ FramesTypeOK
      /\ CancelsOnce /\ ShowsCancelled /\ Lists /\ Told(frame[g])
  BY DEF MediaInv, MediaTypeOK, Cancels, Sources, FramesAreTold
<1> USE <1>a
<1>b. frame = [h \in Frames |-> frame[h]] /\ IsController(frame[g])
  BY DEF FramesTypeOK
\* Where neither what is noticed nor the request changes, nothing is to be shown.
<1>1. ASSUME frame'[g].after = frame[g].after, frame'[g].read = frame[g].read, frame'[g].shown = frame[g].shown,
             accepted => accepted', stale' = stale, listed' = listed
      PROVE  Told(frame[g])'
  BY <1>1 DEF Told
<1>2. ASSUME frame'[g].read \notin {"wait", "back"}, "accepted" \notin frame'[g].after \/ accepted'
      PROVE  Told(frame[g])'
  BY <1>2 DEF Told
<1>3. ASSUME NEW status, frame' = Media!Replied(status), accepted => accepted', stale' = stale, listed' = listed
      PROVE  Told(frame[g])'
  <2>1. /\ frame'[g].after = frame[g].after /\ frame'[g].read = frame[g].read
        /\ frame'[g].shown = frame[g].shown
    BY <1>3, <1>b DEF Media!Replied, IsController
  <2> QED
    BY <1>1, <1>3, <2>1
<1>4. CASE Media!DiscoveryReads \/ Media!DiscoveryEnds \/ Media!CollectionReads \/ Media!CollectionEnds \/ Media!Expire
           \/ Media!SnapshotReads \/ Media!OrphanEnds \/ Media!JobEnds
  <2>1. frame' = frame /\ accepted' = accepted /\ stale' = stale /\ listed' = listed
    BY <1>4 DEF Media!DiscoveryReads, Media!DiscoveryEnds, Media!CollectionReads, Media!CollectionEnds, Media!Expire,
                Media!SnapshotReads, Media!OrphanEnds, Media!JobEnds
  <2> QED
    BY <1>1, <2>1
<1>5. CASE Media!Compose
  <2>1. frame[g].read = "wait" /\ "absent" \in frame[g].after /\ snap.generation = generation => ShownNow = "none"
    BY <1>5, Composes DEF Told, Lists, Current, ShownNow
  <2>2. accepted => ShownNow # "running"
    BY <1>5, Composes DEF ShownNow, ShowsCancelled
  <2>3. CASE frame'[g] = frame[g]
    BY <1>1, <1>5, <2>3, ComposesShared
  <2>4. CASE /\ snap.generation = generation /\ frame[g].read = "wait"
             /\ frame'[g] = [frame[g] EXCEPT !.read = "back", !.shown = ShownNow]
    <3>1. frame'[g].after = frame[g].after /\ frame'[g].read = "back" /\ frame'[g].shown = ShownNow
      BY <2>4, <1>b DEF IsController
    <3> QED
      BY <1>5, <2>1, <2>2, <2>4, <3>1, ComposesShared DEF Told
  <2> QED
    BY <1>5, <2>3, <2>4, Composes
<1>6. CASE Media!CancelReads
  <2>1. accepted' = accepted /\ stale' = stale /\ listed' = listed
    BY <1>6 DEF Media!CancelReads
  <2>2. frame' = frame \/ frame' = Media!Replied("not-found") \/ frame' = Media!Replied("requested")
    BY <1>6 DEF Media!CancelReads, Media!Reply
  <2> QED
    BY <1>1, <1>3, <2>1, <2>2
<1>7. CASE Media!CancelDecides
  <2>1. accepted' = accepted /\ stale' = stale /\ listed' = listed
    BY <1>7 DEF Media!CancelDecides
  <2>2. frame' = frame \/ \E status \in {"not-found", "conflict"} : frame' = Media!Replied(status)
    BY <1>7, Decides, Zenon
  <2> QED
    BY <1>1, <1>3, <2>1, <2>2
<1>8. CASE Media!CancelSends
  <2>1. accepted' = accepted /\ stale' = stale /\ listed' = listed
    BY <1>8 DEF Media!CancelSends
  <2>2. frame' = frame \/ frame' = Media!Replied("failed")
    BY <1>8 DEF Media!CancelSends, Media!Reply
  <2> QED
    BY <1>1, <1>3, <2>1, <2>2
<1>9. CASE Media!CancelEnds
  <2>1. (accepted => accepted') /\ stale' = stale /\ listed' = listed
    BY <1>9 DEF Media!CancelEnds
  <2>2. frame' = Media!Replied("requested") \/ frame' = Media!Replied("failed")
    BY <1>9 DEF Media!CancelEnds, Media!Reply
  <2> QED
    BY <1>3, <2>1, <2>2
<1>10. CASE Media!Change
  <2>1. accepted' = accepted
    BY <1>10 DEF Media!Change
  <2>2. frame'[g] = [frame[g] EXCEPT !.after = frame[g].after \ {"absent"}]
    BY <1>10 DEF Media!Change
  <2>3. frame'[g].after = frame[g].after \ {"absent"} /\ frame'[g].read = frame[g].read /\ frame'[g].shown = frame[g].shown
    BY <2>2, <1>b DEF IsController
  <2> QED
    BY <2>1, <2>3 DEF Told
<1>11. ASSUME NEW f \in Frames, Media!Arrives(f) PROVE Told(frame[g])'
  <2>1. accepted' = accepted /\ stale' = stale /\ listed' = listed
    BY <1>11 DEF Media!Arrives
  <2>2. CASE g # f
    <3>1. frame'[g] = frame[g]
      BY <1>11, <1>b, <2>2 DEF Media!Arrives
    <3> QED
      BY <1>1, <2>1, <3>1
  <2>3. CASE g = f
    <3>1. \/ frame'[g] = [frame[g] EXCEPT !.read = "wait", !.after = Media!Known]
          \/ cache # None /\ frame'[g] = [frame[g] EXCEPT !.read = "back", !.shown = cache, !.after = Media!Known]
      BY <1>11, <1>b, <2>3 DEF Media!Arrives
    <3>2. /\ frame'[g].after = Media!Known
          /\ \/ frame'[g].read = "wait"
             \/ frame'[g].read = "back" /\ cache # None /\ frame'[g].shown = cache
      BY <3>1, <1>b DEF IsController
    <3>3. ("accepted" \in Media!Known => accepted) /\ ("absent" \in Media!Known => listed = "absent" /\ ~stale)
      BY DEF Media!Known
    <3> QED
      BY <2>1, <3>2, <3>3 DEF Told, Lists, ShowsCancelled
  <2> QED
    BY <2>2, <2>3
<1>12. ASSUME NEW f \in Frames,
              Media!CancelArrives(f) \/ Media!RequestCancel(f) \/ Media!Cancel(f)
       PROVE  Told(frame[g])'
  <2>1. accepted' = accepted /\ stale' = stale /\ listed' = listed
    BY <1>12 DEF Media!CancelArrives, Media!RequestCancel, Media!Cancel
  <2>2. /\ frame'[g].after = frame[g].after /\ frame'[g].read = frame[g].read
        /\ frame'[g].shown = frame[g].shown
    BY <1>12, <1>b DEF Media!CancelArrives, Media!RequestCancel, Media!Cancel, IsController
  <2> QED
    BY <1>1, <2>1, <2>2
<1>13. ASSUME NEW f \in Frames, Media!Refresh(f) PROVE Told(frame[g])'
  <2>1. accepted' = accepted /\ stale' = stale /\ listed' = listed
    BY <1>13 DEF Media!Refresh
  <2>2. frame'[g].after = frame[g].after /\ frame'[g].shown = frame[g].shown
        /\ (frame'[g].read = frame[g].read \/ frame'[g].read = "sent")
    BY <1>13, <1>b DEF Media!Refresh, IsController
  <2> QED
    BY <2>1, <2>2 DEF Told
<1>14. ASSUME NEW f \in Frames, Media!Cancelled(f) PROVE Told(frame[g])'
  <2>1. accepted' = accepted /\ stale' = stale /\ listed' = listed
    BY <1>14 DEF Media!Cancelled
  <2>2. frame'[g].after = frame[g].after /\ frame'[g].shown = frame[g].shown
        /\ (frame'[g].read = frame[g].read \/ frame'[g].read = "sent")
    BY <1>14, <1>b DEF Media!Cancelled, IsController
  <2> QED
    BY <2>1, <2>2 DEF Told
<1>15. ASSUME NEW f \in Frames, Media!Receive(f) PROVE Told(frame[g])'
  <2>1. accepted' = accepted /\ stale' = stale /\ listed' = listed
    BY <1>15 DEF Media!Receive
  <2>2. \/ frame'[g] = frame[g]
        \/ frame'[g].read = "none" /\ frame'[g].after = {}
    BY <1>15, <1>b DEF Media!Receive, IsController
  <2> QED
    BY <1>1, <1>2, <2>1, <2>2
<1> QED
  BY <1>4, <1>5, <1>6, <1>7, <1>8, <1>9, <1>10, <1>11, <1>12, <1>13, <1>14, <1>15 DEF Media!MediaNext

\* Nothing was read, cancelled or asked for yet.
LEMMA MediaStarts == Media!MediaInit => MediaInv
<1> SUFFICES ASSUME Media!MediaInit PROVE MediaInv
  OBVIOUS
<1> USE MediaConstants DEF Media!MediaAssumption, Media!Said, Media!MediaInit
<1>1. ConfigTyped /\ SlotTyped
  BY DEF ConfigTyped, SlotTyped, Discoveries, Shown
<1>2. SnapTyped /\ WorkTyped
  BY DEF SnapTyped, WorkTyped, IsWork, Media!idle
<1>3. FramesTypeOK
  BY DEF FramesTypeOK, IsController, Media!newFrame
<1>4. Cancels
  BY DEF Cancels, OverIsOver, SaysGone, CancelsOnce, ShowsCancelled, Media!idle
<1>5. Sources
  BY DEF Sources, Discovered, Lists, Current, Media!idle
<1>6. FramesAreTold
  BY DEF FramesAreTold, Told, Media!newFrame
<1> QED
  BY <1>1, <1>2, <1>3, <1>4, <1>5, <1>6 DEF MediaInv, MediaTypeOK

\* The invariant looks at nothing but the media variables.
LEMMA MediaStutters == MediaInv /\ UNCHANGED media => MediaInv'
BY DEF media, MediaInv, MediaTypeOK, ConfigTyped, SlotTyped, SnapTyped, WorkTyped, FramesTypeOK, Shown, Discoveries,
       IsWork, IsController, Cancels, OverIsOver, SaysGone, CancelsOnce, ShowsCancelled, Sources, Discovered, Lists,
       Current, FramesAreTold, Told

\* The inductive invariant gives what the run checks.
LEMMA MediaSafe == MediaInv => Media!CancellationIsSound
<1> SUFFICES ASSUME MediaInv PROVE Media!CancellationIsSound
  OBVIOUS
<1>1. Media!CancelIsSentOnce
  BY DEF MediaInv, Cancels, CancelsOnce, Media!CancelIsSentOnce
<1>2. Media!SnapshotsAreCurrent
  BY DEF MediaInv, FramesAreTold, Told, Media!SnapshotsAreCurrent
<1> QED
  BY <1>1, <1>2 DEF Media!CancellationIsSound

----------------------------------------------------------------------------
(* CompanionSetup.  While one task at a time has the lock, what it has      *)
(* replaced and what it found say what the files hold, but for the user's  *)
(* edits; and its first look at the configuration stays good for all but   *)
(* their number.                                                           *)

Every == Setup!Range(Setup!Order)
Held == {None, Setup!Edited} \cup Versions
Trees == {tree \in [Every -> Held] : tree["owner"] # Setup!Edited}
Configs == [entry : {None} \cup Versions, notes : Int]

TaskFields == {"state", "version", "pc", "kind", "info", "todo", "replaced", "created", "seen", "attempt"}
IsTask(s) == s = [field \in TaskFields |-> s[field]]

IsService(s) ==
    /\ IsTask(s)
    /\ s.state = "up" => s.version \in Versions
    /\ s.pc # "none" =>
           /\ s.state = "up"
           /\ s.info = [files |-> s.info.files, config |-> s.info.config]
           /\ s.info.files \in Trees /\ s.info.config \in Configs
           /\ s.kind # "disable" => Setup!Prepared(s.info.files, s.version)
           /\ s.pc \in {"lock", "recheck", "unlink"} => s.replaced = {} /\ s.created = FALSE

SetupTypes ==
    /\ addon \in {None} \cup Trees
    /\ config \in Configs
    /\ kept \in [files : SUBSET Setup!File, notes : Int]
    /\ edits \in Nat
    /\ service = [p \in Services |-> service[p]]
    /\ \A p \in Services : IsService(service[p])

OneHolder == \A p, q \in Setup!Holders : p = q

\* The configuration and what the user made of the files, to a task.
IsBase(s) ==
    s.pc \in {"mkdir", "replace", "commit", "rename", "restore"} =>
        /\ config.entry = s.info.config.entry
        /\ config.entry # None => \A f \in Setup!File : s.info.files[f] # None
        /\ s.replaced \in SUBSET Every /\ s.created \in BOOLEAN
        /\ kept.files \cap s.replaced = {}
        /\ s.kind # "disable" /\ Setup!Managed(s.info.files) => kept.files = {}
        /\ s.created => config.entry = None /\ kept.files = {}
        /\ s.kind = "disable" => s.replaced = {} /\ ~ s.created /\ s.pc \in {"commit", "rename"}

\* What was replaced holds this version, and what is still to be is what it was.
IsReplacing(s) ==
    s.pc \in {"mkdir", "replace", "commit", "rename"} /\ s.kind # "disable" =>
        /\ s.todo \in SUBSET Every /\ s.todo \cap s.replaced = {}
        /\ s.pc \in {"commit", "rename"} => s.todo = {}
        /\ s.pc = "mkdir" => s.replaced = {} /\ ~ s.created
        /\ "owner" \in s.replaced => s.todo = {}
        /\ \A f \in Every : f \in s.todo \/ Setup!Content[f] # None
        /\ edits = 0 => /\ \A f \in Every : f \notin s.todo => Setup!Content[f] = s.version
                        /\ \A f \in Every : f \notin s.replaced => Setup!Content[f] = s.info.files[f]
                        /\ s.created => s.info.files = Setup!Empty

IsRestoring(s) ==
    s.pc = "restore" =>
        /\ s.todo \subseteq s.replaced
        /\ edits = 0 => /\ \A f \in Every : f \notin s.todo => Setup!Content[f] = s.info.files[f]
                        /\ s.created => s.info.files = Setup!Empty

IsEnding(s) ==
    /\ s.pc = "check" => s.replaced = {} /\ s.created = FALSE
    /\ s.pc = "rename" => kept.notes <= s.info.config.notes
    /\ s.pc = "remove" => config.entry = None /\ Setup!Managed(s.info.files)

IsUnderway(s) == IsBase(s) /\ IsReplacing(s) /\ IsRestoring(s) /\ IsEnding(s)

Whole == config.entry # None => \A f \in Setup!File : Setup!Content[f] # None
Finishable == last # None /\ edits = 0 => Setup!Prepared(Setup!Content, last)
Keeps == (\A f \in kept.files : Setup!Content[f] = Setup!Edited) /\ kept.notes <= config.notes

IsAlone ==
    /\ SetupTypes /\ OneHolder
    /\ \A p \in Setup!Holders : IsUnderway(service[p])
    /\ Whole /\ Finishable /\ Keeps

SetupInv == raced \/ IsAlone

\* The files, by name.
LEMMA EveryFile ==
    /\ Every = {"modules", "index.js", "package.json", "owner"}
    /\ Every = Setup!File \cup {"owner"}
<1>1. DOMAIN Setup!Order = 1 .. 4
  BY DEF Setup!Order
<1>2. Every = {Setup!Order[i] : i \in 1 .. 4}
  BY <1>1 DEF Every, Setup!Range
<1>3. Every = {Setup!Order[1], Setup!Order[2], Setup!Order[3], Setup!Order[4]}
  BY <1>2
<1> QED
  BY <1>3 DEF Setup!Order, Setup!File

\* Of some of the files, one comes first, and the marker only of itself.
LEMMA FirstIsOne ==
    ASSUME NEW fs \in SUBSET Every, fs # {}
    PROVE  Setup!FirstOf(fs) \in fs /\ (Setup!FirstOf(fs) = "owner" => fs = {"owner"})
<1> DEFINE O == Setup!Order
           Comes(i) == O[i] \in fs /\ \A j \in 1 .. i - 1 : O[j] \notin fs
<1>1. /\ DOMAIN O = 1 .. 4
      /\ O[1] = "modules" /\ O[2] = "index.js" /\ O[3] = "package.json" /\ O[4] = "owner"
  BY DEF Setup!Order
<1>2. Every = {"modules", "index.js", "package.json", "owner"}
  BY EveryFile
<1>3. \E i \in DOMAIN O : Comes(i)
  <2>1. CASE O[1] \in fs
    BY <2>1, <1>1
  <2>2. CASE O[1] \notin fs /\ O[2] \in fs
    <3>1. \A j \in 1 .. 2 - 1 : j = 1
      OBVIOUS
    <3> QED
      BY <2>2, <3>1, <1>1
  <2>3. CASE O[1] \notin fs /\ O[2] \notin fs /\ O[3] \in fs
    <3>1. \A j \in 1 .. 3 - 1 : j = 1 \/ j = 2
      OBVIOUS
    <3> QED
      BY <2>3, <3>1, <1>1
  <2>4. CASE O[1] \notin fs /\ O[2] \notin fs /\ O[3] \notin fs
    <3>1. \A j \in 1 .. 4 - 1 : j = 1 \/ j = 2 \/ j = 3
      OBVIOUS
    <3>2. O[4] \in fs
      BY <2>4, <1>1, <1>2
    <3> QED
      BY <2>4, <3>1, <3>2, <1>1
  <2> QED
    BY <2>1, <2>2, <2>3, <2>4
<1> DEFINE i == CHOOSE n \in DOMAIN O : Comes(n)
<1>4. i \in DOMAIN O /\ Comes(i)
  BY <1>3
<1>5. Setup!FirstOf(fs) = O[i]
  BY DEF Setup!FirstOf
<1> HIDE DEF i
<1>6. O[i] = "owner" => fs = {"owner"}
  <2> SUFFICES ASSUME O[i] = "owner" PROVE fs = {"owner"}
    OBVIOUS
  <2>1. i = 4
    BY <1>1, <1>4
  <2>2. O[1] \notin fs /\ O[2] \notin fs /\ O[3] \notin fs
    <3>1. 1 \in 1 .. i - 1 /\ 2 \in 1 .. i - 1 /\ 3 \in 1 .. i - 1
      BY <2>1
    <3> QED
      BY <3>1, <1>4
  <2> QED
    BY <2>2, <1>1, <1>2
<1> QED
  BY <1>4, <1>5, <1>6

----------------------------------------------------------------------------
(* Steps of tasks without the lock, and of those with it.                  *)

ContentType == Setup!Content \in Trees

LEMMA ContentTyped == ASSUME SetupTypes PROVE ContentType
<1>1. Setup!Empty \in [Every -> {None}]
  BY DEF Setup!Empty, Every
<1>2. Setup!Empty \in Trees
  <2>1. "owner" \in Every /\ None # Setup!Edited
    BY EveryFile, SetupConstants DEF Setup!SetupAssumption, Setup!Edited
  <2> QED
    BY <1>1, <2>1 DEF Trees, Held
<1> QED
  BY <1>2 DEF ContentType, SetupTypes, Setup!Content

\* A directory is not None.
LEMMA TreeIsSome == ASSUME NEW tree \in Trees PROVE tree # None
<1>1. tree \in [{"modules", "index.js", "package.json", "owner"} -> {None} \cup Nat]
  BY EveryFile, SetupConstants DEF Trees, Held, Setup!SetupAssumption, Setup!Edited
<1> QED
  BY <1>1, SetupConstants DEF Setup!SetupAssumption

\* A task without the lock comes, goes, or stays without it.
LEMMA OutsideKept ==
    ASSUME IsAlone, NEW p \in Services, NEW t, IsService(t), t.pc \notin Setup!Locked,
           service' = [service EXCEPT ![p] = t], UNCHANGED <<addon, config, last, kept, edits>>
    PROVE  IsAlone'
<1>1. SetupTypes'
  BY DEF IsAlone, SetupTypes
<1>2. Setup!Holders' \subseteq Setup!Holders /\ p \notin Setup!Holders'
  BY DEF IsAlone, SetupTypes, Setup!Holders
<1>3. Setup!Content' = Setup!Content
  BY DEF Setup!Content
<1>4. \A q \in Setup!Holders' : IsUnderway(service[q])'
  <2> SUFFICES ASSUME NEW q \in Setup!Holders' PROVE IsUnderway(service[q])'
    OBVIOUS
  <2>1. q \in Services /\ q # p
    BY <1>2 DEF Setup!Holders
  <2>2. service'[q] = service[q]
    BY <2>1 DEF IsAlone, SetupTypes
  <2>3. IsUnderway(service[q])
    BY <1>2 DEF IsAlone
  <2> QED
    BY <2>2, <2>3, <1>3 DEF IsUnderway, IsBase, IsReplacing, IsRestoring, IsEnding
<1>5. OneHolder'
  BY <1>2 DEF OneHolder, IsAlone
<1>6. Whole' /\ Finishable' /\ Keeps'
  BY <1>3 DEF IsAlone, Whole, Finishable, Keeps
<1> QED
  BY <1>1, <1>4, <1>5, <1>6 DEF IsAlone

\* The one task with the lock goes on, or leaves it.
LEMMA InsideKept ==
    ASSUME IsAlone, NEW p \in Setup!Holders, NEW t, IsService(t), service' = [service EXCEPT ![p] = t],
           addon' \in {None} \cup Trees, config' \in Configs,
           kept' \in [files : SUBSET Setup!File, notes : Int], edits' \in Nat,
           t.pc \in Setup!Locked => IsUnderway(service[p])', Whole', Finishable', Keeps'
    PROVE  IsAlone'
<1>1. p \in Services
  BY DEF Setup!Holders
<1>2. SetupTypes'
  BY <1>1 DEF IsAlone, SetupTypes
<1>3. \A q \in Setup!Holders' : q = p /\ t.pc \in Setup!Locked
  <2> SUFFICES ASSUME NEW q \in Setup!Holders' PROVE q = p /\ t.pc \in Setup!Locked
    OBVIOUS
  <2>1. q \in Services /\ service'[q].pc \in Setup!Locked
    BY DEF Setup!Holders
  <2>2. q = p
    <3>1. q # p => service'[q] = service[q]
      BY <1>1, <2>1 DEF IsAlone, SetupTypes
    <3>2. q # p => q \in Setup!Holders
      BY <2>1, <3>1 DEF Setup!Holders
    <3> QED
      BY <3>2 DEF IsAlone, OneHolder
  <2> QED
    BY <1>1, <2>1, <2>2 DEF IsAlone, SetupTypes
<1>4. \A q \in Setup!Holders' : IsUnderway(service[q])'
  BY <1>3
<1>5. OneHolder'
  BY <1>3 DEF OneHolder
<1> QED
  BY <1>2, <1>4, <1>5 DEF IsAlone

----------------------------------------------------------------------------
\* What a service starts with is a task, and a task with other values is one.
LEMMA NewIsTask == IsTask(Setup!newService)
BY DEF IsTask, TaskFields, Setup!newService

LEMMA NewIsFree ==
    /\ Setup!newService.state = "off" /\ Setup!newService.pc = "none"
    /\ Setup!newService.replaced = {} /\ Setup!newService.created = FALSE
BY DEF Setup!newService

LEMMA StepIsTask ==
    ASSUME NEW s, IsTask(s), NEW pc, NEW t, t = [s EXCEPT !.pc = pc]
    PROVE  IsTask(t) /\ t.pc = pc /\ \A field \in TaskFields \ {"pc"} : t[field] = s[field]
BY DEF IsTask, TaskFields

\* Giving up is leaving.
LEMMA GivingUpKept ==
    ASSUME IsAlone, NEW p \in Services, service[p].pc # "none", Setup!GiveUp(p),
           UNCHANGED <<addon, config, last, kept, edits>>
    PROVE  IsAlone'
<1> DEFINE t == [Setup!newService EXCEPT !.state = "up", !.version = service[p].version]
<1>1. IsTask(t) /\ t.pc = "none" /\ t.version = service[p].version
  BY NewIsTask, NewIsFree DEF IsTask, TaskFields
<1>2. service[p].version \in Versions
  BY DEF IsAlone, SetupTypes, IsService
<1>3. t.pc \notin Setup!Locked /\ IsService(t)
  BY <1>1, <1>2 DEF IsService, Setup!Locked
<1>4. service' = [service EXCEPT ![p] = t]
  BY DEF Setup!GiveUp
<1> HIDE DEF t
<1> QED
  BY <1>3, <1>4, OutsideKept

\* So is going on with nothing changed but the step that is next, where no lock is held.
LEMMA TurningKept ==
    ASSUME IsAlone, NEW p \in Services, service[p].pc # "none", NEW pc \in {"lock", "recheck", "unlink"},
           service[p].pc \in {"lock", "recheck", "unlink"},
           NEW t, IsTask(t), t.pc = pc,
           \A field \in TaskFields \ {"pc", "seen", "attempt"} : t[field] = service[p][field],
           service' = [service EXCEPT ![p] = t],
           UNCHANGED <<addon, config, last, kept, edits>>
    PROVE  IsAlone'
<1>1. IsService(service[p])
  BY DEF IsAlone, SetupTypes
<1>2. t.state = service[p].state /\ t.version = service[p].version /\ t.kind = service[p].kind
      /\ t.info = service[p].info /\ t.replaced = service[p].replaced /\ t.created = service[p].created
  BY DEF TaskFields
<1>3. t.pc \notin Setup!Locked /\ IsService(t)
  BY <1>1, <1>2 DEF IsService, Setup!Locked
<1> QED
  BY <1>3, OutsideKept

LEMMA BeginKept ==
    ASSUME IsAlone, NEW p \in Services, NEW kind, Setup!Begin(p, kind)
    PROVE  IsAlone'
<1> DEFINE t == [Setup!newService EXCEPT !.state = "up", !.version = service[p].version, !.pc = "lock",
                     !.kind = kind, !.info = [files |-> Setup!Content, config |-> config]]
<1>1. Setup!Content \in Trees /\ config \in Configs /\ service[p].version \in Versions
  BY ContentTyped DEF IsAlone, SetupTypes, IsService, ContentType, Setup!Begin
<1>2. IsTask(t) /\ t.pc = "lock" /\ t.kind = kind /\ t.version = service[p].version /\ t.state = "up"
      /\ t.replaced = {} /\ t.created = FALSE /\ t.info = [files |-> Setup!Content, config |-> config]
  BY NewIsTask, NewIsFree DEF IsTask, TaskFields
<1>3. t.info.files = Setup!Content /\ t.info.config = config
      /\ t.info = [files |-> t.info.files, config |-> t.info.config]
  BY <1>2
<1>4. service' = [service EXCEPT ![p] = t] /\ UNCHANGED <<addon, config, last, kept, edits>>
  BY DEF Setup!Begin
<1>5. t.kind # "disable" => Setup!Prepared(t.info.files, t.version)
  BY <1>2, <1>3 DEF Setup!Begin
<1> HIDE DEF t
<1>6. IsService(t) /\ t.pc \notin Setup!Locked
  BY <1>1, <1>2, <1>3, <1>5 DEF IsService, Setup!Locked
<1> QED
  BY <1>4, <1>6, OutsideKept

\* Who takes the lock while nobody has it has done nothing yet.
LEMMA LockKept ==
    ASSUME IsAlone, NEW p \in Services, Setup!SetupLock(p), ~ raced'
    PROVE  IsAlone'
<1>1. CASE lock = None
  <2> DEFINE t == [service[p] EXCEPT !.pc = "check"]
  <2>1. service' = [service EXCEPT ![p] = t] /\ Setup!Holders = {} /\ service[p].pc = "lock"
        /\ UNCHANGED <<addon, config, last, kept, edits>>
    BY <1>1 DEF Setup!SetupLock, Setup!To, IsAlone, SetupTypes
  <2>2. IsService(service[p])
    BY DEF IsAlone, SetupTypes
  <2>3. IsTask(t) /\ t.pc = "check" /\ t.state = service[p].state /\ t.version = service[p].version
        /\ t.kind = service[p].kind /\ t.info = service[p].info
        /\ t.replaced = service[p].replaced /\ t.created = service[p].created
    BY <2>2 DEF IsService, IsTask, TaskFields
  <2>10. IsService(t) /\ t.pc = "check" /\ t.replaced = {} /\ t.created = FALSE
    BY <2>1, <2>2, <2>3 DEF IsService
  <2> HIDE DEF t
  <2>4. SetupTypes'
    BY <2>1, <2>10 DEF IsAlone, SetupTypes
  <2>5. service'[p] = t /\ \A q \in Services : q # p => service'[q] = service[q]
    BY <2>1 DEF IsAlone, SetupTypes
  <2>6. \A q \in Setup!Holders' : q = p
    BY <2>1, <2>5 DEF Setup!Holders
  <2>7. IsUnderway(service[p])'
    BY <2>10, <2>5 DEF IsUnderway, IsBase, IsReplacing, IsRestoring, IsEnding
  <2>8. Setup!Content' = Setup!Content
    BY <2>1 DEF Setup!Content
  <2>9. Whole' /\ Finishable' /\ Keeps'
    BY <2>1, <2>8 DEF IsAlone, Whole, Finishable, Keeps
  <2> QED
    BY <2>4, <2>6, <2>7, <2>9 DEF IsAlone, OneHolder
<1>2. CASE lock # None /\ service[lock].state = "up"
  BY <1>2, GivingUpKept DEF Setup!SetupLock
<1>3. CASE lock # None /\ service[lock].state # "up"
  <2> DEFINE t == [service[p] EXCEPT !.pc = "recheck", !.seen = lock]
  <2>1. IsService(service[p])
    BY DEF IsAlone, SetupTypes
  <2>2. IsTask(t) /\ t.pc = "recheck" /\ \A field \in TaskFields \ {"pc", "seen", "attempt"} : t[field] = service[p][field]
    <3>1. IsTask(service[p])
      BY <2>1 DEF IsService
    <3>2. IsTask(t)
      BY <3>1 DEF IsTask, TaskFields
    <3>3. \A field \in TaskFields \ {"pc", "seen", "attempt"} : t[field] = service[p][field]
      BY <3>1 DEF IsTask, TaskFields
    <3>4. t.pc = "recheck"
      BY <3>1 DEF IsTask, TaskFields
    <3> HIDE DEF t
    <3> QED
      BY <3>2, <3>3, <3>4
  <2>3. service' = [service EXCEPT ![p] = t] /\ service[p].pc = "lock"
        /\ UNCHANGED <<addon, config, last, kept, edits>>
    BY <1>3, <2>1 DEF Setup!SetupLock, Setup!To, IsService, IsTask, TaskFields, IsAlone, SetupTypes
  <2> HIDE DEF t
  <2> QED
    BY <2>2, <2>3, TurningKept
<1> QED
  BY <1>1, <1>2, <1>3

LEMMA RecheckKept ==
    ASSUME IsAlone, NEW p \in Services, Setup!Recheck(p)
    PROVE  IsAlone'
<1>1. service[p].pc = "recheck" /\ UNCHANGED <<addon, config, last, kept, edits>>
  BY DEF Setup!Recheck
<1>2. CASE lock = service[p].seen
  <2> DEFINE t == [service[p] EXCEPT !.pc = "unlink"]
  <2>1. IsService(service[p])
    BY DEF IsAlone, SetupTypes
  <2>2. IsTask(t) /\ t.pc = "unlink" /\ \A field \in TaskFields \ {"pc", "seen", "attempt"} : t[field] = service[p][field]
    BY <2>1, StepIsTask DEF IsService
  <2>3. service' = [service EXCEPT ![p] = t] /\ service[p].pc = "recheck"
        /\ UNCHANGED <<addon, config, last, kept, edits>>
    BY <1>2, <2>1 DEF Setup!Recheck, Setup!To, IsService, IsTask, TaskFields, IsAlone, SetupTypes
  <2> HIDE DEF t
  <2> QED
    BY <2>2, <2>3, TurningKept
<1> QED
  BY <1>1, <1>2, GivingUpKept DEF Setup!Recheck

LEMMA UnlinkKept ==
    ASSUME IsAlone, NEW p \in Services, Setup!Unlink(p)
    PROVE  IsAlone'
<1>1. service[p].pc = "unlink" /\ UNCHANGED <<addon, config, last, kept, edits>>
  BY DEF Setup!Unlink
<1>2. CASE ~ (lock = None \/ service[p].attempt = 2)
  <2> DEFINE t == [service[p] EXCEPT !.pc = "lock", !.attempt = 2]
  <2>1. IsService(service[p])
    BY DEF IsAlone, SetupTypes
  <2>2. IsTask(t) /\ t.pc = "lock" /\ \A field \in TaskFields \ {"pc", "seen", "attempt"} : t[field] = service[p][field]
    <3>1. IsTask(service[p])
      BY <2>1 DEF IsService
    <3>2. IsTask(t)
      BY <3>1 DEF IsTask, TaskFields
    <3>3. \A field \in TaskFields \ {"pc", "seen", "attempt"} : t[field] = service[p][field]
      BY <3>1 DEF IsTask, TaskFields
    <3>4. t.pc = "lock"
      BY <3>1 DEF IsTask, TaskFields
    <3> HIDE DEF t
    <3> QED
      BY <3>2, <3>3, <3>4
  <2>3. service' = [service EXCEPT ![p] = t] /\ service[p].pc = "unlink"
        /\ UNCHANGED <<addon, config, last, kept, edits>>
    BY <1>2, <2>1 DEF Setup!Unlink, Setup!To, IsService, IsTask, TaskFields, IsAlone, SetupTypes
  <2> HIDE DEF t
  <2> QED
    BY <2>2, <2>3, TurningKept
<1> QED
  BY <1>1, <1>2, GivingUpKept DEF Setup!Unlink

LEMMA UnlockKept ==
    ASSUME IsAlone, NEW p \in Services, Setup!Unlock(p)
    PROVE  IsAlone'
BY GivingUpKept DEF Setup!Unlock

LEMMA CrashKept ==
    ASSUME IsAlone, NEW p \in Services, Setup!Crash(p)
    PROVE  IsAlone'
<1> DEFINE t == [Setup!newService EXCEPT !.state = "dead"]
<1>0. IsTask(t) /\ t.state = "dead" /\ t.pc = "none"
  BY NewIsTask, NewIsFree DEF IsTask, TaskFields
<1>1. t.pc \notin Setup!Locked /\ IsService(t)
  BY <1>0 DEF IsService, Setup!Locked
<1>2. service' = [service EXCEPT ![p] = t] /\ UNCHANGED <<addon, config, last, kept, edits>>
  BY DEF Setup!Crash
<1> HIDE DEF t
<1> QED
  BY <1>1, <1>2, OutsideKept

LEMMA LaunchKept ==
    ASSUME IsAlone, NEW p \in Services, NEW v \in Versions, Setup!Launch(p, v)
    PROVE  IsAlone'
<1> DEFINE t == [service[p] EXCEPT !.state = "up", !.version = v]
<1>1. IsService(service[p])
  BY DEF IsAlone, SetupTypes
<1>2. service[p].pc = "none"
  BY <1>1 DEF IsService, Setup!Launch
<1>3. IsTask(t) /\ t.pc = "none" /\ t.version = v
  BY <1>1, <1>2 DEF IsService, IsTask, TaskFields
<1>4. service' = [service EXCEPT ![p] = t] /\ UNCHANGED <<addon, config, last, kept, edits>>
  BY <1>1 DEF Setup!Launch, IsService, IsTask, TaskFields, IsAlone, SetupTypes
<1> HIDE DEF t
<1>5. t.pc \notin Setup!Locked /\ IsService(t)
  BY <1>3 DEF IsService, Setup!Locked
<1> QED
  BY <1>4, <1>5, OutsideKept

----------------------------------------------------------------------------
\* What holds of a task that has the lock.
LEMMA HolderIs ==
    ASSUME IsAlone, NEW p \in Services, service[p].pc \in Setup!Locked
    PROVE  /\ p \in Setup!Holders /\ IsTask(service[p]) /\ IsService(service[p]) /\ IsUnderway(service[p])
           /\ service[p].version \in Versions /\ service[p].info.files \in Trees
           /\ service[p].info.config \in Configs
           /\ service[p].kind # "disable" => Setup!Prepared(service[p].info.files, service[p].version)
<1>1. p \in Setup!Holders /\ IsService(service[p])
  BY DEF IsAlone, SetupTypes, Setup!Holders
<1> QED
  BY <1>1 DEF IsAlone, IsService, Setup!Locked

\* A task that only changes in these is still one.
SameTask(t, s) ==
    /\ IsTask(t) /\ t.state = s.state /\ t.version = s.version /\ t.kind = s.kind /\ t.info = s.info

LEMMA SameIsService ==
    ASSUME NEW s, IsService(s), s.pc \in Setup!Locked, NEW t, SameTask(t, s), t.pc \in Setup!Locked
    PROVE  IsService(t)
BY DEF IsService, SameTask, Setup!Locked

\* A step of the task with the lock that changes nothing else.
LEMMA QuietKept ==
    ASSUME IsAlone, NEW p \in Services, service[p].pc \in Setup!Locked,
           NEW t, SameTask(t, service[p]), t.pc \in Setup!Locked, service' = [service EXCEPT ![p] = t],
           UNCHANGED <<addon, config, last, kept, edits>>, IsUnderway(t)
    PROVE  IsAlone'
<1>1. p \in Setup!Holders /\ IsService(t)
  BY HolderIs, SameIsService
<1>2. Setup!Content' = Setup!Content
  BY DEF Setup!Content
<1>3. service'[p] = t
  BY DEF IsAlone, SetupTypes
<1>4. t.pc \in Setup!Locked => IsUnderway(service[p])'
  BY <1>2, <1>3 DEF IsUnderway, IsBase, IsReplacing, IsRestoring, IsEnding
<1>5. Whole' /\ Finishable' /\ Keeps'
  BY <1>2 DEF IsAlone, Whole, Finishable, Keeps
<1>6. addon' \in {None} \cup Trees /\ config' \in Configs /\ edits' \in Nat
      /\ kept' \in [files : SUBSET Setup!File, notes : Int]
  BY DEF IsAlone, SetupTypes
<1> QED
  BY <1>1, <1>4, <1>5, <1>6, InsideKept

\* A step that failed is rolled back, where anything was done.
LEMMA FailedIs ==
    ASSUME NEW s, IsTask(s)
    PROVE  LET t == Setup!Failed(s)
           IN  /\ SameTask(t, s) /\ t.todo = s.replaced /\ t.replaced = s.replaced /\ t.created = s.created
               /\ t.pc = IF s.replaced # {} \/ s.created THEN "restore" ELSE "unlock"
<1> DEFINE pc == IF s.replaced # {} \/ s.created THEN "restore" ELSE "unlock"
           t == [s EXCEPT !.pc = pc, !.todo = s.replaced]
<1>1. t = Setup!Failed(s)
  BY DEF Setup!Failed
<1>2. pc = IF s.replaced # {} \/ s.created THEN "restore" ELSE "unlock"
  OBVIOUS
<1> HIDE DEF pc
<1>3. IsTask(t)
  BY DEF IsTask, TaskFields
<1>4. t.pc = pc
  BY DEF IsTask, TaskFields
<1>5. t.todo = s.replaced /\ t.replaced = s.replaced /\ t.created = s.created
  BY DEF IsTask, TaskFields
<1>6. t.state = s.state /\ t.version = s.version /\ t.kind = s.kind /\ t.info = s.info
  BY DEF IsTask, TaskFields
<1> HIDE DEF t
<1>7. SameTask(t, s)
  BY <1>3, <1>6 DEF SameTask
<1> QED
  BY <1>1, <1>2, <1>4, <1>5, <1>7

LEMMA FailingKept ==
    ASSUME IsAlone, NEW p \in Services, service[p].pc \in {"check", "mkdir", "replace", "commit", "rename"},
           service' = [service EXCEPT ![p] = Setup!Failed(service[p])],
           UNCHANGED <<addon, config, last, kept, edits>>
    PROVE  IsAlone'
<1> DEFINE s == service[p]
           t == Setup!Failed(s)
<1>1. s.pc \in Setup!Locked
  BY DEF Setup!Locked
<1>2. IsTask(s) /\ IsUnderway(s)
  BY <1>1, HolderIs
<1>3. /\ SameTask(t, s) /\ t.todo = s.replaced /\ t.replaced = s.replaced /\ t.created = s.created
      /\ t.pc = IF s.replaced # {} \/ s.created THEN "restore" ELSE "unlock"
  BY <1>2, FailedIs
<1> HIDE DEF t
<1>4. t.pc \in Setup!Locked
  BY <1>3 DEF Setup!Locked
<1>5. CASE t.pc = "unlock"
  <2>1. IsUnderway(t)
    BY <1>5 DEF IsUnderway, IsBase, IsReplacing, IsRestoring, IsEnding
  <2> QED
    BY <1>1, <1>3, <1>4, <2>1, QuietKept DEF t
<1>6. CASE t.pc = "restore"
  <2>1. s.replaced # {} \/ s.created
    BY <1>3, <1>6
  <2>2. s.pc \in {"mkdir", "replace", "commit", "rename"} /\ s.kind # "disable"
    BY <1>2, <2>1 DEF IsUnderway, IsEnding, IsBase
  <2>3. t.info = s.info /\ t.kind = s.kind /\ t.version = s.version
    BY <1>3 DEF SameTask
  <2>4. IsBase(t)
    BY <1>2, <1>3, <1>6, <2>2, <2>3 DEF IsUnderway, IsBase
  <2>5. IsRestoring(t)
    BY <1>2, <1>3, <1>6, <2>2, <2>3 DEF IsUnderway, IsReplacing, IsRestoring
  <2>6. IsReplacing(t) /\ IsEnding(t)
    BY <1>6 DEF IsReplacing, IsEnding
  <2> QED
    BY <1>1, <1>3, <1>4, <2>4, <2>5, <2>6, QuietKept DEF t, IsUnderway
<1> QED
  BY <1>3, <1>5, <1>6

LEMMA StepFailsKept ==
    ASSUME IsAlone, NEW p \in Services, Setup!StepFails(p)
    PROVE  IsAlone'
<1> DEFINE s == service[p]
<1>1. s.pc \in Setup!Locked \ {"unlock"} /\ UNCHANGED <<addon, config, last, kept, edits>>
  BY DEF Setup!StepFails
<1>2. CASE s.pc \in {"remove", "restore"}
  <2> DEFINE t == [s EXCEPT !.pc = "unlock"]
  <2>1. IsTask(s)
    BY <1>1, HolderIs
  <2>2. IsTask(t) /\ t.pc = "unlock" /\ SameTask(t, s)
    <3>1. IsTask(t)
      BY <2>1, StepIsTask
    <3>2. t.pc = "unlock"
      BY <2>1 DEF IsTask, TaskFields
    <3>3. t.state = s.state /\ t.version = s.version /\ t.kind = s.kind /\ t.info = s.info
      BY <2>1 DEF IsTask, TaskFields
    <3> HIDE DEF t
    <3> QED
      BY <3>1, <3>2, <3>3 DEF SameTask
  <2>3. service' = [service EXCEPT ![p] = t]
    BY <1>2 DEF Setup!StepFails
  <2> HIDE DEF t
  <2>4. IsUnderway(t) /\ t.pc \in Setup!Locked
    BY <2>2 DEF IsUnderway, IsBase, IsReplacing, IsRestoring, IsEnding, Setup!Locked
  <2> QED
    BY <1>1, <2>2, <2>3, <2>4, QuietKept
<1>3. CASE s.pc \notin {"remove", "restore"}
  <2>1. service' = [service EXCEPT ![p] = Setup!Failed(s)]
    BY <1>3 DEF Setup!StepFails
  <2>2. s.pc \in {"check", "mkdir", "replace", "commit", "rename"}
    BY <1>1, <1>3 DEF Setup!Locked
  <2> QED
    BY <1>1, <2>1, <2>2, FailingKept
<1> QED
  BY <1>2, <1>3

\* What was found is what is there: the files that hold something else are still to
\* be replaced, and, managed, none of them is the user's.
LEMMA CheckKept ==
    ASSUME IsAlone, NEW p \in Services, Setup!Check(p)
    PROVE  IsAlone'
<1> DEFINE s == service[p]
           changed == {f \in Setup!Range(Setup!Order) : s.info.files[f] # s.version}
<1>1. s.pc = "check" /\ s.pc \in Setup!Locked /\ UNCHANGED <<addon, config, last, kept, edits>>
  BY DEF Setup!Check, Setup!Locked
<1>2. /\ IsTask(s) /\ s.version \in Versions /\ s.info.files \in Trees /\ s.replaced = {} /\ s.created = FALSE
      /\ s.kind # "disable" => Setup!Prepared(s.info.files, s.version)
  BY <1>1, HolderIs DEF IsUnderway, IsEnding
<1>3. CASE config # s.info.config \/ Setup!Content # s.info.files
  <2>1. service' = [service EXCEPT ![p] = Setup!Failed(s)]
    BY <1>3 DEF Setup!Check
  <2> QED
    BY <1>1, <2>1, FailingKept
<1>4. CASE config = s.info.config /\ Setup!Content = s.info.files
  <2>1. Whole /\ \A f \in kept.files : Setup!Content[f] = Setup!Edited
    BY DEF IsAlone, Keeps
  <2>2. kept.files \in SUBSET Setup!File
    BY DEF IsAlone, SetupTypes
  <2>3. CASE s.kind = "disable"
    <3> DEFINE t == [s EXCEPT !.pc = "commit"]
    <3>1. IsTask(t)
      BY <1>2, StepIsTask
    <3>2. t.pc = "commit"
      BY <1>2 DEF IsTask, TaskFields
    <3>3. /\ t.state = s.state /\ t.version = s.version /\ t.kind = s.kind /\ t.info = s.info
          /\ t.replaced = s.replaced /\ t.created = s.created
      BY <1>2 DEF IsTask, TaskFields
    <3>4. service' = [service EXCEPT ![p] = t]
      BY <1>4, <2>3 DEF Setup!Check
    <3> HIDE DEF t
    <3>5. IsUnderway(t) /\ t.pc \in Setup!Locked
      BY <1>2, <1>4, <2>1, <2>3, <3>2, <3>3
         DEF IsUnderway, IsBase, IsReplacing, IsRestoring, IsEnding, Setup!Locked, Whole
    <3> QED
      BY <1>1, <3>1, <3>3, <3>4, <3>5, QuietKept DEF SameTask
  <2>4. CASE s.kind # "disable"
    <3> DEFINE t == [s EXCEPT !.pc = "mkdir", !.todo = changed]
    <3>0. changed = {f \in Every : s.info.files[f] # s.version}
      BY DEF Every
    <3>4. service' = [service EXCEPT ![p] = t]
      BY <1>4, <2>4 DEF Setup!Check
    <3> HIDE DEF changed
    <3>1. IsTask(t)
      BY <1>2 DEF IsTask, TaskFields
    <3>2. t.pc = "mkdir"
      BY <1>2 DEF IsTask, TaskFields
    <3>3. t.todo = changed
      BY <1>2 DEF IsTask, TaskFields
    <3>5. /\ t.state = s.state /\ t.version = s.version /\ t.kind = s.kind /\ t.info = s.info
          /\ t.replaced = s.replaced /\ t.created = s.created
      BY <1>2 DEF IsTask, TaskFields
    <3> HIDE DEF t
    <3>6. Setup!Managed(s.info.files) => kept.files = {}
      <4> SUFFICES ASSUME Setup!Managed(s.info.files), NEW f \in kept.files PROVE FALSE
        OBVIOUS
      <4>1. s.info.files[f] = Setup!Edited /\ f \in Setup!File
        BY <1>4, <2>1, <2>2
      <4>2. s.info.files[f] \in {None, s.info.files["owner"], s.version}
        BY <1>2, <2>4, <4>1 DEF Setup!Prepared
      <4>3. Setup!Edited \notin {None, s.info.files["owner"], s.version}
        BY <1>2, SetupConstants DEF Trees, Setup!SetupAssumption, Setup!Edited
      <4> QED
        BY <4>1, <4>2, <4>3
    <3>7. IsBase(t)
      BY <1>2, <1>4, <2>1, <2>4, <3>2, <3>5, <3>6 DEF IsBase, Whole
    <3>8. IsReplacing(t)
      <4>1. None \notin Versions
        BY SetupConstants DEF Setup!SetupAssumption
      <4> QED
        BY <1>2, <1>4, <3>0, <3>2, <3>3, <3>5, <4>1 DEF IsReplacing
    <3>9. IsUnderway(t) /\ t.pc \in Setup!Locked
      BY <3>2, <3>7, <3>8 DEF IsUnderway, IsRestoring, IsEnding, Setup!Locked
    <3> QED
      BY <1>1, <3>1, <3>4, <3>5, <3>9, QuietKept DEF SameTask
  <2> QED
    BY <2>3, <2>4
<1> QED
  BY <1>3, <1>4

LEMMA CommitKept ==
    ASSUME IsAlone, NEW p \in Services, Setup!Commit(p)
    PROVE  IsAlone'
<1> DEFINE s == service[p]
<1>1. s.pc = "commit" /\ s.pc \in Setup!Locked /\ UNCHANGED <<addon, config, last, kept, edits>>
  BY DEF Setup!Commit, Setup!Locked
<1>2. CASE ~ Setup!IsUnchanged(s)
  BY <1>1, <1>2, FailingKept DEF Setup!Commit
<1>3. CASE Setup!IsUnchanged(s)
  <2> DEFINE t == [s EXCEPT !.pc = "rename"]
  <2>1. IsTask(s) /\ IsUnderway(s)
    BY <1>1, HolderIs
  <2>2. IsTask(t)
    BY <2>1, StepIsTask
  <2>3. t.pc = "rename"
    BY <2>1 DEF IsTask, TaskFields
  <2>4. /\ t.state = s.state /\ t.version = s.version /\ t.kind = s.kind /\ t.info = s.info
        /\ t.todo = s.todo /\ t.replaced = s.replaced /\ t.created = s.created
    BY <2>1 DEF IsTask, TaskFields
  <2>5. service' = [service EXCEPT ![p] = t]
    BY <1>3 DEF Setup!Commit
  <2> HIDE DEF t
  <2>6. IsBase(t)
    BY <1>1, <2>1, <2>3, <2>4 DEF IsUnderway, IsBase
  <2>7. IsReplacing(t)
    BY <1>1, <2>1, <2>3, <2>4 DEF IsUnderway, IsReplacing
  <2>8. kept.notes <= s.info.config.notes
    BY <1>3 DEF IsAlone, Keeps, Setup!IsUnchanged
  <2>9. IsUnderway(t) /\ t.pc \in Setup!Locked
    BY <2>3, <2>4, <2>6, <2>7, <2>8 DEF IsUnderway, IsRestoring, IsEnding, Setup!Locked
  <2> QED
    BY <1>1, <2>2, <2>4, <2>5, <2>9, QuietKept DEF SameTask
<1> QED
  BY <1>2, <1>3

\* What nothing holds and nobody has made is made.
LEMMA MkdirKept ==
    ASSUME IsAlone, NEW p \in Services, Setup!Mkdir(p)
    PROVE  IsAlone'
<1> DEFINE s == service[p]
           made == addon = None
           t == [s EXCEPT !.pc = "replace", !.created = made]
<1>1. /\ s.pc = "mkdir" /\ s.pc \in Setup!Locked /\ addon' = Setup!Content
      /\ service' = [service EXCEPT ![p].pc = "replace", ![p].created = (addon = None)]
      /\ UNCHANGED <<config, last, kept, edits>>
  BY DEF Setup!Mkdir, Setup!Locked
<1>2. p \in Setup!Holders /\ IsTask(s) /\ IsService(s) /\ IsUnderway(s) /\ s.info.files \in Trees
  BY <1>1, HolderIs
<1>3. made \in BOOLEAN /\ (made <=> addon = None)
  OBVIOUS
<1>4. service' = [service EXCEPT ![p] = t]
  BY <1>1, <1>2 DEF IsAlone, SetupTypes
<1> HIDE DEF made
<1>5. IsTask(t)
  BY <1>2 DEF IsTask, TaskFields
<1>6. t.pc = "replace"
  BY <1>2 DEF IsTask, TaskFields
<1>7. t.created = made
  BY <1>2 DEF IsTask, TaskFields
<1>8. t.state = s.state /\ t.version = s.version /\ t.kind = s.kind /\ t.info = s.info
      /\ t.todo = s.todo /\ t.replaced = s.replaced
  BY <1>2 DEF IsTask, TaskFields
<1> HIDE DEF t
<1>9. IsService(t) /\ t.pc \in Setup!Locked
  BY <1>1, <1>2, <1>5, <1>6, <1>8, SameIsService DEF SameTask, Setup!Locked
<1>10. Setup!Content \in Trees
  BY ContentTyped DEF ContentType, IsAlone
<1>11. Setup!Content' = Setup!Content
  BY <1>1 DEF Setup!Content
<1>12. service'[p] = t
  BY <1>4 DEF IsAlone, SetupTypes
<1>13. made => Setup!Content = Setup!Empty
  BY <1>3 DEF Setup!Content
<1>14. \A f \in Every : Setup!Empty[f] = None
  BY DEF Setup!Empty, Every
<1>15. made => config.entry = None /\ kept.files = {}
  <2> SUFFICES ASSUME made PROVE config.entry = None /\ kept.files = {}
    OBVIOUS
  <2>1. \A f \in Setup!File : Setup!Content[f] = None
    BY <1>13, <1>14, EveryFile
  <2>2. "modules" \in Setup!File /\ None # Setup!Edited
    BY SetupConstants DEF Setup!File, Setup!SetupAssumption, Setup!Edited
  <2>3. config.entry = None
    BY <2>1, <2>2 DEF IsAlone, Whole
  <2>4. \A f \in kept.files : f \in Setup!File /\ Setup!Content[f] = Setup!Edited
    BY DEF IsAlone, Keeps, SetupTypes
  <2> QED
    BY <2>1, <2>2, <2>3, <2>4
<1>16. IsBase(t)
  BY <1>1, <1>2, <1>3, <1>6, <1>7, <1>8, <1>15 DEF IsUnderway, IsBase
<1>17. IsReplacing(t)
  <2>1. s.replaced = {} /\ s.kind # "disable" /\ s.todo \in SUBSET Every
    BY <1>1, <1>2 DEF IsUnderway, IsReplacing, IsBase
  <2>2. edits = 0 /\ made => s.info.files = Setup!Empty
    <3> SUFFICES ASSUME edits = 0, made PROVE s.info.files = Setup!Empty
      OBVIOUS
    <3>1. \A f \in Every : Setup!Content[f] = s.info.files[f]
      BY <1>1, <1>2, <2>1 DEF IsUnderway, IsReplacing
    <3>2. Setup!Content = s.info.files
      BY <3>1, <1>2, <1>10 DEF Trees
    <3> QED
      BY <3>2, <1>13
  <2> QED
    BY <1>1, <1>2, <1>6, <1>7, <1>8, <2>1, <2>2 DEF IsUnderway, IsReplacing
<1>18. IsUnderway(t)
  BY <1>6, <1>16, <1>17 DEF IsUnderway, IsRestoring, IsEnding
<1>19. t.pc \in Setup!Locked => IsUnderway(service[p])'
  BY <1>1, <1>11, <1>12, <1>18 DEF IsUnderway, IsBase, IsReplacing, IsRestoring, IsEnding
<1>20. Whole' /\ Finishable' /\ Keeps'
  BY <1>1, <1>11 DEF IsAlone, Whole, Finishable, Keeps
<1>21. addon' \in {None} \cup Trees /\ config' \in Configs /\ edits' \in Nat
       /\ kept' \in [files : SUBSET Setup!File, notes : Int]
  BY <1>1, <1>10 DEF IsAlone, SetupTypes
<1> QED
  BY <1>2, <1>4, <1>9, <1>19, <1>20, <1>21, InsideKept

LEMMA RenameKept ==
    ASSUME IsAlone, NEW p \in Services, Setup!Rename(p)
    PROVE  IsAlone'
<1> DEFINE s == service[p]
           managed == s.kind = "disable" /\ Setup!Managed(s.info.files)
           all == Setup!Range(Setup!Order)
           t == IF managed THEN [s EXCEPT !.pc = "remove", !.todo = all] ELSE [s EXCEPT !.pc = "unlock"]
<1>1. /\ s.pc = "rename" /\ s.pc \in Setup!Locked
      /\ config' = IF Setup!NewEntry(s) = s.info.config.entry THEN config
                   ELSE [s.info.config EXCEPT !.entry = Setup!NewEntry(s)]
      /\ UNCHANGED <<addon, last, kept, edits>>
  BY DEF Setup!Rename, Setup!Locked
<1>2. service' = [service EXCEPT ![p] = t]
  BY DEF Setup!Rename
<1>3. /\ p \in Setup!Holders /\ IsTask(s) /\ IsService(s) /\ IsUnderway(s) /\ s.version \in Versions
      /\ s.info.config \in Configs
  BY <1>1, HolderIs
<1>4. IsTask(t)
  <2>1. CASE managed
    <3> DEFINE u == [s EXCEPT !.pc = "remove", !.todo = all]
    <3> HIDE DEF all
    <3>1. IsTask(u)
      BY <1>3 DEF IsTask, TaskFields
    <3> HIDE DEF u
    <3> QED
      BY <2>1, <3>1 DEF u
  <2>2. CASE ~ managed
    BY <2>2, <1>3, StepIsTask
  <2> QED
    BY <2>1, <2>2
<1>5. managed => t.pc = "remove"
  <2> SUFFICES ASSUME managed PROVE [s EXCEPT !.pc = "remove", !.todo = all].pc = "remove"
    OBVIOUS
  <2> HIDE DEF all
  <2> QED
    BY <1>3 DEF IsTask, TaskFields
<1>6. ~ managed => t.pc = "unlock"
  <2> SUFFICES ASSUME ~ managed PROVE [s EXCEPT !.pc = "unlock"].pc = "unlock"
    OBVIOUS
  <2> QED
    BY <1>3 DEF IsTask, TaskFields
<1>7. t.state = s.state /\ t.version = s.version /\ t.kind = s.kind /\ t.info = s.info
  <2> HIDE DEF all
  <2>1. CASE managed
    <3> SUFFICES LET u == [s EXCEPT !.pc = "remove", !.todo = all]
                 IN  u.state = s.state /\ u.version = s.version /\ u.kind = s.kind /\ u.info = s.info
      BY <2>1
    <3> QED
      BY <1>3 DEF IsTask, TaskFields
  <2>2. CASE ~ managed
    <3> SUFFICES LET u == [s EXCEPT !.pc = "unlock"]
                 IN  u.state = s.state /\ u.version = s.version /\ u.kind = s.kind /\ u.info = s.info
      BY <2>2
    <3> QED
      BY <1>3 DEF IsTask, TaskFields
  <2> QED
    BY <2>1, <2>2
<1> HIDE DEF t
<1>8. IsService(t) /\ t.pc \in Setup!Locked
  BY <1>1, <1>3, <1>4, <1>5, <1>6, <1>7, SameIsService DEF SameTask, Setup!Locked
<1>9. service'[p] = t /\ Setup!Content' = Setup!Content
  BY <1>1, <1>2 DEF IsAlone, SetupTypes, Setup!Content
<1>10. config.entry = s.info.config.entry /\ kept.notes <= s.info.config.notes /\ kept.notes <= config.notes
  BY <1>1, <1>3 DEF IsUnderway, IsBase, IsEnding, IsAlone, Keeps
<1>11. config' \in Configs /\ config'.entry = Setup!NewEntry(s) /\ kept.notes <= config'.notes
  <2>1. Setup!NewEntry(s) \in {None} \cup Versions
    BY <1>3 DEF Setup!NewEntry
  <2>2. config \in Configs
    BY DEF IsAlone, SetupTypes
  <2> QED
    BY <1>1, <1>3, <1>10, <2>1, <2>2 DEF Configs
<1>12. IsUnderway(service[p])'
  <2>1. managed => config'.entry = None /\ Setup!Managed(s.info.files)
    BY <1>11 DEF Setup!NewEntry
  <2> QED
    BY <1>5, <1>6, <1>7, <1>9, <2>1 DEF IsUnderway, IsBase, IsReplacing, IsRestoring, IsEnding
<1>13. Whole'
  <2>1. CASE s.kind = "disable"
    BY <1>11, <2>1 DEF Whole, Setup!NewEntry
  <2>2. CASE s.kind # "disable"
    <3>1. \A f \in Every : Setup!Content[f] # None
      BY <1>1, <1>3, <2>2 DEF IsUnderway, IsReplacing
    <3> QED
      BY <1>9, <3>1, EveryFile DEF Whole
  <2> QED
    BY <2>1, <2>2
<1>14. Finishable' /\ Keeps'
  BY <1>1, <1>9, <1>11 DEF IsAlone, Finishable, Keeps
<1>15. addon' \in {None} \cup Trees /\ edits' \in Nat /\ kept' \in [files : SUBSET Setup!File, notes : Int]
  BY <1>1 DEF IsAlone, SetupTypes
<1> QED
  BY <1>2, <1>3, <1>8, <1>11, <1>12, <1>13, <1>14, <1>15, InsideKept

\* The next file gets the version that is installed.
LEMMA ReplaceKept ==
    ASSUME IsAlone, NEW p \in Services, Setup!Replace(p)
    PROVE  IsAlone'
<1> DEFINE s == service[p]
           f == Setup!FirstOf(s.todo)
<1>1. s.pc = "replace" /\ s.pc \in Setup!Locked /\ UNCHANGED <<config, edits>>
  BY DEF Setup!Replace, Setup!Locked
<1>2. /\ p \in Setup!Holders /\ IsTask(s) /\ IsService(s) /\ IsUnderway(s) /\ s.version \in Versions
      /\ s.info.files \in Trees
      /\ s.kind # "disable" => Setup!Prepared(s.info.files, s.version)
  BY <1>1, HolderIs
<1>3. s.kind # "disable" /\ s.todo \in SUBSET Every /\ s.todo \cap s.replaced = {} /\ s.replaced \in SUBSET Every
  BY <1>1, <1>2 DEF IsUnderway, IsBase, IsReplacing
<1>4. CASE s.todo = {}
  <2> DEFINE t == [s EXCEPT !.pc = "commit"]
  <2>1. service' = [service EXCEPT ![p] = t] /\ UNCHANGED <<addon, last, kept>>
    BY <1>4 DEF Setup!Replace, Setup!To
  <2>2. IsTask(t)
    BY <1>2, StepIsTask
  <2>3. t.pc = "commit"
    BY <1>2 DEF IsTask, TaskFields
  <2>4. /\ t.state = s.state /\ t.version = s.version /\ t.kind = s.kind /\ t.info = s.info
        /\ t.todo = s.todo /\ t.replaced = s.replaced /\ t.created = s.created
    BY <1>2 DEF IsTask, TaskFields
  <2> HIDE DEF t
  <2>5. IsBase(t)
    BY <1>1, <1>2, <1>3, <2>3, <2>4 DEF IsUnderway, IsBase
  <2>6. IsReplacing(t)
    BY <1>1, <1>2, <1>3, <1>4, <2>3, <2>4 DEF IsUnderway, IsReplacing
  <2>7. IsUnderway(t) /\ t.pc \in Setup!Locked
    BY <2>3, <2>5, <2>6 DEF IsUnderway, IsRestoring, IsEnding, Setup!Locked
  <2> QED
    BY <1>1, <2>1, <2>2, <2>4, <2>7, QuietKept DEF SameTask
<1>5. CASE s.todo # {}
  <2> DEFINE rest == s.todo \ {f}
             done == s.replaced \cup {f}
             t == [s EXCEPT !.todo = rest, !.replaced = done]
  <2>1. f \in s.todo /\ (f = "owner" => s.todo = {"owner"})
    BY <1>3, <1>5, FirstIsOne
  <2>2. /\ addon' = [Setup!Content EXCEPT ![f] = s.version]
        /\ service' = [service EXCEPT ![p].todo = s.todo \ {f}, ![p].replaced = s.replaced \cup {f}]
        /\ last' = s.version
        /\ kept' = IF Setup!Managed(s.info.files) THEN kept ELSE [kept EXCEPT !.files = @ \ {f}]
    BY <1>5, <1>2 DEF Setup!Replace, IsAlone, SetupTypes, IsTask, TaskFields
  <2> HIDE DEF f
  <2>3. service' = [service EXCEPT ![p] = t]
    BY <1>2, <2>2 DEF IsAlone, SetupTypes
  <2>4. rest = s.todo \ {f} /\ done = s.replaced \cup {f}
    OBVIOUS
  <2> HIDE DEF rest, done
  <2>5. IsTask(t)
    BY <1>2 DEF IsTask, TaskFields
  <2>6. t.pc = s.pc
    BY <1>2 DEF IsTask, TaskFields
  <2>7. t.todo = rest
    BY <1>2 DEF IsTask, TaskFields
  <2>8. t.replaced = done
    BY <1>2 DEF IsTask, TaskFields
  <2>9. /\ t.state = s.state /\ t.version = s.version /\ t.kind = s.kind /\ t.info = s.info
        /\ t.created = s.created
    BY <1>2 DEF IsTask, TaskFields
  <2> HIDE DEF t
  <2>10. IsService(t) /\ t.pc \in Setup!Locked
    BY <1>1, <1>2, <2>5, <2>6, <2>9, SameIsService DEF SameTask
  <2>11. service'[p] = t
    BY <2>3 DEF IsAlone, SetupTypes
  <2>12. Setup!Content \in Trees
    BY ContentTyped DEF ContentType, IsAlone
  <2>13. s.version \in Held /\ s.version # Setup!Edited /\ s.version # None /\ None # Setup!Edited
    BY <1>2, SetupConstants DEF Held, Setup!SetupAssumption, Setup!Edited
  <2>14. addon' \in Trees /\ addon'[f] = s.version /\ \A g \in Every : g # f => addon'[g] = Setup!Content[g]
    <3> DEFINE content == Setup!Content
               made == [content EXCEPT ![f] = s.version]
    <3>1. made = [content EXCEPT ![f] = s.version] /\ addon' = made
      BY <2>2
    <3>2. f \in Every /\ content \in Trees /\ s.version \in Held /\ s.version # Setup!Edited
      BY <1>3, <2>1, <2>12, <2>13
    <3> HIDE DEF content, made
    <3>3. made \in Trees /\ made[f] = s.version /\ \A g \in Every : g # f => made[g] = content[g]
      <4>1. content \in [Every -> Held] /\ content["owner"] # Setup!Edited /\ "owner" \in Every
        BY <3>2, EveryFile DEF Trees
      <4>2. made \in [Every -> Held] /\ made[f] = s.version /\ \A g \in Every : g # f => made[g] = content[g]
        BY <3>1, <3>2, <4>1
      <4> QED
        BY <3>2, <4>1, <4>2 DEF Trees
    <3> QED
      BY <3>1, <3>3 DEF content
  <2>15. Setup!Content' = addon'
    BY <2>14, TreeIsSome DEF Setup!Content
  <2>16. kept' \in [files : SUBSET Setup!File, notes : Int] /\ kept'.notes = kept.notes
    BY <2>2 DEF IsAlone, SetupTypes
  <2>17. kept'.files \subseteq kept.files /\ f \notin kept'.files
    <3>1. CASE Setup!Managed(s.info.files)
      BY <1>1, <1>2, <1>3, <2>2, <3>1 DEF IsUnderway, IsBase
    <3>2. CASE ~ Setup!Managed(s.info.files)
      BY <2>2, <3>2 DEF IsAlone, SetupTypes
    <3> QED
      BY <3>1, <3>2
  <2>18. IsBase(service[p])'
    <3>1. IsBase(s)
      BY <1>2 DEF IsUnderway
    <3> QED
      BY <1>1, <1>3, <3>1, <2>1, <2>4, <2>6, <2>8, <2>9, <2>11, <2>17 DEF IsBase
  <2>19. rest \in SUBSET Every /\ rest \cap done = {} /\ (s.pc \in {"commit", "rename", "mkdir"} => FALSE)
    BY <1>1, <1>3, <2>1, <2>4
  <2>20. "owner" \in done => rest = {}
    <3>1. "owner" \in s.replaced => s.todo = {}
      BY <1>1, <1>2, <1>3 DEF IsUnderway, IsReplacing
    <3> QED
      BY <1>5, <2>1, <2>4, <3>1
  <2>21. \A g \in Every : g \in rest \/ addon'[g] # None
    BY <1>1, <1>2, <1>3, <2>4, <2>13, <2>14 DEF IsUnderway, IsReplacing
  <2>22. edits = 0 => \A g \in Every : g \notin rest => addon'[g] = s.version
    BY <1>1, <1>2, <1>3, <2>4, <2>14 DEF IsUnderway, IsReplacing
  <2>23. edits = 0 => \A g \in Every : g \notin done => addon'[g] = s.info.files[g]
    BY <1>1, <1>2, <1>3, <2>4, <2>14 DEF IsUnderway, IsReplacing
  <2>24. edits = 0 /\ s.created => s.info.files = Setup!Empty
    BY <1>1, <1>2, <1>3 DEF IsUnderway, IsReplacing
  <2>25. IsReplacing(service[p])'
    BY <1>1, <2>11, <2>6, <2>7, <2>8, <2>9, <2>15, <2>19, <2>20, <2>21, <2>22, <2>23, <2>24 DEF IsReplacing
  <2>26. IsUnderway(service[p])'
    BY <1>1, <2>6, <2>11, <2>18, <2>25 DEF IsUnderway, IsRestoring, IsEnding
  <2>27. Whole'
    BY <1>1, <2>13, <2>14, <2>15, EveryFile DEF IsAlone, Whole
  <2>28. Finishable'
    <3> SUFFICES ASSUME edits' = 0, NEW g \in Setup!File, Setup!Managed(addon')
                 PROVE  addon'[g] \in {None, addon'["owner"], s.version}
      BY <2>2, <2>15 DEF Finishable, Setup!Prepared
    <3>1. edits = 0 /\ g \in Every /\ "owner" \in Every
      BY <1>1, EveryFile
    <3>2. CASE g \notin rest
      BY <2>22, <3>1, <3>2
    <3>3. CASE g \in rest
      <4>1. g \notin done /\ "owner" \notin done
        BY <2>19, <2>20, <3>3
      <4>2. addon'[g] = s.info.files[g] /\ addon'["owner"] = s.info.files["owner"]
        BY <2>23, <3>1, <4>1
      <4>3. Setup!Prepared(s.info.files, s.version)
        BY <1>2, <1>3
      <4>5. Setup!Managed(s.info.files)
        BY <4>2 DEF Setup!Managed
      <4>4. s.info.files[g] \in {None, s.info.files["owner"], s.version}
        BY <4>3, <4>5 DEF Setup!Prepared
      <4> QED
        BY <4>2, <4>4
    <3> QED
      BY <3>2, <3>3
  <2>29. Keeps'
    <3>1. \A g \in kept'.files : g \in Every /\ g # f /\ Setup!Content[g] = Setup!Edited
      BY <2>16, <2>17, EveryFile DEF IsAlone, Keeps
    <3> QED
      BY <1>1, <2>14, <2>15, <2>16, <3>1 DEF IsAlone, Keeps
  <2>30. config' \in Configs /\ edits' \in Nat
    BY <1>1 DEF IsAlone, SetupTypes
  <2> QED
    BY <1>2, <2>3, <2>10, <2>14, <2>16, <2>26, <2>27, <2>28, <2>29, <2>30, InsideKept
<1> QED
  BY <1>4, <1>5

\* What Scope wrote goes; the marker, and what is the user's, is no other's.
LEMMA WithdrawKept ==
    ASSUME IsAlone, NEW p \in Services, Setup!Withdraw(p)
    PROVE  IsAlone'
<1> DEFINE s == service[p]
           f == Setup!FirstOf(s.todo)
<1>1. s.pc = "remove" /\ s.pc \in Setup!Locked /\ UNCHANGED <<config, last, kept, edits>>
  BY DEF Setup!Withdraw, Setup!Locked
<1>2. p \in Setup!Holders /\ IsTask(s) /\ IsService(s) /\ IsUnderway(s) /\ s.info.files \in Trees
  BY <1>1, HolderIs
<1>3. config.entry = None /\ Setup!Managed(s.info.files)
  BY <1>1, <1>2 DEF IsUnderway, IsEnding
<1>4. Setup!Content \in Trees
  BY ContentTyped DEF ContentType, IsAlone
<1>5. \A g \in Every : Setup!Empty[g] = None
  BY DEF Setup!Empty, Every
<1>6. \E t : service' = [service EXCEPT ![p] = t] /\ SameTask(t, s) /\ t.pc \in {"remove", "unlock"}
  <2>1. CASE s.todo = {}
    <3> DEFINE t == [s EXCEPT !.pc = "unlock"]
    <3>1. service' = [service EXCEPT ![p] = t]
      BY <2>1 DEF Setup!Withdraw, Setup!To
    <3>2. IsTask(t)
      BY <1>2, StepIsTask
    <3>3. t.pc = "unlock"
      BY <1>2 DEF IsTask, TaskFields
    <3>4. t.state = s.state /\ t.version = s.version /\ t.kind = s.kind /\ t.info = s.info
      BY <1>2 DEF IsTask, TaskFields
    <3> HIDE DEF t
    <3> QED
      BY <3>1, <3>2, <3>3, <3>4 DEF SameTask
  <2>2. CASE s.todo # {}
    <3> DEFINE rest == s.todo \ {f}
               t == [s EXCEPT !.todo = rest]
    <3>1. service' = [service EXCEPT ![p] = t]
      BY <2>2 DEF Setup!Withdraw
    <3> HIDE DEF rest
    <3>2. IsTask(t)
      BY <1>2 DEF IsTask, TaskFields
    <3>3. t.pc = s.pc
      BY <1>2 DEF IsTask, TaskFields
    <3>4. t.state = s.state /\ t.version = s.version /\ t.kind = s.kind /\ t.info = s.info
      BY <1>2 DEF IsTask, TaskFields
    <3> HIDE DEF t
    <3> QED
      BY <1>1, <3>1, <3>2, <3>3, <3>4 DEF SameTask
  <2> QED
    BY <2>1, <2>2
<1>7. PICK t : service' = [service EXCEPT ![p] = t] /\ SameTask(t, s) /\ t.pc \in {"remove", "unlock"}
  BY <1>6
<1>8. t.pc \in Setup!Locked /\ IsService(t)
  BY <1>1, <1>2, <1>7, SameIsService DEF Setup!Locked
<1>9. service'[p] = t
  BY <1>7 DEF IsAlone, SetupTypes
<1>10. IsUnderway(service[p])'
  BY <1>1, <1>3, <1>7, <1>9 DEF IsUnderway, IsBase, IsReplacing, IsRestoring, IsEnding, SameTask
<1>11. /\ addon' \in {None} \cup Trees
       /\ \A g \in Every : Setup!Content'[g] = Setup!Content[g]
                           \/ (Setup!Content'[g] = None /\ Setup!Content[g] = s.info.files["owner"])
  <2>1. CASE addon' = addon
    BY <2>1 DEF Setup!Content, IsAlone, SetupTypes
  <2>2. CASE addon' # addon /\ s.todo = {}
    <3>1. addon' = None /\ Setup!Content = Setup!Empty
      BY <2>2 DEF Setup!Withdraw
    <3>2. Setup!Content' = Setup!Empty
      BY <3>1 DEF Setup!Content, Setup!Empty
    <3> QED
      BY <3>1, <3>2
  <2>3. CASE addon' # addon /\ s.todo # {}
    <3>1. addon # None /\ addon[f] = s.info.files["owner"] /\ addon' = [addon EXCEPT ![f] = None]
      BY <2>3 DEF Setup!Withdraw
    <3> HIDE DEF f
    <3>2. addon \in Trees /\ Setup!Content = addon /\ "owner" \in Every /\ None # Setup!Edited
      BY <3>1, EveryFile, SetupConstants
         DEF IsAlone, SetupTypes, Setup!Content, Setup!SetupAssumption, Setup!Edited
    <3>3. addon' \in [Every -> Held] /\ \A g \in Every : addon'[g] = IF g = f THEN None ELSE addon[g]
      BY <3>1, <3>2 DEF Trees, Held
    <3>4. addon' \in Trees
      BY <3>2, <3>3 DEF Trees
    <3>5. Setup!Content' = addon'
      BY <3>4, TreeIsSome DEF Setup!Content
    <3> QED
      BY <3>1, <3>2, <3>3, <3>4, <3>5
  <2> QED
    BY <2>1, <2>2, <2>3
<1>12. Whole'
  BY <1>1, <1>3 DEF Whole
<1>13. Finishable'
  <2> SUFFICES ASSUME last # None, edits = 0, NEW g \in Setup!File, Setup!Managed(Setup!Content')
               PROVE  Setup!Content'[g] \in {None, Setup!Content'["owner"], last}
    BY <1>1 DEF Finishable, Setup!Prepared
  <2>1. g \in Every /\ "owner" \in Every
    BY EveryFile
  <2>2. Setup!Content'["owner"] = Setup!Content["owner"] /\ Setup!Managed(Setup!Content)
    BY <1>11, <2>1 DEF Setup!Managed
  <2>3. Setup!Content[g] \in {None, Setup!Content["owner"], last}
    BY <2>2 DEF IsAlone, Finishable, Setup!Prepared
  <2>4. Setup!Content'[g] = Setup!Content[g] \/ Setup!Content'[g] = None
    BY <1>11, <2>1
  <2> QED
    BY <2>2, <2>3, <2>4
<1>14. Keeps'
  <2>1. s.info.files["owner"] # Setup!Edited
    BY <1>2 DEF Trees
  <2>2. \A g \in kept.files : g \in Every /\ Setup!Content[g] = Setup!Edited
    BY EveryFile DEF IsAlone, Keeps, SetupTypes
  <2>3. \A g \in kept.files : Setup!Content'[g] = Setup!Edited
    BY <1>11, <2>1, <2>2
  <2> QED
    BY <1>1, <2>3 DEF IsAlone, Keeps
<1>15. config' \in Configs /\ edits' \in Nat /\ kept' \in [files : SUBSET Setup!File, notes : Int]
  BY <1>1 DEF IsAlone, SetupTypes
<1> QED
  BY <1>2, <1>7, <1>8, <1>10, <1>11, <1>12, <1>13, <1>14, <1>15, InsideKept

\* The user's edits of the files are his own, and of what is there.
LEMMA EditFileKept ==
    ASSUME IsAlone, NEW f \in Setup!File, Setup!EditFile(f)
    PROVE  IsAlone'
<1>1. /\ addon # None /\ addon[f] # None /\ edits' = edits + 1 /\ addon' = [addon EXCEPT ![f] = Setup!Edited]
      /\ kept' = IF Setup!Holders = {} THEN [kept EXCEPT !.files = @ \cup {f}] ELSE kept
      /\ UNCHANGED <<config, service, last>>
  BY DEF Setup!EditFile, Setup!Edit
<1>2. addon \in Trees /\ Setup!Content = addon /\ f \in Every /\ f # "owner" /\ "owner" \in Every
      /\ None # Setup!Edited
  BY <1>1, EveryFile, SetupConstants
     DEF IsAlone, SetupTypes, Setup!Content, Setup!File, Setup!SetupAssumption, Setup!Edited
<1>3. addon' \in [Every -> Held] /\ addon'[f] = Setup!Edited /\ \A g \in Every : g # f => addon'[g] = addon[g]
  BY <1>1, <1>2 DEF Trees, Held
<1>4. addon' \in Trees
  BY <1>2, <1>3 DEF Trees
<1>5. Setup!Content' = addon'
  BY <1>4, TreeIsSome DEF Setup!Content
<1>6. edits \in Nat /\ edits' \in Nat /\ edits' # 0
  BY <1>1 DEF IsAlone, SetupTypes
<1>7. kept' \in [files : SUBSET Setup!File, notes : Int] /\ kept'.notes = kept.notes
      /\ kept'.files \subseteq kept.files \cup {f} /\ (Setup!Holders # {} => kept' = kept)
  BY <1>1 DEF IsAlone, SetupTypes
<1>8. SetupTypes'
  BY <1>1, <1>4, <1>6, <1>7 DEF IsAlone, SetupTypes
<1>9. Setup!Holders' = Setup!Holders
  BY <1>1 DEF Setup!Holders
<1>10. \A q \in Setup!Holders' : IsUnderway(service[q])'
  <2> SUFFICES ASSUME NEW q \in Setup!Holders PROVE IsUnderway(service[q])'
    BY <1>9
  <2>1. IsUnderway(service[q]) /\ kept' = kept
    BY <1>7 DEF IsAlone
  <2>2. \A g \in Every : Setup!Content[g] # None => Setup!Content'[g] # None
    BY <1>2, <1>3, <1>5
  <2>3. IsBase(service[q])' /\ IsEnding(service[q])'
    BY <1>1, <2>1 DEF IsUnderway, IsBase, IsEnding
  <2>4. IsReplacing(service[q])'
    BY <1>1, <1>6, <2>1, <2>2 DEF IsUnderway, IsReplacing
  <2>5. IsRestoring(service[q])'
    BY <1>1, <1>6, <2>1 DEF IsUnderway, IsRestoring
  <2> QED
    BY <2>3, <2>4, <2>5 DEF IsUnderway
<1>11. OneHolder'
  BY <1>9 DEF IsAlone, OneHolder
<1>12. Whole'
  <2>1. \A g \in Setup!File : g \in Every /\ (Setup!Content[g] # None => Setup!Content'[g] # None)
    BY <1>2, <1>3, <1>5, EveryFile
  <2> QED
    BY <1>1, <2>1 DEF IsAlone, Whole
<1>13. Finishable'
  BY <1>6 DEF Finishable
<1>14. Keeps'
  <2>1. \A g \in kept.files : g \in Every /\ addon[g] = Setup!Edited
    BY <1>2, EveryFile DEF IsAlone, Keeps, SetupTypes
  <2>2. \A g \in kept'.files : addon'[g] = Setup!Edited
    BY <1>3, <1>7, <2>1
  <2> QED
    BY <1>1, <1>5, <1>7, <2>2 DEF IsAlone, Keeps
<1> QED
  BY <1>8, <1>10, <1>11, <1>12, <1>13, <1>14 DEF IsAlone

\* So are those of the configuration, and only before a rename can one be counted on.
LEMMA EditConfigKept ==
    ASSUME IsAlone, Setup!EditConfig
    PROVE  IsAlone'
<1>1. /\ edits' = edits + 1 /\ config' = [config EXCEPT !.notes = @ + 1]
      /\ kept' = IF \E p \in Services : service[p].pc = "rename" THEN kept ELSE [kept EXCEPT !.notes = @ + 1]
      /\ UNCHANGED <<addon, service, last>>
  BY DEF Setup!EditConfig, Setup!Edit
<1>2. config' \in Configs /\ config'.entry = config.entry /\ config'.notes = config.notes + 1 /\ config.notes \in Int
  BY <1>1 DEF IsAlone, SetupTypes, Configs
<1>3. /\ kept' \in [files : SUBSET Setup!File, notes : Int] /\ kept'.files = kept.files /\ kept.notes \in Int
      /\ kept'.notes \in {kept.notes, kept.notes + 1}
      /\ (\E p \in Services : service[p].pc = "rename") => kept'.notes = kept.notes
  BY <1>1 DEF IsAlone, SetupTypes
<1>4. edits \in Nat /\ edits' \in Nat /\ edits' # 0
  BY <1>1 DEF IsAlone, SetupTypes
<1>5. Setup!Content' = Setup!Content /\ Setup!Holders' = Setup!Holders
  BY <1>1 DEF Setup!Content, Setup!Holders
<1>6. SetupTypes'
  BY <1>1, <1>2, <1>3, <1>4 DEF IsAlone, SetupTypes
<1>7. \A q \in Setup!Holders' : IsUnderway(service[q])'
  <2> SUFFICES ASSUME NEW q \in Setup!Holders PROVE IsUnderway(service[q])'
    BY <1>5
  <2>1. IsUnderway(service[q]) /\ q \in Services
    BY DEF IsAlone, Setup!Holders
  <2>2. IsBase(service[q])'
    BY <1>1, <1>2, <1>3, <2>1 DEF IsUnderway, IsBase
  <2>3. IsReplacing(service[q])'
    BY <1>1, <1>4, <1>5, <2>1 DEF IsUnderway, IsReplacing
  <2>4. IsRestoring(service[q])'
    BY <1>1, <1>4, <2>1 DEF IsUnderway, IsRestoring
  <2>5. IsEnding(service[q])'
    BY <1>1, <1>2, <1>3, <2>1 DEF IsUnderway, IsEnding
  <2> QED
    BY <2>2, <2>3, <2>4, <2>5 DEF IsUnderway
<1>8. OneHolder'
  BY <1>5 DEF IsAlone, OneHolder
<1>9. Whole' /\ Finishable'
  BY <1>1, <1>2, <1>4, <1>5 DEF IsAlone, Whole, Finishable
<1>10. Keeps'
  BY <1>2, <1>3, <1>5 DEF IsAlone, Keeps
<1> QED
  BY <1>6, <1>7, <1>8, <1>9, <1>10 DEF IsAlone

\* What was replaced is put back as it was found; a directory that was made goes.
LEMMA RestoreKept ==
    ASSUME IsAlone, NEW p \in Services, Setup!Restore(p)
    PROVE  IsAlone'
<1> DEFINE s == service[p]
           f == Setup!FirstOf(s.todo)
<1>1. s.pc = "restore" /\ s.pc \in Setup!Locked /\ UNCHANGED <<config, kept, edits>>
      /\ last' = IF s.todo = {} THEN s.version ELSE None
  BY DEF Setup!Restore, Setup!Locked
<1>2. /\ p \in Setup!Holders /\ IsTask(s) /\ IsService(s) /\ IsUnderway(s) /\ s.info.files \in Trees
      /\ s.kind # "disable" => Setup!Prepared(s.info.files, s.version)
  BY <1>1, HolderIs
<1>3. /\ config.entry = s.info.config.entry /\ s.kind # "disable"
      /\ config.entry # None => \A g \in Setup!File : s.info.files[g] # None
      /\ kept.files \cap s.replaced = {}
      /\ s.created => config.entry = None /\ kept.files = {}
  BY <1>1, <1>2 DEF IsUnderway, IsBase
<1>4. /\ s.todo \subseteq s.replaced /\ s.replaced \in SUBSET Every
      /\ edits = 0 => \A g \in Every : g \notin s.todo => Setup!Content[g] = s.info.files[g]
      /\ edits = 0 /\ s.created => s.info.files = Setup!Empty
  BY <1>1, <1>2 DEF IsUnderway, IsRestoring, IsBase
<1>5. Setup!Content \in Trees /\ \A g \in Every : Setup!Empty[g] = None
  BY ContentTyped DEF ContentType, IsAlone, Setup!Empty, Every
<1>6. kept' \in [files : SUBSET Setup!File, notes : Int] /\ config' \in Configs /\ edits' \in Nat
  BY <1>1 DEF IsAlone, SetupTypes
<1>7. edits = 0 /\ s.todo = {} => Setup!Prepared(Setup!Content, s.version)
  <2> SUFFICES ASSUME edits = 0, s.todo = {} PROVE Setup!Prepared(Setup!Content, s.version)
    OBVIOUS
  <2>1. \A g \in Every : Setup!Content[g] = s.info.files[g]
    BY <1>4
  <2>2. Setup!Content = s.info.files
    BY <1>2, <1>5, <2>1 DEF Trees
  <2> QED
    BY <1>2, <1>3, <2>2
<1>8. ASSUME service' = [service EXCEPT ![p] = [s EXCEPT !.pc = "unlock"]],
             addon' \in {None} \cup Trees, Whole', Finishable', Keeps'
      PROVE  IsAlone'
  <2> DEFINE u == [s EXCEPT !.pc = "unlock"]
  <2>1. IsTask(u)
    BY <1>2, StepIsTask
  <2>2. u.pc = "unlock"
    BY <1>2 DEF IsTask, TaskFields
  <2>3. u.state = s.state /\ u.version = s.version /\ u.kind = s.kind /\ u.info = s.info
    BY <1>2 DEF IsTask, TaskFields
  <2>4. service' = [service EXCEPT ![p] = u]
    BY <1>8
  <2> HIDE DEF u
  <2>5. service'[p] = u
    BY <2>4 DEF IsAlone, SetupTypes
  <2>6. IsUnderway(service[p])'
    BY <2>2, <2>5 DEF IsUnderway, IsBase, IsReplacing, IsRestoring, IsEnding
  <2>7. IsService(u) /\ u.pc \in Setup!Locked
    BY <1>1, <1>2, <2>1, <2>2, <2>3, SameIsService DEF SameTask, Setup!Locked
  <2> QED
    BY <1>2, <1>6, <1>8, <2>4, <2>6, <2>7, InsideKept
<1>9. CASE s.created /\ Setup!Content = Setup!Empty
  <2>1. addon' = None /\ service' = [service EXCEPT ![p] = [s EXCEPT !.pc = "unlock"]]
    BY <1>9 DEF Setup!Restore, Setup!To
  <2>2. Setup!Content' = Setup!Empty
    BY <2>1 DEF Setup!Content, Setup!Empty
  <2>3. config.entry = None /\ kept.files = {} /\ "owner" \in Every
    BY <1>3, <1>9, EveryFile
  <2>4. Whole'
    BY <1>1, <2>3 DEF Whole
  <2>5. Finishable'
    BY <1>5, <2>2, <2>3 DEF Finishable, Setup!Prepared, Setup!Managed
  <2>6. Keeps'
    BY <1>1, <2>3 DEF IsAlone, Keeps
  <2> QED
    BY <1>8, <2>1, <2>4, <2>5, <2>6
<1>10. CASE s.created /\ Setup!Content # Setup!Empty
  <2>1. service' = service
    BY <1>10 DEF Setup!Restore
  <2>2. PICK g \in Every : Setup!Content[g] # None /\ addon' = [addon EXCEPT ![g] = None]
    BY <1>10 DEF Setup!Restore, Every
  <2>3. addon # None
    BY <1>5, <2>2 DEF Setup!Content
  <2>4. addon \in Trees /\ Setup!Content = addon /\ "owner" \in Every /\ None # Setup!Edited
    BY <2>3, EveryFile, SetupConstants
       DEF IsAlone, SetupTypes, Setup!Content, Setup!SetupAssumption, Setup!Edited
  <2>5. addon' \in [Every -> Held] /\ \A h \in Every : addon'[h] = IF h = g THEN None ELSE addon[h]
    BY <2>2, <2>4 DEF Trees, Held
  <2>6. addon' \in Trees
    BY <2>4, <2>5 DEF Trees
  <2>7. Setup!Content' = addon'
    BY <2>6, TreeIsSome DEF Setup!Content
  <2>8. config.entry = None /\ kept.files = {}
    BY <1>3, <1>10
  <2>9. Whole'
    BY <1>1, <2>8 DEF Whole
  <2>10. Finishable'
    <3>1. edits = 0 => s.todo # {}
      <4> SUFFICES ASSUME edits = 0, s.todo = {} PROVE FALSE
        OBVIOUS
      <4>1. \A h \in Every : Setup!Content[h] = s.info.files[h]
        BY <1>4
      <4>2. Setup!Content = s.info.files
        BY <1>2, <1>5, <4>1 DEF Trees
      <4> QED
        BY <1>4, <1>10, <4>2
    <3> QED
      BY <1>1, <3>1 DEF Finishable
  <2>11. Keeps'
    BY <1>1, <2>8 DEF IsAlone, Keeps
  <2>12. IsUnderway(service[p])'
    <3>1. IsBase(service[p])'
      BY <1>1, <1>2, <2>1 DEF IsUnderway, IsBase
    <3>2. IsRestoring(service[p])'
      BY <1>1, <1>4, <1>5, <1>10, <2>1, <2>4, <2>5, <2>7 DEF IsRestoring
    <3> QED
      BY <1>1, <2>1, <3>1, <3>2 DEF IsUnderway, IsReplacing, IsEnding
  <2>13. service' = [service EXCEPT ![p] = s]
    BY <2>1 DEF IsAlone, SetupTypes
  <2> QED
    BY <1>2, <1>6, <2>6, <2>9, <2>10, <2>11, <2>12, <2>13, InsideKept
<1>11. CASE ~ s.created /\ s.todo = {}
  <2>1. addon' = addon /\ service' = [service EXCEPT ![p] = [s EXCEPT !.pc = "unlock"]]
    BY <1>11 DEF Setup!Restore, Setup!To
  <2>2. Setup!Content' = Setup!Content
    BY <2>1 DEF Setup!Content
  <2>3. Whole' /\ Keeps'
    BY <1>1, <2>2 DEF IsAlone, Whole, Keeps
  <2>4. Finishable'
    BY <1>1, <1>7, <1>11, <2>2 DEF Finishable
  <2>5. addon' \in {None} \cup Trees
    BY <2>1 DEF IsAlone, SetupTypes
  <2> QED
    BY <1>8, <2>1, <2>3, <2>4, <2>5
<1>12. CASE ~ s.created /\ s.todo # {}
  <2> DEFINE rest == s.todo \ {f}
             t == [s EXCEPT !.todo = rest]
  <2>1. f \in s.todo /\ f \in Every
    BY <1>4, <1>12, FirstIsOne
  <2>2. addon' = [Setup!Content EXCEPT ![f] = s.info.files[f]] /\ service' = [service EXCEPT ![p] = t]
    BY <1>12 DEF Setup!Restore
  <2> HIDE DEF f
  <2>3. rest = s.todo \ {f}
    OBVIOUS
  <2> HIDE DEF rest
  <2>4. IsTask(t)
    BY <1>2 DEF IsTask, TaskFields
  <2>5. t.pc = s.pc
    BY <1>2 DEF IsTask, TaskFields
  <2>6. t.todo = rest
    BY <1>2 DEF IsTask, TaskFields
  <2>7. /\ t.state = s.state /\ t.version = s.version /\ t.kind = s.kind /\ t.info = s.info
        /\ t.replaced = s.replaced /\ t.created = s.created
    BY <1>2 DEF IsTask, TaskFields
  <2> HIDE DEF t
  <2>8. IsService(t) /\ t.pc \in Setup!Locked
    BY <1>1, <1>2, <2>4, <2>5, <2>7, SameIsService DEF SameTask
  <2>9. service'[p] = t
    BY <2>2 DEF IsAlone, SetupTypes
  <2>10. addon' \in [Every -> Held] /\ \A h \in Every : addon'[h] = IF h = f THEN s.info.files[f] ELSE Setup!Content[h]
    BY <1>2, <1>5, <2>1, <2>2 DEF Trees
  <2>11. addon' \in Trees
    BY <1>2, <1>5, <2>10, EveryFile DEF Trees
  <2>12. Setup!Content' = addon'
    BY <2>11, TreeIsSome DEF Setup!Content
  <2>13. IsUnderway(service[p])'
    <3>1. IsBase(s)
      BY <1>2 DEF IsUnderway
    <3>2. IsBase(service[p])'
      BY <1>1, <2>5, <2>7, <2>9, <3>1 DEF IsBase
    <3>3. IsRestoring(service[p])'
      BY <1>1, <1>4, <1>12, <2>3, <2>5, <2>6, <2>7, <2>9, <2>10, <2>12 DEF IsRestoring
    <3> QED
      BY <1>1, <2>5, <2>9, <3>2, <3>3 DEF IsUnderway, IsReplacing, IsEnding
  <2>14. Whole'
    <3>1. \A h \in Setup!File : h \in Every
      BY EveryFile
    <3> QED
      BY <1>1, <1>3, <2>10, <2>12, <3>1 DEF IsAlone, Whole
  <2>15. Finishable'
    BY <1>1, <1>12 DEF Finishable
  <2>16. Keeps'
    <3>1. \A h \in kept.files : h \in Every /\ h # f /\ Setup!Content[h] = Setup!Edited
      BY <1>3, <1>4, <2>1, EveryFile DEF IsAlone, Keeps, SetupTypes
    <3> QED
      BY <1>1, <2>10, <2>12, <3>1 DEF IsAlone, Keeps
  <2> QED
    BY <1>2, <1>6, <2>2, <2>8, <2>11, <2>13, <2>14, <2>15, <2>16, InsideKept
<1>13. s.created \in BOOLEAN
  BY <1>1, <1>2 DEF IsUnderway, IsBase
<1> QED
  BY <1>9, <1>10, <1>11, <1>12, <1>13

----------------------------------------------------------------------------
(* The whole.                                                              *)

LEMMA SetupStarts == Setup!SetupInit => SetupInv
<1> SUFFICES ASSUME Setup!SetupInit PROVE IsAlone
  BY DEF SetupInv
<1>1. /\ addon = None /\ config = [entry |-> None, notes |-> 0] /\ kept = [files |-> {}, notes |-> 0]
      /\ edits = 0 /\ last = None /\ service = [p \in Services |-> Setup!newService]
  BY DEF Setup!SetupInit
<1>2. IsService(Setup!newService)
  BY NewIsTask, NewIsFree DEF IsService
<1>3. SetupTypes
  BY <1>1, <1>2 DEF SetupTypes, Configs
<1>4. Setup!Holders = {}
  BY <1>1, NewIsFree DEF Setup!Holders, Setup!Locked
<1> QED
  BY <1>1, <1>3, <1>4 DEF IsAlone, OneHolder, Whole, Finishable, Keeps

LEMMA SetupKept == SetupInv /\ Setup!SetupNext => SetupInv'
<1> SUFFICES ASSUME SetupInv, Setup!SetupNext PROVE SetupInv'
  OBVIOUS
<1>1. raced => raced'
  <2>1. Setup!EditConfig => raced' = raced
    BY DEF Setup!EditConfig
  <2>2. \A f \in Setup!File : Setup!EditFile(f) => raced' = raced
    BY DEF Setup!EditFile
  <2>3. \A p \in Services, v \in Versions : Setup!Launch(p, v) => raced' = raced
    BY DEF Setup!Launch
  <2>4. \A p \in Services : \A kind : Setup!Begin(p, kind) => raced' = raced
    BY DEF Setup!Begin
  <2>5. \A p \in Services : Setup!SetupLock(p) /\ raced => raced'
    BY DEF Setup!SetupLock
  <2>6. \A p \in Services : Setup!Recheck(p) \/ Setup!Unlink(p) \/ Setup!Unlock(p) => raced' = raced
    BY DEF Setup!Recheck, Setup!Unlink, Setup!Unlock
  <2>7. \A p \in Services : Setup!Check(p) => raced' = raced
    BY DEF Setup!Check
  <2>8. \A p \in Services : Setup!Mkdir(p) \/ Setup!Replace(p) \/ Setup!Commit(p) => raced' = raced
    BY DEF Setup!Mkdir, Setup!Replace, Setup!Commit
  <2>9. \A p \in Services : Setup!Rename(p) \/ Setup!Withdraw(p) \/ Setup!Restore(p) => raced' = raced
    BY DEF Setup!Rename, Setup!Withdraw, Setup!Restore
  <2>10. \A p \in Services : Setup!StepFails(p) \/ Setup!Crash(p) => raced' = raced
    BY DEF Setup!StepFails, Setup!Crash
  <2> QED
    BY <2>1, <2>2, <2>3, <2>4, <2>5, <2>6, <2>7, <2>8, <2>9, <2>10 DEF Setup!SetupNext
<1>2. CASE raced'
  BY <1>2 DEF SetupInv
<1>3. CASE ~ raced'
  <2>1. IsAlone
    BY <1>1, <1>3 DEF SetupInv
  <2>2. CASE Setup!EditConfig
    BY <2>1, <2>2, EditConfigKept DEF SetupInv
  <2>3. ASSUME NEW f \in Setup!File, Setup!EditFile(f) PROVE SetupInv'
    BY <2>1, <2>3, EditFileKept DEF SetupInv
  <2>4. ASSUME NEW p \in Services, NEW v \in Versions, Setup!Launch(p, v) PROVE SetupInv'
    BY <2>1, <2>4, LaunchKept DEF SetupInv
  <2>5. ASSUME NEW p \in Services, NEW kind, Setup!Begin(p, kind) PROVE SetupInv'
    BY <2>1, <2>5, BeginKept DEF SetupInv
  <2>6. ASSUME NEW p \in Services, Setup!SetupLock(p) PROVE SetupInv'
    BY <1>3, <2>1, <2>6, LockKept DEF SetupInv
  <2>7. ASSUME NEW p \in Services, Setup!Recheck(p) \/ Setup!Unlink(p) \/ Setup!Unlock(p) PROVE SetupInv'
    BY <2>1, <2>7, RecheckKept, UnlinkKept, UnlockKept DEF SetupInv
  <2>8. ASSUME NEW p \in Services, Setup!Check(p) \/ Setup!Mkdir(p) \/ Setup!Replace(p) PROVE SetupInv'
    BY <2>1, <2>8, CheckKept, MkdirKept, ReplaceKept DEF SetupInv
  <2>9. ASSUME NEW p \in Services, Setup!Commit(p) \/ Setup!Rename(p) \/ Setup!Withdraw(p) PROVE SetupInv'
    BY <2>1, <2>9, CommitKept, RenameKept, WithdrawKept DEF SetupInv
  <2>10. ASSUME NEW p \in Services, Setup!Restore(p) \/ Setup!StepFails(p) \/ Setup!Crash(p) PROVE SetupInv'
    BY <2>1, <2>10, RestoreKept, StepFailsKept, CrashKept DEF SetupInv
  <2> QED
    BY <2>2, <2>3, <2>4, <2>5, <2>6, <2>7, <2>8, <2>9, <2>10 DEF Setup!SetupNext
<1> QED
  BY <1>2, <1>3

LEMMA SetupStutters == SetupInv /\ UNCHANGED setup => SetupInv'
<1> SUFFICES ASSUME SetupInv, UNCHANGED setup PROVE SetupInv'
  OBVIOUS
<1>1. UNCHANGED <<addon, config, service, last, kept, raced, edits>>
  BY DEF setup
<1>2. Setup!Content' = Setup!Content /\ Setup!Holders' = Setup!Holders
  BY <1>1 DEF Setup!Content, Setup!Holders
<1>3. CASE raced
  BY <1>1, <1>3 DEF SetupInv
<1>4. CASE IsAlone
  <2>1. SetupTypes' /\ OneHolder'
    BY <1>1, <1>2, <1>4 DEF IsAlone, SetupTypes, OneHolder
  <2>2. \A q \in Setup!Holders' : IsUnderway(service[q])'
    BY <1>1, <1>2, <1>4 DEF IsAlone, IsUnderway, IsBase, IsReplacing, IsRestoring, IsEnding
  <2>3. Whole' /\ Finishable' /\ Keeps'
    BY <1>1, <1>2, <1>4 DEF IsAlone, Whole, Finishable, Keeps
  <2> QED
    BY <2>1, <2>2, <2>3 DEF IsAlone, SetupInv
<1> QED
  BY <1>3, <1>4 DEF SetupInv

LEMMA SetupSafe == SetupInv => Setup!SetupIsSafe
BY DEF SetupInv, IsAlone, Whole, Finishable, Keeps, SetupTypes, Configs,
       Setup!SetupIsSafe, Setup!InstallationIsWhole, Setup!EditsSurvive

----------------------------------------------------------------------------
(* Progress.  A request is of one writer, and what its file, the write in  *)
(* progress and the store say of it was said in this order, each no more   *)
(* than its stream; what was read is no more than any of them, and what    *)
(* was shown no more than what was read since.                             *)

Writers == OfProgress.writers
Prompts == OfProgress.requests
Seen == [writer : Writers, request : Prompts, processed : Nat, at : Nat]

IsEntries(f) == DOMAIN f \subseteq Prompts /\ f \in [DOMAIN f -> Progress!Point]

IsBody(x) ==
    /\ x = [updated |-> x.updated, entries |-> x.entries] /\ x # None
    /\ x.updated \in Nat /\ IsEntries(x.entries)

IsStore(s) ==
    /\ s = [entries |-> s.entries, writing |-> s.writing, body |-> s.body, dirty |-> s.dirty, timer |-> s.timer,
            closed |-> s.closed, alive |-> s.alive, last |-> s.last, failed |-> s.failed]
    /\ s.writing \in {"no", "creating", "renaming", "removing"}
    /\ {s.dirty, s.timer, s.closed, s.alive, s.failed} \subseteq BOOLEAN
    /\ IsEntries(s.entries)
    /\ Cardinality(DOMAIN s.entries) <= OfProgress.entries
    /\ IF s.writing = "renaming" THEN IsBody(s.body) ELSE s.body = None

IsReadOf(x) ==
    /\ x = [sequence |-> x.sequence, at |-> x.at, todo |-> x.todo, entries |-> x.entries, present |-> x.present]
    /\ x.sequence \in Nat /\ x.at \in Nat
    /\ IF x.todo = None THEN x.entries = {} ELSE x.todo \subseteq Writers
    /\ x.entries \subseteq Seen /\ IsFiniteSet(x.entries)
    /\ x.present \subseteq OfProgress.matching

ProgressTypeOK ==
    /\ now \in Nat
    /\ streams \in [Prompts -> [stage : {"new", "open", "over"}, writer : {None} \cup Writers, processed : Nat]]
    /\ stores = [w \in Writers |-> stores[w]] /\ \A w \in Writers : IsStore(stores[w])
    /\ files = [w \in Writers |-> files[w]] /\ \A w \in Writers : (files[w] # None => IsBody(files[w]))
    /\ reader = [anchor |-> reader.anchor, boundary |-> reader.boundary, lastAt |-> reader.lastAt,
                 sequence |-> reader.sequence]
    /\ reader.sequence \in Nat
    /\ reads = [i \in 1 .. Len(reads) |-> reads[i]] /\ Len(reads) \in Nat
    /\ \A i \in DOMAIN reads : IsReadOf(reads[i])
    /\ best \in [Prompts -> [processed : Nat, at : Int, back : BOOLEAN, alone : BOOLEAN]]

\* What is in a file, in a write in progress and in a store.
Says(file) == IF file = None THEN <<>> ELSE file.entries
FileSays(w) == Says(files[w])
BodySays(w) == Says(stores[w].body)
StoreSays(w) == stores[w].entries

\* A request is told of by its writer only, and by nobody before it is open.
ToldByWriter ==
    /\ \A r \in Prompts : IF streams[r].stage = "new" THEN streams[r].writer = None /\ streams[r].processed = 0
                           ELSE streams[r].writer # None
    /\ \A w \in Writers : \A r \in DOMAIN FileSays(w) \cup DOMAIN BodySays(w) \cup DOMAIN StoreSays(w) :
          streams[r].writer = w

\* Of a body as old as its youngest entry, an entry lives no longer than the body.
IsDated(f, at) == \A r \in DOMAIN f : f[r].at <= at /\ f[r].until = f[r].at + OfProgress.ttl
Dated ==
    \A w \in Writers : /\ IsDated(StoreSays(w), now)
                       /\ files[w] # None => IsDated(files[w].entries, files[w].updated)
                       /\ stores[w].body # None => IsDated(stores[w].body.entries, stores[w].body.updated)

\* So much of a request is passed by all that tells of it.
Passed(r, n) ==
    /\ n <= streams[r].processed
    /\ \A w \in Writers : /\ r \in DOMAIN FileSays(w) => n <= FileSays(w)[r].processed
                          /\ r \in DOMAIN BodySays(w) => n <= BodySays(w)[r].processed
                          /\ r \in DOMAIN StoreSays(w) => n <= StoreSays(w)[r].processed
AtMost(f, g) == \A r \in DOMAIN f \cap DOMAIN g : f[r].processed <= g[r].processed
ToldInOrder ==
    /\ \A w \in Writers : /\ AtMost(FileSays(w), BodySays(w))
                          /\ AtMost(FileSays(w), StoreSays(w)) /\ AtMost(BodySays(w), StoreSays(w))
                          /\ \A r \in DOMAIN FileSays(w) : FileSays(w)[r].processed <= streams[r].processed
                          /\ \A r \in DOMAIN BodySays(w) : BodySays(w)[r].processed <= streams[r].processed
                          /\ \A r \in DOMAIN StoreSays(w) : StoreSays(w)[r].processed <= streams[r].processed
    /\ \A r \in Prompts : Passed(r, best[r].processed)
    /\ \A i \in DOMAIN reads : \A e \in reads[i].entries : Passed(e.request, e.processed)

\* The last read begun goes on from what was shown; who was there all the while is
\* in a file still to be read, or was read, unless the read is left with nothing.
Sees(x) == x.todo # None /\ ~ (x.todo = {} /\ x.entries = {})
ReadsFollow ==
    /\ \A i, j \in DOMAIN reads : i < j => reads[i].sequence < reads[j].sequence
    /\ \A i \in DOMAIN reads :
          LET x == reads[i] IN
          /\ x.sequence <= reader.sequence
          /\ x.sequence = reader.sequence =>
                \A e \in x.entries : best[e.request].processed <= e.processed
          /\ Sees(x) =>
                \A r \in x.present : streams[r].writer \in x.todo \/ \E e \in x.entries : e.request = r

\* How far a store is with writing what it holds to its file.
IsFollowed(s, file) ==
    /\ s.closed => s.entries = <<>>
    /\ s.timer => s.writing = "no" /\ s.dirty /\ ~ s.closed
    /\ s.dirty /\ s.writing = "no" => s.timer \/ s.closed
    /\ ~ s.dirty /\ s.writing = "creating" => s.entries # <<>>
    /\ ~ s.dirty /\ s.writing = "renaming" => s.entries # <<>> /\ s.body.entries = s.entries
    /\ ~ s.dirty /\ s.writing = "removing" => s.entries = <<>>
    /\ ~ s.dirty /\ s.writing = "no" /\ ~ s.failed =>
          IF s.entries = <<>> THEN file = None ELSE file # None /\ file.entries = s.entries
WritesFollow == \A w \in Writers : stores[w].alive => IsFollowed(stores[w], files[w])

ProgressInv ==
    /\ ProgressTypeOK /\ ToldByWriter /\ Dated /\ ToldInOrder /\ ReadsFollow /\ WritesFollow
    /\ Progress!PromptIsOfOne

\* Progress counts as the library's theorems do.
LEMMA ProgressCount == \A S : Progress!Cardinality(S) = Cardinality(S) /\ Progress!IsFiniteSet(S) = IsFiniteSet(S)
BY Zenon DEF Progress!Cardinality, Cardinality, Progress!IsFiniteSet, IsFiniteSet

LEMMA ProgressFacts ==
    /\ OfProgress.primary \subseteq OfProgress.matching /\ OfProgress.matching \subseteq Prompts
    /\ OfProgress.ttl \in Nat \ {0} /\ OfProgress.entries \in Nat \ {0}
    /\ IsFiniteSet(Prompts) /\ None \notin Writers /\ \A S \in SUBSET Writers : S # None
<1>1. Progress!IsFiniteSet(Prompts) = IsFiniteSet(Prompts)
  BY ProgressCount
<1> QED
  BY <1>1, ProgressConstants DEF Progress!ProgressAssumption, Writers, Prompts

\* An empty store is the empty sequence.
LEMMA NoEntries == IsEntries(<<>>) /\ DOMAIN <<>> = {} /\ \A f : IsEntries(f) /\ DOMAIN f = {} => f = <<>>
<1>1. <<>> \in Seq({}) /\ Len(<<>>) = 0
  OBVIOUS
<1>2. DOMAIN <<>> = {}
  BY <1>1
<1>3. <<>> = [r \in {} |-> None]
  BY <1>2
<1>4. IsEntries(<<>>)
  BY <1>2, <1>3 DEF IsEntries
<1>5. ASSUME NEW f, IsEntries(f), DOMAIN f = {} PROVE f = <<>>
  BY <1>3, <1>5 DEF IsEntries
<1> QED
  BY <1>2, <1>4, <1>5

\* What is written is a body.
LEMMA BodyIsBody ==
    ASSUME NEW at \in Nat, NEW f, IsEntries(f)
    PROVE  IsBody([updated |-> at, entries |-> f])
<1> DEFINE x == [updated |-> at, entries |-> f]
<1>1. f \in UNION {[S -> Progress!Point] : S \in SUBSET OfProgress.requests}
  BY DEF IsEntries, Prompts
<1>2. x \in Progress!Body
  BY <1>1 DEF Progress!Body
<1>3. x # None
  BY <1>2, ProgressConstants DEF Progress!ProgressAssumption
<1> QED
  BY <1>3 DEF IsBody

\* One map of entries says no more than another of what both tell.
Within(f, g) == DOMAIN f \subseteq DOMAIN g /\ \A r \in DOMAIN f : f[r] = g[r]

LEMMA KeptIs ==
    ASSUME NEW f, IsEntries(f), NEW S
    PROVE  /\ IsEntries(Progress!Kept(f, S)) /\ Within(Progress!Kept(f, S), f)
           /\ DOMAIN Progress!Kept(f, S) = DOMAIN f \cap S
           /\ Cardinality(DOMAIN Progress!Kept(f, S)) <= Cardinality(DOMAIN f)
           /\ Cardinality(DOMAIN Progress!Kept(f, S)) = Cardinality(DOMAIN f) => Progress!Kept(f, S) = f
           /\ IsFiniteSet(DOMAIN f) /\ IsFiniteSet(DOMAIN f \cap S)
<1> DEFINE k == Progress!Kept(f, S)
<1>1. DOMAIN k = DOMAIN f \cap S /\ \A r \in DOMAIN k : k[r] = f[r]
  BY DEF Progress!Kept
<1>2. IsEntries(k)
  BY <1>1 DEF IsEntries, Progress!Kept
<1>3. IsFiniteSet(DOMAIN f)
  BY ProgressFacts, FS_Subset DEF IsEntries
<1>4. DOMAIN k \in SUBSET DOMAIN f
  BY <1>1
<1>5. /\ Cardinality(DOMAIN k) <= Cardinality(DOMAIN f) /\ IsFiniteSet(DOMAIN k)
      /\ Cardinality(DOMAIN f) = Cardinality(DOMAIN k) => DOMAIN f = DOMAIN k
  BY <1>3, <1>4, FS_Subset
<1>6. DOMAIN f = DOMAIN k => k = f
  BY <1>1 DEF IsEntries, Progress!Kept
<1> QED
  BY <1>1, <1>2, <1>3, <1>5, <1>6 DEF Within

\* What is pruned is what is left of the entries.
LEMMA PrunedIs ==
    ASSUME NEW f, IsEntries(f)
    PROVE  /\ IsEntries(Progress!Pruned(f)) /\ Within(Progress!Pruned(f), f)
           /\ Cardinality(DOMAIN Progress!Pruned(f)) <= Cardinality(DOMAIN f)
           /\ Cardinality(DOMAIN Progress!Pruned(f)) = Cardinality(DOMAIN f) => Progress!Pruned(f) = f
           /\ IsFiniteSet(DOMAIN Progress!Pruned(f)) /\ IsFiniteSet(DOMAIN f)
BY KeptIs DEF Progress!Pruned

\* A write begins with what is left of the entries.
LEMMA BegunIs ==
    ASSUME NEW s, NEW file, IsStore(s), s.writing # "renaming", s.closed => s.entries = <<>>
    PROVE  LET t == Progress!Begun(s) IN
           /\ IsStore(t) /\ IsFollowed(t, file) /\ Within(t.entries, s.entries)
           /\ t.body = None /\ t.alive = s.alive
<1> DEFINE p == Progress!Pruned(s.entries)
           t == Progress!Begun(s)
<1>1. /\ IsEntries(p) /\ Within(p, s.entries) /\ Cardinality(DOMAIN p) <= Cardinality(DOMAIN s.entries)
      /\ IsFiniteSet(DOMAIN p) /\ IsFiniteSet(DOMAIN s.entries)
  BY PrunedIs DEF IsStore
<1>2. Cardinality(DOMAIN p) \in Nat /\ Cardinality(DOMAIN s.entries) \in Nat
  BY <1>1, FS_CardinalityType
<1>3. Cardinality(DOMAIN p) <= OfProgress.entries
  BY <1>1, <1>2, ProgressFacts DEF IsStore
<1>4. t = [entries |-> p, writing |-> IF s.closed \/ p = <<>> THEN "removing" ELSE "creating", body |-> s.body,
           dirty |-> FALSE, timer |-> FALSE, closed |-> s.closed, alive |-> s.alive, last |-> s.last,
           failed |-> s.failed]
  <2>1. s = [entries |-> s.entries, writing |-> s.writing, body |-> s.body, dirty |-> s.dirty, timer |-> s.timer,
            closed |-> s.closed, alive |-> s.alive, last |-> s.last, failed |-> s.failed]
    BY DEF IsStore
  <2> DEFINE wr == IF s.closed \/ p = <<>> THEN "removing" ELSE "creating"
  <2>2. t = [s EXCEPT !.timer = FALSE, !.dirty = FALSE, !.entries = p, !.writing = wr]
    BY DEF Progress!Begun
  <2> HIDE DEF wr, p, t
  <2>3. t = [entries |-> p, writing |-> wr, body |-> s.body, dirty |-> FALSE, timer |-> FALSE,
             closed |-> s.closed, alive |-> s.alive, last |-> s.last, failed |-> s.failed]
    BY <2>1, <2>2
  <2> QED
    BY <2>3 DEF wr
<1>5. s.body = None
  BY DEF IsStore
<1>6. IsStore(t)
  <2>1. /\ t.entries = p /\ t.writing \in {"creating", "removing"} /\ t.body = None
        /\ t.dirty = FALSE /\ t.timer = FALSE /\ t.closed = s.closed /\ t.alive = s.alive /\ t.failed = s.failed
    BY <1>4, <1>5
  <2>2. t = [entries |-> t.entries, writing |-> t.writing, body |-> t.body, dirty |-> t.dirty, timer |-> t.timer,
             closed |-> t.closed, alive |-> t.alive, last |-> t.last, failed |-> t.failed]
    BY <1>4
  <2>3. {s.closed, s.alive, s.failed} \subseteq BOOLEAN
    BY DEF IsStore
  <2> HIDE DEF t, p
  <2> QED
    BY <2>1, <2>2, <2>3, <1>1, <1>3 DEF IsStore
<1>7. s.closed => p = <<>>
  <2> SUFFICES ASSUME s.closed PROVE p = <<>>
    OBVIOUS
  <2>1. DOMAIN p = {}
    BY <1>1, NoEntries DEF Within
  <2> QED
    BY <2>1, <1>1, NoEntries
<1>8. IsFollowed(t, file)
  BY <1>4, <1>7 DEF IsFollowed
<1> QED
  BY <1>1, <1>4, <1>5, <1>6, <1>8

\* What is scheduled is written at once, by the timer, or after the write under way.
LEMMA ScheduledIs ==
    ASSUME NEW s, NEW file, IsStore(s), s.closed => s.entries = <<>>, s.timer => s.writing = "no" /\ ~ s.closed
    PROVE  LET t == Progress!Scheduled(s) IN
           /\ IsStore(t) /\ IsFollowed(t, file) /\ Within(t.entries, s.entries)
           /\ t.body = s.body /\ t.alive = s.alive
<1> DEFINE u == [s EXCEPT !.dirty = TRUE]
           v == [u EXCEPT !.timer = TRUE]
<1>1. /\ u = [entries |-> s.entries, writing |-> s.writing, body |-> s.body, dirty |-> TRUE, timer |-> s.timer,
              closed |-> s.closed, alive |-> s.alive, last |-> s.last, failed |-> s.failed]
      /\ v = [entries |-> s.entries, writing |-> s.writing, body |-> s.body, dirty |-> TRUE, timer |-> TRUE,
              closed |-> s.closed, alive |-> s.alive, last |-> s.last, failed |-> s.failed]
  <2>1. s = [entries |-> s.entries, writing |-> s.writing, body |-> s.body, dirty |-> s.dirty, timer |-> s.timer,
            closed |-> s.closed, alive |-> s.alive, last |-> s.last, failed |-> s.failed]
    BY DEF IsStore
  <2>2. u = [s EXCEPT !.dirty = TRUE]
    OBVIOUS
  <2>3. v = [u EXCEPT !.timer = TRUE]
    OBVIOUS
  <2> HIDE DEF u, v
  <2>4. u = [entries |-> s.entries, writing |-> s.writing, body |-> s.body, dirty |-> TRUE, timer |-> s.timer,
             closed |-> s.closed, alive |-> s.alive, last |-> s.last, failed |-> s.failed]
    BY <2>1, <2>2
  <2>5. v = [entries |-> s.entries, writing |-> s.writing, body |-> s.body, dirty |-> TRUE, timer |-> TRUE,
             closed |-> s.closed, alive |-> s.alive, last |-> s.last, failed |-> s.failed]
    BY <2>3, <2>4
  <2> QED
    BY <2>4, <2>5
<1>2. IsStore(u) /\ IsStore(v)
  BY <1>1 DEF IsStore
<1>3. Within(s.entries, s.entries)
  BY DEF Within
<1>4. CASE s.closed \/ s.timer \/ s.writing # "no"
  <2>1. Progress!Scheduled(s) = u
    BY <1>1, <1>4 DEF Progress!Scheduled
  <2>2. IsFollowed(u, file)
    BY <1>1, <1>4 DEF IsFollowed
  <2> QED
    BY <2>1, <2>2, <1>1, <1>2, <1>3
<1>5. CASE ~ (s.closed \/ s.timer \/ s.writing # "no") /\ s.last < now
  <2>1. Progress!Scheduled(s) = Progress!Begun(u)
    BY <1>1, <1>5 DEF Progress!Scheduled
  <2>2. u.writing # "renaming" /\ (u.closed => u.entries = <<>>) /\ u.entries = s.entries /\ s.body = None
    BY <1>1, <1>5 DEF IsStore
  <2> HIDE DEF u
  <2> QED
    BY <2>1, <2>2, <1>1, <1>2, BegunIs
<1>6. CASE ~ (s.closed \/ s.timer \/ s.writing # "no") /\ ~ (s.last < now)
  <2>1. Progress!Scheduled(s) = v
    BY <1>1, <1>6 DEF Progress!Scheduled
  <2>2. IsFollowed(v, file)
    BY <1>1, <1>6 DEF IsFollowed
  <2> QED
    BY <2>1, <2>2, <1>1, <1>2, <1>3
<1> QED
  BY <1>4, <1>5, <1>6

\* When a write is over, what changed meanwhile is scheduled, unless close writes it.
LEMMA EndedIs ==
    ASSUME NEW s, NEW file, {s.dirty, s.timer, s.closed, s.alive, s.failed} \subseteq BOOLEAN,
           IsEntries(s.entries), Cardinality(DOMAIN s.entries) <= OfProgress.entries,
           s = [entries |-> s.entries, writing |-> s.writing, body |-> s.body, dirty |-> s.dirty, timer |-> s.timer,
                closed |-> s.closed, alive |-> s.alive, last |-> s.last, failed |-> s.failed],
           ~ s.timer, s.closed => s.entries = <<>>,
           ~ s.dirty /\ ~ s.failed => IF s.entries = <<>> THEN file = None ELSE file # None /\ file.entries = s.entries
    PROVE  LET t == Progress!Ended(s) IN
           /\ IsStore(t) /\ IsFollowed(t, file) /\ Within(t.entries, s.entries)
           /\ t.body = None /\ t.alive = s.alive
<1> DEFINE u == [s EXCEPT !.writing = "no", !.body = None]
<1>1. u = [entries |-> s.entries, writing |-> "no", body |-> None, dirty |-> s.dirty, timer |-> s.timer,
           closed |-> s.closed, alive |-> s.alive, last |-> s.last, failed |-> s.failed]
  <2>1. u = [s EXCEPT !.writing = "no", !.body = None]
    OBVIOUS
  <2> HIDE DEF u
  <2> QED
    BY <2>1
<1>2. Progress!Ended(s) = IF u.dirty /\ ~ u.closed THEN Progress!Scheduled(u) ELSE u
  BY DEF Progress!Ended
<1> HIDE DEF u
<1>3. IsStore(u)
  BY <1>1 DEF IsStore
<1>4. CASE u.dirty /\ ~ u.closed
  <2>1. /\ IsStore(Progress!Scheduled(u)) /\ IsFollowed(Progress!Scheduled(u), file)
        /\ Within(Progress!Scheduled(u).entries, u.entries)
        /\ Progress!Scheduled(u).body = u.body /\ Progress!Scheduled(u).alive = u.alive
    BY <1>1, <1>3, <1>4, ScheduledIs
  <2> QED
    BY <2>1, <1>1, <1>2, <1>4
<1>5. CASE ~ (u.dirty /\ ~ u.closed)
  <2>1. IsFollowed(u, file)
    BY <1>1, <1>5 DEF IsFollowed
  <2>2. Within(u.entries, s.entries)
    BY <1>1 DEF Within
  <2> QED
    BY <2>1, <2>2, <1>1, <1>2, <1>3, <1>5
<1> QED
  BY <1>4, <1>5

\* An entry is of the store, or what is said now.
IsOld(s, q, p) == q \in DOMAIN s.entries /\ p = s.entries[q]

\* Counters that make sense are kept, unless the store is closed or full.
LEMMA UpdatedIs ==
    ASSUME NEW s, NEW file, IsStore(s), IsFollowed(s, file), NEW r \in Prompts, NEW n \in Nat, now \in Nat
    PROVE  LET t == Progress!Updated(s, r, n) IN
           /\ IsStore(t) /\ IsFollowed(t, file) /\ t.body = s.body /\ t.alive = s.alive
           /\ \A q \in DOMAIN t.entries :
                 \/ IsOld(s, q, t.entries[q])
                 \/ q = r /\ t.entries[q] = [processed |-> n, at |-> now, until |-> now + OfProgress.ttl]
<1> DEFINE p == Progress!Pruned(s.entries)
           x == [processed |-> n, at |-> now, until |-> now + OfProgress.ttl]
           f == Progress!Put(p, r, x)
           full == r \notin DOMAIN p /\ Cardinality(DOMAIN p) >= OfProgress.entries
           u == [s EXCEPT !.entries = f]
<1>1. /\ IsEntries(p) /\ Within(p, s.entries) /\ Cardinality(DOMAIN p) <= Cardinality(DOMAIN s.entries)
      /\ Cardinality(DOMAIN p) = Cardinality(DOMAIN s.entries) => p = s.entries
      /\ IsFiniteSet(DOMAIN p) /\ IsFiniteSet(DOMAIN s.entries)
  BY PrunedIs DEF IsStore
<1>2. Cardinality(DOMAIN p) \in Nat /\ Cardinality(DOMAIN s.entries) \in Nat
  BY <1>1, FS_CardinalityType
<1>3. s = [entries |-> s.entries, writing |-> s.writing, body |-> s.body, dirty |-> s.dirty, timer |-> s.timer,
           closed |-> s.closed, alive |-> s.alive, last |-> s.last, failed |-> s.failed]
  BY DEF IsStore
<1>4. Progress!Updated(s, r, n) = IF s.closed \/ full THEN [s EXCEPT !.entries = IF s.closed THEN s.entries ELSE p]
                                  ELSE Progress!Scheduled(u)
  BY ProgressCount DEF Progress!Updated
<1>5. CASE s.closed \/ full
  <2>1. full => p = s.entries
    BY <1>1, <1>2, ProgressFacts DEF IsStore
  <2>2. Progress!Updated(s, r, n) = [s EXCEPT !.entries = s.entries]
    BY <1>4, <1>5, <2>1
  <2>3. Progress!Updated(s, r, n) = s
    BY <2>2, <1>3
  <2> QED
    BY <2>3 DEF IsOld
<1>6. CASE ~ (s.closed \/ full)
  <2>1. u = [s EXCEPT !.entries = f]
    OBVIOUS
  <2>2. /\ DOMAIN f = DOMAIN p \cup {r} /\ f[r] = x
        /\ \A q \in DOMAIN f : q # r => f[q] = p[q] /\ q \in DOMAIN p
    BY DEF Progress!Put
  <2>3. x \in Progress!Point
    BY ProgressFacts DEF Progress!Point
  <2>4. IsEntries(f)
    BY <2>2, <2>3, <1>1 DEF IsEntries, Progress!Put
  <2>5. Cardinality(DOMAIN f) <= OfProgress.entries
    <3>1. Cardinality(DOMAIN p \cup {r}) = IF r \in DOMAIN p THEN Cardinality(DOMAIN p) ELSE Cardinality(DOMAIN p) + 1
      BY <1>1, FS_AddElement
    <3>2. Cardinality(DOMAIN s.entries) <= OfProgress.entries
      BY DEF IsStore
    <3> HIDE DEF f, p
    <3> QED
      BY <3>1, <3>2, <1>1, <1>2, <1>6, <2>2, ProgressFacts
  <2> HIDE DEF u, f
  <2>6. u = [entries |-> f, writing |-> s.writing, body |-> s.body, dirty |-> s.dirty, timer |-> s.timer,
             closed |-> s.closed, alive |-> s.alive, last |-> s.last, failed |-> s.failed]
    BY <2>1, <1>3
  <2>7. IsStore(u)
    BY <2>4, <2>5, <2>6 DEF IsStore
  <2>8. (u.closed => u.entries = <<>>) /\ (u.timer => u.writing = "no" /\ ~ u.closed)
    BY <2>6, <1>6 DEF IsFollowed
  <2> DEFINE t == Progress!Scheduled(u)
  <2>9. IsStore(t) /\ IsFollowed(t, file) /\ Within(t.entries, f) /\ t.body = s.body /\ t.alive = s.alive
    BY <2>6, <2>7, <2>8, ScheduledIs
  <2>10. Progress!Updated(s, r, n) = t
    BY <1>4, <1>6
  <2>11. \A q \in DOMAIN t.entries : IsOld(s, q, t.entries[q]) \/ (q = r /\ t.entries[q] = x)
    BY <2>9, <2>2, <1>1 DEF Within, IsOld
  <2> QED
    BY <2>9, <2>10, <2>11
<1> QED
  BY <1>5, <1>6

\* What is removed, or no longer there, is scheduled.
LEMMA KeptIsScheduled ==
    ASSUME NEW s, NEW file, IsStore(s), IsFollowed(s, file), NEW f, IsEntries(f), Within(f, s.entries)
    PROVE  LET t == Progress!Scheduled([s EXCEPT !.entries = f]) IN
           IsStore(t) /\ IsFollowed(t, file) /\ Within(t.entries, s.entries) /\ t.body = s.body /\ t.alive = s.alive
<1> DEFINE u == [s EXCEPT !.entries = f]
<1>1. s = [entries |-> s.entries, writing |-> s.writing, body |-> s.body, dirty |-> s.dirty, timer |-> s.timer,
           closed |-> s.closed, alive |-> s.alive, last |-> s.last, failed |-> s.failed]
  BY DEF IsStore
<1>2. u = [s EXCEPT !.entries = f]
  OBVIOUS
<1> HIDE DEF u
<1>3. u = [entries |-> f, writing |-> s.writing, body |-> s.body, dirty |-> s.dirty, timer |-> s.timer,
           closed |-> s.closed, alive |-> s.alive, last |-> s.last, failed |-> s.failed]
  BY <1>1, <1>2
<1>4. Cardinality(DOMAIN f) <= OfProgress.entries
  <2>1. IsFiniteSet(DOMAIN s.entries)
    BY ProgressFacts, FS_Subset DEF IsStore, IsEntries
  <2>2. DOMAIN f \in SUBSET DOMAIN s.entries
    BY DEF Within
  <2>3. Cardinality(DOMAIN f) <= Cardinality(DOMAIN s.entries) /\ IsFiniteSet(DOMAIN f)
    BY <2>1, <2>2, FS_Subset
  <2>4. Cardinality(DOMAIN f) \in Nat /\ Cardinality(DOMAIN s.entries) \in Nat
    BY <2>1, <2>3, FS_CardinalityType
  <2> QED
    BY <2>3, <2>4, ProgressFacts DEF IsStore
<1>5. IsStore(u)
  BY <1>3, <1>4 DEF IsStore
<1>6. u.closed => u.entries = <<>>
  <2> SUFFICES ASSUME u.closed PROVE f = <<>>
    BY <1>3
  <2>1. s.entries = <<>>
    BY <1>3 DEF IsFollowed
  <2>2. DOMAIN f = {}
    BY <2>1, NoEntries DEF Within
  <2> QED
    BY <2>2, NoEntries
<1>7. u.timer => u.writing = "no" /\ ~ u.closed
  BY <1>3 DEF IsFollowed
<1>8. LET t == Progress!Scheduled(u) IN
      IsStore(t) /\ IsFollowed(t, file) /\ Within(t.entries, u.entries) /\ t.body = u.body /\ t.alive = u.alive
  BY <1>5, <1>6, <1>7, ScheduledIs
<1> QED
  BY <1>2, <1>3, <1>8 DEF Within

\* How the streams may change beside a store: they go on, or are over.
StreamsGoOn ==
    /\ streams' \in [Prompts -> [stage : {"new", "open", "over"}, writer : {None} \cup Writers, processed : Nat]]
    /\ \A r \in Prompts : /\ streams'[r].writer = streams[r].writer
                          /\ streams[r].processed <= streams'[r].processed
                          /\ (streams'[r].stage = "new") = (streams[r].stage = "new")
                          /\ streams[r].stage = "new" => streams'[r] = streams[r]

\* What one writer does: its store goes on, and its file stays, goes or is what it wrote.
WriterMoves(w, t, file) ==
    /\ stores' = [stores EXCEPT ![w] = t] /\ files' = [files EXCEPT ![w] = file]
    /\ IsStore(t) /\ (t.alive => IsFollowed(t, file))
    /\ \/ file = files[w] \/ file = None
       \/ file = stores[w].body /\ t.body = None
    /\ \/ t.body = stores[w].body \/ t.body = None
       \/ t.body = [updated |-> now, entries |-> stores[w].entries]
    /\ \A r \in DOMAIN t.entries :
          \/ IsOld(stores[w], r, t.entries[r])
          \/ /\ r \in Prompts /\ streams[r].writer = w
             /\ t.entries[r] = [processed |-> streams'[r].processed, at |-> now, until |-> now + OfProgress.ttl]
    /\ StreamsGoOn
    /\ UNCHANGED <<now, reader, reads, best>>

\* Everybody else's store and file stay; of its own, what they say was said before.
LEMMA MovedSays ==
    ASSUME ProgressInv, NEW w \in Writers, NEW t, NEW file, WriterMoves(w, t, file)
    PROVE  /\ \A v \in Writers \ {w} : stores'[v] = stores[v] /\ files'[v] = files[v]
           /\ stores'[w] = t /\ files'[w] = file
           /\ (FileSays(w))' = Says(file) /\ (BodySays(w))' = Says(t.body) /\ (StoreSays(w))' = t.entries
           /\ \A v \in Writers \ {w} : /\ (FileSays(v))' = FileSays(v) /\ (BodySays(v))' = BodySays(v)
                                       /\ (StoreSays(v))' = StoreSays(v)
           /\ Says(file) \in {FileSays(w), <<>>} \/ (Says(file) = BodySays(w) /\ Says(t.body) = <<>>)
           /\ Says(t.body) \in {BodySays(w), <<>>, StoreSays(w)}
           /\ \A r \in DOMAIN t.entries :
                 \/ IsOld(stores[w], r, t.entries[r])
                 \/ r \in Prompts /\ streams[r].writer = w /\ t.entries[r].processed = streams'[r].processed
           /\ DOMAIN <<>> = {}
<1>1. stores = [v \in Writers |-> stores[v]] /\ files = [v \in Writers |-> files[v]]
  BY DEF ProgressInv, ProgressTypeOK
<1>2. stores' = [stores EXCEPT ![w] = t] /\ files' = [files EXCEPT ![w] = file]
  BY DEF WriterMoves
<1>3. /\ \A v \in Writers \ {w} : stores'[v] = stores[v] /\ files'[v] = files[v]
      /\ stores'[w] = t /\ files'[w] = file
  BY <1>1, <1>2
<1>4. Says(file) \in {FileSays(w), <<>>} \/ (Says(file) = BodySays(w) /\ Says(t.body) = <<>>)
  BY DEF WriterMoves, Says, FileSays, BodySays
<1>5. Says(t.body) \in {BodySays(w), <<>>, StoreSays(w)}
  <2>1. CASE t.body = stores[w].body \/ t.body = None
    BY <2>1 DEF Says, BodySays
  <2>2. CASE t.body = [updated |-> now, entries |-> stores[w].entries]
    <3>1. IsBody(t.body)
      BY <2>2, BodyIsBody DEF ProgressInv, ProgressTypeOK, IsStore
    <3> QED
      BY <2>2, <3>1 DEF Says, StoreSays, IsBody
  <2> QED
    BY <2>1, <2>2 DEF WriterMoves
<1>6. \A r \in DOMAIN t.entries :
         \/ IsOld(stores[w], r, t.entries[r])
         \/ r \in Prompts /\ streams[r].writer = w /\ t.entries[r].processed = streams'[r].processed
  <2> SUFFICES ASSUME NEW r \in DOMAIN t.entries
               PROVE  \/ IsOld(stores[w], r, t.entries[r])
                      \/ r \in Prompts /\ streams[r].writer = w /\ t.entries[r].processed = streams'[r].processed
    OBVIOUS
  <2>1. \/ IsOld(stores[w], r, t.entries[r])
        \/ /\ r \in Prompts /\ streams[r].writer = w
           /\ t.entries[r] = [processed |-> streams'[r].processed, at |-> now, until |-> now + OfProgress.ttl]
    BY DEF WriterMoves
  <2> QED
    BY <2>1
<1> QED
  BY <1>3, <1>4, <1>5, <1>6, NoEntries DEF FileSays, BodySays, StoreSays

\* The types of what is told.
LEMMA SaysTypes ==
    ASSUME ProgressInv, NEW w \in Writers
    PROVE  IsEntries(FileSays(w)) /\ IsEntries(BodySays(w)) /\ IsEntries(StoreSays(w))
BY NoEntries DEF ProgressInv, ProgressTypeOK, IsStore, IsBody, Says, FileSays, BodySays, StoreSays

\* What all had passed they have passed still.
LEMMA PassedStays ==
    ASSUME ProgressInv, NEW w \in Writers, NEW t, NEW file, WriterMoves(w, t, file),
           NEW r \in Prompts, NEW n \in Nat, Passed(r, n)
    PROVE  Passed(r, n)'
<1> USE MovedSays
<1>1. n <= streams'[r].processed
  BY DEF Passed, WriterMoves, StreamsGoOn, ProgressInv, ProgressTypeOK
<1>2. ASSUME NEW v \in Writers, v # w
      PROVE  /\ r \in DOMAIN (FileSays(v))' => n <= (FileSays(v))'[r].processed
             /\ r \in DOMAIN (BodySays(v))' => n <= (BodySays(v))'[r].processed
             /\ r \in DOMAIN (StoreSays(v))' => n <= (StoreSays(v))'[r].processed
  BY <1>2 DEF Passed
<1>3. /\ r \in DOMAIN (FileSays(w))' => n <= (FileSays(w))'[r].processed
      /\ r \in DOMAIN (BodySays(w))' => n <= (BodySays(w))'[r].processed
      /\ r \in DOMAIN (StoreSays(w))' => n <= (StoreSays(w))'[r].processed
  BY <1>1 DEF Passed, IsOld, StoreSays
<1> QED
  BY <1>1, <1>2, <1>3 DEF Passed

\* A move of a writer keeps the invariant.
LEMMA MovedKeeps ==
    ASSUME ProgressInv, NEW w \in Writers, NEW t, NEW file, WriterMoves(w, t, file)
    PROVE  ProgressInv'
<1>0. /\ \A v \in Writers \ {w} : stores'[v] = stores[v] /\ files'[v] = files[v]
      /\ stores'[w] = t /\ files'[w] = file
  BY MovedSays
<1>1. ProgressTypeOK'
  <2>1. stores' = [v \in Writers |-> stores'[v]] /\ files' = [v \in Writers |-> files'[v]]
    BY DEF ProgressInv, ProgressTypeOK, WriterMoves
  <2>2. file # None => IsBody(file)
    BY DEF WriterMoves, ProgressInv, ProgressTypeOK, IsStore
  <2>3. \A v \in Writers : IsStore(stores'[v]) /\ (files'[v] # None => IsBody(files'[v]))
    BY <1>0, <2>2 DEF WriterMoves, ProgressInv, ProgressTypeOK
  <2>4. UNCHANGED <<now, reader, reads, best>> /\ StreamsGoOn
    BY DEF WriterMoves
  <2> QED
    BY <2>1, <2>3, <2>4 DEF ProgressInv, ProgressTypeOK, StreamsGoOn
<1>2. ToldByWriter'
  <2>1. \A r \in Prompts : IF streams'[r].stage = "new" THEN streams'[r].writer = None /\ streams'[r].processed = 0
                            ELSE streams'[r].writer # None
    BY DEF WriterMoves, StreamsGoOn, ProgressInv, ToldByWriter
  <2>2. ASSUME NEW v \in Writers, v # w,
               NEW r \in DOMAIN (FileSays(v))' \cup DOMAIN (BodySays(v))' \cup DOMAIN (StoreSays(v))'
        PROVE  streams'[r].writer = v
    <3>1. r \in DOMAIN FileSays(v) \cup DOMAIN BodySays(v) \cup DOMAIN StoreSays(v)
      BY <2>2, MovedSays
    <3>2. r \in Prompts
      BY <3>1, SaysTypes DEF IsEntries
    <3>3. streams[r].writer = v
      BY <3>1 DEF ProgressInv, ToldByWriter
    <3> QED
      BY <3>2, <3>3 DEF WriterMoves, StreamsGoOn
  <2>3. ASSUME NEW r \in DOMAIN (FileSays(w))' \cup DOMAIN (BodySays(w))' \cup DOMAIN (StoreSays(w))'
        PROVE  streams'[r].writer = w
    <3>1. r \in Prompts /\ streams[r].writer = w
      BY <2>3, MovedSays, SaysTypes DEF ProgressInv, ToldByWriter, IsEntries, IsOld, StoreSays
    <3> QED
      BY <3>1 DEF WriterMoves, StreamsGoOn
  <2> QED
    BY <2>1, <2>2, <2>3 DEF ToldByWriter
<1>3. Dated'
  <2>1. now' = now
    BY DEF WriterMoves
  <2>2. ASSUME NEW v \in Writers, v # w
        PROVE  /\ IsDated(StoreSays(v), now)'
               /\ files'[v] # None => IsDated(files'[v].entries, files'[v].updated)
               /\ stores'[v].body # None => IsDated(stores'[v].body.entries, stores'[v].body.updated)
    BY <1>0, <2>1, <2>2 DEF ProgressInv, Dated, StoreSays, IsDated
  <2>3. IsDated(StoreSays(w), now)'
    <3> SUFFICES ASSUME NEW r \in DOMAIN t.entries
                 PROVE  t.entries[r].at <= now /\ t.entries[r].until = t.entries[r].at + OfProgress.ttl
      BY <1>0, <2>1 DEF StoreSays, IsDated
    <3>1. \/ IsOld(stores[w], r, t.entries[r])
          \/ t.entries[r] = [processed |-> streams'[r].processed, at |-> now, until |-> now + OfProgress.ttl]
      BY DEF WriterMoves
    <3>2. now \in Nat /\ IsDated(stores[w].entries, now)
      BY DEF ProgressInv, ProgressTypeOK, Dated, StoreSays
    <3> QED
      BY <3>1, <3>2 DEF IsOld, IsDated
  <2>4. file # None => IsDated(file.entries, file.updated)
    BY DEF WriterMoves, ProgressInv, Dated
  <2>5. t.body # None => IsDated(t.body.entries, t.body.updated)
    BY DEF WriterMoves, ProgressInv, Dated, StoreSays
  <2> QED
    BY <1>0, <2>1, <2>2, <2>3, <2>4, <2>5 DEF Dated, IsDated
<1>4. ToldInOrder'
  <2>1. ASSUME NEW v \in Writers, v # w
        PROVE  (/\ AtMost(FileSays(v), BodySays(v))
                /\ AtMost(FileSays(v), StoreSays(v)) /\ AtMost(BodySays(v), StoreSays(v))
                /\ \A r \in DOMAIN FileSays(v) : FileSays(v)[r].processed <= streams[r].processed
                /\ \A r \in DOMAIN BodySays(v) : BodySays(v)[r].processed <= streams[r].processed
                /\ \A r \in DOMAIN StoreSays(v) : StoreSays(v)[r].processed <= streams[r].processed)'
    <3>1. (FileSays(v))' = FileSays(v) /\ (BodySays(v))' = BodySays(v) /\ (StoreSays(v))' = StoreSays(v)
      BY <2>1, MovedSays
    <3>2. /\ AtMost(FileSays(v), BodySays(v))' /\ AtMost(FileSays(v), StoreSays(v))'
          /\ AtMost(BodySays(v), StoreSays(v))'
      BY <3>1 DEF ProgressInv, ToldInOrder, AtMost
    <3>3. ASSUME NEW f, IsEntries(f), \A r \in DOMAIN f : f[r].processed <= streams[r].processed
          PROVE  \A r \in DOMAIN f : f[r].processed <= streams'[r].processed
      BY <3>3 DEF IsEntries, Progress!Point, WriterMoves, StreamsGoOn, ProgressInv, ProgressTypeOK
    <3> QED
      BY <3>1, <3>2, <3>3, SaysTypes DEF ProgressInv, ToldInOrder
  <2>2. (/\ AtMost(FileSays(w), BodySays(w))
         /\ AtMost(FileSays(w), StoreSays(w)) /\ AtMost(BodySays(w), StoreSays(w))
         /\ \A r \in DOMAIN FileSays(w) : FileSays(w)[r].processed <= streams[r].processed
         /\ \A r \in DOMAIN BodySays(w) : BodySays(w)[r].processed <= streams[r].processed
         /\ \A r \in DOMAIN StoreSays(w) : StoreSays(w)[r].processed <= streams[r].processed)'
    <3> DEFINE F == FileSays(w)
               B == BodySays(w)
               S == StoreSays(w)
               below(f) == \A r \in DOMAIN f : f[r].processed <= streams[r].processed
               below2(f) == \A r \in DOMAIN f : f[r].processed <= streams'[r].processed
    <3>1. /\ (FileSays(w))' = Says(file) /\ (BodySays(w))' = Says(t.body) /\ (StoreSays(w))' = t.entries
          /\ Says(file) \in {F, <<>>} \/ (Says(file) = B /\ Says(t.body) = <<>>)
          /\ Says(t.body) \in {B, <<>>, S}
          /\ DOMAIN <<>> = {}
      BY MovedSays
    <3>2. AtMost(F, B) /\ AtMost(F, S) /\ AtMost(B, S) /\ below(F) /\ below(B) /\ below(S)
      BY DEF ProgressInv, ToldInOrder
    <3>3. IsEntries(F) /\ IsEntries(B) /\ IsEntries(S)
      BY SaysTypes
    <3>4. \A r \in DOMAIN t.entries :
             \/ r \in DOMAIN S /\ t.entries[r] = S[r]
             \/ r \in Prompts /\ t.entries[r].processed = streams'[r].processed
      BY MovedSays DEF IsOld, StoreSays
    <3>5. \A r \in Prompts : streams[r].processed <= streams'[r].processed
                             /\ streams[r].processed \in Nat /\ streams'[r].processed \in Nat
      BY DEF WriterMoves, StreamsGoOn, ProgressInv, ProgressTypeOK
    <3> HIDE DEF F, B, S
    <3>6. ASSUME NEW f, IsEntries(f), below(f)
          PROVE  below2(f)
      BY <3>5, <3>6 DEF IsEntries, Progress!Point
    <3>7. ASSUME NEW f, IsEntries(f), below(f), AtMost(f, S)
          PROVE  AtMost(f, t.entries)
      BY <3>4, <3>5, <3>7 DEF IsEntries, Progress!Point, AtMost
    <3>8. below2(F) /\ below2(B) /\ below2(S) /\ below2(<<>>)
      BY <3>1, <3>2, <3>3, <3>6
    <3>9. AtMost(F, t.entries) /\ AtMost(B, t.entries) /\ AtMost(S, t.entries) /\ AtMost(<<>>, t.entries)
      <4>1. AtMost(S, S)
        BY <3>3 DEF AtMost, IsEntries, Progress!Point
      <4> QED
        BY <3>1, <3>2, <3>3, <3>7, <4>1 DEF AtMost
    <3>10. below2(t.entries)
      BY <3>4, <3>5, <3>8
    <3>11. AtMost(Says(file), Says(t.body))
      BY <3>1, <3>2 DEF AtMost
    <3> HIDE DEF below2
    <3>12. AtMost(Says(file), t.entries) /\ AtMost(Says(t.body), t.entries) /\ below2(Says(file)) /\ below2(Says(t.body))
      BY <3>1, <3>8, <3>9
    <3> QED
      BY <3>1, <3>10, <3>11, <3>12 DEF below2
  <2>3. \A r \in Prompts : Passed(r, best[r].processed)'
    <3>1. best' = best /\ \A r \in Prompts : best[r].processed \in Nat /\ Passed(r, best[r].processed)
      BY DEF WriterMoves, ProgressInv, ProgressTypeOK, ToldInOrder
    <3>2. \A r \in Prompts, n \in Nat : Passed(r, n) => Passed(r, n)'
      BY PassedStays
    <3> QED
      BY <3>1, <3>2 DEF Passed
  <2>4. \A i \in DOMAIN reads : \A e \in reads[i].entries : Passed(e.request, e.processed)'
    <3> SUFFICES ASSUME NEW i \in DOMAIN reads, NEW e \in reads[i].entries
                 PROVE  Passed(e.request, e.processed)'
      OBVIOUS
    <3>1. e \in Seen
      BY DEF ProgressInv, ProgressTypeOK, IsReadOf
    <3>2. e.request \in Prompts /\ e.processed \in Nat
      BY <3>1 DEF Seen
    <3>3. Passed(e.request, e.processed)
      BY DEF ProgressInv, ToldInOrder
    <3> QED
      BY <3>2, <3>3, PassedStays
  <2>5. UNCHANGED <<reads, best>>
    BY DEF WriterMoves
  <2> QED
    BY <2>1, <2>2, <2>3, <2>4, <2>5 DEF ToldInOrder
<1>5. ReadsFollow'
  <2>1. UNCHANGED <<reader, reads, best>> /\ \A r \in Prompts : streams'[r].writer = streams[r].writer
    BY DEF WriterMoves, StreamsGoOn
  <2>2. \A i \in DOMAIN reads : reads[i].present \subseteq Prompts
    BY ProgressFacts DEF ProgressInv, ProgressTypeOK, IsReadOf
  <2> QED
    BY <2>1, <2>2 DEF ProgressInv, ReadsFollow
<1>6. WritesFollow'
  BY <1>0 DEF WriterMoves, ProgressInv, WritesFollow
<1>7. Progress!PromptIsOfOne'
  BY DEF WriterMoves, ProgressInv, Progress!PromptIsOfOne
<1> QED
  BY <1>1, <1>2, <1>3, <1>4, <1>5, <1>6, <1>7 DEF ProgressInv

\* A store and its file, as they are.
LEMMA StoreIs ==
    ASSUME ProgressInv, NEW w \in Writers
    PROVE  LET s == stores[w] IN
           /\ IsStore(s) /\ (s.alive => IsFollowed(s, files[w]))
           /\ s = [entries |-> s.entries, writing |-> s.writing, body |-> s.body, dirty |-> s.dirty, timer |-> s.timer,
                   closed |-> s.closed, alive |-> s.alive, last |-> s.last, failed |-> s.failed]
           /\ files = [files EXCEPT ![w] = files[w]] /\ now \in Nat
           /\ (streams' = streams => StreamsGoOn)
<1>1. IsStore(stores[w]) /\ (stores[w].alive => IsFollowed(stores[w], files[w]))
  BY DEF ProgressInv, ProgressTypeOK, WritesFollow
<1>2. files = [v \in Writers |-> files[v]] /\ now \in Nat
  BY DEF ProgressInv, ProgressTypeOK
<1>3. streams' = streams => StreamsGoOn
  BY DEF ProgressInv, ProgressTypeOK, StreamsGoOn
<1> QED
  BY <1>1, <1>2, <1>3 DEF IsStore

\* A store that says no more moves, and its writer with it.
LEMMA QuietlyMoves ==
    ASSUME ProgressInv, NEW w \in Writers, NEW t, NEW file,
           stores' = [stores EXCEPT ![w] = t], files' = [files EXCEPT ![w] = file],
           IsStore(t), t.alive => IsFollowed(t, file), Within(t.entries, stores[w].entries),
           \/ file = files[w] \/ file = None
           \/ file = stores[w].body /\ t.body = None,
           \/ t.body = stores[w].body \/ t.body = None
           \/ t.body = [updated |-> now, entries |-> stores[w].entries],
           StreamsGoOn, UNCHANGED <<now, reader, reads, best>>
    PROVE  ProgressInv'
<1>1. \A r \in DOMAIN t.entries : IsOld(stores[w], r, t.entries[r])
  BY DEF Within, IsOld
<1>2. WriterMoves(w, t, file)
  BY <1>1 DEF WriterMoves
<1> QED
  BY <1>2, MovedKeeps

LEMMA TimerFiresKeeps ==
    ASSUME ProgressInv, NEW w \in Writers, Progress!TimerFires(w)
    PROVE  ProgressInv'
<1> DEFINE t == Progress!Begun(stores[w])
<1> USE DEF Progress!TimerFires
<1>1. stores[w].alive /\ stores[w].timer /\ stores[w].writing = "no" /\ ~ stores[w].closed
  BY StoreIs DEF IsFollowed
<1>2. /\ IsStore(t) /\ IsFollowed(t, files[w]) /\ Within(t.entries, stores[w].entries) /\ t.body = None
  BY <1>1, StoreIs, BegunIs
<1>3. stores' = [stores EXCEPT ![w] = t] /\ files' = [files EXCEPT ![w] = files[w]]
      /\ UNCHANGED <<now, reader, reads, best>> /\ streams' = streams
  BY StoreIs
<1> QED
  BY <1>2, <1>3, StoreIs, QuietlyMoves

LEMMA CloseWritesKeeps ==
    ASSUME ProgressInv, NEW w \in Writers, Progress!CloseWrites(w)
    PROVE  ProgressInv'
<1> DEFINE t == Progress!Begun(stores[w])
<1> USE DEF Progress!CloseWrites
<1>1. stores[w].alive /\ stores[w].writing = "no" /\ (stores[w].closed => stores[w].entries = <<>>)
  BY StoreIs DEF IsFollowed
<1>2. /\ IsStore(t) /\ IsFollowed(t, files[w]) /\ Within(t.entries, stores[w].entries) /\ t.body = None
  BY <1>1, StoreIs, BegunIs
<1>3. stores' = [stores EXCEPT ![w] = t] /\ files' = [files EXCEPT ![w] = files[w]]
      /\ UNCHANGED <<now, reader, reads, best>> /\ streams' = streams
  BY StoreIs
<1> QED
  BY <1>2, <1>3, StoreIs, QuietlyMoves

LEMMA ComposeKeeps ==
    ASSUME ProgressInv, NEW w \in Writers, Progress!Compose(w)
    PROVE  ProgressInv'
<1> DEFINE s == stores[w]
           x == [updated |-> now, entries |-> s.entries]
           t == [s EXCEPT !.writing = "renaming", !.body = x]
<1> USE DEF Progress!Compose
<1>1. s.alive /\ s.writing = "creating" /\ IsStore(s) /\ IsFollowed(s, files[w]) /\ now \in Nat
  BY StoreIs
<1>2. t = [entries |-> s.entries, writing |-> "renaming", body |-> x, dirty |-> s.dirty, timer |-> s.timer,
           closed |-> s.closed, alive |-> s.alive, last |-> s.last, failed |-> s.failed]
  <2>1. s = [entries |-> s.entries, writing |-> s.writing, body |-> s.body, dirty |-> s.dirty, timer |-> s.timer,
             closed |-> s.closed, alive |-> s.alive, last |-> s.last, failed |-> s.failed]
    BY StoreIs
  <2>2. t = [s EXCEPT !.writing = "renaming", !.body = x]
    OBVIOUS
  <2> HIDE DEF s, t, x
  <2> QED
    BY <2>1, <2>2
<1>3. stores' = [stores EXCEPT ![w] = t] /\ files' = [files EXCEPT ![w] = files[w]]
      /\ UNCHANGED <<now, reader, reads, best>> /\ streams' = streams
  <2>1. stores' = [stores EXCEPT ![w].writing = "renaming", ![w].body = x]
    OBVIOUS
  <2>2. stores = [v \in Writers |-> stores[v]]
    BY DEF ProgressInv, ProgressTypeOK
  <2> QED
    BY <2>1, <2>2, StoreIs
<1>4. IsBody(x)
  BY <1>1, BodyIsBody DEF IsStore
<1> HIDE DEF x, t
<1>5. IsStore(t)
  <2>1. /\ {s.dirty, s.timer, s.closed, s.alive, s.failed} \subseteq BOOLEAN
        /\ IsEntries(s.entries) /\ Cardinality(DOMAIN s.entries) <= OfProgress.entries
    BY <1>1 DEF IsStore
  <2> QED
    BY <1>2, <1>4, <2>1 DEF IsStore
<1>6. IsFollowed(t, files[w])
  <2>1. x.entries = s.entries
    BY DEF x
  <2> QED
    BY <1>1, <1>2, <2>1 DEF IsFollowed
<1>7. Within(t.entries, s.entries) /\ t.body = x
  BY <1>2 DEF Within
<1>8. StreamsGoOn
  BY <1>3, StoreIs
<1> QED
  BY <1>3, <1>5, <1>6, <1>7, <1>8, QuietlyMoves DEF x

\* A write ends, with what it found of the store.
LEMMA EndKeeps ==
    ASSUME ProgressInv, NEW w \in Writers, NEW x, NEW file,
           x = [entries |-> x.entries, writing |-> x.writing, body |-> x.body, dirty |-> x.dirty, timer |-> x.timer,
                closed |-> x.closed, alive |-> x.alive, last |-> x.last, failed |-> x.failed],
           x.entries = stores[w].entries, x.writing = stores[w].writing, x.dirty = stores[w].dirty,
           x.timer = stores[w].timer, x.closed = stores[w].closed, x.alive = stores[w].alive,
           stores[w].alive, stores[w].writing # "no",
           x.failed \in BOOLEAN,
           stores' = [stores EXCEPT ![w] = Progress!Ended(x)], files' = [files EXCEPT ![w] = file],
           streams' = streams, UNCHANGED <<now, reader, reads, best>>,
           \/ file = files[w] /\ x.failed
           \/ file = stores[w].body /\ stores[w].writing \in {"renaming", "removing"} /\ ~ x.failed
    PROVE  ProgressInv'
<1> DEFINE s == stores[w]
           t == Progress!Ended(x)
<1>1. IsStore(s) /\ IsFollowed(s, files[w]) /\ now \in Nat
  BY StoreIs
<1>2. /\ {x.dirty, x.timer, x.closed, x.alive, x.failed} \subseteq BOOLEAN
      /\ IsEntries(x.entries) /\ Cardinality(DOMAIN x.entries) <= OfProgress.entries
  BY <1>1 DEF IsStore
<1>3. ~ x.timer /\ (x.closed => x.entries = <<>>)
  BY <1>1 DEF IsFollowed
<1>4. ~ x.dirty /\ ~ x.failed => IF x.entries = <<>> THEN file = None ELSE file # None /\ file.entries = x.entries
  BY <1>1 DEF IsFollowed, IsStore, IsBody
<1>7. IsStore(t) /\ IsFollowed(t, file) /\ Within(t.entries, s.entries) /\ t.body = None
  BY <1>2, <1>3, <1>4, EndedIs
<1> HIDE DEF t
<1> QED
  BY <1>7, StoreIs, QuietlyMoves DEF t

LEMMA WriteEndsKeeps ==
    ASSUME ProgressInv, NEW w \in Writers, Progress!WriteEnds(w) \/ Progress!WriteFails(w)
    PROVE  ProgressInv'
<1> DEFINE s == stores[w]
           at == IF s.writing = "renaming" THEN now ELSE s.last
           x == [s EXCEPT !.failed = FALSE, !.last = at]
           y == [s EXCEPT !.failed = TRUE]
<1>1. x = [entries |-> s.entries, writing |-> s.writing, body |-> s.body, dirty |-> s.dirty, timer |-> s.timer,
           closed |-> s.closed, alive |-> s.alive, last |-> at, failed |-> FALSE]
  <2>1. s = [entries |-> s.entries, writing |-> s.writing, body |-> s.body, dirty |-> s.dirty, timer |-> s.timer,
             closed |-> s.closed, alive |-> s.alive, last |-> s.last, failed |-> s.failed]
    BY StoreIs
  <2>2. x = [s EXCEPT !.failed = FALSE, !.last = at]
    OBVIOUS
  <2> HIDE DEF s, x, at
  <2> QED
    BY <2>1, <2>2
<1>2. y = [entries |-> s.entries, writing |-> s.writing, body |-> s.body, dirty |-> s.dirty, timer |-> s.timer,
           closed |-> s.closed, alive |-> s.alive, last |-> s.last, failed |-> TRUE]
  <2>1. s = [entries |-> s.entries, writing |-> s.writing, body |-> s.body, dirty |-> s.dirty, timer |-> s.timer,
             closed |-> s.closed, alive |-> s.alive, last |-> s.last, failed |-> s.failed]
    BY StoreIs
  <2>2. y = [s EXCEPT !.failed = TRUE]
    OBVIOUS
  <2> HIDE DEF s, y
  <2> QED
    BY <2>1, <2>2
<1>3. CASE Progress!WriteEnds(w)
  <2>1. /\ s.alive /\ s.writing \in {"renaming", "removing"}
        /\ files' = [files EXCEPT ![w] = s.body] /\ stores' = [stores EXCEPT ![w] = Progress!Ended(x)]
        /\ streams' = streams /\ UNCHANGED <<now, reader, reads, best>>
    BY <1>3 DEF Progress!WriteEnds
  <2> HIDE DEF x, at
  <2> QED
    BY <2>1, <1>1, EndKeeps
<1>4. CASE Progress!WriteFails(w)
  <2>1. /\ s.alive /\ s.writing # "no"
        /\ files' = [files EXCEPT ![w] = files[w]] /\ stores' = [stores EXCEPT ![w] = Progress!Ended(y)]
        /\ streams' = streams /\ UNCHANGED <<now, reader, reads, best>>
    BY <1>4, StoreIs DEF Progress!WriteFails
  <2> HIDE DEF y
  <2> QED
    BY <2>1, <1>2, EndKeeps
<1> QED
  BY <1>3, <1>4

LEMMA ReapKeeps ==
    ASSUME ProgressInv, NEW w \in Writers, Progress!Reap(w)
    PROVE  ProgressInv'
<1> DEFINE f == Progress!Pruned(stores[w].entries)
           t == Progress!Scheduled([stores[w] EXCEPT !.entries = f])
<1>1. IsStore(stores[w]) /\ IsFollowed(stores[w], files[w]) /\ IsEntries(stores[w].entries)
  BY StoreIs DEF Progress!Reap, IsStore
<1>2. IsEntries(f) /\ Within(f, stores[w].entries)
  BY <1>1, PrunedIs
<1>3. IsStore(t) /\ IsFollowed(t, files[w]) /\ Within(t.entries, stores[w].entries) /\ t.body = stores[w].body
  BY <1>1, <1>2, KeptIsScheduled
<1>4. stores' = [stores EXCEPT ![w] = t] /\ files' = [files EXCEPT ![w] = files[w]]
      /\ UNCHANGED <<now, reader, reads, best>> /\ streams' = streams
  <2>1. files = [files EXCEPT ![w] = files[w]]
    BY StoreIs
  <2>2. stores' = [stores EXCEPT ![w] = t]
    BY DEF Progress!Reap
  <2> QED
    BY <2>1, <2>2 DEF Progress!Reap
<1>5. StreamsGoOn
  BY <1>4, StoreIs
<1> HIDE DEF t
<1> QED
  BY <1>3, <1>4, <1>5, QuietlyMoves

LEMMA CloseKeeps ==
    ASSUME ProgressInv, NEW w \in Writers, Progress!Close(w)
    PROVE  ProgressInv'
<1> DEFINE s == stores[w]
           t == [s EXCEPT !.closed = TRUE, !.timer = FALSE, !.entries = <<>>, !.dirty = TRUE]
<1>1. IsStore(s) /\ s.alive /\ IsFollowed(s, files[w])
  BY StoreIs DEF Progress!Close
<1>2. t = [entries |-> <<>>, writing |-> s.writing, body |-> s.body, dirty |-> TRUE, timer |-> FALSE,
           closed |-> TRUE, alive |-> s.alive, last |-> s.last, failed |-> s.failed]
  <2>1. s = [entries |-> s.entries, writing |-> s.writing, body |-> s.body, dirty |-> s.dirty, timer |-> s.timer,
             closed |-> s.closed, alive |-> s.alive, last |-> s.last, failed |-> s.failed]
    BY StoreIs
  <2>2. t = [s EXCEPT !.closed = TRUE, !.timer = FALSE, !.entries = <<>>, !.dirty = TRUE]
    OBVIOUS
  <2> HIDE DEF s, t
  <2> QED
    BY <2>1, <2>2
<1>3. stores' = [stores EXCEPT ![w] = t] /\ files' = [files EXCEPT ![w] = files[w]]
      /\ UNCHANGED <<now, reader, reads, best>> /\ streams' = streams
  BY StoreIs DEF Progress!Close
<1> HIDE DEF t
<1>4. Cardinality(DOMAIN <<>>) <= OfProgress.entries
  BY NoEntries, FS_EmptySet, ProgressFacts
<1>5. IsStore(t)
  <2>1. {s.alive, s.failed} \subseteq BOOLEAN /\ (IF s.writing = "renaming" THEN IsBody(s.body) ELSE s.body = None)
        /\ s.writing \in {"no", "creating", "renaming", "removing"}
    BY <1>1 DEF IsStore
  <2> QED
    BY <1>2, <1>4, <2>1, NoEntries DEF IsStore
<1>6. IsFollowed(t, files[w])
  BY <1>2 DEF IsFollowed
<1>7. Within(t.entries, s.entries) /\ t.body = s.body
  BY <1>2, NoEntries DEF Within
<1> QED
  BY <1>3, <1>5, <1>6, <1>7, StoreIs, QuietlyMoves

LEMMA CrashKeeps ==
    ASSUME ProgressInv, NEW w \in Writers, Progress!Crash(w)
    PROVE  ProgressInv'
<1> DEFINE t == [Progress!newStore EXCEPT !.alive = FALSE]
<1>1. t = [entries |-> [r \in {} |-> None], writing |-> "no", body |-> None, dirty |-> FALSE, timer |-> FALSE,
           closed |-> FALSE, alive |-> FALSE, last |-> -1, failed |-> FALSE]
  <2>1. t = [Progress!newStore EXCEPT !.alive = FALSE]
    OBVIOUS
  <2> HIDE DEF t
  <2> QED
    BY <2>1 DEF Progress!newStore
<1>2. stores' = [stores EXCEPT ![w] = t] /\ files' = [files EXCEPT ![w] = files[w]]
      /\ UNCHANGED <<now, reader, reads, best>>
      /\ streams' = [r \in Prompts |-> IF streams[r].writer = w THEN [streams[r] EXCEPT !.stage = "over"] ELSE streams[r]]
  BY StoreIs DEF Progress!Crash, Prompts
<1> HIDE DEF t
<1>3. IsEntries(t.entries) /\ DOMAIN t.entries = {}
  BY <1>1 DEF IsEntries
<1>4. IsStore(t)
  <2>1. Cardinality(DOMAIN t.entries) <= OfProgress.entries
    BY <1>3, FS_EmptySet, ProgressFacts
  <2> QED
    BY <1>1, <1>3, <2>1 DEF IsStore
<1>5. StreamsGoOn
  <2> SUFFICES ASSUME NEW r \in Prompts
               PROVE  /\ streams'[r] \in [stage : {"new", "open", "over"}, writer : {None} \cup Writers, processed : Nat]
                      /\ streams'[r].writer = streams[r].writer /\ streams[r].processed <= streams'[r].processed
                      /\ (streams'[r].stage = "new") = (streams[r].stage = "new")
                      /\ streams[r].stage = "new" => streams'[r] = streams[r]
    BY <1>2 DEF StreamsGoOn
  <2>1. streams[r] \in [stage : {"new", "open", "over"}, writer : {None} \cup Writers, processed : Nat]
    BY DEF ProgressInv, ProgressTypeOK
  <2>2. CASE streams[r].writer = w
    <3>1. streams'[r] = [streams[r] EXCEPT !.stage = "over"]
      BY <1>2, <2>2
    <3>2. streams[r].stage # "new"
      BY <2>2, ProgressFacts DEF ProgressInv, ToldByWriter
    <3>3. streams'[r] = [stage |-> "over", writer |-> streams[r].writer, processed |-> streams[r].processed]
      BY <2>1, <3>1
    <3> QED
      BY <2>1, <3>2, <3>3
  <2>3. CASE streams[r].writer # w
    <3>1. streams'[r] = streams[r]
      BY <1>2, <2>3
    <3> QED
      BY <2>1, <3>1
  <2> QED
    BY <2>2, <2>3
<1> QED
  BY <1>1, <1>2, <1>3, <1>4, <1>5, QuietlyMoves DEF Within

LEMMA CountersKeep ==
    ASSUME ProgressInv, NEW r \in Prompts, NEW n \in 0 .. OfProgress.total, Progress!Counters(r, n)
    PROVE  ProgressInv'
<1> DEFINE w == streams[r].writer
           x == [processed |-> n, at |-> now, until |-> now + OfProgress.ttl]
<1>1. streams[r] \in [stage : {"new", "open", "over"}, writer : {None} \cup Writers, processed : Nat]
  BY DEF ProgressInv, ProgressTypeOK
<1>2. streams[r].stage = "open" /\ stores[w].alive /\ UNCHANGED <<now, files, reader, reads, best>>
  BY DEF Progress!Counters
<1>3. w \in Writers
  BY <1>1, <1>2 DEF ProgressInv, ToldByWriter
<1>4. /\ IsStore(stores[w]) /\ IsFollowed(stores[w], files[w]) /\ now \in Nat
      /\ files' = [files EXCEPT ![w] = files[w]]
  BY <1>2, <1>3, StoreIs
<1>5. CASE Progress!Grows(r, n)
  <2> DEFINE t == Progress!Updated(stores[w], r, n)
  <2>1. n \in Nat /\ streams[r].processed <= n
    BY <1>1, <1>5 DEF Progress!Grows
  <2>2. streams' = [streams EXCEPT ![r].processed = n] /\ stores' = [stores EXCEPT ![w] = t]
    BY <1>5 DEF Progress!Counters
  <2>3. StreamsGoOn
    BY <1>2, <2>1, <2>2 DEF StreamsGoOn, ProgressInv, ProgressTypeOK
  <2>4. /\ IsStore(t) /\ IsFollowed(t, files[w]) /\ t.body = stores[w].body
        /\ \A q \in DOMAIN t.entries :
              IsOld(stores[w], q, t.entries[q]) \/ (q = r /\ t.entries[q] = x)
    BY <1>4, <2>1, UpdatedIs
  <2>5. streams'[r].processed = n
    BY <2>2 DEF ProgressInv, ProgressTypeOK
  <2> HIDE DEF t
  <2>6. \A q \in DOMAIN t.entries :
           \/ IsOld(stores[w], q, t.entries[q])
           \/ /\ q \in Prompts /\ streams[q].writer = w
              /\ t.entries[q] = [processed |-> streams'[q].processed, at |-> now, until |-> now + OfProgress.ttl]
    BY <2>4, <2>5
  <2>7. WriterMoves(w, t, files[w])
    BY <1>2, <1>4, <2>2, <2>3, <2>4, <2>6 DEF WriterMoves
  <2> QED
    BY <1>3, <2>7, MovedKeeps
<1>6. CASE ~ Progress!Grows(r, n)
  <2> DEFINE t == Progress!Removed(stores[w], r)
             f == Progress!Kept(stores[w].entries, Prompts \ {r})
  <2>1. streams' = [streams EXCEPT ![r].stage = "over"] /\ stores' = [stores EXCEPT ![w] = t]
    BY <1>6 DEF Progress!Counters
  <2>2. StreamsGoOn
    <3>1. streams \in [Prompts -> [stage : {"new", "open", "over"}, writer : {None} \cup Writers, processed : Nat]]
      BY DEF ProgressInv, ProgressTypeOK
    <3>2. \A q \in Prompts : streams'[q] = IF q = r THEN [streams[r] EXCEPT !.stage = "over"] ELSE streams[q]
      BY <2>1, <3>1
    <3>3. streams'[r] = [stage |-> "over", writer |-> streams[r].writer, processed |-> streams[r].processed]
      BY <1>1, <3>2
    <3>4. streams' \in [Prompts -> [stage : {"new", "open", "over"}, writer : {None} \cup Writers, processed : Nat]]
      BY <1>1, <2>1, <3>1, <3>2, <3>3
    <3> QED
      BY <1>1, <1>2, <3>1, <3>2, <3>3, <3>4 DEF StreamsGoOn
  <2>3. /\ IsStore(t) /\ IsFollowed(t, files[w]) /\ t.body = stores[w].body
        /\ Within(t.entries, stores[w].entries)
    <3>1. CASE r \in DOMAIN stores[w].entries
      <4>1. IsEntries(f) /\ Within(f, stores[w].entries)
        BY <1>4, KeptIs DEF IsStore
      <4>2. t = Progress!Scheduled([stores[w] EXCEPT !.entries = f])
        BY <3>1 DEF Progress!Removed, Prompts
      <4> HIDE DEF f
      <4> QED
        BY <1>4, <4>1, <4>2, KeptIsScheduled
    <3>2. CASE r \notin DOMAIN stores[w].entries
      <4>1. t = stores[w]
        BY <3>2 DEF Progress!Removed
      <4> QED
        BY <1>4, <4>1 DEF Within
    <3> QED
      BY <3>1, <3>2
  <2> HIDE DEF t
  <2> QED
    BY <1>2, <1>3, <1>4, <2>1, <2>2, <2>3, QuietlyMoves
<1> QED
  BY <1>5, <1>6

\* A reply begins, of which nothing is told yet.
LEMMA OpenKeeps ==
    ASSUME ProgressInv, NEW r \in Prompts, NEW w \in Writers, Progress!Open(r, w)
    PROVE  ProgressInv'
<1>1. /\ streams[r].stage = "new" /\ streams[r].writer = None /\ streams[r].processed = 0
      /\ streams' = [streams EXCEPT ![r] = [stage |-> "open", writer |-> w, processed |-> 0]]
      /\ UNCHANGED <<now, stores, files, reader, reads, best>>
  BY DEF Progress!Open, ProgressInv, ToldByWriter
<1>2. /\ streams'[r] = [stage |-> "open", writer |-> w, processed |-> 0]
      /\ \A q \in Prompts \ {r} : streams'[q] = streams[q]
      /\ streams' \in [Prompts -> [stage : {"new", "open", "over"}, writer : {None} \cup Writers, processed : Nat]]
  BY <1>1 DEF ProgressInv, ProgressTypeOK
<1>3. \A q \in Prompts : streams'[q].processed = streams[q].processed
  BY <1>1, <1>2
<1>4. \A q \in Prompts : streams[q].writer \in Writers => streams'[q].writer = streams[q].writer
  BY <1>1, <1>2, ProgressFacts
<1>5. \A v \in Writers : (FileSays(v))' = FileSays(v) /\ (BodySays(v))' = BodySays(v) /\ (StoreSays(v))' = StoreSays(v)
  BY <1>1 DEF FileSays, BodySays, StoreSays
<1>6. ProgressTypeOK'
  BY <1>1, <1>2 DEF ProgressInv, ProgressTypeOK
<1>7. ToldByWriter'
  <2>1. ASSUME NEW v \in Writers, NEW q \in DOMAIN FileSays(v) \cup DOMAIN BodySays(v) \cup DOMAIN StoreSays(v)
        PROVE  streams'[q].writer = v
    BY <2>1, <1>4, SaysTypes DEF ProgressInv, ToldByWriter, IsEntries
  <2>2. \A q \in Prompts : IF streams'[q].stage = "new" THEN streams'[q].writer = None /\ streams'[q].processed = 0
                           ELSE streams'[q].writer # None
    BY <1>2, ProgressFacts DEF ProgressInv, ToldByWriter
  <2> QED
    BY <1>5, <2>1, <2>2 DEF ToldByWriter
<1>8. Dated' /\ WritesFollow' /\ Progress!PromptIsOfOne'
  BY <1>1 DEF ProgressInv, Dated, WritesFollow, Progress!PromptIsOfOne, StoreSays, IsDated
<1>9. \A q \in Prompts, n \in Nat : Passed(q, n) => Passed(q, n)'
  BY <1>3, <1>5 DEF Passed
<1>10. ToldInOrder'
  <2>1. \A v \in Writers : DOMAIN FileSays(v) \subseteq Prompts /\ DOMAIN BodySays(v) \subseteq Prompts
                           /\ DOMAIN StoreSays(v) \subseteq Prompts
    BY SaysTypes DEF IsEntries
  <2>2. \A v \in Writers :
           (/\ AtMost(FileSays(v), BodySays(v))
            /\ AtMost(FileSays(v), StoreSays(v)) /\ AtMost(BodySays(v), StoreSays(v))
            /\ \A q \in DOMAIN FileSays(v) : FileSays(v)[q].processed <= streams[q].processed
            /\ \A q \in DOMAIN BodySays(v) : BodySays(v)[q].processed <= streams[q].processed
            /\ \A q \in DOMAIN StoreSays(v) : StoreSays(v)[q].processed <= streams[q].processed)'
    BY <1>3, <1>5, <2>1 DEF ProgressInv, ToldInOrder, AtMost
  <2>3. \A q \in Prompts : Passed(q, best[q].processed)'
    BY <1>1, <1>9 DEF ProgressInv, ProgressTypeOK, ToldInOrder, Passed
  <2>4. ASSUME NEW i \in DOMAIN reads, NEW e \in reads[i].entries
        PROVE  Passed(e.request, e.processed)'
    <3>1. e.request \in Prompts /\ e.processed \in Nat
      BY <2>4 DEF ProgressInv, ProgressTypeOK, IsReadOf, Seen
    <3> QED
      BY <2>4, <3>1, <1>9 DEF ProgressInv, ToldInOrder
  <2> QED
    BY <1>1, <2>2, <2>3, <2>4 DEF ToldInOrder
<1>11. ReadsFollow'
  <2>1. \A i \in DOMAIN reads : reads[i].present \subseteq Prompts /\ (reads[i].todo # None => reads[i].todo \subseteq Writers)
    BY ProgressFacts DEF ProgressInv, ProgressTypeOK, IsReadOf
  <2>2. \A i \in DOMAIN reads : Sees(reads[i]) =>
           \A q \in reads[i].present : streams'[q].writer \in reads[i].todo \/ \E e \in reads[i].entries : e.request = q
    BY <1>4, <2>1 DEF ProgressInv, ReadsFollow, Sees
  <2> QED
    BY <1>1, <2>2 DEF ProgressInv, ReadsFollow
<1> QED
  BY <1>6, <1>7, <1>8, <1>10, <1>11 DEF ProgressInv

\* Time passes.
LEMMA ProgressTicks ==
    ASSUME ProgressInv, Progress!Tick
    PROVE  ProgressInv'
<1>1. now \in Nat /\ now' = now + 1 /\ UNCHANGED <<streams, stores, files, reader, reads, best>>
  BY DEF Progress!Tick, ProgressInv, ProgressTypeOK
<1>2. ProgressTypeOK' /\ ToldByWriter' /\ ReadsFollow' /\ WritesFollow' /\ Progress!PromptIsOfOne'
  BY <1>1 DEF ProgressInv, ProgressTypeOK, ToldByWriter, ReadsFollow, WritesFollow, Progress!PromptIsOfOne,
              FileSays, BodySays, StoreSays
<1>3. ToldInOrder'
  BY <1>1 DEF ProgressInv, ToldInOrder, Passed, FileSays, BodySays, StoreSays
<1>4. ASSUME NEW w \in Writers, NEW r \in DOMAIN StoreSays(w)
      PROVE  StoreSays(w)[r].at <= now + 1
  BY <1>1, SaysTypes DEF IsEntries, Progress!Point, ProgressInv, Dated, IsDated
<1>5. Dated'
  BY <1>1, <1>4 DEF ProgressInv, Dated, IsDated, StoreSays
<1> QED
  BY <1>2, <1>3, <1>5 DEF ProgressInv

\* The flights of the reader are a sequence.
LEMMA AppendedIs ==
    ASSUME NEW s, s = [i \in 1 .. Len(s) |-> s[i]], Len(s) \in Nat, NEW x
    PROVE  LET t == Append(s, x) IN
           /\ Len(t) = Len(s) + 1 /\ t = [i \in 1 .. Len(t) |-> t[i]]
           /\ t[Len(s) + 1] = x /\ \A i \in 1 .. Len(s) : t[i] = s[i]
<1> DEFINE X == {s[i] : i \in 1 .. Len(s)} \cup {x}
           n == Len(s)
<1>1. s \in Seq(X)
  <2>1. s \in [1 .. n -> X]
    OBVIOUS
  <2> HIDE DEF X, n
  <2>2. n \in Nat
    BY DEF n
  <2> QED
    BY <2>1, <2>2, SeqDef
<1>2. x \in X
  OBVIOUS
<1> HIDE DEF X
<1>3. Append(s, x) \in Seq(X) /\ Len(Append(s, x)) = Len(s) + 1
  BY <1>1, <1>2, AppendProperties
<1>4. Append(s, x) = [i \in 1 .. Len(Append(s, x)) |-> Append(s, x)[i]]
  BY <1>3, LenProperties
<1>5. Append(s, x)[Len(s) + 1] = x
  BY <1>1, <1>2, AppendProperties
<1>6. \A i \in 1 .. Len(s) : Append(s, x)[i] = s[i]
  BY <1>1, <1>2, AppendProperties
<1> QED
  BY <1>3, <1>4, <1>5, <1>6

LEMMA RemovedIs ==
    ASSUME NEW X, NEW s \in Seq(X), NEW i \in 1 .. Len(s), NEW t, t = Progress!RemoveAt(s, i)
    PROVE  /\ Len(t) = Len(s) - 1 /\ t = [j \in 1 .. Len(t) |-> t[j]]
           /\ \A j \in 1 .. Len(t) : t[j] = IF j < i THEN s[j] ELSE s[j + 1]
<1> DEFINE u == SubSeq(s, 1, i - 1)
           v == SubSeq(s, i + 1, Len(s))
<1>1. s \in Seq(X) /\ Len(s) \in Nat /\ i \in 1 .. Len(s)
  BY LenProperties
<1>2. u \in Seq(X) /\ Len(u) = i - 1 /\ \A j \in 1 .. i - 1 : u[j] = s[j]
  BY <1>1
<1>3. v \in Seq(X) /\ Len(v) = Len(s) - i /\ \A j \in 1 .. Len(s) - i : v[j] = s[i + j]
  <2>1. \A j \in i + 1 .. Len(s) : s[j] \in X
    BY <1>1
  <2>2. v \in Seq(X) /\ Len(v) = IF i + 1 <= Len(s) THEN Len(s) - (i + 1) + 1 ELSE 0
    BY <2>1, SubSeqProperties
  <2>3. \A j \in 1 .. Len(s) - (i + 1) + 1 : v[j] = s[i + 1 + j - 1]
    BY <2>1, SubSeqProperties
  <2> QED
    BY <2>2, <2>3
<1>4. t = u \o v
  BY DEF Progress!RemoveAt
<1> HIDE DEF u, v
<1>5. t \in Seq(X) /\ Len(t) = Len(s) - 1
  <2>1. u \o v \in Seq(X) /\ Len(u \o v) = Len(u) + Len(v)
    BY <1>2, <1>3, ConcatProperties, Zenon
  <2>2. Len(u) + Len(v) = Len(s) - 1
    BY <1>2, <1>3
  <2> QED
    BY <1>4, <2>1, <2>2, Zenon
<1>7. \A j \in 1 .. Len(s) - 1 : t[j] = IF j <= i - 1 THEN u[j] ELSE v[j - (i - 1)]
  BY <1>2, <1>3, <1>4, ConcatProperties
<1>8. ASSUME NEW j \in 1 .. Len(s) - 1
      PROVE  t[j] = IF j < i THEN s[j] ELSE s[j + 1]
  <2>1. CASE j < i
    <3>1. j \in 1 .. i - 1 /\ j <= i - 1
      BY <2>1
    <3> QED
      BY <1>2, <1>7, <2>1, <3>1
  <2>2. CASE ~ (j < i)
    <3>1. j - (i - 1) \in 1 .. Len(s) - i /\ i + (j - (i - 1)) = j + 1 /\ ~ (j <= i - 1)
      BY <2>2
    <3> QED
      BY <1>3, <1>7, <2>2, <3>1
  <2> QED
    BY <2>1, <2>2
<1>6. t = [j \in 1 .. Len(t) |-> t[j]]
  BY <1>5, LenProperties
<1> QED
  BY <1>5, <1>6, <1>8

\* What the reader does, beside files that stay.
LEMMA ReaderKeeps ==
    ASSUME ProgressInv, UNCHANGED <<now, streams, stores, files>>,
           reader' = [anchor |-> reader'.anchor, boundary |-> reader'.boundary, lastAt |-> reader'.lastAt,
                      sequence |-> reader'.sequence],
           reader'.sequence \in Nat,
           reads' = [i \in 1 .. Len(reads') |-> reads'[i]], Len(reads') \in Nat,
           \A i \in DOMAIN reads' : IsReadOf(reads'[i]),
           best' \in [Prompts -> [processed : Nat, at : Int, back : BOOLEAN, alone : BOOLEAN]],
           \A i \in DOMAIN reads' : \A e \in reads'[i].entries : Passed(e.request, e.processed),
           \A r \in Prompts : Passed(r, best'[r].processed),
           ReadsFollow', Progress!PromptIsOfOne'
    PROVE  ProgressInv'
<1>1. ProgressTypeOK'
  BY DEF ProgressInv, ProgressTypeOK
<1>2. ToldByWriter' /\ Dated' /\ WritesFollow'
  BY DEF ProgressInv, ToldByWriter, Dated, WritesFollow, FileSays, BodySays, StoreSays
<1>3. /\ \A w \in Writers : (FileSays(w))' = FileSays(w) /\ (BodySays(w))' = BodySays(w) /\ (StoreSays(w))' = StoreSays(w)
      /\ streams' = streams
  BY DEF FileSays, BodySays, StoreSays
<1>4. \A r, n : Passed(r, n)' = Passed(r, n)
  BY <1>3 DEF Passed
<1>5. \A r \in Prompts : Passed(r, best[r].processed)'
  BY <1>3 DEF Passed
<1>6. ToldInOrder'
  BY <1>3 DEF ProgressInv, ToldInOrder, Passed, AtMost
<1> QED
  BY <1>1, <1>2, <1>6 DEF ProgressInv

\* A read takes a step: what it carries is of before, or of a file that stands.
LEMMA StepKeeps ==
    ASSUME ProgressInv, NEW i \in DOMAIN reads, NEW y, IsReadOf(y),
           reads' = [reads EXCEPT ![i] = y], UNCHANGED <<now, streams, stores, files, reader, best>>,
           y.sequence = reads[i].sequence,
           \A e \in y.entries :
              \/ e \in reads[i].entries
              \/ Passed(e.request, e.processed) /\ best[e.request].processed <= e.processed,
           Sees(y) =>
              \A r \in y.present : streams[r].writer \in y.todo \/ \E e \in y.entries : e.request = r
    PROVE  ProgressInv'
<1>1. /\ reads = [j \in 1 .. Len(reads) |-> reads[j]] /\ Len(reads) \in Nat
      /\ \A j \in DOMAIN reads : IsReadOf(reads[j])
  BY DEF ProgressInv, ProgressTypeOK
<1>2. reads' = [j \in 1 .. Len(reads) |-> IF j = i THEN y ELSE reads[j]]
  BY <1>1
<1>3. Len(reads') = Len(reads) /\ DOMAIN reads' = 1 .. Len(reads) /\ DOMAIN reads = 1 .. Len(reads)
  BY <1>1, <1>2
<1>4. reads' = [j \in 1 .. Len(reads') |-> reads'[j]] /\ \A j \in DOMAIN reads' : IsReadOf(reads'[j])
  BY <1>1, <1>2, <1>3
<1>5. \A j \in DOMAIN reads' : \A e \in reads'[j].entries : Passed(e.request, e.processed)
  BY <1>2, <1>3 DEF ProgressInv, ToldInOrder
<1>6. ReadsFollow'
  <2>1. \A j, k \in DOMAIN reads' : j < k => reads'[j].sequence < reads'[k].sequence
    BY <1>2, <1>3 DEF ProgressInv, ReadsFollow
  <2>2. ASSUME NEW j \in DOMAIN reads'
        PROVE  /\ reads'[j].sequence <= reader.sequence
               /\ reads'[j].sequence = reader.sequence =>
                     \A e \in reads'[j].entries : best[e.request].processed <= e.processed
               /\ Sees(reads'[j]) =>
                     \A r \in reads'[j].present : \/ streams[r].writer \in reads'[j].todo
                                                  \/ \E e \in reads'[j].entries : e.request = r
    <3>1. CASE j = i
      BY <1>2, <1>3, <3>1 DEF ProgressInv, ReadsFollow
    <3>2. CASE j # i
      BY <1>2, <1>3, <3>2 DEF ProgressInv, ReadsFollow
    <3> QED
      BY <3>1, <3>2
  <2> QED
    BY <2>1, <2>2 DEF ReadsFollow
<1>7. Progress!PromptIsOfOne' /\ \A r \in Prompts : Passed(r, best'[r].processed)
  BY DEF ProgressInv, Progress!PromptIsOfOne, ToldInOrder
<1>8. /\ reader' = [anchor |-> reader'.anchor, boundary |-> reader'.boundary, lastAt |-> reader'.lastAt,
                    sequence |-> reader'.sequence]
      /\ reader'.sequence \in Nat
      /\ best' \in [Prompts -> [processed : Nat, at : Int, back : BOOLEAN, alone : BOOLEAN]]
  BY DEF ProgressInv, ProgressTypeOK
<1>9. Len(reads') \in Nat
  BY <1>1, <1>3
<1> QED
  BY <1>4, <1>5, <1>6, <1>7, <1>8, <1>9, ReaderKeeps

\* Who is there is told of in the file of its writer.
LEMMA PresentIs ==
    ASSUME ProgressInv, NEW at
    PROVE  /\ Progress!Present(at) \subseteq OfProgress.matching
           /\ \A r \in Progress!Present(at) :
                 LET w == streams[r].writer IN
                 /\ w \in Writers /\ files[w] # None /\ r \in DOMAIN files[w].entries
                 /\ files[w].entries[r].until > at
<1>1. Progress!Present(at) \subseteq OfProgress.matching
  BY DEF Progress!Present
<1> SUFFICES ASSUME NEW r \in Progress!Present(at)
             PROVE  LET w == streams[r].writer IN
                    /\ w \in Writers /\ files[w] # None /\ r \in DOMAIN files[w].entries
                    /\ files[w].entries[r].until > at
  BY <1>1
<1>2. PICK w \in Writers : files[w] # None /\ r \in DOMAIN files[w].entries /\ files[w].entries[r].until > at
  BY DEF Progress!Present, Writers
<1>3. r \in DOMAIN FileSays(w)
  BY <1>2 DEF FileSays, Says
<1>4. streams[r].writer = w
  BY <1>3 DEF ProgressInv, ToldByWriter
<1> QED
  BY <1>2, <1>4

\* What a file says of a request goes on from all that was shown of it.
LEMMA FileGoesOn ==
    ASSUME ProgressInv, NEW w \in Writers, files[w] # None, NEW r \in DOMAIN files[w].entries
    PROVE  LET p == files[w].entries[r] IN
           /\ r \in Prompts /\ p \in Progress!Point /\ Passed(r, p.processed) /\ best[r].processed <= p.processed
<1> DEFINE p == files[w].entries[r]
<1>1. FileSays(w) = files[w].entries /\ IsEntries(FileSays(w))
  BY SaysTypes DEF FileSays, Says
<1>2. r \in Prompts /\ p \in Progress!Point
  BY <1>1 DEF IsEntries
<1>3. streams[r].writer = w
  BY <1>1 DEF ProgressInv, ToldByWriter
<1>4. \A v \in Writers : r \in DOMAIN FileSays(v) \cup DOMAIN BodySays(v) \cup DOMAIN StoreSays(v) => v = w
  BY <1>3 DEF ProgressInv, ToldByWriter
<1>5. /\ p.processed <= streams[r].processed /\ p.processed <= FileSays(w)[r].processed
      /\ r \in DOMAIN BodySays(w) => p.processed <= BodySays(w)[r].processed
      /\ r \in DOMAIN StoreSays(w) => p.processed <= StoreSays(w)[r].processed
  BY <1>1, <1>2 DEF ProgressInv, ToldInOrder, AtMost, Progress!Point
<1>6. Passed(r, p.processed)
  BY <1>4, <1>5 DEF Passed
<1>7. best[r].processed <= p.processed
  BY <1>1, <1>2 DEF ProgressInv, ToldInOrder, Passed
<1> QED
  BY <1>2, <1>6, <1>7

\* What a file that counts tells.
LEMMA ParsedIs ==
    ASSUME ProgressInv, NEW w \in Writers, NEW at \in Nat, Progress!parseProgressFile(w, at) # None
    PROVE  LET P == Progress!parseProgressFile(w, at) IN
           /\ P \subseteq Seen /\ IsFiniteSet(P)
           /\ \A e \in P : Passed(e.request, e.processed) /\ best[e.request].processed <= e.processed
           /\ \A r \in Progress!Present(at) : streams[r].writer = w => \E e \in P : e.request = r
<1> DEFINE body == files[w]
           D == {q \in DOMAIN body.entries : body.entries[q].until > at /\ body.updated + OfProgress.ttl > at}
           entry(r) == [writer |-> w, request |-> r, processed |-> body.entries[r].processed, at |-> body.entries[r].at]
           P == {entry(r) : r \in D}
<1>1. body # None /\ Progress!parseProgressFile(w, at) = P
  BY DEF Progress!parseProgressFile
<1>2. IsBody(body) /\ IsEntries(body.entries)
  BY <1>1 DEF ProgressInv, ProgressTypeOK, IsBody
<1>3. IsFiniteSet(D)
  BY <1>2, ProgressFacts, FS_Subset DEF IsEntries
<1>4. IsFiniteSet(P)
  <2> DEFINE f == [r \in D |-> entry(r)]
  <2> HIDE DEF D
  <2>1. f \in Surjection(D, P)
    BY DEF Surjection
  <2> HIDE DEF f, P
  <2> QED
    BY <1>3, <2>1, FS_Surjection
<1>5. ASSUME NEW r \in D
      PROVE  /\ entry(r) \in Seen /\ Passed(r, entry(r).processed) /\ best[r].processed <= entry(r).processed
  <2>1. r \in DOMAIN body.entries
    OBVIOUS
  <2>2. /\ r \in Prompts /\ body.entries[r] \in Progress!Point /\ Passed(r, body.entries[r].processed)
        /\ best[r].processed <= body.entries[r].processed
    BY <1>1, <2>1, FileGoesOn
  <2> QED
    BY <2>2 DEF Seen, Progress!Point
<1>6. ASSUME NEW r \in Progress!Present(at), streams[r].writer = w
      PROVE  r \in D
  <2>1. r \in DOMAIN body.entries /\ body.entries[r].until > at
    BY <1>6, PresentIs
  <2>2. body.entries[r].at <= body.updated /\ body.entries[r].until = body.entries[r].at + OfProgress.ttl
    BY <1>1, <2>1 DEF ProgressInv, Dated, IsDated
  <2>3. body.entries[r] \in Progress!Point /\ body.updated \in Nat /\ OfProgress.ttl \in Nat
    BY <1>2, <2>1, ProgressFacts DEF IsEntries, IsBody
  <2>4. body.updated + OfProgress.ttl > at
    BY <2>1, <2>2, <2>3 DEF Progress!Point
  <2> QED
    BY <2>1, <2>4
<1> HIDE DEF D, body
<1>7. \A e \in P : e \in Seen /\ Passed(e.request, e.processed) /\ best[e.request].processed <= e.processed
  <2> SUFFICES ASSUME NEW r \in D
               PROVE  /\ entry(r) \in Seen /\ Passed(entry(r).request, entry(r).processed)
                      /\ best[entry(r).request].processed <= entry(r).processed
    OBVIOUS
  <2>1. entry(r).request = r
    OBVIOUS
  <2> HIDE DEF entry
  <2> QED
    BY <1>5, <2>1
<1>8. \A r \in Progress!Present(at) : streams[r].writer = w => \E e \in P : e.request = r
  <2>1. \A r \in D : entry(r) \in P /\ entry(r).request = r
    OBVIOUS
  <2> HIDE DEF P, entry
  <2> QED
    BY <1>6, <2>1
<1> QED
  BY <1>1, <1>4, <1>7, <1>8

\* A read lists the files.
LEMMA ScanKeeps ==
    ASSUME ProgressInv, NEW i \in DOMAIN reads, Progress!Scan(i)
    PROVE  ProgressInv'
<1> DEFINE x == reads[i]
           named == {w \in Writers : files[w] # None}
           P == x.present \cap Progress!Present(x.at)
           y(t) == [sequence |-> x.sequence, at |-> x.at, todo |-> t, entries |-> x.entries, present |-> P]
<1>1. /\ IsReadOf(x) /\ x.todo = None /\ x.entries = {}
      /\ x = [sequence |-> x.sequence, at |-> x.at, todo |-> x.todo, entries |-> x.entries, present |-> x.present]
  BY DEF ProgressInv, ProgressTypeOK, IsReadOf, Progress!Scan
<1>2. UNCHANGED <<now, streams, stores, files, reader, best>>
  BY DEF Progress!Scan
<1>3. PICK t \in {{}, named} :
         reads' = [reads EXCEPT ![i] = [[x EXCEPT !.todo = t] EXCEPT !.present =
                                           [x EXCEPT !.todo = t].present \cap Progress!Present([x EXCEPT !.todo = t].at)]]
  BY DEF Progress!Scan, Progress!Step, Writers
<1>4. reads' = [reads EXCEPT ![i] = y(t)]
  <2> DEFINE z == [x EXCEPT !.todo = t]
  <2>1. z = [sequence |-> x.sequence, at |-> x.at, todo |-> t, entries |-> x.entries, present |-> x.present]
    BY <1>1
  <2>2. reads' = [reads EXCEPT ![i] = [z EXCEPT !.present = z.present \cap Progress!Present(z.at)]]
    BY <1>3
  <2> HIDE DEF z
  <2>3. [z EXCEPT !.present = z.present \cap Progress!Present(z.at)] = y(t)
    BY <2>1
  <2> QED
    BY <2>2, <2>3
<1>5. IsReadOf(y(t))
  BY <1>1, ProgressFacts DEF IsReadOf
<1>6. ASSUME Sees(y(t)), NEW r \in P
      PROVE  streams[r].writer \in t \/ \E e \in x.entries : e.request = r
  BY <1>1, <1>6, PresentIs DEF Sees
<1> QED
  BY <1>2, <1>4, <1>5, <1>6, StepKeeps

\* A read reads a file, or is left with nothing.
LEMMA ReadKeeps ==
    ASSUME ProgressInv, NEW i \in DOMAIN reads, NEW w \in Writers, Progress!Read(i, w)
    PROVE  ProgressInv'
<1> DEFINE x == reads[i]
           parsed == Progress!parseProgressFile(w, x.at)
           P == x.present \cap Progress!Present(x.at)
           y(t, f) == [sequence |-> x.sequence, at |-> x.at, todo |-> t, entries |-> f, present |-> P]
<1>1. /\ IsReadOf(x) /\ x.todo # None /\ w \in x.todo /\ x.at \in Nat
      /\ x = [sequence |-> x.sequence, at |-> x.at, todo |-> x.todo, entries |-> x.entries, present |-> x.present]
  BY DEF ProgressInv, ProgressTypeOK, IsReadOf, Progress!Read
<1>2. UNCHANGED <<now, streams, stores, files, reader, best>>
  BY DEF Progress!Read
<1> DEFINE Z == IF parsed = None THEN [x EXCEPT !.todo = {}, !.entries = {}]
                ELSE [x EXCEPT !.todo = x.todo \ {w}, !.entries = x.entries \cup parsed]
<1>3. reads' = [reads EXCEPT ![i] = [Z EXCEPT !.present = Z.present \cap Progress!Present(Z.at)]]
  BY DEF Progress!Read, Progress!Step
<1> HIDE DEF Z
<1>6. ASSUME NEW t, NEW f, Z = [x EXCEPT !.todo = t, !.entries = f]
      PROVE  reads' = [reads EXCEPT ![i] = y(t, f)]
  <2> DEFINE u == [x EXCEPT !.todo = t]
  <2>1. u = [sequence |-> x.sequence, at |-> x.at, todo |-> t, entries |-> x.entries, present |-> x.present]
    BY <1>1
  <2>2. Z = [u EXCEPT !.entries = f]
    BY <1>6
  <2> HIDE DEF u
  <2>3. Z = [sequence |-> x.sequence, at |-> x.at, todo |-> t, entries |-> f, present |-> x.present]
    BY <2>1, <2>2
  <2>4. [Z EXCEPT !.present = Z.present \cap Progress!Present(Z.at)] = y(t, f)
    BY <2>3
  <2> QED
    BY <1>3, <2>4
<1>4. CASE parsed = None
  <2>1. reads' = [reads EXCEPT ![i] = y({}, {})]
    <3>1. Z = [x EXCEPT !.todo = {}, !.entries = {}]
      BY <1>4 DEF Z
    <3> QED
      BY <1>6, <3>1, Zenon
  <2>2. IsReadOf(y({}, {}))
    BY <1>1, ProgressFacts, FS_EmptySet DEF IsReadOf
  <2>3. ~ Sees(y({}, {}))
    BY DEF Sees
  <2> QED
    BY <1>2, <2>1, <2>2, <2>3, StepKeeps
<1>5. CASE parsed # None
  <2> DEFINE t == x.todo \ {w}
             f == x.entries \cup parsed
  <2>1. reads' = [reads EXCEPT ![i] = y(t, f)]
    <3>1. Z = [x EXCEPT !.todo = t, !.entries = f]
      BY <1>5 DEF Z
    <3> QED
      BY <1>6, <3>1, Zenon
  <2>2. /\ parsed \subseteq Seen /\ IsFiniteSet(parsed)
        /\ \A e \in parsed : Passed(e.request, e.processed) /\ best[e.request].processed <= e.processed
        /\ \A r \in Progress!Present(x.at) : streams[r].writer = w => \E e \in parsed : e.request = r
    BY <1>1, <1>5, ParsedIs
  <2>3. IsFiniteSet(f)
    BY <1>1, <2>2, FS_Union DEF IsReadOf
  <2>4. IsReadOf(y(t, f))
    BY <1>1, <2>2, <2>3, ProgressFacts DEF IsReadOf
  <2>5. ASSUME NEW r \in P
        PROVE  streams[r].writer \in t \/ \E e \in f : e.request = r
    <3>1. Sees(x)
      BY <1>1 DEF Sees
    <3>2. streams[r].writer \in x.todo \/ \E e \in x.entries : e.request = r
      BY <3>1 DEF ProgressInv, ReadsFollow
    <3> QED
      BY <2>2, <3>2
  <2> HIDE DEF parsed, t
  <2> QED
    BY <1>2, <2>1, <2>2, <2>4, <2>5, StepKeeps
<1> QED
  BY <1>4, <1>5

\* The fields of the reader.
LEMMA ReaderIs ==
    ASSUME ProgressInv
    PROVE  /\ reader = [anchor |-> reader.anchor, boundary |-> reader.boundary, lastAt |-> reader.lastAt,
                        sequence |-> reader.sequence]
           /\ reader.sequence \in Nat /\ now \in Nat
           /\ reads = [i \in 1 .. Len(reads) |-> reads[i]] /\ Len(reads) \in Nat
           /\ DOMAIN reads = 1 .. Len(reads) /\ \A i \in DOMAIN reads : IsReadOf(reads[i])
           /\ best \in [Prompts -> [processed : Nat, at : Int, back : BOOLEAN, alone : BOOLEAN]]
BY DEF ProgressInv, ProgressTypeOK

\* A reset outdates the reads that are under way.
LEMMA ResetIs ==
    ASSUME ProgressInv, NEW at
    PROVE  LET p == Progress!ResetReader(reader, at) IN
           /\ p = [anchor |-> p.anchor, boundary |-> p.boundary, lastAt |-> p.lastAt, sequence |-> p.sequence]
           /\ p.sequence = reader.sequence + 1 /\ p.sequence \in Nat
<1> DEFINE after == IF at > reader.boundary THEN at ELSE reader.boundary
<1>1. Progress!ResetReader(reader, at) = [reader EXCEPT !.sequence = reader.sequence + 1, !.anchor = None,
                                                        !.lastAt = None, !.boundary = after]
  BY DEF Progress!ResetReader
<1> HIDE DEF after
<1>2. Progress!ResetReader(reader, at) = [anchor |-> None, boundary |-> after, lastAt |-> None, sequence |-> reader.sequence + 1]
  BY <1>1, ReaderIs
<1> QED
  BY <1>2, ReaderIs

\* An observation resets the reader, or begins to read.
LEMMA ObserveKeeps ==
    ASSUME ProgressInv, NEW scope \in BOOLEAN, Progress!Observe(scope)
    PROVE  ProgressInv'
<1>1. UNCHANGED <<now, streams, stores, files, best>>
  BY DEF Progress!Observe
<1>2. /\ \A r \in Prompts : Passed(r, best'[r].processed)
      /\ \A i \in DOMAIN reads : \A e \in reads[i].entries : Passed(e.request, e.processed)
      /\ Progress!PromptIsOfOne'
      /\ best' \in [Prompts -> [processed : Nat, at : Int, back : BOOLEAN, alone : BOOLEAN]]
  BY <1>1, ReaderIs DEF ProgressInv, ToldInOrder, Progress!PromptIsOfOne
<1>3. CASE reader' = Progress!ResetReader(reader, now) /\ reads' = reads
  <2>1. reader'.sequence = reader.sequence + 1 /\ reader.sequence \in Nat
    BY <1>3, ResetIs, ReaderIs
  <2>2. ReadsFollow'
    BY <1>1, <1>3, <2>1, ReaderIs DEF ProgressInv, ReadsFollow, IsReadOf
  <2> QED
    BY <1>1, <1>2, <1>3, <2>2, ReaderIs, ResetIs, ReaderKeeps
<1>4. CASE /\ reader' = [reader EXCEPT !.lastAt = now, !.sequence = @ + 1]
           /\ reads' = Append(reads, [sequence |-> reader.sequence + 1, at |-> now, todo |-> None,
                                      entries |-> {}, present |-> Progress!Present(now)])
  <2> DEFINE n == Len(reads)
             y == [sequence |-> reader.sequence + 1, at |-> now, todo |-> None,
                   entries |-> {}, present |-> Progress!Present(now)]
  <2>1. /\ Len(reads') = n + 1 /\ reads' = [j \in 1 .. Len(reads') |-> reads'[j]]
        /\ reads'[n + 1] = y /\ \A j \in 1 .. n : reads'[j] = reads[j]
    BY <1>4, ReaderIs, AppendedIs
  <2>2. IsReadOf(y) /\ ~ Sees(y) /\ y.sequence = reader.sequence + 1 /\ y.entries = {}
    BY ReaderIs, PresentIs, FS_EmptySet DEF IsReadOf, Sees
  <2>3. reader' = [anchor |-> reader.anchor, boundary |-> reader.boundary, lastAt |-> now, sequence |-> reader.sequence + 1]
    BY <1>4, ReaderIs
  <2> HIDE DEF y
  <2>4. DOMAIN reads' = 1 .. n + 1 /\ n \in Nat /\ DOMAIN reads = 1 .. n
    BY <2>1, ReaderIs
  <2>5. \A j \in 1 .. n + 1 : (j = n + 1 /\ reads'[j] = y) \/ (j \in DOMAIN reads /\ reads'[j] = reads[j])
    BY <2>1, <2>4
  <2>6. \A j \in DOMAIN reads' : IsReadOf(reads'[j])
    BY <2>2, <2>4, <2>5, ReaderIs
  <2>7. \A j \in DOMAIN reads' : \A e \in reads'[j].entries : Passed(e.request, e.processed)
    BY <1>2, <2>2, <2>4, <2>5
  <2>8. ReadsFollow'
    <3>1. \A j, k \in DOMAIN reads' : j < k => reads'[j].sequence < reads'[k].sequence
      BY <2>2, <2>4, <2>5, ReaderIs DEF ProgressInv, ReadsFollow, IsReadOf
    <3>2. ASSUME NEW j \in DOMAIN reads'
          PROVE  /\ reads'[j].sequence <= reader'.sequence
                 /\ reads'[j].sequence = reader'.sequence =>
                       \A e \in reads'[j].entries : best'[e.request].processed <= e.processed
                 /\ Sees(reads'[j]) =>
                       \A r \in reads'[j].present : \/ streams'[r].writer \in reads'[j].todo
                                                    \/ \E e \in reads'[j].entries : e.request = r
      <4>1. CASE j = n + 1
        BY <2>2, <2>3, <2>4, <2>5, <4>1, ReaderIs
      <4>2. CASE j # n + 1
        <5>1. j \in DOMAIN reads /\ reads'[j] = reads[j]
          BY <2>4, <2>5, <4>2
        <5>2. reads[j].sequence \in Nat /\ reads[j].sequence <= reader.sequence /\ reader.sequence \in Nat
          BY <5>1, ReaderIs DEF ProgressInv, ReadsFollow, IsReadOf
        <5>3. Sees(reads[j]) => \A r \in reads[j].present : \/ streams[r].writer \in reads[j].todo
                                                           \/ \E e \in reads[j].entries : e.request = r
          BY <5>1 DEF ProgressInv, ReadsFollow
        <5> QED
          BY <1>1, <2>3, <5>1, <5>2, <5>3
      <4> QED
        BY <4>1, <4>2
    <3> QED
      BY <3>1, <3>2 DEF ReadsFollow
  <2> QED
    BY <1>1, <1>2, <2>1, <2>3, <2>4, <2>6, <2>7, <2>8, ReaderIs, ReaderKeeps
<1> QED
  BY <1>3, <1>4 DEF Progress!Observe

\* The flights are a sequence of something.
LEMMA ReadsAreSeq == ProgressInv => \E X : reads \in Seq(X)
<1> SUFFICES ASSUME ProgressInv PROVE \E X : reads \in Seq(X)
  OBVIOUS
<1> DEFINE X == {reads[j] : j \in 1 .. Len(reads)}
           n == Len(reads)
<1>1. n \in Nat /\ reads \in [1 .. n -> X]
  BY ReaderIs
<1> HIDE DEF X, n
<1>2. reads \in Seq(X)
  BY <1>1, SeqDef
<1> QED
  BY <1>2

\* A read that ends leaves the others as they are.
LEMMA EndsKeep ==
    ASSUME ProgressInv, NEW i \in DOMAIN reads, reads' = Progress!RemoveAt(reads, i),
           UNCHANGED <<now, streams, stores, files>>,
           reader' = [anchor |-> reader'.anchor, boundary |-> reader'.boundary, lastAt |-> reader'.lastAt,
                      sequence |-> reader'.sequence],
           reader'.sequence \in Nat, reader.sequence <= reader'.sequence,
           best' \in [Prompts -> [processed : Nat, at : Int, back : BOOLEAN, alone : BOOLEAN]],
           best' = best \/ reads[i].sequence = reader.sequence,
           \A r \in Prompts : Passed(r, best'[r].processed), Progress!PromptIsOfOne'
    PROVE  ProgressInv'
<1>1. /\ Len(reads') = Len(reads) - 1 /\ reads' = [j \in 1 .. Len(reads') |-> reads'[j]]
      /\ \A j \in 1 .. Len(reads') : reads'[j] = IF j < i THEN reads[j] ELSE reads[j + 1]
  <2>1. i \in 1 .. Len(reads)
    BY ReaderIs
  <2>2. PICK X : reads \in Seq(X)
    BY ReadsAreSeq
  <2> QED
    BY <2>1, <2>2, RemovedIs
<1>2. i \in 1 .. Len(reads) /\ Len(reads) \in Nat /\ DOMAIN reads = 1 .. Len(reads) /\ Len(reads') \in Nat
  BY <1>1, ReaderIs
<1>3. DOMAIN reads' = 1 .. Len(reads')
  BY <1>1
<1> DEFINE of(j) == IF j < i THEN j ELSE j + 1
<1>4. \A j \in DOMAIN reads' : of(j) \in DOMAIN reads /\ of(j) # i /\ reads'[j] = reads[of(j)]
  BY <1>1, <1>2, <1>3
<1>5. \A j, k \in DOMAIN reads' : j < k => of(j) < of(k)
  BY <1>2, <1>3
<1> HIDE DEF of
<1>6. \A j \in DOMAIN reads' : IsReadOf(reads'[j])
  BY <1>4, ReaderIs
<1>7. \A j \in DOMAIN reads' : \A e \in reads'[j].entries : Passed(e.request, e.processed)
  BY <1>4 DEF ProgressInv, ToldInOrder
<1>8. ReadsFollow'
  <2>1. \A j, k \in DOMAIN reads' : j < k => reads'[j].sequence < reads'[k].sequence
    BY <1>4, <1>5 DEF ProgressInv, ReadsFollow
  <2>2. ASSUME NEW k \in DOMAIN reads'
        PROVE  /\ reads'[k].sequence <= reader'.sequence
               /\ reads'[k].sequence = reader'.sequence =>
                     \A e \in reads'[k].entries : best'[e.request].processed <= e.processed
               /\ Sees(reads'[k]) =>
                     \A r \in reads'[k].present : \/ streams'[r].writer \in reads'[k].todo
                                                  \/ \E e \in reads'[k].entries : e.request = r
    <3> DEFINE j == of(k)
    <3>1. j \in DOMAIN reads /\ j # i /\ reads'[k] = reads[j]
      BY <1>4
    <3> HIDE DEF j
    <3>2. /\ reads[j].sequence \in Nat /\ reads[j].sequence <= reader.sequence /\ reader.sequence \in Nat
          /\ reads[i].sequence \in Nat
      BY <3>1, ReaderIs DEF ProgressInv, ReadsFollow, IsReadOf
    <3>3. reads[j].sequence # reads[i].sequence
      <4>1. j < i \/ i < j
        BY <1>2, <3>1
      <4> QED
        BY <3>1, <3>2, <4>1 DEF ProgressInv, ReadsFollow
    <3>4. Sees(reads[j]) => \A r \in reads[j].present : \/ streams[r].writer \in reads[j].todo
                                                       \/ \E e \in reads[j].entries : e.request = r
      BY <3>1 DEF ProgressInv, ReadsFollow
    <3>5. reads[j].sequence = reader.sequence => \A e \in reads[j].entries : best[e.request].processed <= e.processed
      BY <3>1 DEF ProgressInv, ReadsFollow
    <3>6. reads[j].sequence <= reader'.sequence
      BY <3>2
    <3>7. reads[j].sequence = reader'.sequence => reads[j].sequence = reader.sequence /\ best' = best
      BY <3>2, <3>3
    <3> QED
      BY <3>1, <3>4, <3>5, <3>6, <3>7
  <2> QED
    BY <2>1, <2>2 DEF ReadsFollow
<1> QED
  BY <1>1, <1>2, <1>6, <1>7, <1>8, ReaderKeeps

\* A prompt is shown that goes on from what was shown of it, and was alone.
LEMMA ShownIsOfOne ==
    ASSUME ProgressInv, NEW i \in DOMAIN reads, reads[i].todo = {}, reads[i].sequence = reader.sequence,
           Progress!IsSole({e \in reads[i].entries : e.request \in OfProgress.matching})
    PROVE  LET e == CHOOSE x \in {e \in reads[i].entries : e.request \in OfProgress.matching} : TRUE IN
           /\ e \in Seen /\ best[e.request].processed <= e.processed /\ Passed(e.request, e.processed)
           /\ reads[i].present \subseteq {e.request}
<1> DEFINE M == {e \in reads[i].entries : e.request \in OfProgress.matching}
           e == CHOOSE x \in M : TRUE
<1>1. IsReadOf(reads[i])
  BY ReaderIs
<1>2. IsFiniteSet(M)
  BY <1>1, FS_Subset DEF IsReadOf
<1>3. Cardinality(M) = 1
  BY ProgressCount DEF Progress!IsSole
<1>4. PICK y : M = {y}
  BY <1>2, <1>3, FS_Singleton
<1>5. e = y /\ y \in M
  BY <1>4
<1>6. e \in reads[i].entries /\ M = {e}
  BY <1>4, <1>5
<1> HIDE DEF e
<1>7. e \in Seen
  BY <1>1, <1>6 DEF IsReadOf
<1>8. best[e.request].processed <= e.processed /\ Passed(e.request, e.processed)
  BY <1>6 DEF ProgressInv, ReadsFollow, ToldInOrder
<1>9. reads[i].present \subseteq {e.request}
  <2> SUFFICES ASSUME NEW r \in reads[i].present PROVE r = e.request
    OBVIOUS
  <2>1. Sees(reads[i])
    BY <1>6, ProgressFacts DEF Sees
  <2>2. PICK x \in reads[i].entries : x.request = r
    BY <2>1 DEF ProgressInv, ReadsFollow
  <2>3. x \in M
    BY <1>1, <2>2 DEF IsReadOf
  <2> QED
    BY <1>6, <2>2, <2>3
<1> QED
  BY <1>7, <1>8, <1>9 DEF e

\* A read ends: it is outdated, resets the reader, or shows a prompt.
LEMMA ReadEndsKeeps ==
    ASSUME ProgressInv, NEW i \in DOMAIN reads, Progress!ReadEnds(i)
    PROVE  ProgressInv'
<1> DEFINE x == reads[i]
           M == {e \in x.entries : e.request \in OfProgress.matching}
           e == CHOOSE q \in M : TRUE
           shown == [processed |-> e.processed, at |-> e.at,
                     back |-> e.processed < best[e.request].processed,
                     alone |-> x.present \subseteq {e.request}]
<1>1. /\ UNCHANGED <<now, streams, stores, files>>
      /\ reads' = Progress!RemoveAt(reads, i) /\ x.todo = {}
  BY DEF Progress!ReadEnds
<1>2. /\ \A r \in Prompts : Passed(r, best[r].processed)
      /\ Progress!PromptIsOfOne
      /\ best \in [Prompts -> [processed : Nat, at : Int, back : BOOLEAN, alone : BOOLEAN]]
  BY ReaderIs DEF ProgressInv, ToldInOrder
<1>3. \/ UNCHANGED <<reader, best>>
      \/ reader' = Progress!ResetReader(reader, x.at) /\ UNCHANGED best
      \/ reader' = [reader EXCEPT !.anchor = None] /\ UNCHANGED best
      \/ /\ x.sequence = reader.sequence /\ Progress!IsSole(M)
         /\ reader' = [reader EXCEPT !.anchor = e]
         /\ best' = [best EXCEPT ![e.request] = shown]
  BY DEF Progress!ReadEnds
<1> HIDE DEF e
<1>4. CASE UNCHANGED <<reader, best>>
  <2>1. reader.sequence <= reader'.sequence
    BY <1>4, ReaderIs
  <2> QED
    BY <1>1, <1>2, <1>4, <2>1, ReaderIs, EndsKeep DEF Progress!PromptIsOfOne
<1>5. CASE reader' = Progress!ResetReader(reader, x.at) /\ UNCHANGED best
  <2>1. reader.sequence <= reader'.sequence
    BY <1>5, ResetIs, ReaderIs
  <2> QED
    BY <1>1, <1>2, <1>5, <2>1, ResetIs, EndsKeep DEF Progress!PromptIsOfOne
<1>6. CASE reader' = [reader EXCEPT !.anchor = None] /\ UNCHANGED best
  <2>1. reader' = [anchor |-> None, boundary |-> reader.boundary, lastAt |-> reader.lastAt, sequence |-> reader.sequence]
    BY <1>6, ReaderIs
  <2>2. reader.sequence <= reader'.sequence /\ reader'.sequence \in Nat
    BY <2>1, ReaderIs
  <2> QED
    BY <1>1, <1>2, <1>6, <2>1, <2>2, EndsKeep DEF Progress!PromptIsOfOne
<1>7. CASE /\ x.sequence = reader.sequence /\ Progress!IsSole(M)
           /\ reader' = [reader EXCEPT !.anchor = e]
           /\ best' = [best EXCEPT ![e.request] = shown]
  <2>1. reader' = [anchor |-> e, boundary |-> reader.boundary, lastAt |-> reader.lastAt, sequence |-> reader.sequence]
    BY <1>7, ReaderIs
  <2>2. reader.sequence <= reader'.sequence /\ reader'.sequence \in Nat
    BY <2>1, ReaderIs
  <2>3. /\ e \in Seen /\ best[e.request].processed <= e.processed /\ Passed(e.request, e.processed)
        /\ x.present \subseteq {e.request}
    BY <1>1, <1>7, ShownIsOfOne DEF e
  <2>4. e.request \in Prompts /\ e.processed \in Nat /\ e.at \in Nat /\ best[e.request].processed \in Nat
    BY <1>2, <2>3 DEF Seen
  <2>5. shown = [processed |-> e.processed, at |-> e.at, back |-> FALSE, alone |-> TRUE]
    <3>1. (e.processed < best[e.request].processed) = FALSE
      BY <2>3, <2>4
    <3>2. (x.present \subseteq {e.request}) = TRUE
      BY <2>3
    <3> QED
      BY <3>1, <3>2, Zenon
  <2>6. \A r \in Prompts : best'[r] = IF r = e.request THEN shown ELSE best[r]
    BY <1>2, <1>7, <2>4
  <2>7. best' \in [Prompts -> [processed : Nat, at : Int, back : BOOLEAN, alone : BOOLEAN]]
    BY <1>2, <1>7, <2>4, <2>5
  <2>8. \A r \in Prompts : Passed(r, best'[r].processed)
    BY <1>2, <2>3, <2>5, <2>6
  <2>9. Progress!PromptIsOfOne'
    BY <1>2, <2>5, <2>6 DEF Progress!PromptIsOfOne, Prompts
  <2> HIDE DEF shown
  <2> QED
    BY <1>1, <1>7, <2>1, <2>2, <2>7, <2>8, <2>9, EndsKeep
<1> QED
  BY <1>3, <1>4, <1>5, <1>6, <1>7

LEMMA ProgressStarts == Progress!ProgressInit => ProgressInv
<1> SUFFICES ASSUME Progress!ProgressInit PROVE ProgressInv
  OBVIOUS
<1> DEFINE new == [entries |-> <<>>, writing |-> "no", body |-> None, dirty |-> FALSE, timer |-> FALSE,
                   closed |-> FALSE, alive |-> TRUE, last |-> -1, failed |-> FALSE]
<1>1. /\ now = 0 /\ reads = <<>>
      /\ streams = [r \in Prompts |-> [stage |-> "new", writer |-> None, processed |-> 0]]
      /\ files = [w \in Writers |-> None]
      /\ reader = [anchor |-> None, boundary |-> -1, lastAt |-> None, sequence |-> 0]
      /\ best = [r \in Prompts |-> [processed |-> 0, at |-> -1, back |-> FALSE, alone |-> TRUE]]
  BY DEF Progress!ProgressInit, Writers, Prompts
<1>2. stores = [w \in Writers |-> new]
  <2>1. <<>> = [r \in {} |-> None]
    BY NoEntries
  <2> QED
    BY <2>1 DEF Progress!ProgressInit, Progress!newStore, Writers
<1>3. /\ IsEntries(new.entries) /\ DOMAIN new.entries = {} /\ new.entries = <<>> /\ new.body = None
      /\ Cardinality(DOMAIN new.entries) = 0
  BY NoEntries, FS_EmptySet
<1>4. IsStore(new)
  BY <1>3, ProgressFacts DEF IsStore
<1>5. IsFollowed(new, None)
  BY <1>3 DEF IsFollowed
<1> HIDE DEF new
<1>6. \A w \in Writers : FileSays(w) = <<>> /\ BodySays(w) = <<>> /\ StoreSays(w) = <<>>
  BY <1>1, <1>2, <1>3 DEF FileSays, BodySays, StoreSays, Says
<1>7. DOMAIN <<>> = {} /\ Len(reads) = 0 /\ DOMAIN reads = {}
  BY <1>1, NoEntries
<1>8. ProgressTypeOK
  <2>1. reads = [j \in 1 .. Len(reads) |-> reads[j]]
    BY <1>1
  <2>2. stores = [w \in Writers |-> stores[w]] /\ files = [w \in Writers |-> files[w]]
    BY <1>1, <1>2
  <2> QED
    BY <1>1, <1>2, <1>4, <1>7, <2>1, <2>2 DEF ProgressTypeOK
<1>9. ToldByWriter /\ Dated /\ ReadsFollow /\ WritesFollow
  BY <1>1, <1>2, <1>3, <1>5, <1>6, <1>7 DEF ToldByWriter, Dated, IsDated, ReadsFollow, WritesFollow
<1>10. ToldInOrder
  BY <1>1, <1>6, <1>7 DEF ToldInOrder, Passed, AtMost
<1>11. Progress!PromptIsOfOne
  BY <1>1 DEF Progress!PromptIsOfOne, Prompts
<1> QED
  BY <1>8, <1>9, <1>10, <1>11 DEF ProgressInv

LEMMA ProgressKept ==
    ASSUME ProgressInv, Progress!ProgressNext
    PROVE  ProgressInv'
<1>1. ASSUME Progress!Tick PROVE ProgressInv'
  BY <1>1, ProgressTicks
<1>2. ASSUME NEW w \in Writers,
             \/ Progress!TimerFires(w) \/ Progress!Compose(w) \/ Progress!WriteEnds(w) \/ Progress!WriteFails(w)
             \/ Progress!Reap(w) \/ Progress!Close(w) \/ Progress!CloseWrites(w) \/ Progress!Crash(w)
      PROVE  ProgressInv'
  BY <1>2, TimerFiresKeeps, ComposeKeeps, WriteEndsKeeps, ReapKeeps, CloseKeeps, CloseWritesKeeps, CrashKeeps
<1>3. ASSUME NEW r \in Prompts, NEW w \in Writers, Progress!Open(r, w) PROVE ProgressInv'
  BY <1>3, OpenKeeps
<1>4. ASSUME NEW r \in Prompts, NEW n \in 0 .. OfProgress.total, Progress!Counters(r, n) PROVE ProgressInv'
  BY <1>4, CountersKeep
<1>5. ASSUME NEW scope \in BOOLEAN, Progress!Observe(scope) PROVE ProgressInv'
  BY <1>5, ObserveKeeps
<1>6. ASSUME NEW i \in DOMAIN reads, Progress!Scan(i) \/ Progress!ReadEnds(i) PROVE ProgressInv'
  BY <1>6, ScanKeeps, ReadEndsKeeps
<1>7. ASSUME NEW i \in DOMAIN reads, NEW w \in Writers, Progress!Read(i, w) PROVE ProgressInv'
  BY <1>7, ReadKeeps
<1> QED
  BY <1>1, <1>2, <1>3, <1>4, <1>5, <1>6, <1>7 DEF Progress!ProgressNext, Writers, Prompts

\* A store at rest that the timer has nothing to do for has written what it holds.
LEMMA ProgressSafe == ProgressInv => Progress!ProgressIsOfOne
<1> SUFFICES ASSUME ProgressInv PROVE Progress!FileFollowsStreams
  BY DEF ProgressInv, Progress!ProgressIsOfOne
<1> SUFFICES ASSUME NEW w \in Writers, stores[w].alive, stores[w].writing = "no", ~ stores[w].timer,
                    ~ stores[w].failed, ~ (stores[w].closed /\ stores[w].dirty)
             PROVE  IF stores[w].entries = <<>> THEN files[w] = None
                    ELSE files[w] # None /\ files[w].entries = stores[w].entries
  BY DEF Progress!FileFollowsStreams, Writers
<1>1. IsFollowed(stores[w], files[w])
  BY StoreIs
<1>2. ~ stores[w].dirty
  BY <1>1 DEF IsFollowed
<1> QED
  BY <1>1, <1>2 DEF IsFollowed

\* Nobody else moves anything of progress.
LEMMA ProgressStutters == ProgressInv /\ UNCHANGED <<now, progress, reads>> => ProgressInv'
<1> SUFFICES ASSUME ProgressInv, UNCHANGED <<now, progress, reads>> PROVE ProgressInv'
  OBVIOUS
<1>1. UNCHANGED <<now, streams, stores, files, reader, best, reads>>
  BY DEF progress
<1>2. ReadsFollow' /\ Progress!PromptIsOfOne'
  BY <1>1 DEF ProgressInv, ReadsFollow, Progress!PromptIsOfOne
<1>3. /\ \A r \in Prompts : Passed(r, best'[r].processed)
      /\ \A i \in DOMAIN reads : \A e \in reads[i].entries : Passed(e.request, e.processed)
  BY <1>1 DEF ProgressInv, ToldInOrder
<1> QED
  BY <1>1, <1>2, <1>3, ReaderIs, ReaderKeeps

----------------------------------------------------------------------------
(* Chats.  cs are OpenCode's calls, st what their stream has still to say, *)
(* and t a pair of what the tracker holds and what it has published.  A    *)
(* chat has its endpoint from a dispatch.  Whose, is known from the order  *)
(* of calls where the dispatch began the chat, and from the routes where   *)
(* an announcement did.                                                    *)

Replying == {"part", "delta", "parted", "tool", "streamed", "ended", "unknown"}
Telling == Replying \cup {"started", "retry", "interrupted", "succeeded", "metadata"}

\* A call was dispatched; and its output is complete.
Sent(cs, n) == cs[n].stage # "new"
Closed(cs, n) == cs[n].stage \notin {"new", "sent", "open"}

IsCall(x) ==
    /\ x = [session |-> x.session, model |-> x.model, endpoint |-> x.endpoint, stage |-> x.stage,
            announced |-> x.announced, said |-> x.said, chars |-> x.chars, finish |-> x.finish, at |-> x.at,
            proved |-> x.proved]
    /\ {x.announced, x.proved} \subseteq BOOLEAN /\ x.at \in Nat

\* A chat makes one call after the other.
CallsInOrder(cs, time) ==
    /\ time \in Nat /\ Len(cs) \in Nat /\ cs = [n \in 1 .. Len(cs) |-> cs[n]]
    /\ \A n \in 1 .. Len(cs) : IsCall(cs[n]) /\ cs[n].at <= time
    /\ \A m, n \in 1 .. Len(cs) : m < n /\ cs[m].session = cs[n].session =>
          cs[m].stage = "over" /\ cs[m].at < cs[n].at

\* What an event says of its call is still true.
IsEvent(cs, x) ==
    /\ x.type \in Telling
    /\ x.call \in 1 .. Len(cs) /\ x.session = cs[x.call].session /\ x.model = cs[x.call].model
    /\ x.created \in Nat /\ x.created <= cs[x.call].at
    /\ x.type \in Replying => cs[x.call].announced /\ Sent(cs, x.call)
    /\ x.type = "parted" => Closed(cs, x.call) /\ x.chars = cs[x.call].chars

StreamIsTrue(cs, st) ==
    /\ Len(st) \in Nat /\ st = [i \in 1 .. Len(st) |-> st[i]]
    /\ \A i \in 1 .. Len(st) : IsEvent(cs, st[i])

\* Where call k is announced, the stream says so before it says more of k.
Awaited(cs, st, k) ==
    cs[k].announced =>
        \E i \in 1 .. Len(st) : /\ st[i].type = "started" /\ st[i].call = k
                                /\ \A j \in 1 .. Len(st) :
                                      st[j].call = k /\ st[j].type \in Replying => i < j

IsChat(c) ==
    c = [model |-> c.model, endpoint |-> c.endpoint, dispatched |-> c.dispatched, call |-> c.call, seen |-> c.seen,
         part |-> c.part, chars |-> c.chars, counted |-> c.counted, lastDelta |-> c.lastDelta,
         eligible |-> c.eligible, streamed |-> c.streamed, updated |-> c.updated, phase |-> c.phase,
         stale |-> c.stale, proof |-> c.proof]

\* Chat's IsOfEndpoint.
IsOf(cs, n, x) == cs[n].endpoint = x.endpoint \/ (x.proof # None /\ x.proof > n) \/ ~ cs[n].proved

\* A chat begun by the announcement of a call has its endpoint from a dispatch, if from any.
IsAnnounced(t, cs, s, c) ==
    /\ c.call # None /\ cs[c.call].model = c.model
    /\ IF c.endpoint = None THEN <<s, c.model>> \notin DOMAIN t.chat.routes /\ c.proof = None
       ELSE IsOf(cs, c.call, c)

\* One begun by the dispatch of call p takes output of this call only.
IsSeededBy(cs, st, p, s, c) ==
    /\ cs[p].session = s /\ Sent(cs, p) /\ cs[p].endpoint = c.endpoint
    /\ \A m \in 1 .. Len(cs) : m < p /\ cs[m].session = s => cs[m].at < c.dispatched
    /\ c.call \in {None, p}
    /\ c.call = None => \A k \in 1 .. Len(cs) : k > p /\ cs[k].session = s => Awaited(cs, st, k)
IsSeeded(cs, st, s, c) ==
    /\ c.dispatched \in Nat /\ c.endpoint # None /\ c.proof = None /\ ~ c.eligible
    /\ \E p \in 1 .. Len(cs) : IsSeededBy(cs, st, p, s, c)

IsCounted(cs, n, c) == n = c.call /\ c.call # None /\ Sent(cs, n)

IsTrueChat(t, cs, st, s, c) ==
    /\ IsChat(c)
    /\ c.endpoint # None => Chat!IsWatched(t, s, c.model, Chat!Destination(c.endpoint))
    /\ \A n \in c.counted : IsCounted(cs, n, c)
    /\ c.call # None => c.call \in 1 .. Len(cs) /\ cs[c.call].session = s
    /\ IF c.dispatched = None THEN IsAnnounced(t, cs, s, c) ELSE IsSeeded(cs, st, s, c)
    /\ c.eligible /\ c.part = "ended" => c.call # None /\ Closed(cs, c.call) /\ c.chars = cs[c.call].chars

\* What is published of a chat is what it was at the time.
IsTrueEntry(t, cs, s, x) ==
    /\ s \in DOMAIN t.chat.chats
    /\ LET c == t.chat.chats[s] IN
       /\ c.endpoint # None /\ x.model = c.model /\ x.endpoint = c.endpoint /\ x.proof = c.proof
       /\ \A n \in x.counted : IsCounted(cs, n, c)

\* A dispatch that waits for its step is the last the tracker took of its chat and model.
IsTrueRoute(t, cs, key, r) ==
    /\ key = <<key[1], key[2]>>
    /\ r.of \in 1 .. Len(cs) /\ Sent(cs, r.of)
    /\ cs[r.of].session = key[1] /\ cs[r.of].model = key[2] /\ cs[r.of].endpoint = r.endpoint
    /\ r.endpoint # None
    /\ Chat!IsWatched(t, key[1], key[2], Chat!Destination(r.endpoint))
    /\ \A k \in 1 .. Len(cs) : k > r.of /\ cs[k].session = key[1] /\ cs[k].model = key[2] => ~ cs[k].proved

IsTrueStep(cs, step) ==
    /\ step.call \in 1 .. Len(cs) /\ Closed(cs, step.call)
    /\ step.chars = cs[step.call].chars /\ IsOf(cs, step.call, step)

IsPair(t) ==
    /\ t = [chat |-> t.chat, store |-> t.store]
    /\ t.chat = [watched |-> t.chat.watched, routes |-> t.chat.routes, chats |-> t.chat.chats,
                 calibration |-> t.chat.calibration, failures |-> t.chat.failures]
    /\ t.chat.routes = [r \in DOMAIN t.chat.routes |-> t.chat.routes[r]]
    /\ t.chat.chats = [s \in DOMAIN t.chat.chats |-> t.chat.chats[s]]
    /\ t.store = [s \in DOMAIN t.store |-> t.store[s]]
IsTruePair(t, cs, st) ==
    /\ IsPair(t)
    /\ \A key \in DOMAIN t.chat.routes : IsTrueRoute(t, cs, key, t.chat.routes[key])
    /\ \A s \in DOMAIN t.chat.chats : IsTrueChat(t, cs, st, s, t.chat.chats[s])
    /\ \A s \in DOMAIN t.store : IsTrueEntry(t, cs, s, t.store[s])
    /\ \A step \in t.chat.calibration : IsTrueStep(cs, step)

ChatIs(t, cs, st, time, on) ==
    /\ CallsInOrder(cs, time) /\ StreamIsTrue(cs, st) /\ IsTruePair(t, cs, st)
    /\ on \in BOOLEAN
    /\ ~ on => st = <<>> /\ DOMAIN t.chat.chats = {}
ChatInv == ChatIs(Chat!pair, calls, stream, now, subscribed)

\* The length of a sequence given by its indices.
LEMMA LenIs ==
    ASSUME NEW n \in Nat, NEW f, f = [i \in 1 .. n |-> f[i]]
    PROVE  Len(f) = n
<1>1. f \in Seq({f[i] : i \in 1 .. n})
  <2> DEFINE X == {f[i] : i \in 1 .. n}
  <2>1. f \in [1 .. n -> X]
    OBVIOUS
  <2> HIDE DEF X
  <2> QED
    BY <2>1, SeqDef
<1> QED
  BY <1>1, LenProperties

\* A stream is a sequence of what it says.
LEMMA TailIs ==
    ASSUME NEW s, s = [i \in 1 .. Len(s) |-> s[i]], Len(s) \in Nat, Len(s) > 0
    PROVE  /\ Head(s) = s[1] /\ Len(Tail(s)) = Len(s) - 1
           /\ Tail(s) = [i \in 1 .. Len(Tail(s)) |-> Tail(s)[i]]
           /\ \A i \in 1 .. Len(Tail(s)) : Tail(s)[i] = s[i + 1]
<1> DEFINE X == {s[i] : i \in 1 .. Len(s)}
           n == Len(s)
<1>1. s \in Seq(X)
  <2>1. s \in [1 .. n -> X]
    OBVIOUS
  <2> HIDE DEF X, n
  <2>2. n \in Nat
    BY DEF n
  <2> QED
    BY <2>1, <2>2, SeqDef
<1> HIDE DEF X
<1>2. s # <<>>
  BY <1>1
<1>3. Tail(s) \in Seq(X) /\ Len(Tail(s)) = Len(s) - 1 /\ \A i \in 1 .. Len(Tail(s)) : Tail(s)[i] = s[i + 1]
  BY <1>1, <1>2, HeadTailProperties
<1>4. Tail(s) = [i \in 1 .. Len(Tail(s)) |-> Tail(s)[i]]
  BY <1>3, LenProperties
<1>5. Head(s) = s[1]
  BY <1>1, <1>2
<1> QED
  BY <1>3, <1>4, <1>5

\* A time and a call are never null.
LEMMA ChatFacts == None \notin Nat
BY ChatConstants DEF Chat!ChatAssumption

\* A map without some keys, and with one.
IsMap(f) == f = [x \in DOMAIN f |-> f[x]]
\* The keys that are taken out are gone, and the others are as they were.
LEMMA WithoutIs ==
    ASSUME NEW f, NEW S
    PROVE  /\ DOMAIN Chat!Without(f, S) = DOMAIN f \ S /\ IsMap(Chat!Without(f, S))
           /\ \A x \in DOMAIN f \ S : Chat!Without(f, S)[x] = f[x]
BY DEF Chat!Without, IsMap

\* A pair, of what it holds.
PairOf(w, r, c, k, f, s) ==
    [chat |-> [watched |-> w, routes |-> r, chats |-> c, calibration |-> k, failures |-> f], store |-> s]
\* A pair has the parts it was made of,
LEMMA PairOfIs ==
    ASSUME NEW w, NEW r, IsMap(r), NEW c, IsMap(c), NEW k, NEW f, NEW s, IsMap(s)
    PROVE  LET u == PairOf(w, r, c, k, f, s) IN
           /\ IsPair(u) /\ u.chat.watched = w /\ u.chat.routes = r /\ u.chat.chats = c
           /\ u.chat.calibration = k /\ u.chat.failures = f /\ u.store = s
BY DEF IsPair, PairOf, IsMap
\* and is made of its parts.
LEMMA IsPairOf ==
    ASSUME NEW t, IsPair(t)
    PROVE  /\ t = PairOf(t.chat.watched, t.chat.routes, t.chat.chats, t.chat.calibration, t.chat.failures, t.store)
           /\ IsMap(t.chat.routes) /\ IsMap(t.chat.chats) /\ IsMap(t.store)
BY DEF IsPair, PairOf, IsMap

\* What of a chat matters here has not changed, but that less of it may count.
IsLess(c, d) ==
    /\ IsChat(d)
    /\ c.model = d.model /\ c.endpoint = d.endpoint /\ c.dispatched = d.dispatched /\ c.call = d.call
    /\ c.proof = d.proof /\ d.counted \subseteq c.counted
    /\ d.eligible => c.eligible
    /\ d.eligible /\ d.part = "ended" => c.part = "ended" /\ c.chars = d.chars

\* What is true of a chat is true of one that counts less.
LEMMA LessIsTrue ==
    ASSUME NEW t, NEW cs, NEW st, NEW s, NEW c, NEW d, IsTrueChat(t, cs, st, s, c), IsLess(c, d)
    PROVE  IsTrueChat(t, cs, st, s, d)
<1>1. IsAnnounced(t, cs, s, c) => IsAnnounced(t, cs, s, d)
  BY DEF IsAnnounced, IsLess, IsOf
<1>2. IsSeeded(cs, st, s, c) => IsSeeded(cs, st, s, d)
  BY DEF IsSeeded, IsSeededBy, IsLess
<1>3. \A n : IsCounted(cs, n, c) => IsCounted(cs, n, d)
  BY DEF IsCounted, IsLess
<1> QED
  BY <1>1, <1>2, <1>3 DEF IsTrueChat, IsLess

\* A pair that holds less than another.
Watches(u) ==
    /\ \A s \in DOMAIN u.chat.chats : u.chat.chats[s].endpoint # None =>
          Chat!IsWatched(u, s, u.chat.chats[s].model, Chat!Destination(u.chat.chats[s].endpoint))
    /\ \A key \in DOMAIN u.chat.routes :
          Chat!IsWatched(u, key[1], key[2], Chat!Destination(u.chat.routes[key].endpoint))
HoldsLess(t, u) ==
    /\ IsPair(u) /\ (u.chat.watched = t.chat.watched \/ Watches(u))
    /\ \A key \in DOMAIN u.chat.routes : key \in DOMAIN t.chat.routes /\ u.chat.routes[key] = t.chat.routes[key]
    /\ \A s \in DOMAIN u.chat.chats : s \in DOMAIN t.chat.chats /\ IsLess(t.chat.chats[s], u.chat.chats[s])
    /\ \A s \in DOMAIN u.store : s \in DOMAIN u.chat.chats /\ s \in DOMAIN t.store /\ u.store[s] = t.store[s]
    /\ u.chat.calibration \subseteq t.chat.calibration

\* What is true of a pair is true of one that holds less.
LEMMA LessIsTruePair ==
    ASSUME NEW t, NEW u, NEW cs, NEW st, IsTruePair(t, cs, st), HoldsLess(t, u)
    PROVE  IsTruePair(u, cs, st)
<1>1. ASSUME NEW key \in DOMAIN u.chat.routes PROVE IsTrueRoute(u, cs, key, u.chat.routes[key])
  <2>1. key \in DOMAIN t.chat.routes /\ u.chat.routes[key] = t.chat.routes[key]
    BY <1>1 DEF HoldsLess
  <2>2. IsTrueRoute(t, cs, key, u.chat.routes[key])
    BY <2>1 DEF IsTruePair
  <2>3. Chat!IsWatched(u, key[1], key[2], Chat!Destination(u.chat.routes[key].endpoint))
    BY <2>2 DEF HoldsLess, Watches, IsTrueRoute, Chat!IsWatched
  <2> QED
    BY <2>2, <2>3 DEF IsTrueRoute
<1>2. ASSUME NEW s \in DOMAIN u.chat.chats PROVE IsTrueChat(u, cs, st, s, u.chat.chats[s])
  <2> DEFINE d == u.chat.chats[s]
  <2>1. s \in DOMAIN t.chat.chats /\ IsLess(t.chat.chats[s], d)
    BY <1>2 DEF HoldsLess
  <2>2. IsTrueChat(t, cs, st, s, d)
    BY <2>1, LessIsTrue DEF IsTruePair
  <2>3. d.endpoint # None => Chat!IsWatched(u, s, d.model, Chat!Destination(d.endpoint))
    BY <2>2 DEF HoldsLess, Watches, IsTrueChat, Chat!IsWatched
  <2>4. IsAnnounced(t, cs, s, d) => IsAnnounced(u, cs, s, d)
    BY DEF IsAnnounced, HoldsLess
  <2> HIDE DEF d
  <2>5. IsTrueChat(u, cs, st, s, d)
    BY <2>2, <2>3, <2>4 DEF IsTrueChat
  <2> QED
    BY <2>5 DEF d
<1>3. ASSUME NEW s \in DOMAIN u.store PROVE IsTrueEntry(u, cs, s, u.store[s])
  <2>1. s \in DOMAIN u.chat.chats /\ s \in DOMAIN t.store /\ u.store[s] = t.store[s]
    BY <1>3 DEF HoldsLess
  <2>2. IsLess(t.chat.chats[s], u.chat.chats[s]) /\ IsTrueEntry(t, cs, s, u.store[s])
    BY <2>1 DEF HoldsLess, IsTruePair
  <2> QED
    BY <2>1, <2>2 DEF IsTrueEntry, IsLess, IsCounted
<1>4. \A step \in u.chat.calibration : IsTrueStep(cs, step)
  BY DEF HoldsLess, IsTruePair
<1> QED
  BY <1>1, <1>2, <1>3, <1>4 DEF IsTruePair, HoldsLess

\* What is dropped of a pair.
LEMMA DroppedIs ==
    ASSUME NEW t, IsPair(t), NEW s, NEW u, u = Chat!Dropped(t, s)
    PROVE  u = PairOf(t.chat.watched, t.chat.routes, Chat!Without(t.chat.chats, {s}),
                      t.chat.calibration, t.chat.failures, Chat!Without(t.store, {s}))
BY DEF IsPair, Chat!Dropped, PairOf

\* A chat counts no more than itself.
LEMMA SelfIsLess == \A c : IsChat(c) => IsLess(c, c)
BY DEF IsLess

\* A chat that is dropped leaves the others as they were.
LEMMA DroppedHolds ==
    ASSUME NEW t, NEW cs, NEW st, IsTruePair(t, cs, st), NEW s, NEW u, u = Chat!Dropped(t, s)
    PROVE  /\ IsTruePair(u, cs, st) /\ s \notin DOMAIN u.chat.chats /\ s \notin DOMAIN u.store
           /\ u.chat.watched = t.chat.watched /\ u.chat.routes = t.chat.routes
           /\ u.chat.calibration = t.chat.calibration
           /\ DOMAIN u.chat.chats = DOMAIN t.chat.chats \ {s}
           /\ \A x \in DOMAIN u.chat.chats : u.chat.chats[x] = t.chat.chats[x]
<1>1. IsPair(t) /\ \A x \in DOMAIN t.chat.chats : IsChat(t.chat.chats[x])
  BY DEF IsTruePair, IsTrueChat
<1> DEFINE C == Chat!Without(t.chat.chats, {s})
           S == Chat!Without(t.store, {s})
<1>2. /\ IsMap(C) /\ DOMAIN C = DOMAIN t.chat.chats \ {s}
      /\ \A x \in DOMAIN t.chat.chats \ {s} : C[x] = t.chat.chats[x]
  BY WithoutIs
<1>3. /\ IsMap(S) /\ DOMAIN S = DOMAIN t.store \ {s}
      /\ \A x \in DOMAIN t.store \ {s} : S[x] = t.store[x]
  BY WithoutIs
<1>4. u = PairOf(t.chat.watched, t.chat.routes, C, t.chat.calibration, t.chat.failures, S)
  BY <1>1, DroppedIs
<1> HIDE DEF C, S
<1>5. /\ IsPair(u) /\ u.chat.watched = t.chat.watched /\ u.chat.routes = t.chat.routes /\ u.chat.chats = C
      /\ u.chat.calibration = t.chat.calibration /\ u.store = S
  BY <1>1, <1>2, <1>3, <1>4, PairOfIs, IsPairOf
<1>6. \A x \in DOMAIN t.store : x \in DOMAIN t.chat.chats
  BY DEF IsTruePair, IsTrueEntry
<1>7. HoldsLess(t, u)
  BY <1>1, <1>2, <1>3, <1>5, <1>6, SelfIsLess DEF HoldsLess
<1> QED
  BY <1>2, <1>3, <1>5, <1>7, LessIsTruePair

\* A pair that is another, but for one chat and what is published of it.
IsBeside(t, u, s) ==
    /\ IsPair(u) /\ u.chat.watched = t.chat.watched /\ u.chat.routes = t.chat.routes
    /\ u.chat.calibration = t.chat.calibration
    /\ DOMAIN u.chat.chats \subseteq DOMAIN t.chat.chats \cup {s} /\ s \in DOMAIN u.chat.chats
    /\ \A x \in DOMAIN t.chat.chats \ {s} : x \in DOMAIN u.chat.chats /\ u.chat.chats[x] = t.chat.chats[x]
    /\ \A x \in DOMAIN u.store \ {s} : x \in DOMAIN t.store /\ u.store[x] = t.store[x]

\* A pair is true where the rest of it is and its one chat is.
LEMMA BesideIsTrue ==
    ASSUME NEW t, NEW cs, NEW st, NEW s, NEW u, IsTruePair(t, cs, st), IsBeside(t, u, s),
           IsTrueChat(t, cs, st, s, u.chat.chats[s]),
           s \in DOMAIN u.store => IsTrueEntry(u, cs, s, u.store[s])
    PROVE  IsTruePair(u, cs, st)
<1>1. \A key \in DOMAIN u.chat.routes : IsTrueRoute(u, cs, key, u.chat.routes[key])
  BY DEF IsTruePair, IsBeside, IsTrueRoute, Chat!IsWatched
<1>2. ASSUME NEW x \in DOMAIN u.chat.chats PROVE IsTrueChat(u, cs, st, x, u.chat.chats[x])
  <2>1. IsTrueChat(t, cs, st, x, u.chat.chats[x])
    BY DEF IsTruePair, IsBeside
  <2> QED
    BY <2>1 DEF IsTrueChat, IsAnnounced, IsBeside, Chat!IsWatched
<1>3. ASSUME NEW x \in DOMAIN u.store PROVE IsTrueEntry(u, cs, x, u.store[x])
  <2>1. CASE x = s
    BY <2>1
  <2>2. CASE x # s
    <3>1. x \in DOMAIN t.store /\ u.store[x] = t.store[x] /\ IsTrueEntry(t, cs, x, t.store[x])
      BY <2>2 DEF IsTruePair, IsBeside
    <3> QED
      BY <2>2, <3>1 DEF IsTrueEntry, IsBeside
  <2> QED
    BY <2>1, <2>2
<1> QED
  BY <1>1, <1>2, <1>3 DEF IsTruePair, IsBeside

\* What emit leaves of a chat.
Published(c, phase) == [c EXCEPT !.phase = phase, !.updated = now, !.stale = FALSE]
IsPublished(u, s, c, phase) == s \in DOMAIN u.chat.chats /\ u.chat.chats[s] = Published(c, phase)
\* It counts no more.
LEMMA PublishedIsLess ==
    ASSUME NEW c, IsChat(c), NEW phase, NEW d, d = Published(c, phase)
    PROVE  IsLess(c, d) /\ d.phase = phase
BY DEF IsChat, IsLess, Published

\* A chat is told of: as it is, with no output that it did not count.
LEMMA EmittedIsTrue ==
    ASSUME NEW t, NEW cs, NEW st, NEW s, NEW c, NEW phase, NEW counted, NEW reported,
           IsTruePair(t, cs, st), IsTrueChat(t, cs, st, s, c), c.endpoint # None,
           \A n \in counted : IsCounted(cs, n, c),
           NEW u, u = Chat!Emitted(t, s, c, phase, counted, reported)
    PROVE  IsTruePair(u, cs, st) /\ IsPublished(u, s, c, phase)
<1> DEFINE fresh == {r \in DOMAIN t.store : t.store[r].until > now}
           held == [r \in fresh |-> t.store[r]]
           entry == [model |-> c.model, endpoint |-> c.endpoint, phase |-> phase, counted |-> counted,
                     proof |-> c.proof, reported |-> reported, at |-> now,
                     until |-> now + (IF reported THEN OfChat.lasting ELSE OfChat.window)]
           with == Chat!With(held, s, entry)
           C == Chat!With(t.chat.chats, s, Published(c, phase))
<1>1. IsPair(t)
  BY DEF IsTruePair
<1>2. /\ IsMap(C) /\ DOMAIN C = DOMAIN t.chat.chats \cup {s} /\ C[s] = Published(c, phase)
      /\ \A x \in DOMAIN t.chat.chats \ {s} : C[x] = t.chat.chats[x]
  BY DEF Chat!With, IsMap
<1>3. /\ IsMap(held) /\ DOMAIN held = fresh /\ fresh \subseteq DOMAIN t.store
      /\ \A x \in fresh : held[x] = t.store[x]
  BY DEF IsMap
<1>4. /\ IsMap(with) /\ DOMAIN with = DOMAIN held \cup {s} /\ with[s] = entry
      /\ \A x \in DOMAIN held \ {s} : with[x] = held[x]
  <2> HIDE DEF held, entry
  <2> QED
    BY DEF Chat!With, IsMap
<1>5. PICK S : S \in {with, held} /\ (s \in DOMAIN held => S = with)
               /\ u = PairOf(t.chat.watched, t.chat.routes, C, t.chat.calibration, t.chat.failures, S)
  <2> DEFINE full == ~ (s \in fresh \/ Chat!Cardinality(fresh) < OfChat.chats)
             S == IF full THEN held ELSE with
  <2>1. u = [t EXCEPT !.chat.chats = C, !.store = S]
    BY DEF Chat!Emitted, Published
  <2>2. S \in {with, held} /\ (s \in fresh => S = with)
    OBVIOUS
  <2> HIDE DEF C, S
  <2>3. u = PairOf(t.chat.watched, t.chat.routes, C, t.chat.calibration, t.chat.failures, S)
    BY <1>1, <2>1 DEF IsPair, PairOf
  <2> QED
    BY <1>3, <2>2, <2>3
<1>6. entry.model = c.model /\ entry.endpoint = c.endpoint /\ entry.proof = c.proof /\ entry.counted = counted
  OBVIOUS
<1> HIDE DEF fresh, held, entry, with, C
<1>7. IsChat(c) /\ IsLess(c, Published(c, phase))
  BY PublishedIsLess DEF IsTrueChat
<1>8. IsMap(S) /\ (\A x \in DOMAIN S \ {s} : x \in DOMAIN t.store /\ S[x] = t.store[x])
      /\ (s \in DOMAIN S => S[s] = entry)
  BY <1>3, <1>4, <1>5
<1>9. /\ IsPair(u) /\ u.chat.watched = t.chat.watched /\ u.chat.routes = t.chat.routes /\ u.chat.chats = C
      /\ u.chat.calibration = t.chat.calibration /\ u.store = S
  BY <1>1, <1>2, <1>5, <1>8, PairOfIs, IsPairOf
<1>10. IsBeside(t, u, s)
  BY <1>2, <1>8, <1>9 DEF IsBeside
<1>11. s \in DOMAIN u.store => IsTrueEntry(u, cs, s, u.store[s])
  BY <1>2, <1>6, <1>7, <1>8, <1>9 DEF IsTrueEntry, IsLess, IsCounted
<1> QED
  <2>1. IsTrueChat(t, cs, st, s, u.chat.chats[s])
    BY <1>2, <1>7, <1>9, LessIsTrue
  <2> QED
    BY <1>2, <1>9, <1>10, <1>11, <2>1, BesideIsTrue DEF IsPublished

\* A chat goes on in its place, and some routes are over.
Put(t, s, c) == [t EXCEPT !.chat.chats[s] = c]
Unrouted(t, S) == [t EXCEPT !.chat.routes = Chat!Without(@, S)]

\* Where the chat is still true, the pair is.
LEMMA PutIsTrue ==
    ASSUME NEW t, NEW cs, NEW st, NEW s, NEW c, IsTruePair(t, cs, st), s \in DOMAIN t.chat.chats,
           IsTrueChat(t, cs, st, s, c),
           c.model = t.chat.chats[s].model, c.endpoint = t.chat.chats[s].endpoint, c.proof = t.chat.chats[s].proof,
           \A n : IsCounted(cs, n, t.chat.chats[s]) => IsCounted(cs, n, c),
           NEW u, u = Put(t, s, c)
    PROVE  /\ IsTruePair(u, cs, st) /\ s \in DOMAIN u.chat.chats /\ u.chat.chats[s] = c
           /\ u.chat.watched = t.chat.watched /\ u.chat.routes = t.chat.routes
           /\ u.chat.calibration = t.chat.calibration
           /\ IsTrueChat(u, cs, st, s, c)
<1> DEFINE C == [t.chat.chats EXCEPT ![s] = c]
<1>1. IsPair(t)
  BY DEF IsTruePair
<1>2. /\ IsMap(C) /\ DOMAIN C = DOMAIN t.chat.chats /\ C[s] = c
      /\ \A x \in DOMAIN t.chat.chats \ {s} : C[x] = t.chat.chats[x]
  BY <1>1 DEF IsMap
<1>3. u = PairOf(t.chat.watched, t.chat.routes, C, t.chat.calibration, t.chat.failures, t.store)
  BY <1>1 DEF IsPair, PairOf, Put, Unrouted
<1> HIDE DEF C
<1>4. /\ IsPair(u) /\ u.chat.watched = t.chat.watched /\ u.chat.routes = t.chat.routes /\ u.chat.chats = C
      /\ u.chat.calibration = t.chat.calibration /\ u.store = t.store
  BY <1>1, <1>2, <1>3, PairOfIs, IsPairOf
<1>5. IsBeside(t, u, s)
  BY <1>2, <1>4 DEF IsBeside
<1>6. s \in DOMAIN u.store => IsTrueEntry(u, cs, s, u.store[s])
  BY <1>2, <1>4 DEF IsTruePair, IsTrueEntry
<1>7. IsTruePair(u, cs, st)
  <2>1. IsTrueChat(t, cs, st, s, u.chat.chats[s])
    BY <1>2, <1>4
  <2> QED
    BY <1>5, <1>6, <2>1, BesideIsTrue
<1> QED
  BY <1>2, <1>4, <1>7 DEF IsTruePair

\* A pair without some routes is true.
LEMMA UnroutedIsTrue ==
    ASSUME NEW t, NEW cs, NEW st, NEW S, IsTruePair(t, cs, st),
           NEW u, u = Unrouted(t, S)
    PROVE  /\ IsTruePair(u, cs, st) /\ u.chat.chats = t.chat.chats /\ u.store = t.store
           /\ u.chat.watched = t.chat.watched /\ u.chat.calibration = t.chat.calibration
           /\ DOMAIN u.chat.routes = DOMAIN t.chat.routes \ S
           /\ \A key \in DOMAIN u.chat.routes : u.chat.routes[key] = t.chat.routes[key]
<1> DEFINE R == Chat!Without(t.chat.routes, S)
<1>1. IsPair(t) /\ \A x \in DOMAIN t.chat.chats : IsChat(t.chat.chats[x])
  BY DEF IsTruePair, IsTrueChat
<1>2. /\ IsMap(R) /\ DOMAIN R = DOMAIN t.chat.routes \ S
      /\ \A x \in DOMAIN t.chat.routes \ S : R[x] = t.chat.routes[x]
  BY WithoutIs
<1>3. u = PairOf(t.chat.watched, R, t.chat.chats, t.chat.calibration, t.chat.failures, t.store)
  BY <1>1 DEF IsPair, PairOf, Put, Unrouted
<1> HIDE DEF R
<1>4. /\ IsPair(u) /\ u.chat.watched = t.chat.watched /\ u.chat.routes = R /\ u.chat.chats = t.chat.chats
      /\ u.chat.calibration = t.chat.calibration /\ u.store = t.store
  BY <1>1, <1>2, <1>3, PairOfIs, IsPairOf
<1>5. \A x \in DOMAIN t.store : x \in DOMAIN t.chat.chats
  BY DEF IsTruePair, IsTrueEntry
<1>6. HoldsLess(t, u)
  BY <1>1, <1>2, <1>4, <1>5, SelfIsLess DEF HoldsLess
<1> QED
  BY <1>2, <1>4, <1>6, LessIsTruePair

\* The event is true.
IsNext(cs, st, ev) == StreamIsTrue(cs, st) /\ Len(st) > 0 /\ ev = st[1]

\* A chat is told of, with no output.
LEMMA SilentIsTrue ==
    ASSUME NEW t, NEW cs, NEW st, NEW s, NEW c, NEW phase, NEW reported,
           IsTruePair(t, cs, st), IsTrueChat(t, cs, st, s, c), c.endpoint # None,
           NEW u, u = Chat!Emitted(t, s, c, phase, {}, reported)
    PROVE  IsTruePair(u, cs, st) /\ IsPublished(u, s, c, phase)
BY EmittedIsTrue

\* A step is announced: it has its endpoint from a dispatch that waited for it.
LEMMA StartedIsTrue ==
    ASSUME NEW t, NEW cs, NEW st, NEW ev, IsTruePair(t, cs, st), IsEvent(cs, ev),
           NEW w, w = Chat!Started(t, ev)
    PROVE  IsTruePair(w, cs, st) /\ (ev.session \in DOMAIN w.chat.chats => w.chat.chats[ev.session].call # None)
<1> DEFINE s == ev.session
           u == Chat!Dropped(t, s)
           key == <<s, ev.model>>
           routed == key \in DOMAIN u.chat.routes
           route == u.chat.routes[key]
           late == routed /\ (~ Chat!IsWatched(u, s, ev.model, Chat!Destination(route.endpoint))
                                \/ now - route.at > OfChat.routeLife)
           v == Unrouted(u, {key})
           told == IF routed THEN route.endpoint ELSE None
           proof == IF routed THEN route.of ELSE None
           c == [Chat!newChat(ev.model, told) EXCEPT !.call = ev.call, !.proof = proof]
           x == [v EXCEPT !.chat.chats = Chat!With(@, s, c)]
<1>1. \/ w = u
      \/ ~late /\ routed /\ w = Chat!Emitted(v, s, c, "waiting", {}, FALSE)
      \/ ~routed /\ w = x
  BY DEF Chat!Started, Unrouted
<1>2. /\ IsTruePair(u, cs, st) /\ s \notin DOMAIN u.chat.chats /\ s \notin DOMAIN u.store
  <2> HIDE DEF u, s
  <2> QED
    BY DroppedHolds DEF u
<1>3. IsChat(c) /\ c.model = ev.model /\ c.endpoint = told /\ c.dispatched = None /\ c.call = ev.call
      /\ c.proof = proof /\ c.counted = {} /\ c.part = "none"
  <2> HIDE DEF told, proof
  <2>1. PICK d : d = c
    OBVIOUS
  <2>2. IsChat(d) /\ d.model = ev.model /\ d.endpoint = told /\ d.dispatched = None /\ d.call = ev.call
        /\ d.proof = proof /\ d.counted = {} /\ d.part = "none"
    BY <2>1 DEF Chat!newChat, IsChat
  <2> QED
    BY <2>1, <2>2
<1> HIDE DEF u, c
<1>4. /\ IsTruePair(v, cs, st) /\ v.chat.chats = u.chat.chats /\ v.store = u.store
      /\ v.chat.watched = u.chat.watched /\ v.chat.calibration = u.chat.calibration
      /\ DOMAIN v.chat.routes = DOMAIN u.chat.routes \ {key}
  <2> HIDE DEF key
  <2> QED
    BY <1>2, UnroutedIsTrue
<1> HIDE DEF v
<1>5. ev.call \in 1 .. Len(cs) /\ cs[ev.call].session = s /\ cs[ev.call].model = ev.model /\ ev.call # None
  BY ChatFacts DEF IsEvent
<1>6. routed => IsTrueRoute(u, cs, key, route)
  BY <1>2 DEF IsTruePair
<1>7. routed => /\ told # None /\ proof \in 1 .. Len(cs) /\ proof # None /\ cs[proof].endpoint = told
                /\ \A k \in 1 .. Len(cs) : k > proof /\ cs[k].session = s /\ cs[k].model = ev.model => ~ cs[k].proved
  <2> SUFFICES ASSUME routed PROVE /\ route.endpoint # None /\ route.of \in 1 .. Len(cs) /\ route.of # None
                                   /\ cs[route.of].endpoint = route.endpoint
                                   /\ \A k \in 1 .. Len(cs) : k > route.of /\ cs[k].session = s
                                          /\ cs[k].model = ev.model => ~ cs[k].proved
    BY Zenon
  <2>1. key[1] = s /\ key[2] = ev.model
    OBVIOUS
  <2> HIDE DEF route, key, s, routed
  <2> QED
    BY <1>6, <2>1, ChatFacts DEF IsTrueRoute
<1>8. routed => IsOf(cs, ev.call, c)
  <2> SUFFICES ASSUME routed PROVE IsOf(cs, ev.call, c)
    OBVIOUS
  <2>1. proof \in Int /\ ev.call \in Int
    BY <1>5, <1>7
  <2> HIDE DEF proof, told, routed
  <2> QED
    BY <1>3, <1>5, <1>7, <2>1 DEF IsOf
<1>9. ~late => IsTrueChat(v, cs, st, s, c)
  <2> SUFFICES ASSUME ~late PROVE IsTrueChat(v, cs, st, s, c)
    OBVIOUS
  <2>1. c.endpoint # None => Chat!IsWatched(v, s, c.model, Chat!Destination(c.endpoint))
    BY <1>3, <1>4 DEF Chat!IsWatched
  <2>2. c.endpoint = None => ~routed /\ c.proof = None
    BY <1>3, <1>7
  <2>3. c.endpoint # None => routed
    BY <1>3
  <2> HIDE DEF routed, told, proof, late
  <2>4. IsAnnounced(v, cs, s, c)
    BY <1>3, <1>4, <1>5, <1>8, <2>2, <2>3 DEF IsAnnounced
  <2> QED
    BY <1>3, <1>5, <2>1, <2>4 DEF IsTrueChat
<1>10. CASE w = u
  BY <1>2, <1>10
<1>11. CASE ~late /\ routed /\ w = Chat!Emitted(v, s, c, "waiting", {}, FALSE)
  <2>1. c.endpoint # None
    BY <1>3, <1>7, <1>11
  <2>2. IsTruePair(w, cs, st) /\ IsPublished(w, s, c, "waiting")
    <3> HIDE DEF s, late, routed
    <3> QED
      BY <1>4, <1>9, <1>11, <2>1, SilentIsTrue
  <2>3. Published(c, "waiting").call = ev.call
    BY <1>3, PublishedIsLess DEF IsLess
  <2> QED
    BY <1>5, <2>2, <2>3 DEF IsPublished
<1>12. CASE ~routed /\ w = x
  <2> DEFINE C == Chat!With(v.chat.chats, s, c)
  <2>1. IsMap(C) /\ DOMAIN C = DOMAIN v.chat.chats \cup {s} /\ C[s] = c
        /\ \A y \in DOMAIN v.chat.chats \ {s} : C[y] = v.chat.chats[y]
    BY DEF Chat!With, IsMap
  <2>2. IsPair(v)
    BY <1>4 DEF IsTruePair
  <2>3. w = PairOf(v.chat.watched, v.chat.routes, C, v.chat.calibration, v.chat.failures, v.store)
    BY <1>12, <2>2 DEF IsPair, PairOf
  <2> HIDE DEF C
  <2>4. /\ IsPair(w) /\ w.chat.watched = v.chat.watched /\ w.chat.routes = v.chat.routes /\ w.chat.chats = C
        /\ w.chat.calibration = v.chat.calibration /\ w.store = v.store
    BY <2>1, <2>2, <2>3, PairOfIs, IsPairOf
  <2>5. IsBeside(v, w, s) /\ s \notin DOMAIN w.store
    BY <1>2, <1>4, <2>1, <2>4 DEF IsBeside
  <2>6. ~late
    BY <1>12
  <2>7. IsTruePair(w, cs, st)
    BY <1>4, <1>9, <2>1, <2>4, <2>5, <2>6, BesideIsTrue
  <2> QED
    BY <1>3, <1>5, <2>1, <2>4, <2>7
<1> QED
  BY <1>1, <1>10, <1>11, <1>12

\* A chat that said what it should not is dropped, and counted against the shape of events.
LEMMA FailedIsTrue ==
    ASSUME NEW t, NEW cs, NEW st, IsTruePair(t, cs, st), NEW s, NEW u, u = Chat!Failed(t, s)
    PROVE  IsTruePair(u, cs, st)
<1>1. PICK v : v = Chat!Dropped(t, s)
  OBVIOUS
<1>2. IsTruePair(v, cs, st) /\ IsPair(v) /\ \A x \in DOMAIN v.chat.chats : IsChat(v.chat.chats[x])
  <2>1. IsTruePair(v, cs, st)
    BY <1>1, DroppedHolds
  <2> QED
    BY <2>1 DEF IsTruePair, IsTrueChat
<1>3. PICK w : w = IF v.chat.failures < OfChat.shape THEN v.chat.failures + 1 ELSE v.chat.failures
  OBVIOUS
<1>4. u = PairOf(v.chat.watched, v.chat.routes, v.chat.chats, v.chat.calibration, w, v.store)
  BY <1>1, <1>2, <1>3 DEF Chat!Failed, IsPair, PairOf
<1>5. /\ IsPair(u) /\ u.chat.watched = v.chat.watched /\ u.chat.routes = v.chat.routes /\ u.chat.chats = v.chat.chats
      /\ u.chat.calibration = v.chat.calibration /\ u.store = v.store
  BY <1>2, <1>4, PairOfIs, IsPairOf
<1>6. \A x \in DOMAIN v.store : x \in DOMAIN v.chat.chats
  BY <1>2 DEF IsTruePair, IsTrueEntry
<1>7. HoldsLess(v, u)
  BY <1>2, <1>5, <1>6, SelfIsLess DEF HoldsLess
<1> QED
  BY <1>2, <1>7, LessIsTruePair

\* A chat goes on: with the output of the call it is bound to, and true to it when that is complete.
GoesOn(cs, c, d) ==
    /\ IsChat(d)
    /\ d.model = c.model /\ d.endpoint = c.endpoint /\ d.dispatched = c.dispatched /\ d.call = c.call
    /\ d.proof = c.proof
    /\ \A n \in d.counted : IsCounted(cs, n, c)
    /\ d.eligible => c.eligible
    /\ d.eligible /\ d.part = "ended" => d.call # None /\ Closed(cs, d.call) /\ d.chars = cs[d.call].chars

\* A chat that goes on is still of its endpoint.
LEMMA GoesOnIsTrue ==
    ASSUME NEW t, NEW cs, NEW st, NEW s, NEW c, NEW d, IsTrueChat(t, cs, st, s, c), GoesOn(cs, c, d)
    PROVE  IsTrueChat(t, cs, st, s, d)
<1>1. IsAnnounced(t, cs, s, c) => IsAnnounced(t, cs, s, d)
  BY DEF IsAnnounced, GoesOn, IsOf
<1>2. IsSeeded(cs, st, s, c) => IsSeeded(cs, st, s, d)
  BY DEF IsSeeded, IsSeededBy, GoesOn
<1>3. \A n : IsCounted(cs, n, c) => IsCounted(cs, n, d)
  BY DEF IsCounted, GoesOn
<1> QED
  BY <1>1, <1>2, <1>3 DEF IsTrueChat, GoesOn

\* It is told of then.
LEMMA GoesOnAndTells ==
    ASSUME NEW t, NEW cs, NEW st, NEW s, NEW c, NEW d, NEW phase, NEW counted, NEW reported,
           IsTruePair(t, cs, st), IsTrueChat(t, cs, st, s, c), c.endpoint # None,
           GoesOn(cs, c, d), \A n \in counted : IsCounted(cs, n, c),
           NEW u, u = Chat!Emitted(t, s, d, phase, counted, reported)
    PROVE  IsTruePair(u, cs, st)
<1>1. IsTrueChat(t, cs, st, s, d) /\ d.endpoint # None
  BY GoesOnIsTrue DEF GoesOn
<1>2. \A n \in counted : IsCounted(cs, n, d)
  BY DEF IsCounted, GoesOn
<1> QED
  BY <1>1, <1>2, EmittedIsTrue

\* It goes on in its place.
LEMMA GoesOnInPlace ==
    ASSUME NEW t, NEW cs, NEW st, NEW s, NEW c, NEW d,
           IsTruePair(t, cs, st), s \in DOMAIN t.chat.chats, t.chat.chats[s] = c, GoesOn(cs, c, d),
           NEW u, u = Put(t, s, d)
    PROVE  IsTruePair(u, cs, st)
<1>1. IsTrueChat(t, cs, st, s, d)
  BY GoesOnIsTrue DEF IsTruePair
<1>2. /\ d.model = c.model /\ d.endpoint = c.endpoint /\ d.proof = c.proof
      /\ \A n : IsCounted(cs, n, c) => IsCounted(cs, n, d)
  BY DEF IsCounted, GoesOn
<1> QED
  BY <1>1, <1>2, PutIsTrue

\* Its reading is over: nothing of it counts.
IsQuiet(c, d) ==
    /\ IsChat(d)
    /\ d.model = c.model /\ d.endpoint = c.endpoint /\ d.dispatched = c.dispatched /\ d.call = c.call
    /\ d.proof = c.proof /\ d.counted = {}
    /\ d.eligible => c.eligible /\ d.part = c.part /\ d.chars = c.chars
\* It goes on, with nothing to tell.
LEMMA QuietGoesOn ==
    ASSUME NEW t, NEW cs, NEW st, NEW s, NEW c, NEW d, IsTrueChat(t, cs, st, s, c), IsQuiet(c, d)
    PROVE  GoesOn(cs, c, d)
BY DEF IsTrueChat, GoesOn, IsQuiet

\* What is said of a quiet chat counts nothing, or the call it is bound to.
LEMMA QuietTells ==
    ASSUME NEW t, NEW cs, NEW st, NEW s, NEW c, NEW d, NEW phase, NEW counted, NEW reported,
           IsTruePair(t, cs, st), IsTrueChat(t, cs, st, s, c), c.endpoint # None, IsQuiet(c, d),
           counted = {} \/ (counted = {c.call} /\ c.call # None /\ Sent(cs, c.call)),
           NEW u, u = Chat!Emitted(t, s, d, phase, counted, reported)
    PROVE  IsTruePair(u, cs, st)
<1>1. GoesOn(cs, c, d)
  BY QuietGoesOn
<1>2. \A n \in counted : IsCounted(cs, n, c)
  BY DEF IsCounted
<1> QED
  BY <1>1, <1>2, GoesOnAndTells

\* A delta counts.
LEMMA SampledIsTrue ==
    ASSUME NEW t, NEW cs, NEW st, NEW s, NEW c, IsTruePair(t, cs, st), IsTrueChat(t, cs, st, s, c),
           c.endpoint # None, c.part = "open", c.call # None, Sent(cs, c.call),
           NEW u, u = Chat!Sampled(t, s, c, c.call)
    PROVE  IsTruePair(u, cs, st)
<1> DEFINE fresh == c.lastDelta # None /\ now - c.lastDelta >= OfChat.window
           counted == (IF fresh THEN {} ELSE c.counted) \cup {c.call}
<1>1. PICK d : d = [c EXCEPT !.counted = counted, !.lastDelta = now, !.eligible = @ /\ ~ fresh, !.chars = @ + 1]
  OBVIOUS
<1>2. u = Chat!Emitted(t, s, d, "generating", counted, FALSE)
  BY <1>1 DEF Chat!Sampled
<1>3. \A n \in counted : IsCounted(cs, n, c)
  BY DEF IsTrueChat, IsCounted
<1> HIDE DEF counted
<1>4. /\ IsChat(d) /\ d.model = c.model /\ d.endpoint = c.endpoint /\ d.dispatched = c.dispatched
      /\ d.call = c.call /\ d.proof = c.proof /\ d.counted = counted /\ d.part = "open"
      /\ d.eligible => c.eligible
  <2>1. IsChat(c)
    BY DEF IsTrueChat
  <2> HIDE DEF fresh
  <2> QED
    BY <1>1, <2>1 DEF IsChat
<1>5. GoesOn(cs, c, d)
  BY <1>3, <1>4 DEF GoesOn
<1> QED
  BY <1>2, <1>3, <1>5, GoesOnAndTells

\* A step that ended calibrates its endpoint.
Calibrated(t, step, f) == [t EXCEPT !.chat.calibration = @ \cup {step}, !.chat.failures = f]
\* What it adds is of the endpoint it names.
LEMMA CalibratedIsTrue ==
    ASSUME NEW t, NEW cs, NEW st, IsTruePair(t, cs, st), NEW step, IsTrueStep(cs, step), NEW f,
           NEW u, u = Calibrated(t, step, f)
    PROVE  IsTruePair(u, cs, st) /\ u.chat.chats = t.chat.chats /\ u.chat.watched = t.chat.watched
           /\ u.chat.routes = t.chat.routes
<1>1. IsPair(t)
  BY DEF IsTruePair
<1>2. u = PairOf(t.chat.watched, t.chat.routes, t.chat.chats, t.chat.calibration \cup {step}, f, t.store)
  BY <1>1 DEF IsPair, PairOf, Calibrated
<1>3. /\ IsPair(u) /\ u.chat.watched = t.chat.watched /\ u.chat.routes = t.chat.routes /\ u.chat.chats = t.chat.chats
      /\ u.chat.calibration = t.chat.calibration \cup {step} /\ u.store = t.store
  <2> DEFINE K == t.chat.calibration \cup {step}
  <2> HIDE DEF K
  <2>1. u = PairOf(t.chat.watched, t.chat.routes, t.chat.chats, K, f, t.store)
    BY <1>2 DEF K
  <2>2. /\ IsPair(u) /\ u.chat.watched = t.chat.watched /\ u.chat.routes = t.chat.routes
        /\ u.chat.chats = t.chat.chats /\ u.chat.calibration = K /\ u.store = t.store
    BY <1>1, <2>1, PairOfIs, IsPairOf
  <2> QED
    BY <2>2 DEF K
<1>4. \A x \in u.chat.calibration : IsTrueStep(cs, x)
  BY <1>3 DEF IsTruePair
<1>5. \A key \in DOMAIN u.chat.routes : IsTrueRoute(u, cs, key, u.chat.routes[key])
  BY <1>3 DEF IsTruePair, IsTrueRoute, Chat!IsWatched
<1>6. \A s \in DOMAIN u.chat.chats : IsTrueChat(u, cs, st, s, u.chat.chats[s])
  BY <1>3 DEF IsTruePair, IsTrueChat, IsAnnounced, Chat!IsWatched
<1>7. \A s \in DOMAIN u.store : IsTrueEntry(u, cs, s, u.store[s])
  BY <1>3 DEF IsTruePair, IsTrueEntry
<1> QED
  BY <1>3, <1>4, <1>5, <1>6, <1>7 DEF IsTruePair

\* The end of a step: the calibration, where there is one, has the whole of it.
LEMMA EndedIsTrue ==
    ASSUME NEW t, NEW cs, NEW st, NEW s, NEW c, NEW ev, IsTruePair(t, cs, st), IsTrueChat(t, cs, st, s, c),
           c.endpoint # None, c.call # None, ev.call = c.call, Sent(cs, c.call),
           NEW u, u = Chat!Ended(t, s, c, ev)
    PROVE  IsTruePair(u, cs, st)
<1> DEFINE eligible == c.eligible /\ ev.finish = "stop" /\ c.chars > 0 /\ c.part = "ended" /\ c.streamed
           step == [endpoint |-> c.endpoint, call |-> ev.call, chars |-> c.chars, proof |-> c.proof]
           f == IF t.chat.failures < OfChat.shape THEN 0 ELSE t.chat.failures
           done == ev.finish = "stop"
<1>1. PICK d : d = Chat!quietened(c)
  OBVIOUS
<1>2. PICK v : v = Calibrated(t, step, f)
  OBVIOUS
<1>3. PICK phase : phase = IF done THEN "complete" ELSE "tool"
  OBVIOUS
<1>4. IsChat(c) /\ IsQuiet(c, d)
  <2>1. IsChat(c)
    BY DEF IsTrueChat
  <2> QED
    BY <1>1, <2>1 DEF Chat!quietened, IsChat, IsQuiet
<1>5. CASE eligible
  <2>1. c.dispatched = None
    BY <1>5 DEF IsTrueChat, IsSeeded
  <2>2. IsOf(cs, c.call, c) /\ Closed(cs, c.call) /\ c.chars = cs[c.call].chars /\ c.call \in 1 .. Len(cs)
    BY <1>5, <2>1 DEF IsTrueChat, IsAnnounced
  <2>3. IsTrueStep(cs, step)
    BY <2>2 DEF IsTrueStep, IsOf
  <2> HIDE DEF step, f
  <2>4. IsTruePair(v, cs, st) /\ v.chat.chats = t.chat.chats /\ v.chat.watched = t.chat.watched
        /\ v.chat.routes = t.chat.routes
    BY <1>2, <2>3, CalibratedIsTrue
  <2>5. IsTrueChat(v, cs, st, s, c)
    BY <2>4 DEF IsTrueChat, IsAnnounced, Chat!IsWatched
  <2>6. u = Chat!Emitted(v, s, d, "complete", {c.call}, TRUE)
    BY <1>1, <1>2, <1>5 DEF Chat!Ended, Calibrated, step, f
  <2> HIDE DEF eligible
  <2> QED
    BY <1>4, <2>4, <2>5, <2>6, QuietTells
<1>6. CASE ~eligible
  <2>1. u = Chat!Emitted(t, s, d, phase, {}, done)
    BY <1>1, <1>3, <1>6 DEF Chat!Ended
  <2> HIDE DEF eligible, done
  <2> QED
    BY <1>4, <2>1, QuietTells
<1> QED
  BY <1>5, <1>6

\* Output of the reply a chat is bound to.
LEMMA OutputIsTrue ==
    ASSUME NEW t, NEW cs, NEW st, NEW s, NEW c, NEW ev, IsTruePair(t, cs, st), s \in DOMAIN t.chat.chats,
           t.chat.chats[s] = c, c.endpoint # None, c.call # None, ev.call = c.call,
           IsEvent(cs, ev), ev.type \in Replying,
           NEW u, u = Chat!Output(t, s, c, ev)
    PROVE  IsTruePair(u, cs, st)
<1>1. IsTrueChat(t, cs, st, s, c) /\ IsChat(c) /\ Sent(cs, c.call)
  BY DEF IsTruePair, IsTrueChat, IsEvent
<1>2. ASSUME NEW w, w = Chat!Dropped(t, s) PROVE IsTruePair(w, cs, st)
  BY <1>2, DroppedHolds
<1>3. ASSUME NEW d, IsQuiet(c, d), NEW phase, NEW w, w = Chat!Emitted(t, s, d, phase, {}, FALSE)
      PROVE  IsTruePair(w, cs, st)
  BY <1>1, <1>3, QuietTells
<1>4. CASE ev.type = "part"
  <2>1. CASE c.part # "none"
    BY <1>2, <1>4, <2>1 DEF Chat!Output
  <2>2. CASE c.part = "none"
    <3>1. PICK d : d = [c EXCEPT !.part = "open"]
      OBVIOUS
    <3>2. u = Put(t, s, d)
      BY <1>4, <2>2, <3>1 DEF Chat!Output, Put
    <3>3. GoesOn(cs, c, d)
      BY <1>1, <3>1 DEF IsChat, IsTrueChat, GoesOn
    <3> QED
      BY <3>2, <3>3, GoesOnInPlace
  <2> QED
    BY <2>1, <2>2
<1>5. CASE ev.type = "delta"
  <2>1. CASE c.part # "open"
    BY <1>2, <1>5, <2>1 DEF Chat!Output
  <2>2. CASE c.part = "open"
    <3>1. u = Chat!Sampled(t, s, c, c.call)
      BY <1>5, <2>2 DEF Chat!Output
    <3> QED
      BY <1>1, <2>2, <3>1, SampledIsTrue
  <2> QED
    BY <2>1, <2>2
<1>6. CASE ev.type = "parted"
  <2>1. CASE c.part # "open"
    BY <1>2, <1>6, <2>1 DEF Chat!Output
  <2>2. CASE c.part = "open" /\ ev.chars = c.chars
    <3>1. PICK d : d = [c EXCEPT !.part = "ended"]
      OBVIOUS
    <3>2. u = Put(t, s, d)
      BY <1>6, <2>2, <3>1 DEF Chat!Output, Put
    <3>3. Closed(cs, c.call) /\ c.chars = cs[c.call].chars
      BY <1>6, <2>2 DEF IsEvent
    <3>4. GoesOn(cs, c, d)
      BY <1>1, <3>1, <3>3 DEF IsChat, IsTrueChat, GoesOn
    <3> QED
      BY <3>2, <3>4, GoesOnInPlace
  <2>3. CASE c.part = "open" /\ ev.chars # c.chars
    <3>1. PICK d : d = [Chat!quietened(c) EXCEPT !.part = "ended", !.eligible = FALSE]
      OBVIOUS
    <3>2. u = Chat!Emitted(t, s, d, "waiting", {}, FALSE)
      BY <1>6, <2>3, <3>1 DEF Chat!Output
    <3>3. /\ IsChat(d) /\ d.model = c.model /\ d.endpoint = c.endpoint /\ d.dispatched = c.dispatched
          /\ d.call = c.call /\ d.proof = c.proof /\ d.counted = {} /\ d.eligible = FALSE
      BY <1>1, <3>1 DEF Chat!quietened, IsChat
    <3>4. GoesOn(cs, c, d)
      BY <3>3 DEF GoesOn
    <3>5. \A n \in {} : IsCounted(cs, n, c)
      OBVIOUS
    <3> QED
      BY <1>1, <3>2, <3>4, <3>5, GoesOnAndTells
  <2> QED
    BY <2>1, <2>2, <2>3
<1>7. CASE ev.type = "tool"
  <2>1. PICK d : d = [Chat!quietened(c) EXCEPT !.eligible = FALSE]
    OBVIOUS
  <2>2. u = Chat!Emitted(t, s, d, "tool", {}, FALSE)
    BY <1>7, <2>1 DEF Chat!Output
  <2>3. IsQuiet(c, d)
    BY <1>1, <2>1 DEF Chat!quietened, IsChat, IsQuiet
  <2> QED
    BY <1>3, <2>2, <2>3
<1>8. CASE ev.type = "streamed"
  <2>1. PICK d : d = [Chat!quietened(c) EXCEPT !.streamed = TRUE]
    OBVIOUS
  <2>2. u = Chat!Emitted(t, s, d, "waiting", {}, FALSE)
    BY <1>8, <2>1 DEF Chat!Output
  <2>3. IsQuiet(c, d)
    BY <1>1, <2>1 DEF Chat!quietened, IsChat, IsQuiet
  <2> QED
    BY <1>3, <2>2, <2>3
<1>9. CASE ev.type = "ended"
  <2>1. u = Chat!Ended(t, s, c, ev)
    BY <1>9 DEF Chat!Output
  <2> QED
    BY <1>1, <2>1, EndedIsTrue
<1>10. CASE ev.type = "unknown"
  <2>1. u = Chat!Failed(t, s)
    BY <1>10 DEF Chat!Output
  <2> QED
    BY <2>1, FailedIsTrue
<1> QED
  BY <1>4, <1>5, <1>6, <1>7, <1>8, <1>9, <1>10 DEF Replying

\* The first reply a chat begun by a dispatch takes is the one to that dispatch: an earlier
\* one was published before, and later ones are announced first.
LEMMA BindsItsOwn ==
    ASSUME NEW t, NEW cs, NEW st, NEW s, NEW c, NEW ev, NEW time, CallsInOrder(cs, time),
           IsTrueChat(t, cs, st, s, c), c.endpoint # None, c.call = None,
           IsNext(cs, st, ev), ev.session = s, ev.type \in Replying, ~ Chat!Precedes(c, ev),
           NEW d, d = [c EXCEPT !.call = ev.call]
    PROVE  IsTrueChat(t, cs, st, s, d)
<1>1. IsSeeded(cs, st, s, c) /\ c.dispatched \in Nat /\ c.dispatched # None
  BY ChatFacts DEF IsTrueChat, IsAnnounced, IsSeeded
<1>2. PICK p \in 1 .. Len(cs) : IsSeededBy(cs, st, p, s, c)
  BY <1>1 DEF IsSeeded
<1> DEFINE n == ev.call
<1>3. /\ IsEvent(cs, ev) /\ n \in 1 .. Len(cs) /\ cs[n].session = s
      /\ ev.created \in Nat /\ ev.created <= cs[n].at /\ cs[n].announced
      /\ Len(st) \in Nat /\ Len(st) > 0
  BY DEF IsNext, StreamIsTrue, IsEvent
<1>4. ev.created >= c.dispatched
  BY <1>1, <1>3 DEF Chat!Precedes
<1>5. Len(cs) \in Nat /\ cs[n].at \in Nat
  BY <1>3 DEF CallsInOrder, IsCall
<1>6. ~ n < p
  BY <1>1, <1>2, <1>3, <1>4, <1>5 DEF IsSeededBy
<1>7. ~ n > p
  <2> SUFFICES ASSUME n > p PROVE FALSE
    OBVIOUS
  <2>1. Awaited(cs, st, n)
    BY <1>2, <1>3 DEF IsSeededBy
  <2>2. PICK i \in 1 .. Len(st) : \A j \in 1 .. Len(st) : st[j].call = n /\ st[j].type \in Replying => i < j
    BY <1>3, <2>1 DEF Awaited
  <2>3. 1 \in 1 .. Len(st) /\ st[1] = ev
    BY <1>3 DEF IsNext
  <2> QED
    BY <1>3, <2>2, <2>3
<1>8. n = p
  BY <1>3, <1>5, <1>6, <1>7
<1> HIDE DEF n
<1>9. IsChat(c)
  BY DEF IsTrueChat
<1>10. /\ IsChat(d) /\ d.model = c.model /\ d.endpoint = c.endpoint /\ d.dispatched = c.dispatched
       /\ d.proof = c.proof /\ d.counted = c.counted /\ d.eligible = c.eligible /\ d.call = n
  BY <1>9 DEF IsChat, n
<1>11. d.call # None
  BY <1>3, <1>10, ChatFacts
<1>12. IsSeededBy(cs, st, p, s, d)
  BY <1>2, <1>8, <1>10, <1>11 DEF IsSeededBy
<1>13. IsSeeded(cs, st, s, d)
  BY <1>1, <1>10, <1>12 DEF IsSeeded
<1>14. c.counted = {}
  BY DEF IsTrueChat, IsCounted
<1> QED
  BY <1>1, <1>3, <1>10, <1>13, <1>14 DEF IsTrueChat, IsSeeded

\* A chat takes an event.
LEMMA TakenIsTrue ==
    ASSUME NEW t, NEW cs, NEW st, NEW s, NEW ev, NEW time, CallsInOrder(cs, time), IsTruePair(t, cs, st),
           s \in DOMAIN t.chat.chats, t.chat.chats[s].endpoint # None,
           IsNext(cs, st, ev), ev.session = s, ev.type # "started", ~ Chat!Precedes(t.chat.chats[s], ev),
           NEW w, w = Chat!Taken(t, s, ev)
    PROVE  IsTruePair(w, cs, st)
<1> DEFINE old == t.chat.chats[s]
           c == [old EXCEPT !.seen = @ \cup {ev.id}]
           u == [t EXCEPT !.chat.chats[s] = c]
           bound == [c EXCEPT !.call = ev.call]
           key == <<s, c.model>>
           used == c.call = None /\ key \in DOMAIN t.chat.routes /\ t.chat.routes[key].at = c.dispatched
           x == [u EXCEPT !.chat.chats[s] = bound, !.chat.routes = IF used THEN Chat!Without(@, {key}) ELSE @]
<1>1. w = IF ev.type \in Chat!Reset THEN Chat!Dropped(u, s)
          ELSE IF ev.type \in Chat!Cancel
          THEN Chat!Emitted(u, s, [Chat!quietened(c) EXCEPT !.eligible = FALSE], "cancelled", {}, FALSE)
          ELSE IF ev.type = "succeeded"
          THEN IF c.phase = "complete" THEN u ELSE Chat!Emitted(u, s, Chat!quietened(c), "complete", {}, TRUE)
          ELSE IF c.phase \in {"cancelled", "complete"} \/ ev.type = "metadata" THEN u
          ELSE IF c.call # None /\ ev.call # c.call THEN Chat!Dropped(u, s)
          ELSE Chat!Output(x, s, bound, ev)
  BY Zenon DEF Chat!Taken
<1>2. c = [old EXCEPT !.seen = @ \cup {ev.id}] /\ old = t.chat.chats[s]
  OBVIOUS
<1>3. u = Put(t, s, c)
  BY DEF Put
<1> HIDE DEF old, c, u, bound, key, used, x
<1>4. IsTrueChat(t, cs, st, s, old) /\ IsChat(old) /\ old.endpoint # None
  BY <1>2 DEF IsTruePair, IsTrueChat
<1>5. /\ IsChat(c) /\ c.model = old.model /\ c.endpoint = old.endpoint /\ c.dispatched = old.dispatched
      /\ c.call = old.call /\ c.part = old.part /\ c.chars = old.chars /\ c.counted = old.counted
      /\ c.eligible = old.eligible /\ c.proof = old.proof
  BY <1>2, <1>4 DEF IsChat
<1>6. IsTrueChat(t, cs, st, s, c)
  BY <1>4, <1>5, LessIsTrue DEF IsLess
<1>7. /\ IsTruePair(u, cs, st) /\ s \in DOMAIN u.chat.chats /\ u.chat.chats[s] = c
      /\ u.chat.routes = t.chat.routes /\ IsTrueChat(u, cs, st, s, c)
  <2>1. \A n : IsCounted(cs, n, old) => IsCounted(cs, n, c)
    BY <1>5 DEF IsCounted
  <2>2. c.model = t.chat.chats[s].model /\ c.endpoint = t.chat.chats[s].endpoint
        /\ c.proof = t.chat.chats[s].proof /\ \A n : IsCounted(cs, n, t.chat.chats[s]) => IsCounted(cs, n, c)
    BY <1>2, <1>5, <2>1
  <2> QED
    BY <1>3, <1>6, <2>2, PutIsTrue
<1>8. \/ w = Chat!Dropped(u, s)
      \/ w = u
      \/ w = Chat!Emitted(u, s, [Chat!quietened(c) EXCEPT !.eligible = FALSE], "cancelled", {}, FALSE)
      \/ w = Chat!Emitted(u, s, Chat!quietened(c), "complete", {}, TRUE)
      \/ /\ ev.type \notin Chat!Reset \cup Chat!Cancel \cup {"succeeded", "metadata"}
         /\ c.call = None \/ ev.call = c.call
         /\ w = Chat!Output(x, s, bound, ev)
  BY <1>1
<1>9. CASE w = Chat!Dropped(u, s)
  BY <1>7, <1>9, DroppedHolds
<1>10. CASE w = Chat!Emitted(u, s, [Chat!quietened(c) EXCEPT !.eligible = FALSE], "cancelled", {}, FALSE)
  <2>1. PICK d : d = [Chat!quietened(c) EXCEPT !.eligible = FALSE]
    OBVIOUS
  <2>2. IsQuiet(c, d)
    BY <1>5, <2>1 DEF Chat!quietened, IsChat, IsQuiet
  <2>3. w = Chat!Emitted(u, s, d, "cancelled", {}, FALSE) /\ c.endpoint # None
    BY <1>4, <1>5, <1>10, <2>1
  <2> QED
    BY <1>7, <2>2, <2>3, QuietTells
<1>11. CASE w = Chat!Emitted(u, s, Chat!quietened(c), "complete", {}, TRUE)
  <2>1. PICK d : d = Chat!quietened(c)
    OBVIOUS
  <2>2. IsQuiet(c, d)
    BY <1>5, <2>1 DEF Chat!quietened, IsChat, IsQuiet
  <2>3. w = Chat!Emitted(u, s, d, "complete", {}, TRUE) /\ c.endpoint # None
    BY <1>4, <1>5, <1>11, <2>1
  <2> QED
    BY <1>7, <2>2, <2>3, QuietTells
<1>12. CASE /\ ev.type \notin Chat!Reset \cup Chat!Cancel \cup {"succeeded", "metadata"}
            /\ c.call = None \/ ev.call = c.call
            /\ w = Chat!Output(x, s, bound, ev)
  <2>1. IsEvent(cs, ev) /\ ev.type \in Replying /\ ev.call # None
    <3>1. IsEvent(cs, ev)
      BY DEF IsNext, StreamIsTrue
    <3>2. ev.type \in Replying
      BY <1>12, <3>1 DEF IsEvent, Telling, Chat!Reset, Chat!Cancel
    <3> QED
      BY <3>1, <3>2, ChatFacts DEF IsEvent
  <2>2. PICK d : d = bound /\ d = [c EXCEPT !.call = ev.call]
    BY DEF bound
  <2>3. IsChat(d) /\ d.model = c.model /\ d.endpoint = c.endpoint /\ d.proof = c.proof /\ d.call = ev.call
        /\ d.dispatched = c.dispatched /\ d.counted = c.counted /\ d.eligible = c.eligible /\ d.part = c.part
        /\ d.chars = c.chars
    BY <1>5, <2>2 DEF IsChat
  <2>4. IsTrueChat(u, cs, st, s, d)
    <3>1. CASE c.call = None
      <4>1. ~ Chat!Precedes(c, ev)
        BY <1>2, <1>5 DEF Chat!Precedes
      <4> QED
        BY <1>4, <1>5, <1>7, <2>1, <2>2, <3>1, <4>1, BindsItsOwn
    <3>2. CASE ev.call = c.call
      BY <1>7, <2>3, <3>2, LessIsTrue DEF IsLess
    <3> QED
      BY <1>12, <3>1, <3>2
  <2>5. PICK v : v = Put(u, s, d)
    OBVIOUS
  <2>6. /\ IsTruePair(v, cs, st) /\ s \in DOMAIN v.chat.chats /\ v.chat.chats[s] = d
        /\ v.chat.routes = u.chat.routes
    <3>1. \A n : IsCounted(cs, n, u.chat.chats[s]) => IsCounted(cs, n, d)
      BY <1>7, <1>12, <2>3 DEF IsCounted
    <3>2. d.model = u.chat.chats[s].model /\ d.endpoint = u.chat.chats[s].endpoint
          /\ d.proof = u.chat.chats[s].proof
      BY <1>7, <2>3
    <3> QED
      BY <1>7, <2>4, <2>5, <3>1, <3>2, PutIsTrue
  <2>7. PICK y : y = x
    OBVIOUS
  <2>8. y = v \/ y = Unrouted(v, {key})
    <3>1. y = [v EXCEPT !.chat.routes = IF used THEN Chat!Without(@, {key}) ELSE @]
      BY <2>2, <2>5, <2>7 DEF Put, x
    <3>2. IsPair(v)
      BY <2>6 DEF IsTruePair
    <3>3. CASE used
      BY <3>1, <3>3 DEF Unrouted
    <3>4. CASE ~used
      BY <3>1, <3>2, <3>4 DEF IsPair
    <3> QED
      BY <3>3, <3>4
  <2>9. IsTruePair(y, cs, st) /\ s \in DOMAIN y.chat.chats /\ y.chat.chats[s] = d
    <3>1. CASE y = v
      BY <2>6, <3>1
    <3>2. CASE y = Unrouted(v, {key})
      BY <2>6, <3>2, UnroutedIsTrue
    <3> QED
      BY <2>8, <3>1, <3>2
  <2>10. w = Chat!Output(y, s, d, ev)
    BY <1>12, <2>2, <2>7
  <2>11. d.endpoint # None /\ d.call # None /\ ev.call = d.call
    BY <1>4, <1>5, <2>1, <2>3
  <2> QED
    BY <2>1, <2>9, <2>10, <2>11, OutputIsTrue
<1> QED
  BY <1>7, <1>8, <1>9, <1>10, <1>11, <1>12

\* An announced chat is not one that a dispatch began and no reply was taken for.
IsBegun(t, s) == s \in DOMAIN t.chat.chats => t.chat.chats[s].call # None

\* Whatever arrives, however late, leaves the pair true.
LEMMA EventIsTrue ==
    ASSUME NEW t, NEW cs, NEW st, NEW ev, NEW time, CallsInOrder(cs, time), IsTruePair(t, cs, st),
           IsNext(cs, st, ev), NEW w, w = Chat!Event(t, ev)
    PROVE  IsTruePair(w, cs, st) /\ (ev.type = "started" => IsBegun(w, ev.session))
<1> DEFINE s == ev.session
           old == {r \in DOMAIN t.chat.routes : r[1] = s /\ t.chat.routes[r].at <= ev.created}
<1>1. PICK u : u = IF ev.type \in Chat!Reset \cup Chat!Cancel \cup Chat!End THEN Unrouted(t, old) ELSE t
  OBVIOUS
<1>2. \/ w = Chat!Dropped(t, s)
      \/ ev.type = "started" /\ w = Chat!Started(u, ev)
      \/ ev.type # "started" /\ w = u
      \/ ev.type # "started" /\ w = Chat!Dropped(u, s)
      \/ /\ ev.type # "started" /\ s \in DOMAIN u.chat.chats /\ u.chat.chats[s].endpoint # None
         /\ ~ Chat!Precedes(u.chat.chats[s], ev) /\ w = Chat!Taken(u, s, ev)
  BY <1>1 DEF Chat!Event, Chat!Known, Unrouted
<1>3. IsTruePair(u, cs, st)
  <2> HIDE DEF old
  <2> QED
    BY <1>1, UnroutedIsTrue
<1>4. IsEvent(cs, ev) /\ ev.session = s
  BY DEF IsNext, StreamIsTrue
<1> HIDE DEF s, old
<1>5. CASE w = Chat!Dropped(t, s)
  BY <1>4, <1>5, DroppedHolds DEF IsBegun
<1>6. CASE ev.type = "started" /\ w = Chat!Started(u, ev)
  BY <1>3, <1>4, <1>6, StartedIsTrue DEF IsBegun
<1>7. CASE ev.type # "started" /\ w = Chat!Dropped(u, s)
  BY <1>3, <1>7, DroppedHolds
<1>8. CASE /\ ev.type # "started" /\ s \in DOMAIN u.chat.chats /\ u.chat.chats[s].endpoint # None
           /\ ~ Chat!Precedes(u.chat.chats[s], ev) /\ w = Chat!Taken(u, s, ev)
  BY <1>3, <1>4, <1>8, TakenIsTrue
<1> QED
  BY <1>2, <1>3, <1>5, <1>6, <1>7, <1>8

\* Calls go on: they end, are dispatched and announced, and new ones begin.
CallsGoOn(cs, ds) ==
    /\ Len(cs) \in Nat /\ Len(ds) \in Nat /\ Len(cs) <= Len(ds)
    /\ \A n \in 1 .. Len(cs) :
          /\ ds[n].session = cs[n].session /\ ds[n].model = cs[n].model /\ ds[n].endpoint = cs[n].endpoint
          /\ ds[n].at \in Nat /\ cs[n].at \in Nat /\ cs[n].at <= ds[n].at
          /\ cs[n].announced => ds[n].announced
          /\ Sent(cs, n) => Sent(ds, n)
          /\ Closed(cs, n) => Closed(ds, n) /\ ds[n].chars = cs[n].chars
          /\ cs[n].stage = "over" => ds[n] = cs[n]
          /\ ds[n].proved => cs[n].proved
    /\ \A n \in 1 .. Len(ds) : n > Len(cs) => ~ ds[n].proved

\* What is awaited of them is, unless no chat awaits anything.
StillAwaits(t, cs, st, ds, su) ==
    \/ DOMAIN t.chat.chats = {}
    \/ /\ \A k \in 1 .. Len(cs) : Awaited(cs, st, k) => Awaited(ds, su, k)
       /\ \A k \in 1 .. Len(ds) : k > Len(cs) => Awaited(ds, su, k)

\* The pair stays true while calls go on and what is awaited of them is.
LEMMA GoOnIsTrue ==
    ASSUME NEW t, NEW cs, NEW st, NEW ds, NEW su, NEW time, CallsInOrder(cs, time), IsTruePair(t, cs, st),
           CallsGoOn(cs, ds), StillAwaits(t, cs, st, ds, su)
    PROVE  IsTruePair(t, ds, su)
<1>1. 1 .. Len(cs) \subseteq 1 .. Len(ds) /\ Len(cs) \in Nat /\ Len(ds) \in Nat
  BY DEF CallsGoOn
<1>2. ASSUME NEW n \in 1 .. Len(cs), NEW x, IsOf(cs, n, x) PROVE IsOf(ds, n, x)
  BY <1>2 DEF IsOf, CallsGoOn
<1>3. ASSUME NEW n \in 1 .. Len(cs), NEW c, IsCounted(cs, n, c) PROVE IsCounted(ds, n, c)
  BY <1>3 DEF IsCounted, CallsGoOn
<1>4. ASSUME NEW key \in DOMAIN t.chat.routes PROVE IsTrueRoute(t, ds, key, t.chat.routes[key])
  <2> DEFINE r == t.chat.routes[key]
  <2>1. IsTrueRoute(t, cs, key, r)
    BY DEF IsTruePair
  <2> HIDE DEF r
  <2>2. ASSUME NEW k \in 1 .. Len(ds), k > r.of, ds[k].session = key[1], ds[k].model = key[2] PROVE ~ ds[k].proved
    <3>1. CASE k \in 1 .. Len(cs)
      BY <2>1, <2>2, <3>1 DEF IsTrueRoute, CallsGoOn
    <3>2. CASE k \notin 1 .. Len(cs)
      BY <1>1, <3>2 DEF CallsGoOn
    <3> QED
      BY <3>1, <3>2
  <2>3. IsTrueRoute(t, ds, key, r)
    BY <1>1, <2>1, <2>2 DEF IsTrueRoute, CallsGoOn
  <2> QED
    BY <2>3 DEF r
<1>5. ASSUME NEW s \in DOMAIN t.chat.chats PROVE IsTrueChat(t, ds, su, s, t.chat.chats[s])
  <2> DEFINE c == t.chat.chats[s]
  <2>1. IsTrueChat(t, cs, st, s, c)
    BY DEF IsTruePair
  <2>2. /\ \A k \in 1 .. Len(cs) : Awaited(cs, st, k) => Awaited(ds, su, k)
        /\ \A k \in 1 .. Len(ds) : k > Len(cs) => Awaited(ds, su, k)
    BY DEF StillAwaits
  <2> HIDE DEF c
  <2>3. IsAnnounced(t, cs, s, c) /\ c.call \in 1 .. Len(cs) => IsAnnounced(t, ds, s, c)
    BY <1>2 DEF IsAnnounced, CallsGoOn
  <2>4. ASSUME NEW p \in 1 .. Len(cs), IsSeededBy(cs, st, p, s, c) PROVE IsSeededBy(ds, su, p, s, c)
    <3>1. ds[p].session = s /\ Sent(ds, p) /\ ds[p].endpoint = c.endpoint /\ cs[p].session = s
      BY <2>4 DEF IsSeededBy, CallsGoOn
    <3>2. ASSUME NEW m \in 1 .. Len(ds), m < p, ds[m].session = s PROVE ds[m].at < c.dispatched
      <4>1. m \in 1 .. Len(cs)
        BY <1>1, <3>2
      <4>2. cs[m].session = s /\ cs[m].at < c.dispatched
        BY <2>4, <3>2, <4>1 DEF IsSeededBy, CallsGoOn
      <4>3. ds[m] = cs[m]
        BY <3>1, <3>2, <4>1, <4>2 DEF CallsInOrder, CallsGoOn
      <4> QED
        BY <4>2, <4>3
    <3>3. ASSUME c.call = None, NEW k \in 1 .. Len(ds), k > p, ds[k].session = s PROVE Awaited(ds, su, k)
      <4>1. CASE k \in 1 .. Len(cs)
        BY <2>2, <2>4, <3>3, <4>1 DEF IsSeededBy, CallsGoOn
      <4>2. CASE k \notin 1 .. Len(cs)
        BY <1>1, <2>2, <4>2
      <4> QED
        BY <4>1, <4>2
    <3> QED
      BY <2>4, <3>1, <3>2, <3>3 DEF IsSeededBy
  <2>5. IsSeeded(cs, st, s, c) => IsSeeded(ds, su, s, c)
    BY <1>1, <2>4 DEF IsSeeded
  <2>6. c.dispatched = None => c.call # None
    BY <2>1 DEF IsTrueChat, IsAnnounced
  <2>7. IsTrueChat(t, ds, su, s, c)
    <3>1. \A n \in c.counted : IsCounted(ds, n, c)
      BY <1>3, <2>1 DEF IsTrueChat, IsCounted
    <3>2. c.call # None => c.call \in 1 .. Len(ds) /\ ds[c.call].session = s
      BY <1>1, <2>1 DEF IsTrueChat, CallsGoOn
    <3>3. c.eligible /\ c.part = "ended" => c.call # None /\ Closed(ds, c.call) /\ c.chars = ds[c.call].chars
      BY <2>1 DEF IsTrueChat, CallsGoOn
    <3> QED
      BY <2>1, <2>3, <2>5, <2>6, <3>1, <3>2, <3>3 DEF IsTrueChat
  <2> QED
    BY <2>7 DEF c
<1>6. ASSUME NEW s \in DOMAIN t.store PROVE IsTrueEntry(t, ds, s, t.store[s])
  <2>1. IsTrueEntry(t, cs, s, t.store[s]) /\ s \in DOMAIN t.chat.chats
    BY DEF IsTruePair, IsTrueEntry
  <2>2. IsTrueChat(t, cs, st, s, t.chat.chats[s])
    BY <2>1 DEF IsTruePair
  <2> QED
    BY <1>3, <2>1, <2>2 DEF IsTrueEntry, IsTrueChat, IsCounted
<1>7. ASSUME NEW step \in t.chat.calibration PROVE IsTrueStep(ds, step)
  <2>1. IsTrueStep(cs, step)
    BY DEF IsTruePair
  <2> QED
    BY <1>1, <1>2, <2>1 DEF IsTrueStep, CallsGoOn
<1> QED
  BY <1>4, <1>5, <1>6, <1>7 DEF IsTruePair

\* What the stream still says of them is true.
LEMMA StreamGoesOn ==
    ASSUME NEW cs, NEW st, NEW ds, StreamIsTrue(cs, st), CallsGoOn(cs, ds)
    PROVE  StreamIsTrue(ds, st)
<1> SUFFICES ASSUME NEW x, IsEvent(cs, x) PROVE IsEvent(ds, x)
  BY DEF StreamIsTrue
<1> QED
  BY DEF IsEvent, CallsGoOn

\* The order of one call after the other.
LEMMA CallsAreCalls ==
    ASSUME NEW cs, NEW time, CallsInOrder(cs, time)
    PROVE  CallsGoOn(cs, cs)
BY DEF CallsInOrder, CallsGoOn, IsCall

\* One call goes on.
Changed(cs, n, x) == [cs EXCEPT ![n] = x]
IsChanged(cs, ds, n, x, time) ==
    /\ CallsInOrder(ds, time) /\ Len(ds) = Len(cs) /\ ds[n] = x
    /\ \A m \in 1 .. Len(cs) : m # n => ds[m] = cs[m]
\* A call that is not over changes, and the order stays.
LEMMA OneGoesOn ==
    ASSUME NEW cs, NEW time, NEW later, NEW n \in 1 .. Len(cs), NEW x, CallsInOrder(cs, time),
           later \in Nat, time <= later, cs[n].stage # "over",
           IsCall(x), x.session = cs[n].session, x.model = cs[n].model, x.endpoint = cs[n].endpoint,
           cs[n].at <= x.at, x.at <= later,
           NEW ds, ds = Changed(cs, n, x)
    PROVE  IsChanged(cs, ds, n, x, later)
<1>1. Len(cs) \in Nat /\ cs = [m \in 1 .. Len(cs) |-> cs[m]]
  BY DEF CallsInOrder
<1>2. ds = [m \in 1 .. Len(cs) |-> IF m = n THEN x ELSE cs[m]]
  BY <1>1 DEF Changed
<1>3. Len(ds) = Len(cs)
  BY <1>1, <1>2, LenIs
<1>4. ds = [m \in 1 .. Len(ds) |-> ds[m]] /\ ds[n] = x /\ \A m \in 1 .. Len(cs) : m # n => ds[m] = cs[m]
  BY <1>2, <1>3
<1>5. \A m \in 1 .. Len(ds) : IsCall(ds[m]) /\ ds[m].at <= later
  BY <1>3, <1>4 DEF CallsInOrder, IsCall
<1>6. ASSUME NEW l \in 1 .. Len(ds), NEW m \in 1 .. Len(ds), l < m, ds[l].session = ds[m].session
      PROVE  ds[l].stage = "over" /\ ds[l].at < ds[m].at
  <2>1. cs[l].session = cs[m].session
    BY <1>3, <1>4, <1>6
  <2>2. cs[l].stage = "over" /\ cs[l].at < cs[m].at
    BY <1>3, <1>6, <2>1 DEF CallsInOrder
  <2>3. l # n /\ ds[l] = cs[l]
    BY <1>3, <1>4, <2>2
  <2>4. cs[m].at <= ds[m].at /\ cs[m].at \in Nat /\ ds[m].at \in Nat /\ cs[l].at \in Nat
    BY <1>3, <1>4 DEF CallsInOrder, IsCall
  <2>5. ds[l].stage = "over" /\ ds[l].at = cs[l].at
    BY <2>2, <2>3
  <2>6. \A i, j, k \in Nat : i < j /\ j <= k => i < k
    OBVIOUS
  <2>7. cs[l].at < ds[m].at
    BY <2>2, <2>4, <2>6
  <2> QED
    BY <2>5, <2>7
<1> QED
  BY <1>1, <1>3, <1>4, <1>5, <1>6 DEF CallsInOrder, IsChanged

\* An event was said.
IsSaid(st, su, x) ==
    /\ Len(st) \in Nat /\ Len(su) = Len(st) + 1 /\ su[Len(st) + 1] = x
    /\ \A i \in 1 .. Len(st) : su[i] = st[i]
\* The stream of it is true, and longer by one.
LEMMA SaidIs ==
    ASSUME NEW cs, NEW st, NEW x, StreamIsTrue(cs, st), IsEvent(cs, x), NEW su, su = Append(st, x)
    PROVE  StreamIsTrue(cs, su) /\ IsSaid(st, su, x)
<1>1. st = [i \in 1 .. Len(st) |-> st[i]] /\ Len(st) \in Nat
  BY DEF StreamIsTrue
<1>2. /\ Len(su) = Len(st) + 1 /\ su = [i \in 1 .. Len(su) |-> su[i]] /\ su[Len(st) + 1] = x
      /\ \A i \in 1 .. Len(st) : su[i] = st[i]
  BY <1>1, AppendedIs
<1>3. \A i \in 1 .. Len(su) : IsEvent(cs, su[i])
  BY <1>1, <1>2 DEF StreamIsTrue
<1> QED
  BY <1>1, <1>2, <1>3 DEF StreamIsTrue, IsSaid

\* What is awaited in a stream is in one that says more.
LEMMA SaidAwaits ==
    ASSUME NEW cs, NEW st, NEW ds, NEW su, NEW k, NEW x, Awaited(cs, st, k), ds[k].announced => cs[k].announced,
           IsSaid(st, su, x)
    PROVE  Awaited(ds, su, k)
<1> SUFFICES ASSUME ds[k].announced PROVE Awaited(ds, su, k)
  BY DEF Awaited
<1>0. Len(st) \in Nat /\ Len(su) = Len(st) + 1 /\ su[Len(st) + 1] = x /\ \A i \in 1 .. Len(st) : su[i] = st[i]
  BY DEF IsSaid
<1>1. PICK i \in 1 .. Len(st) : /\ st[i].type = "started" /\ st[i].call = k
                                /\ \A j \in 1 .. Len(st) : st[j].call = k /\ st[j].type \in Replying => i < j
  BY DEF Awaited
<1>2. i \in 1 .. Len(su) /\ su[i].type = "started" /\ su[i].call = k
  BY <1>0, <1>1
<1>3. ASSUME NEW j \in 1 .. Len(su), su[j].call = k, su[j].type \in Replying PROVE i < j
  <2>1. CASE j \in 1 .. Len(st)
    BY <1>0, <1>1, <1>3, <2>1
  <2>2. CASE j = Len(st) + 1
    BY <1>0, <1>1, <2>2
  <2> QED
    BY <1>0, <2>1, <2>2
<1> QED
  BY <1>2, <1>3 DEF Awaited

\* The head of the stream was taken: no chat awaits it any more.
LEMMA TailIsTrue ==
    ASSUME NEW t, NEW cs, NEW st, NEW time, CallsInOrder(cs, time), IsTruePair(t, cs, st), StreamIsTrue(cs, st),
           Len(st) > 0, st[1].type = "started" => IsBegun(t, st[1].session),
           NEW su, su = Tail(st)
    PROVE  IsTruePair(t, cs, su) /\ StreamIsTrue(cs, su)
<1>1. st = [i \in 1 .. Len(st) |-> st[i]] /\ Len(st) \in Nat /\ \A i \in 1 .. Len(st) : IsEvent(cs, st[i])
  BY DEF StreamIsTrue
<1>3. /\ Len(su) = Len(st) - 1 /\ su = [i \in 1 .. Len(su) |-> su[i]]
      /\ \A i \in 1 .. Len(su) : su[i] = st[i + 1]
  BY <1>1, TailIs
<1>4. StreamIsTrue(cs, su)
  <2>1. \A i \in 1 .. Len(su) : i + 1 \in 1 .. Len(st)
    BY <1>1, <1>3
  <2> QED
    BY <1>1, <1>3, <2>1 DEF StreamIsTrue
<1>5. ASSUME NEW k \in 1 .. Len(cs), Awaited(cs, st, k), ~ (st[1].type = "started" /\ st[1].session = cs[k].session)
      PROVE  Awaited(cs, su, k)
  <2> SUFFICES ASSUME cs[k].announced PROVE Awaited(cs, su, k)
    BY DEF Awaited
  <2>1. PICK i \in 1 .. Len(st) : /\ st[i].type = "started" /\ st[i].call = k
                                  /\ \A j \in 1 .. Len(st) : st[j].call = k /\ st[j].type \in Replying => i < j
    BY <1>5 DEF Awaited
  <2>2. i # 1
    BY <1>1, <1>5, <2>1 DEF IsEvent
  <2>3. i - 1 \in 1 .. Len(su) /\ su[i - 1] = st[i]
    BY <1>1, <1>3, <2>2
  <2>4. ASSUME NEW j \in 1 .. Len(su), su[j].call = k, su[j].type \in Replying PROVE i - 1 < j
    BY <1>1, <1>3, <2>1, <2>4
  <2> QED
    BY <2>1, <2>3, <2>4 DEF Awaited
<1>6. ASSUME NEW s \in DOMAIN t.chat.chats PROVE IsTrueChat(t, cs, su, s, t.chat.chats[s])
  <2> DEFINE c == t.chat.chats[s]
  <2>1. IsTrueChat(t, cs, st, s, c)
    BY DEF IsTruePair
  <2>2. c.call = None => ~ (st[1].type = "started" /\ st[1].session = s)
    BY DEF IsBegun
  <2> HIDE DEF c
  <2>3. ASSUME NEW p \in 1 .. Len(cs), IsSeededBy(cs, st, p, s, c) PROVE IsSeededBy(cs, su, p, s, c)
    BY <1>5, <2>2, <2>3 DEF IsSeededBy
  <2>4. IsSeeded(cs, st, s, c) => IsSeeded(cs, su, s, c)
    BY <2>3 DEF IsSeeded
  <2>5. IsTrueChat(t, cs, su, s, c)
    BY <2>1, <2>4 DEF IsTrueChat
  <2> QED
    BY <2>5 DEF c
<1> QED
  BY <1>4, <1>6 DEF IsTruePair

\* A pair is cleared.
LEMMA ClearedIsTrue ==
    ASSUME NEW t, NEW cs, NEW st, IsTruePair(t, cs, st), NEW u, u = Chat!cleared(t)
    PROVE  IsTruePair(u, cs, st) /\ DOMAIN u.chat.chats = {}
<1> DEFINE R == Chat!Without(t.chat.routes, DOMAIN t.chat.routes)
           C == Chat!Without(t.chat.chats, DOMAIN t.chat.chats)
           S == Chat!Without(t.store, DOMAIN t.chat.chats)
<1>1. IsPair(t) /\ \A s \in DOMAIN t.store : s \in DOMAIN t.chat.chats
  BY DEF IsTruePair, IsTrueEntry
<1>2. IsMap(R) /\ DOMAIN R = {}
  BY DEF Chat!Without, IsMap
<1>3. IsMap(C) /\ DOMAIN C = {}
  BY DEF Chat!Without, IsMap
<1>4. IsMap(S) /\ DOMAIN S = {}
  BY <1>1 DEF Chat!Without, IsMap
<1>5. u = PairOf({}, R, C, t.chat.calibration, t.chat.failures, S)
  BY <1>1 DEF Chat!cleared, IsPair, PairOf
<1> HIDE DEF R, C, S
<1>6. /\ IsPair(u) /\ u.chat.watched = {} /\ u.chat.routes = R /\ u.chat.chats = C
      /\ u.chat.calibration = t.chat.calibration /\ u.store = S
  BY <1>2, <1>3, <1>4, <1>5, PairOfIs
<1>7. Watches(u)
  BY <1>2, <1>3, <1>6 DEF Watches
<1>8. HoldsLess(t, u)
  BY <1>2, <1>3, <1>4, <1>6, <1>7 DEF HoldsLess
<1> QED
  BY <1>3, <1>6, <1>8, LessIsTruePair

\* What is no longer asked for is forgotten.
LEMMA WatchingIsTrue ==
    ASSUME NEW t, NEW cs, NEW st, IsTruePair(t, cs, st), NEW d, NEW w, w = Chat!Watching(t, d)
    PROVE  IsTruePair(w, cs, st)
<1> DEFINE u == [t EXCEPT !.chat.watched = d]
           Gone(s) == LET c == t.chat.chats[s] IN
                        \/ ~ Chat!Matches(u, s, c.model)
                        \/ c.endpoint # None /\ ~ Chat!IsWatched(u, s, c.model, Chat!Destination(c.endpoint))
           out == {s \in DOMAIN t.chat.chats : Gone(s)}
           past(routes) == {r \in DOMAIN routes :
                              ~ Chat!IsWatched(u, r[1], r[2], Chat!Destination(routes[r].endpoint))}
           v == [u EXCEPT !.chat.chats = Chat!Without(@, out), !.store = Chat!Without(@, out)]
           R == Chat!Without(t.chat.routes, past(t.chat.routes))
           C == Chat!Without(t.chat.chats, out)
           S == Chat!Without(t.store, out)
<1>1. IsPair(t) /\ (\A s \in DOMAIN t.store : s \in DOMAIN t.chat.chats)
      /\ \A s \in DOMAIN t.chat.chats : IsChat(t.chat.chats[s])
  BY DEF IsTruePair, IsTrueEntry, IsTrueChat
<1>2. w = [v EXCEPT !.chat.routes = Chat!Without(@, past(@))]
  BY Zenon DEF Chat!Watching
<1>3. u = PairOf(d, t.chat.routes, t.chat.chats, t.chat.calibration, t.chat.failures, t.store)
  BY <1>1 DEF IsPair, PairOf
<1>4. /\ IsPair(u) /\ u.chat.watched = d /\ u.chat.routes = t.chat.routes /\ u.chat.chats = t.chat.chats
      /\ u.chat.calibration = t.chat.calibration /\ u.chat.failures = t.chat.failures /\ u.store = t.store
  <2> HIDE DEF u
  <2> QED
    BY <1>1, <1>3, PairOfIs, IsPairOf
<1> DEFINE gone == past(t.chat.routes)
<1>5. \A s \in DOMAIN t.chat.chats \ out : t.chat.chats[s].endpoint # None =>
         Chat!IsWatched(u, s, t.chat.chats[s].model, Chat!Destination(t.chat.chats[s].endpoint))
  <2> HIDE DEF u
  <2> QED
    OBVIOUS
<1>6. \A r \in DOMAIN t.chat.routes \ gone :
          Chat!IsWatched(u, r[1], r[2], Chat!Destination(t.chat.routes[r].endpoint))
  <2> HIDE DEF u
  <2> QED
    OBVIOUS
<1> HIDE DEF u, out, past, gone
<1>7. /\ IsMap(R) /\ DOMAIN R = DOMAIN t.chat.routes \ gone
      /\ \A x \in DOMAIN t.chat.routes \ gone : R[x] = t.chat.routes[x]
  BY WithoutIs DEF gone
<1>8. /\ IsMap(C) /\ DOMAIN C = DOMAIN t.chat.chats \ out
      /\ \A x \in DOMAIN t.chat.chats \ out : C[x] = t.chat.chats[x]
  BY WithoutIs
<1>9. /\ IsMap(S) /\ DOMAIN S = DOMAIN t.store \ out
      /\ \A x \in DOMAIN t.store \ out : S[x] = t.store[x]
  BY WithoutIs
<1>10. v = PairOf(d, t.chat.routes, C, t.chat.calibration, t.chat.failures, S)
  <2>1. v = [u EXCEPT !.chat.chats = C, !.store = S]
    BY <1>4, Zenon
  <2> HIDE DEF v, C, S
  <2> QED
    BY <1>3, <2>1 DEF PairOf
<1> HIDE DEF v, C, S
<1>11. w = PairOf(d, R, C, t.chat.calibration, t.chat.failures, S)
  BY <1>2, <1>10 DEF PairOf
<1> HIDE DEF R
<1>12. /\ IsPair(w) /\ w.chat.watched = d /\ w.chat.routes = R /\ w.chat.chats = C
       /\ w.chat.calibration = t.chat.calibration /\ w.store = S
  BY <1>7, <1>8, <1>9, <1>11, PairOfIs
<1>13. Watches(w)
  BY <1>4, <1>5, <1>6, <1>7, <1>8, <1>12 DEF Watches, Chat!IsWatched
<1>14. HoldsLess(t, w)
  BY <1>1, <1>7, <1>8, <1>9, <1>12, <1>13, SelfIsLess DEF HoldsLess
<1> QED
  BY <1>14, LessIsTruePair

\* Silent chats count nothing.
Silent(c) == [c EXCEPT !.stale = TRUE, !.counted = {}, !.eligible = @ /\ c.lastDelta = None, !.lastDelta = None]
\* It counts no more.
LEMMA SilentIsLess == ASSUME NEW c, IsChat(c), NEW d, d = Silent(c) PROVE IsLess(c, d)
BY DEF IsLess, IsChat, Silent

\* A tick leaves the pair true.
LEMMA AgedIsTrue ==
    ASSUME NEW t, NEW cs, NEW st, IsTruePair(t, cs, st), NEW w, w = Chat!Aged(t)
    PROVE  IsTruePair(w, cs, st)
<1> DEFINE held == t.chat.chats
           over(c) == now - c.updated >= (IF c.phase \in {"complete", "cancelled"} THEN OfChat.lasting ELSE OfChat.routeLife)
           gone == {s \in DOMAIN held : over(held[s])}
           quiet == {s \in DOMAIN held \ gone : /\ held[s].phase # "complete" /\ ~ held[s].stale
                                                /\ now - held[s].updated >= OfChat.window}
           late == {r \in DOMAIN t.chat.routes : now - t.chat.routes[r].at > OfChat.routeLife}
           out == gone \cup quiet
           R == Chat!Without(t.chat.routes, late)
           C == [s \in DOMAIN held \ gone |-> IF s \in quiet THEN Silent(held[s]) ELSE held[s]]
           S == Chat!Without(t.store, out)
           v == [t EXCEPT !.chat.chats = C]
<1>1. IsPair(t) /\ (\A s \in DOMAIN t.store : s \in DOMAIN held) /\ \A s \in DOMAIN held : IsChat(held[s])
  BY DEF IsTruePair, IsTrueEntry, IsTrueChat
<1>2. w = [t EXCEPT !.chat.chats = C, !.chat.routes = R, !.store = S]
  BY Zenon DEF Chat!Aged, Silent
<1> HIDE DEF gone, quiet
<1>3. IsMap(C) /\ DOMAIN C = DOMAIN held \ gone
  BY DEF IsMap
<1>4. ASSUME NEW s \in DOMAIN C PROVE s \in DOMAIN held /\ IsLess(held[s], C[s])
  <2>1. s \in DOMAIN held /\ IsChat(held[s]) /\ (C[s] = held[s] \/ C[s] = Silent(held[s]))
    BY <1>1
  <2> HIDE DEF held, C
  <2>2. CASE C[s] = held[s]
    BY <2>1, <2>2, SelfIsLess
  <2>3. CASE C[s] = Silent(held[s])
    BY <2>1, <2>3, SilentIsLess
  <2> QED
    BY <2>1, <2>2, <2>3
<1>5. gone \subseteq out
  OBVIOUS
<1> HIDE DEF late, out
<1>6. /\ IsMap(R) /\ DOMAIN R = DOMAIN t.chat.routes \ late
      /\ \A x \in DOMAIN t.chat.routes \ late : R[x] = t.chat.routes[x]
  BY DEF Chat!Without, IsMap
<1>7. IsMap(S) /\ DOMAIN S = DOMAIN t.store \ out /\ \A r \in DOMAIN t.store \ out : S[r] = t.store[r]
  BY WithoutIs
<1> HIDE DEF C, R, S
<1>8. v = PairOf(t.chat.watched, t.chat.routes, C, t.chat.calibration, t.chat.failures, t.store)
  BY <1>1 DEF IsPair, PairOf
<1>9. w = [[v EXCEPT !.chat.routes = R] EXCEPT !.store = S]
  BY <1>2, Zenon DEF v
<1> HIDE DEF v
<1>10. w = PairOf(t.chat.watched, R, C, t.chat.calibration, t.chat.failures, S)
  BY <1>8, <1>9 DEF PairOf
<1>11. /\ IsPair(w) /\ w.chat.watched = t.chat.watched /\ w.chat.routes = R /\ w.chat.chats = C
       /\ w.chat.calibration = t.chat.calibration /\ w.store = S
  BY <1>3, <1>6, <1>7, <1>10, PairOfIs
<1>12. HoldsLess(t, w)
  BY <1>1, <1>3, <1>4, <1>5, <1>6, <1>7, <1>11 DEF HoldsLess
<1> QED
  BY <1>12, LessIsTruePair

\* A reading of the demand leaves the pair true, and empty where nothing is asked for.
LEMMA CollectedIsTrue ==
    ASSUME NEW t, NEW cs, NEW st, IsTruePair(t, cs, st), NEW d, NEW w, w = Chat!Collected(t, d)
    PROVE  IsTruePair(w, cs, st) /\ (~ Chat!Wants(t, d) => DOMAIN w.chat.chats = {})
<1>1. CASE ~ Chat!Wants(t, d)
  <2>1. w = Chat!cleared(t)
    BY <1>1 DEF Chat!Wants, Chat!Collected
  <2> QED
    BY <2>1, ClearedIsTrue
<1>2. CASE Chat!Wants(t, d)
  <2>1. PICK u : u = Chat!Watching(t, d)
    OBVIOUS
  <2>2. w = Chat!Aged(u)
    BY <1>2, <2>1 DEF Chat!Wants, Chat!Collected
  <2> QED
    BY <1>2, <2>1, <2>2, WatchingIsTrue, AgedIsTrue
<1> QED
  BY <1>1, <1>2

\* A dispatch is taken as proof of where its call goes.
IsProved(cs, ds, n) ==
    /\ Len(ds) = Len(cs) /\ \A m \in 1 .. Len(cs) : m # n => ds[m] = cs[m]
    /\ ds[n].session = cs[n].session /\ ds[n].model = cs[n].model /\ ds[n].endpoint = cs[n].endpoint
    /\ ds[n].announced = cs[n].announced /\ ds[n].stage = cs[n].stage /\ ds[n].at = cs[n].at
    /\ ds[n].chars = cs[n].chars

\* The pair stays true where no route of that chat and model waits.
LEMMA ProvedIsTrue ==
    ASSUME NEW t, NEW cs, NEW ds, NEW st, NEW n, IsTruePair(t, cs, st), IsProved(cs, ds, n), ~ Closed(cs, n),
           <<cs[n].session, cs[n].model>> \notin DOMAIN t.chat.routes,
           \A s \in DOMAIN t.chat.chats :
              t.chat.chats[s].call = n /\ t.chat.chats[s].endpoint # None => IsOf(ds, n, t.chat.chats[s])
    PROVE  IsTruePair(t, ds, st)
<1>1. \A m \in 1 .. Len(cs) : /\ ds[m].session = cs[m].session /\ ds[m].model = cs[m].model
                              /\ ds[m].endpoint = cs[m].endpoint /\ ds[m].announced = cs[m].announced
                              /\ ds[m].stage = cs[m].stage /\ ds[m].at = cs[m].at /\ ds[m].chars = cs[m].chars
  BY DEF IsProved
<1>2. Len(ds) = Len(cs)
  BY DEF IsProved
<1>3. \A m \in 1 .. Len(cs) : \A x : m # n /\ IsOf(cs, m, x) => IsOf(ds, m, x)
  BY DEF IsOf, IsProved
<1>4. \A k \in 1 .. Len(cs) : Awaited(cs, st, k) => Awaited(ds, st, k)
  BY <1>1 DEF Awaited
<1>5. \A m \in 1 .. Len(cs) : \A c : IsCounted(cs, m, c) => IsCounted(ds, m, c)
  BY <1>1 DEF IsCounted, Sent
<1>6. ASSUME NEW key \in DOMAIN t.chat.routes PROVE IsTrueRoute(t, ds, key, t.chat.routes[key])
  <2> DEFINE r == t.chat.routes[key]
  <2>1. IsTrueRoute(t, cs, key, r) /\ key # <<cs[n].session, cs[n].model>>
    BY DEF IsTruePair
  <2> HIDE DEF r
  <2>2. ASSUME NEW k \in 1 .. Len(ds), k > r.of, ds[k].session = key[1], ds[k].model = key[2] PROVE ~ ds[k].proved
    <3>1. k # n
      BY <1>1, <1>2, <2>1, <2>2 DEF IsTrueRoute
    <3> QED
      BY <1>2, <2>1, <2>2, <3>1 DEF IsTrueRoute, IsProved
  <2>3. IsTrueRoute(t, ds, key, r)
    BY <1>1, <1>2, <2>1, <2>2 DEF IsTrueRoute, Sent
  <2> QED
    BY <2>3 DEF r
<1>7. ASSUME NEW s \in DOMAIN t.chat.chats PROVE IsTrueChat(t, ds, st, s, t.chat.chats[s])
  <2> DEFINE c == t.chat.chats[s]
  <2>1. IsTrueChat(t, cs, st, s, c) /\ (c.call = n /\ c.endpoint # None => IsOf(ds, n, c))
    BY DEF IsTruePair
  <2> HIDE DEF c
  <2>2. IsAnnounced(t, cs, s, c) /\ c.call \in 1 .. Len(cs) => IsAnnounced(t, ds, s, c)
    BY <1>1, <1>3, <2>1 DEF IsAnnounced
  <2>3. ASSUME NEW p \in 1 .. Len(cs), IsSeededBy(cs, st, p, s, c) PROVE IsSeededBy(ds, st, p, s, c)
    BY <1>1, <1>2, <1>4, <2>3 DEF IsSeededBy, Sent
  <2>4. IsSeeded(cs, st, s, c) => IsSeeded(ds, st, s, c)
    BY <1>2, <2>3 DEF IsSeeded
  <2>5. c.dispatched = None => c.call # None
    BY <2>1 DEF IsTrueChat, IsAnnounced
  <2>6. IsTrueChat(t, ds, st, s, c)
    <3>1. \A m \in c.counted : IsCounted(ds, m, c)
      BY <1>5, <2>1 DEF IsTrueChat, IsCounted
    <3>2. c.call # None => c.call \in 1 .. Len(ds) /\ ds[c.call].session = s
      BY <1>1, <1>2, <2>1 DEF IsTrueChat
    <3>3. c.eligible /\ c.part = "ended" => c.call # None /\ Closed(ds, c.call) /\ c.chars = ds[c.call].chars
      BY <1>1, <2>1 DEF IsTrueChat, Closed
    <3> QED
      BY <2>1, <2>2, <2>4, <2>5, <3>1, <3>2, <3>3 DEF IsTrueChat
  <2> QED
    BY <2>6 DEF c
<1>8. ASSUME NEW s \in DOMAIN t.store PROVE IsTrueEntry(t, ds, s, t.store[s])
  <2>1. IsTrueEntry(t, cs, s, t.store[s]) /\ s \in DOMAIN t.chat.chats
    BY DEF IsTruePair, IsTrueEntry
  <2>2. IsTrueChat(t, cs, st, s, t.chat.chats[s])
    BY <2>1 DEF IsTruePair
  <2> QED
    BY <1>5, <2>1, <2>2 DEF IsTrueEntry, IsTrueChat, IsCounted
<1>9. ASSUME NEW step \in t.chat.calibration PROVE IsTrueStep(ds, step)
  <2>1. IsTrueStep(cs, step) /\ step.call # n
    BY DEF IsTruePair, IsTrueStep
  <2> QED
    BY <1>1, <1>2, <1>3, <2>1 DEF IsTrueStep, Closed
<1> QED
  BY <1>6, <1>7, <1>8, <1>9 DEF IsTruePair

\* A route waits for its step.
Routed(t, key, r) == [t EXCEPT !.chat.routes = Chat!With(@, key, r)]
\* A true route may be added to what is left of the pair without it.
LEMMA RoutedIsTrue ==
    ASSUME NEW t, NEW cs, NEW st, NEW key, NEW r, IsTruePair(Unrouted(t, {key}), cs, st), IsPair(t),
           IsTrueRoute(t, cs, key, r),
           \A s \in DOMAIN t.chat.chats : s = key[1] /\ t.chat.chats[s].model = key[2] =>
              t.chat.chats[s].endpoint # None,
           NEW u, u = Routed(t, key, r)
    PROVE  IsTruePair(u, cs, st) /\ u.chat.chats = t.chat.chats /\ u.chat.watched = t.chat.watched
<1> DEFINE v == Unrouted(t, {key})
           R == Chat!With(t.chat.routes, key, r)
           Q == Chat!Without(t.chat.routes, {key})
<1>1. /\ IsMap(R) /\ DOMAIN R = DOMAIN t.chat.routes \cup {key} /\ R[key] = r
      /\ \A x \in DOMAIN t.chat.routes \ {key} : R[x] = t.chat.routes[x]
  BY DEF Chat!With, IsMap
<1>2. /\ IsMap(Q) /\ DOMAIN Q = DOMAIN t.chat.routes \ {key}
      /\ \A x \in DOMAIN t.chat.routes \ {key} : Q[x] = t.chat.routes[x]
  BY DEF Chat!Without, IsMap
<1>3. u = PairOf(t.chat.watched, R, t.chat.chats, t.chat.calibration, t.chat.failures, t.store)
  BY DEF IsPair, PairOf, Routed
<1>4. v = PairOf(t.chat.watched, Q, t.chat.chats, t.chat.calibration, t.chat.failures, t.store)
  BY DEF IsPair, PairOf, Unrouted
<1> HIDE DEF R, Q, v
<1>5. /\ IsPair(u) /\ u.chat.watched = t.chat.watched /\ u.chat.routes = R /\ u.chat.chats = t.chat.chats
      /\ u.chat.calibration = t.chat.calibration /\ u.store = t.store
  BY <1>1, <1>3, PairOfIs, IsPairOf
<1>6. /\ v.chat.watched = t.chat.watched /\ v.chat.routes = Q /\ v.chat.chats = t.chat.chats
      /\ v.chat.calibration = t.chat.calibration /\ v.store = t.store
  BY <1>2, <1>4, PairOfIs, IsPairOf
<1>7. IsTruePair(v, cs, st)
  BY DEF v
<1>8. ASSUME NEW x \in DOMAIN u.chat.routes PROVE IsTrueRoute(u, cs, x, u.chat.routes[x])
  <2>1. CASE x = key
    BY <1>1, <1>5, <2>1 DEF IsTrueRoute, Chat!IsWatched
  <2>2. CASE x # key
    <3>1. x \in DOMAIN v.chat.routes /\ u.chat.routes[x] = v.chat.routes[x]
      BY <1>1, <1>2, <1>5, <1>6, <2>2
    <3>2. IsTrueRoute(v, cs, x, u.chat.routes[x])
      BY <1>7, <3>1 DEF IsTruePair
    <3> QED
      BY <1>5, <1>6, <3>2 DEF IsTrueRoute, Chat!IsWatched
  <2> QED
    BY <2>1, <2>2
<1>9. ASSUME NEW s \in DOMAIN u.chat.chats PROVE IsTrueChat(u, cs, st, s, u.chat.chats[s])
  <2> DEFINE c == t.chat.chats[s]
  <2>1. IsTrueChat(v, cs, st, s, c)
    BY <1>5, <1>6, <1>7 DEF IsTruePair
  <2>2. c.endpoint = None => <<s, c.model>> # key
    <3>1. key = <<key[1], key[2]>>
      BY DEF IsTrueRoute
    <3> QED
      BY <1>5, <3>1
  <2> HIDE DEF c
  <2>3. IsAnnounced(v, cs, s, c) => IsAnnounced(u, cs, s, c)
    BY <1>1, <1>2, <1>5, <1>6, <2>2 DEF IsAnnounced
  <2>4. IsTrueChat(u, cs, st, s, c)
    BY <1>5, <1>6, <2>1, <2>3 DEF IsTrueChat, Chat!IsWatched
  <2> QED
    BY <1>5, <2>4 DEF c
<1>10. \A s \in DOMAIN u.store : IsTrueEntry(u, cs, s, u.store[s])
  BY <1>5, <1>6, <1>7 DEF IsTruePair, IsTrueEntry
<1>11. \A step \in u.chat.calibration : IsTrueStep(cs, step)
  BY <1>5, <1>6, <1>7 DEF IsTruePair
<1> QED
  BY <1>5, <1>8, <1>9, <1>10, <1>11 DEF IsTruePair

\* The hook takes a dispatch.
SentNow(c, proved) == [c EXCEPT !.stage = "sent", !.at = now, !.proved = proved]

IsSent(cs, ds, n) ==
    /\ CallsInOrder(ds, now) /\ Len(ds) = Len(cs)
    /\ \A m \in 1 .. Len(cs) : m # n => ds[m] = cs[m]
    /\ ds[n].session = cs[n].session /\ ds[n].model = cs[n].model
    /\ ds[n].endpoint = cs[n].endpoint /\ ds[n].announced = cs[n].announced
    /\ ds[n].stage = "sent" /\ ds[n].at = now /\ ds[n].chars = cs[n].chars

\* The calls after a dispatch.
LEMMA SentNowIs ==
    ASSUME NEW n \in 1 .. Len(calls), CallsInOrder(calls, now), calls[n].stage = "new",
           NEW proved \in BOOLEAN, NEW ds, ds = Changed(calls, n, SentNow(calls[n], proved))
    PROVE  IsSent(calls, ds, n) /\ ds[n].proved = proved
<1>1. IsCall(calls[n]) /\ now \in Nat /\ calls[n].at <= now
  BY DEF CallsInOrder
<1>2. PICK x : x = SentNow(calls[n], proved)
  OBVIOUS
<1>3. /\ IsCall(x) /\ x.session = calls[n].session /\ x.model = calls[n].model
      /\ x.endpoint = calls[n].endpoint /\ x.announced = calls[n].announced
      /\ x.stage = "sent" /\ x.at = now /\ x.chars = calls[n].chars /\ x.proved = proved
  BY <1>1, <1>2 DEF IsCall, SentNow
<1>4. ds = Changed(calls, n, x) /\ now <= now /\ calls[n].stage # "over" /\ calls[n].at <= x.at /\ x.at <= now
  BY <1>1, <1>2, <1>3
<1>5. IsChanged(calls, ds, n, x, now)
  BY <1>1, <1>3, <1>4, OneGoesOn
<1> QED
  BY <1>3, <1>5 DEF IsSent, IsChanged

\* One that proves nothing only goes on.
LEMMA SentGoesOn ==
    ASSUME NEW n \in 1 .. Len(calls), CallsInOrder(calls, now), calls[n].stage = "new",
           NEW ds, IsSent(calls, ds, n), ~ ds[n].proved
    PROVE  CallsGoOn(calls, ds) /\ \A t, st : StillAwaits(t, calls, st, ds, st)
<1>1. Len(calls) \in Nat /\ now \in Nat
      /\ \A m \in 1 .. Len(calls) : calls[m].at \in Nat /\ calls[m].at <= now
  BY DEF CallsInOrder, IsCall
<1>2. ASSUME NEW m \in 1 .. Len(calls)
      PROVE  /\ ds[m].session = calls[m].session /\ ds[m].model = calls[m].model
             /\ ds[m].endpoint = calls[m].endpoint
             /\ ds[m].at \in Nat /\ calls[m].at \in Nat /\ calls[m].at <= ds[m].at
             /\ calls[m].announced => ds[m].announced
             /\ Sent(calls, m) => Sent(ds, m)
             /\ Closed(calls, m) => Closed(ds, m) /\ ds[m].chars = calls[m].chars
             /\ calls[m].stage = "over" => ds[m] = calls[m]
             /\ ds[m].proved => calls[m].proved
  <2>1. CASE m = n
    BY <1>1, <2>1 DEF IsSent, Sent, Closed
  <2>2. CASE m # n
    <3>1. ds[m] = calls[m]
      BY <2>2 DEF IsSent
    <3> QED
      BY <1>1, <3>1 DEF Sent, Closed
  <2> QED
    BY <2>1, <2>2
<1>3. Len(ds) = Len(calls)
  BY DEF IsSent
<1>4. CallsGoOn(calls, ds)
  BY <1>1, <1>2, <1>3 DEF CallsGoOn
<1>5. \A m \in 1 .. Len(calls) : ds[m].announced = calls[m].announced
  BY DEF IsSent
<1>6. ASSUME NEW t, NEW st PROVE StillAwaits(t, calls, st, ds, st)
  <2>1. \A k \in 1 .. Len(calls) : Awaited(calls, st, k) => Awaited(ds, st, k)
    BY <1>5 DEF Awaited
  <2> QED
    BY <1>1, <1>3, <2>1 DEF StillAwaits
<1> QED
  BY <1>4, <1>6

\* A dispatch that proves nothing.
LEMMA UnprovedIsTrue ==
    ASSUME NEW t, NEW st, NEW n \in 1 .. Len(calls), CallsInOrder(calls, now), calls[n].stage = "new",
           IsTruePair(t, calls, st), NEW e, ~ Chat!Proves(t, n, e),
           NEW ds, ds = Changed(calls, n, SentNow(calls[n], FALSE)),
           NEW w, w = Chat!Authorized(t, n, e)
    PROVE  IsTruePair(w, ds, st)
<1> DEFINE s == calls[n].session
           key == <<s, calls[n].model>>
<1>1. w = t \/ w = Chat!Dropped(Unrouted(t, {key}), s)
  BY DEF Chat!Authorized, Unrouted
<1>2. IsTruePair(w, calls, st)
  <2>1. PICK u : u = Unrouted(t, {key})
    OBVIOUS
  <2> HIDE DEF key, s
  <2>2. IsTruePair(u, calls, st)
    BY <2>1, UnroutedIsTrue
  <2> QED
    BY <1>1, <2>1, <2>2, DroppedHolds
<1> QED
  <2>1. IsSent(calls, ds, n) /\ ~ ds[n].proved
    BY SentNowIs
  <2> HIDE DEF key, s
  <2>2. CallsGoOn(calls, ds) /\ StillAwaits(w, calls, st, ds, st)
    BY <2>1, SentGoesOn
  <2> QED
    BY <1>2, <2>2, GoOnIsTrue

\* One that is taken as proof, and what is left by it.
LEMMA DispatchedIsTrue ==
    ASSUME NEW u, NEW st, NEW n \in 1 .. Len(calls), CallsInOrder(calls, now), calls[n].stage = "new",
           IsTruePair(u, calls, st), NEW ds, ds = Changed(calls, n, SentNow(calls[n], TRUE)),
           <<calls[n].session, calls[n].model>> \notin DOMAIN u.chat.routes,
           \A s \in DOMAIN u.chat.chats :
              u.chat.chats[s].call = n /\ u.chat.chats[s].endpoint # None => IsOf(ds, n, u.chat.chats[s])
    PROVE  IsTruePair(u, ds, st)
<1>1. IsSent(calls, ds, n)
  BY SentNowIs
<1>2. PICK cs : cs = Changed(calls, n, SentNow(calls[n], FALSE))
  OBVIOUS
<1>3. IsSent(calls, cs, n) /\ ~ cs[n].proved
  BY <1>2, SentNowIs
<1>4. CallsGoOn(calls, cs) /\ StillAwaits(u, calls, st, cs, st)
  BY <1>3, SentGoesOn
<1>5. IsTruePair(u, cs, st)
  BY <1>4, GoOnIsTrue
<1>6. Len(ds) = Len(cs) /\ Len(cs) = Len(calls)
  BY <1>1, <1>3 DEF IsSent
<1>7. IsProved(cs, ds, n) /\ ~ Closed(cs, n) /\ cs[n].session = calls[n].session /\ cs[n].model = calls[n].model
  BY <1>1, <1>3, <1>6 DEF IsSent, IsProved, Closed
<1> QED
  BY <1>5, <1>7, ProvedIsTrue

\* The dispatch of call n to e, as the last of its chat and model.
IsProof(n, e, s, m, ds) ==
    /\ n \in 1 .. Len(calls) /\ CallsInOrder(calls, now) /\ calls[n].stage = "new"
    /\ e = calls[n].endpoint /\ e # None /\ s = calls[n].session /\ m = calls[n].model
    /\ ds = Changed(calls, n, SentNow(calls[n], TRUE))
Asks(t, s, m, e) == Chat!IsWatched(t, s, m, Chat!Destination(e))

\* It is the last call of its chat, and later than the ones before.
LEMMA ProofIs ==
    ASSUME NEW n, NEW e, NEW s, NEW m, NEW ds, IsProof(n, e, s, m, ds)
    PROVE  /\ IsSent(calls, ds, n) /\ CallsInOrder(ds, now) /\ Len(ds) = Len(calls) /\ n \in 1 .. Len(ds)
           /\ now \in Nat /\ n # None
           /\ ds[n].session = s /\ ds[n].model = m /\ ds[n].endpoint = e /\ Sent(ds, n) /\ ds[n].at = now
           /\ \A k \in 1 .. Len(ds) : k < n /\ ds[k].session = s => ds[k].at < now
           /\ \A k \in 1 .. Len(ds) : k > n => ds[k].session # s
<1>1. IsSent(calls, ds, n)
  BY SentNowIs DEF IsProof
<1>2. /\ CallsInOrder(ds, now) /\ Len(ds) = Len(calls) /\ n \in 1 .. Len(ds) /\ now \in Nat /\ n # None
      /\ ds[n].session = s /\ ds[n].model = m /\ ds[n].endpoint = e /\ ds[n].stage = "sent" /\ ds[n].at = now
  <2>1. now \in Nat /\ Len(calls) \in Nat
    BY DEF IsProof, CallsInOrder
  <2>2. n \in 1 .. Len(calls) /\ e = calls[n].endpoint /\ s = calls[n].session /\ m = calls[n].model
    BY DEF IsProof
  <2> QED
    BY <1>1, <2>1, <2>2, ChatFacts DEF IsSent
<1>3. /\ \A k \in 1 .. Len(ds) : k < n /\ ds[k].session = s => ds[k].at < now
      /\ \A k \in 1 .. Len(ds) : k > n => ds[k].session # s
  BY <1>2 DEF CallsInOrder
<1> QED
  BY <1>1, <1>2, <1>3 DEF Sent

\* DispatchedIsTrue, of such a dispatch.
LEMMA ProofHolds ==
    ASSUME NEW n, NEW e, NEW s, NEW m, NEW ds, IsProof(n, e, s, m, ds), NEW u, NEW st, IsTruePair(u, calls, st),
           <<s, m>> \notin DOMAIN u.chat.routes,
           \A x \in DOMAIN u.chat.chats :
              u.chat.chats[x].call = n /\ u.chat.chats[x].endpoint # None => IsOf(ds, n, u.chat.chats[x])
    PROVE  IsTruePair(u, ds, st)
BY DispatchedIsTrue DEF IsProof

\* A chat that waited for its endpoint has it.
Assigned(c, e, n) == [c EXCEPT !.endpoint = e, !.proof = n]
\* Only its endpoint and the proof of it change.
LEMMA ToldIs ==
    ASSUME NEW c, IsChat(c), NEW e, NEW n, NEW d, d = Assigned(c, e, n)
    PROVE  /\ IsChat(d) /\ d.model = c.model /\ d.endpoint = e /\ d.dispatched = c.dispatched /\ d.call = c.call
           /\ d.proof = n /\ d.counted = c.counted /\ d.eligible = c.eligible /\ d.part = c.part /\ d.chars = c.chars
BY DEF Assigned, IsChat

\* The endpoint it is told is that of its call, or the proof is of a later one.
LEMMA ToldIsTrue ==
    ASSUME NEW n, NEW e, NEW s, NEW m, NEW ds, IsProof(n, e, s, m, ds), NEW t, NEW st, IsTruePair(t, calls, st),
           Asks(t, s, m, e), s \in DOMAIN t.chat.chats, NEW old, old = t.chat.chats[s],
           old.model = m, old.endpoint = None,
           NEW w, w = Chat!Emitted(t, s, Assigned(old, e, n), "waiting", {}, FALSE)
    PROVE  IsTruePair(w, ds, st)
<1>1. IsTrueChat(t, calls, st, s, old)
  BY DEF IsTruePair
<1>2. old.dispatched = None /\ old.call # None /\ old.call \in 1 .. Len(calls) /\ calls[old.call].session = s
      /\ calls[old.call].model = m /\ <<s, m>> \notin DOMAIN t.chat.routes
  BY <1>1 DEF IsTrueChat, IsAnnounced, IsSeeded
<1>3. n \in 1 .. Len(calls) /\ n # None /\ calls[n].session = s /\ e # None
  BY ChatFacts DEF IsProof
<1>4. IsTruePair(t, ds, st)
  <2>1. ASSUME NEW x \in DOMAIN t.chat.chats, t.chat.chats[x].call = n, t.chat.chats[x].endpoint # None
        PROVE  FALSE
    <3>1. IsTrueChat(t, calls, st, x, t.chat.chats[x])
      BY DEF IsTruePair
    <3>2. x = s
      BY <1>3, <2>1, <3>1 DEF IsTrueChat
    <3> QED
      BY <2>1, <3>2
  <2> QED
    BY <1>2, <2>1, ProofHolds
<1>5. IsTrueChat(t, ds, st, s, old)
  BY <1>4 DEF IsTruePair
<1>6. PICK c : c = Assigned(old, e, n)
  OBVIOUS
<1>7. /\ IsChat(c) /\ c.model = m /\ c.endpoint = e /\ c.dispatched = None /\ c.call = old.call /\ c.proof = n
      /\ c.counted = old.counted /\ c.eligible = old.eligible /\ c.part = old.part /\ c.chars = old.chars
  BY <1>1, <1>2, <1>6, ToldIs DEF IsTrueChat
<1>8. IsOf(ds, old.call, c)
  <2>1. IsSent(calls, ds, n) /\ Len(ds) = Len(calls) /\ ds[n].endpoint = e
        /\ \A k \in 1 .. Len(ds) : k > n => ds[k].session # s
    BY ProofIs
  <2>2. ds[old.call].session = s
    BY <1>2, <1>3, <2>1 DEF IsSent
  <2>3. ~ (old.call > n)
    BY <1>2, <2>1, <2>2
  <2>4. old.call = n \/ n > old.call
    BY <1>2, <1>3, <2>3
  <2> QED
    BY <1>3, <1>7, <2>1, <2>4 DEF IsOf
<1>9. IsAnnounced(t, ds, s, c)
  <2>1. ds[old.call].model = m
    BY <1>2, <1>3, ProofIs DEF IsSent
  <2> QED
    BY <1>2, <1>3, <1>7, <1>8, <2>1 DEF IsAnnounced
<1>10. \A k \in c.counted : IsCounted(ds, k, c)
  BY <1>5, <1>7 DEF IsTrueChat, IsCounted
<1>11. c.endpoint # None /\ Chat!IsWatched(t, s, c.model, Chat!Destination(c.endpoint))
  BY <1>3, <1>7 DEF Asks
<1>12. IsTrueChat(t, ds, st, s, c)
  BY <1>5, <1>7, <1>9, <1>10, <1>11 DEF IsTrueChat
<1> QED
  BY <1>4, <1>6, <1>11, <1>12, SilentIsTrue

\* Or one begins with its dispatch.
SeededBy(m, e) == [Chat!newChat(m, e) EXCEPT !.dispatched = now, !.eligible = FALSE]
\* What it is to count is of that dispatch.
LEMMA SeededIsTrue ==
    ASSUME NEW n, NEW e, NEW s, NEW m, NEW ds, IsProof(n, e, s, m, ds), NEW v, NEW st, IsTruePair(v, ds, st),
           Asks(v, s, m, e), NEW c, c = SeededBy(m, e)
    PROVE  IsTrueChat(v, ds, st, s, c) /\ c.endpoint # None
<1>1. /\ IsChat(c) /\ c.model = m /\ c.endpoint = e /\ c.dispatched = now /\ c.call = None
      /\ c.proof = None /\ c.counted = {} /\ ~ c.eligible
  BY DEF SeededBy, Chat!newChat, IsChat
<1>2. e # None
  BY DEF IsProof
<1>3. /\ n \in 1 .. Len(ds) /\ ds[n].session = s /\ Sent(ds, n) /\ ds[n].endpoint = e /\ now \in Nat
      /\ \A k \in 1 .. Len(ds) : k < n /\ ds[k].session = s => ds[k].at < now
      /\ \A k \in 1 .. Len(ds) : k > n => ds[k].session # s
  BY ProofIs
<1>4. IsSeededBy(ds, st, n, s, c)
  BY <1>1, <1>3 DEF IsSeededBy
<1>5. IsSeeded(ds, st, s, c) /\ c.dispatched # None
  BY <1>1, <1>2, <1>3, <1>4, ChatFacts DEF IsSeeded
<1> QED
  BY <1>1, <1>2, <1>5 DEF IsTrueChat, Asks

RouteOf(e, n) == [endpoint |-> e, at |-> now, of |-> n]
\* The dispatch waits for its step.
LEMMA RouteIsTrue ==
    ASSUME NEW n, NEW e, NEW s, NEW m, NEW ds, IsProof(n, e, s, m, ds), NEW u, NEW st, IsTruePair(u, calls, st),
           Asks(u, s, m, e),
           s \in DOMAIN u.chat.chats /\ u.chat.chats[s].model = m => u.chat.chats[s].endpoint = e,
           NEW key, key = <<s, m>>, NEW r, r = RouteOf(e, n),
           NEW v, v = Routed(u, key, r)
    PROVE  IsTruePair(v, ds, st) /\ Asks(v, s, m, e)
<1>1. /\ r.of = n /\ r.endpoint = e /\ key[1] = s /\ key[2] = m /\ e # None
      /\ n \in 1 .. Len(calls) /\ n # None /\ calls[n].session = s /\ calls[n].model = m /\ ~ Sent(calls, n)
  BY ChatFacts DEF RouteOf, IsProof, Sent
<1>2. /\ Len(ds) = Len(calls) /\ n \in 1 .. Len(ds)
      /\ ds[n].session = s /\ ds[n].model = m /\ ds[n].endpoint = e /\ Sent(ds, n)
      /\ \A k \in 1 .. Len(ds) : k > n => ds[k].session # s
  BY ProofIs
<1>3. PICK x : x = Unrouted(u, {key})
  OBVIOUS
<1>4. /\ IsTruePair(x, calls, st) /\ x.chat.chats = u.chat.chats /\ key \notin DOMAIN x.chat.routes
  BY <1>3, UnroutedIsTrue
<1>5. ASSUME NEW y \in DOMAIN u.chat.chats, u.chat.chats[y].call = n
      PROVE  IsOf(ds, n, u.chat.chats[y])
  <2>1. PICK c : c = u.chat.chats[y]
    OBVIOUS
  <2>2. IsTrueChat(u, calls, st, y, c) /\ c.call = n
    BY <1>5, <2>1 DEF IsTruePair
  <2>3. y = s /\ c.model = m
    BY <1>1, <2>2 DEF IsTrueChat, IsAnnounced, IsSeeded, IsSeededBy
  <2>4. c.endpoint = e
    BY <2>1, <2>3
  <2> QED
    BY <1>2, <2>1, <2>4 DEF IsOf
<1>6. IsTruePair(x, ds, st)
  BY <1>4, <1>5, ProofHolds
<1>7. IsTrueRoute(u, ds, key, r)
  <2>1. Chat!IsWatched(u, key[1], key[2], Chat!Destination(r.endpoint)) /\ key = <<key[1], key[2]>>
    BY <1>1 DEF Asks
  <2> QED
    BY <1>1, <1>2, <2>1 DEF IsTrueRoute
<1>8. IsPair(u)
  BY DEF IsTruePair
<1>9. \A y \in DOMAIN u.chat.chats : y = key[1] /\ u.chat.chats[y].model = key[2] => u.chat.chats[y].endpoint # None
  BY <1>1
<1>10. IsTruePair(v, ds, st) /\ v.chat.watched = u.chat.watched
  BY <1>3, <1>6, <1>7, <1>8, <1>9, RoutedIsTrue
<1> QED
  BY <1>10 DEF Asks, Chat!IsWatched

\* A chat with another endpoint is left.
LEMMA LeftIs ==
    ASSUME NEW t, NEW cs, NEW st, IsTruePair(t, cs, st), NEW e, NEW s, NEW m, Asks(t, s, m, e),
           NEW u, u = Chat!LeftBehind(t, s, m, e)
    PROVE  /\ IsTruePair(u, cs, st) /\ Asks(u, s, m, e)
           /\ s \in DOMAIN u.chat.chats /\ u.chat.chats[s].model = m => u.chat.chats[s].endpoint = e
<1>1. CASE Chat!Own(t, s, m) /\ t.chat.chats[s].endpoint # e
  <2>1. u = Chat!Dropped(t, s)
    BY <1>1 DEF Chat!LeftBehind
  <2> QED
    BY <2>1, DroppedHolds DEF Asks, Chat!IsWatched
<1>2. CASE ~ (Chat!Own(t, s, m) /\ t.chat.chats[s].endpoint # e)
  <2>1. u = t
    BY <1>2 DEF Chat!LeftBehind
  <2> QED
    BY <1>2, <2>1 DEF Chat!Own, Chat!Known
<1> QED
  BY <1>1, <1>2

\* A dispatch that the tracker takes as proof.
LEMMA ProvenIsTrue ==
    ASSUME NEW n, NEW e, NEW s, NEW m, NEW ds, IsProof(n, e, s, m, ds), NEW t, NEW st, IsTruePair(t, calls, st),
           Chat!Proves(t, n, e), NEW w, w = Chat!Authorized(t, n, e)
    PROVE  IsTruePair(w, ds, st)
<1>1. e # None /\ s = calls[n].session /\ m = calls[n].model
  BY DEF IsProof
<1>2. Chat!IsWatched(t, s, m, Chat!Destination(e))
  BY <1>1 DEF Chat!Proves
<1>3. Chat!Matches(t, s, m)
  BY <1>2 DEF Chat!Matches, Chat!Destination
<1>4. Asks(t, s, m, e)
  BY <1>2 DEF Asks
<1> DEFINE u == Chat!LeftBehind(t, s, m, e)
           v == Routed(u, <<s, m>>, RouteOf(e, n))
           c == Assigned(t.chat.chats[s], e, n)
<1>5. \/ Chat!Own(t, s, m) /\ t.chat.chats[s].endpoint = None /\ w = Chat!Emitted(t, s, c, "waiting", {}, FALSE)
      \/ w = v
      \/ w = Chat!Emitted(v, s, SeededBy(m, e), "waiting", {}, FALSE)
  BY <1>1, <1>2, <1>3, Zenon DEF Chat!Authorized, Routed, RouteOf, SeededBy, Assigned
<1>6. IsTruePair(u, calls, st) /\ Asks(u, s, m, e)
      /\ (s \in DOMAIN u.chat.chats /\ u.chat.chats[s].model = m => u.chat.chats[s].endpoint = e)
  <2> HIDE DEF u
  <2> QED
    BY <1>4, LeftIs DEF u
<1> HIDE DEF u
<1>7. IsTruePair(v, ds, st) /\ Asks(v, s, m, e)
  <2> DEFINE key == <<s, m>>
             r == RouteOf(e, n)
  <2>1. v = Routed(u, key, r)
    OBVIOUS
  <2> HIDE DEF v
  <2> QED
    BY <1>6, <2>1, RouteIsTrue
<1> HIDE DEF v
<1>8. CASE Chat!Own(t, s, m) /\ t.chat.chats[s].endpoint = None /\ w = Chat!Emitted(t, s, c, "waiting", {}, FALSE)
  <2>1. PICK old : old = t.chat.chats[s]
    OBVIOUS
  <2>2. s \in DOMAIN t.chat.chats /\ old.model = m /\ old.endpoint = None
    BY <1>8, <2>1 DEF Chat!Own, Chat!Known
  <2>3. w = Chat!Emitted(t, s, Assigned(old, e, n), "waiting", {}, FALSE)
    BY <1>8, <2>1
  <2> HIDE DEF c
  <2> QED
    BY <1>4, <2>1, <2>2, <2>3, ToldIsTrue
<1>9. CASE w = Chat!Emitted(v, s, SeededBy(m, e), "waiting", {}, FALSE)
  <2>1. PICK d : d = SeededBy(m, e)
    OBVIOUS
  <2>2. IsTrueChat(v, ds, st, s, d) /\ d.endpoint # None
    BY <1>7, <2>1, SeededIsTrue
  <2> QED
    BY <1>7, <1>9, <2>1, <2>2, SilentIsTrue
<1> QED
  BY <1>5, <1>7, <1>8, <1>9

\* The tracker and the store become those of a pair.
LEMMA BecomesIs ==
    ASSUME NEW t, IsPair(t), Chat!Becomes(t)
    PROVE  Chat!pair' = t
BY DEF IsPair, Chat!Becomes, Chat!pair

\* Time passes.
LEMMA TickKept == ASSUME ChatInv, Chat!Tick PROVE ChatInv'
<1>1. now' = now + 1 /\ UNCHANGED <<tracker, store, subscribed, stream, calls>>
  BY DEF Chat!Tick
<1>2. CallsInOrder(calls, now + 1)
  <2>1. now \in Nat /\ \A n \in 1 .. Len(calls) : calls[n].at \in Nat /\ calls[n].at <= now
    BY DEF ChatInv, ChatIs, CallsInOrder, IsCall
  <2>2. now + 1 \in Nat /\ \A n \in 1 .. Len(calls) : calls[n].at <= now + 1
    BY <2>1
  <2> QED
    BY <2>2 DEF ChatInv, ChatIs, CallsInOrder
<1>3. Chat!pair' = Chat!pair
  BY <1>1 DEF Chat!pair
<1> QED
  BY <1>1, <1>2, <1>3 DEF ChatInv, ChatIs

\* The end of the subscription leaves nothing to await.
LEMMA EmptiedIsTrue ==
    ASSUME NEW t, NEW cs, NEW st, NEW time, CallsInOrder(cs, time), IsTruePair(t, cs, st), DOMAIN t.chat.chats = {}
    PROVE  IsTruePair(t, cs, <<>>) /\ StreamIsTrue(cs, <<>>)
<1>1. CallsGoOn(cs, cs) /\ StillAwaits(t, cs, st, cs, <<>>)
  BY CallsAreCalls DEF StillAwaits
<1>2. StreamIsTrue(cs, <<>>)
  BY DEF StreamIsTrue
<1> QED
  BY <1>1, <1>2, GoOnIsTrue

\* The subscription ends.
LEMMA SubscriptionEndsKept == ASSUME ChatInv, Chat!SubscriptionEnds PROVE ChatInv'
<1>1. PICK u : u = Chat!cleared(Chat!pair)
  OBVIOUS
<1>2. Chat!Becomes(u) /\ subscribed' = FALSE /\ stream' = <<>> /\ now' = now /\ calls' = calls
  BY <1>1 DEF Chat!SubscriptionEnds
<1>3. CallsInOrder(calls, now) /\ IsTruePair(u, calls, stream) /\ DOMAIN u.chat.chats = {}
  BY <1>1, ClearedIsTrue DEF ChatInv, ChatIs
<1>4. IsTruePair(u, calls, <<>>) /\ StreamIsTrue(calls, <<>>)
  BY <1>3, EmptiedIsTrue
<1>5. Chat!pair' = u
  BY <1>2, <1>4, BecomesIs DEF IsTruePair
<1> QED
  BY <1>2, <1>3, <1>4, <1>5 DEF ChatInv, ChatIs

\* The demand is read.
LEMMA CollectKept == ASSUME ChatInv, NEW d, Chat!Collect(d) PROVE ChatInv'
<1>1. PICK u : u = Chat!Collected(Chat!pair, d)
  OBVIOUS
<1>2. /\ Chat!Becomes(u) /\ subscribed' = Chat!Wants(Chat!pair, d) /\ now' = now /\ calls' = calls
      /\ stream' = IF subscribed' THEN stream ELSE <<>>
  BY <1>1 DEF Chat!Collect
<1>3. /\ CallsInOrder(calls, now) /\ StreamIsTrue(calls, stream) /\ IsTruePair(u, calls, stream)
      /\ (~ Chat!Wants(Chat!pair, d) => DOMAIN u.chat.chats = {})
  BY <1>1, CollectedIsTrue DEF ChatInv, ChatIs
<1>4. IsTruePair(u, calls, stream') /\ StreamIsTrue(calls, stream')
  BY <1>2, <1>3, EmptiedIsTrue
<1>5. Chat!pair' = u
  BY <1>2, <1>3, BecomesIs DEF IsTruePair
<1>6. subscribed' \in BOOLEAN
  BY <1>2 DEF Chat!Wants
<1>7. ~ subscribed' => stream' = <<>> /\ DOMAIN u.chat.chats = {}
  BY <1>2, <1>3
<1> QED
  BY <1>2, <1>3, <1>4, <1>5, <1>6, <1>7 DEF ChatInv, ChatIs

\* The oldest event arrives, once or twice.
LEMMA ArriveKept == ASSUME ChatInv, NEW again \in BOOLEAN, Chat!Arrive(again) PROVE ChatInv'
<1>1. PICK ev : ev = stream[1]
  OBVIOUS
<1>2. PICK w : w = Chat!Event(Chat!pair, ev)
  OBVIOUS
<1>3. CallsInOrder(calls, now) /\ StreamIsTrue(calls, stream) /\ IsTruePair(Chat!pair, calls, stream)
  BY DEF ChatInv, ChatIs
<1>4. stream = [i \in 1 .. Len(stream) |-> stream[i]] /\ Len(stream) \in Nat /\ stream # <<>>
  BY <1>3 DEF StreamIsTrue, Chat!Arrive
<1>5. Len(stream) > 0
  <2> SUFFICES ASSUME Len(stream) = 0 PROVE FALSE
    BY <1>4
  <2>1. stream = [i \in 1 .. 0 |-> stream[i]]
    BY <1>4
  <2>2. stream = <<>>
    BY <2>1
  <2> QED
    BY <1>4, <2>2
<1>6. Head(stream) = ev
  BY <1>1, <1>4, <1>5, TailIs
<1>7. /\ Chat!Becomes(w) /\ subscribed' = subscribed /\ now' = now /\ calls' = calls
      /\ stream' = IF again THEN stream ELSE Tail(stream)
  BY <1>2, <1>6 DEF Chat!Arrive
<1>8. IsTruePair(w, calls, stream) /\ (ev.type = "started" => IsBegun(w, ev.session))
  <2>1. IsNext(calls, stream, ev)
    BY <1>1, <1>3, <1>5 DEF IsNext
  <2> QED
    BY <1>2, <1>3, <2>1, EventIsTrue
<1>9. IsTruePair(w, calls, stream') /\ StreamIsTrue(calls, stream')
  BY <1>1, <1>3, <1>5, <1>7, <1>8, TailIsTrue
<1>10. Chat!pair' = w
  BY <1>7, <1>8, BecomesIs DEF IsTruePair
<1>11. subscribed \in BOOLEAN /\ subscribed
  BY <1>4 DEF ChatInv, ChatIs
<1> QED
  BY <1>3, <1>7, <1>9, <1>10, <1>11 DEF ChatInv, ChatIs

\* What a call says: it goes on, and the stream, where one listens, says so.
Speaks(n, x, ev) ==
    /\ n \in 1 .. Len(calls) /\ calls[n].stage # "over"
    /\ IsCall(x) /\ x.session = calls[n].session /\ x.model = calls[n].model /\ x.endpoint = calls[n].endpoint
    /\ x.at = now /\ x.proved = calls[n].proved
    /\ calls[n].announced => x.announced
    /\ x.announced /\ ~ calls[n].announced => ev.type = "started"
    /\ calls[n].stage # "new" => x.stage # "new"
    /\ calls[n].stage \notin {"new", "sent", "open"} =>
          x.stage \notin {"new", "sent", "open"} /\ x.chars = calls[n].chars
    /\ ev.type \in Telling /\ ev.call = n /\ ev.session = x.session /\ ev.model = x.model /\ ev.created = now
    /\ ev.type \in Replying => x.announced /\ x.stage # "new"
    /\ ev.type = "parted" => x.stage \notin {"new", "sent", "open"} /\ ev.chars = x.chars

\* The calls go on, and the event is true of them.
LEMMA SpeaksGoesOn ==
    ASSUME NEW n, NEW x, NEW ev, Speaks(n, x, ev), CallsInOrder(calls, now),
           NEW ds, ds = Changed(calls, n, x)
    PROVE  IsChanged(calls, ds, n, x, now) /\ CallsGoOn(calls, ds) /\ IsEvent(ds, ev)
<1>1. Len(calls) \in Nat /\ now \in Nat /\ n \in 1 .. Len(calls)
      /\ \A m \in 1 .. Len(calls) : calls[m].at \in Nat /\ calls[m].at <= now
  BY DEF Speaks, CallsInOrder, IsCall
<1>2. IsChanged(calls, ds, n, x, now)
  <2>1. /\ calls[n].stage # "over" /\ IsCall(x) /\ x.session = calls[n].session /\ x.model = calls[n].model
        /\ x.endpoint = calls[n].endpoint /\ calls[n].at <= x.at /\ x.at <= now /\ now <= now
    BY <1>1 DEF Speaks
  <2> HIDE DEF Speaks
  <2> QED
    BY <1>1, <2>1, OneGoesOn
<1>3. Len(ds) = Len(calls) /\ ds[n] = x /\ \A m \in 1 .. Len(calls) : m # n => ds[m] = calls[m]
  BY <1>2 DEF IsChanged
<1>4. ASSUME NEW m \in 1 .. Len(calls)
      PROVE  /\ ds[m].session = calls[m].session /\ ds[m].model = calls[m].model
             /\ ds[m].endpoint = calls[m].endpoint
             /\ ds[m].at \in Nat /\ calls[m].at \in Nat /\ calls[m].at <= ds[m].at
             /\ calls[m].announced => ds[m].announced
             /\ Sent(calls, m) => Sent(ds, m)
             /\ Closed(calls, m) => Closed(ds, m) /\ ds[m].chars = calls[m].chars
             /\ calls[m].stage = "over" => ds[m] = calls[m]
             /\ ds[m].proved => calls[m].proved
  <2>1. CASE m = n
    BY <1>1, <1>3, <2>1 DEF Speaks, Sent, Closed
  <2>2. CASE m # n
    <3>1. ds[m] = calls[m]
      BY <1>3, <2>2
    <3> QED
      BY <1>1, <3>1 DEF Sent, Closed
  <2> QED
    BY <2>1, <2>2
<1>5. CallsGoOn(calls, ds)
  BY <1>1, <1>3, <1>4 DEF CallsGoOn
<1>6. IsEvent(ds, ev)
  BY <1>1, <1>3 DEF IsEvent, Speaks, Sent, Closed
<1> QED
  BY <1>2, <1>5, <1>6

\* What was awaited still is, and an announcement is awaited from now on.
LEMMA SpeaksAwaits ==
    ASSUME NEW n, NEW x, NEW ev, Speaks(n, x, ev), CallsInOrder(calls, now), StreamIsTrue(calls, stream),
           NEW ds, ds = Changed(calls, n, x), NEW su, su = Append(stream, ev)
    PROVE  StreamIsTrue(ds, su) /\ \A t : StillAwaits(t, calls, stream, ds, su)
<1>1. IsChanged(calls, ds, n, x, now) /\ CallsGoOn(calls, ds) /\ IsEvent(ds, ev)
  BY SpeaksGoesOn
<1>2. StreamIsTrue(ds, stream)
  BY <1>1, StreamGoesOn
<1>0. StreamIsTrue(ds, su) /\ IsSaid(stream, su, ev)
  BY <1>1, <1>2, SaidIs
<1>3. /\ Len(stream) \in Nat /\ Len(su) = Len(stream) + 1 /\ su[Len(stream) + 1] = ev
      /\ \A i \in 1 .. Len(stream) : su[i] = stream[i]
  BY <1>0 DEF IsSaid
<1>4. Len(ds) = Len(calls) /\ ds[n] = x /\ \A m \in 1 .. Len(calls) : m # n => ds[m] = calls[m]
  BY <1>1 DEF IsChanged
<1>5. Len(calls) \in Nat
  BY DEF CallsInOrder
<1>6. ASSUME NEW k \in 1 .. Len(calls), Awaited(calls, stream, k) PROVE Awaited(ds, su, k)
  <2>1. CASE ds[k].announced => calls[k].announced
    BY <1>0, <1>6, <2>1, SaidAwaits
  <2>2. CASE ds[k].announced /\ ~ calls[k].announced
    <3>1. k = n /\ ev.type = "started" /\ ev.call = k
      BY <1>4, <2>2 DEF Speaks
    <3>2. \A j \in 1 .. Len(stream) : stream[j].call = k => stream[j].type \notin Replying
      BY <2>2 DEF StreamIsTrue, IsEvent
    <3>3. Len(stream) + 1 \in 1 .. Len(su)
      BY <1>3
    <3>4. ASSUME NEW j \in 1 .. Len(su), su[j].call = k, su[j].type \in Replying PROVE FALSE
      <4>1. j \in 1 .. Len(stream) \/ j = Len(stream) + 1
        BY <1>3
      <4> QED
        BY <1>3, <3>1, <3>2, <3>4, <4>1 DEF Replying
    <3> QED
      BY <1>3, <3>1, <3>3, <3>4 DEF Awaited
  <2> QED
    BY <2>1, <2>2
<1>7. ASSUME NEW t PROVE StillAwaits(t, calls, stream, ds, su)
  BY <1>4, <1>5, <1>6 DEF StillAwaits
<1> QED
  BY <1>0, <1>7

\* A call that says something keeps the invariant.
LEMMA SpeaksKept ==
    ASSUME ChatInv, NEW n, NEW x, NEW ev, Speaks(n, x, ev), calls' = Changed(calls, n, x),
           stream' = IF subscribed THEN Append(stream, ev) ELSE stream,
           UNCHANGED <<now, tracker, store, subscribed>>
    PROVE  ChatInv'
<1>1. /\ CallsInOrder(calls, now) /\ StreamIsTrue(calls, stream) /\ IsTruePair(Chat!pair, calls, stream)
      /\ subscribed \in BOOLEAN /\ (~ subscribed => stream = <<>> /\ DOMAIN Chat!pair.chat.chats = {})
  BY DEF ChatInv, ChatIs
<1>2. PICK ds, su : ds = calls' /\ su = stream'
  OBVIOUS
<1>3. IsChanged(calls, ds, n, x, now) /\ CallsGoOn(calls, ds)
  BY <1>1, <1>2, SpeaksGoesOn
<1>4. StreamIsTrue(ds, su) /\ StillAwaits(Chat!pair, calls, stream, ds, su)
  <2>1. CASE subscribed
    BY <1>1, <1>2, <2>1, SpeaksAwaits
  <2>2. CASE ~ subscribed
    <3>1. su = stream /\ DOMAIN Chat!pair.chat.chats = {}
      BY <1>1, <1>2, <2>2
    <3> QED
      BY <1>1, <1>3, <3>1, StreamGoesOn DEF StillAwaits
  <2> QED
    BY <2>1, <2>2
<1>5. IsTruePair(Chat!pair, ds, su)
  BY <1>1, <1>3, <1>4, GoOnIsTrue
<1>6. Chat!pair' = Chat!pair
  BY DEF Chat!pair
<1>7. ~ subscribed => su = <<>>
  BY <1>1, <1>2
<1> QED
  BY <1>1, <1>2, <1>3, <1>4, <1>5, <1>6, <1>7 DEF ChatInv, ChatIs, IsChanged

\* A call that said something, and one at another stage.
Uttered(c) == [c EXCEPT !.said = @ + 1, !.at = now]
Staged(c, to, chars) == [c EXCEPT !.stage = to, !.chars = chars]
Declared(c) == [c EXCEPT !.announced = TRUE]
IsUttered(c, x) ==
    /\ IsCall(x) /\ x.session = c.session /\ x.model = c.model /\ x.endpoint = c.endpoint /\ x.stage = c.stage
    /\ x.announced = c.announced /\ x.chars = c.chars /\ x.at = now /\ x.proved = c.proved

\* It is the same call, later.
LEMMA UtteredIs ==
    ASSUME NEW c, IsCall(c), now \in Nat, NEW x, x = Uttered(c)
    PROVE  IsUttered(c, x)
BY DEF Uttered, IsUttered, IsCall

\* Its stage and its output change.
LEMMA StagedIs ==
    ASSUME NEW c, IsCall(c), NEW to, NEW chars, NEW x, x = Staged(c, to, chars)
    PROVE  /\ IsCall(x) /\ x.session = c.session /\ x.model = c.model /\ x.endpoint = c.endpoint /\ x.stage = to
           /\ x.announced = c.announced /\ x.chars = chars /\ x.at = c.at /\ x.proved = c.proved
BY DEF Staged, IsCall

\* It is announced.
LEMMA DeclaredIs ==
    ASSUME NEW c, IsCall(c), NEW x, x = Declared(c)
    PROVE  /\ IsCall(x) /\ x.session = c.session /\ x.model = c.model /\ x.endpoint = c.endpoint
           /\ x.stage = c.stage /\ x.announced /\ x.chars = c.chars /\ x.at = c.at /\ x.proved = c.proved
BY DEF Declared, IsCall

\* What a call says.
Saying(n, type) ==
    [type |-> type, session |-> calls[n].session, model |-> calls[n].model, call |-> n, created |-> now,
     id |-> <<n, calls[n].said>>, chars |-> calls[n].chars, finish |-> calls[n].finish]
\* The event is what the stream gets.
LEMMA SayingIs ==
    ASSUME NEW n, NEW type, Chat!Says(n, type), NEW ev, ev = Saying(n, type)
    PROVE  /\ ev.type = type /\ ev.call = n /\ ev.session = calls[n].session /\ ev.model = calls[n].model
           /\ ev.created = now /\ ev.chars = calls[n].chars
           /\ stream' = IF subscribed THEN Append(stream, ev) ELSE stream
BY DEF Chat!Says, Saying

\* The call is what changes.
LEMMA CallsIs ==
    ASSUME NEW n, NEW c, Chat!Calls(n, c), NEW x, x = Uttered(c)
    PROVE  calls' = Changed(calls, n, x)
BY DEF Chat!Calls, Uttered, Changed

\* A call is one of the calls.
LEMMA CallIs ==
    ASSUME ChatInv, NEW n \in DOMAIN calls
    PROVE  IsCall(calls[n]) /\ n \in 1 .. Len(calls) /\ now \in Nat
<1>1. calls = [m \in 1 .. Len(calls) |-> calls[m]]
  BY DEF ChatInv, ChatIs, CallsInOrder
<1>2. n \in 1 .. Len(calls)
  BY <1>1
<1> QED
  BY <1>2 DEF ChatInv, ChatIs, CallsInOrder

\* A step is announced.
LEMMA AnnounceKept == ASSUME ChatInv, NEW n \in DOMAIN calls, Chat!Announce(n) PROVE ChatInv'
<1>1. PICK c, ev : c = Declared(calls[n]) /\ ev = Saying(n, "started")
  OBVIOUS
<1>2. PICK x : x = Uttered(c)
  OBVIOUS
<1>3. /\ Chat!Says(n, "started") /\ Chat!Calls(n, c) /\ calls[n].stage \in {"new", "sent"} /\ ~ calls[n].announced
      /\ UNCHANGED <<now, tracker, store, subscribed>>
  BY <1>1 DEF Chat!Announce, Declared
<1>4. IsCall(calls[n]) /\ n \in 1 .. Len(calls) /\ now \in Nat
  BY CallIs
<1>5. /\ IsCall(c) /\ c.session = calls[n].session /\ c.model = calls[n].model /\ c.endpoint = calls[n].endpoint
      /\ c.stage = calls[n].stage /\ c.announced /\ c.chars = calls[n].chars /\ c.proved = calls[n].proved
  BY <1>1, <1>4, DeclaredIs
<1>6. IsUttered(c, x)
  BY <1>2, <1>4, <1>5, UtteredIs
<1>7. /\ ev.type = "started" /\ ev.call = n /\ ev.session = calls[n].session /\ ev.model = calls[n].model
      /\ ev.created = now /\ ev.chars = calls[n].chars
      /\ stream' = IF subscribed THEN Append(stream, ev) ELSE stream
  BY <1>1, <1>3, SayingIs
<1>8. Speaks(n, x, ev)
  BY <1>3, <1>4, <1>5, <1>6, <1>7 DEF Speaks, IsUttered, Telling, Replying
<1>9. calls' = Changed(calls, n, x)
  BY <1>2, <1>3, CallsIs
<1> QED
  BY <1>3, <1>7, <1>8, <1>9, SpeaksKept

\* How far a reply may go.
Turns(type, from, to) ==
    /\ from \in {"sent", "open", "closed", "streamed"} /\ type \in Replying
    /\ to # "new"
    /\ from \in {"closed", "streamed"} => to \notin {"new", "sent", "open"} /\ type # "delta"
    /\ type = "parted" => to \notin {"new", "sent", "open"}

\* A reply goes on.
LEMMA ReplyKept ==
    ASSUME ChatInv, NEW n \in DOMAIN calls, NEW type, NEW from, NEW to, Turns(type, from, to),
           Chat!Reply(n, type, from, to)
    PROVE  ChatInv'
<1>1. PICK ev, chars : ev = Saying(n, type) /\ chars = IF type = "delta" THEN calls[n].chars + 1 ELSE calls[n].chars
  OBVIOUS
<1>2. PICK c : c = Staged(calls[n], to, chars)
  OBVIOUS
<1>3. PICK x : x = Uttered(c)
  OBVIOUS
<1>4. /\ Chat!Says(n, type) /\ Chat!Calls(n, c) /\ calls[n].stage = from /\ calls[n].announced
      /\ UNCHANGED <<now, tracker, store, subscribed>>
  BY <1>1, <1>2 DEF Chat!Reply, Staged
<1>5. IsCall(calls[n]) /\ n \in 1 .. Len(calls) /\ now \in Nat
  BY CallIs
<1>6. /\ IsCall(c) /\ c.session = calls[n].session /\ c.model = calls[n].model /\ c.endpoint = calls[n].endpoint
      /\ c.stage = to /\ c.announced = calls[n].announced /\ c.chars = chars /\ c.proved = calls[n].proved
  BY <1>2, <1>5, StagedIs
<1>7. IsUttered(c, x)
  BY <1>3, <1>5, <1>6, UtteredIs
<1>8. /\ ev.type = type /\ ev.call = n /\ ev.session = calls[n].session /\ ev.model = calls[n].model
      /\ ev.created = now /\ ev.chars = calls[n].chars
      /\ stream' = IF subscribed THEN Append(stream, ev) ELSE stream
  BY <1>1, <1>4, SayingIs
<1>9. Speaks(n, x, ev)
  BY <1>1, <1>4, <1>5, <1>6, <1>7, <1>8 DEF Speaks, IsUttered, Telling, Replying, Turns
<1>10. calls' = Changed(calls, n, x)
  BY <1>3, <1>4, CallsIs
<1> QED
  BY <1>4, <1>8, <1>9, <1>10, SpeaksKept

\* All that a reply does.
LEMMA RepliesKept == ASSUME ChatInv, NEW n \in DOMAIN calls, Chat!Replies(n) PROVE ChatInv'
<1>1. \E type, from, to : Turns(type, from, to) /\ Chat!Reply(n, type, from, to)
  <2>1. /\ Turns("part", "sent", "open") /\ Turns("delta", "open", "open") /\ Turns("parted", "open", "closed")
        /\ Turns("tool", "closed", "closed") /\ Turns("streamed", "closed", "streamed")
        /\ Turns("ended", "streamed", "over") /\ Turns("unknown", "open", "open")
    BY DEF Turns, Replying
  <2> QED
    BY <2>1 DEF Chat!Replies
<1> QED
  BY <1>1, ReplyKept

\* A call is retried, interrupted or done.
LEMMA CutOffKept ==
    ASSUME ChatInv, NEW n \in DOMAIN calls, NEW type \in {"retry", "interrupted", "succeeded"}, Chat!CutOff(n, type)
    PROVE  ChatInv'
<1>1. PICK ev, chars : ev = Saying(n, type) /\ chars = calls[n].chars
  OBVIOUS
<1>2. IsCall(calls[n]) /\ n \in 1 .. Len(calls) /\ now \in Nat
  BY CallIs
<1>3. PICK c : c = Staged(calls[n], "over", chars)
  OBVIOUS
<1>4. c = [calls[n] EXCEPT !.stage = "over"]
  BY <1>1, <1>2, <1>3 DEF Staged, IsCall
<1>5. PICK x : x = Uttered(c)
  OBVIOUS
<1>6. /\ Chat!Says(n, type) /\ Chat!Calls(n, c) /\ calls[n].stage # "over"
      /\ UNCHANGED <<now, tracker, store, subscribed>>
  BY <1>4 DEF Chat!CutOff
<1>7. /\ IsCall(c) /\ c.session = calls[n].session /\ c.model = calls[n].model /\ c.endpoint = calls[n].endpoint
      /\ c.stage = "over" /\ c.announced = calls[n].announced /\ c.chars = chars /\ c.proved = calls[n].proved
  BY <1>2, <1>3, StagedIs
<1>8. IsUttered(c, x)
  BY <1>2, <1>5, <1>7, UtteredIs
<1>9. /\ ev.type = type /\ ev.call = n /\ ev.session = calls[n].session /\ ev.model = calls[n].model
      /\ ev.created = now /\ ev.chars = calls[n].chars
      /\ stream' = IF subscribed THEN Append(stream, ev) ELSE stream
  BY <1>1, <1>6, SayingIs
<1>10. Speaks(n, x, ev)
  BY <1>1, <1>2, <1>6, <1>7, <1>8, <1>9 DEF Speaks, IsUttered, Telling, Replying
<1>11. calls' = Changed(calls, n, x)
  BY <1>5, <1>6, CallsIs
<1> QED
  BY <1>6, <1>9, <1>10, <1>11, SpeaksKept

\* Metadata of a call.
LEMMA MetadataKept == ASSUME ChatInv, NEW n \in DOMAIN calls, Chat!Metadata(n) PROVE ChatInv'
<1>1. PICK ev, c : ev = Saying(n, "metadata") /\ c = calls[n]
  OBVIOUS
<1>2. PICK x : x = Uttered(c)
  OBVIOUS
<1>3. /\ Chat!Says(n, "metadata") /\ Chat!Calls(n, c) /\ calls[n].stage # "over"
      /\ UNCHANGED <<now, tracker, store, subscribed>>
  BY <1>1 DEF Chat!Metadata
<1>4. IsCall(calls[n]) /\ n \in 1 .. Len(calls) /\ now \in Nat
  BY CallIs
<1>5. IsUttered(c, x)
  BY <1>1, <1>2, <1>4, UtteredIs
<1>6. /\ ev.type = "metadata" /\ ev.call = n /\ ev.session = calls[n].session /\ ev.model = calls[n].model
      /\ ev.created = now
      /\ stream' = IF subscribed THEN Append(stream, ev) ELSE stream
  BY <1>1, <1>3, SayingIs
<1>7. Speaks(n, x, ev)
  BY <1>1, <1>3, <1>4, <1>5, <1>6 DEF Speaks, IsUttered, Telling, Replying
<1>8. calls' = Changed(calls, n, x)
  BY <1>2, <1>3, CallsIs
<1> QED
  BY <1>3, <1>6, <1>7, <1>8, SpeaksKept

\* A new call is not announced yet, nor proved.
LEMMA CallBeginKept ==
    ASSUME ChatInv, NEW s, NEW m, NEW e, Chat!Begin(s, m, e)
    PROVE  ChatInv'
<1>1. PICK finish, x : /\ x = [session |-> s, model |-> m, endpoint |-> e, stage |-> "new", announced |-> FALSE,
                              said |-> 0, chars |-> 0, finish |-> finish, at |-> now, proved |-> FALSE]
                       /\ calls' = Append(calls, x)
  BY DEF Chat!Begin
<1>2. /\ Chat!Current(s) = {} /\ UNCHANGED <<now, tracker, store, subscribed, stream>>
      /\ \A n \in DOMAIN calls : calls[n].session = s => calls[n].at < now
  BY DEF Chat!Begin
<1>3. /\ CallsInOrder(calls, now) /\ StreamIsTrue(calls, stream) /\ IsTruePair(Chat!pair, calls, stream)
      /\ subscribed \in BOOLEAN /\ (~ subscribed => stream = <<>> /\ DOMAIN Chat!pair.chat.chats = {})
  BY DEF ChatInv, ChatIs
<1>4. /\ now \in Nat /\ Len(calls) \in Nat /\ calls = [n \in 1 .. Len(calls) |-> calls[n]]
      /\ \A n \in 1 .. Len(calls) : IsCall(calls[n]) /\ calls[n].at <= now /\ calls[n].at \in Nat
  BY <1>3 DEF CallsInOrder, IsCall
<1>5. IsCall(x) /\ x.session = s /\ x.at = now /\ ~ x.announced /\ ~ x.proved
  BY <1>1, <1>4 DEF IsCall
<1>6. PICK ds : ds = calls'
  OBVIOUS
<1>7. /\ Len(ds) = Len(calls) + 1 /\ ds = [i \in 1 .. Len(ds) |-> ds[i]] /\ ds[Len(calls) + 1] = x
      /\ \A i \in 1 .. Len(calls) : ds[i] = calls[i]
  BY <1>1, <1>4, <1>6, AppendedIs
<1>8. \A n \in 1 .. Len(calls) : calls[n].session = s => calls[n].stage = "over" /\ calls[n].at < now
  <2>1. DOMAIN calls = 1 .. Len(calls)
    BY <1>4
  <2> QED
    BY <1>2, <2>1 DEF Chat!Current
<1>9. \A n \in 1 .. Len(ds) : n \in 1 .. Len(calls) \/ n = Len(calls) + 1
  BY <1>4, <1>7
<1>10. CallsInOrder(ds, now)
  <2>1. \A n \in 1 .. Len(ds) : IsCall(ds[n]) /\ ds[n].at <= now
    BY <1>4, <1>5, <1>7, <1>9
  <2>2. ASSUME NEW l \in 1 .. Len(ds), NEW n \in 1 .. Len(ds), l < n, ds[l].session = ds[n].session
        PROVE  ds[l].stage = "over" /\ ds[l].at < ds[n].at
    <3>1. l \in 1 .. Len(calls) /\ ds[l] = calls[l]
      BY <1>4, <1>7, <2>2
    <3>2. CASE n \in 1 .. Len(calls)
      BY <1>3, <1>7, <2>2, <3>1, <3>2 DEF CallsInOrder
    <3>3. CASE n = Len(calls) + 1
      BY <1>5, <1>7, <1>8, <2>2, <3>1, <3>3
    <3> QED
      BY <1>9, <3>2, <3>3
  <2> QED
    BY <1>4, <1>7, <2>1, <2>2 DEF CallsInOrder
<1>11. CallsGoOn(calls, ds)
  <2>1. ASSUME NEW n \in 1 .. Len(calls) PROVE ds[n] = calls[n] /\ calls[n].at \in Nat /\ calls[n].at <= calls[n].at
    BY <1>4, <1>7
  <2>2. \A n \in 1 .. Len(ds) : n > Len(calls) => ~ ds[n].proved
    BY <1>4, <1>5, <1>7, <1>9
  <2> QED
    BY <1>4, <1>7, <2>1, <2>2 DEF CallsGoOn, Sent, Closed
<1>12. StillAwaits(Chat!pair, calls, stream, ds, stream)
  <2>1. \A k \in 1 .. Len(calls) : Awaited(calls, stream, k) => Awaited(ds, stream, k)
    BY <1>7 DEF Awaited
  <2>2. \A k \in 1 .. Len(ds) : k > Len(calls) => Awaited(ds, stream, k)
    BY <1>4, <1>5, <1>7, <1>9 DEF Awaited
  <2> QED
    BY <2>1, <2>2 DEF StillAwaits
<1>13. IsTruePair(Chat!pair, ds, stream) /\ StreamIsTrue(ds, stream)
  BY <1>3, <1>11, <1>12, GoOnIsTrue, StreamGoesOn
<1>14. Chat!pair' = Chat!pair
  BY <1>2 DEF Chat!pair
<1> QED
  BY <1>2, <1>3, <1>6, <1>10, <1>13, <1>14 DEF ChatInv, ChatIs

\* What the stream says of the calls is true after a dispatch.
LEMMA SentIsSaid ==
    ASSUME NEW n \in 1 .. Len(calls), CallsInOrder(calls, now), calls[n].stage = "new",
           NEW ds, IsSent(calls, ds, n), NEW st, StreamIsTrue(calls, st)
    PROVE  StreamIsTrue(ds, st)
<1>1. Len(ds) = Len(calls) /\ now \in Nat
      /\ \A m \in 1 .. Len(calls) : calls[m].at \in Nat /\ calls[m].at <= now
  BY DEF IsSent, CallsInOrder, IsCall
<1> SUFFICES ASSUME NEW x, IsEvent(calls, x) PROVE IsEvent(ds, x)
  BY DEF StreamIsTrue
<1>2. CASE x.call = n
  BY <1>1, <1>2 DEF IsEvent, IsSent, Sent, Closed
<1>3. CASE x.call # n
  <2>1. ds[x.call] = calls[x.call]
    BY <1>3 DEF IsEvent, IsSent
  <2> QED
    BY <1>1, <2>1 DEF IsEvent, Sent, Closed
<1> QED
  BY <1>2, <1>3

\* A dispatch: heard or not, and taken as proof or not.
LEMMA DispatchKept == ASSUME ChatInv, NEW n \in DOMAIN calls, Chat!Dispatch(n) PROVE ChatInv'
<1>1. /\ CallsInOrder(calls, now) /\ StreamIsTrue(calls, stream) /\ IsTruePair(Chat!pair, calls, stream)
      /\ subscribed \in BOOLEAN /\ (~ subscribed => stream = <<>> /\ DOMAIN Chat!pair.chat.chats = {})
  BY DEF ChatInv, ChatIs
<1>2. IsCall(calls[n]) /\ n \in 1 .. Len(calls) /\ calls[n].stage = "new" /\ UNCHANGED <<now, subscribed, stream>>
  BY CallIs DEF Chat!Dispatch
<1>3. PICK seen \in {calls[n].endpoint, None}, heard \in BOOLEAN :
        /\ heard => subscribed
        /\ IF heard THEN Chat!Becomes(Chat!Authorized(Chat!pair, n, seen)) ELSE UNCHANGED <<tracker, store>>
        /\ calls' = Changed(calls, n, SentNow(calls[n], heard /\ Chat!Proves(Chat!pair, n, seen)))
  <2>1. PICK seen \in {calls[n].endpoint, None} :
          LET heard == subscribed /\ ~ Chat!Withdrawn(Chat!pair) IN
          /\ IF heard THEN Chat!Becomes(Chat!Authorized(Chat!pair, n, seen)) ELSE UNCHANGED <<tracker, store>>
          /\ calls' = [calls EXCEPT ![n] = [@ EXCEPT !.stage = "sent", !.at = now,
                                                     !.proved = heard /\ Chat!Proves(Chat!pair, n, seen)]]
    BY DEF Chat!Dispatch
  <2> DEFINE heard == subscribed /\ ~ Chat!Withdrawn(Chat!pair)
  <2>2. heard \in BOOLEAN
    OBVIOUS
  <2>3. calls' = Changed(calls, n, SentNow(calls[n], heard /\ Chat!Proves(Chat!pair, n, seen)))
    BY <2>1, Zenon DEF Changed, SentNow
  <2> QED
    BY <2>1, <2>2, <2>3
<1>4. PICK ds : ds = calls'
  OBVIOUS
<1>5. CASE heard /\ Chat!Proves(Chat!pair, n, seen)
  <2>1. ds = Changed(calls, n, SentNow(calls[n], TRUE))
    BY <1>3, <1>4, <1>5, Zenon
  <2>2. PICK w : w = Chat!Authorized(Chat!pair, n, seen)
    OBVIOUS
  <2>3. Chat!Becomes(w)
    BY <1>3, <1>5, <2>2
  <2>4. seen = calls[n].endpoint /\ seen # None
    BY <1>3, <1>5 DEF Chat!Proves
  <2>5. PICK s, m : s = calls[n].session /\ m = calls[n].model
    OBVIOUS
  <2>6. IsProof(n, seen, s, m, ds)
    BY <1>1, <1>2, <2>1, <2>4, <2>5 DEF IsProof
  <2>7. IsTruePair(w, ds, stream)
    BY <1>1, <1>5, <2>2, <2>6, ProvenIsTrue
  <2>8. IsSent(calls, ds, n) /\ CallsInOrder(ds, now)
    BY <2>6, ProofIs
  <2>9. StreamIsTrue(ds, stream)
    BY <1>1, <1>2, <2>8, SentIsSaid
  <2>10. Chat!pair' = w
    BY <2>3, <2>7, BecomesIs DEF IsTruePair
  <2>11. subscribed
    BY <1>3, <1>5
  <2> QED
    BY <1>1, <1>2, <1>4, <2>7, <2>8, <2>9, <2>10, <2>11 DEF ChatInv, ChatIs
<1>6. CASE ~ (heard /\ Chat!Proves(Chat!pair, n, seen))
  <2>1. ds = Changed(calls, n, SentNow(calls[n], FALSE))
    BY <1>3, <1>4, <1>6, Zenon
  <2>2. IsSent(calls, ds, n) /\ ~ ds[n].proved
    BY <1>1, <1>2, <2>1, SentNowIs
  <2>3. CallsInOrder(ds, now)
    BY <2>2 DEF IsSent
  <2>4. StreamIsTrue(ds, stream)
    BY <1>1, <1>2, <2>2, SentIsSaid
  <2>5. CASE heard
    <3>1. PICK w : w = Chat!Authorized(Chat!pair, n, seen)
      OBVIOUS
    <3>2. Chat!Becomes(w) /\ subscribed /\ ~ Chat!Proves(Chat!pair, n, seen)
      BY <1>3, <1>6, <2>5, <3>1
    <3>3. IsTruePair(w, ds, stream)
      BY <1>1, <1>2, <2>1, <3>1, <3>2, UnprovedIsTrue
    <3>4. Chat!pair' = w
      BY <3>2, <3>3, BecomesIs DEF IsTruePair
    <3> QED
      BY <1>1, <1>2, <1>4, <2>3, <2>4, <3>2, <3>3, <3>4 DEF ChatInv, ChatIs
  <2>6. CASE ~ heard
    <3>1. UNCHANGED <<tracker, store>>
      BY <1>3, <2>6
    <3>2. CallsGoOn(calls, ds) /\ StillAwaits(Chat!pair, calls, stream, ds, stream)
      BY <1>1, <1>2, <2>2, SentGoesOn
    <3>3. IsTruePair(Chat!pair, ds, stream)
      BY <1>1, <3>2, GoOnIsTrue
    <3>4. Chat!pair' = Chat!pair
      BY <3>1 DEF Chat!pair
    <3> QED
      BY <1>1, <1>2, <1>4, <2>3, <2>4, <3>3, <3>4 DEF ChatInv, ChatIs
  <2> QED
    BY <1>3, <2>5, <2>6
<1> QED
  BY <1>5, <1>6

\* The invariant of the chats.
LEMMA ChatStarts == Chat!ChatInit => ChatInv
<1> SUFFICES ASSUME Chat!ChatInit PROVE ChatInv
  OBVIOUS
<1>1. /\ now = 0 /\ tracker = Chat!newTracker /\ store = [s \in {} |-> None] /\ subscribed = FALSE
      /\ stream = <<>> /\ calls = <<>>
  BY DEF Chat!ChatInit
<1>2. CallsInOrder(calls, now) /\ StreamIsTrue(calls, stream)
  BY <1>1 DEF CallsInOrder, StreamIsTrue
<1>3. PICK t : t = Chat!pair
  OBVIOUS
<1>4. t = PairOf({}, [r \in {} |-> None], [s \in {} |-> None], {}, 0, [s \in {} |-> None])
  BY <1>1, <1>3 DEF Chat!pair, Chat!newTracker, PairOf
<1>5. IsMap([s \in {} |-> None]) /\ DOMAIN [s \in {} |-> None] = {}
  BY DEF IsMap
<1>6. /\ IsPair(t) /\ DOMAIN t.chat.routes = {} /\ DOMAIN t.chat.chats = {} /\ t.chat.calibration = {}
      /\ DOMAIN t.store = {}
  BY <1>4, <1>5, PairOfIs
<1>7. IsTruePair(t, calls, stream)
  BY <1>6 DEF IsTruePair
<1> QED
  BY <1>1, <1>2, <1>3, <1>6, <1>7 DEF ChatInv, ChatIs

\* Every step of the chats keeps their invariant,
LEMMA ChatKept == ChatInv /\ Chat!ChatNext => ChatInv'
<1> SUFFICES ASSUME ChatInv, Chat!ChatNext PROVE ChatInv'
  OBVIOUS
<1> QED
  BY TickKept, SubscriptionEndsKept, ArriveKept, CollectKept, CallBeginKept, AnnounceKept, DispatchKept,
     RepliesKept, MetadataKept, CutOffKept DEF Chat!ChatNext

\* and what leaves them alone does.
LEMMA ChatStutters == ChatInv /\ UNCHANGED <<now, tracking>> => ChatInv'
<1> SUFFICES ASSUME ChatInv, UNCHANGED <<now, tracking>> PROVE ChatInv'
  OBVIOUS
<1>1. UNCHANGED <<now, subscribed, stream, calls>> /\ Chat!pair' = Chat!pair
  BY DEF tracking, Chat!pair
<1> QED
  BY <1>1 DEF ChatInv, ChatIs

\* What is true of the chats makes their rates those of their endpoints.
LEMMA ChatSafe == ChatInv => Chat!RatesAreOfTheirEndpoint
<1> SUFFICES ASSUME ChatInv PROVE Chat!RatesAreOfTheirEndpoint
  OBVIOUS
<1>1. PICK t : t = Chat!pair
  OBVIOUS
<1>2. IsTruePair(t, calls, stream) /\ t.store = store /\ t.chat = tracker
  BY <1>1 DEF ChatInv, ChatIs, Chat!pair
<1>3. ASSUME NEW n, NEW x, IsOf(calls, n, x) PROVE Chat!IsOfEndpoint(n, x)
  BY <1>3 DEF IsOf, Chat!IsOfEndpoint, Chat!Proven, Chat!Overtaken, Chat!Unproven
<1>4. ASSUME NEW s \in DOMAIN store
      PROVE  /\ Chat!Known(t, s)
             /\ Chat!IsWatched(t, s, store[s].model, Chat!Destination(store[s].endpoint))
             /\ \A n \in store[s].counted : calls[n].session = s /\ Chat!IsOfEndpoint(n, store[s])
  <2>1. PICK c, x : c = t.chat.chats[s] /\ x = store[s]
    OBVIOUS
  <2>2. s \in DOMAIN t.chat.chats /\ IsTrueEntry(t, calls, s, x)
    BY <1>2, <2>1 DEF IsTruePair, IsTrueEntry
  <2>3. IsTrueChat(t, calls, stream, s, c)
    BY <1>2, <2>1, <2>2 DEF IsTruePair
  <2>4. /\ c.endpoint # None /\ x.model = c.model /\ x.endpoint = c.endpoint /\ x.proof = c.proof
        /\ \A n \in x.counted : n = c.call /\ c.call # None
    BY <2>1, <2>2 DEF IsTrueEntry, IsCounted
  <2>5. Chat!IsWatched(t, s, x.model, Chat!Destination(x.endpoint))
    BY <2>3, <2>4 DEF IsTrueChat
  <2>6. ASSUME NEW n \in x.counted PROVE calls[n].session = s /\ IsOf(calls, n, x)
    <3>1. n = c.call /\ c.call # None /\ calls[n].session = s
      BY <2>3, <2>4 DEF IsTrueChat
    <3>2. CASE c.dispatched = None
      BY <2>3, <2>4, <3>1, <3>2 DEF IsTrueChat, IsAnnounced, IsOf
    <3>3. CASE c.dispatched # None
      BY <2>3, <2>4, <3>1, <3>3 DEF IsTrueChat, IsSeeded, IsSeededBy, IsOf
    <3> QED
      BY <3>1, <3>2, <3>3
  <2> QED
    BY <1>3, <2>1, <2>2, <2>5, <2>6 DEF Chat!Known
<1>5. ASSUME NEW step \in tracker.calibration
      PROVE  step.chars = calls[step.call].chars /\ Chat!IsOfEndpoint(step.call, step)
  BY <1>2, <1>3 DEF IsTruePair, IsTrueStep
<1> QED
  BY <1>1, <1>4, <1>5 DEF Chat!RatesAreOfTheirEndpoint

----------------------------------------------------------------------------
(* The specification of MCSources, of which these are four parts.          *)

vars == <<part, faults, media, setup, chats, tracking, progress, reads>>
Spec == Init /\ [][Next]_vars

SourcesInv ==
    /\ part = "media" => MediaInv
    /\ part = "setup" => SetupInv
    /\ part = "progress" => ProgressInv
    /\ part = "chat" => ChatInv

\* Each part starts with its invariant.
LEMMA SourcesStart == Init => SourcesInv
BY MediaStarts, SetupStarts, ProgressStarts, ChatStarts DEF Init, Starts, SourcesInv

\* Its own steps keep it, and the others leave it alone.
LEMMA SourcesStep == SourcesInv /\ [Next]_vars => SourcesInv'
<1> SUFFICES ASSUME SourcesInv, [Next]_vars PROVE SourcesInv'
  OBVIOUS
<1>1. CASE MediaSteps
  <2>1. part = "media" /\ part' = part /\ Media!MediaNext /\ MediaInv
    BY <1>1 DEF MediaSteps, SourcesInv
  <2>2. MediaInv'
    BY <2>1, ConfigTypedKept, SlotTypedKept, SnapTypedKept, WorkTypedKept, FramesTypesKept,
       OverIsOverKept, CancelsOnceKept, ShowsCancelledKept, DiscoveredKept, ListsKept, ToldKept
       DEF MediaInv, MediaTypeOK, Cancels, Sources
  <2> QED
    BY <2>1, <2>2 DEF SourcesInv
<1>2. CASE SetupSteps
  <2>1. part = "setup" /\ part' = part /\ Setup!SetupNext /\ SetupInv
    BY <1>2 DEF SetupSteps, SourcesInv
  <2>2. SetupInv'
    BY <2>1, SetupKept
  <2> QED
    BY <2>1, <2>2 DEF SourcesInv
<1>3. CASE ProgressSteps
  <2>1. part = "progress" /\ part' = part /\ Progress!ProgressNext /\ ProgressInv
    BY <1>3 DEF ProgressSteps, SourcesInv
  <2> QED
    BY <2>1, ProgressKept DEF SourcesInv
<1>4. CASE AttributionSteps
  <2>1. UNCHANGED <<part, media, setup>> /\ part \notin {"progress", "chat"}
    BY <1>4 DEF AttributionSteps
  <2> QED
    BY <2>1, MediaStutters, SetupStutters DEF SourcesInv
<1>5. CASE ChatSteps
  <2>1. part = "chat" /\ part' = part /\ Chat!ChatNext /\ ChatInv
    BY <1>5 DEF ChatSteps, SourcesInv
  <2> QED
    BY <2>1, ChatKept DEF SourcesInv
<1>6. CASE UNCHANGED vars
  <2>1. UNCHANGED <<part, media, setup, now, progress, tracking, reads>>
    BY <1>6 DEF vars, chats
  <2> QED
    BY <2>1, MediaStutters, SetupStutters, ProgressStutters, ChatStutters DEF SourcesInv
<1> QED
  BY <1>1, <1>2, <1>3, <1>4, <1>5, <1>6 DEF Next

\* service/media/ and panel/media/: however many frames ask and cancel, and
\* whenever the job ends, the setup changes, caches expire and reads fail, a
\* cancellation the source accepted is not sent again, and no frame that asks
\* after it, or after the source was paused, is shown a job it could cancel.
THEOREM CancellationHolds == Spec => []CancellationIsSound
<1>1. SourcesInv => CancellationIsSound
  BY MediaSafe DEF SourcesInv, CancellationIsSound
<1> QED
  BY SourcesStart, SourcesStep, <1>1, PTL DEF Spec

\* service/companion-setup.ts: however many services set up, of however many
\* versions, and wherever they fail or are killed and the user edits, so long as
\* no two tasks had the lock the configuration names no addon of which a file is
\* missing, the bundle last installed can finish what nobody touched, and what
\* the user made of the files and the configuration is still there.
THEOREM SetupHolds == Spec => []SetupIsSafe
<1>1. SourcesInv => SetupIsSafe
  BY SetupSafe DEF SourcesInv, SetupIsSafe
<1> QED
  BY SourcesStart, SourcesStep, <1>1, PTL DEF Spec

\* bridge/opencode/store.js and service/adapters/splash-progress.ts: however many
\* processes of OpenCode write, crash, are unloaded and fail to write, of however
\* many requests, and however the flights of the reader overlap, are reset and end
\* out of turn, what is shown of a prompt never goes back and is of the only request
\* that was in the files all the while they were read; and a store at rest has left
\* in its file what its streams last said.
THEOREM PromptsAreOfOne == Spec => []ProgressIsOfOne
<1>1. SourcesInv => ProgressIsOfOne
  BY ProgressSafe DEF SourcesInv, ProgressIsOfOne
<1> QED
  BY SourcesStart, SourcesStep, <1>1, PTL DEF Spec

\* bridge/opencode/chat.js: in whatever order announcements, dispatches and output
\* arrive, late, twice or never, and however demand begins, ends and changes, what
\* is published of a chat is tracked and asked for, and every rate and calibration
\* is of output of calls that went to the endpoint it names, but for calls whose
\* own dispatch proved nothing and those the next dispatch overtook.
THEOREM RatesAreTold == Spec => []RatesAreOfTheirEndpoint
<1>1. SourcesInv => RatesAreOfTheirEndpoint
  BY ChatSafe DEF SourcesInv, RatesAreOfTheirEndpoint
<1> QED
  BY SourcesStart, SourcesStep, <1>1, PTL DEF Spec
=============================================================================
