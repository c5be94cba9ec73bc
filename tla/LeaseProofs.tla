---------------------------- MODULE LeaseProofs ----------------------------
(***************************************************************************)
(* What Lease promises for every number of frames, capacity and TTL.       *)
(*                                                                         *)
(* The fence on epochs is not inductive alone: two views of one epoch can  *)
(* only be told apart by knowing that a view of the current epoch belongs  *)
(* to the current holder (ViewsFollowHolder).  LeaseInv adds that, and     *)
(* that no entry was seen in the future, to the properties of Lease.       *)
(***************************************************************************)
EXTENDS Lease, FiniteSetTheorems, TLAPS

\* No frame was told of an epoch still to come, and whoever was told that it
\* leads the current epoch is the holder, unless nobody is.
ViewsFollowHolder ==
    \A f \in Frame :
        told[f].leader => /\ told[f].epoch <= epoch
                          /\ told[f].epoch = epoch => leader \in {f, None}

SeenInThePast == \A g \in DOMAIN frames : frames[g].seenAt <= now

LeaseInv ==
    /\ TypeOK
    /\ SeenInThePast
    /\ ViewsFollowHolder
    /\ EpochFencesLeaders
    /\ LeaderIsTopFrame

----------------------------------------------------------------------------
(* The operations on the Map.                                              *)

\* Forgetting leaves a smaller table whose entries are live and unchanged.
LEMMA PurgedFacts ==
    ASSUME TypeOK
    PROVE  /\ IsTable(Purged(now))
           /\ DOMAIN Purged(now) \subseteq DOMAIN frames
           /\ \A g \in DOMAIN Purged(now) :
                 /\ Purged(now)[g] = frames[g]
                 /\ now >= frames[g].seenAt
                 /\ now - frames[g].seenAt < TTL
           /\ \A g \in DOMAIN frames \ DOMAIN Purged(now) :
                 ~ (now >= frames[g].seenAt /\ now - frames[g].seenAt < TTL)
<1> DEFINE live == {h \in DOMAIN frames : /\ now >= frames[h].seenAt
                                         /\ now - frames[h].seenAt < TTL}
<1>1. DOMAIN Purged(now) = live
  BY DEF Purged
<1>2. /\ live \subseteq DOMAIN frames
      /\ IsFiniteSet(live)
      /\ Cardinality(live) <= Cardinality(DOMAIN frames)
  BY FS_Subset DEF TypeOK, IsTable
<1>3. Cardinality(live) \in Nat /\ Cardinality(DOMAIN frames) \in Nat
  BY <1>2, FS_CardinalityType DEF TypeOK, IsTable
<1>4. \A g \in live : Purged(now)[g] = frames[g] /\ frames[g] \in FrameInfo
  BY DEF Purged, TypeOK, IsTable
<1>5. Cardinality(live) <= Capacity
  BY <1>2, <1>3, LeaseAssumption DEF TypeOK, IsTable
<1>6. Purged(now) \in [live -> FrameInfo]
  BY <1>4 DEF Purged
<1>7. IsTable(Purged(now))
  BY <1>1, <1>2, <1>5, <1>6 DEF IsTable, TypeOK
<1> QED
  BY <1>1, <1>2, <1>4, <1>7

\* Making room removes no more than one entry, and never the holder's.
LEMMA RoomForFacts ==
    ASSUME NEW fs, IsTable(fs), NEW f \in Frame, NEW room \in RoomFor(fs, f)
    PROVE  /\ IsTable(room)
           /\ DOMAIN room \subseteq DOMAIN fs
           /\ \A g \in DOMAIN room : room[g] = fs[g]
           /\ leader \in DOMAIN fs => leader \in DOMAIN room
<1>1. CASE room = fs
  BY <1>1
<1>2. CASE room # fs
  <2>1. PICK v \in DOMAIN fs : IsVictim(fs, v) /\ room = [h \in DOMAIN fs \ {v} |-> fs[h]]
    BY <1>2 DEF RoomFor
  <2>2. DOMAIN room = DOMAIN fs \ {v}
    BY <2>1
  <2>3. /\ IsFiniteSet(DOMAIN room)
        /\ Cardinality(DOMAIN room) = Cardinality(DOMAIN fs) - 1
    BY <2>2, FS_RemoveElement DEF IsTable
  <2>4. Cardinality(DOMAIN fs) \in Nat
    BY FS_CardinalityType DEF IsTable
  <2>5. Cardinality(DOMAIN room) <= Capacity
    BY <2>3, <2>4, LeaseAssumption DEF IsTable
  <2>6. room \in [DOMAIN room -> FrameInfo]
    BY <2>1, <2>2 DEF IsTable
  <2>7. leader # v
    BY <2>1 DEF IsVictim
  <2> QED
    BY <2>1, <2>2, <2>3, <2>5, <2>6, <2>7 DEF IsTable
<1> QED
  BY <1>1, <1>2

\* Entering a frame keeps the table within its capacity and leaves it nonempty.
LEMMA EnteredFacts ==
    ASSUME NEW fs, IsTable(fs), NEW f \in Frame, NEW s \in Surface, NEW t \in Nat
    PROVE  /\ IsTable(Entered(fs, f, s, t))
           /\ DOMAIN Entered(fs, f, s, t) # {}
           /\ DOMAIN fs \subseteq DOMAIN Entered(fs, f, s, t)
           /\ \A g \in DOMAIN Entered(fs, f, s, t) :
                 \/ g = f /\ Entered(fs, f, s, t)[g].seenAt = t
                 \/ g \in DOMAIN fs /\ Entered(fs, f, s, t)[g] = fs[g]
<1> DEFINE out == Entered(fs, f, s, t)
<1>0. Cardinality(DOMAIN fs) \in Nat
  BY FS_CardinalityType DEF IsTable
<1>1. CASE f \in DOMAIN fs \/ Cardinality(DOMAIN fs) < Capacity
  <2> DEFINE info == [surface |-> s,
                      firstAt |-> IF f \in DOMAIN fs THEN fs[f].firstAt ELSE t,
                      seenAt |-> t]
  <2>1. out = [g \in DOMAIN fs \cup {f} |-> IF g = f THEN info ELSE fs[g]]
    BY <1>1 DEF Entered
  <2>2. info \in FrameInfo
    BY DEF FrameInfo, IsTable
  <2>3. DOMAIN out = DOMAIN fs \cup {f}
    BY <2>1
  <2>4. /\ IsFiniteSet(DOMAIN out)
        /\ Cardinality(DOMAIN out) = IF f \in DOMAIN fs THEN Cardinality(DOMAIN fs)
                                      ELSE Cardinality(DOMAIN fs) + 1
    BY <2>3, FS_AddElement DEF IsTable
  <2>5. Cardinality(DOMAIN out) <= Capacity
    BY <1>0, <1>1, <2>4, LeaseAssumption DEF IsTable
  <2>6. out \in [DOMAIN out -> FrameInfo]
    BY <2>1, <2>2, <2>3 DEF IsTable
  <2>7. \A g \in DOMAIN out : \/ g = f /\ out[g].seenAt = t
                              \/ g \in DOMAIN fs /\ out[g] = fs[g]
    BY <2>1, <2>3
  <2> HIDE DEF out, info
  <2> QED
    BY <2>3, <2>4, <2>5, <2>6, <2>7 DEF IsTable, out
<1>2. CASE ~ (f \in DOMAIN fs \/ Cardinality(DOMAIN fs) < Capacity)
  <2>1. out = fs
    BY <1>2 DEF Entered
  <2>2. DOMAIN fs # {}
    BY <1>2, FS_EmptySet, LeaseAssumption
  <2> QED
    BY <2>1, <2>2
<1> QED
  BY <1>1, <1>2

\* What any poll leaves of the Map.
LEMMA RecordedFacts ==
    ASSUME TypeOK,
           NEW f \in Frame \cup {None}, NEW s \in Surface \cup {None},
           NEW fs \in Recorded(f, s, now)
    PROVE  /\ IsTable(fs)
           /\ \A g \in DOMAIN fs : /\ fs[g].seenAt <= now
                                   /\ now - fs[g].seenAt < TTL
           /\ leader \in DOMAIN Purged(now) => leader \in DOMAIN fs
           /\ f \in Frame /\ s \in Surface => DOMAIN fs # {}
<1>0. /\ IsTable(Purged(now))
      /\ \A g \in DOMAIN Purged(now) :
            Purged(now)[g].seenAt <= now /\ now - Purged(now)[g].seenAt < TTL
  <2>1. \A g \in DOMAIN Purged(now) : frames[g] \in FrameInfo
    BY PurgedFacts DEF TypeOK, IsTable
  <2> QED
    BY <2>1, PurgedFacts DEF TypeOK, FrameInfo
<1>1. CASE f = None \/ s = None
  <2>1. fs = Purged(now)
    BY <1>1 DEF Recorded
  <2> QED
    BY <1>0, <1>1, <2>1, LeaseAssumption
<1>2. CASE f # None /\ s # None
  <2>1. PICK room \in RoomFor(Purged(now), f) : fs = Entered(room, f, s, now)
    BY <1>2 DEF Recorded
  <2>2. f \in Frame /\ s \in Surface /\ now \in Nat
    BY <1>2 DEF TypeOK
  <2>3. /\ IsTable(room)
        /\ DOMAIN room \subseteq DOMAIN Purged(now)
        /\ \A g \in DOMAIN room : room[g] = Purged(now)[g]
        /\ leader \in DOMAIN Purged(now) => leader \in DOMAIN room
    BY <1>0, <2>1, <2>2, RoomForFacts
  <2>4. /\ IsTable(fs)
        /\ DOMAIN fs # {}
        /\ DOMAIN room \subseteq DOMAIN fs
        /\ \A g \in DOMAIN fs : \/ g = f /\ fs[g].seenAt = now
                                \/ g \in DOMAIN room /\ fs[g] = room[g]
    BY <2>1, <2>2, <2>3, EnteredFacts
  <2>5. ASSUME NEW g \in DOMAIN fs
        PROVE  fs[g].seenAt <= now /\ now - fs[g].seenAt < TTL
    BY <1>0, <2>2, <2>3, <2>4, LeaseAssumption
  <2> QED
    BY <2>3, <2>4, <2>5
<1> QED
  BY <1>1, <1>2

----------------------------------------------------------------------------
(* The steps.                                                              *)

\* What a poll does to the lease, whatever it does to the Map.
LEMMA ObserveFacts ==
    ASSUME LeaseInv,
           NEW f \in Frame \cup {None}, NEW s \in Surface \cup {None},
           Observe(f, s)
    PROVE  /\ IsTable(frames')
           /\ \A g \in DOMAIN frames' : /\ frames'[g].seenAt <= now
                                        /\ now - frames'[g].seenAt < TTL
           /\ leader \in DOMAIN Purged(now) => leader \in DOMAIN frames'
           /\ leader' = None => DOMAIN frames' = {}
           /\ f \in Frame /\ s \in Surface => leader' # None
           /\ leader' # None =>
                 /\ leader' \in DOMAIN frames'
                 /\ \A g \in DOMAIN frames' : ~ Outranks(frames'[g], frames'[leader'])
           /\ leader' # leader /\ leader \in DOMAIN frames' =>
                 leader' # None /\ Outranks(frames'[leader'], frames'[leader])
           /\ epoch' = EpochAfter(leader')
           /\ \E view \in LeaseView :
                 /\ view.epoch = epoch'
                 /\ view.leader <=> f # None /\ f = leader'
                 /\ told' = IF f = None THEN told ELSE [told EXCEPT ![f] = view]
           /\ now' = now
<1>0. PICK fs \in Recorded(f, s, now) : \E b \in BestOf(fs) :
         /\ frames' = fs
         /\ leader' = Winner(fs, b)
         /\ epoch' = EpochAfter(Winner(fs, b))
         /\ told' = IF f = None THEN told
                    ELSE [told EXCEPT ![f] = ViewOf(f, s, fs, Winner(fs, b), EpochAfter(Winner(fs, b)))]
         /\ now' = now
  BY DEF Observe
<1>1. PICK b \in BestOf(fs) :
         /\ frames' = fs
         /\ leader' = Winner(fs, b)
         /\ epoch' = EpochAfter(Winner(fs, b))
         /\ told' = IF f = None THEN told
                    ELSE [told EXCEPT ![f] = ViewOf(f, s, fs, Winner(fs, b), EpochAfter(Winner(fs, b)))]
         /\ now' = now
  BY <1>0
<1>2. /\ IsTable(fs)
      /\ \A g \in DOMAIN fs : fs[g].seenAt <= now /\ now - fs[g].seenAt < TTL
      /\ leader \in DOMAIN Purged(now) => leader \in DOMAIN fs
      /\ f \in Frame /\ s \in Surface => DOMAIN fs # {}
  BY RecordedFacts DEF LeaseInv
<1>3. /\ None \notin DOMAIN fs
      /\ \A g \in DOMAIN fs : fs[g].surface \in Surface
  BY <1>2, LeaseAssumption DEF IsTable, FrameInfo
<1>4. \A x \in Surface : PRIORITY[x] \in Nat
  BY DEF PRIORITY, Surface
<1>5. CASE DOMAIN fs = {}
  <2>1. b = None /\ Winner(fs, b) = None
    BY <1>5, <1>1 DEF BestOf, Winner, KeepsLease
  <2>2. ViewOf(f, s, fs, Winner(fs, b), EpochAfter(Winner(fs, b))) \in LeaseView
    BY <2>1 DEF ViewOf, LeaseView, EpochAfter, LeaseInv, TypeOK
  <2> QED
    BY <1>1, <1>2, <1>5, <2>1, <2>2 DEF ViewOf
<1>6. CASE DOMAIN fs # {}
  <2>1. /\ b \in DOMAIN fs
        /\ \A g \in DOMAIN fs : ~ Outranks(fs[g], fs[b])
    BY <1>3, <1>4, <1>6 DEF BestOf, Outranks
  <2>2. CASE KeepsLease(fs, b)
    <3>1. Winner(fs, b) = leader /\ leader \in DOMAIN fs /\ ~ Outranks(fs[b], fs[leader])
      BY <2>1, <2>2, <1>3 DEF Winner, KeepsLease
    <3>2. \A g \in DOMAIN fs : ~ Outranks(fs[g], fs[leader])
      BY <1>3, <1>4, <2>1, <3>1 DEF Outranks
    <3>3. ViewOf(f, s, fs, Winner(fs, b), EpochAfter(Winner(fs, b))) \in LeaseView
      BY <3>1 DEF ViewOf, LeaseView, EpochAfter, LeaseInv, TypeOK
    <3> QED
      BY <1>1, <1>2, <1>3, <1>6, <3>1, <3>2, <3>3 DEF ViewOf
  <2>3. CASE ~ KeepsLease(fs, b)
    <3>1. /\ Winner(fs, b) = b
          /\ b # None
          /\ leader \in DOMAIN fs => Outranks(fs[b], fs[leader])
      BY <2>1, <2>3, <1>3 DEF Winner, KeepsLease
    <3>2. ViewOf(f, s, fs, Winner(fs, b), EpochAfter(Winner(fs, b))) \in LeaseView
      BY <3>1 DEF ViewOf, LeaseView, EpochAfter, LeaseInv, TypeOK
    <3> QED
      BY <1>1, <1>2, <1>3, <1>6, <2>1, <3>1, <3>2 DEF ViewOf
  <2> QED
    BY <2>2, <2>3
<1> QED
  BY <1>5, <1>6

LEMMA InitInv == Init => LeaseInv
<1> SUFFICES ASSUME Init PROVE LeaseInv
  OBVIOUS
<1>1. DOMAIN frames = {}
  BY DEF Init
<1>2. IsTable(frames)
  BY <1>1, FS_EmptySet, LeaseAssumption DEF IsTable, Init
<1>3. TypeOK
  BY <1>2 DEF TypeOK, Init, LeaseView
<1> QED
  BY <1>1, <1>3, LeaseAssumption
  DEF LeaseInv, SeenInThePast, ViewsFollowHolder, EpochFencesLeaders, LeaderIsTopFrame, Init

LEMMA ObserveInv ==
    ASSUME LeaseInv,
           NEW f \in Frame \cup {None}, NEW s \in Surface \cup {None},
           Observe(f, s)
    PROVE  LeaseInv'
<1>1. PICK view \in LeaseView :
         /\ view.epoch = epoch'
         /\ view.leader <=> f # None /\ f = leader'
         /\ told' = IF f = None THEN told ELSE [told EXCEPT ![f] = view]
  BY ObserveFacts
<1>2. /\ epoch \in Nat /\ leader \in Frame \cup {None}
      /\ told \in [Frame -> LeaseView] /\ now \in Nat
  BY DEF LeaseInv, TypeOK
<1>3. /\ epoch' = EpochAfter(leader')
      /\ epoch' \in Nat
      /\ epoch <= epoch'
      /\ leader' # None /\ leader' # leader => epoch' = epoch + 1
      /\ epoch' = epoch => leader' \in {leader, None}
  <2>1. epoch' = EpochAfter(leader')
    BY ObserveFacts
  <2> QED
    BY <1>2, <2>1 DEF EpochAfter
<1>4. leader' \in Frame \cup {None}
  BY ObserveFacts DEF IsTable
<1>5. TypeOK'
  <2>1. told' \in [Frame -> LeaseView]
    BY <1>1, <1>2
  <2>2. IsTable(frames') /\ now' = now
    BY ObserveFacts
  <2> QED
    BY <1>2, <1>3, <1>4, <2>1, <2>2 DEF TypeOK, IsTable
<1>6. SeenInThePast'
  BY ObserveFacts DEF SeenInThePast
<1>7. \A g \in Frame : told'[g] = told[g] \/ (g = f /\ told'[g] = view)
  BY <1>1, <1>2
<1>8. \A g \in Frame : told[g].epoch \in Nat
  BY <1>2 DEF LeaseView
<1>9. ViewsFollowHolder'
  <2> SUFFICES ASSUME NEW g \in Frame, told'[g].leader
               PROVE  /\ told'[g].epoch <= epoch'
                      /\ told'[g].epoch = epoch' => leader' \in {g, None}
    BY DEF ViewsFollowHolder
  <2>1. CASE g = f /\ told'[g] = view
    BY <1>1, <1>3, <1>7, <2>1
  <2>2. CASE told'[g] = told[g]
    BY <1>2, <1>3, <1>8, <2>2 DEF LeaseInv, ViewsFollowHolder
  <2> QED
    BY <1>7, <2>1, <2>2
<1>10. EpochFencesLeaders'
  <2> SUFFICES ASSUME NEW g \in Frame, NEW h \in Frame, g # h,
                      told'[g].leader, told'[h].leader,
                      told'[g].epoch = told'[h].epoch
               PROVE  FALSE
    BY DEF EpochFencesLeaders
  <2>1. ASSUME NEW a \in Frame, NEW c \in Frame, a # c,
               a = f, told'[a] = view, told'[c] = told[c],
               view.leader, told[c].leader, view.epoch = told[c].epoch
        PROVE  FALSE
    <3>1. leader' = a /\ a # None
      BY <2>1, <1>1, LeaseAssumption
    <3>2. told[c].epoch = epoch' /\ told[c].epoch <= epoch
      BY <2>1, <1>1 DEF LeaseInv, ViewsFollowHolder
    <3>3. epoch' = epoch /\ leader \in {c, None}
      BY <2>1, <3>2, <1>2, <1>3, <1>8 DEF LeaseInv, ViewsFollowHolder
    <3> QED
      BY <2>1, <3>1, <3>3, <1>2, <1>3
  <2>2. CASE told'[g] = told[g] /\ told'[h] = told[h]
    BY <2>2 DEF LeaseInv, EpochFencesLeaders
  <2>3. CASE g = f /\ told'[g] = view
    BY <1>7, <2>1, <2>3
  <2>4. CASE h = f /\ told'[h] = view
    BY <1>7, <2>1, <2>4
  <2> QED
    BY <1>7, <2>2, <2>3, <2>4
<1>11. LeaderIsTopFrame'
  BY ObserveFacts DEF LeaderIsTopFrame, Outranks
<1> QED
  BY <1>5, <1>6, <1>9, <1>10, <1>11 DEF LeaseInv

LEMMA NextInv == LeaseInv /\ [Next]_vars => LeaseInv'
<1> SUFFICES ASSUME LeaseInv, [Next]_vars PROVE LeaseInv'
  OBVIOUS
<1>1. CASE Tick
  BY <1>1 DEF Tick, LeaseInv, TypeOK, IsTable, SeenInThePast, ViewsFollowHolder,
              EpochFencesLeaders, LeaderIsTopFrame, Outranks, FrameInfo
<1>2. CASE \E f \in Frame \cup {None}, s \in Surface \cup {None} : Observe(f, s)
  BY <1>2, ObserveInv
<1>3. CASE UNCHANGED vars
  BY <1>3 DEF vars, LeaseInv, TypeOK, IsTable, SeenInThePast, ViewsFollowHolder,
              EpochFencesLeaders, LeaderIsTopFrame, Outranks
<1> QED
  BY <1>1, <1>2, <1>3 DEF Next

\* LeaseInv holds in every reachable state.
THEOREM LeaseInvariant == Spec => []LeaseInv
BY InitInv, NextInv, PTL DEF Spec

----------------------------------------------------------------------------
(* The results.                                                            *)

\* Types, and a Map that never outgrows its capacity.
THEOREM TypeCorrect == Spec => []TypeOK
<1>1. LeaseInv => TypeOK
  BY DEF LeaseInv
<1> QED
  BY <1>1, LeaseInvariant, PTL

\* No epoch has two leaders, however stale the answers frames act on.
THEOREM EpochFence == Spec => []EpochFencesLeaders
<1>1. LeaseInv => EpochFencesLeaders
  BY DEF LeaseInv
<1> QED
  BY <1>1, LeaseInvariant, PTL

\* The holder is recorded and no recorded frame outranks it.
THEOREM LeaderOnTop == Spec => []LeaderIsTopFrame
<1>1. LeaseInv => LeaderIsTopFrame
  BY DEF LeaseInv
<1> QED
  BY <1>1, LeaseInvariant, PTL

\* Only silence or a higher priority takes the lease away.
THEOREM LeaseIsKept == Spec => LeaderKeepsLease
<1> DEFINE A == leader # None /\ leader' # leader
                  => \/ now - frames[leader].seenAt >= TTL
                     \/ /\ {leader, leader'} \subseteq DOMAIN frames'
                        /\ Outranks(frames'[leader'], frames'[leader])
<1>1. LeaseInv /\ [Next]_vars => [A]_vars
  <2> SUFFICES ASSUME LeaseInv, Next, leader # None, leader' # leader
               PROVE  \/ now - frames[leader].seenAt >= TTL
                      \/ /\ {leader, leader'} \subseteq DOMAIN frames'
                         /\ Outranks(frames'[leader'], frames'[leader])
    OBVIOUS
  <2>1. PICK f \in Frame \cup {None}, s \in Surface \cup {None} : Observe(f, s)
    BY DEF Next, Tick
  <2>2. CASE leader \in DOMAIN frames'
    BY <2>1, <2>2, ObserveFacts
  <2>3. CASE leader \notin DOMAIN frames'
    <3>1. leader \in DOMAIN frames \ DOMAIN Purged(now)
      BY <2>1, <2>3, ObserveFacts DEF LeaseInv, LeaderIsTopFrame
    <3>2. ~ (now >= frames[leader].seenAt /\ now - frames[leader].seenAt < TTL)
      BY <3>1, PurgedFacts DEF LeaseInv
    <3>3. frames[leader].seenAt \in Nat /\ now \in Nat /\ frames[leader].seenAt <= now
      BY <3>1 DEF LeaseInv, TypeOK, IsTable, FrameInfo, SeenInThePast
    <3> QED
      BY <3>2, <3>3, LeaseAssumption
  <2> QED
    BY <2>2, <2>3
<1> QED
  BY <1>1, LeaseInvariant, PTL DEF Spec, LeaderKeepsLease

\* A closed frame never keeps the lease from one that polls.
THEOREM LiveLeaderFound == Spec => PollFindsLiveLeader
<1> DEFINE A == \A f \in Frame, s \in Surface :
                   Observe(f, s) => leader' # None /\ now - frames'[leader'].seenAt < TTL
<1>1. LeaseInv /\ [Next]_vars => [A]_vars
  <2> SUFFICES ASSUME LeaseInv, NEW f \in Frame, NEW s \in Surface, Observe(f, s)
               PROVE  leader' # None /\ now - frames'[leader'].seenAt < TTL
    OBVIOUS
  <2> QED
    BY ObserveFacts
<1> QED
  BY <1>1, LeaseInvariant, PTL DEF Spec, PollFindsLiveLeader

\* Every answer of observe is an answer of the abstract terms: a poll names the
\* term that follows from who held the lease and who holds it now, and nothing
\* else about the table, the clock and the surfaces shows.
THEOREM LeaseImplementsTerms == Spec => LeaseIsTerms
<1>1. Init => Term!TermsInit
  BY DEF Init, Term!TermsInit
<1>2. LeaseInv /\ [Next]_vars
        => [\E f \in Frame \cup {None} : Term!Answer(f)]_(Term!termVars)
  <2> SUFFICES ASSUME LeaseInv, [Next]_vars
               PROVE  [\E f \in Frame \cup {None} : Term!Answer(f)]_(Term!termVars)
    OBVIOUS
  <2>1. CASE Tick \/ UNCHANGED vars
    BY <2>1 DEF Tick, vars, Term!termVars
  <2>2. ASSUME NEW f \in Frame \cup {None}, NEW s \in Surface \cup {None}, Observe(f, s)
        PROVE  Term!Answer(f)
    <3>1. PICK fs \in Recorded(f, s, now) : \E b \in BestOf(fs) :
             /\ leader' = Winner(fs, b)
             /\ epoch' = EpochAfter(Winner(fs, b))
             /\ told' = IF f = None THEN told
                        ELSE [told EXCEPT ![f] =
                                 ViewOf(f, s, fs, Winner(fs, b), EpochAfter(Winner(fs, b)))]
      BY <2>2 DEF Observe
    <3>2. leader' \in Frame \cup {None}
      BY <2>2, ObserveInv DEF LeaseInv, TypeOK
    <3>3. epoch < MaxEpoch
      BY <2>2 DEF Observe
    <3>4. epoch' = IF leader' # None /\ leader' # leader THEN epoch + 1 ELSE epoch
      BY <3>1 DEF EpochAfter
    <3> DEFINE seen  == [g \in Frame |-> [leader |-> told[g].leader, term |-> told[g].epoch]]
               seen2 == [g \in Frame |-> [leader |-> told'[g].leader, term |-> told'[g].epoch]]
    <3>5. seen2 = IF f = None THEN seen
                 ELSE [seen EXCEPT ![f] = [leader |-> f = leader', term |-> epoch']]
      <4>1. CASE f = None
        BY <3>1, <4>1
      <4>2. CASE f # None
        <5>1. /\ f \in Frame
              /\ told'[f].leader = (f = leader')
              /\ told'[f].epoch = epoch'
              /\ \A g \in Frame \ {f} : told'[g] = told[g]
          BY <3>1, <4>2 DEF ViewOf, LeaseInv, TypeOK
        <5> QED
          BY <5>1, <4>2
      <4> QED
        BY <4>1, <4>2
    <3> QED
      BY <3>2, <3>3, <3>4, <3>5 DEF Term!Answer
  <2> QED
    BY <2>1, <2>2 DEF Next
<1> QED
  BY <1>1, <1>2, LeaseInvariant, PTL DEF Spec, LeaseIsTerms, Term!TermsSpec
============================================================================
