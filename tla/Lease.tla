------------------------------- MODULE Lease -------------------------------
(***************************************************************************)
(* The side-effect lease of the host service, service/core/lease.ts.       *)
(*                                                                         *)
(* Panel frames poll the service; each poll calls Lease.observe, which     *)
(* forgets frames it has not heard from for LEASE_TTL_MS, records the      *)
(* caller, elects the one frame that may write history, deliver toasts and *)
(* so on, and tells the caller whether it is that frame.                   *)
(*                                                                         *)
(* Covered: observe and elect in full, the capacity bound, requests with   *)
(* no frame id or no surface, and what each frame was last told, which it  *)
(* acts on until its next poll.  Two entries of the Map with equal times   *)
(* are ordered by insertion in the code and by choice here.                *)
(***************************************************************************)
EXTENDS Naturals, FiniteSets

CONSTANTS
    Frame,      \* the frame ids, one per loaded panel page
    None,       \* JavaScript's null and undefined
    Capacity,   \* LEASE_FRAMES
    TTL,        \* LEASE_TTL_MS, in ticks of the clock
    MaxNow,     \* bound: the clock stops here
    MaxEpoch    \* bound: no poll is taken once this many handovers happened

Surface == {"page", "panel", "status"}

ASSUME LeaseAssumption ==
    /\ None \notin Frame \cup Surface
    /\ Capacity \in Nat \ {0}
    /\ TTL \in Nat \ {0}
    /\ MaxNow \in Nat
    /\ MaxEpoch \in Nat

VARIABLES
    now,        \* the monotonic clock the server passes to observe
    frames,     \* the Map of frames heard from
    leader,     \* the frame that holds the lease, or None
    epoch,      \* how many times the lease was taken by another frame
    told        \* the lease as each frame last saw it

vars == <<now, frames, leader, epoch, told>>

PRIORITY == [page |-> 3, panel |-> 2, status |-> 1]

FrameInfo == [surface : Surface, firstAt : Nat, seenAt : Nat]
LeaseView == [leader : BOOLEAN, epoch : Nat, yielded : BOOLEAN]

\* A value of the Map: some frames, at most Capacity of them.
IsTable(fs) ==
    /\ DOMAIN fs \subseteq Frame
    /\ fs \in [DOMAIN fs -> FrameInfo]
    /\ IsFiniteSet(DOMAIN fs)
    /\ Cardinality(DOMAIN fs) <= Capacity

Outranks(a, b) == PRIORITY[a.surface] > PRIORITY[b.surface]

----------------------------------------------------------------------------
(* A poll, in the order of the code.                                       *)

\* Mutant: nothing is ever forgotten.
PurgedNever(t) == frames

\* The entries still within the TTL at time t.
Purged(t) ==
    [g \in {h \in DOMAIN frames : /\ t >= frames[h].seenAt
                                  /\ t - frames[h].seenAt < TTL} |-> frames[g]]

\* Mutant: the holder can be the one given up.
IsVictimAny(fs, g) ==
    /\ g \in DOMAIN fs
    /\ \A h \in DOMAIN fs : fs[g].seenAt <= fs[h].seenAt

\* What a full Map gives up for a new frame: the entry seen longest ago that
\* does not hold the lease, or nothing when only the leader is left.
IsVictim(fs, g) ==
    /\ g \in DOMAIN fs
    /\ g # leader
    /\ \A h \in DOMAIN fs \ {leader} : fs[g].seenAt <= fs[h].seenAt

\* The Maps that can remain once there is room for f, or no room to make.
RoomFor(fs, f) ==
    IF f \in DOMAIN fs \/ Cardinality(DOMAIN fs) < Capacity
    THEN {fs}
    ELSE IF DOMAIN fs \subseteq {leader}
         THEN {fs}
         ELSE {[h \in DOMAIN fs \ {g} |-> fs[h]] : g \in {v \in DOMAIN fs : IsVictim(fs, v)}}

\* Enter f, or refresh it, unless it is new and the Map is still full.
Entered(fs, f, s, t) ==
    IF f \in DOMAIN fs \/ Cardinality(DOMAIN fs) < Capacity
    THEN LET info == [surface |-> s,
                      firstAt |-> IF f \in DOMAIN fs THEN fs[f].firstAt ELSE t,
                      seenAt |-> t]
         IN  [g \in DOMAIN fs \cup {f} |-> IF g = f THEN info ELSE fs[g]]
    ELSE fs

\* Mutant: the Map has no capacity.
RecordedUnbounded(f, s, t) ==
    IF f = None \/ s = None
    THEN {Purged(t)}
    ELSE {[g \in DOMAIN Purged(t) \cup {f} |->
              IF g = f THEN [surface |-> s, firstAt |-> t, seenAt |-> t] ELSE Purged(t)[g]]}

\* The Maps a poll by f from surface s can leave behind.
Recorded(f, s, t) ==
    IF f = None \/ s = None
    THEN {Purged(t)}
    ELSE {Entered(fs, f, s, t) : fs \in RoomFor(Purged(t), f)}

\* The strongest entries: highest priority, and the first to arrive among those.
BestOf(fs) ==
    IF DOMAIN fs = {} THEN {None}
    ELSE {b \in DOMAIN fs : \A g \in DOMAIN fs :
             \/ Outranks(fs[b], fs[g])
             \/ ~ Outranks(fs[g], fs[b]) /\ fs[b].firstAt <= fs[g].firstAt}

\* Mutant: the holder keeps the lease for as long as it polls.
KeepsLeaseAlways(fs, b) == leader \in DOMAIN fs

\* The holder keeps the lease unless it is gone or the best entry outranks it.
KeepsLease(fs, b) ==
    /\ leader \in DOMAIN fs
    /\ b = None \/ ~ Outranks(fs[b], fs[leader])

Winner(fs, b) == IF KeepsLease(fs, b) THEN leader ELSE b

\* Mutant: only a handover between two frames counts.
EpochAfterHandover(winner) ==
    IF winner # None /\ leader # None /\ winner # leader THEN epoch + 1 ELSE epoch

\* A frame taking the lease from another, or from nobody, opens an epoch.
EpochAfter(winner) ==
    IF winner # None /\ winner # leader THEN epoch + 1 ELSE epoch

\* What observe returns to frame f polling from surface s.
ViewOf(f, s, fs, winner, e) ==
    [leader  |-> f # None /\ f = winner,
     epoch   |-> e,
     yielded |-> /\ s # None /\ f # winner /\ winner # None
                 /\ PRIORITY[fs[winner].surface] > PRIORITY[s]]

Observe(f, s) ==
    /\ epoch < MaxEpoch
    /\ \E fs \in Recorded(f, s, now) : \E b \in BestOf(fs) :
          LET winner == Winner(fs, b)
              e      == EpochAfter(winner)
          IN  /\ frames' = fs
              /\ leader' = winner
              /\ epoch' = e
              /\ told' = IF f = None THEN told
                         ELSE [told EXCEPT ![f] = ViewOf(f, s, fs, winner, e)]
    /\ UNCHANGED now

Tick ==
    /\ now < MaxNow
    /\ now' = now + 1
    /\ UNCHANGED <<frames, leader, epoch, told>>

Init ==
    /\ now = 0
    /\ frames = [g \in {} |-> None]
    /\ leader = None
    /\ epoch = 0
    /\ told = [f \in Frame |-> [leader |-> FALSE, epoch |-> 0, yielded |-> FALSE]]

Next ==
    \/ Tick
    \/ \E f \in Frame \cup {None}, s \in Surface \cup {None} : Observe(f, s)

Spec == Init /\ [][Next]_vars

----------------------------------------------------------------------------
\* The types, and the bound the class keeps on its Map.
TypeOK ==
    /\ now \in Nat
    /\ IsTable(frames)
    /\ leader \in Frame \cup {None}
    /\ epoch \in Nat
    /\ told \in [Frame -> LeaseView]

\* Two frames never act as the leader of one epoch, however stale the answer
\* each of them acts on: a write or a toast stamped with an epoch has one author.
EpochFencesLeaders ==
    \A f, g \in Frame :
        told[f].leader /\ told[g].leader /\ told[f].epoch = told[g].epoch => f = g

\* The lease is never held by a forgotten frame, nor by one that another
\* recorded frame outranks, and it is free only when no frame is recorded.
LeaderIsTopFrame ==
    /\ leader = None => DOMAIN frames = {}
    /\ leader # None => /\ leader \in DOMAIN frames
                        /\ \A g \in DOMAIN frames : ~ Outranks(frames[g], frames[leader])

\* A leader loses the lease only by staying silent for the TTL or to a frame of
\* higher priority; a full Map never costs it the lease.
LeaderKeepsLease ==
    [][leader # None /\ leader' # leader
         => \/ now - frames[leader].seenAt >= TTL
            \/ /\ {leader, leader'} \subseteq DOMAIN frames'
               /\ Outranks(frames'[leader'], frames'[leader])]_vars

\* Whoever leads after a poll has itself polled within the TTL: a frame that was
\* closed cannot block the others longer than that.
PollFindsLiveLeader ==
    [][\A f \in Frame, s \in Surface :
         Observe(f, s) => leader' # None /\ now - frames'[leader'].seenAt < TTL]_vars

\* What the answers say of the lease, without the surfaces.
Term == INSTANCE Terms WITH
    holder  <- leader,
    term    <- epoch,
    told    <- [f \in Frame |-> [leader |-> told[f].leader, term |-> told[f].epoch]],
    MaxTerm <- MaxEpoch

\* Evictions, expiry, priorities and the clock are beyond what a frame can tell:
\* the lease is a sequence of terms with one holder each (core/lease.ts).
LeaseIsTerms == Term!TermsSpec
============================================================================
