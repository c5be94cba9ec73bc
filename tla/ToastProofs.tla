----------------------------- MODULE ToastProofs -----------------------------
(***************************************************************************)
(* What the alert book and the frames promise, for every number of frames, *)
(* slots, alerts' rules and requests, and however late those are served.   *)
(*                                                                         *)
(* The book keeps BookInv through a reading (EvaluatedJudges), which is a  *)
(* sequence of moves on single tracks (Moves), gaps and evictions.  The    *)
(* answer decides about toasts (OfferedInv): the limits and the numbers.   *)
(* A frame then relates what it remembers to the book (IsShown), and the   *)
(* terms of the lease say who led (OneLeads).                              *)
(***************************************************************************)
EXTENDS Toasts, WellFoundedInduction, TLAPS

----------------------------------------------------------------------------
(* The book.                                                               *)

Tracks == [Owner -> [Alert -> Track]]

IsEpisodes(e) ==
    /\ e = [n \in DOMAIN e |-> e[n]]
    /\ DOMAIN e \subseteq Nat \ {0}
    /\ \A n \in DOMAIN e : e[n] \in Episode

IsRuntime(r) ==
    /\ r = [lastAt |-> r.lastAt, behind |-> r.behind, alive |-> r.alive, loaded |-> r.loaded, unloaded |-> r.unloaded]
    /\ r.lastAt \in Int /\ r.behind \in Nat

IsRecord(b) ==
    b = [tracks |-> b.tracks, runtimes |-> b.runtimes, hostAt |-> b.hostAt, segmentAt |-> b.segmentAt,
         swap |-> b.swap, episodes |-> b.episodes, log |-> b.log, opened |-> b.opened,
         granted |-> b.granted, dropped |-> b.dropped, lastToast |-> b.lastToast,
         toastSeq |-> b.toastSeq, forgotten |-> b.forgotten]

\* Typed as far as the proofs need it.
IsBook(b) ==
    /\ IsRecord(b)
    /\ b.tracks \in Tracks
    /\ IsEpisodes(b.episodes)
    /\ b.opened \in Nat
    /\ DOMAIN b.runtimes \subseteq Key
    /\ b.runtimes = [k \in DOMAIN b.runtimes |-> b.runtimes[k]]
    /\ \A k \in DOMAIN b.runtimes : IsRuntime(b.runtimes[k])
    /\ b.hostAt \in Int \cup {None}
    /\ b.forgotten \subseteq Key

\* A change of tracks and episodes leaves the rest alone.
Same(b, c) ==
    /\ c.runtimes = b.runtimes /\ c.hostAt = b.hostAt /\ c.forgotten = b.forgotten
    /\ c.granted = b.granted /\ c.dropped = b.dropped
    /\ c.lastToast = b.lastToast /\ c.toastSeq = b.toastSeq

USE DEF Host

\* The blank track is a track.
LEMMA BlankIsTrack == blank \in Track
BY DEF blank, Track


\* A book with other tracks and episodes is still one.
LEMMA SameIsBook ==
    ASSUME NEW b, NEW c, IsBook(b), IsRecord(c), Same(b, c),
           c.tracks \in Tracks, IsEpisodes(c.episodes), c.opened \in Nat
    PROVE  IsBook(c)
BY DEF IsBook, Same

\* What setting one track does.
LEMMA TrackSet ==
    ASSUME NEW b, IsBook(b), NEW o \in Owner, NEW id \in Alert, NEW t \in Track,
           NEW c, c = WithTrack(b, o, id, t)
    PROVE  /\ IsBook(c) /\ Same(b, c)
           /\ c.tracks = [b.tracks EXCEPT ![o][id] = t]
           /\ c.episodes = b.episodes /\ c.opened = b.opened
<1>1. c.tracks = [b.tracks EXCEPT ![o][id] = t]
  BY DEF IsBook, WithTrack, IsRecord
<1>2. /\ Same(b, c) /\ c.episodes = b.episodes /\ c.opened = b.opened
  BY DEF IsBook, Same, WithTrack, IsRecord
<1>3. IsRecord(c)
  BY DEF IsBook, WithTrack, IsRecord
<1>4. c.tracks \in Tracks
  BY <1>1 DEF Tracks, IsBook
<1>. QED
  BY <1>1, <1>2, <1>3, <1>4, SameIsBook DEF IsBook

Known(b) == {o \in Owner : IF o = Host THEN b.hostAt # None ELSE o \in DOMAIN b.runtimes}

\* A time of an owner, if it is one, is no later than the last judgement of it.
Upto(b, o, t) == t # None => o \in Known(b) /\ t <= LastAt(b, o)

\* The episode a track refers to is its own and open.
TracksPoint(b) ==
    \A o \in Owner, id \in Alert :
        LET n == b.tracks[o][id].episode
        IN  n # None => /\ n \in DOMAIN b.episodes
                        /\ b.episodes[n].owner = o /\ b.episodes[n].id = id
                        /\ b.episodes[n].until = None

\* An open episode is the one its track refers to.
OpenAreTracked(b) ==
    \A n \in DOMAIN b.episodes :
        LET e == b.episodes[n]
        IN  /\ n <= b.opened
            /\ e.id \in AlertOf(e.owner)
            /\ e.until = None => b.tracks[e.owner][e.id].episode = n
            /\ e.until # None => e.since <= e.until

\* No time is past the last judgement of its owner, and what ended did so before
\* the present onset: but of slots that were evicted, whose time is forgotten.
Timely(b) ==
    /\ \A o \in Owner \ b.forgotten, id \in Alert :
          Upto(b, o, b.tracks[o][id].onset) /\ Upto(b, o, b.tracks[o][id].off)
    /\ \A n \in DOMAIN b.episodes :
          LET e     == b.episodes[n]
              onset == b.tracks[e.owner][e.id].onset
          IN  e.owner \notin b.forgotten =>
                  /\ Upto(b, e.owner, e.since) /\ Upto(b, e.owner, e.until)
                  /\ e.until # None /\ onset # None => e.until <= onset

\* The episodes of an alert of one owner follow each other.
InOrder(b) ==
    \A m, n \in DOMAIN b.episodes :
        LET x == b.episodes[m]
            y == b.episodes[n]
        IN  m < n /\ x.id = y.id /\ x.owner = y.owner /\ x.owner \notin b.forgotten
                => x.until # None /\ x.until <= y.since

BookInv(b) == IsBook(b) /\ TracksPoint(b) /\ OpenAreTracked(b) /\ Timely(b) /\ InOrder(b)

\* The episodes of c are those of b, or new ones nobody decided about.
Extends(b, c) ==
    \A n \in DOMAIN c.episodes :
        \/ c.episodes[n].toast = Undecided
        \/ /\ n \in DOMAIN b.episodes
           /\ c.episodes[n].toast = b.episodes[n].toast
           /\ c.episodes[n].id = b.episodes[n].id /\ c.episodes[n].owner = b.episodes[n].owner
           /\ c.episodes[n].until = None => b.episodes[n].until = None

\* The relations between a book and a later one compose.
LEMMA ExtendsTransitive ==
    ASSUME NEW a, NEW b, NEW c, Extends(a, b), Extends(b, c)
    PROVE  Extends(a, c)
BY DEF Extends

\* So does leaving the rest alone.
LEMMA SameTransitive ==
    ASSUME NEW a, NEW b, NEW c, Same(a, b), Same(b, c)
    PROVE  Same(a, c)
BY DEF Same

\* A book extends itself.
LEMMA ExtendsItself == \A b : Extends(b, b) /\ Same(b, b)
BY DEF Extends, Same

\* What one move on the alert of an owner judged at "at" promises.
Moves(b, c) == BookInv(c) /\ Same(b, c) /\ Extends(b, c)

\* Moves compose.
LEMMA MovesTransitive ==
    ASSUME NEW a, NEW b, NEW c, Moves(a, b), Moves(b, c)
    PROVE  Moves(a, c)
BY ExtendsTransitive, SameTransitive DEF Moves

\* When owners were last judged is not for tracks and episodes to say.
LEMMA SameKnown ==
    ASSUME NEW b, NEW c, Same(b, c)
    PROVE  /\ Known(c) = Known(b)
           /\ \A o : LastAt(c, o) = LastAt(b, o)
           /\ \A o, t : Upto(c, o, t) <=> Upto(b, o, t)
BY DEF Same, Known, LastAt, Upto

\* An owner that was judged has a time.
LEMMA KnownAt ==
    ASSUME NEW b, IsBook(b), NEW o \in Known(b)
    PROVE  LastAt(b, o) \in Int
BY DEF Known, LastAt, IsBook, IsRuntime, Owner

\* A track that dwells, fades or forgets: onset and off stay, go, or are now.
LEMMA TrackMoves ==
    ASSUME NEW b, BookInv(b), NEW o \in Known(b), NEW id \in Alert, NEW t \in Track,
           t.episode = b.tracks[o][id].episode,
           t.onset \in {None, LastAt(b, o), b.tracks[o][id].onset},
           t.off \in {None, LastAt(b, o), b.tracks[o][id].off},
           NEW c, c = WithTrack(b, o, id, t)
    PROVE  Moves(b, c)
<1>o. o \in Owner
  BY DEF Known
<1>1. /\ IsBook(c) /\ Same(b, c)
      /\ c.tracks = [b.tracks EXCEPT ![o][id] = t]
      /\ c.episodes = b.episodes /\ c.opened = b.opened
  <2>1. IsBook(b)
    BY DEF BookInv
  <2>. QED
    BY <1>o, <2>1, TrackSet
<1>2. Extends(b, c)
  BY <1>1, ExtendsItself DEF Extends
<1>t. /\ b.tracks \in Tracks
      /\ \A p \in Owner, q \in Alert : c.tracks[p][q] = IF p = o /\ q = id THEN t ELSE b.tracks[p][q]
  BY <1>1, <1>o DEF BookInv, IsBook, Tracks
<1>e. \A n \in DOMAIN b.episodes : b.episodes[n].owner \in Owner /\ b.episodes[n].id \in Alert
  BY DEF BookInv, IsBook, IsEpisodes, Episode
<1>3. TracksPoint(c)
  BY <1>1, <1>t DEF BookInv, TracksPoint
<1>4. OpenAreTracked(c)
  BY <1>1, <1>t, <1>e DEF BookInv, OpenAreTracked
<1>5. InOrder(c)
  BY <1>1 DEF BookInv, InOrder, Same
<1>6. Timely(c)
  <2>0. Timely(b)
    BY DEF BookInv
  <2>1. \A p \in Owner \ b.forgotten, q \in Alert : Upto(b, p, c.tracks[p][q].onset) /\ Upto(b, p, c.tracks[p][q].off)
    <3>1. LastAt(b, o) \in Int
      BY KnownAt DEF BookInv
    <3>2. Upto(b, o, LastAt(b, o)) /\ Upto(b, o, None)
      BY <3>1 DEF Upto
    <3>. QED
      BY <3>2, <1>t DEF BookInv, Timely
  <2>2. ASSUME NEW n \in DOMAIN b.episodes, b.episodes[n].owner \notin b.forgotten,
               b.episodes[n].until # None, c.tracks[b.episodes[n].owner][b.episodes[n].id].onset # None
        PROVE  b.episodes[n].until <= c.tracks[b.episodes[n].owner][b.episodes[n].id].onset
    <3>1. CASE b.episodes[n].owner = o /\ b.episodes[n].id = id /\ t.onset = LastAt(b, o)
      BY <3>1, <2>2, <1>t, <1>o DEF BookInv, Timely, Upto
    <3>2. CASE b.episodes[n].owner = o /\ b.episodes[n].id = id /\ t.onset # LastAt(b, o)
      <4>1. t.onset = b.tracks[o][id].onset /\ c.tracks[o][id] = t
        BY <3>2, <2>2, <1>t, <1>o
      <4>. QED
        BY <2>0, <4>1, <3>2, <2>2 DEF Timely
    <3>3. CASE ~ (b.episodes[n].owner = o /\ b.episodes[n].id = id)
      <4>1. c.tracks[b.episodes[n].owner][b.episodes[n].id] = b.tracks[b.episodes[n].owner][b.episodes[n].id]
        BY <3>3, <1>t, <1>e
      <4>. QED
        BY <2>0, <4>1, <2>2 DEF Timely
    <3>. QED
      BY <3>1, <3>2, <3>3
  <2>3. \A p, t1 : Upto(c, p, t1) <=> Upto(b, p, t1)
    BY <1>1, SameKnown
  <2>4. c.forgotten = b.forgotten
    BY <1>1 DEF Same
  <2>5. \A n \in DOMAIN b.episodes : b.episodes[n].owner \notin b.forgotten =>
            Upto(b, b.episodes[n].owner, b.episodes[n].since) /\ Upto(b, b.episodes[n].owner, b.episodes[n].until)
    BY <2>0 DEF Timely
  <2>. QED
    BY <2>1, <2>2, <2>3, <2>4, <2>5, <1>1 DEF Timely
<1>. QED
  BY <1>1, <1>2, <1>3, <1>4, <1>5, <1>6 DEF Moves, BookInv

\* Blanking a track without an episode.
LEMMA BlankMoves ==
    ASSUME NEW b, BookInv(b), NEW o \in Known(b), NEW id \in Alert, b.tracks[o][id].episode = None,
           NEW c, c = WithTrack(b, o, id, blank)
    PROVE  Moves(b, c)
BY TrackMoves, BlankIsTrack DEF blank

WithEnd(b, o, id, n, until) ==
    [WithTrack(b, o, id, blank) EXCEPT !.episodes[n].until = until]

\* Ending the episode of a track and blanking it, at a time not past now.
LEMMA EndMoves ==
    ASSUME NEW b, BookInv(b), NEW o \in Known(b), NEW id \in Alert,
           NEW n, b.tracks[o][id].episode = n, n # None,
           NEW until \in Int, until <= LastAt(b, o) \/ o \in b.forgotten,
           NEW end, Larger(b.episodes[n].since, until) = end,
           NEW c, WithEnd(b, o, id, n, end) = c
    PROVE  Moves(b, c)
<1>b. IsBook(b) /\ IsRecord(b) /\ b.tracks \in Tracks /\ IsEpisodes(b.episodes) /\ b.opened \in Nat
  BY DEF BookInv, IsBook
<1>o. o \in Owner
  BY DEF Known
<1>n. /\ n \in DOMAIN b.episodes /\ b.episodes[n].owner = o /\ b.episodes[n].id = id
      /\ b.episodes[n].until = None /\ b.episodes[n] \in Episode
  <2>1. TracksPoint(b)
    BY DEF BookInv
  <2>2. n \in DOMAIN b.episodes /\ b.episodes[n].owner = o /\ b.episodes[n].id = id /\ b.episodes[n].until = None
    BY <1>o, <2>1 DEF TracksPoint
  <2>3. b.episodes[n] \in Episode
    BY <2>2, <1>b DEF IsEpisodes
  <2>. QED
    BY <2>2, <2>3
<1>u. end \in Int /\ end >= b.episodes[n].since /\ (end = until \/ end = b.episodes[n].since)
  BY <1>n DEF Larger, Episode
<1>1. c.tracks = [b.tracks EXCEPT ![o][id] = blank] /\ c.opened = b.opened
  BY <1>b DEF WithEnd, WithTrack, IsRecord
<1>2. c.episodes = [b.episodes EXCEPT ![n].until = end]
  BY <1>b DEF WithEnd, WithTrack, IsRecord
<1>3. Same(b, c)
  BY <1>b DEF Same, WithEnd, WithTrack, IsRecord
<1>4. IsRecord(c)
  BY <1>b DEF WithEnd, WithTrack, IsRecord
<1>t. \A p \in Owner, q \in Alert : c.tracks[p][q] = IF p = o /\ q = id THEN blank ELSE b.tracks[p][q]
  BY <1>1, <1>b, <1>o DEF Tracks
<1>5. c.tracks \in Tracks
  BY <1>1, <1>b, <1>o, BlankIsTrack DEF Tracks
<1>e. /\ DOMAIN c.episodes = DOMAIN b.episodes
      /\ c.episodes = [m \in DOMAIN c.episodes |-> c.episodes[m]]
      /\ \A m \in DOMAIN b.episodes : c.episodes[m] = IF m = n THEN [b.episodes[n] EXCEPT !.until = end] ELSE b.episodes[m]
  BY <1>2, <1>n, <1>b DEF IsEpisodes
<1>f. /\ [b.episodes[n] EXCEPT !.until = end] \in Episode
      /\ \A m \in DOMAIN b.episodes :
            /\ c.episodes[m].owner = b.episodes[m].owner /\ c.episodes[m].id = b.episodes[m].id
            /\ c.episodes[m].since = b.episodes[m].since /\ c.episodes[m].toast = b.episodes[m].toast
            /\ c.episodes[m].until = IF m = n THEN end ELSE b.episodes[m].until
            /\ b.episodes[m].owner \in Owner /\ b.episodes[m].id \in Alert /\ b.episodes[m].since \in Int
            /\ b.episodes[m].until \in Int \cup {None}
  BY <1>e, <1>n, <1>u, <1>b DEF IsEpisodes, Episode
<1>6. IsEpisodes(c.episodes)
  BY <1>e, <1>f, <1>b DEF IsEpisodes
<1>7. IsBook(c)
  BY <1>1, <1>3, <1>4, <1>5, <1>6, <1>b, SameIsBook
<1>8. Extends(b, c)
  BY <1>e, <1>f, <1>n, <1>u, AlertsAssumption DEF Extends
<1>9. TracksPoint(c)
  <2>1. TracksPoint(b)
    BY DEF BookInv
  <2>2. ASSUME NEW p \in Owner, NEW q \in Alert, c.tracks[p][q].episode # None
        PROVE  /\ c.tracks[p][q].episode = b.tracks[p][q].episode
               /\ c.tracks[p][q].episode # n
    BY <2>1, <2>2, <1>t, <1>n DEF TracksPoint, blank
  <2>3. ASSUME NEW p \in Owner, NEW q \in Alert, NEW m, c.tracks[p][q].episode = m, m # None
        PROVE  /\ m \in DOMAIN c.episodes
               /\ c.episodes[m].owner = p /\ c.episodes[m].id = q /\ c.episodes[m].until = None
    <3>1. b.tracks[p][q].episode = m /\ m # n
      BY <2>2, <2>3
    <3>2. /\ m \in DOMAIN b.episodes
          /\ b.episodes[m].owner = p /\ b.episodes[m].id = q /\ b.episodes[m].until = None
      BY <3>1, <2>1, <2>3 DEF TracksPoint
    <3>. QED
      BY <3>1, <3>2, <1>e, <1>f
  <2>. QED
    BY <2>3 DEF TracksPoint
<1>10. OpenAreTracked(c)
  <2>1. \A m \in DOMAIN b.episodes : m # n /\ b.episodes[m].until = None =>
            ~ (b.episodes[m].owner = o /\ b.episodes[m].id = id)
    BY <1>n DEF OpenAreTracked, BookInv
  <2>. QED
    BY <2>1, <1>e, <1>f, <1>t, <1>n, <1>u, <1>1, AlertsAssumption DEF OpenAreTracked, BookInv
<1>11. InOrder(c)
  BY <1>e, <1>f, <1>n, <1>3, <1>u DEF InOrder, BookInv, Same
<1>12. Timely(c)
  <2>k. LastAt(b, o) \in Int
    BY <1>b, KnownAt
  <2>1. \A p \in Owner \ b.forgotten, q \in Alert : Upto(b, p, c.tracks[p][q].onset) /\ Upto(b, p, c.tracks[p][q].off)
    BY <1>t DEF BookInv, Timely, Upto, blank
  <2>2. \A m \in DOMAIN b.episodes : b.episodes[m].owner \notin b.forgotten =>
            Upto(b, b.episodes[m].owner, b.episodes[m].since) /\ Upto(b, b.episodes[m].owner, c.episodes[m].until)
    BY <1>f, <1>n, <1>u, <2>k DEF BookInv, Timely, Upto
  <2>3. ASSUME NEW m \in DOMAIN b.episodes, b.episodes[m].owner \notin b.forgotten,
               c.episodes[m].until # None, c.tracks[b.episodes[m].owner][b.episodes[m].id].onset # None
        PROVE  c.episodes[m].until <= c.tracks[b.episodes[m].owner][b.episodes[m].id].onset
    <3>1. ~ (b.episodes[m].owner = o /\ b.episodes[m].id = id) /\ m # n
      BY <2>3, <1>t, <1>f, <1>n DEF blank
    <3>2. Timely(b)
      BY DEF BookInv
    <3>3. /\ b.episodes[m].until # None /\ c.episodes[m].until = b.episodes[m].until
          /\ c.tracks[b.episodes[m].owner][b.episodes[m].id] = b.tracks[b.episodes[m].owner][b.episodes[m].id]
      BY <3>1, <2>3, <1>t, <1>f
    <3>. QED
      BY <3>2, <3>3, <2>3 DEF Timely
  <2>4. \A p, t1 : Upto(c, p, t1) <=> Upto(b, p, t1)
    BY <1>3, SameKnown
  <2>5. c.forgotten = b.forgotten /\ DOMAIN c.episodes = DOMAIN b.episodes
    BY <1>3, <1>e DEF Same
  <2>6. \A m \in DOMAIN b.episodes : /\ c.episodes[m].owner = b.episodes[m].owner
                                     /\ c.episodes[m].id = b.episodes[m].id
                                     /\ c.episodes[m].since = b.episodes[m].since
    BY <1>f
  <2>. QED
    BY <2>1, <2>2, <2>3, <2>4, <2>5, <2>6 DEF Timely
<1>. QED
  BY <1>3, <1>7, <1>8, <1>9, <1>10, <1>11, <1>12 DEF Moves, BookInv

\* Closed is one of these two.
LEMMA ClosedMoves ==
    ASSUME NEW b, BookInv(b), NEW o \in Known(b), NEW id \in Alert,
           NEW until \in Int, until <= LastAt(b, o) \/ o \in b.forgotten
    PROVE  Moves(b, Closed(b, o, id, until))
<1>1. CASE b.tracks[o][id].episode = None
  <2>1. Closed(b, o, id, until) = WithTrack(b, o, id, blank)
    BY <1>1 DEF Closed
  <2>. QED
    BY <1>1, <2>1, BlankMoves
<1>2. CASE b.tracks[o][id].episode # None
  <2>1. Closed(b, o, id, until) = WithEnd(b, o, id, b.tracks[o][id].episode,
                                          Larger(b.episodes[b.tracks[o][id].episode].since, until))
    BY <1>2 DEF Closed, WithEnd
  <2>. QED
    BY <1>2, <2>1, EndMoves
<1>. QED
  BY <1>1, <1>2

\* A new episode: the earlier ones of its track ended, before its onset.
LEMMA OpenedMoves ==
    ASSUME NEW b, BookInv(b), NEW o \in Known(b), NEW id \in AlertOf(o), id \in Alert,
           b.tracks[o][id].episode = None,
           NEW since \in Int, b.tracks[o][id].onset = since,
           NEW at \in Int,
           NEW c, Opened(b, o, id, since, at) = c
    PROVE  Moves(b, c)
<1> DEFINE n == b.opened + 1
           e == [id |-> id, owner |-> o, since |-> since, until |-> None, startedAt |-> at, toast |-> Undecided]
<1>b. IsBook(b) /\ IsRecord(b) /\ b.tracks \in Tracks /\ IsEpisodes(b.episodes) /\ b.opened \in Nat
  BY DEF BookInv, IsBook
<1>o. o \in Owner
  BY DEF Known
<1>1. c.tracks = [b.tracks EXCEPT ![o][id].episode = n] /\ c.opened = n
  BY <1>b DEF Opened, IsRecord
<1>2. c.episodes = [m \in DOMAIN b.episodes \cup {n} |-> IF m = n THEN e ELSE b.episodes[m]]
  BY <1>b DEF Opened, IsRecord
<1>3. Same(b, c)
  BY <1>b DEF Same, Opened, IsRecord
<1>4. IsRecord(c)
  BY <1>b DEF Opened, IsRecord
<1>n. n \in Nat \ {0} /\ n \notin DOMAIN b.episodes /\ n # None /\ \A m \in DOMAIN b.episodes : m < n /\ m \in Nat \ {0}
  BY <1>b, AlertsAssumption DEF BookInv, OpenAreTracked, IsEpisodes
<1>a. e \in Episode
  BY <1>o DEF Episode, Undecided
<1> DEFINE t == [b.tracks[o][id] EXCEPT !.episode = n]
<1>x. /\ t \in Track /\ t.episode = n /\ t.onset = b.tracks[o][id].onset /\ t.off = b.tracks[o][id].off
  BY <1>b, <1>o, <1>n DEF Tracks, Track
<1>t. \A p \in Owner, q \in Alert : c.tracks[p][q] = IF p = o /\ q = id THEN t ELSE b.tracks[p][q]
  BY <1>1, <1>b, <1>o DEF Tracks
<1>h. e.id = id /\ e.owner = o /\ e.since = since /\ e.until = None /\ e.toast = Undecided
  OBVIOUS
<1> HIDE DEF t, e, n
<1>5. c.tracks \in Tracks
  <2>1. c.tracks = [b.tracks EXCEPT ![o][id] = t]
    BY <1>1 DEF t
  <2>. QED
    BY <2>1, <1>b, <1>o, <1>x DEF Tracks
<1>e. /\ DOMAIN c.episodes = DOMAIN b.episodes \cup {n}
      /\ c.episodes = [m \in DOMAIN c.episodes |-> c.episodes[m]]
      /\ \A m \in DOMAIN b.episodes : c.episodes[m] = b.episodes[m]
      /\ c.episodes[n] = e
  BY <1>2, <1>n
<1>f. \A m \in DOMAIN b.episodes :
            /\ b.episodes[m].owner \in Owner /\ b.episodes[m].id \in Alert /\ b.episodes[m].since \in Int
            /\ b.episodes[m].until \in Int \cup {None}
  BY <1>b DEF IsEpisodes, Episode
<1>6. IsEpisodes(c.episodes)
  BY <1>e, <1>a, <1>b, <1>n DEF IsEpisodes
<1>7. IsBook(c)
  BY <1>1, <1>3, <1>4, <1>5, <1>6, <1>b, <1>n, SameIsBook
<1>8. Extends(b, c)
  BY <1>e, <1>h DEF Extends
<1>c. \A m \in DOMAIN b.episodes : b.episodes[m].owner = o /\ b.episodes[m].id = id => b.episodes[m].until # None
  <2>1. OpenAreTracked(b)
    BY DEF BookInv
  <2>2. \A m \in DOMAIN b.episodes : m # None
    BY <1>n, AlertsAssumption
  <2>. QED
    BY <2>1, <2>2 DEF OpenAreTracked
<1>9. TracksPoint(c)
  <2>1. TracksPoint(b)
    BY DEF BookInv
  <2>2. ASSUME NEW p \in Owner, NEW q \in Alert, NEW m, c.tracks[p][q].episode = m, m # None
        PROVE  /\ m \in DOMAIN c.episodes
               /\ c.episodes[m].owner = p /\ c.episodes[m].id = q /\ c.episodes[m].until = None
    <3>1. CASE p = o /\ q = id
      BY <3>1, <2>2, <1>t, <1>x, <1>e, <1>h
    <3>2. CASE ~ (p = o /\ q = id)
      <4>1. b.tracks[p][q].episode = m
        BY <3>2, <2>2, <1>t
      <4>2. /\ m \in DOMAIN b.episodes
            /\ b.episodes[m].owner = p /\ b.episodes[m].id = q /\ b.episodes[m].until = None
        BY <4>1, <2>1, <2>2 DEF TracksPoint
      <4>. QED
        BY <4>2, <1>e
    <3>. QED
      BY <3>1, <3>2
  <2>. QED
    BY <2>2 DEF TracksPoint
<1>10. OpenAreTracked(c)
  <2>1. OpenAreTracked(b)
    BY DEF BookInv
  <2>2. n <= c.opened /\ e.id \in AlertOf(e.owner) /\ c.tracks[e.owner][e.id].episode = n
    BY <1>1, <1>n, <1>h, <1>t, <1>o, <1>x
  <2>3. \A m \in DOMAIN b.episodes :
            /\ m <= c.opened
            /\ b.episodes[m].until = None =>
                   c.tracks[b.episodes[m].owner][b.episodes[m].id].episode =
                   b.tracks[b.episodes[m].owner][b.episodes[m].id].episode
    BY <1>1, <1>n, <1>t, <1>f, <1>c
  <2>. QED
    BY <2>1, <2>2, <2>3, <1>e, <1>h DEF OpenAreTracked
<1>s. o \notin b.forgotten => Upto(b, o, since) /\ Upto(b, o, None)
  BY <1>o DEF BookInv, Timely, Upto
<1>d. \A m \in DOMAIN b.episodes :
         b.episodes[m].owner = o /\ b.episodes[m].id = id /\ o \notin b.forgotten => b.episodes[m].until <= since
  BY <1>c, AlertsAssumption DEF BookInv, Timely
<1>11. InOrder(c)
  <2>1. InOrder(b)
    BY DEF BookInv
  <2>2. c.forgotten = b.forgotten
    BY <1>3 DEF Same
  <2>3. \A m \in DOMAIN b.episodes :
            b.episodes[m].id = id /\ b.episodes[m].owner = o /\ o \notin b.forgotten
                => b.episodes[m].until # None /\ b.episodes[m].until <= since
    BY <1>c, <1>d
  <2>4. \A m, k \in DOMAIN b.episodes \cup {n} :
            m < k => m \in DOMAIN b.episodes /\ (k \in DOMAIN b.episodes \/ k = n)
    BY <1>n
  <2>. QED
    BY <2>1, <2>2, <2>3, <2>4, <1>e, <1>h DEF InOrder
<1>12. Timely(c)
  <2>0. Timely(b)
    BY DEF BookInv
  <2>1. \A p \in Owner \ b.forgotten, q \in Alert : Upto(b, p, c.tracks[p][q].onset) /\ Upto(b, p, c.tracks[p][q].off)
    BY <2>0, <1>t, <1>x DEF Timely
  <2>2. \A m \in DOMAIN b.episodes : b.episodes[m].owner \notin b.forgotten =>
            /\ Upto(b, b.episodes[m].owner, b.episodes[m].since) /\ Upto(b, b.episodes[m].owner, b.episodes[m].until)
            /\ b.episodes[m].until # None /\ c.tracks[b.episodes[m].owner][b.episodes[m].id].onset # None
                 => b.episodes[m].until <= c.tracks[b.episodes[m].owner][b.episodes[m].id].onset
    BY <2>0, <1>t, <1>x, <1>f DEF Timely
  <2>4. \A p, t1 : Upto(c, p, t1) <=> Upto(b, p, t1)
    BY <1>3, SameKnown
  <2>5. c.forgotten = b.forgotten
    BY <1>3 DEF Same
  <2>. QED
    BY <2>1, <2>2, <2>4, <2>5, <1>e, <1>h, <1>s DEF Timely
<1>. QED
  BY <1>3, <1>7, <1>8, <1>9, <1>10, <1>11, <1>12 DEF Moves, BookInv

\* The values a step gives to a track.
LEMMA TrackValues ==
    ASSUME NEW t \in Track, NEW at \in Int
    PROVE  /\ OnsetOf(t, at) \in Int /\ OnsetOf(t, at) \in {at, t.onset}
           /\ OffOf(t, at) \in Int /\ OffOf(t, at) \in {at, t.off}
           /\ Held(t) \in Track /\ Held(t).episode = t.episode /\ Held(t).onset = t.onset /\ Held(t).off = None
           /\ Dwelling(t, at) \in Track /\ Dwelling(t, at).episode = t.episode
           /\ Dwelling(t, at).onset = OnsetOf(t, at) /\ Dwelling(t, at).off = None
           /\ Absent(t) \in Track /\ Absent(t).episode = t.episode /\ Absent(t).onset = None /\ Absent(t).off = t.off
           /\ Fading(t, at) \in Track /\ Fading(t, at).episode = t.episode
           /\ Fading(t, at).onset = None /\ Fading(t, at).off = OffOf(t, at)
<1>1. OnsetOf(t, at) \in Int /\ OnsetOf(t, at) \in {at, t.onset} /\ OffOf(t, at) \in Int /\ OffOf(t, at) \in {at, t.off}
  BY DEF OnsetOf, OffOf, Track
<1>2. Held(t) \in Track /\ Held(t).episode = t.episode /\ Held(t).onset = t.onset /\ Held(t).off = None
  BY DEF Held, Track
<1>3. /\ Dwelling(t, at) \in Track /\ Dwelling(t, at).episode = t.episode
      /\ Dwelling(t, at).onset = OnsetOf(t, at) /\ Dwelling(t, at).off = None
  BY <1>1 DEF Dwelling, Track
<1>4. Absent(t) \in Track /\ Absent(t).episode = t.episode /\ Absent(t).onset = None /\ Absent(t).off = t.off
  BY DEF Absent, Track
<1>5. /\ Fading(t, at) \in Track /\ Fading(t, at).episode = t.episode
      /\ Fading(t, at).onset = None /\ Fading(t, at).off = OffOf(t, at)
  BY <1>1 DEF Fading, Track
<1>. QED
  BY <1>1, <1>2, <1>3, <1>4, <1>5

\* The alternatives of a step, by name.
LEMMA StepIs ==
    ASSUME NEW b, NEW o, NEW id, NEW condition, NEW at,
           NEW t, b.tracks[o][id] = t
    PROVE  Step(b, o, id, condition, at) \in
              {b, WithTrack(b, o, id, Held(t)), WithTrack(b, o, id, Absent(t)),
               WithTrack(b, o, id, Fading(t, at)), WithTrack(b, o, id, Dwelling(t, at))}
              \cup (IF t.episode = None
                     THEN {Opened(WithTrack(b, o, id, Dwelling(t, at)), o, id, OnsetOf(t, at), at)}
                     ELSE {Closed(b, o, id, OffOf(t, at))})
<1>1. Step(b, o, id, condition, at) \in {b, Met(b, o, id, at), Unmet(b, o, id, at)}
  BY DEF Step
<1>2. Met(b, o, id, at) \in
         {WithTrack(b, o, id, Held(t)), WithTrack(b, o, id, Dwelling(t, at))}
         \cup (IF t.episode = None
                THEN {Opened(WithTrack(b, o, id, Dwelling(t, at)), o, id, OnsetOf(t, at), at)} ELSE {})
  BY DEF Met
<1>3. Unmet(b, o, id, at) \in
         {WithTrack(b, o, id, Absent(t)), WithTrack(b, o, id, Fading(t, at))}
         \cup (IF t.episode # None THEN {Closed(b, o, id, OffOf(t, at))} ELSE {})
  BY DEF Unmet
<1>. QED
  BY <1>1, <1>2, <1>3

\* A step of one alert, judged at the time of its owner, is such a move.
LEMMA StepMoves ==
    ASSUME NEW b, BookInv(b), NEW o \in Known(b), NEW id \in AlertOf(o), id \in Alert, NEW condition,
           NEW at, LastAt(b, o) = at,
           NEW s, Step(b, o, id, condition, at) = s
    PROVE  Moves(b, s)
<1>a. at \in Int /\ o \in Owner
  BY KnownAt DEF BookInv, Known
<1>t. PICK t \in Track : b.tracks[o][id] = t
  BY <1>a DEF BookInv, IsBook, Tracks
<1>1. CASE s = b
  BY <1>1, ExtendsItself DEF Moves
<1>2. CASE /\ s = WithTrack(b, o, id, Held(t))
  BY <1>2, <1>a, <1>t, TrackValues, TrackMoves
<1>3. CASE s = WithTrack(b, o, id, Absent(t))
  BY <1>3, <1>a, <1>t, TrackValues, TrackMoves
<1>4. CASE s = WithTrack(b, o, id, Fading(t, at))
  BY <1>4, <1>a, <1>t, TrackValues, TrackMoves
<1>5. Moves(b, WithTrack(b, o, id, Dwelling(t, at)))
  BY <1>a, <1>t, TrackValues, TrackMoves
<1>6. CASE s = WithTrack(b, o, id, Dwelling(t, at))
  BY <1>5, <1>6
<1>7. CASE /\ t.episode = None
           /\ s =
                Opened(WithTrack(b, o, id, Dwelling(t, at)), o, id, OnsetOf(t, at), at)
  <2>1. PICK c : WithTrack(b, o, id, Dwelling(t, at)) = c
    OBVIOUS
  <2>2. BookInv(c) /\ Same(b, c) /\ Moves(b, c)
    BY <1>5, <2>1 DEF Moves
  <2>3. o \in Known(c)
    BY <2>2, SameKnown
  <2>4. c.tracks[o][id] = Dwelling(t, at)
    BY <1>a, <2>1 DEF WithTrack, BookInv, IsBook, IsRecord, Tracks
  <2>5. Moves(c, Opened(c, o, id, OnsetOf(t, at), at))
    BY <1>7, <2>2, <2>3, <2>4, <1>a, TrackValues, OpenedMoves
  <2>. QED
    BY <1>7, <2>1, <2>2, <2>5, MovesTransitive
<1>8. CASE t.episode # None /\ s = Closed(b, o, id, OffOf(t, at))
  <2>1. Timely(b)
    BY DEF BookInv
  <2>2. t.off # None /\ o \notin b.forgotten => t.off <= at
    BY <2>1, <1>a, <1>t DEF Timely, Upto
  <2>3. OffOf(t, at) <= at \/ o \in b.forgotten
    BY <2>2, <1>a DEF OffOf
  <2>. QED
    BY <1>8, <2>3, <1>a, TrackValues, ClosedMoves
<1>. QED
  BY <1>1, <1>2, <1>3, <1>4, <1>6, <1>7, <1>8, <1>t, StepIs

GapTracks(b, owners) == [o \in Owner |-> IF o \in owners THEN [id \in Alert |-> blank] ELSE b.tracks[o]]

WithUntil(e, u) == [e EXCEPT !.until = u]

\* Setting the end of an episode.
LEMMA UntilSet ==
    ASSUME NEW e \in Episode, NEW u \in Int
    PROVE  /\ WithUntil(e, u) \in Episode
           /\ WithUntil(e, u).owner = e.owner /\ WithUntil(e, u).id = e.id
           /\ WithUntil(e, u).since = e.since /\ WithUntil(e, u).toast = e.toast
           /\ WithUntil(e, u).until = u
BY DEF Episode, WithUntil

\* A gap ends episodes of several owners at once, and blanks their tracks.
LEMMA GapMoves ==
    ASSUME NEW b, BookInv(b), NEW owners, \A o \in owners : o \in Owner /\ (o \in Known(b) \/ o \notin b.forgotten),
           NEW c, Gap(b, owners) = c
    PROVE  /\ Moves(b, c)
           /\ \A o \in owners, id \in Alert : c.tracks[o][id] = blank
<1> DEFINE IsEnded(m) == /\ b.episodes[m].owner \in owners
                         /\ b.tracks[b.episodes[m].owner][b.episodes[m].id].episode = m
           end(m) == Larger(b.episodes[m].since, LastAt(b, b.episodes[m].owner))
<1>b. IsBook(b) /\ IsRecord(b) /\ b.tracks \in Tracks /\ IsEpisodes(b.episodes) /\ b.opened \in Nat
  BY DEF BookInv, IsBook
<1>i. TracksPoint(b) /\ OpenAreTracked(b) /\ Timely(b) /\ InOrder(b)
  BY DEF BookInv
<1>f. \A m \in DOMAIN b.episodes :
            /\ b.episodes[m] \in Episode /\ m \in Nat \ {0} /\ m # None
            /\ b.episodes[m].owner \in Owner /\ b.episodes[m].id \in Alert /\ b.episodes[m].since \in Int
            /\ b.episodes[m].until \in Int \cup {None}
  BY <1>b, AlertsAssumption DEF IsEpisodes, Episode
<1>n. \A m \in DOMAIN b.episodes : IsEnded(m) =>
         /\ b.episodes[m].until = None
         /\ b.episodes[m].owner \in Known(b)
         /\ LastAt(b, b.episodes[m].owner) \in Int
  <2>1. ASSUME NEW m \in DOMAIN b.episodes, IsEnded(m)
        PROVE  b.episodes[m].until = None /\ b.episodes[m].owner \in Known(b)
    <3>1. b.episodes[m].until = None
      BY <2>1, <1>i, <1>f DEF TracksPoint
    <3>2. b.episodes[m].since # None
      BY <1>f, AlertsAssumption
    <3>3. b.episodes[m].owner \in b.forgotten \/ b.episodes[m].owner \in Known(b)
      BY <3>2, <1>i DEF Timely, Upto
    <3>. QED
      BY <2>1, <3>1, <3>3
  <2>. QED
    BY <2>1, <1>b, KnownAt
<1>u. \A m \in DOMAIN b.episodes : IsEnded(m) =>
         end(m) \in Int /\ end(m) >= b.episodes[m].since
         /\ (end(m) = b.episodes[m].since \/ end(m) = LastAt(b, b.episodes[m].owner))
  BY <1>n, <1>f DEF Larger
<1> HIDE DEF end
<1>1. c.tracks = GapTracks(b, owners) /\ c.opened = b.opened
  BY <1>b DEF Gap, IsRecord, GapTracks
<1>2. c.episodes = [m \in DOMAIN b.episodes |->
                      IF IsEnded(m) THEN [b.episodes[m] EXCEPT !.until = end(m)] ELSE b.episodes[m]]
  BY <1>b DEF Gap, IsRecord, end
<1>3. Same(b, c)
  BY <1>b DEF Same, Gap, IsRecord
<1>4. IsRecord(c)
  BY <1>b DEF Gap, IsRecord
<1>t. \A p \in Owner, q \in Alert : c.tracks[p][q] = IF p \in owners THEN blank ELSE b.tracks[p][q]
  BY <1>1 DEF GapTracks
<1>5. c.tracks \in Tracks
  BY <1>1, <1>b, BlankIsTrack DEF Tracks, GapTracks
<1>e. /\ DOMAIN c.episodes = DOMAIN b.episodes
      /\ c.episodes = [m \in DOMAIN c.episodes |-> c.episodes[m]]
      /\ \A m \in DOMAIN b.episodes :
            c.episodes[m] = IF IsEnded(m) THEN [b.episodes[m] EXCEPT !.until = end(m)] ELSE b.episodes[m]
  BY <1>2
<1>g. \A m \in DOMAIN b.episodes :
            /\ c.episodes[m] \in Episode
            /\ c.episodes[m].owner = b.episodes[m].owner /\ c.episodes[m].id = b.episodes[m].id
            /\ c.episodes[m].since = b.episodes[m].since /\ c.episodes[m].toast = b.episodes[m].toast
            /\ c.episodes[m].until = IF IsEnded(m) THEN end(m) ELSE b.episodes[m].until
  <2>2. ASSUME NEW m \in DOMAIN b.episodes, IsEnded(m)
        PROVE  c.episodes[m] = WithUntil(b.episodes[m], end(m)) /\ b.episodes[m] \in Episode /\ end(m) \in Int
    BY <2>2, <1>e, <1>f, <1>u DEF WithUntil
  <2>3. ASSUME NEW m \in DOMAIN b.episodes, ~ IsEnded(m)
        PROVE  c.episodes[m] = b.episodes[m] /\ b.episodes[m] \in Episode
    BY <2>3, <1>e, <1>f
  <2> HIDE DEF IsEnded
  <2>4. ASSUME NEW m \in DOMAIN b.episodes
        PROVE  /\ c.episodes[m] \in Episode
               /\ c.episodes[m].owner = b.episodes[m].owner /\ c.episodes[m].id = b.episodes[m].id
               /\ c.episodes[m].since = b.episodes[m].since /\ c.episodes[m].toast = b.episodes[m].toast
               /\ c.episodes[m].until = IF IsEnded(m) THEN end(m) ELSE b.episodes[m].until
    <3>1. CASE IsEnded(m)
      BY <3>1, <2>2, UntilSet
    <3>2. CASE ~ IsEnded(m)
      BY <3>2, <2>3
    <3>. QED
      BY <3>1, <3>2
  <2>. QED
    BY <2>4
<1> HIDE DEF IsEnded
<1>6. IsEpisodes(c.episodes)
  BY <1>e, <1>g, <1>b DEF IsEpisodes
<1>7. IsBook(c)
  BY <1>1, <1>3, <1>4, <1>5, <1>6, <1>b, SameIsBook
<1>c. \A m \in DOMAIN b.episodes : c.episodes[m].until = None =>
          b.episodes[m].until = None /\ ~ IsEnded(m)
  BY <1>g, <1>n, <1>u, AlertsAssumption
<1>8. Extends(b, c)
  BY <1>e, <1>g, <1>c DEF Extends
<1>o. \A m \in DOMAIN b.episodes : c.episodes[m].until = None => b.episodes[m].owner \notin owners
  BY <1>c, <1>i DEF OpenAreTracked, IsEnded
<1>9. TracksPoint(c)
  <2>2. ASSUME NEW p \in Owner, NEW q \in Alert, NEW m, c.tracks[p][q].episode = m, m # None
        PROVE  /\ m \in DOMAIN c.episodes
               /\ c.episodes[m].owner = p /\ c.episodes[m].id = q /\ c.episodes[m].until = None
    <3>1. p \notin owners /\ b.tracks[p][q].episode = m
      BY <2>2, <1>t DEF blank
    <3>2. /\ m \in DOMAIN b.episodes
          /\ b.episodes[m].owner = p /\ b.episodes[m].id = q /\ b.episodes[m].until = None
      BY <3>1, <1>i, <2>2 DEF TracksPoint
    <3>3. ~ IsEnded(m)
      BY <3>1, <3>2 DEF IsEnded
    <3>. QED
      BY <3>2, <3>3, <1>e, <1>g
  <2>. QED
    BY <2>2 DEF TracksPoint
<1>10. OpenAreTracked(c)
  <2>1. ASSUME NEW m \in DOMAIN b.episodes
        PROVE  /\ c.episodes[m].until = None => c.tracks[b.episodes[m].owner][b.episodes[m].id].episode = m
               /\ c.episodes[m].until # None => b.episodes[m].since <= c.episodes[m].until
    <3>1. CASE c.episodes[m].until = None
      BY <3>1, <1>o, <1>c, <1>i, <1>t, <1>f DEF OpenAreTracked
    <3>2. CASE c.episodes[m].until # None
      BY <3>2, <1>g, <1>u, <1>i, <1>f DEF OpenAreTracked
    <3>. QED
      BY <3>1, <3>2
  <2>. QED
    BY <2>1, <1>e, <1>g, <1>1, <1>i DEF OpenAreTracked
<1>11. InOrder(c)
  <2>1. \A m \in DOMAIN b.episodes : b.episodes[m].until # None => c.episodes[m].until = b.episodes[m].until
    BY <1>g, <1>n
  <2>2. c.forgotten = b.forgotten
    BY <1>3 DEF Same
  <2>. QED
    BY <2>1, <2>2, <1>i, <1>e, <1>g DEF InOrder
<1>12. Timely(c)
  <2>1. \A p \in Owner \ b.forgotten, q \in Alert : Upto(b, p, c.tracks[p][q].onset) /\ Upto(b, p, c.tracks[p][q].off)
    BY <1>t, <1>i DEF Timely, Upto, blank
  <2>2. \A m \in DOMAIN b.episodes : b.episodes[m].owner \notin b.forgotten =>
            Upto(b, b.episodes[m].owner, b.episodes[m].since) /\ Upto(b, b.episodes[m].owner, c.episodes[m].until)
    <3>1. ASSUME NEW m \in DOMAIN b.episodes, b.episodes[m].owner \notin b.forgotten
          PROVE  Upto(b, b.episodes[m].owner, b.episodes[m].since) /\ Upto(b, b.episodes[m].owner, c.episodes[m].until)
      <4>1. Upto(b, b.episodes[m].owner, b.episodes[m].since) /\ Upto(b, b.episodes[m].owner, b.episodes[m].until)
        BY <3>1, <1>i DEF Timely
      <4>2. CASE IsEnded(m)
        BY <4>1, <4>2, <1>g, <1>n, <1>u DEF Upto
      <4>3. CASE ~ IsEnded(m)
        BY <4>1, <4>3, <1>g
      <4>. QED
        BY <4>2, <4>3
    <3>. QED
      BY <3>1
  <2>3. ASSUME NEW m \in DOMAIN b.episodes, b.episodes[m].owner \notin b.forgotten,
               c.episodes[m].until # None, c.tracks[b.episodes[m].owner][b.episodes[m].id].onset # None
        PROVE  c.episodes[m].until <= c.tracks[b.episodes[m].owner][b.episodes[m].id].onset
    <3>1. /\ b.episodes[m].owner \notin owners
          /\ c.tracks[b.episodes[m].owner][b.episodes[m].id] = b.tracks[b.episodes[m].owner][b.episodes[m].id]
      BY <2>3, <1>t, <1>f DEF blank
    <3>2. c.episodes[m].until = b.episodes[m].until
      BY <3>1, <1>g DEF IsEnded
    <3>. QED
      BY <3>1, <3>2, <2>3, <1>i DEF Timely
  <2>4. \A p, t1 : Upto(c, p, t1) <=> Upto(b, p, t1)
    BY <1>3, SameKnown
  <2>5. c.forgotten = b.forgotten
    BY <1>3 DEF Same
  <2>. QED
    BY <2>1, <2>2, <2>3, <2>4, <2>5, <1>e, <1>g DEF Timely
<1>13. \A o \in owners, id \in Alert : c.tracks[o][id] = blank
  BY <1>t
<1>. QED
  BY <1>3, <1>7, <1>8, <1>9, <1>10, <1>11, <1>12, <1>13 DEF Moves, BookInv

----------------------------------------------------------------------------
\* What a reading leaves alone, whatever it does to the episodes.
SameToasts(b, c) ==
    /\ c.granted = b.granted /\ c.dropped = b.dropped
    /\ c.lastToast = b.lastToast /\ c.toastSeq = b.toastSeq

Judges(b, c) == BookInv(c) /\ SameToasts(b, c) /\ Extends(b, c)

\* Judgements compose.
LEMMA JudgesTransitive ==
    ASSUME NEW a, NEW b, NEW c, Judges(a, b), Judges(b, c)
    PROVE  Judges(a, c)
BY ExtendsTransitive DEF Judges, SameToasts

\* A move is one.
LEMMA MovesJudges ==
    ASSUME NEW b, NEW c, Moves(b, c)
    PROVE  Judges(b, c)
BY DEF Moves, Judges, Same, SameToasts

\* So is whatever leaves the episodes alone.
LEMMA SameEpisodes ==
    ASSUME NEW b, NEW c, c.episodes = b.episodes
    PROVE  Extends(b, c)
BY DEF Extends

\* What the time and the place of a slot are set to.
WithDate(r, at) == [r EXCEPT !.lastAt = at, !.behind = 0]
LEMMA RuntimeSet ==
    ASSUME NEW r, IsRuntime(r), NEW at \in Int
    PROVE  IsRuntime(WithDate(r, at)) /\ WithDate(r, at).lastAt = at /\ WithDate(r, at).behind = 0
<1> DEFINE s == WithDate(r, at)
<1>0. s = [r EXCEPT !.lastAt = at, !.behind = 0]
  BY DEF WithDate
<1> HIDE DEF s
<1>1. s.lastAt = at /\ s.behind = 0
  BY <1>0 DEF IsRuntime
<1>2. s = [lastAt |-> s.lastAt, behind |-> s.behind, alive |-> s.alive, loaded |-> s.loaded, unloaded |-> s.unloaded]
  BY <1>0 DEF IsRuntime
<1>. QED
  <2>1. IsRuntime(s) /\ s.lastAt = at /\ s.behind = 0
    BY <1>0, <1>1, <1>2 DEF IsRuntime
  <2>. QED
    BY <2>1 DEF s

\* The slot moves up and its time with it.
LEMMA PutJudges ==
    ASSUME NEW b, BookInv(b), NEW k \in Key, NEW r, IsRuntime(r), NEW at \in Int,
           k \in DOMAIN b.runtimes => b.runtimes[k].lastAt <= at,
           NEW c, Put(b, k, r, at) = c
    PROVE  /\ Judges(b, c)
           /\ DOMAIN c.runtimes = DOMAIN b.runtimes \cup {k}
           /\ c.runtimes[k].lastAt = at /\ c.runtimes[k].behind = 0
           /\ c.hostAt = b.hostAt /\ c.forgotten = b.forgotten
<1>b. IsBook(b) /\ IsRecord(b)
  BY DEF BookInv, IsBook
<1>i. TracksPoint(b) /\ OpenAreTracked(b) /\ Timely(b) /\ InOrder(b)
  BY DEF BookInv
<1> DEFINE known  == k \in DOMAIN b.runtimes
           passed == {j \in DOMAIN b.runtimes : known => b.runtimes[j].behind < b.runtimes[k].behind}
           mine   == WithDate(r, at)
           older(j) == [b.runtimes[j] EXCEPT !.behind = @ + 1]
<1> DEFINE runtimes == [j \in DOMAIN b.runtimes \cup {k} |->
                           IF j = k THEN mine ELSE IF j \in passed THEN older(j) ELSE b.runtimes[j]]
<1>m. IsRuntime(mine) /\ mine.lastAt = at /\ mine.behind = 0
  BY RuntimeSet
<1>o. \A j \in DOMAIN b.runtimes : IsRuntime(older(j)) /\ older(j).lastAt = b.runtimes[j].lastAt
  <2>1. ASSUME NEW s, IsRuntime(s)
        PROVE  IsRuntime([s EXCEPT !.behind = @ + 1]) /\ [s EXCEPT !.behind = @ + 1].lastAt = s.lastAt
    BY <2>1 DEF IsRuntime
  <2>. QED
    BY <2>1, <1>b DEF IsBook
<1>0. c = [b EXCEPT !.runtimes = runtimes]
  BY DEF Put, WithDate
<1> HIDE DEF mine, older, passed
<1>1. c.runtimes = runtimes
  BY <1>0, <1>b DEF IsRecord
<1>2. /\ IsRecord(c) /\ SameToasts(b, c)
      /\ c.tracks = b.tracks /\ c.episodes = b.episodes /\ c.opened = b.opened
      /\ c.hostAt = b.hostAt /\ c.forgotten = b.forgotten
  <2> HIDE DEF runtimes
  <2>. QED
    BY <1>0, <1>b DEF IsRecord, SameToasts
<1>3. /\ DOMAIN c.runtimes = DOMAIN b.runtimes \cup {k}
      /\ c.runtimes = [j \in DOMAIN c.runtimes |-> c.runtimes[j]]
      /\ c.runtimes[k] = mine
      /\ \A j \in DOMAIN b.runtimes \ {k} : c.runtimes[j] = older(j) \/ c.runtimes[j] = b.runtimes[j]
  BY <1>1
<1>4. \A j \in DOMAIN c.runtimes : IsRuntime(c.runtimes[j])
  BY <1>3, <1>m, <1>o, <1>b DEF IsBook
<1>5. IsBook(c)
  BY <1>2, <1>3, <1>4, <1>b DEF IsBook
<1>6. \A o \in Owner, t \in Int \cup {None} : Upto(b, o, t) => Upto(c, o, t)
  <2>1. ASSUME NEW o \in Known(b)
        PROVE  o \in Known(c) /\ LastAt(b, o) <= LastAt(c, o) /\ LastAt(b, o) \in Int /\ LastAt(c, o) \in Int
    <3>1. CASE o = Host
      BY <2>1, <3>1, <1>2, <1>b DEF Known, LastAt, IsBook
    <3>2. CASE o # Host
      <4>1. o \in DOMAIN b.runtimes /\ o \in Owner
        BY <2>1, <3>2 DEF Known
      <4>2. b.runtimes[o].lastAt \in Int
        BY <4>1, <1>b DEF IsBook, IsRuntime
      <4>3. c.runtimes[o].lastAt \in Int /\ b.runtimes[o].lastAt <= c.runtimes[o].lastAt
        BY <4>1, <4>2, <1>3, <1>m, <1>o
      <4>. QED
        BY <4>1, <4>2, <4>3, <1>3, <3>2 DEF Known, LastAt
    <3>. QED
      BY <3>1, <3>2
  <2>. QED
    BY <2>1 DEF Upto
<1>7. TracksPoint(c) /\ OpenAreTracked(c) /\ InOrder(c)
  <2>1. TracksPoint(c)
    BY <1>2, <1>i DEF TracksPoint
  <2>2. OpenAreTracked(c)
    BY <1>2, <1>i DEF OpenAreTracked
  <2>3. InOrder(c)
    BY <1>2, <1>i DEF InOrder
  <2>. QED
    BY <2>1, <2>2, <2>3
<1>8. Timely(c)
  <2>1. /\ \A o \in Owner, id \in Alert : b.tracks[o][id].onset \in Int \cup {None} /\ b.tracks[o][id].off \in Int \cup {None}
        /\ \A n \in DOMAIN b.episodes : /\ b.episodes[n].owner \in Owner
                                        /\ b.episodes[n].since \in Int \cup {None}
                                        /\ b.episodes[n].until \in Int \cup {None}
    BY <1>b DEF IsBook, IsEpisodes, Tracks, Track, Episode
  <2>. QED
    BY <2>1, <1>6, <1>2, <1>i DEF Timely
<1>. QED
  BY <1>2, <1>3, <1>m, <1>5, <1>7, <1>8, SameEpisodes DEF Judges, BookInv

\* A slot that is evicted leaves no open episode, and is forgotten.
LEMMA EvictionJudges ==
    ASSUME NEW b, BookInv(b), NEW c, EvictedRuntimes(b) = c
    PROVE  /\ Judges(b, c)
           /\ c.hostAt = b.hostAt
           /\ \A k \in DOMAIN b.runtimes : b.runtimes[k].behind < AlertSlots =>
                 k \in DOMAIN c.runtimes /\ c.runtimes[k] = b.runtimes[k]
<1> DEFINE gone == {k \in DOMAIN b.runtimes : b.runtimes[k].behind >= AlertSlots}
           left == [k \in DOMAIN b.runtimes \ gone |-> b.runtimes[k]]
<1>b. IsBook(b) /\ IsRecord(b)
  BY DEF BookInv, IsBook
<1>k. gone \subseteq Key /\ gone \subseteq DOMAIN b.runtimes
  BY <1>b DEF IsBook
<1>n. \A k \in DOMAIN b.runtimes : b.runtimes[k].behind < AlertSlots => k \notin gone
  <2>1. \A k \in DOMAIN b.runtimes : b.runtimes[k].behind \in Nat
    BY <1>b DEF IsBook, IsRuntime
  <2>. QED
    BY <2>1, AlertsAssumption
<1> HIDE DEF gone
<1>g. PICK g : Gap(b, gone) = g
  OBVIOUS
<1>1. BookInv(g) /\ Same(b, g) /\ Extends(b, g)
  <2>1. \A o \in gone : o \in Owner /\ o \in Known(b)
    BY <1>k, AlertsAssumption DEF Known, Owner
  <2>. QED
    BY <2>1, <1>g, GapMoves DEF Moves
<1>i. /\ IsBook(g) /\ IsRecord(g) /\ TracksPoint(g) /\ OpenAreTracked(g) /\ Timely(g) /\ InOrder(g)
      /\ IsEpisodes(g.episodes) /\ g.tracks \in Tracks
  BY <1>1 DEF BookInv, IsBook
<1>0. c = [g EXCEPT !.forgotten = g.forgotten \cup gone, !.runtimes = left]
  BY <1>g DEF EvictedRuntimes, gone
<1>2. /\ c.runtimes = left /\ c.forgotten = g.forgotten \cup gone
      /\ IsRecord(c) /\ SameToasts(g, c)
      /\ c.tracks = g.tracks /\ c.episodes = g.episodes /\ c.opened = g.opened /\ c.hostAt = g.hostAt
  <2> HIDE DEF left
  <2>. QED
    BY <1>0, <1>i DEF IsRecord, SameToasts
<1>3. /\ DOMAIN c.runtimes = DOMAIN b.runtimes \ gone
      /\ c.runtimes = [k \in DOMAIN c.runtimes |-> c.runtimes[k]]
      /\ \A k \in DOMAIN c.runtimes : c.runtimes[k] = b.runtimes[k]
  BY <1>2
<1>4. IsBook(c)
  BY <1>2, <1>3, <1>i, <1>k, <1>b DEF IsBook
<1>5. g.runtimes = b.runtimes /\ g.forgotten = b.forgotten /\ g.hostAt = b.hostAt
  BY <1>1 DEF Same
<1>6. TracksPoint(c) /\ OpenAreTracked(c) /\ InOrder(c)
  <2>1. TracksPoint(c)
    BY <1>2, <1>i DEF TracksPoint
  <2>2. OpenAreTracked(c)
    BY <1>2, <1>i DEF OpenAreTracked
  <2>3. InOrder(c)
    BY <1>2, <1>i DEF InOrder
  <2>. QED
    BY <2>1, <2>2, <2>3
<1>7. \A o, t : o \notin gone /\ Upto(g, o, t) => Upto(c, o, t)
  BY <1>2, <1>3, <1>5 DEF Upto, Known, LastAt
<1>8. Timely(c)
  BY <1>7, <1>2, <1>i DEF Timely
<1>9. SameToasts(b, c)
  BY <1>1, <1>2 DEF SameToasts, Same
<1>10. Extends(b, c)
  BY <1>1, <1>2 DEF Extends
<1>. QED
  BY <1>2, <1>3, <1>4, <1>5, <1>6, <1>8, <1>9, <1>10, <1>n DEF Judges, BookInv

\* A slot begins as a runtime.
LEMMA NewIsRuntime == IsRuntime(newRuntime)
BY DEF newRuntime, IsRuntime

\* A reading dates its slot, at no earlier time unless after a gap.
LEMMA EnteredJudges ==
    ASSUME NEW b, BookInv(b), NEW k \in Key, NEW at \in Int, NEW covered,
           k \in DOMAIN b.runtimes => b.runtimes[k].lastAt <= at,
           NEW c, Entered(b, k, at, covered) = c
    PROVE  Judges(b, c) /\ k \in DOMAIN c.runtimes /\ c.runtimes[k].lastAt = at
<1>b. IsBook(b)
  BY DEF BookInv
<1>k. k \in Owner /\ k # Host
  BY AlertsAssumption DEF Owner
<1>1. CASE k \notin DOMAIN b.runtimes
  <2>1. PICK p : Put(b, k, newRuntime, at) = p
    OBVIOUS
  <2>2. Judges(b, p) /\ k \in DOMAIN p.runtimes /\ p.runtimes[k].lastAt = at /\ p.runtimes[k].behind = 0
    BY <1>1, <2>1, NewIsRuntime, PutJudges
  <2>3. EvictedRuntimes(p) = c
    BY <1>1, <2>1 DEF Entered
  <2>4. BookInv(p)
    BY <2>2 DEF Judges
  <2>5. 0 < AlertSlots
    BY AlertsAssumption
  <2>6. Judges(p, c) /\ k \in DOMAIN c.runtimes /\ c.runtimes[k] = p.runtimes[k]
    BY <2>2, <2>3, <2>4, <2>5, EvictionJudges
  <2>. QED
    BY <2>2, <2>6, JudgesTransitive
<1>2. CASE k \in DOMAIN b.runtimes /\ covered
  <2>1. Put(b, k, b.runtimes[k], at) = c
    BY <1>2 DEF Entered
  <2>2. IsRuntime(b.runtimes[k])
    BY <1>2, <1>b DEF IsBook
  <2>. QED
    BY <1>2, <2>1, <2>2, PutJudges
<1>3. CASE k \in DOMAIN b.runtimes /\ ~ covered
  <2>1. PICK g : Gap(b, {k}) = g
    OBVIOUS
  <2>2. k \in Known(b)
    BY <1>3, <1>k DEF Known
  <2>3. Moves(b, g)
    BY <2>1, <2>2, <1>k, GapMoves
  <2>4. Put(g, k, newRuntime, at) = c
    BY <1>3, <2>1 DEF Entered
  <2>5. BookInv(g) /\ g.runtimes = b.runtimes
    BY <2>3 DEF Moves, Same
  <2>6. Judges(g, c) /\ k \in DOMAIN c.runtimes /\ c.runtimes[k].lastAt = at
    BY <1>3, <2>4, <2>5, NewIsRuntime, PutJudges
  <2>. QED
    BY <2>3, <2>6, MovesJudges, JudgesTransitive
<1>. QED
  BY <1>1, <1>2, <1>3

WithCounts(s, x, y, z) == [s EXCEPT !.alive = x, !.loaded = y, !.unloaded = z]

\* What is remembered of a runtime is no time.
LEMMA CountsSet ==
    ASSUME NEW s, IsRuntime(s), NEW x, NEW y, NEW z, NEW u, u = WithCounts(s, x, y, z)
    PROVE  IsRuntime(u) /\ u.lastAt = s.lastAt
BY DEF IsRuntime, WithCounts

\* So counting keeps the time.
LEMMA CountedIsRuntime ==
    ASSUME NEW s, IsRuntime(s), NEW r
    PROVE  IsRuntime(Counted(s, r)) /\ Counted(s, r).lastAt = s.lastAt
<1>1. ASSUME NEW y, NEW z, NEW u, u = [s EXCEPT !.loaded = y, !.unloaded = z]
      PROVE  IsRuntime(u) /\ u.lastAt = s.lastAt
  BY <1>1 DEF IsRuntime
<1>2. CASE r.state \in {"unreachable", "failing"}
  <2>1. Counted(s, r) = [s EXCEPT !.loaded = None, !.unloaded = FALSE]
    BY <1>2 DEF Counted
  <2>. QED
    BY <2>1, <1>1
<1>3. CASE r.state \notin {"unreachable", "failing"}
  <2>1. Counted(s, r) = WithCounts(s, AliveAfter(s, r), LoadedAfter(s, r), UnloadedAfter(s, r))
    BY <1>3 DEF Counted, WithCounts
  <2>. QED
    BY <2>1, CountsSet
<1>. QED
  BY <1>2, <1>3

\* Setting what does not date an owner.
LEMMA UndatedJudges ==
    ASSUME NEW b, BookInv(b), NEW c, IsRecord(c),
           c.tracks = b.tracks, c.episodes = b.episodes, c.opened = b.opened, c.hostAt = b.hostAt,
           c.forgotten = b.forgotten, SameToasts(b, c),
           DOMAIN c.runtimes = DOMAIN b.runtimes,
           c.runtimes = [k \in DOMAIN c.runtimes |-> c.runtimes[k]],
           \A k \in DOMAIN b.runtimes : IsRuntime(c.runtimes[k]) /\ c.runtimes[k].lastAt = b.runtimes[k].lastAt
    PROVE  /\ Judges(b, c)
           /\ \A o \in Known(b) : o \in Known(c) /\ LastAt(c, o) = LastAt(b, o)
<1>b. IsBook(b) /\ TracksPoint(b) /\ OpenAreTracked(b) /\ Timely(b) /\ InOrder(b)
  BY DEF BookInv
<1>1. IsBook(c)
  BY <1>b DEF IsBook
<1>2. \A o \in Known(b) : o \in Known(c) /\ LastAt(c, o) = LastAt(b, o)
  BY DEF Known, LastAt
<1>3. \A o, t : Upto(b, o, t) => Upto(c, o, t)
  BY <1>2 DEF Upto
<1>4. TracksPoint(c)
  BY <1>b DEF TracksPoint
<1>5. OpenAreTracked(c)
  BY <1>b DEF OpenAreTracked
<1>6. InOrder(c)
  BY <1>b DEF InOrder
<1>7. Timely(c)
  BY <1>b, <1>3 DEF Timely
<1>. QED
  BY <1>1, <1>2, <1>4, <1>5, <1>6, <1>7, SameEpisodes DEF Judges, BookInv

\* A step of an alert after others of the same reading.
LEMMA StepJudges ==
    ASSUME NEW a, NEW b, Judges(a, b), NEW o \in Known(b), NEW at, LastAt(b, o) = at,
           NEW id \in AlertOf(o), id \in Alert, NEW condition,
           NEW c, Step(b, o, id, condition, at) = c
    PROVE  Judges(a, c) /\ o \in Known(c) /\ LastAt(c, o) = at
<1>1. BookInv(b)
  BY DEF Judges
<1>2. Moves(b, c)
  BY <1>1, StepMoves
<1>3. Same(b, c) /\ Judges(b, c)
  BY <1>2, MovesJudges DEF Moves
<1>. QED
  BY <1>3, SameKnown, JudgesTransitive

\* Counting a reading touches no episode.
LEMMA CountingJudges ==
    ASSUME NEW b, BookInv(b), NEW k \in DOMAIN b.runtimes, NEW r,
           NEW c, WithRuntime(b, k, Counted(b.runtimes[k], r)) = c
    PROVE  /\ Judges(b, c)
           /\ \A o \in Known(b) : o \in Known(c) /\ LastAt(c, o) = LastAt(b, o)
<1>b. IsBook(b) /\ IsRecord(b)
  BY DEF BookInv, IsBook
<1>1. PICK s : Counted(b.runtimes[k], r) = s
  OBVIOUS
<1>2. IsRuntime(s) /\ s.lastAt = b.runtimes[k].lastAt
  BY <1>1, <1>b, CountedIsRuntime DEF IsBook
<1>3. /\ IsRecord(c) /\ SameToasts(b, c)
      /\ c.tracks = b.tracks /\ c.episodes = b.episodes /\ c.opened = b.opened
      /\ c.hostAt = b.hostAt /\ c.forgotten = b.forgotten
      /\ c.runtimes = [b.runtimes EXCEPT ![k] = s]
  BY <1>1, <1>b DEF WithRuntime, IsRecord, SameToasts
<1>4. /\ DOMAIN c.runtimes = DOMAIN b.runtimes
      /\ c.runtimes = [j \in DOMAIN c.runtimes |-> c.runtimes[j]]
      /\ \A j \in DOMAIN b.runtimes : c.runtimes[j] = IF j = k THEN s ELSE b.runtimes[j]
  BY <1>3, <1>b DEF IsBook
<1>5. \A j \in DOMAIN b.runtimes : IsRuntime(c.runtimes[j]) /\ c.runtimes[j].lastAt = b.runtimes[j].lastAt
  BY <1>2, <1>4, <1>b DEF IsBook
<1>. QED
  BY <1>3, <1>4, <1>5, UndatedJudges

\* The five alerts of a runtime, one after the other.
LEMMA JudgedJudges ==
    ASSUME NEW b, BookInv(b), NEW k \in Key, NEW r, NEW at \in Int, NEW covered,
           k \in DOMAIN b.runtimes => b.runtimes[k].lastAt <= at
    PROVE  Judges(b, Judged(b, k, r, at, covered))
<1> DEFINE s == Counted(Entered(b, k, at, covered).runtimes[k], r)
<1>e. PICK e : Entered(b, k, at, covered) = e
  OBVIOUS
<1>1. Judges(b, e) /\ k \in DOMAIN e.runtimes /\ e.runtimes[k].lastAt = at
  BY <1>e, EnteredJudges
<1>k. k \in Known(e) /\ LastAt(e, k) = at /\ BookInv(e)
  BY <1>1, AlertsAssumption DEF Known, LastAt, Owner, Judges
<1>0. PICK b0 : WithRuntime(e, k, Counted(e.runtimes[k], r)) = b0
  OBVIOUS
<1>2. Judges(b, b0) /\ k \in Known(b0) /\ LastAt(b0, k) = at
  BY <1>0, <1>1, <1>k, CountingJudges, JudgesTransitive
<1>i. {"runtime-lost", "model-unloaded", "splash-recovering", "omlx-prefill-stall", "omlx-memory-guard"}
        \subseteq AlertOf(k) \cap Alert
  BY AlertsAssumption DEF AlertOf, Alert, RuntimeAlert
<1>3. PICK b1 : Step(b0, k, "runtime-lost", s.alive /\ r.state = "unreachable", at) = b1
  OBVIOUS
<1>4. PICK b2 : Step(b1, k, "model-unloaded", s.unloaded, at) = b2
  OBVIOUS
<1>5. PICK b3 : Step(b2, k, "splash-recovering", r.state = "recovering", at) = b3
  OBVIOUS
<1>6. PICK b4 : Step(b3, k, "omlx-prefill-stall", r.stale, at) = b4
  OBVIOUS
<1>7. PICK b5 : Step(b4, k, "omlx-memory-guard", r.state \notin {"unreachable", "failing"} /\ r.guard, at) = b5
  OBVIOUS
<1>8. Judged(b, k, r, at, covered) = b5
  BY <1>e, <1>0, <1>3, <1>4, <1>5, <1>6, <1>7 DEF Judged
<1> HIDE DEF s
<1>c1. Judges(b, b1) /\ k \in Known(b1) /\ LastAt(b1, k) = at
  BY <1>2, <1>3, <1>i, StepJudges
<1>c2. Judges(b, b2) /\ k \in Known(b2) /\ LastAt(b2, k) = at
  BY <1>c1, <1>4, <1>i, StepJudges
<1>c3. Judges(b, b3) /\ k \in Known(b3) /\ LastAt(b3, k) = at
  BY <1>c2, <1>5, <1>i, StepJudges
<1>c4. Judges(b, b4) /\ k \in Known(b4) /\ LastAt(b4, k) = at
  BY <1>c3, <1>6, <1>i, StepJudges
<1>c5. Judges(b, b5)
  BY <1>c4, <1>7, <1>i, StepJudges
<1>. QED
  BY <1>8, <1>c5

\* A reading of a slot, or one of an earlier request, which is left out.
LEMMA EvaluatedRuntimeJudges ==
    ASSUME NEW b, BookInv(b), NEW k \in Key, NEW r, NEW at \in Int, NEW covered
    PROVE  Judges(b, EvaluatedRuntime(b, k, r, at, covered))
<1>1. CASE k \in DOMAIN b.runtimes /\ at < b.runtimes[k].lastAt
  BY <1>1, ExtendsItself DEF EvaluatedRuntime, Judges, SameToasts
<1>2. CASE ~ (k \in DOMAIN b.runtimes /\ at < b.runtimes[k].lastAt)
  <2>1. k \in DOMAIN b.runtimes => b.runtimes[k].lastAt \in Int
    BY DEF BookInv, IsBook, IsRuntime
  <2>2. k \in DOMAIN b.runtimes => b.runtimes[k].lastAt <= at
    BY <1>2, <2>1
  <2>. QED
    BY <1>2, <2>2, JudgedJudges DEF EvaluatedRuntime
<1>. QED
  BY <1>1, <1>2

\* The time of the host goes on.
LEMMA HostDatedJudges ==
    ASSUME NEW b, BookInv(b), NEW at \in Int, b.hostAt # None => b.hostAt <= at,
           NEW c, c \in {HostSeen(b, at), HostBegun(b, at)}
    PROVE  Judges(b, c) /\ Host \in Known(c) /\ LastAt(c, Host) = at
<1>b. IsBook(b) /\ IsRecord(b) /\ TracksPoint(b) /\ OpenAreTracked(b) /\ Timely(b) /\ InOrder(b)
  BY DEF BookInv, IsBook
<1>1. /\ IsRecord(c) /\ SameToasts(b, c)
      /\ c.tracks = b.tracks /\ c.episodes = b.episodes /\ c.opened = b.opened
      /\ c.runtimes = b.runtimes /\ c.forgotten = b.forgotten
      /\ c.hostAt = at
  <2>1. CASE c = HostSeen(b, at)
    BY <2>1, <1>b DEF HostSeen, IsRecord, SameToasts
  <2>2. CASE c = HostBegun(b, at)
    BY <2>2, <1>b DEF HostBegun, IsRecord, SameToasts
  <2>. QED
    BY <2>1, <2>2
<1>n. at # None
  BY AlertsAssumption
<1>2. IsBook(c)
  BY <1>1, <1>b DEF IsBook
<1>3. Host \in Known(c) /\ LastAt(c, Host) = at
  BY <1>1, <1>n DEF Known, LastAt, Owner
<1>h. b.hostAt \in Int \cup {None}
  BY <1>b DEF IsBook
<1>4. \A o, t : t \in Int \cup {None} /\ Upto(b, o, t) => Upto(c, o, t)
  BY <1>1, <1>n, <1>h DEF Upto, Known, LastAt
<1>5. TracksPoint(c)
  BY <1>1, <1>b DEF TracksPoint
<1>6. OpenAreTracked(c)
  BY <1>1, <1>b DEF OpenAreTracked
<1>7. InOrder(c)
  BY <1>1, <1>b DEF InOrder
<1>8. Timely(c)
  <2>1. /\ \A o \in Owner, id \in Alert : b.tracks[o][id].onset \in Int \cup {None} /\ b.tracks[o][id].off \in Int \cup {None}
        /\ \A n \in DOMAIN b.episodes : /\ b.episodes[n].since \in Int \cup {None}
                                        /\ b.episodes[n].until \in Int \cup {None}
    BY <1>b DEF IsBook, IsEpisodes, Tracks, Track, Episode
  <2>. QED
    BY <2>1, <1>4, <1>1, <1>b DEF Timely
<1>. QED
  BY <1>1, <1>2, <1>3, <1>5, <1>6, <1>7, <1>8, SameEpisodes DEF Judges, BookInv

\* It goes on, or begins again after a gap.
LEMMA HostEnteredJudges ==
    ASSUME NEW b, BookInv(b), NEW at \in Int, NEW covered, b.hostAt # None => b.hostAt <= at,
           NEW c, HostEntered(b, at, covered) = c
    PROVE  Judges(b, c) /\ Host \in Known(c) /\ LastAt(c, Host) = at
<1>1. CASE c = HostSeen(b, at)
  BY <1>1, HostDatedJudges
<1>2. CASE c = HostBegun(Gap(b, {Host}), at)
  <2>1. PICK g : Gap(b, {Host}) = g
    OBVIOUS
  <2>2. Host \in Owner /\ Host \notin b.forgotten
    BY AlertsAssumption DEF BookInv, IsBook, Owner
  <2>3. Moves(b, g)
    BY <2>1, <2>2, GapMoves
  <2>4. BookInv(g) /\ g.hostAt = b.hostAt /\ Judges(b, g)
    BY <2>3, MovesJudges DEF Moves, Same
  <2>. QED
    BY <1>2, <2>1, <2>4, HostDatedJudges, JudgesTransitive
<1>. QED
  BY <1>1, <1>2 DEF HostEntered

\* The alerts of the host are alerts.
LEMMA HostAlerts ==
    /\ {"pressure-critical", "pressure-warning", "thermal", "swap-growth"} \subseteq AlertOf(Host) \cap Alert
    /\ Host \in Owner
BY DEF AlertOf, Alert, HostAlert, Owner

\* Critical pressure, and the warning it supersedes.
LEMMA PressureJudges ==
    ASSUME NEW a, NEW b, Judges(a, b), Host \in Known(b), NEW at \in Int, LastAt(b, Host) = at, NEW level,
           NEW c, SteppedPressure(b, level, at) = c
    PROVE  Judges(a, c) /\ Host \in Known(c) /\ LastAt(c, Host) = at
<1> DEFINE is(n) == IF level = None THEN None ELSE level = n
<1>1. PICK d : Step(b, Host, "pressure-critical", is(4), at) = d
  OBVIOUS
<1>2. Judges(a, d) /\ Host \in Known(d) /\ LastAt(d, Host) = at
  BY <1>1, HostAlerts, StepJudges
<1>3. c = Closed(d, Host, "pressure-warning", at) \/ c = Step(d, Host, "pressure-warning", is(2), at)
  BY <1>1 DEF SteppedPressure
<1>4. CASE c = Closed(d, Host, "pressure-warning", at)
  <2>1. BookInv(d)
    BY <1>2 DEF Judges
  <2>2. Moves(d, c)
    BY <1>2, <1>4, <2>1, HostAlerts, ClosedMoves
  <2>3. Judges(d, c) /\ Same(d, c)
    BY <2>2, MovesJudges DEF Moves
  <2>. QED
    BY <1>2, <2>3, SameKnown, JudgesTransitive
<1>5. CASE c = Step(d, Host, "pressure-warning", is(2), at)
  BY <1>2, <1>5, HostAlerts, StepJudges
<1>. QED
  BY <1>3, <1>4, <1>5

\* The growth of swap.
LEMMA SwapJudges ==
    ASSUME NEW a, NEW b, Judges(a, b), Host \in Known(b), NEW at \in Int, LastAt(b, Host) = at,
           NEW sampledAt, NEW bytes
    PROVE  Judges(a, SteppedSwap(b, sampledAt, bytes, at))
<1>1. PICK swap : SwapAfter(b, sampledAt, bytes, at) = swap
  OBVIOUS
<1>2. PICK c : WithSwap(b, swap) = c
  OBVIOUS
<1>3. PICK condition : (IF bytes = None \/ c.swap = <<>> THEN None ELSE SwapGrows(c, at)) = condition
  OBVIOUS
<1>4. SteppedSwap(b, sampledAt, bytes, at) = Step(c, Host, "swap-growth", condition, at)
  BY <1>1, <1>2, <1>3 DEF SteppedSwap
<1>b. BookInv(b) /\ IsBook(b) /\ IsRecord(b)
  BY DEF Judges, BookInv, IsBook
<1>5. /\ IsRecord(c) /\ SameToasts(b, c)
      /\ c.tracks = b.tracks /\ c.episodes = b.episodes /\ c.opened = b.opened
      /\ c.hostAt = b.hostAt /\ c.forgotten = b.forgotten /\ c.runtimes = b.runtimes
  BY <1>2, <1>b DEF WithSwap, IsRecord, SameToasts
<1>6. Judges(b, c) /\ Host \in Known(c) /\ LastAt(c, Host) = at
  BY <1>5, <1>b, UndatedJudges DEF IsBook
<1>. QED
  BY <1>4, <1>6, HostAlerts, JudgesTransitive, StepJudges

\* A reading of the host, or one of an earlier request.
LEMMA EvaluatedHostJudges ==
    ASSUME NEW b, BookInv(b), NEW h, NEW at \in Int, NEW covered
    PROVE  Judges(b, EvaluatedHost(b, h, at, covered))
<1>1. CASE b.hostAt # None /\ at < b.hostAt
  BY <1>1, ExtendsItself DEF EvaluatedHost, Judges, SameToasts
<1>2. CASE ~ (b.hostAt # None /\ at < b.hostAt)
  <2> DEFINE mac     == h # None /\ h.age <= PartFresh.mac
             thermal == h # None /\ h.age <= PartFresh.thermal
  <2>1. PICK level : (IF mac THEN h.level ELSE None) = level
    OBVIOUS
  <2>2. PICK hot : (IF thermal THEN h.hot ELSE None) = hot
    OBVIOUS
  <2>3. PICK sampledAt, bytes : (IF mac THEN at - h.age ELSE None) = sampledAt /\ (IF mac THEN h.swap ELSE None) = bytes
    OBVIOUS
  <2>4. PICK e : HostEntered(b, at, covered) = e
    OBVIOUS
  <2>5. PICK c : SteppedPressure(e, level, at) = c
    OBVIOUS
  <2>6. PICK d : Step(c, Host, "thermal", hot, at) = d
    OBVIOUS
  <2>7. EvaluatedHost(b, h, at, covered) = SteppedSwap(d, sampledAt, bytes, at)
    BY <1>2, <2>1, <2>2, <2>3, <2>4, <2>5, <2>6 DEF EvaluatedHost
  <2>8. b.hostAt # None => b.hostAt <= at
    BY <1>2 DEF BookInv, IsBook
  <2> HIDE DEF mac, thermal
  <2>9. Judges(b, e) /\ Host \in Known(e) /\ LastAt(e, Host) = at
    BY <2>4, <2>8, HostEnteredJudges
  <2>10. Judges(b, c) /\ Host \in Known(c) /\ LastAt(c, Host) = at
    BY <2>5, <2>9, PressureJudges
  <2>11. Judges(b, d) /\ Host \in Known(d) /\ LastAt(d, Host) = at
    BY <2>6, <2>10, HostAlerts, StepJudges
  <2>. QED
    BY <2>7, <2>11, SwapJudges
<1>. QED
  BY <1>1, <1>2

\* Forgetting an episode no track holds.
LEMMA KeptJudges ==
    ASSUME NEW b, BookInv(b)
    PROVE  Judges(b, Kept(b))
<1> DEFINE held == UNION {{b.tracks[o][id].episode : id \in Alert} : o \in Owner}
           stay == DOMAIN b.episodes \cap (b.log \cup held)
<1>b. IsBook(b) /\ IsRecord(b) /\ IsEpisodes(b.episodes) /\ b.tracks \in Tracks
  BY DEF BookInv, IsBook
<1>i. TracksPoint(b) /\ OpenAreTracked(b) /\ Timely(b) /\ InOrder(b)
  BY DEF BookInv
<1>h. \A o \in Owner, id \in Alert : b.tracks[o][id].episode \in held
  OBVIOUS
<1>c. PICK c : Kept(b) = c
  OBVIOUS
<1>0. c = [b EXCEPT !.episodes = [n \in stay |-> b.episodes[n]]]
  BY <1>c DEF Kept
<1> HIDE DEF held
<1>1. /\ IsRecord(c) /\ Same(b, c)
      /\ c.tracks = b.tracks /\ c.opened = b.opened
      /\ c.episodes = [n \in stay |-> b.episodes[n]]
  BY <1>0, <1>b DEF IsRecord, Same
<1>s. stay \subseteq DOMAIN b.episodes /\ \A n \in DOMAIN b.episodes : n \in held => n \in stay
  OBVIOUS
<1> HIDE DEF stay
<1>2. /\ DOMAIN c.episodes = stay
      /\ c.episodes = [n \in DOMAIN c.episodes |-> c.episodes[n]]
      /\ \A n \in stay : c.episodes[n] = b.episodes[n]
  BY <1>1
<1>3. IsEpisodes(c.episodes)
  BY <1>2, <1>s, <1>b DEF IsEpisodes
<1>4. IsBook(c)
  BY <1>1, <1>3, <1>b, SameIsBook DEF IsBook
<1>5. TracksPoint(c)
  BY <1>1, <1>2, <1>s, <1>h, <1>i DEF TracksPoint
<1>6. OpenAreTracked(c)
  BY <1>1, <1>2, <1>s, <1>i DEF OpenAreTracked
<1>7. InOrder(c)
  BY <1>1, <1>2, <1>s, <1>i DEF InOrder, Same
<1>8. Timely(c)
  <2>1. \A p, t1 : Upto(c, p, t1) <=> Upto(b, p, t1)
    BY <1>1, SameKnown
  <2>2. c.forgotten = b.forgotten
    BY <1>1 DEF Same
  <2>. QED
    BY <2>1, <2>2, <1>1, <1>2, <1>s, <1>i DEF Timely
<1>9. Extends(b, c)
  BY <1>2, <1>s DEF Extends
<1>10. SameToasts(b, c)
  BY <1>1 DEF Same, SameToasts
<1>. QED
  BY <1>c, <1>4, <1>5, <1>6, <1>7, <1>8, <1>9, <1>10 DEF Judges, BookInv

\* A whole reading keeps the book sound and adds no toast.
LEMMA EvaluatedJudges ==
    ASSUME NEW b, BookInv(b), NEW k \in Key, NEW r, NEW h, NEW at \in Int, NEW covered
    PROVE  Judges(b, Evaluated(b, k, r, h, at, covered))
<1>1. PICK c : EvaluatedRuntime(b, k, r, at, covered) = c
  OBVIOUS
<1>2. PICK d : EvaluatedHost(c, h, at, covered) = d
  OBVIOUS
<1>3. Judges(b, c) /\ BookInv(c)
  BY <1>1, EvaluatedRuntimeJudges DEF Judges
<1>4. Judges(c, d) /\ BookInv(d)
  BY <1>2, <1>3, EvaluatedHostJudges DEF Judges
<1>5. Judges(d, Kept(d))
  BY <1>4, KeptJudges
<1>6. Evaluated(b, k, r, h, at, covered) = Kept(d)
  BY <1>1, <1>2 DEF Evaluated
<1>. QED
  BY <1>3, <1>4, <1>5, <1>6, JudgesTransitive

----------------------------------------------------------------------------
(* The limiter.                                                            *)

\* Grants are a minute apart, and an hour from the PerHour-th before; what was
\* dropped is so old that the last grant is an hour from it but for a minute.
Limited(granted, dropped) ==
    /\ granted \in Seq(Int)
    /\ dropped \in 0..Len(granted)
    /\ \A i, j \in 1..Len(granted) : i < j =>
          /\ granted[j] - granted[i] >= Minute
          /\ j - i >= PerHour => granted[j] - granted[i] >= Hour
    /\ dropped > 0 => /\ dropped < Len(granted)
                      /\ granted[Len(granted)] - granted[dropped] >= Hour - Minute

Limits(b) == Limited(b.granted, b.dropped)

\* What the limiter drops at a time "at": an hour old, and all that is in front.
Drops(granted, dropped, at, d) ==
    /\ d \in dropped..Len(granted)
    /\ \A i \in (dropped + 1)..d : at - granted[i] >= Hour
    /\ d < Len(granted) => at - granted[d + 1] < Hour

\* There is such a number, the least that leaves a recent grant in front.
LEMMA DroppedAtDrops ==
    ASSUME NEW granted \in Seq(Int), NEW dropped \in 0..Len(granted), NEW at \in Int
    PROVE  Drops(granted, dropped, at, DroppedAt(granted, dropped, at))
<1> DEFINE S == dropped..Len(granted)
           T == {d \in S : d < Len(granted) => at - granted[d + 1] < Hour}
<1>h. Hour \in Nat
  BY AlertsAssumption
<1>l. Len(granted) \in Nat /\ dropped \in Nat /\ S \subseteq Nat
  OBVIOUS
<1>1. Len(granted) \in T
  BY <1>l
<1>2. PICK d \in T : \A e \in T : ~ (<<e, d>> \in OpToRel(<, Nat))
  <2>1. T \subseteq Nat /\ T # {}
    BY <1>1, <1>l
  <2> HIDE DEF T
  <2>. QED
    BY <2>1, NatLessThanWellFounded, WFMin
<1>3. \A e \in T : ~ (e < d)
  BY <1>2, <1>l DEF OpToRel
<1>4. ASSUME NEW i \in (dropped + 1)..d
      PROVE  at - granted[i] >= Hour
  <2>a. d \in dropped..Len(granted)
    OBVIOUS
  <2>0. d \in Nat /\ i \in Nat /\ i >= dropped + 1 /\ i <= d
    BY <1>l, <2>a, <1>4
  <2>1. i - 1 \in S /\ i - 1 < d /\ i - 1 < Len(granted) /\ i \in 1..Len(granted)
    BY <2>a, <2>0, <1>l
  <2>2. i - 1 \notin T
    BY <2>1, <1>3
  <2>3. ~ (at - granted[(i - 1) + 1] < Hour)
    BY <2>1, <2>2
  <2>4. (i - 1) + 1 = i /\ granted[i] \in Int
    BY <2>1
  <2>. QED
    BY <2>3, <2>4, <1>h
<1>5. Drops(granted, dropped, at, d)
  BY <1>2, <1>4 DEF Drops
<1>. QED
  BY <1>5 DEF DroppedAt, Drops

\* Two grants are in the order of their times.
LEMMA GrantsGrow ==
    ASSUME NEW granted, NEW dropped, Limited(granted, dropped),
           NEW i \in 1..Len(granted), NEW j \in 1..Len(granted), i <= j
    PROVE  granted[i] <= granted[j] /\ granted[i] \in Int /\ granted[j] \in Int
<1>1. granted[i] \in Int /\ granted[j] \in Int /\ Minute \in Nat
  BY AlertsAssumption DEF Limited
<1>2. CASE i = j
  BY <1>1, <1>2
<1>3. CASE i < j
  <2>1. granted[j] - granted[i] >= Minute
    BY <1>3 DEF Limited
  <2>. QED
    BY <2>1, <1>1
<1>. QED
  BY <1>2, <1>3

\* A grant that is allowed keeps the limits, also towards those dropped before.
LEMMA GrantLimited ==
    ASSUME NEW granted, NEW dropped, Limited(granted, dropped), NEW at \in Int, NEW d,
           Drops(granted, dropped, at, d), Allowed(granted, d, at)
    PROVE  Limited(Append(granted, at), d)
<1> DEFINE n == Len(granted)
           g == Append(granted, at)
<1>c. Minute \in Nat \ {0} /\ Hour \in Nat /\ Minute <= Hour /\ PerHour \in Nat \ {0}
  BY AlertsAssumption
<1>l. /\ granted \in Seq(Int) /\ n \in Nat /\ dropped \in 0..n /\ d \in dropped..n
      /\ \A i \in 1..n : granted[i] \in Int
  BY DEF Limited, Drops
<1>g. /\ g \in Seq(Int) /\ Len(g) = n + 1 /\ g[n + 1] = at
      /\ \A i \in 1..n : g[i] = granted[i]
  BY <1>l
<1> HIDE DEF n, g
\* Past the hour: each of those no longer counted.
<1>1. ASSUME NEW i \in 1..d
      PROVE  at - granted[i] >= Hour /\ at - granted[i] >= Minute
  <2>i. i \in 1..n /\ granted[i] \in Int
    BY <1>l
  <2>1. CASE i > dropped
    <3>1. at - granted[i] >= Hour
      BY <2>1, <1>l DEF Drops
    <3>. QED
      BY <3>1, <2>i, <1>c
  <2>2. CASE i <= dropped
    <3>1. /\ dropped \in 1..n /\ dropped < n /\ n \in 1..n
          /\ granted[n] - granted[dropped] >= Hour - Minute
      BY <2>2, <1>l DEF Limited, n
    <3>2. granted[i] <= granted[dropped] /\ granted[dropped] \in Int /\ granted[n] \in Int
      BY <2>2, <2>i, <3>1, GrantsGrow DEF n
    <3>3. at - granted[n] >= Minute
      <4>1. CASE d < n
        BY <4>1, <1>l, <3>1 DEF Allowed, n
      <4>2. CASE d = n
        <5>1. at - granted[n] >= Hour
          BY <4>2, <3>1, <1>l DEF Drops, n
        <5>. QED
          BY <5>1, <1>c, <3>2
      <4>. QED
        BY <4>1, <4>2, <1>l
    <3>. QED
      BY <3>1, <3>2, <3>3, <2>i, <1>c
  <2>. QED
    BY <2>1, <2>2, <1>l
<1>2. ASSUME NEW i \in 1..n
      PROVE  /\ at - granted[i] >= Minute
             /\ n + 1 - i >= PerHour => at - granted[i] >= Hour
  <2>1. CASE i <= d
    BY <2>1, <1>1, <1>l
  <2>2. CASE i > d
    <3>1. at - granted[i] >= Minute
      BY <2>2, <1>l DEF Allowed, n
    <3>2. n - d < PerHour
      BY DEF Allowed, n
    <3>. QED
      BY <3>1, <3>2, <2>2, <1>l, <1>c
  <2>. QED
    BY <2>1, <2>2, <1>l
<1>3. ASSUME NEW i \in 1..(n + 1), NEW j \in 1..(n + 1), i < j
      PROVE  g[j] - g[i] >= Minute /\ (j - i >= PerHour => g[j] - g[i] >= Hour)
  <2>1. CASE j = n + 1
    <3>1. i \in 1..n /\ g[j] = at /\ g[i] = granted[i]
      BY <2>1, <1>3, <1>l, <1>g
    <3>2. /\ at - granted[i] >= Minute
          /\ n + 1 - i >= PerHour => at - granted[i] >= Hour
      BY <3>1, <1>2
    <3>3. n + 1 - i = j - i
      BY <2>1, <1>l
    <3>. QED
      BY <3>1, <3>2, <3>3
  <2>2. CASE j # n + 1
    <3>1. i \in 1..n /\ j \in 1..n
      BY <2>2, <1>3, <1>l
    <3>2. g[j] = granted[j] /\ g[i] = granted[i]
      BY <3>1, <1>g
    <3>. QED
      BY <3>1, <3>2, <1>3 DEF Limited, n
  <2>. QED
    BY <2>1, <2>2
<1>4. d > 0 => d < n + 1 /\ g[n + 1] - g[d] >= Hour - Minute
  <2>1. SUFFICES ASSUME d > 0 PROVE d < n + 1 /\ at - granted[d] >= Hour - Minute
    BY <1>l, <1>g
  <2>2. at - granted[d] >= Hour /\ granted[d] \in Int
    BY <2>1, <1>1, <1>l
  <2>. QED
    BY <2>2, <1>l, <1>c
<1>5. d \in 0..(n + 1)
  BY <1>l
<1>. QED
  BY <1>g, <1>3, <1>4, <1>5 DEF Limited, g

\* A grant that is not allowed leaves what was dropped old enough.
LEMMA RefusalLimited ==
    ASSUME NEW granted, NEW dropped, Limited(granted, dropped), NEW at \in Int, NEW d,
           Drops(granted, dropped, at, d), ~ Allowed(granted, d, at)
    PROVE  Limited(granted, d)
<1> DEFINE n == Len(granted)
<1>c. Minute \in Nat \ {0} /\ Hour \in Nat /\ Minute <= Hour /\ PerHour \in Nat \ {0}
  BY AlertsAssumption
<1>l. /\ granted \in Seq(Int) /\ n \in Nat /\ dropped \in 0..n /\ d \in dropped..n
      /\ \A i \in 1..n : granted[i] \in Int
  BY DEF Limited, Drops
<1> HIDE DEF n
<1>1. d < n
  BY <1>l, <1>c DEF Allowed, n
<1>2. ASSUME d > 0
      PROVE  granted[n] - granted[d] >= Hour - Minute
  <2>1. d \in 1..n /\ n \in 1..n /\ granted[n] \in Int /\ granted[d] \in Int
    BY <1>2, <1>1, <1>l
  <2>2. CASE n - d >= PerHour
    <3>1. granted[n] - granted[d] >= Hour
      BY <2>1, <2>2, <1>1 DEF Limited, n
    <3>. QED
      BY <3>1, <2>1, <1>c
  <2>3. CASE ~ (n - d >= PerHour)
    <3>1. PICK i \in (d + 1)..n : ~ (at - granted[i] >= Minute)
      BY <2>3, <1>l, <1>c DEF Allowed, n
    <3>2. i \in 1..n /\ granted[i] <= granted[n] /\ granted[i] \in Int
      BY <2>1, <1>l, <3>1, GrantsGrow DEF n
    <3>3. CASE d > dropped
      <4>1. at - granted[d] >= Hour
        BY <3>3, <1>l DEF Drops, n
      <4>. QED
        BY <4>1, <3>1, <3>2, <2>1, <1>c
    <3>4. CASE d = dropped
      BY <3>4, <1>2 DEF Limited, n
    <3>. QED
      BY <3>3, <3>4, <1>l
  <2>. QED
    BY <2>2, <2>3
<1>. QED
  BY <1>1, <1>2, <1>l DEF Limited, n

----------------------------------------------------------------------------
(* Toasts.                                                                 *)

\* A number given to a toast is the number of one episode.
Numbered(b) ==
    /\ b.toastSeq \in Nat
    /\ \A n \in DOMAIN b.episodes : b.episodes[n].toast \in {None} \cup 0..b.toastSeq
    /\ \A m, n \in DOMAIN b.episodes :
          /\ b.episodes[m].toast = b.episodes[n].toast
          /\ b.episodes[m].toast \notin {None, Undecided}
          => m = n

\* The episodes of c with a toast are those of b, still open if they are open, or
\* have a number b had not given yet.
Tells(b, c) ==
    /\ c.toastSeq >= b.toastSeq
    /\ \A n \in DOMAIN c.episodes :
          LET e == c.episodes[n]
          IN  \/ e.toast \in {None, Undecided} \/ e.toast > b.toastSeq
              \/ /\ n \in DOMAIN b.episodes
                 /\ e.toast = b.episodes[n].toast
                 /\ e.id = b.episodes[n].id /\ e.owner = b.episodes[n].owner
                 /\ e.until = None => b.episodes[n].until = None

ToastInv(b) == BookInv(b) /\ Numbered(b) /\ Limits(b)

\* A reading gives no number.
LEMMA JudgesTells ==
    ASSUME NEW b, Numbered(b), Limits(b), NEW c, Judges(b, c)
    PROVE  ToastInv(c) /\ Tells(b, c)
<1>1. BookInv(c) /\ Extends(b, c) /\ SameToasts(b, c)
  BY DEF Judges
<1>2. Limits(c)
  BY <1>1 DEF SameToasts, Limits
<1>3. Tells(b, c)
  <2>1. c.toastSeq = b.toastSeq /\ b.toastSeq \in Nat
    BY <1>1 DEF SameToasts, Numbered
  <2>2. c.toastSeq >= b.toastSeq
    BY <2>1
  <2>. QED
    BY <1>1, <2>2 DEF Extends, Tells
<1>4. Numbered(c)
  <2>1. c.toastSeq = b.toastSeq /\ b.toastSeq \in Nat
    BY <1>1 DEF SameToasts, Numbered
  <2>2. ASSUME NEW n \in DOMAIN c.episodes
        PROVE  c.episodes[n].toast \in {None} \cup 0..c.toastSeq
    <3>1. CASE c.episodes[n].toast = Undecided
      BY <3>1, <2>1 DEF Undecided
    <3>2. CASE c.episodes[n].toast # Undecided
      <4>1. n \in DOMAIN b.episodes /\ c.episodes[n].toast = b.episodes[n].toast
        BY <3>2, <2>2, <1>1 DEF Extends
      <4>. QED
        BY <4>1, <2>1 DEF Numbered
    <3>. QED
      BY <3>1, <3>2
  <2>3. ASSUME NEW m \in DOMAIN c.episodes, NEW n \in DOMAIN c.episodes,
               c.episodes[m].toast = c.episodes[n].toast,
               c.episodes[m].toast \notin {None, Undecided}
        PROVE  m = n
    <3>1. /\ m \in DOMAIN b.episodes /\ c.episodes[m].toast = b.episodes[m].toast
          /\ n \in DOMAIN b.episodes /\ c.episodes[n].toast = b.episodes[n].toast
      BY <2>3, <1>1 DEF Extends
    <3>. QED
      BY <3>1, <2>3 DEF Numbered
  <2>. QED
    BY <2>1, <2>2, <2>3 DEF Numbered
<1>. QED
  BY <1>1, <1>2, <1>3, <1>4 DEF ToastInv

\* Setting the toasts of some episodes.
LEMMA ToastSet ==
    ASSUME NEW e \in Episode, NEW t \in Nat \cup {None}
    PROVE  LET x == [e EXCEPT !.toast = t]
           IN  /\ x \in Episode /\ x.toast = t
               /\ x.id = e.id /\ x.owner = e.owner /\ x.since = e.since /\ x.until = e.until
BY DEF Episode

\* The chosen get the next number, and the rest keep theirs or get none.
DecidedAs(b, chosen, c) ==
    /\ DOMAIN c.episodes = DOMAIN b.episodes
    /\ \A n \in DOMAIN b.episodes :
          /\ c.episodes[n].id = b.episodes[n].id /\ c.episodes[n].owner = b.episodes[n].owner
          /\ c.episodes[n].until = b.episodes[n].until
          /\ n \in chosen => c.episodes[n].toast = b.toastSeq + 1
          /\ n \notin chosen => c.episodes[n].toast \in {None, b.episodes[n].toast}

\* What a decision changes.
LEMMA DecidedIs ==
    ASSUME NEW b, BookInv(b), Numbered(b), NEW offers, NEW chosen, NEW c, Decided(b, offers, chosen) = c
    PROVE  /\ IsRecord(c) /\ c.tracks = b.tracks /\ c.opened = b.opened /\ c.log = b.log
           /\ Same(b, c)
           /\ c.episodes = [n \in DOMAIN c.episodes |-> c.episodes[n]]
           /\ DecidedAs(b, chosen, c)
           /\ \A n \in DOMAIN b.episodes :
                 c.episodes[n] \in Episode /\ c.episodes[n].since = b.episodes[n].since
<1> DEFINE eps == [n \in DOMAIN b.episodes |->
                      IF n \in chosen THEN [b.episodes[n] EXCEPT !.toast = b.toastSeq + 1]
                      ELSE IF n \in offers THEN [b.episodes[n] EXCEPT !.toast = None] ELSE b.episodes[n]]
<1>0. IsRecord(b) /\ \A n \in DOMAIN b.episodes : b.episodes[n] \in Episode
  BY DEF BookInv, IsBook, IsEpisodes
<1>1. ASSUME NEW n \in DOMAIN b.episodes
      PROVE  /\ eps[n] \in Episode
             /\ eps[n].id = b.episodes[n].id /\ eps[n].owner = b.episodes[n].owner
             /\ eps[n].since = b.episodes[n].since /\ eps[n].until = b.episodes[n].until
             /\ eps[n].toast = IF n \in chosen THEN b.toastSeq + 1
                               ELSE IF n \in offers THEN None ELSE b.episodes[n].toast
  <2>1. b.episodes[n] \in Episode /\ b.toastSeq + 1 \in Nat
    BY <1>1, <1>0 DEF Numbered
  <2>2. CASE n \in chosen
    <3>1. eps[n] = [b.episodes[n] EXCEPT !.toast = b.toastSeq + 1]
      BY <2>2
    <3> HIDE DEF eps
    <3>. QED
      BY <3>1, <2>1, <2>2, ToastSet
  <2>3. CASE n \notin chosen /\ n \in offers
    <3>1. eps[n] = [b.episodes[n] EXCEPT !.toast = None]
      BY <2>3
    <3> HIDE DEF eps
    <3>2. /\ eps[n] \in Episode /\ eps[n].toast = None
          /\ eps[n].id = b.episodes[n].id /\ eps[n].owner = b.episodes[n].owner
          /\ eps[n].since = b.episodes[n].since /\ eps[n].until = b.episodes[n].until
      BY <3>1, <2>1 DEF Episode
    <3>. QED
      BY <3>2, <2>3
  <2>4. CASE n \notin chosen /\ n \notin offers
    <3>1. eps[n] = b.episodes[n]
      BY <2>4
    <3> HIDE DEF eps
    <3>. QED
      BY <3>1, <2>1, <2>4
  <2>. QED
    BY <2>2, <2>3, <2>4
<1>2. DOMAIN eps = DOMAIN b.episodes /\ eps = [n \in DOMAIN eps |-> eps[n]]
  OBVIOUS
<1>3. [b EXCEPT !.episodes = eps] = c
  BY DEF Decided
<1> HIDE DEF eps
<1>4. /\ IsRecord(c) /\ c.tracks = b.tracks /\ c.opened = b.opened /\ c.log = b.log
      /\ Same(b, c) /\ c.episodes = eps
  BY <1>3, <1>0 DEF IsRecord, Same
<1>5. DecidedAs(b, chosen, c)
  BY <1>1, <1>2, <1>4 DEF DecidedAs
<1>. QED
  BY <1>1, <1>2, <1>4, <1>5

\* Deciding about toasts touches nothing else of the episodes.
LEMMA DecidedInv ==
    ASSUME NEW b, BookInv(b), Numbered(b), NEW offers, NEW chosen, NEW c, Decided(b, offers, chosen) = c
    PROVE  BookInv(c)
<1>1. /\ IsRecord(c) /\ c.tracks = b.tracks /\ c.opened = b.opened
      /\ Same(b, c)
      /\ c.episodes = [n \in DOMAIN c.episodes |-> c.episodes[n]]
      /\ DOMAIN c.episodes = DOMAIN b.episodes
      /\ \A n \in DOMAIN b.episodes :
            /\ c.episodes[n] \in Episode
            /\ c.episodes[n].id = b.episodes[n].id /\ c.episodes[n].owner = b.episodes[n].owner
            /\ c.episodes[n].since = b.episodes[n].since /\ c.episodes[n].until = b.episodes[n].until
  BY DecidedIs DEF DecidedAs
<1>b. /\ IsBook(b) /\ IsEpisodes(b.episodes) /\ b.tracks \in Tracks /\ b.opened \in Nat
      /\ TracksPoint(b) /\ OpenAreTracked(b) /\ Timely(b) /\ InOrder(b)
  BY DEF BookInv, IsBook
<1>2. IsEpisodes(c.episodes)
  BY <1>1, <1>b DEF IsEpisodes
<1>3. IsBook(c)
  BY <1>1, <1>2, <1>b, SameIsBook
<1>4. TracksPoint(c)
  BY <1>1, <1>b DEF TracksPoint
<1>5. OpenAreTracked(c)
  BY <1>1, <1>b DEF OpenAreTracked
<1>6. InOrder(c)
  BY <1>1, <1>b DEF InOrder, Same
<1>7. Timely(c)
  <2>1. \A p, t1 : Upto(c, p, t1) <=> Upto(b, p, t1)
    BY <1>1, SameKnown
  <2>2. c.forgotten = b.forgotten
    BY <1>1 DEF Same
  <2>3. \A o \in Owner \ b.forgotten, id \in Alert :
           Upto(b, o, b.tracks[o][id].onset) /\ Upto(b, o, b.tracks[o][id].off)
    BY <1>b DEF Timely
  <2>4. ASSUME NEW n \in DOMAIN b.episodes, b.episodes[n].owner \notin b.forgotten
        PROVE  LET e     == b.episodes[n]
                   onset == b.tracks[e.owner][e.id].onset
               IN  /\ Upto(b, e.owner, e.since) /\ Upto(b, e.owner, e.until)
                   /\ e.until # None /\ onset # None => e.until <= onset
    BY <2>4, <1>b DEF Timely
  <2>5. ASSUME NEW n \in DOMAIN c.episodes, c.episodes[n].owner \notin c.forgotten
        PROVE  LET e     == c.episodes[n]
                   onset == c.tracks[e.owner][e.id].onset
               IN  /\ Upto(c, e.owner, e.since) /\ Upto(c, e.owner, e.until)
                   /\ e.until # None /\ onset # None => e.until <= onset
    BY <2>1, <2>2, <2>4, <2>5, <1>1
  <2>. QED
    BY <2>1, <2>2, <2>3, <2>5, <1>1 DEF Timely
<1>. QED
  BY <1>3, <1>4, <1>5, <1>6, <1>7 DEF BookInv

\* Nothing but the limiter changes: the episodes stay sound.
LEMMA LimiterInv ==
    ASSUME NEW b, BookInv(b), NEW c, IsRecord(c),
           c.tracks = b.tracks, c.runtimes = b.runtimes, c.hostAt = b.hostAt,
           c.episodes = b.episodes, c.opened = b.opened, c.forgotten = b.forgotten
    PROVE  BookInv(c)
<1>1. IsBook(c)
  BY DEF BookInv, IsBook
<1>2. TracksPoint(c) /\ OpenAreTracked(c)
  BY DEF BookInv, TracksPoint, OpenAreTracked
<1>3. InOrder(c)
  BY DEF BookInv, InOrder
<1>4. Timely(c)
  <2>1. \A p, t1 : Upto(c, p, t1) <=> Upto(b, p, t1)
    BY DEF Upto, Known, LastAt
  <2>. QED
    BY <2>1 DEF BookInv, Timely
<1>. QED
  BY <1>1, <1>2, <1>3, <1>4 DEF BookInv

\* Each decision gives at most one number, and a new one.
LEMMA DecisionTells ==
    ASSUME NEW b, Numbered(b), NEW chosen, \A m, n \in chosen : m = n,
           NEW c, DecidedAs(b, chosen, c),
           c.toastSeq \in Nat, c.toastSeq >= b.toastSeq, chosen # {} => c.toastSeq >= b.toastSeq + 1
    PROVE  Numbered(c) /\ Tells(b, c)
<1>0. b.toastSeq \in Nat /\ None \notin Int
  BY AlertsAssumption DEF Numbered
<1>d. /\ DOMAIN c.episodes = DOMAIN b.episodes
      /\ \A n \in DOMAIN b.episodes :
            /\ c.episodes[n].id = b.episodes[n].id /\ c.episodes[n].owner = b.episodes[n].owner
            /\ c.episodes[n].until = b.episodes[n].until
            /\ n \in chosen => c.episodes[n].toast = b.toastSeq + 1
            /\ n \notin chosen => c.episodes[n].toast \in {None, b.episodes[n].toast}
  BY DEF DecidedAs
<1>1. ASSUME NEW n \in DOMAIN c.episodes
      PROVE  c.episodes[n].toast \in {None} \cup 0..c.toastSeq
  <2>1. CASE n \in chosen
    BY <2>1, <1>0, <1>d
  <2>2. CASE n \notin chosen
    <3>1. b.episodes[n].toast \in {None} \cup 0..b.toastSeq
      BY <1>d DEF Numbered
    <3>. QED
      BY <3>1, <2>2, <1>0, <1>d
  <2>. QED
    BY <2>1, <2>2
<1>2. ASSUME NEW n \in DOMAIN c.episodes
      PROVE  \/ n \in chosen /\ c.episodes[n].toast = b.toastSeq + 1
             \/ c.episodes[n].toast = None
             \/ /\ n \notin chosen /\ c.episodes[n].toast = b.episodes[n].toast
                /\ c.episodes[n].toast \in 0..b.toastSeq
  <2>1. CASE n \in chosen
    BY <2>1, <1>d
  <2>2. CASE n \notin chosen
    <3>1. b.episodes[n].toast \in {None} \cup 0..b.toastSeq
      BY <1>d DEF Numbered
    <3>. QED
      BY <3>1, <2>2, <1>d
  <2>. QED
    BY <2>1, <2>2
<1>3. ASSUME NEW m \in DOMAIN c.episodes, NEW n \in DOMAIN c.episodes,
             c.episodes[m].toast = c.episodes[n].toast,
             c.episodes[m].toast \notin {None, Undecided}
      PROVE  m = n
  <2>1. CASE m \in chosen /\ n \in chosen
    BY <2>1, <1>d
  <2>2. CASE m \in chosen /\ n \notin chosen
    <3>1. c.episodes[m].toast = b.toastSeq + 1 /\ c.episodes[n].toast \in 0..b.toastSeq
      BY <2>2, <1>3, <1>2
    <3>. QED
      BY <3>1, <1>3, <1>0
  <2>3. CASE m \notin chosen /\ n \in chosen
    <3>1. c.episodes[n].toast = b.toastSeq + 1 /\ c.episodes[m].toast \in 0..b.toastSeq
      BY <2>3, <1>3, <1>2
    <3>. QED
      BY <3>1, <1>3, <1>0
  <2>4. CASE m \notin chosen /\ n \notin chosen
    <3>1. c.episodes[m].toast = b.episodes[m].toast /\ c.episodes[n].toast = b.episodes[n].toast
      BY <2>4, <1>3, <1>2
    <3>. QED
      BY <3>1, <1>3, <1>d DEF Numbered
  <2>. QED
    BY <2>1, <2>2, <2>3, <2>4
<1>4. ASSUME NEW n \in DOMAIN c.episodes
      PROVE  LET e == c.episodes[n]
             IN  \/ e.toast \in {None, Undecided} \/ e.toast > b.toastSeq
                 \/ /\ n \in DOMAIN b.episodes
                    /\ e.toast = b.episodes[n].toast
                    /\ e.id = b.episodes[n].id /\ e.owner = b.episodes[n].owner
                    /\ e.until = None => b.episodes[n].until = None
  <2>1. CASE n \in chosen
    <3>1. c.episodes[n].toast > b.toastSeq
      BY <2>1, <1>0, <1>d
    <3>. QED
      BY <3>1
  <2>2. CASE n \notin chosen
    BY <2>2, <1>d, <1>2
  <2>. QED
    BY <2>1, <2>2
<1>. QED
  BY <1>1, <1>3, <1>4 DEF Numbered, Tells

\* The places of alerts are numbers.
LEMMA PlaceIsNumber == \A id \in Alert : Place(id) \in Nat
BY DEF Place, Alert, HostAlert, RuntimeAlert

\* Two episodes cannot each come before the other.
LEMMA FirstIsOne ==
    ASSUME NEW b, BookInv(b), NEW due, due \subseteq DOMAIN b.episodes,
           NEW m \in First(b, due), NEW n \in First(b, due)
    PROVE  m = n
<1>1. SUFFICES ASSUME m # n PROVE FALSE
  OBVIOUS
<1>2. m \in DOMAIN b.episodes /\ n \in DOMAIN b.episodes /\ Before(b, m, n) /\ Before(b, n, m)
  BY <1>1 DEF First
<1>3. /\ b.episodes[m].id \in Alert /\ b.episodes[n].id \in Alert
      /\ b.episodes[m].since \in Int /\ b.episodes[n].since \in Int
  BY <1>2 DEF BookInv, IsBook, IsEpisodes, Episode
<1>4. /\ Rule[b.episodes[m].id].rank \in Int /\ Rule[b.episodes[n].id].rank \in Int
      /\ Place(b.episodes[m].id) \in Int /\ Place(b.episodes[n].id) \in Int
  BY <1>3, PlaceIsNumber, AlertsAssumption
<1>. QED
  BY <1>2, <1>3, <1>4 DEF Before

\* What is open in a slot's view is tracked.
LEMMA OpenIsEpisode ==
    ASSUME NEW b, BookInv(b), NEW k \in Key
    PROVE  \A n : n \in OpenIn(b, k) <=> /\ n \in DOMAIN b.episodes
                                         /\ b.episodes[n].owner \in {k, Host}
                                         /\ b.episodes[n].until = None
<1>a. \A o \in Owner : AlertOf(o) \subseteq Alert
  BY DEF AlertOf, Alert
<1>b. k \in Owner /\ Host \in Owner
  BY DEF Owner
<1>i. TracksPoint(b) /\ OpenAreTracked(b)
  BY DEF BookInv
<1>n. None \notin Nat /\ DOMAIN b.episodes \subseteq Nat
  BY AlertsAssumption DEF BookInv, IsBook, IsEpisodes
<1>1. ASSUME NEW n \in OpenIn(b, k)
      PROVE  n \in DOMAIN b.episodes /\ b.episodes[n].owner \in {k, Host} /\ b.episodes[n].until = None
  <2>0. PICK o \in {k, Host} : \E id \in AlertOf(o) : n = b.tracks[o][id].episode /\ n # None
    BY DEF OpenIn
  <2>1. PICK id \in AlertOf(o) : n = b.tracks[o][id].episode /\ n # None
    BY <2>0
  <2>2. o \in Owner /\ id \in Alert
    BY <2>1, <1>a, <1>b
  <2>. QED
    BY <2>1, <2>2, <1>i DEF TracksPoint
<1>2. ASSUME NEW n \in DOMAIN b.episodes, b.episodes[n].owner \in {k, Host}, b.episodes[n].until = None
      PROVE  n \in OpenIn(b, k)
  <2>1. /\ b.episodes[n].id \in AlertOf(b.episodes[n].owner)
        /\ b.tracks[b.episodes[n].owner][b.episodes[n].id].episode = n
    BY <1>2, <1>i DEF OpenAreTracked
  <2>2. n # None
    BY <1>n
  <2>. QED
    BY <2>1, <2>2, <1>2 DEF OpenIn
<1>. QED
  BY <1>1, <1>2

\* The three ways a leader's view decides.
LEMMA OfferedInv ==
    ASSUME NEW b, ToastInv(b), NEW k \in Key, NEW at \in Int, NEW c, OfferedAll(b, k, at) = c
    PROVE  ToastInv(c) /\ Tells(b, c)
<1>b. BookInv(b) /\ Numbered(b) /\ Limits(b) /\ IsRecord(b) /\ b.toastSeq \in Nat
  BY DEF ToastInv, BookInv, IsBook, Numbered
<1>1. PICK offers : offers = Offers(b, k)
  OBVIOUS
<1>2. PICK due : due = {n \in offers : IsDue(b, n, at)}
  OBVIOUS
<1>3. PICK chosen : chosen = First(b, due)
  OBVIOUS
<1>4. PICK d : Dropping(b, at) = d
  OBVIOUS
<1>5. c = IF due = {} THEN Decided(b, offers, {})
          ELSE IF Allowed(b.granted, d.dropped, at)
          THEN Granting(Decided(d, offers, chosen), chosen, at)
          ELSE Decided(d, offers, {})
  BY <1>1, <1>2, <1>3, <1>4 DEF OfferedAll
<1>6. /\ IsRecord(d) /\ d.tracks = b.tracks /\ d.runtimes = b.runtimes /\ d.hostAt = b.hostAt
      /\ d.episodes = b.episodes /\ d.opened = b.opened /\ d.forgotten = b.forgotten
      /\ d.granted = b.granted /\ d.toastSeq = b.toastSeq
      /\ d.dropped = DroppedAt(b.granted, b.dropped, at)
  BY <1>4, <1>b DEF Dropping, IsRecord
<1>7. BookInv(d)
  BY <1>6, <1>b, LimiterInv
<1>8. Numbered(d)
  BY <1>6, <1>b DEF Numbered
<1>9. Drops(b.granted, b.dropped, at, d.dropped) /\ Limited(b.granted, b.dropped)
  <2>1. Limited(b.granted, b.dropped)
    BY <1>b DEF Limits
  <2>2. b.granted \in Seq(Int) /\ b.dropped \in 0..Len(b.granted)
    BY <2>1 DEF Limited
  <2>. QED
    BY <2>1, <2>2, <1>6, DroppedAtDrops
<1>10. \A m, n \in chosen : m = n
  <2>1. due \subseteq DOMAIN b.episodes
    BY <1>1, <1>2, <1>b, OpenIsEpisode DEF Offers
  <2>. QED
    BY <2>1, <1>3, <1>b, FirstIsOne
<1>11. CASE due = {}
  <2>1. Decided(b, offers, {}) = c
    BY <1>5, <1>11
  <2>2. BookInv(c)
    BY <2>1, <1>b, DecidedInv
  <2>3. /\ DecidedAs(b, {}, c)
        /\ c.granted = b.granted /\ c.dropped = b.dropped /\ c.toastSeq = b.toastSeq
    <3>1. DecidedAs(b, {}, c) /\ Same(b, c)
      BY <2>1, <1>b, DecidedIs
    <3>. QED
      BY <3>1 DEF Same
  <2>4. c.toastSeq \in Nat /\ c.toastSeq >= b.toastSeq
    BY <2>3, <1>b
  <2>5. Numbered(c) /\ Tells(b, c)
    BY <2>3, <2>4, <1>b, DecisionTells
  <2>. QED
    BY <2>2, <2>3, <2>5, <1>b DEF ToastInv, Limits
<1>12. CASE due # {} /\ ~ Allowed(b.granted, d.dropped, at)
  <2>1. Decided(d, offers, {}) = c
    BY <1>5, <1>12
  <2>2. BookInv(c)
    BY <2>1, <1>7, <1>8, DecidedInv
  <2>3. /\ DecidedAs(b, {}, c)
        /\ c.granted = b.granted /\ c.dropped = d.dropped /\ c.toastSeq = b.toastSeq
    <3>1. DecidedAs(d, {}, c) /\ Same(d, c)
      BY <2>1, <1>7, <1>8, DecidedIs
    <3>. QED
      BY <3>1, <1>6 DEF DecidedAs, Same
  <2>4. c.toastSeq \in Nat /\ c.toastSeq >= b.toastSeq
    BY <2>3, <1>b
  <2>5. Numbered(c) /\ Tells(b, c)
    BY <2>3, <2>4, <1>b, DecisionTells
  <2>6. Limited(b.granted, d.dropped)
    BY <1>9, <1>12, RefusalLimited
  <2>. QED
    BY <2>2, <2>3, <2>5, <2>6 DEF ToastInv, Limits
<1>13. CASE due # {} /\ Allowed(b.granted, d.dropped, at)
  <2>0. PICK e : Decided(d, offers, chosen) = e
    OBVIOUS
  <2>1. Granting(e, chosen, at) = c
    BY <1>5, <1>13, <2>0
  <2>2. BookInv(e)
    BY <2>0, <1>7, <1>8, DecidedInv
  <2>3. /\ DecidedAs(b, chosen, e)
        /\ e.granted = b.granted /\ e.dropped = d.dropped /\ e.toastSeq = b.toastSeq
        /\ IsRecord(e)
    <3>1. DecidedAs(d, chosen, e) /\ Same(d, e) /\ IsRecord(e)
      BY <2>0, <1>7, <1>8, DecidedIs
    <3>. QED
      BY <3>1, <1>6 DEF DecidedAs, Same
  <2>4. /\ IsRecord(c) /\ c.tracks = e.tracks /\ c.runtimes = e.runtimes /\ c.hostAt = e.hostAt
        /\ c.episodes = e.episodes /\ c.opened = e.opened /\ c.forgotten = e.forgotten
        /\ c.granted = Append(e.granted, at) /\ c.dropped = e.dropped
        /\ c.toastSeq = e.toastSeq + 1
    BY <2>1, <2>3 DEF Granting, IsRecord
  <2>5. BookInv(c)
    BY <2>2, <2>4, LimiterInv
  <2>6. c.toastSeq \in Nat /\ c.toastSeq >= b.toastSeq /\ c.toastSeq >= b.toastSeq + 1
    BY <2>3, <2>4, <1>b
  <2>7. Numbered(c) /\ Tells(b, c)
    <3>1. DecidedAs(b, chosen, c)
      BY <2>3, <2>4 DEF DecidedAs
    <3>. QED
      BY <3>1, <2>6, <1>b, <1>10, DecisionTells
  <2>8. Limited(Append(b.granted, at), d.dropped)
    BY <1>9, <1>13, GrantLimited
  <2>. QED
    BY <2>3, <2>4, <2>5, <2>7, <2>8 DEF ToastInv, Limits
<1>. QED
  BY <1>11, <1>12, <1>13

\* A request leaves the book sound, its toasts limited and numbered.
LEMMA AnswerTells ==
    ASSUME NEW b, ToastInv(b), NEW k \in Key, NEW r, NEW h, NEW at \in Int, NEW covered, NEW leader \in BOOLEAN,
           NEW c, Offered(Evaluated(b, k, r, h, at, covered), k, leader, at) = c
    PROVE  ToastInv(c) /\ Tells(b, c)
<1>1. PICK d : Evaluated(b, k, r, h, at, covered) = d
  OBVIOUS
<1>2. ToastInv(d) /\ Tells(b, d)
  BY <1>1, EvaluatedJudges, JudgesTells DEF ToastInv
<1>3. CASE leader = TRUE
  <2>1. OfferedAll(d, k, at) = c
    BY <1>1, <1>3 DEF Offered
  <2>2. ToastInv(c) /\ Tells(d, c)
    BY <2>1, <1>2, OfferedInv
  <2>3. Tells(b, c)
    <3>1. b.toastSeq \in Nat /\ d.toastSeq \in Nat /\ c.toastSeq \in Nat
      BY <1>2, <2>2 DEF ToastInv, Numbered
    <3>2. \A n \in DOMAIN c.episodes : c.episodes[n].toast \in {None} \cup Nat
      BY <2>2, <3>1 DEF ToastInv, Numbered
    <3>. QED
      BY <3>1, <3>2, <2>2, <1>2 DEF Tells
  <2>. QED
    BY <2>2, <2>3
<1>4. CASE leader = FALSE
  BY <1>1, <1>2, <1>4 DEF Offered
<1>. QED
  BY <1>3, <1>4

----------------------------------------------------------------------------
(* What a frame makes of an answer.                                        *)

\* The alerts of an answer from the book c: of Alert, and with a number only where
\* the book gave it to an alert that is up.
IsView(c, alerts) ==
    \A id \in DOMAIN alerts :
        /\ id \in Alert
        /\ alerts[id].seq # None =>
              /\ alerts[id].seq \in 1..c.toastSeq
              /\ \E n \in DOMAIN c.episodes :
                    /\ c.episodes[n].until = None
                    /\ c.episodes[n].id = id /\ c.episodes[n].toast = alerts[id].seq

NumberOf(e, leader) == IF leader /\ e.toast # Undecided THEN e.toast ELSE None

\* An answer is such a view.
LEMMA ViewedIsView ==
    ASSUME NEW c, ToastInv(c), NEW k \in Key, NEW leader \in BOOLEAN, NEW alerts, ViewedAlerts(c, k, leader) = alerts
    PROVE  IsView(c, alerts)
<1>o. \A n : n \in OpenIn(c, k) <=> /\ n \in DOMAIN c.episodes
                                    /\ c.episodes[n].owner \in {k, Host}
                                    /\ c.episodes[n].until = None
  BY OpenIsEpisode DEF ToastInv
<1>1. /\ DOMAIN alerts = {c.episodes[n].id : n \in OpenIn(c, k)}
      /\ \A id \in DOMAIN alerts :
            alerts[id] = LET n == CHOOSE m \in OpenIn(c, k) : c.episodes[m].id = id
                         IN  [since |-> c.episodes[n].since, seq |-> NumberOf(c.episodes[n], leader)]
  BY DEF ViewedAlerts, NumberOf
<1>2. ASSUME NEW id \in DOMAIN alerts
      PROVE  \E n \in OpenIn(c, k) : c.episodes[n].id = id /\ alerts[id].seq = NumberOf(c.episodes[n], leader)
  <2>1. \E n \in OpenIn(c, k) : c.episodes[n].id = id
    BY <1>1, <1>2
  <2>2. PICK n : n = CHOOSE m \in OpenIn(c, k) : c.episodes[m].id = id
    OBVIOUS
  <2>3. n \in OpenIn(c, k) /\ c.episodes[n].id = id
    BY <2>1, <2>2
  <2>4. alerts[id] = [since |-> c.episodes[n].since, seq |-> NumberOf(c.episodes[n], leader)]
    BY <1>1, <1>2, <2>2
  <2>5. alerts[id].seq = NumberOf(c.episodes[n], leader)
    BY <2>4
  <2>. QED
    BY <2>3, <2>5
<1>3. ASSUME NEW id \in DOMAIN alerts
      PROVE  /\ id \in Alert
             /\ alerts[id].seq # None =>
                   /\ alerts[id].seq \in 1..c.toastSeq
                   /\ \E n \in DOMAIN c.episodes :
                         /\ c.episodes[n].until = None
                         /\ c.episodes[n].id = id /\ c.episodes[n].toast = alerts[id].seq
  <2>0. PICK n \in OpenIn(c, k) : c.episodes[n].id = id /\ alerts[id].seq = NumberOf(c.episodes[n], leader)
    BY <1>2, <1>3
  <2>1. n \in DOMAIN c.episodes /\ c.episodes[n].owner \in {k, Host} /\ c.episodes[n].until = None
    BY <2>0, <1>o
  <2>2. c.episodes[n] \in Episode /\ c.episodes[n].toast \in {None} \cup 0..c.toastSeq /\ c.toastSeq \in Nat
    BY <2>1 DEF ToastInv, BookInv, IsBook, IsEpisodes, Numbered
  <2>3. id \in Alert
    BY <2>0, <2>2 DEF Episode
  <2>4. ASSUME alerts[id].seq # None
        PROVE  c.episodes[n].toast = alerts[id].seq /\ alerts[id].seq \in 1..c.toastSeq
    BY <2>0, <2>2, <2>4 DEF Undecided, NumberOf
  <2>. QED
    BY <2>0, <2>1, <2>3, <2>4
<1>. QED
  BY <1>3 DEF IsView

\* A frame that was told never forgets while the alert is up, and a leader that
\* toasts had not been told of that number yet.
ToastedAfresh(s, alerts, seen) ==
    \A id \in ToastedFrom(s, alerts) :
        /\ id \in DOMAIN alerts /\ alerts[id].seq # None
        /\ s.seen[id] = None \/ alerts[id].seq > s.seen[id]
        /\ seen[id] = alerts[id].seq

AccountsFor(s, alerts, leader, seen) ==
    /\ seen \in [Alert -> Nat \cup {None}]
    /\ \A id \in DOMAIN alerts : s.seen[id] # None => seen[id] # None /\ seen[id] >= s.seen[id]
    /\ leader => ToastedAfresh(s, alerts, seen)

\* What a frame remembers after an answer.
LEMMA AccountedIs ==
    ASSUME NEW c, NEW alerts, IsView(c, alerts), c.toastSeq \in Nat,
           NEW s, s.seen \in [Alert -> Nat \cup {None}], NEW leader \in BOOLEAN,
           NEW seen, Accounted(s, alerts, leader) = seen
    PROVE  AccountsFor(s, alerts, leader, seen)
<1>n. None \notin Int
  BY AlertsAssumption
<1>v. \A id \in DOMAIN alerts : id \in Alert /\ alerts[id].seq \in Nat \cup {None}
  BY DEF IsView
<1> DEFINE old == Alive(s.seen, alerts)
<1>1. \A id \in Alert : old[id] = IF id \in DOMAIN alerts THEN s.seen[id] ELSE None
  BY DEF Alive
<1>2. \A id \in Alert : old[id] \in Nat \cup {None}
  BY <1>1
<1>3. \A id \in NewIn(old, alerts) : /\ id \in DOMAIN alerts /\ alerts[id].seq # None
                                     /\ old[id] = None \/ alerts[id].seq > old[id]
  BY DEF NewIn
<1>4. /\ seen = [id \in Alert |->
                    IF leader THEN IF id \in NewIn(old, alerts) THEN alerts[id].seq ELSE old[id]
                    ELSE IF id \in DOMAIN alerts /\ old[id] = None
                         THEN IF alerts[id].seq = None THEN 0 ELSE alerts[id].seq
                         ELSE old[id]]
      /\ ToastedFrom(s, alerts) \subseteq NewIn(old, alerts)
  BY DEF Accounted, ToastedFrom
<1> HIDE DEF old
<1>5. seen \in [Alert -> Nat \cup {None}]
  BY <1>2, <1>3, <1>4, <1>v
<1>6. ASSUME NEW id \in DOMAIN alerts, s.seen[id] # None
      PROVE  seen[id] # None /\ seen[id] >= s.seen[id]
  <2>1. id \in Alert /\ old[id] = s.seen[id] /\ old[id] \in Nat
    BY <1>6, <1>1, <1>v
  <2>2. CASE leader /\ id \in NewIn(old, alerts)
    <3>1. seen[id] = alerts[id].seq /\ alerts[id].seq # None /\ alerts[id].seq > old[id]
      BY <2>2, <2>1, <1>3, <1>4, <1>n, <1>6
    <3>. QED
      BY <3>1, <2>1, <1>v
  <2>3. CASE ~ (leader /\ id \in NewIn(old, alerts))
    <3>1. seen[id] = old[id]
      BY <2>3, <2>1, <1>4, <1>n
    <3>. QED
      BY <3>1, <2>1, <1>n
  <2>. QED
    BY <2>2, <2>3
<1>7. ASSUME leader, NEW id \in ToastedFrom(s, alerts)
      PROVE  /\ id \in DOMAIN alerts /\ alerts[id].seq # None
             /\ s.seen[id] = None \/ alerts[id].seq > s.seen[id]
             /\ seen[id] = alerts[id].seq
  <2>1. id \in NewIn(old, alerts)
    BY <1>4, <1>7
  <2>2. /\ id \in DOMAIN alerts /\ alerts[id].seq # None /\ id \in Alert
        /\ old[id] = None \/ alerts[id].seq > old[id]
    BY <2>1, <1>3, <1>v
  <2>. QED
    BY <2>1, <2>2, <1>1, <1>4, <1>7
<1>. QED
  BY <1>5, <1>6, <1>7 DEF AccountsFor, ToastedAfresh

IsEntry(x) ==
    /\ x = [id |-> x.id, seq |-> x.seq, term |-> x.term, answer |-> x.answer, known |-> x.known, up |-> x.up]
    /\ x.up \in BOOLEAN

\* A toast x that a frame with the Signals s showed: its number is of this alert
\* alone, and while every answer told of the alert the frame remembers it.
IsShown(b, s, x) ==
    /\ IsEntry(x)
    /\ x.id \in Alert /\ x.seq \in 1..b.toastSeq
    /\ \A n \in DOMAIN b.episodes : b.episodes[n].toast = x.seq => b.episodes[n].id = x.id
    /\ x.up => \/ s.seen[x.id] # None /\ s.seen[x.id] >= x.seq
               \/ \A n \in DOMAIN b.episodes : b.episodes[n].toast = x.seq => b.episodes[n].until # None

\* A toast stays so when the book goes on.
LEMMA ShownTells ==
    ASSUME NEW b, NEW c, ToastInv(b), ToastInv(c), Tells(b, c), NEW s, NEW x, IsShown(b, s, x)
    PROVE  IsShown(c, s, x)
<1>1. /\ b.toastSeq \in Nat /\ c.toastSeq \in Nat /\ c.toastSeq >= b.toastSeq
      /\ x.seq \in 1..b.toastSeq /\ x.id \in Alert
      /\ None \notin Int
  BY AlertsAssumption DEF ToastInv, Numbered, Tells, IsShown
<1>2. x.seq \in 1..c.toastSeq /\ x.seq \notin {None, Undecided} /\ ~ (x.seq > b.toastSeq)
  BY <1>1 DEF Undecided
<1>3. ASSUME NEW n \in DOMAIN c.episodes, c.episodes[n].toast = x.seq
      PROVE  /\ n \in DOMAIN b.episodes /\ b.episodes[n].toast = x.seq
             /\ c.episodes[n].id = b.episodes[n].id /\ c.episodes[n].owner = b.episodes[n].owner
             /\ c.episodes[n].until = None => b.episodes[n].until = None
  BY <1>2, <1>3 DEF Tells
<1>. QED
  BY <1>1, <1>2, <1>3 DEF IsShown

KeptAs(x, gone) == [x EXCEPT !.up = @ /\ x.seq \notin gone]

\* What an answer changes of a toast that was shown.
LEMMA KeptIs ==
    ASSUME NEW x, IsEntry(x), NEW gone, NEW y, y = KeptAs(x, gone)
    PROVE  /\ IsEntry(y) /\ y.id = x.id /\ y.seq = x.seq /\ y.term = x.term
           /\ y.up <=> x.up /\ x.seq \notin gone
<1>1. PICK up \in BOOLEAN : up = (x.up /\ x.seq \notin gone)
  BY DEF IsEntry
<1>2. y = [x EXCEPT !.up = up]
  BY <1>1 DEF KeptAs
<1>3. y = [id |-> x.id, seq |-> x.seq, term |-> x.term, answer |-> x.answer, known |-> x.known, up |-> up]
  BY <1>2 DEF IsEntry
<1>4. y.id = x.id /\ y.seq = x.seq /\ y.term = x.term /\ y.up = up
  BY <1>3
<1>5. IsEntry(y)
  BY <1>3, <1>4 DEF IsEntry
<1>6. y.up <=> x.up /\ x.seq \notin gone
  BY <1>1, <1>4
<1>. QED
  BY <1>4, <1>5, <1>6

\* And when the frame applies an answer of this book.
LEMMA ShownApplied ==
    ASSUME NEW c, ToastInv(c), NEW s, s.seen \in [Alert -> Nat \cup {None}],
           NEW alerts, NEW leader \in BOOLEAN, NEW t, AccountsFor(s, alerts, leader, t.seen),
           NEW x, IsShown(c, s, x), NEW y, y = KeptAs(x, LeftOut(c, alerts))
    PROVE  IsShown(c, t, y)
<1>0. c.toastSeq \in Nat /\ x.seq \in Nat /\ x.id \in Alert /\ IsEntry(x)
  BY DEF ToastInv, Numbered, IsShown
<1>k. /\ IsEntry(y) /\ y.id = x.id /\ y.seq = x.seq
      /\ y.up <=> x.up /\ x.seq \notin LeftOut(c, alerts)
  BY <1>0, KeptIs
<1>1. /\ t.seen \in [Alert -> Nat \cup {None}]
      /\ \A id \in DOMAIN alerts : s.seen[id] # None => t.seen[id] # None /\ t.seen[id] >= s.seen[id]
  BY DEF AccountsFor
<1>2. CASE (\A n \in DOMAIN c.episodes : c.episodes[n].toast = x.seq => c.episodes[n].until # None) \/ ~ y.up
  BY <1>2, <1>k DEF IsShown
<1>3. CASE y.up /\ \E n \in DOMAIN c.episodes : c.episodes[n].toast = x.seq /\ c.episodes[n].until = None
  <2>1. PICK n \in DOMAIN c.episodes : c.episodes[n].toast = x.seq /\ c.episodes[n].until = None
    BY <1>3
  <2>2. c.episodes[n].id = x.id
    BY <2>1 DEF IsShown
  <2>3. x.id \in DOMAIN alerts
    BY <2>1, <2>2, <1>3, <1>k DEF LeftOut
  <2>4. s.seen[x.id] # None /\ s.seen[x.id] >= x.seq
    BY <2>1, <1>3, <1>k DEF IsShown
  <2>5. t.seen[x.id] # None /\ t.seen[x.id] >= x.seq
    <3>1. t.seen[x.id] # None /\ t.seen[x.id] >= s.seen[x.id]
      BY <2>3, <2>4, <1>1
    <3>2. t.seen[x.id] \in Nat /\ s.seen[x.id] \in Nat
      BY <3>1, <2>4, <1>0, <1>1
    <3>. QED
      BY <3>1, <3>2, <2>4, <1>0
  <2>. QED
    BY <2>5, <1>k DEF IsShown
<1>. QED
  BY <1>2, <1>3

\* A new toast is of no number this frame showed and kept up, and of one alert.
LEMMA NewlyShown ==
    ASSUME NEW c, ToastInv(c), NEW s, s.seen \in [Alert -> Nat \cup {None}],
           NEW alerts, IsView(c, alerts),
           NEW t, ToastedAfresh(s, alerts, t.seen),
           NEW id \in ToastedFrom(s, alerts),
           NEW x, IsEntry(x), x.id = id, x.seq = alerts[id].seq
    PROVE  /\ IsShown(c, t, x)
           /\ \A y : IsShown(c, s, y) /\ y.up => y.seq # x.seq
           /\ \A j \in ToastedFrom(s, alerts) : alerts[j].seq = x.seq => j = id
<1>0. c.toastSeq \in Nat /\ Numbered(c) /\ None \notin Int
  BY AlertsAssumption DEF ToastInv, Numbered
<1>1. \A j \in ToastedFrom(s, alerts) :
         /\ j \in DOMAIN alerts /\ alerts[j].seq # None
         /\ s.seen[j] = None \/ alerts[j].seq > s.seen[j]
         /\ t.seen[j] = alerts[j].seq
  BY DEF ToastedAfresh
<1>2. \A j \in ToastedFrom(s, alerts) :
         /\ j \in Alert /\ alerts[j].seq \in 1..c.toastSeq
         /\ \E n \in DOMAIN c.episodes :
               /\ c.episodes[n].until = None
               /\ c.episodes[n].id = j /\ c.episodes[n].toast = alerts[j].seq
  BY <1>1 DEF IsView
<1>3. PICK n \in DOMAIN c.episodes :
         /\ c.episodes[n].until = None
         /\ c.episodes[n].id = id /\ c.episodes[n].toast = x.seq
  BY <1>2
<1>4. x.seq \in 1..c.toastSeq /\ x.seq \notin {None, Undecided}
  BY <1>2, <1>0 DEF Undecided
<1>5. \A m \in DOMAIN c.episodes : c.episodes[m].toast = x.seq => m = n
  BY <1>3, <1>4, <1>0 DEF Numbered
<1>6. IsShown(c, t, x)
  <2>1. t.seen[x.id] # None /\ t.seen[x.id] >= x.seq
    BY <1>1, <1>4
  <2>. QED
    BY <2>1, <1>2, <1>3, <1>4, <1>5 DEF IsShown
<1>7. ASSUME NEW y, IsShown(c, s, y), y.up, y.seq = x.seq
      PROVE  FALSE
  <2>1. c.episodes[n].id = y.id
    BY <1>3, <1>7 DEF IsShown
  <2>2. s.seen[id] # None /\ s.seen[id] >= x.seq
    BY <1>3, <1>7, <2>1 DEF IsShown
  <2>3. x.seq > s.seen[id] /\ s.seen[id] \in Nat
    BY <2>2, <1>1, <1>2
  <2>. QED
    BY <2>2, <2>3, <1>4
<1>8. ASSUME NEW j \in ToastedFrom(s, alerts), alerts[j].seq = x.seq
      PROVE  j = id
  <2>1. PICK m \in DOMAIN c.episodes : c.episodes[m].id = j /\ c.episodes[m].toast = x.seq
    BY <1>2, <1>8
  <2>. QED
    BY <2>1, <1>3, <1>5
<1>. QED
  BY <1>6, <1>7, <1>8

----------------------------------------------------------------------------
(* The frames.                                                             *)

IsSignal(s) ==
    /\ s = [seen |-> s.seen, primed |-> s.primed, badge |-> s.badge]
    /\ s.seen \in [Alert -> Nat \cup {None}]

\* The types.
Typed ==
    /\ now \in Nat
    /\ requests \subseteq Request
    /\ signals = [f \in Frame |-> signals[f]]
    /\ \A f \in Frame : IsSignal(signals[f])
    /\ shown = [f \in Frame |-> shown[f]]

\* The frames agree with the book about what they showed.
ShownOnce ==
    \A f \in Frame :
        /\ \A x \in shown[f] : IsShown(book, signals[f], x)
        /\ \A x, y \in shown[f] : x.seq = y.seq /\ x.up /\ y.up => x = y

\* The frame f leads in the term t, by a request or by a toast it showed.
Led(f, t) ==
    \/ \E q \in requests : q.leader /\ q.frame = f /\ q.term = t
    \/ \E x \in shown[f] : x.term = t

\* A term has one leader, and the present one its holder.
OneLeads ==
    /\ term \in Nat
    /\ holder \in Frame \cup {None}
    /\ told = [f \in Frame |-> told[f]]
    /\ \A f \in Frame : \A t : Led(f, t) => t \in Nat /\ t <= term /\ (t = term /\ holder # None => f = holder)
    /\ \A f, g \in Frame : \A t : Led(f, t) /\ Led(g, t) => f = g

Inv == Typed /\ ToastInv(book) /\ ShownOnce /\ OneLeads

\* Where nobody leads anew the terms stay as they are.
LEMMA LeadersStay ==
    ASSUME OneLeads, UNCHANGED <<holder, term, told>>, \A f \in Frame : \A t : Led(f, t)' => Led(f, t)
    PROVE  OneLeads'
BY DEF OneLeads

----------------------------------------------------------------------------
\* Nothing is open, nothing is shown.
LEMMA InitInv ==
    ASSUME Init
    PROVE  Inv
<1>1. Typed
  <2>1. signals = [f \in Frame |-> newSignals]
    BY DEF Init
  <2>3. IsSignal(newSignals)
    BY DEF newSignals, IsSignal
  <2>. QED
    BY <2>1, <2>3 DEF Init, Typed
<1>2. ToastInv(book)
  <2>1. book = newBook
    BY DEF Init
  <2>n. None \notin Nat /\ \A o \in Owner, id \in Alert : newBook.tracks[o][id] = blank
    BY AlertsAssumption DEF newBook
  <2>d. DOMAIN newBook.episodes = {} /\ DOMAIN newBook.runtimes = {}
    BY DEF newBook
  <2>2. IsBook(newBook)
    <3>1. IsRecord(newBook)
      BY DEF newBook, IsRecord
    <3>2. newBook.tracks \in Tracks
      BY BlankIsTrack DEF newBook, Tracks
    <3>3. IsEpisodes(newBook.episodes)
      BY DEF newBook, IsEpisodes
    <3>4. /\ newBook.opened \in Nat /\ newBook.hostAt \in Int \cup {None} /\ newBook.forgotten \subseteq Key
          /\ newBook.runtimes = [k \in DOMAIN newBook.runtimes |-> newBook.runtimes[k]]
      BY DEF newBook
    <3>. QED
      BY <3>1, <3>2, <3>3, <3>4, <2>d DEF IsBook
  <2>3. TracksPoint(newBook)
    BY <2>n DEF TracksPoint, blank
  <2>4. OpenAreTracked(newBook) /\ InOrder(newBook)
    BY <2>d DEF OpenAreTracked, InOrder
  <2>5. Timely(newBook)
    BY <2>d, <2>n DEF Timely, Upto, blank
  <2>6. Numbered(newBook)
    <3>1. newBook.toastSeq = 0
      BY DEF newBook
    <3>. QED
      BY <3>1, <2>d DEF Numbered
  <2>7. Limits(newBook)
    <3>1. newBook.granted = <<>> /\ newBook.dropped = 0
      BY DEF newBook
    <3>. QED
      BY <3>1 DEF Limits, Limited
  <2>. QED
    BY <2>1, <2>2, <2>3, <2>4, <2>5, <2>6, <2>7 DEF ToastInv, BookInv
<1>3. ShownOnce
  BY DEF Init, ShownOnce
<1>4. OneLeads
  BY DEF Init, OneLeads, Led, Lease!TermsInit
<1>. QED
  BY <1>1, <1>2, <1>3, <1>4 DEF Inv

\* A tick changes nothing but the time.
LEMMA TickInv ==
    ASSUME Inv, Tick
    PROVE  Inv'
<1>1. Typed'
  BY DEF Inv, Typed, Tick
<1>2. ToastInv(book)'
  BY DEF Inv, Tick
<1>3. ShownOnce'
  BY DEF Inv, ShownOnce, Tick
<1>4. OneLeads'
  BY LeadersStay DEF Inv, Led, Tick
<1>. QED
  BY <1>1, <1>2, <1>3, <1>4 DEF Inv

\* A request carries the term and whether its frame leads, as the lease says.
LEMMA AskInv ==
    ASSUME Inv, NEW f \in Frame, Ask(f)
    PROVE  Inv'
<1>0. Typed /\ ToastInv(book) /\ ShownOnce /\ OneLeads
  BY DEF Inv
<1>u. UNCHANGED <<now, book, signals, shown>> /\ Lease!Answer(f)
  BY DEF Ask
<1>1. PICK h \in Frame \cup {None} :
         /\ holder' = h
         /\ term' = IF h # None /\ h # holder THEN term + 1 ELSE term
         /\ told' = IF f = None THEN told ELSE [told EXCEPT ![f] = [leader |-> f = h, term |-> term']]
  BY <1>u DEF Lease!Answer
<1>2. f # None /\ told'[f].leader = (f = h) /\ told'[f].term = term' /\ told' = [g \in Frame |-> told'[g]]
  BY <1>0, <1>1, FrameAssumption DEF OneLeads
<1>t. term \in Nat /\ term' \in Nat /\ holder' \in Frame \cup {None}
  BY <1>0, <1>1 DEF OneLeads
<1>3. PICK p : /\ p = [frame |-> f, at |-> now, live |-> TRUE, leader |-> f = h, term |-> term']
               /\ requests' = requests \cup {p}
  BY <1>2 DEF Ask
<1>4. p \in Request /\ p.frame = f /\ p.term = term' /\ (p.leader <=> f = h)
  BY <1>0, <1>3, <1>t DEF Typed, Request, IsSignal
<1>5. Typed'
  <2>1. requests' \subseteq Request
    BY <1>0, <1>3, <1>4 DEF Typed
  <2>. QED
    BY <2>1, <1>0, <1>u DEF Typed
<1>6. ToastInv(book)'
  BY <1>0, <1>u
<1>7. ShownOnce'
  BY <1>0, <1>u DEF ShownOnce
<1>8. OneLeads'
  <2>1. \A g \in Frame : \A t : Led(g, t)' => Led(g, t) \/ (g = f /\ f = h /\ t = term')
    BY <1>3, <1>4, <1>u DEF Led
  <2>2. ASSUME NEW g \in Frame, NEW t, Led(g, t)
        PROVE  t \in Nat /\ t <= term' /\ (t = term' /\ holder' # None => g = holder')
    BY <2>2, <1>0, <1>1, <1>t DEF OneLeads
  <2>3. ASSUME f = h, NEW g \in Frame, Led(g, term')
        PROVE  g = f
    BY <2>2, <2>3, <1>1, <1>2
  <2>4. ASSUME NEW g \in Frame, NEW t, Led(g, t)'
        PROVE  t \in Nat /\ t <= term' /\ (t = term' /\ holder' # None => g = holder')
    BY <2>1, <2>2, <2>4, <1>1, <1>t
  <2>5. ASSUME NEW g \in Frame, NEW e \in Frame, NEW t, Led(g, t)', Led(e, t)'
        PROVE  g = e
    BY <2>1, <2>3, <2>5, <1>0 DEF OneLeads
  <2>. QED
    BY <2>4, <2>5, <1>2, <1>t DEF OneLeads
<1>. QED
  BY <1>5, <1>6, <1>7, <1>8 DEF Inv

\* A frame that gives up no longer waits.
LEMMA GiveUpInv ==
    ASSUME Inv, NEW f \in Frame, GiveUp(f)
    PROVE  Inv'
<1>0. Typed /\ ToastInv(book) /\ ShownOnce /\ OneLeads
  BY DEF Inv
<1>u. /\ UNCHANGED <<now, book, signals, shown, holder, term, told>>
      /\ requests' = {IF q.frame = f THEN [q EXCEPT !.live = FALSE] ELSE q : q \in requests}
  BY DEF GiveUp
<1>r. \A p \in requests' : \E q \in requests :
         p \in Request /\ p.frame = q.frame /\ p.leader = q.leader /\ p.term = q.term
  BY <1>0, <1>u DEF Typed, Request
<1>1. Typed'
  BY <1>0, <1>u, <1>r DEF Typed
<1>2. ToastInv(book)' /\ ShownOnce'
  BY <1>0, <1>u DEF ShownOnce
<1>3. OneLeads'
  <2>1. \A g \in Frame : \A t : Led(g, t)' => Led(g, t)
    BY <1>r, <1>u DEF Led
  <2>. QED
    BY <2>1, <1>0, <1>u, LeadersStay
<1>. QED
  BY <1>1, <1>2, <1>3 DEF Inv

\* The toasts of a frame that applied an answer to q: those it showed, as the
\* answer leaves them, and new ones of this request.
ShownAs(b, alerts, f, q, x) ==
    \/ \E y \in shown[f] : x = KeptAs(y, LeftOut(b, alerts))
    \/ f = q.frame /\ q.leader /\ x.term = q.term

\* What a frame shows after it applied an answer of the book c to its request q.
LEMMA AppliedShows ==
    ASSUME Typed, NEW c, ToastInv(c), NEW q \in requests,
           NEW alerts, IsView(c, alerts), Applied(q.frame, c, alerts, q),
           \A f \in Frame : \A x \in shown[f] : IsShown(c, signals[f], x),
           \A f \in Frame : \A x, y \in shown[f] : x.seq = y.seq /\ x.up /\ y.up => x = y
    PROVE  /\ signals' = [f \in Frame |-> signals'[f]]
           /\ \A f \in Frame : IsSignal(signals'[f])
           /\ shown' = [f \in Frame |-> shown'[f]]
           /\ \A f \in Frame : \A x \in shown'[f] : x \in shown[f] \/ ShownAs(c, alerts, f, q, x)
           /\ \A f \in Frame : \A x \in shown'[f] : IsShown(c, signals'[f], x)
           /\ \A f \in Frame : \A x, y \in shown'[f] : x.seq = y.seq /\ x.up /\ y.up => x = y
<1> DEFINE f == q.frame
           s == signals[f]
           t == signals'[f]
           gone == LeftOut(c, alerts)
           toasts == IF q.leader THEN ToastedFrom(s, alerts) ELSE {}
           entry(id) == [id |-> id, seq |-> alerts[id].seq, term |-> q.term, answer |-> served,
                         known |-> s.seen[id] # None, up |-> TRUE]
<1>q. /\ f \in Frame /\ q.leader \in BOOLEAN /\ IsSignal(s)
      /\ s.seen \in [Alert -> Nat \cup {None}] /\ c.toastSeq \in Nat
  BY DEF Typed, Request, IsSignal, ToastInv, Numbered
<1>1. PICK seen : Accounted(s, alerts, q.leader) = seen
  OBVIOUS
<1>2. AccountsFor(s, alerts, q.leader, seen)
  BY <1>1, <1>q, AccountedIs
<1>3. PICK bdg : signals' = [signals EXCEPT ![f] = [seen |-> seen, primed |-> TRUE, badge |-> bdg]]
  BY <1>1 DEF Applied
<1>4. /\ signals' = [g \in Frame |-> signals'[g]]
      /\ \A g \in Frame \ {f} : signals'[g] = signals[g]
      /\ t = [seen |-> seen, primed |-> TRUE, badge |-> bdg]
  BY <1>3, <1>q DEF Typed
<1>5. IsSignal(t) /\ t.seen = seen
  BY <1>2, <1>4 DEF AccountsFor, IsSignal
<1>6. shown' = [shown EXCEPT ![f] = {KeptAs(x, gone) : x \in shown[f]} \cup {entry(id) : id \in toasts}]
  BY DEF Applied, KeptAs
<1>7. /\ shown' = [g \in Frame |-> shown'[g]]
      /\ \A g \in Frame \ {f} : shown'[g] = shown[g]
      /\ shown'[f] = {KeptAs(x, gone) : x \in shown[f]} \cup {entry(id) : id \in toasts}
  BY <1>6, <1>q DEF Typed
<1>8. \A id \in toasts : /\ q.leader /\ id \in ToastedFrom(s, alerts) /\ IsEntry(entry(id))
                         /\ entry(id).id = id /\ entry(id).seq = alerts[id].seq /\ entry(id).term = q.term
  BY DEF IsEntry
<1> HIDE DEF entry, toasts, s, t
\* The toasts of before, as the answer leaves them.
<1>9. ASSUME NEW x \in shown[f], NEW y, y = KeptAs(x, gone)
      PROVE  /\ IsShown(c, s, x) /\ IsShown(c, t, y)
             /\ y.seq = x.seq /\ (y.up => x.up)
  <2>1. IsShown(c, s, x)
    BY <1>q DEF s
  <2>2. AccountsFor(s, alerts, q.leader, t.seen)
    BY <1>2, <1>5
  <2>3. IsShown(c, t, y)
    BY <2>1, <2>2, <1>q, <1>9, ShownApplied
  <2>4. y.seq = x.seq /\ (y.up => x.up)
    BY <2>1, <1>9, KeptIs DEF IsShown
  <2>. QED
    BY <2>1, <2>3, <2>4
\* The new ones are of numbers this frame had not kept up.
<1>10. ASSUME NEW id \in toasts
       PROVE  /\ IsShown(c, t, entry(id))
              /\ \A x \in shown[f] : x.up => x.seq # entry(id).seq
              /\ \A j \in toasts : entry(j).seq = entry(id).seq => j = id
  <2>1. ToastedAfresh(s, alerts, t.seen)
    BY <1>2, <1>5, <1>8, <1>10 DEF AccountsFor
  <2>2. PICK x : x = entry(id)
    OBVIOUS
  <2>3. x.id = id /\ x.seq = alerts[id].seq /\ q.leader /\ id \in ToastedFrom(s, alerts) /\ IsEntry(x)
    BY <2>2, <1>8, <1>10
  <2>4. /\ IsShown(c, t, x)
        /\ \A y : IsShown(c, s, y) /\ y.up => y.seq # x.seq
        /\ \A j \in ToastedFrom(s, alerts) : alerts[j].seq = x.seq => j = id
    BY <2>1, <2>3, <1>q, NewlyShown
  <2>. QED
    BY <2>2, <2>4, <1>8, <1>q DEF s
<1>11. ASSUME NEW g \in Frame, NEW x \in shown'[g]
       PROVE  x \in shown[g] \/ ShownAs(c, alerts, g, q, x)
  BY <1>7, <1>8, <1>11 DEF ShownAs
<1>12. ASSUME NEW g \in Frame, NEW x \in shown'[g]
       PROVE  IsShown(c, signals'[g], x)
  <2>1. CASE g # f
    BY <2>1, <1>4, <1>7, <1>12
  <2>2. CASE g = f
    BY <2>2, <1>7, <1>9, <1>10, <1>12 DEF t
  <2>. QED
    BY <2>1, <2>2
<1>13. ASSUME NEW g \in Frame, NEW x \in shown'[g], NEW y \in shown'[g], x.seq = y.seq, x.up, y.up
       PROVE  x = y
  <2>1. CASE g # f
    BY <2>1, <1>7, <1>13
  <2>2. CASE g = f
    <3> DEFINE Old(z) == \E z0 \in shown[f] : z = KeptAs(z0, gone)
               New(z) == \E id \in toasts : z = entry(id)
    <3>1. (Old(x) \/ New(x)) /\ (Old(y) \/ New(y))
      BY <2>2, <1>7, <1>13
    <3>2. CASE Old(x) /\ Old(y)
      <4>1. PICK a \in shown[f] : x = KeptAs(a, gone)
        BY <3>2
      <4>2. PICK b \in shown[f] : y = KeptAs(b, gone)
        BY <3>2
      <4>3. a = b
        BY <4>1, <4>2, <1>9, <1>13, <1>q
      <4>. QED
        BY <4>1, <4>2, <4>3
    <3>3. CASE Old(x) /\ New(y)
      BY <3>3, <1>9, <1>10, <1>13
    <3>4. CASE New(x) /\ Old(y)
      BY <3>4, <1>9, <1>10, <1>13
    <3>5. CASE New(x) /\ New(y)
      BY <3>5, <1>10, <1>13
    <3>. QED
      BY <3>1, <3>2, <3>3, <3>4, <3>5
  <2>. QED
    BY <2>1, <2>2
<1>14. \A g \in Frame : IsSignal(signals'[g])
  BY <1>4, <1>5 DEF Typed, s, t
<1>. QED
  BY <1>4, <1>7, <1>11, <1>12, <1>13, <1>14

\* Whatever slot was read, or none: the answer is of a sound book that goes on
\* from this one, and the frame, if it still waits, applies it.
LEMMA ServedFrom ==
    ASSUME Inv, NEW q \in requests, Serve(q)
    PROVE  \E c, alerts : /\ book' = c /\ ToastInv(c) /\ Tells(book, c) /\ IsView(c, alerts)
                          /\ Told(q, c, alerts)
<1>0. ToastInv(book) /\ q.at \in Int /\ q.leader \in BOOLEAN
  BY DEF Inv, Typed, Request
<1>1. CASE Answer(q)
  <2>1. PICK k \in Key : \E r \in Reading[k], covered \in Continues(k) : \E c, alerts :
           /\ Offered(Evaluated(book, k, r[1], r[2], q.at, covered), k, q.leader, q.at) = c
           /\ ViewedAlerts(c, k, q.leader) = alerts
           /\ book' = c /\ Told(q, c, alerts)
    BY <1>1 DEF Answer
  <2>2. PICK r \in Reading[k], covered \in Continues(k) : \E c, alerts :
           /\ Offered(Evaluated(book, k, r[1], r[2], q.at, covered), k, q.leader, q.at) = c
           /\ ViewedAlerts(c, k, q.leader) = alerts
           /\ book' = c /\ Told(q, c, alerts)
    BY <2>1
  <2>c. PICK c, alerts :
           /\ Offered(Evaluated(book, k, r[1], r[2], q.at, covered), k, q.leader, q.at) = c
           /\ ViewedAlerts(c, k, q.leader) = alerts
           /\ book' = c /\ Told(q, c, alerts)
    BY <2>2
  <2>3. ToastInv(c) /\ Tells(book, c)
    BY <1>0, <2>c, AnswerTells
  <2>4. IsView(c, alerts)
    BY <1>0, <2>c, <2>3, ViewedIsView
  <2>. QED
    BY <2>c, <2>3, <2>4
<1>2. CASE AnswerRemote(q)
  <2>1. PICK alerts : alerts = [id \in {} |-> None]
    OBVIOUS
  <2>2. book' = book /\ Told(q, book, alerts) /\ DOMAIN alerts = {}
    BY <1>2, <2>1 DEF AnswerRemote
  <2>3. IsView(book, alerts)
    BY <2>2 DEF IsView
  <2>4. Tells(book, book)
    <3>1. book.toastSeq \in Nat
      BY <1>0 DEF ToastInv, Numbered
    <3>2. book.toastSeq >= book.toastSeq
      BY <3>1
    <3>. QED
      BY <3>2 DEF Tells
  <2>. QED
    BY <1>0, <2>2, <2>3, <2>4
<1>. QED
  BY <1>1, <1>2 DEF Serve

\* The answer keeps what holds of the book, of the frames and of the terms.
LEMMA ServeInv ==
    ASSUME Inv, NEW q \in requests, Serve(q)
    PROVE  Inv'
<1>0. Typed /\ ToastInv(book) /\ ShownOnce /\ OneLeads
  BY DEF Inv
<1>c. PICK c, alerts : /\ book' = c /\ ToastInv(c) /\ Tells(book, c) /\ IsView(c, alerts)
                       /\ Told(q, c, alerts)
  BY ServedFrom
<1>u. requests' \subseteq requests /\ UNCHANGED <<now, holder, term, told>>
  BY DEF Serve
<1>3. /\ \A f \in Frame : \A x \in shown[f] : IsShown(c, signals[f], x)
      /\ \A f \in Frame : \A x, y \in shown[f] : x.seq = y.seq /\ x.up /\ y.up => x = y
  BY <1>0, <1>c, ShownTells DEF ShownOnce
<1>4. /\ signals' = [f \in Frame |-> signals'[f]]
      /\ \A f \in Frame : IsSignal(signals'[f])
      /\ shown' = [f \in Frame |-> shown'[f]]
      /\ \A f \in Frame : \A x \in shown'[f] : x \in shown[f] \/ ShownAs(c, alerts, f, q, x)
      /\ \A f \in Frame : \A x \in shown'[f] : IsShown(c, signals'[f], x)
      /\ \A f \in Frame : \A x, y \in shown'[f] : x.seq = y.seq /\ x.up /\ y.up => x = y
  <2>1. CASE q.live
    <3>1. Applied(q.frame, c, alerts, q)
      BY <2>1, <1>c DEF Told
    <3>. QED
      BY <3>1, <1>0, <1>c, <1>3, AppliedShows
  <2>2. CASE ~ q.live
    BY <2>2, <1>0, <1>c, <1>3 DEF Typed, Told
  <2>. QED
    BY <2>1, <2>2
<1>5. Typed'
  BY <1>0, <1>u, <1>4 DEF Typed
<1>6. ToastInv(book)'
  BY <1>c
<1>7. ShownOnce'
  BY <1>c, <1>4 DEF ShownOnce
<1>8. OneLeads'
  <2>1. ASSUME NEW f \in Frame, NEW t, NEW x \in shown'[f], x.term = t
        PROVE  Led(f, t)
    <3>1. CASE x \in shown[f]
      BY <3>1, <2>1 DEF Led
    <3>2. CASE f = q.frame /\ q.leader /\ x.term = q.term
      BY <3>2, <2>1 DEF Led
    <3>3. CASE \E y \in shown[f] : x = KeptAs(y, LeftOut(c, alerts))
      <4>1. PICK y \in shown[f] : x = KeptAs(y, LeftOut(c, alerts))
        BY <3>3
      <4>2. IsEntry(y)
        BY <4>1, <1>3 DEF IsShown
      <4>3. x.term = y.term
        BY <4>1, <4>2, KeptIs
      <4>. QED
        BY <4>1, <4>3, <2>1 DEF Led
    <3>. QED
      BY <3>1, <3>2, <3>3, <2>1, <1>4 DEF ShownAs
  <2>2. \A f \in Frame : \A t : Led(f, t)' => Led(f, t)
    BY <2>1, <1>u DEF Led
  <2>. QED
    BY <2>2, <1>0, <1>u, LeadersStay
<1>. QED
  BY <1>5, <1>6, <1>7, <1>8 DEF Inv

----------------------------------------------------------------------------
\* The invariant holds in every reachable state.
LEMMA InvHolds == Spec => []Inv
<1>1. Init => Inv
  BY InitInv
<1>2. Inv /\ [Next]_vars => Inv'
  <2>1. SUFFICES ASSUME Inv, [Next]_vars PROVE Inv'
    OBVIOUS
  <2>2. CASE Tick
    BY <2>1, <2>2, TickInv
  <2>3. ASSUME NEW f \in Frame, Ask(f)
        PROVE  Inv'
    BY <2>1, <2>3, AskInv
  <2>4. ASSUME NEW q \in requests, Serve(q)
        PROVE  Inv'
    BY <2>1, <2>4, ServeInv
  <2>5. ASSUME NEW f \in Frame, GiveUp(f)
        PROVE  Inv'
    BY <2>1, <2>5, GiveUpInv
  <2>6. CASE UNCHANGED vars
    <3>1. UNCHANGED <<now, book, requests, signals, shown, holder, term, told>>
      BY <2>6 DEF vars
    <3>2. Typed' /\ ToastInv(book)' /\ ShownOnce'
      BY <2>1, <3>1 DEF Inv, Typed, ShownOnce
    <3>3. OneLeads'
      BY <2>1, <3>1 DEF Inv, OneLeads, Led
    <3>. QED
      BY <3>2, <3>3 DEF Inv
  <2>. QED
    BY <2>1, <2>2, <2>3, <2>4, <2>5, <2>6 DEF Next
<1>. QED
  BY <1>1, <1>2, PTL DEF Spec

\* An alert open in the log is the open episode of a track, and the episodes of
\* one alert of a slot never overlap, in whatever order the requests of the
\* frames are served (AlertBook.step, gap and evictRuntimes).
THEOREM EpisodesHold == Spec => []EpisodesAreSound
<1>1. ASSUME Inv
      PROVE  EpisodesAreSound
  <2>1. TracksPoint(book) /\ OpenAreTracked(book) /\ InOrder(book)
    BY <1>1 DEF Inv, ToastInv, BookInv
  <2>2. \A n \in DOMAIN book.episodes : book.episodes[n].owner \in Owner /\ book.episodes[n].id \in Alert /\ n # None
    BY <1>1, AlertsAssumption DEF Inv, ToastInv, BookInv, IsBook, IsEpisodes, Episode
  <2>3. ASSUME NEW m \in DOMAIN book.episodes
        PROVE  LET x == book.episodes[m]
               IN  /\ x.until = None <=> book.tracks[x.owner][x.id].episode = m
                   /\ x.until # None => x.since <= x.until
    BY <2>1, <2>2, <2>3 DEF TracksPoint, OpenAreTracked
  <2>. QED
    BY <2>1, <2>3 DEF EpisodesAreSound, InOrder
<1>. QED
  BY <1>1, InvHolds, PTL

\* However late the requests are served, and whichever frames lead, the grants
\* are a minute apart and PerHour of them span an hour (ToastLimiter.allow).
THEOREM LimitsHold == Spec => []ToastsAreLimited
<1>1. ASSUME Inv
      PROVE  ToastsAreLimited
  <2>1. Limited(book.granted, book.dropped)
    BY <1>1 DEF Inv, ToastInv, Limits
  <2>2. DOMAIN book.granted = 1..Len(book.granted)
    BY <2>1 DEF Limited
  <2>. QED
    BY <2>1, <2>2 DEF ToastsAreLimited, Limited
<1>. QED
  BY <1>1, InvHolds, PTL

\* A frame shows a toast again only if it was answered without the alert while
\* that was up (of another slot, of none, or remotely), and no two frames show it
\* in one term of the lease (Signals.apply and the lease of service/server.ts).
THEOREM ToastsHold == Spec => []ToastsOncePerTerm
<1>1. ASSUME Inv
      PROVE  ToastsOncePerTerm
  <2>1. ASSUME NEW f \in Frame, NEW g \in Frame \ {f}, NEW x \in shown[f], NEW y \in shown[g]
        PROVE  x.term # y.term
    <3>1. Led(f, x.term) /\ Led(g, y.term)
      BY <2>1 DEF Led
    <3>. QED
      BY <3>1, <2>1, <1>1 DEF Inv, OneLeads
  <2>. QED
    BY <2>1, <1>1 DEF Inv, ShownOnce, ToastsOncePerTerm
<1>. QED
  BY <1>1, InvHolds, PTL
=============================================================================
