------------------------------- MODULE Toasts -------------------------------
(***************************************************************************)
(* From a reading to a toast: requests of several frames evaluate alerts   *)
(* in the service, and the frame that leads shows the toast.               *)
(*                                                                         *)
(* Composes Alerts (the book), Terms (the lease, taken before the awaits   *)
(* of a request and used after them, service/server.ts) and the Signals of *)
(* each frame, panel/alerts/signals.ts.                                    *)
(*                                                                         *)
(* Which slot an answer is of shows only when it was read: what a frame    *)
(* selected may resolve to another one each time, to none (a Key of its    *)
(* own, UNSLOTTED), or to a remote chat, which is told of no alerts.  A    *)
(* request outdated by a change of selection is still served, but its      *)
(* answer is not applied.                                                  *)
(***************************************************************************)
EXTENDS Alerts

CONSTANTS
    Frame,          \* the frame ids
    Reading,        \* what may be read of each slot: pairs of a runtime and a host, or None
    Badged,         \* the alerts that count on the badge
    Preference,     \* "critical", "all" or "off"
    SinceFresh,     \* how recent an alert a newly mounted leader toasts
    PanelFrame,     \* the frames that are the rail panel
    MaxLag,         \* bound: a request is served within this time
    MaxNow,         \* bound: the clock stops here
    MaxOpen,        \* bound: requests open at a time
    MaxServed,      \* bound: requests served
    MaxGivenUp,     \* bound: polls given up
    MaxTerm         \* bound: terms of the lease

VARIABLES
    now,        \* the clock of the Mac
    served,     \* how many requests were served
    givenUp,    \* how many polls were given up
    book,       \* the AlertBook
    requests,   \* the snapshot requests between lease.observe and their answer
    signals,    \* the Signals of each frame
    badge,      \* what the host shows on the rail icon
    shown,      \* history: what each frame toasted
    holder,     \* the lease: see Terms
    term,
    told

ASSUME FrameAssumption == None \notin Frame

Lease == INSTANCE Terms

vars == <<now, served, givenUp, book, requests, signals, badge, shown, holder, term, told>>

Request == [frame : Frame, at : Nat, leader : BOOLEAN, term : Nat, live : BOOLEAN]

Unset == -1     \* undefined: not set by this frame since it last led

newSignals == [seen |-> [id \in Alert |-> None], primed |-> FALSE, badge |-> Unset]

Pending(f) == {q \in requests : q.frame = f /\ q.live}

----------------------------------------------------------------------------
(* A frame applies an answer.                                              *)

\* What a frame still remembers of alerts when the answer no longer has them.
Alive(seen, alerts) == [id \in Alert |-> IF id \in DOMAIN alerts THEN seen[id] ELSE None]

\* The alerts of an answer whose toast this frame has not accounted for.
NewIn(seen, alerts) ==
    {id \in DOMAIN alerts : /\ alerts[id].seq # None
                            /\ seen[id] = None \/ alerts[id].seq > seen[id]}

Wanted(id) ==
    CASE Preference = "off"      -> FALSE
      [] Preference = "critical" -> Rule[id].rank = 3
      [] OTHER                   -> TRUE

\* Of those the ones it toasts: a frame that leads from its first answer
\* toasts only what began just now.
ToastedFrom(s, alerts) ==
    LET seen == Alive(s.seen, alerts)
    IN  {id \in NewIn(seen, alerts) :
            /\ s.primed \/ seen[id] # None \/ now - alerts[id].since <= SinceFresh
            /\ Wanted(id)}

\* Mutant: a leader does not keep what it accounted for.
AccountedNot(s, alerts, leader) == Alive(s.seen, alerts)

\* A leader accounts for every new toast, any other frame for what is up.
Accounted(s, alerts, leader) ==
    LET seen == Alive(s.seen, alerts)
    IN  [id \in Alert |->
            IF leader THEN IF id \in NewIn(seen, alerts) THEN alerts[id].seq ELSE seen[id]
            ELSE IF id \in DOMAIN alerts /\ seen[id] = None
                 THEN IF alerts[id].seq = None THEN 0 ELSE alerts[id].seq
                 ELSE seen[id]]

BadgeOf(f, alerts) ==
    LET count == Cardinality(DOMAIN alerts \cap Badged)
    IN  IF count > 0 /\ f \notin PanelFrame THEN count ELSE None

\* The numbers of alerts that are up in the book but not in an answer.
LeftOut(b, alerts) ==
    {b.episodes[n].toast : n \in {m \in DOMAIN b.episodes :
        b.episodes[m].until = None /\ b.episodes[m].id \notin DOMAIN alerts}}

\* Signals.apply with the answer to q.  For history, a toast is no longer kept up
\* once an answer leaves out its alert though it is.
Applied(f, b, alerts, q) ==
    LET s     == signals[f]
        next  == BadgeOf(f, alerts)
        toasts == IF q.leader THEN ToastedFrom(s, alerts) ELSE {}
        entry(id) == [id |-> id, seq |-> alerts[id].seq, term |-> q.term, answer |-> served,
                      known |-> s.seen[id] # None, up |-> TRUE]
        kept  == {[x EXCEPT !.up = @ /\ x.seq \notin LeftOut(b, alerts)] : x \in shown[f]}
    IN  /\ signals' = [signals EXCEPT ![f] = [seen   |-> Accounted(s, alerts, q.leader),
                                              primed |-> TRUE,
                                              badge  |-> IF q.leader THEN next ELSE Unset]]
        /\ badge' = IF q.leader /\ next # s.badge THEN next ELSE badge
        /\ shown' = [shown EXCEPT ![f] = kept \cup {entry(id) : id \in toasts}]

----------------------------------------------------------------------------
(* A poll.                                                                 *)

\* The request arrives: the clock is read and the lease observed.
Ask(f) ==
    /\ Pending(f) = {}
    /\ served + Cardinality(requests) < MaxServed /\ Cardinality(requests) < MaxOpen
    /\ Lease!Answer(f)
    /\ requests' = requests \cup
          {[frame |-> f, at |-> now, live |-> TRUE,
            leader |-> told'[f].leader, term |-> told'[f].term]}
    /\ UNCHANGED <<now, served, givenUp, book, signals, badge, shown>>

\* Whether a reading may continue the segment of its slot: the first one never
\* does, and a gap needs time to have passed (TrendRing.append).
Continues(k) ==
    IF k \notin DOMAIN book.runtimes THEN {FALSE}
    ELSE IF now = book.runtimes[k].lastAt THEN {TRUE} ELSE BOOLEAN

\* The answer is applied unless the frame gave the poll up.
Told(q, b, alerts) ==
    IF q.live THEN Applied(q.frame, b, alerts, q) ELSE UNCHANGED <<signals, badge, shown>>

\* After the awaits: the reading of whatever slot was read is judged and the
\* leader's toasts decided.
Answer(q) ==
    \E k \in Key : \E r \in Reading[k], covered \in Continues(k) :
        LET b == Offered(Evaluated(book, k, r[1], r[2], q.at, covered), k, q.leader, q.at)
        IN  book' = b /\ Told(q, b, ViewedAlerts(b, k, q.leader))

\* The selected chat is answered remotely: nothing is read, no alert is told.
AnswerRemote(q) ==
    /\ UNCHANGED book
    /\ Told(q, book, [id \in {} |-> None])

Serve(q) ==
    /\ Answer(q) \/ AnswerRemote(q)
    /\ requests' = requests \ {q}
    /\ served' = served + 1
    /\ UNCHANGED <<now, givenUp, holder, term, told>>

\* The frame gives its poll up, because it fails, is hidden, or selects another
\* connection; the service goes on with it.
GiveUp(f) ==
    /\ givenUp < MaxGivenUp
    /\ givenUp' = givenUp + 1
    /\ Pending(f) # {}
    /\ requests' = {IF q.frame = f THEN [q EXCEPT !.live = FALSE] ELSE q : q \in requests}
    /\ UNCHANGED <<now, served, book, signals, badge, shown, holder, term, told>>

Tick ==
    /\ now < MaxNow
    /\ \A q \in requests : now - q.at < MaxLag
    /\ now' = now + 1
    /\ UNCHANGED <<served, givenUp, book, requests, signals, badge, shown, holder, term, told>>

Init ==
    /\ Lease!TermsInit
    /\ now = 0 /\ served = 0 /\ givenUp = 0
    /\ book = newBook
    /\ requests = {}
    /\ signals = [f \in Frame |-> newSignals]
    /\ badge = None
    /\ shown = [f \in Frame |-> {}]

Next ==
    \/ Tick
    \/ \E f \in Frame : Ask(f)
    \/ \E q \in requests : Serve(q)
    \/ \E f \in Frame : GiveUp(f)

Spec == Init /\ [][Next]_vars

----------------------------------------------------------------------------
\* The types, and the bounds of the log, the slots and the grants.
TypeOK ==
    /\ BookTypeOK(book)
    /\ requests \subseteq Request
    /\ badge \in Nat \cup {None}

\* An alert open in the log is the open episode of a track, so none stays open
\* for ever after a gap, an eviction or a more severe alert; and however late
\* requests are served, the episodes of one alert never overlap, unless its slot
\* was evicted, and with it what was known of when it was last judged.
EpisodesAreSound ==
    \A m \in DOMAIN book.episodes :
        LET x == book.episodes[m]
        IN  /\ x.until = None <=> book.tracks[x.owner][x.id].episode = m
            /\ x.until # None => x.since <= x.until
            /\ \A n \in DOMAIN book.episodes :
                  LET y == book.episodes[n]
                  IN  m < n /\ x.id = y.id /\ x.owner = y.owner /\ x.owner \notin book.forgotten
                        => x.until # None /\ x.until <= y.since

\* No two toasts are granted within a minute and no more than PerHour within an
\* hour, of all that were ever granted, whichever frames they went to and
\* however late their requests are served.
ToastsAreLimited ==
    \A i, j \in DOMAIN book.granted : i < j =>
        book.granted[j] - book.granted[i] >= (IF j - i >= PerHour THEN Hour ELSE Minute)

\* A frame shows a toast again only if an answer in between left its alert out
\* though it was still up, and within one term of the lease only one frame shows it.
ToastsOncePerTerm ==
    \A f \in Frame :
        /\ \A x, y \in shown[f] : x.seq = y.seq /\ x.up /\ y.up => x = y
        /\ \A g \in Frame \ {f} : \A x \in shown[f], y \in shown[g] :
                x.seq = y.seq => x.term # y.term

\* "toast once per new value" (contract/alerts.ts:11): no frame shows a toast twice.
ToastShownOnce ==
    \A f \in Frame : \A x, y \in shown[f] : x.seq = y.seq => x = y

\* "remember what is already up, so a handover never repeats the old leader's
\* toasts" (signals.ts:36): a frame that takes the lease over does not show a
\* toast of an earlier leader for an alert it had already been told of.
HandoverRepeatsNothing ==
    \A f, g \in Frame : \A x \in shown[f], y \in shown[g] :
        ~ (f # g /\ x.seq = y.seq /\ x.term < y.term /\ y.known)
============================================================================
