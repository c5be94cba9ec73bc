-------------------------------- MODULE Omlx --------------------------------
(***************************************************************************)
(* service/adapters/omlx.ts: the admin session behind the readings of oMLX *)
(* (AdminSession, shared by the slot's read and by its usage read), the    *)
(* fallback to /api/status while the key is refused, and the restart of    *)
(* the server that a read concludes from the reported uptime.              *)
(* oMLX is the environment: it restarts, which forgets its cookies, and    *)
(* its key may change.  Each request is answered with the state at one     *)
(* moment and the answer may be late.  The normalisation of the bodies,    *)
(* the health and model lists and the staleness of a prefill are left out, *)
(* as is the tier by which a read may skip /api/status.                    *)
(***************************************************************************)
EXTENDS Integers

CONSTANTS
    None,
    Retry,          \* ADMIN_RETRY_MS
    Slack,          \* RESTART_SLACK_MS
    MaxNow,         \* bound: the clock
    MaxReads,       \* bound: reads of either kind
    MaxRestarts,    \* bound: restarts of oMLX
    MaxRekeys,      \* bound: changes of its key
    MaxFaults       \* bound: requests that fail

Reader == {"read", "usage"}

OmlxAssumption == {Retry, Slack} \subseteq Nat

VARIABLES
    now,
    server,         \* oMLX: [accepts: the key is an admin key, boot, cookies, given: how many]
    session,        \* AdminSession: [cookie, login, refused], blame: history
    gets,           \* per reader, the get it awaits
    status,         \* per read, the answer of /api/status it holds
    uptime,         \* the adapter's uptime: [ms, at, boot: history], or None
    misread,        \* history: a restart was counted that did not happen
    counts          \* [reads, restarts, rekeys, faults]

omlxVars == <<now, server, session, gets, status, uptime, misread, counts>>
reading == <<status, uptime, misread>>

IdleGet == [at |-> "idle"]
Lost == [ms |-> None]

OmlxInit ==
    /\ now = 0
    /\ server = [accepts |-> TRUE, boot |-> 0, cookies |-> {}, given |-> 0]
    /\ session = [cookie |-> None, login |-> "none", refused |-> None, blame |-> FALSE]
    /\ gets = [r \in Reader |-> IdleGet]
    /\ status = None /\ uptime = None
    /\ misread = FALSE
    /\ counts = [reads |-> 0, restarts |-> 0, rekeys |-> 0, faults |-> 0]

Refused(s) == s.refused # None /\ now - s.refused < Retry
Count(field) == counts' = [counts EXCEPT ![field] = @ + 1]

-----------------------------------------------------------------------------
(* oMLX *)

\* It forgets its cookies, the ones on their way to it too.
ForgottenOnTheWay ==
    [r \in Reader |-> IF gets[r].at = "send" THEN [gets[r] EXCEPT !.forgotten = TRUE] ELSE gets[r]]

\* A restart is a new boot.
Reboot ==
    /\ counts.restarts < MaxRestarts /\ Count("restarts")
    /\ server' = [server EXCEPT !.boot = now, !.cookies = {}] /\ gets' = ForgottenOnTheWay
    /\ UNCHANGED <<now, session, reading>>

\* The key is taken back, or made an admin key again.
Rekey ==
    /\ counts.rekeys < MaxRekeys /\ Count("rekeys")
    /\ server' = [server EXCEPT !.accepts = ~@, !.cookies = {}] /\ gets' = ForgottenOnTheWay
    /\ UNCHANGED <<now, session, reading>>

Pass ==
    /\ now < MaxNow
    /\ now' = now + 1
    /\ UNCHANGED <<server, session, gets, reading, counts>>

-----------------------------------------------------------------------------
(* AdminSession.get *)

\* attempt counts the cookies tried; forgotten is history: by oMLX, on the way.
Trying(at, cookie, fresh, attempt) ==
    [at |-> at, cookie |-> cookie, fresh |-> fresh, attempt |-> attempt, forgotten |-> FALSE]
Answered(what) == [at |-> what]

\* An attempt: the cookie that is there is sent, else the login is joined, even
\* when another get has met a refusal since.
Attempt(r, s, n) ==
    IF s.cookie = None
    THEN /\ gets' = [gets EXCEPT ![r] = Trying("login", None, TRUE, n)]
         /\ session' = [s EXCEPT !.login = "flight"]
    ELSE /\ gets' = [gets EXCEPT ![r] = IF Refused(s) THEN Answered("refused")
                                        ELSE Trying("send", s.cookie, FALSE, n)]
         /\ session' = s

Begin(r) ==
    /\ gets[r] = IdleGet
    /\ counts.reads < MaxReads /\ Count("reads")
    /\ IF Refused(session)
       THEN gets' = [gets EXCEPT ![r] = Answered("refused")] /\ UNCHANGED session
       ELSE Attempt(r, session, 1)
    /\ UNCHANGED <<now, server, reading>>

\* Everyone who joined the login goes on with its result.
Continue(Then(_)) ==
    gets' = [r \in Reader |-> IF gets[r].at = "login" THEN Then(gets[r]) ELSE gets[r]]

LoginAnswers ==
    /\ session.login = "flight"
    /\ IF server.accepts
       THEN LET c == server.given + 1 IN
            /\ server' = [server EXCEPT !.cookies = @ \cup {c}, !.given = c]
            /\ session' = [session EXCEPT !.login = "none", !.cookie = c]
            /\ Continue(LAMBDA g : IF Refused(session) THEN Answered("refused")
                                   ELSE [g EXCEPT !.at = "send", !.cookie = c])
       ELSE /\ session' = [session EXCEPT !.login = "none", !.refused = now]
            /\ Continue(LAMBDA g : Answered("refused"))
            /\ UNCHANGED server
    /\ UNCHANGED <<now, reading, counts>>

LoginFails ==
    /\ session.login = "flight"
    /\ counts.faults < MaxFaults /\ Count("faults")
    /\ session' = [session EXCEPT !.login = "none"]
    /\ Continue(LAMBDA g : Answered("failed"))
    /\ UNCHANGED <<now, server, reading>>

\* Mutant: any rejected cookie means that the key is refused.
IsAnyCookie(get) == TRUE

\* A fresh cookie, or a second one, that is refused means this key cannot read
\* the admin API.
IsLast(get) == get.fresh \/ get.attempt = 2

Answers(r) ==
    /\ gets[r].at = "send"
    /\ IF gets[r].cookie \in server.cookies
       THEN gets' = [gets EXCEPT ![r] = Answered("ok")] /\ UNCHANGED session
       ELSE LET s == [session EXCEPT !.cookie = None] IN
            IF IsLast(gets[r])
            THEN /\ gets' = [gets EXCEPT ![r] = Answered("refused")]
                 /\ session' = [s EXCEPT !.refused = now,
                                         !.blame = @ \/ (server.accepts /\ ~gets[r].forgotten)]
            ELSE Attempt(r, s, 2)
    /\ UNCHANGED <<now, server, reading, counts>>

GetFails(r) ==
    /\ gets[r].at = "send"
    /\ counts.faults < MaxFaults /\ Count("faults")
    /\ gets' = [gets EXCEPT ![r] = Answered("failed")]
    /\ UNCHANGED <<now, server, session, reading>>

UsageEnds ==
    /\ gets["usage"].at \in {"ok", "refused", "failed"}
    /\ gets' = [gets EXCEPT !["usage"] = IdleGet]
    /\ UNCHANGED <<now, server, session, reading, counts>>

-----------------------------------------------------------------------------
(* OmlxAdapter.read: activity and status are asked for together. *)

StatusAnswers ==
    /\ gets["read"] # IdleGet /\ status = None
    /\ status' = [ms |-> now - server.boot, at |-> now, boot |-> server.boot]
    /\ UNCHANGED <<now, server, session, gets, uptime, misread, counts>>

StatusFails ==
    /\ gets["read"] # IdleGet /\ status = None
    /\ counts.faults < MaxFaults /\ Count("faults")
    /\ status' = Lost
    /\ UNCHANGED <<now, server, session, gets, uptime, misread>>

\* Mutant: no slack for the time between the sample and its reading.
FellBehindAtAll(ms) == uptime # None /\ ms < uptime.ms + (now - uptime.at)

\* observeStatus, once everything the read waits for has arrived: the server
\* restarted when its uptime fell behind the time that passed.
FellBehind(ms) ==
    uptime # None /\ ms + Slack < uptime.ms + (now - uptime.at)

\* A get that throws ends the read at once; a refused one is served by /api/status.
ReadEnds ==
    /\ \/ gets["read"].at = "failed"
       \/ gets["read"].at \in {"ok", "refused"} /\ status # None
    /\ IF status \in {None, Lost} \/ gets["read"].at = "failed"
       THEN UNCHANGED <<uptime, misread>>
       ELSE /\ uptime' = [ms |-> status.ms, at |-> now, boot |-> status.boot]
            /\ misread' = (misread \/ /\ FellBehind(status.ms)
                                      /\ status.boot = uptime.boot
                                      /\ now - status.at <= Slack)
    /\ gets' = [gets EXCEPT !["read"] = IdleGet]
    /\ status' = None
    /\ UNCHANGED <<now, server, session, counts>>

OmlxNext ==
    \/ Reboot \/ Rekey \/ Pass
    \/ \E r \in Reader : Begin(r) \/ Answers(r) \/ GetFails(r)
    \/ LoginAnswers \/ LoginFails \/ UsageEnds
    \/ StatusAnswers \/ StatusFails \/ ReadEnds

-----------------------------------------------------------------------------
\* A key that oMLX takes is not held for a refused one, whichever restarts fall
\* between the reads and however the two readers share logins and cookies
\* (AdminSession.get); only a restart, or a key taken back, while the cookie is on
\* its way may have that effect.  And observeStatus counts no restart that did not
\* happen, unless the read held the answer for longer than RESTART_SLACK_MS.
ServerIsReadRightly == ~session.blame /\ ~misread
=============================================================================
