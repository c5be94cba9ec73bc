---------------------------- MODULE ServiceExit ----------------------------
(***************************************************************************)
(* How the service ends: idleTracker in service/server.ts, one lazy timer  *)
(* that is armed again for the time remaining, and stop in service/main.ts *)
(* after it or after a signal: the chat demand is given back, the server   *)
(* closes once its requests are answered, and after a grace the process    *)
(* ends anyway; a signal sent twice ends it at once.  Frames ask and are   *)
(* answered at any time; requests of the health route are not counted and  *)
(* left out.  Time is relative: what is left of the timer and how long ago *)
(* the last request began or ended.                                        *)
(***************************************************************************)
EXTENDS Integers, FiniteSets

CONSTANTS
    Request,        \* requests that can be open at once
    None,
    IdleMs,         \* IDLE_EXIT_MS
    Grace           \* how long stop waits before it ends the process

VARIABLES
    asked,          \* the requests being served
    inflight,       \* idleTracker: inflight
    idle,           \* monotonic() - last, up to IdleMs
    timer,          \* time left of the timer, or None
    process,        \* "serving", "disposing" (chat.dispose), "closing", "exited"
    heard,          \* the signals whose handler, set with process.once, was used
    grace           \* time left of the grace

SignalName == {"SIGTERM", "SIGINT"}

exitVars == <<asked, inflight, idle, timer, process, heard, grace>>

ExitInit ==
    /\ asked = {} /\ inflight = 0
    /\ idle = 0 /\ timer = IdleMs
    /\ process = "serving" /\ heard = {} /\ grace = Grace

Down(n) == IF n = None \/ n = 0 THEN n ELSE n - 1

Pass ==
    /\ process # "exited"
    /\ idle' = IF idle = IdleMs THEN idle ELSE idle + 1
    /\ timer' = Down(timer)
    /\ grace' = IF process = "serving" THEN grace ELSE Down(grace)
    /\ UNCHANGED <<asked, inflight, process, heard>>

\* The server takes requests until it closes.
Begin(r) ==
    /\ process \in {"serving", "disposing"} /\ r \notin asked
    /\ asked' = asked \cup {r}
    /\ inflight' = inflight + 1
    /\ idle' = 0
    /\ UNCHANGED <<timer, process, heard, grace>>

\* Mutant: an answer does not arm the timer again.
ArmedAlready == timer

Armed == IF timer = None /\ process = "serving" THEN IdleMs ELSE timer

\* The answer is finished or its connection closed, whichever comes first.
End(r) ==
    /\ process # "exited" /\ r \in asked
    /\ asked' = asked \ {r}
    /\ inflight' = inflight - 1
    /\ idle' = 0
    /\ timer' = Armed
    /\ UNCHANGED <<process, heard, grace>>

Stop == process' = "disposing" /\ UNCHANGED grace

\* Mutant: the timer does not look whether a request is open.
IsServed == FALSE
IsServing == inflight > 0

\* check(): nothing while a request is open, the rest of the time if one ended
\* since, else the end.
Check ==
    /\ process = "serving" /\ timer = 0
    /\ IF IsServing
       THEN timer' = None /\ UNCHANGED <<process, grace>>
       ELSE IF idle < IdleMs
       THEN timer' = IdleMs - idle /\ UNCHANGED <<process, grace>>
       ELSE timer' = None /\ Stop
    /\ UNCHANGED <<asked, inflight, idle, heard>>

\* The first of its name stops the service, unless it stops already.
Signal(n) ==
    /\ process # "exited" /\ n \notin heard
    /\ heard' = heard \cup {n}
    /\ IF process = "serving" THEN Stop ELSE UNCHANGED <<process, grace>>
    /\ UNCHANGED <<asked, inflight, idle, timer>>

\* The handler of a name is gone after the first: the next one kills the process.
Kill(n) ==
    /\ process # "exited" /\ n \in heard
    /\ process' = "exited" /\ asked' = {}
    /\ UNCHANGED <<inflight, idle, timer, heard, grace>>

Disposed ==
    /\ process = "disposing"
    /\ process' = "closing"
    /\ UNCHANGED <<asked, inflight, idle, timer, heard, grace>>

\* server.close calls back once every request is answered.
Closed ==
    /\ process = "closing" /\ asked = {}
    /\ process' = "exited"
    /\ UNCHANGED <<asked, inflight, idle, timer, heard, grace>>

\* The grace is over: connections are closed and the process ends.
Forced ==
    /\ process \in {"disposing", "closing"} /\ grace = 0
    /\ process' = "exited" /\ asked' = {}
    /\ UNCHANGED <<inflight, idle, timer, heard, grace>>

ExitNext ==
    \/ Pass \/ Check \/ Disposed \/ Closed \/ Forced
    \/ \E r \in Request : Begin(r) \/ End(r)
    \/ \E n \in SignalName : Signal(n) \/ Kill(n)

\* Time passes, the event loop runs a timer that is due, and removing a file
\* or closing the last connection takes a finite time; that frames ask or
\* are answered is not assumed.
ExitFairness ==
    /\ WF_exitVars(Pass) /\ WF_exitVars(Check)
    /\ WF_exitVars(Closed) /\ WF_exitVars(Forced)

-----------------------------------------------------------------------------
\* The idle timer never ends the service under an open request or before the
\* whole time has passed since the last one; a service nobody asks any more
\* ends, and once it is stopping it ends whatever hangs.
ServiceEndsWhenIdle ==
    /\ [][Check /\ process' = "disposing" => asked = {} /\ idle = IdleMs]_exitVars
    /\ <>[](asked = {}) => <>(process = "exited")
    /\ (process = "disposing") ~> (process = "exited")
=============================================================================
