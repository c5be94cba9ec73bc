----------------------------- MODULE MCService -----------------------------
(* How a service begins and ends: the demand it leaves to the helpers of     *)
(* OpenCode, and its own exit.  "part" says which one runs; the other rests  *)
(* in a state in which nothing of it is left to do, so that the fairness of  *)
(* both may be assumed.                                                      *)
EXTENDS Integers, Sequences, FiniteSets

CONSTANTS None, s1, s2, h1, f1, c1, r1, r2, r3

VARIABLES
    part,
    looks, services, demand, helpers, asked,
    serving, inflight, idle, timer, process, heard, grace

demands == <<looks, services, demand, helpers, asked>>
exits == <<serving, inflight, idle, timer, process, heard, grace>>
vars == <<part, demands, exits>>

\* An exiting service and its successor, and a chat one frame looks at.
Demand == INSTANCE Demand WITH
    Service <- {s1, s2}, Helper <- {h1}, Frame <- {f1}, Chat <- {c1},
    TTL <- 2, MaxFrames <- 2, MaxQueue <- 1

Exit == INSTANCE ServiceExit WITH
    Request <- {r1, r2, r3}, IdleMs <- 3, Grace <- 2, asked <- serving

ExitRests ==
    /\ serving = {} /\ inflight = 0 /\ idle = 0 /\ timer = None
    /\ process = "exited" /\ heard = {} /\ grace = 0

ASSUME DemandConstants == Demand!DemandAssumption

Init ==
    /\ Demand!DemandInit
    /\ \/ part = "demand" /\ ExitRests
       \/ part = "exit" /\ Exit!ExitInit

DemandSteps == part = "demand" /\ Demand!DemandNext /\ UNCHANGED <<part, exits>>
ExitSteps == part = "exit" /\ Exit!ExitNext /\ UNCHANGED <<part, demands>>
Next == DemandSteps \/ ExitSteps

Spec == Init /\ [][Next]_vars /\ Demand!DemandFairness /\ Exit!ExitFairness

----------------------------------------------------------------------------
\* chat-telemetry.ts and demand.js: Demand's properties.
DemandIsMet == Demand!DemandIsMet

\* server.ts and main.ts: ServiceExit's property.
ServiceEndsWhenIdle == Exit!ServiceEndsWhenIdle
============================================================================
