----------------------------- MODULE MCAdapters -----------------------------
(* The adapters of the runtimes, one part per behaviour: a service reads   *)
(* each of its runtimes on its own, and they share no state. "part" says   *)
(* which one runs, and the variables of the others stay None.              *)
EXTENDS Integers, Sequences, FiniteSets, TLC

CONSTANTS
    None, m1, m2, r1, r2, q1, q2, q3, p1, p2,
    OfLlama, OfWatch, OfSplash, OfOmlx, OfActivity, OfStudio    \* the constants of LlamaServer, SlotWatch, ...

VARIABLES
    part,
    now, server, reads, faults, adapter, read, drafts, lapsed, app, child,
    watch, woken, idled,
    slots, clears, previous, span, truth,
    request, tokens, native, body, held, anchor, busySince, lastPrompt,
    session, gets, status, uptime, misread, counts,
    stage, pipes, port, healthy, silentExits, retry, entries, recent, pending, ages,
    open, blind,
    changes, record, tunnel, apis, ports, lastRows, cached, shown, spawns

llama == <<watch, woken, idled>>
watching == <<slots, clears, previous, span, truth>>
splash == <<request, tokens, native, body, held, anchor, busySince, lastPrompt>>
omlx == <<session, gets, status, uptime, misread, counts>>
activity == <<stage, pipes, port, healthy, silentExits, retry, entries, recent, pending, ages,
              open, blind>>
studio == <<changes, record, tunnel, apis, ports, lastRows, cached, shown, spawns>>

\* The values the run gives them.
SmallLlama == [models |-> {m1}, metricsEvery |-> 1, slotGap |-> 1, propsEvery |-> 3,
               deadline |-> 1, sleepAfter |-> 2, now |-> 5, reads |-> 3, faults |-> 1]
SmallWatch == [slots |-> {0, 1}, tasks |-> 3, tokens |-> 1, reads |-> 3]
SmallSplash == [told |-> {r1}, untold |-> {r2}, lead |-> 1, now |-> 2, reads |-> 2, faults |-> 1]
SmallOmlx == [retry |-> 2, slack |-> 1, now |-> 3, reads |-> 3, restarts |-> 1, rekeys |-> 1, faults |-> 1]
SmallActivity == [requests |-> {q1, q2, q3}, modelOf |-> (q1 :> m1) @@ (q2 :> m1) @@ (q3 :> m2), streams |-> {q1},
                  ports |-> {p1, p2}, pending |-> 1, silent |-> 2, starts |-> 2, lines |-> 1, ages |-> 1]

\* Current builds, and former ones without a greeting and with a row Scope cannot
\* read.  That the former list is not there is a failed request.
Served(greets, v1, v0, odd, stream) ==
    [greets |-> greets, v1 |-> v1, v0 |-> v0, odd |-> odd, stream |-> stream]
SmallStudio == [models |-> {m1}, rest |-> {1, 2}, internal |-> {8, 9}, conn |-> 1,
                greetingWindow |-> 2, greetingEvery |-> 1, portsEvery |-> 2, psMin |-> 3, psEvery |-> 5,
                enginesLife |-> 6, deadline |-> 1, tick |-> {1, 4}, reads |-> 2, upsets |-> 2,
                servers |-> {Served(TRUE, TRUE, TRUE, FALSE, TRUE), Served(FALSE, FALSE, TRUE, TRUE, FALSE)}]

Llama == INSTANCE LlamaServer WITH
    Model <- OfLlama.models, MetricsEvery <- OfLlama.metricsEvery, SlotGap <- OfLlama.slotGap,
    PropsEvery <- OfLlama.propsEvery, Deadline <- OfLlama.deadline, SleepAfter <- OfLlama.sleepAfter,
    MaxNow <- OfLlama.now, MaxReads <- OfLlama.reads, MaxFaults <- OfLlama.faults

Watch == INSTANCE SlotWatch WITH
    SlotId <- OfWatch.slots, MaxTasks <- OfWatch.tasks, MaxTokens <- OfWatch.tokens,
    MaxReads <- OfWatch.reads

Splash == INSTANCE Splash WITH
    Told <- OfSplash.told, Untold <- OfSplash.untold, Lead <- OfSplash.lead,
    MaxNow <- OfSplash.now, MaxReads <- OfSplash.reads, MaxFaults <- OfSplash.faults

Omlx == INSTANCE Omlx WITH
    Retry <- OfOmlx.retry, Slack <- OfOmlx.slack, MaxNow <- OfOmlx.now, MaxReads <- OfOmlx.reads,
    MaxRestarts <- OfOmlx.restarts, MaxRekeys <- OfOmlx.rekeys, MaxFaults <- OfOmlx.faults

Activity == INSTANCE Activity WITH
    Request <- OfActivity.requests, ModelOf <- OfActivity.modelOf, Streams <- OfActivity.streams,
    Port <- OfActivity.ports, PendingLimit <- OfActivity.pending, SilentExitLimit <- OfActivity.silent,
    MaxStarts <- OfActivity.starts, MaxLines <- OfActivity.lines, MaxAges <- OfActivity.ages

Studio == INSTANCE LmStudio WITH
    Model <- OfStudio.models, Rest <- OfStudio.rest, Internal <- OfStudio.internal, Conn <- OfStudio.conn,
    GreetingWindow <- OfStudio.greetingWindow, GreetingEvery <- OfStudio.greetingEvery, PortsEvery <- OfStudio.portsEvery,
    PsMin <- OfStudio.psMin, PsEvery <- OfStudio.psEvery, EnginesLife <- OfStudio.enginesLife,
    Deadline <- OfStudio.deadline, Tick <- OfStudio.tick, Server <- OfStudio.servers,
    MaxReads <- OfStudio.reads, MaxUpsets <- OfStudio.upsets

LlamaRests ==
    /\ watch = None /\ woken = None /\ idled = None
WatchRests ==
    /\ slots = None /\ clears = None /\ previous = None /\ span = None
    /\ truth = None
SplashRests ==
    /\ request = None /\ tokens = None /\ native = None /\ body = None
    /\ held = None /\ anchor = None /\ busySince = None /\ lastPrompt = None
OmlxRests ==
    /\ session = None /\ gets = None /\ status = None /\ uptime = None
    /\ misread = None /\ counts = None
ActivityRests ==
    /\ stage = None /\ pipes = None /\ port = None /\ healthy = None
    /\ silentExits = None /\ retry = None /\ entries = None /\ recent = None
    /\ pending = None /\ ages = None /\ open = None /\ blind = None
StudioRests ==
    /\ changes = None /\ record = None /\ tunnel = None /\ apis = None
    /\ ports = None /\ lastRows = None /\ cached = None /\ shown = None
    /\ spawns = None

ASSUME AdapterConstants ==
    /\ Llama!LlamaAssumption
    /\ Watch!WatchAssumption
    /\ Splash!SplashAssumption
    /\ Omlx!OmlxAssumption
    /\ Activity!ActivityAssumption
    /\ Studio!LmAssumption

Init ==
    \/ /\ part = "llama" /\ Llama!LlamaInit
       /\ WatchRests /\ SplashRests /\ OmlxRests /\ ActivityRests /\ StudioRests
       /\ drafts = None /\ lapsed = None /\ app = None /\ child = None
    \/ /\ part = "watching" /\ Watch!WatchInit
       /\ LlamaRests /\ SplashRests /\ OmlxRests /\ ActivityRests /\ StudioRests
       /\ now = None /\ server = None /\ faults = None /\ adapter = None /\ read = None /\ app = None /\ child = None
    \/ /\ part = "splash" /\ Splash!SplashInit
       /\ LlamaRests /\ WatchRests /\ OmlxRests /\ ActivityRests /\ StudioRests
       /\ server = None /\ adapter = None /\ read = None /\ app = None /\ child = None
    \/ /\ part = "omlx" /\ Omlx!OmlxInit
       /\ LlamaRests /\ WatchRests /\ SplashRests /\ ActivityRests /\ StudioRests
       /\ reads = None /\ faults = None /\ adapter = None /\ read = None /\ drafts = None /\ lapsed = None /\ app = None /\ child = None
    \/ /\ part = "activity" /\ Activity!ActivityInit
       /\ LlamaRests /\ WatchRests /\ SplashRests /\ OmlxRests /\ StudioRests
       /\ now = None /\ server = None /\ reads = None /\ faults = None /\ adapter = None /\ read = None /\ drafts = None /\ lapsed = None
    \/ /\ part = "studio" /\ Studio!LmInit
       /\ LlamaRests /\ WatchRests /\ SplashRests /\ OmlxRests /\ ActivityRests
       /\ server = None /\ drafts = None /\ lapsed = None

LlamaSteps ==
    /\ part = "llama" /\ Llama!LlamaNext
    /\ UNCHANGED <<part, drafts, lapsed, app, child, watching, splash, omlx, activity, studio>>
WatchSteps ==
    /\ part = "watching" /\ Watch!WatchNext
    /\ UNCHANGED <<part, now, server, faults, adapter, read, app, child, llama, splash, omlx, activity, studio>>
SplashSteps ==
    /\ part = "splash" /\ Splash!SplashNext
    /\ UNCHANGED <<part, server, adapter, read, app, child, llama, watching, omlx, activity, studio>>
OmlxSteps ==
    /\ part = "omlx" /\ Omlx!OmlxNext
    /\ UNCHANGED <<part, reads, faults, adapter, read, drafts, lapsed, app, child, llama, watching, splash, activity, studio>>
ActivitySteps ==
    /\ part = "activity" /\ Activity!ActivityNext
    /\ UNCHANGED <<part, now, server, reads, faults, adapter, read, drafts, lapsed, llama, watching, splash, omlx, studio>>
StudioSteps ==
    /\ part = "studio" /\ Studio!LmNext
    /\ UNCHANGED <<part, server, drafts, lapsed, llama, watching, splash, omlx, activity>>
Next == LlamaSteps \/ WatchSteps \/ SplashSteps \/ OmlxSteps \/ ActivitySteps \/ StudioSteps

vars == <<part, now, server, reads, faults, adapter, read, drafts, lapsed, app,
          child, llama, watching, splash, omlx, activity, studio>>
Spec == Init /\ [][Next]_vars

Symmetry == Permutations({p1, p2})

-----------------------------------------------------------------------------
\* llama-server.ts: LlamaServer's property.
IdleIsLeftAlone == part = "llama" => Llama!IdleIsLeftAlone

\* llama-server.ts, SlotWatch: its property.
CompletionsAreTrue == part = "watching" => Watch!CompletionsAreTrue

\* splash.ts: Splash's property.
RepliesAreTold == part = "splash" => Splash!RepliesAreTold

\* omlx.ts: Omlx's property.
ServerIsReadRightly == part = "omlx" => Omlx!ServerIsReadRightly

\* lmstudio-activity.ts: Activity's property.
ActivityIsTrue == part = "activity" => Activity!ActivityIsTrue

\* lmstudio.ts and lmstudio-cli.ts: LmStudio's property.
LmIsReadRightly == part = "studio" => Studio!LmIsReadRightly
=============================================================================
