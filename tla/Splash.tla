-------------------------------- MODULE Splash --------------------------------
(***************************************************************************)
(* service/adapters/splash.ts: replies are told from the counters of two   *)
(* /status bodies, and take the prompt counts that were read while one     *)
(* request was being prefilled.                                            *)
(*                                                                         *)
(* The server is external: a request runs ("queued", "prefill", "decode"), *)
(* may stream on after the engine has finished it ("sent"), and is         *)
(* completed or cancelled.  While the engine is not well a body is a copy  *)
(* of the last one.  Rates, latency and memory are left out, as is what    *)
(* makes two reads overlap, which RuntimeClient does not.                  *)
(***************************************************************************)
EXTENDS Integers, FiniteSets, Sequences

CONSTANTS
    Told,       \* requests whose prompts the companion reports
    Untold,     \* those of other clients
    None,
    Lead,       \* SPLASH_PROMPT_LEAD_MS
    MaxNow, MaxReads, MaxFaults     \* bounds

Request == Told \cup Untold

SplashAssumption == IsFiniteSet(Request) /\ Lead \in Nat

VARIABLES
    now,
    request,    \* request -> its state at the server
    tokens,     \* request -> tokens it has decoded
    native,     \* the engine: its state, how often it was started, and its counters
    body,       \* the /status answer on its way, or None
    held,       \* a reading made while recovering is served again
    anchor,     \* SplashCompletions: the body a span starts from, or None
    lapsed,     \* the last read was longer ago than SPLASH_GAP_MS
    busySince,
    lastPrompt,
    drafts,     \* history: the completions
    reads, faults

splashVars == <<now, request, tokens, native, body, held, anchor, lapsed, busySince, lastPrompt, drafts, reads, faults>>
Adapter == <<body, held, anchor, lapsed, busySince, lastPrompt, drafts, reads>>

Flight == {r \in Request : request[r] \in {"queued", "prefill", "decode"}}
Active == {r \in Request : request[r] \in {"queued", "prefill", "decode", "sent"}}    \* http.requests.active
Begun == {r \in Request : request[r] # "new"}

\* What a body says, and the requests it is about.
Snapshot ==
    [starts |-> native.starts, busy |-> Cardinality(Active), queued |-> Cardinality({r \in Request : request[r] = "queued"}),
     completed |-> native.completed, cancelled |-> native.cancelled, decoded |-> native.decoded,
     prefilling |-> {r \in Request : request[r] = "prefill"}, decoding |-> {r \in Request : request[r] = "decode"},
     begun |-> Begun, active |-> Active, done |-> {r \in Request : request[r] \in {"sent", "done"}}, state |-> native.state]

----------------------------------------------------------------------------
(* Two bodies.                                                             *)

\* deltas: a dropped counter, or another engine, is a reset.
Comparable(a, b) ==
    a.starts = b.starts /\ a.completed <= b.completed /\ a.cancelled <= b.cancelled /\ a.decoded <= b.decoded

\* Mutant: a request that was cancelled is overlooked.
IsOneCompleted(a, b) == b.completed - a.completed = 1 /\ a.busy <= 1 /\ b.busy = 0 /\ a.queued = 0 /\ b.queued = 0

IsSingle(a, b) ==
    b.completed - a.completed = 1 /\ a.cancelled = b.cancelled /\ a.busy <= 1 /\ b.busy = 0 /\ a.queued = 0 /\ b.queued = 0

\* splashCompletion; with whole, every count is the request's own.
Completion(a, b) ==
    [single |-> IsSingle(a, b), whole |-> IsSingle(a, b) /\ a.busy = 0, output |-> b.decoded - a.decoded, prompt |-> None,
     start |-> busySince, at |-> now,
     touched |-> (b.begun \ a.begun) \cup a.active, done |-> b.done \ (a.done \ a.active)]

----------------------------------------------------------------------------
(* A read.                                                                 *)

Ask ==
    /\ body = None /\ ~held /\ reads < MaxReads /\ reads' = reads + 1
    /\ UNCHANGED <<now, request, tokens, native, held, anchor, lapsed, busySince, lastPrompt, drafts, faults>>
    /\ body' = Snapshot

\* The prompt of the one request being read, when the companion reports it.
Prompt(b) ==
    IF b.state = "ready" /\ b.busy = 1 /\ b.queued = 0 /\ Cardinality(b.prefilling) = 1 /\ b.decoding = {} /\ b.prefilling \subseteq Told
    THEN [of |-> CHOOSE r \in b.prefilling : TRUE, at |-> now] ELSE lastPrompt

\* A prompt is used once.
PromptAfter(new) == IF new = <<>> THEN Prompt(body) ELSE None

\* observe: an anchor is set anew after a reset or a gap, and moves with each idle body.
Receive ==
    LET b == body
        restarted == lapsed \/ anchor = None \/ ~Comparable(anchor, b)
        new == IF restarted \/ b.busy > 0 \/ b.completed = anchor.completed THEN <<>> ELSE <<Completion(anchor, b)>>
        given(d) == IF Prompt(b) # None /\ d.whole /\ d.output > 0 /\ d.start # None /\ Prompt(b).at >= d.start - Lead
                   THEN [d EXCEPT !.prompt = Prompt(b).of] ELSE d
    IN  /\ body # None /\ body' = None
        /\ lapsed' = FALSE
        /\ IF b.state # "ready" THEN UNCHANGED <<anchor, busySince, drafts, lastPrompt>>
           ELSE /\ anchor' = IF ~restarted /\ b.busy > 0 THEN anchor ELSE b
                /\ busySince' = IF b.busy = 0 THEN None ELSE IF restarted \/ busySince = None THEN now ELSE busySince
                /\ drafts' = drafts \o [i \in DOMAIN new |-> given(new[i])]
                /\ lastPrompt' = PromptAfter(new)
        /\ held' = (b.state = "recovering")
        /\ UNCHANGED <<now, request, tokens, native, reads, faults>>

\* Splash cannot be read.
ReadFails ==
    /\ body # None /\ faults < MaxFaults /\ faults' = faults + 1
    /\ body' = None
    /\ UNCHANGED <<now, request, tokens, native, held, anchor, lapsed, busySince, lastPrompt, drafts, reads>>

HoldEnds == held /\ held' = FALSE /\ UNCHANGED <<now, request, tokens, native, body, anchor, lapsed, busySince, lastPrompt, drafts, reads, faults>>

\* Nobody reads for so long that the lead is over, too.
Lapse == ~lapsed /\ anchor # None /\ body = None /\ now < MaxNow /\ lapsed' = TRUE /\ now' = now + Lead + 1
         /\ UNCHANGED <<request, tokens, native, body, held, anchor, busySince, lastPrompt, drafts, reads, faults>>

----------------------------------------------------------------------------
(* The server.                                                             *)

Move(r, from, to) == request[r] = from /\ request' = [request EXCEPT ![r] = to]

Submit(r) == native.state = "ready" /\ Move(r, "new", "queued") /\ UNCHANGED <<now, tokens, native, faults, Adapter>>
Prefill(r) == native.state = "ready" /\ Move(r, "queued", "prefill") /\ UNCHANGED <<now, tokens, native, faults, Adapter>>

Decode(r) ==
    /\ native.state = "ready" /\ Move(r, "prefill", "decode")
    /\ tokens' = [tokens EXCEPT ![r] = 1] /\ native' = [native EXCEPT !.decoded = @ + 1]
    /\ UNCHANGED <<now, faults, Adapter>>

\* The engine is done with it; the answer may still be streamed.
Complete(r) ==
    /\ native.state = "ready" /\ \E to \in {"sent", "done"} : Move(r, "decode", to)
    /\ native' = [native EXCEPT !.completed = @ + 1]
    /\ UNCHANGED <<now, tokens, faults, Adapter>>

Sent(r) == Move(r, "sent", "done") /\ UNCHANGED <<now, tokens, native, faults, Adapter>>

Abort(r) ==
    /\ native.state = "ready" /\ r \in Flight /\ request' = [request EXCEPT ![r] = "aborted"]
    /\ native' = [native EXCEPT !.cancelled = @ + 1]
    /\ UNCHANGED <<now, tokens, faults, Adapter>>

\* The engine fails, with all it ran, and another is started.
Fail ==
    /\ native.state = "ready" /\ faults < MaxFaults /\ faults' = faults + 1
    /\ \E state \in {"stale", "recovering"} : native' = [native EXCEPT !.state = state]
    /\ request' = [r \in Request |-> IF r \in Flight THEN "aborted" ELSE request[r]]
    /\ UNCHANGED <<now, tokens, Adapter>>

Recover ==
    /\ native.state # "ready"
    /\ native' = [state |-> "ready", starts |-> native.starts + 1, completed |-> 0, cancelled |-> 0, decoded |-> 0]
    /\ UNCHANGED <<now, request, tokens, faults, Adapter>>

Tick == now < MaxNow /\ now' = now + 1 /\ UNCHANGED <<request, tokens, native, faults, Adapter>>

SplashInit ==
    /\ now = 0 /\ request = [r \in Request |-> "new"] /\ tokens = [r \in Request |-> 0]
    /\ native = [state |-> "ready", starts |-> 0, completed |-> 0, cancelled |-> 0, decoded |-> 0]
    /\ body = None /\ held = FALSE /\ anchor = None /\ lapsed = FALSE /\ busySince = None /\ lastPrompt = None
    /\ drafts = <<>> /\ reads = 0 /\ faults = 0

SplashNext ==
    \/ Ask \/ Receive \/ ReadFails \/ HoldEnds \/ Lapse \/ Fail \/ Recover \/ Tick
    \/ \E r \in Request : Submit(r) \/ Prefill(r) \/ Decode(r) \/ Complete(r) \/ Sent(r) \/ Abort(r)

----------------------------------------------------------------------------
\* A reply that is given counts of its own is the one request that touched the span,
\* and the counts are its; the prompt it is given is its own too, unless no reply was
\* told of that prompt's request, which left its prompt to the next one.
RepliesAreTold ==
    \A i \in DOMAIN drafts : LET d == drafts[i] IN
        /\ d.single => Cardinality(d.done) >= 1
        /\ d.whole => \E r \in d.done : d.touched = {r} /\ d.output = tokens[r]
        /\ d.prompt # None => d.prompt \in d.touched \/ \A j \in DOMAIN drafts : d.prompt \notin drafts[j].done

\* "the newest prompt Splash reported for the one request being read; it gives that reply its prompt counts"
PromptsAreOfTheReply == \A i \in DOMAIN drafts : drafts[i].prompt # None => drafts[i].prompt \in drafts[i].touched
==============================================================================
