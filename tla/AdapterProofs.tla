---------------------------- MODULE AdapterProofs ----------------------------
(***************************************************************************)
(* What the adapters promise for every value of their constants: however   *)
(* many reads, requests, restarts and failures there are.  The parts of    *)
(* MCAdapters share no state, so each has an invariant of its own, kept by *)
(* its own steps, that no step of the others concerns.                     *)
(***************************************************************************)
EXTENDS MCAdapters, FiniteSetTheorems, SequenceTheorems, TLAPS

----------------------------------------------------------------------------
(* LlamaServer.  What the adapter goes by when it reads /slots is work the *)
(* server had lately, or has had since.                                    *)

Parsed == [at : Int, sleeping : BOOLEAN, model : OfLlama.models]
Scraped == [at : Int, work : BOOLEAN]
Followed == [mono : Int, busy : BOOLEAN]

LlamaFields ==
    [props : {None} \cup Parsed,
     triedAt : Int, reloaded : BOOLEAN, wokeAt : Int, off : BOOLEAN,
     scrape : {None} \cup Scraped, slotsIdleAt : Int]

LlamaReads == [pc : {"none", "health", "props", "metrics", "slots"}, mono : Int]
LlamaServers == [up : BOOLEAN, model : OfLlama.models, asleep : BOOLEAN, busy : BOOLEAN, idleSince : Int]

LlamaTypeOK ==
    /\ now \in Int
    /\ server \in LlamaServers
    /\ adapter \in LlamaFields
    /\ watch \in {None} \cup Followed
    /\ read \in LlamaReads
    /\ woken \subseteq Int /\ idled \in BOOLEAN

\* The server had work at that time, or has since.
WorkedSince(at) == server.busy \/ server.idleSince >= at

SleepsIdle ==
    /\ server.idleSince <= now
    /\ server.asleep => server.up /\ ~server.busy

\* What the adapter remembers of work, it saw.
GoesByWork ==
    /\ read.pc # "none" => read.mono <= now
    /\ adapter.scrape # None => adapter.scrape.at <= now /\ (adapter.scrape.work => WorkedSince(adapter.scrape.at))
    /\ watch # None => watch.mono <= now /\ (watch.busy => WorkedSince(watch.mono))

LlamaInv == LlamaTypeOK /\ SleepsIdle /\ GoesByWork /\ Llama!IdleIsLeftAlone

LEMMA LlamaStarts == Llama!LlamaInit => LlamaInv
<1> SUFFICES ASSUME Llama!LlamaInit PROVE LlamaInv
  OBVIOUS
<1>1. PICK m \in OfLlama.models, busy \in BOOLEAN :
        server = [up |-> TRUE, model |-> m, asleep |-> FALSE, busy |-> busy, idleSince |-> 0]
  BY DEF Llama!LlamaInit
<1>2. server \in LlamaServers /\ server.idleSince = 0 /\ ~server.asleep
  BY <1>1 DEF LlamaServers
<1>3. Llama!newAdapter \in LlamaFields
  BY DEF Llama!newAdapter, Llama!Never, LlamaFields
<1>4. Llama!noRead \in LlamaReads
  BY DEF LlamaReads, Llama!noRead
<1>5. now \in Int /\ adapter = Llama!newAdapter /\ read = Llama!noRead /\ watch = None
  BY DEF Llama!LlamaInit
<1>5a. woken \subseteq Int /\ idled \in BOOLEAN
  BY Zenon DEF Llama!LlamaInit
<1>6. LlamaTypeOK
  BY <1>2, <1>3, <1>4, <1>5, <1>5a DEF LlamaTypeOK
<1> QED
  BY <1>2, <1>6 DEF Llama!LlamaInit, LlamaInv, SleepsIdle, GoesByWork, Llama!IdleIsLeftAlone, Llama!newAdapter, Llama!noRead

\* The read of /slots, if the adapter makes it, finds the server awake or idle for
\* a short while only.
LEMMA SlotsFindWork ==
    ASSUME LlamaInv, read.pc = "slots", Llama!Room,
           Llama!Latest # None, Llama!Working \/ Llama!Following, server.asleep
    PROVE  now - server.idleSince < 2 * OfLlama.metricsEvery + OfLlama.deadline
<1> SUFFICES ASSUME now - server.idleSince >= 2 * OfLlama.metricsEvery + OfLlama.deadline PROVE FALSE
  BY AdapterConstants DEF Llama!LlamaAssumption, LlamaInv, LlamaTypeOK, LlamaServers
<1>0. /\ OfLlama.slotGap \in Int /\ OfLlama.metricsEvery \in Int /\ OfLlama.deadline \in Int
      /\ OfLlama.slotGap <= 2 * OfLlama.metricsEvery
  BY AdapterConstants DEF Llama!LlamaAssumption
<1>t. now \in Int /\ read.mono \in Int /\ server.idleSince \in Int
  BY DEF LlamaInv, LlamaTypeOK, LlamaReads, LlamaServers
<1>1. ~server.busy
  BY DEF LlamaInv, SleepsIdle
<1>2. read.mono - server.idleSince > 2 * OfLlama.metricsEvery
  BY <1>0, <1>t DEF Llama!Room
<1>3. ASSUME NEW at \in Int, server.busy \/ server.idleSince >= at,
             read.mono - at <= 2 * OfLlama.metricsEvery
      PROVE  FALSE
  BY <1>0, <1>1, <1>2, <1>3, <1>t
<1>4. CASE Llama!Working
  <2>1. adapter.scrape # None /\ adapter.scrape.work /\ read.mono - adapter.scrape.at <= 2 * OfLlama.metricsEvery
    BY <1>4 DEF Llama!Working, Llama!Latest
  <2>2. adapter.scrape.at \in Int
    BY <2>1 DEF LlamaInv, LlamaTypeOK, LlamaFields, Scraped
  <2> QED
    BY <1>3, <2>1, <2>2 DEF LlamaInv, GoesByWork, WorkedSince
<1>5. CASE Llama!Following
  <2>1. watch # None /\ watch.busy /\ read.mono - watch.mono <= OfLlama.slotGap
    BY <1>5 DEF Llama!Following
  <2>2. watch.mono \in Int
    BY <2>1 DEF LlamaInv, LlamaTypeOK, Followed
  <2>3. read.mono - watch.mono <= 2 * OfLlama.metricsEvery
    BY <1>0, <1>t, <2>1, <2>2
  <2> QED
    BY <1>3, <2>1, <2>2, <2>3 DEF LlamaInv, GoesByWork, WorkedSince
<1> QED
  BY <1>4, <1>5

\* The assignments of the adapter keep its fields' types.
LEMMA FieldsSet ==
    ASSUME NEW a \in LlamaFields, NEW n \in Int
    PROVE  /\ [a EXCEPT !.reloaded = TRUE] \in LlamaFields
           /\ [a EXCEPT !.off = TRUE] \in LlamaFields
           /\ [a EXCEPT !.triedAt = n, !.reloaded = FALSE] \in LlamaFields
           /\ [a EXCEPT !.slotsIdleAt = n] \in LlamaFields
           /\ \A s \in Scraped : [a EXCEPT !.scrape = s, !.wokeAt = n] \in LlamaFields
           /\ \A p \in Parsed, s \in {None} \cup Scraped :
                 [a EXCEPT !.props = p, !.triedAt = n, !.off = FALSE, !.reloaded = FALSE, !.scrape = s] \in LlamaFields
<1> USE DEF LlamaFields
<1>1. \A b \in BOOLEAN : [a EXCEPT !.reloaded = b] \in LlamaFields
  OBVIOUS
<1>2. \A b \in BOOLEAN : [a EXCEPT !.off = b] \in LlamaFields
  OBVIOUS
<1>3. \A b \in BOOLEAN : [a EXCEPT !.triedAt = n, !.reloaded = b] \in LlamaFields
  OBVIOUS
<1>4. [a EXCEPT !.slotsIdleAt = n] \in LlamaFields
  OBVIOUS
<1>5. \A s \in Scraped : [a EXCEPT !.scrape = s, !.wokeAt = n] \in LlamaFields
  OBVIOUS
<1>6. \A p \in Parsed, b, c \in BOOLEAN, s \in {None} \cup Scraped :
         [a EXCEPT !.props = p, !.triedAt = n, !.off = b, !.reloaded = c, !.scrape = s] \in LlamaFields
  OBVIOUS
<1> HIDE DEF LlamaFields
<1> QED
  BY <1>1, <1>2, <1>3, <1>4, <1>5, <1>6

LEMMA FieldsRead ==
    ASSUME NEW a \in LlamaFields
    PROVE  a.scrape \in {None} \cup Scraped /\ a.wokeAt \in Int
BY DEF LlamaFields

LEMMA ServersSet ==
    ASSUME NEW s \in LlamaServers, NEW n \in Int
    PROVE  /\ s.up \in BOOLEAN /\ s.asleep \in BOOLEAN /\ s.busy \in BOOLEAN /\ s.idleSince \in Int /\ s.model \in OfLlama.models
           /\ LET t == [s EXCEPT !.asleep = FALSE, !.idleSince = n]
              IN  t \in LlamaServers /\ t.up = s.up /\ ~t.asleep /\ t.busy = s.busy /\ t.idleSince = n
           /\ LET t == [s EXCEPT !.asleep = FALSE, !.busy = TRUE]
              IN  t \in LlamaServers /\ ~t.asleep /\ t.busy /\ t.idleSince = s.idleSince
           /\ LET t == [s EXCEPT !.busy = FALSE, !.idleSince = n]
              IN  t \in LlamaServers /\ t.asleep = s.asleep /\ t.up = s.up /\ t.idleSince = n
           /\ LET t == [s EXCEPT !.asleep = TRUE]
              IN  t \in LlamaServers /\ t.up = s.up /\ t.busy = s.busy /\ t.idleSince = s.idleSince
           /\ \A m \in OfLlama.models :
                 LET t == [s EXCEPT !.up = FALSE, !.model = m, !.asleep = FALSE]
                 IN  t \in LlamaServers /\ ~t.asleep /\ t.busy = s.busy /\ t.idleSince = s.idleSince
           /\ LET t == [s EXCEPT !.up = TRUE, !.idleSince = n]
              IN  t \in LlamaServers /\ t.asleep = s.asleep /\ t.up /\ t.idleSince = n
<1> USE DEF LlamaServers
<1>1. s.up \in BOOLEAN /\ s.asleep \in BOOLEAN /\ s.busy \in BOOLEAN /\ s.idleSince \in Int /\ s.model \in OfLlama.models
  OBVIOUS
<1>2. ASSUME NEW b \in BOOLEAN
      PROVE  /\ [s EXCEPT !.asleep = b, !.idleSince = n] \in LlamaServers
             /\ [s EXCEPT !.busy = b, !.idleSince = n] \in LlamaServers
             /\ [s EXCEPT !.asleep = b] \in LlamaServers
             /\ [s EXCEPT !.up = b, !.idleSince = n] \in LlamaServers
  OBVIOUS
<1>3. ASSUME NEW b \in BOOLEAN, NEW c \in BOOLEAN
      PROVE  [s EXCEPT !.asleep = b, !.busy = c] \in LlamaServers
  OBVIOUS
<1>4. ASSUME NEW b \in BOOLEAN, NEW c \in BOOLEAN, NEW m \in OfLlama.models
      PROVE  [s EXCEPT !.up = b, !.model = m, !.asleep = c] \in LlamaServers
  OBVIOUS
<1>5. [s EXCEPT !.asleep = FALSE, !.idleSince = n] \in LlamaServers
  BY <1>2
<1>6. [s EXCEPT !.asleep = FALSE, !.busy = TRUE] \in LlamaServers
  BY <1>3
<1>7. [s EXCEPT !.busy = FALSE, !.idleSince = n] \in LlamaServers
  BY <1>2
<1>8. [s EXCEPT !.asleep = TRUE] \in LlamaServers
  BY <1>2
<1>9. \A m \in OfLlama.models : [s EXCEPT !.up = FALSE, !.model = m, !.asleep = FALSE] \in LlamaServers
  BY <1>4
<1>10. [s EXCEPT !.up = TRUE, !.idleSince = n] \in LlamaServers
  BY <1>2
<1> QED
  BY <1>1, <1>5, <1>6, <1>7, <1>8, <1>9, <1>10

LEMMA ReadsSet ==
    ASSUME NEW r \in LlamaReads
    PROVE  /\ r.mono \in Int /\ Llama!noRead \in LlamaReads /\ Llama!noRead.pc = "none"
           /\ \A pc \in {"props", "metrics", "slots"} :
                 [r EXCEPT !.pc = pc] \in LlamaReads /\ [r EXCEPT !.pc = pc].mono = r.mono
BY DEF LlamaReads, Llama!noRead

\* A step that neither scrapes nor reads /slots.
LEMMA SameWork ==
    ASSUME LlamaInv,
           now' = now, server' = server, woken' = woken, idled' = idled,
           adapter' \in LlamaFields, adapter'.scrape \in {None, adapter.scrape},
           watch' \in {None, watch},
           read' \in LlamaReads, read'.pc # "none" => read.pc # "none" /\ read'.mono = read.mono
    PROVE  LlamaInv'
<1>1. LlamaTypeOK' /\ SleepsIdle' /\ Llama!IdleIsLeftAlone'
  BY DEF LlamaInv, LlamaTypeOK, SleepsIdle, Llama!IdleIsLeftAlone
<1>2. GoesByWork'
  BY DEF LlamaInv, GoesByWork, WorkedSince
<1> QED
  BY <1>1, <1>2 DEF LlamaInv

LEMMA LlamaKeeps == ASSUME LlamaInv, Llama!LlamaNext PROVE LlamaInv'
<1> USE DEF LlamaInv, LlamaTypeOK
<1>0. /\ server.up \in BOOLEAN /\ server.asleep \in BOOLEAN /\ server.busy \in BOOLEAN /\ server.idleSince \in Int
      /\ read.mono \in Int /\ adapter.scrape \in {None} \cup Scraped /\ adapter.wokeAt \in Int
  BY ServersSet, ReadsSet, FieldsRead
<1>1. CASE Llama!Begin
  <2>1. read' \in LlamaReads /\ read'.mono = now
    BY <1>1 DEF Llama!Begin, LlamaReads
  <2>2. UNCHANGED <<now, server, adapter, watch, woken, idled>>
    BY <1>1 DEF Llama!Begin, Llama!External
  <2> QED
    BY <2>1, <2>2 DEF SleepsIdle, GoesByWork, WorkedSince, Llama!IdleIsLeftAlone
<1>2. CASE Llama!Health
  <2> USE <1>2 DEF Llama!Health, Llama!External
  <2>1. adapter' \in LlamaFields
    BY FieldsSet
  <2>2. adapter'.scrape = adapter.scrape
    BY DEF LlamaFields
  <2>3. read' \in LlamaReads /\ (read'.pc # "none" => read.pc # "none" /\ read'.mono = read.mono)
    BY ReadsSet DEF Llama!Go, Llama!Done
  <2>4. now' = now /\ server' = server /\ watch' = watch /\ woken' = woken /\ idled' = idled
    OBVIOUS
  <2> QED
    BY <2>1, <2>2, <2>3, <2>4, SameWork
<1>3. CASE Llama!Props
  <2> USE <1>3 DEF Llama!Props, Llama!External
  <2> DEFINE parsed == [at |-> read.mono, sleeping |-> server.asleep, model |-> server.model]
             other == adapter.props # None /\ adapter.props.model # parsed.model
             loaded == [adapter EXCEPT !.props = parsed, !.triedAt = read.mono, !.off = FALSE, !.reloaded = FALSE,
                                       !.scrape = IF other THEN None ELSE @]
             failed == [adapter EXCEPT !.triedAt = read.mono, !.reloaded = FALSE]
  <2>1. adapter' \in {adapter, loaded, failed}
    OBVIOUS
  <2>2. parsed \in Parsed
    BY <1>0, ServersSet DEF Parsed
  <2>3. (IF other THEN None ELSE adapter.scrape) \in {None} \cup Scraped
    BY <1>0
  <2>4. loaded \in LlamaFields /\ failed \in LlamaFields
    BY <1>0, <2>2, <2>3, FieldsSet
  <2>5. loaded.scrape \in {None, adapter.scrape} /\ failed.scrape = adapter.scrape
    BY DEF LlamaFields
  <2>6. adapter' \in LlamaFields /\ adapter'.scrape \in {None, adapter.scrape}
    <3> HIDE DEF loaded, failed
    <3> QED
      BY <2>1, <2>4, <2>5
  <2>7. read' \in LlamaReads /\ (read'.pc # "none" => read.pc # "none" /\ read'.mono = read.mono)
    BY ReadsSet DEF Llama!Go, Llama!Done
  <2>8. now' = now /\ server' = server /\ watch' \in {None, watch} /\ woken' = woken /\ idled' = idled
    OBVIOUS
  <2> QED
    BY <2>6, <2>7, <2>8, SameWork
<1>4. CASE Llama!Scrape
  <2> USE <1>4 DEF Llama!Scrape, Llama!External
  <2> DEFINE taken == [at |-> read.mono, work |-> server.busy]
             scraped == {[adapter EXCEPT !.scrape = taken, !.wokeAt = t] : t \in {read.mono, adapter.wokeAt}}
  <2>1. taken \in Scraped
    BY <1>0 DEF Scraped
  <2>2. adapter' \in {adapter, [adapter EXCEPT !.reloaded = TRUE], [adapter EXCEPT !.off = TRUE]} \cup scraped
    OBVIOUS
  <2>3. adapter' \in LlamaFields
    <3> HIDE DEF taken
    <3>1. \A t \in Int : [adapter EXCEPT !.scrape = taken, !.wokeAt = t] \in LlamaFields
      BY <2>1, FieldsSet
    <3>2. scraped \subseteq LlamaFields
      BY <1>0, <3>1
    <3> QED
      BY <1>0, <2>2, <3>2, FieldsSet
  <2>4. adapter'.scrape \in {adapter.scrape, taken}
    BY <2>2 DEF LlamaFields
  <2>5. read' \in LlamaReads /\ (read'.pc # "none" => read'.mono = read.mono) /\ read.pc # "none"
    BY ReadsSet DEF Llama!Go, Llama!Done
  <2>6. now' = now /\ server' = server /\ watch' = watch /\ woken' = woken /\ idled' = idled
    OBVIOUS
  <2>7. LlamaTypeOK' /\ SleepsIdle'
    BY <2>3, <2>5, <2>6 DEF SleepsIdle
  <2>8. GoesByWork'
    BY <2>4, <2>5, <2>6 DEF GoesByWork, WorkedSince
  <2> QED
    BY <2>6, <2>7, <2>8 DEF Llama!IdleIsLeftAlone
<1>5. CASE Llama!Slots
  <2>1. read.pc = "slots" /\ read.mono <= now /\ now' = now
    BY <1>5 DEF Llama!Slots, GoesByWork
  <2>2. read' \in LlamaReads /\ read'.pc = "none"
    BY <1>5, ReadsSet DEF Llama!Slots, Llama!Done
  <2>3. CASE UNCHANGED <<server, adapter, watch, woken, idled>>
    BY <2>1, <2>2, <2>3 DEF SleepsIdle, GoesByWork, WorkedSince, Llama!IdleIsLeftAlone
  <2>4. CASE ~UNCHANGED <<server, adapter, watch, woken, idled>>
    <3>1. /\ server' = [server EXCEPT !.asleep = FALSE, !.idleSince = now]
          /\ adapter' \in {adapter, [adapter EXCEPT !.slotsIdleAt = read.mono]}
          /\ watch' = [mono |-> read.mono, busy |-> server.busy]
          /\ woken' = (IF server.asleep THEN woken \cup {now - server.idleSince} ELSE woken)
          /\ idled' = (idled \/ ~Llama!Latest.work)
          /\ Llama!Latest # None /\ (Llama!Working \/ Llama!Following) /\ Llama!Room
      BY <1>5, <2>4 DEF Llama!Slots
    <3>2. server' \in LlamaServers /\ ~server'.asleep /\ server'.busy = server.busy /\ server'.idleSince = now
      BY <3>1, ServersSet
    <3>3. watch' \in Followed /\ watch'.mono = read.mono
      BY <1>0, <3>1 DEF Followed
    <3>4. adapter' \in LlamaFields
      BY <1>0, <3>1, FieldsSet
    <3>5. adapter'.scrape = adapter.scrape
      BY <3>1 DEF LlamaFields
    <3>6. woken' \subseteq Int /\ idled' \in BOOLEAN
      BY <1>0, <3>1
    <3>7. LlamaTypeOK' /\ SleepsIdle'
      BY <2>1, <2>2, <3>2, <3>3, <3>4, <3>6 DEF SleepsIdle
    <3>8. adapter.scrape # None => adapter.scrape.at <= now
      BY DEF GoesByWork
    <3>9. GoesByWork'
      BY <2>1, <2>2, <3>2, <3>3, <3>5, <3>8 DEF GoesByWork, WorkedSince
    <3>10. Llama!IdleIsLeftAlone'
      BY <2>1, <3>1, SlotsFindWork DEF Llama!IdleIsLeftAlone
    <3> QED
      BY <3>7, <3>9, <3>10
  <2> QED
    BY <2>3, <2>4
<1>6. ASSUME server' \in LlamaServers, SleepsIdle', now' \in Int, now' >= now,
             UNCHANGED <<adapter, watch, read, woken, idled>>,
             server.busy \/ server'.idleSince >= server.idleSince \/ server'.busy,
             server.busy => server'.busy \/ server'.idleSince >= now
      PROVE  LlamaInv'
  <2>1. LlamaTypeOK' /\ Llama!IdleIsLeftAlone'
    BY <1>6 DEF Llama!IdleIsLeftAlone
  <2>2. server'.idleSince \in Int
    BY <1>6, ServersSet
  <2>3. \A at \in Int : at <= now /\ WorkedSince(at) => WorkedSince(at)'
    BY <1>0, <1>6, <2>2 DEF WorkedSince
  <2>4. GoesByWork'
    BY <1>0, <1>6, <2>3 DEF GoesByWork, Scraped, Followed
  <2> QED
    BY <1>6, <2>1, <2>4
<1>7. CASE Llama!Start
  <2>1. server' \in LlamaServers /\ ~server'.asleep /\ server'.busy /\ server'.idleSince = server.idleSince
    BY <1>7, ServersSet DEF Llama!Start
  <2>2. UNCHANGED <<now, adapter, watch, read, woken, idled>>
    BY <1>7 DEF Llama!Start, Llama!Inner
  <2> QED
    BY <1>6, <2>1, <2>2 DEF SleepsIdle
<1>8. CASE Llama!End
  <2>1. server' \in LlamaServers /\ server'.asleep = server.asleep /\ server'.idleSince = now /\ server.busy
    BY <1>8, ServersSet DEF Llama!End
  <2>2. UNCHANGED <<now, adapter, watch, read, woken, idled>>
    BY <1>8 DEF Llama!End, Llama!Inner
  <2> QED
    BY <1>6, <2>1, <2>2 DEF SleepsIdle
<1>9. CASE Llama!Sleep
  <2>1. /\ server' \in LlamaServers /\ server'.up = server.up /\ server'.busy = server.busy
        /\ server'.idleSince = server.idleSince
    BY <1>9, ServersSet DEF Llama!Sleep
  <2>2. UNCHANGED <<now, adapter, watch, read, woken, idled>>
    BY <1>9 DEF Llama!Sleep, Llama!Inner
  <2>3. server.up /\ ~server.busy
    BY <1>9 DEF Llama!Sleep
  <2> QED
    BY <1>0, <1>6, <2>1, <2>2, <2>3 DEF SleepsIdle
<1>10. CASE Llama!Reload
  <2>1. /\ server' \in LlamaServers /\ ~server'.asleep /\ server'.busy = server.busy
        /\ server'.idleSince = server.idleSince
    <3>1. PICK m \in OfLlama.models : server' = [server EXCEPT !.up = FALSE, !.model = m, !.asleep = FALSE]
      BY <1>10 DEF Llama!Reload
    <3>2. server' \in LlamaServers
      BY <3>1, ServersSet
    <3>3. ~server'.asleep /\ server'.busy = server.busy /\ server'.idleSince = server.idleSince
      BY <3>1 DEF LlamaServers
    <3> QED
      BY <3>2, <3>3
  <2>2. UNCHANGED <<now, adapter, watch, read, woken, idled>>
    BY <1>10 DEF Llama!Reload, Llama!Inner
  <2> QED
    BY <1>0, <1>6, <2>1, <2>2 DEF SleepsIdle
<1>11. CASE Llama!Loaded
  <2>1. server' \in LlamaServers /\ server'.asleep = server.asleep /\ server'.up /\ server'.idleSince = now
    <3>1. server' = [server EXCEPT !.up = TRUE, !.idleSince = now] /\ now \in Int /\ server \in LlamaServers
      BY <1>11 DEF Llama!Loaded
    <3>2. server' \in LlamaServers
      BY <3>1, ServersSet
    <3>3. server'.asleep = server.asleep /\ server'.up /\ server'.idleSince = now
      BY <3>1 DEF LlamaServers
    <3> QED
      BY <3>2, <3>3
  <2>2. UNCHANGED <<now, adapter, watch, read, woken, idled>> /\ ~server.up
    BY <1>11 DEF Llama!Loaded, Llama!Inner
  <2> QED
    BY <1>0, <1>6, <2>1, <2>2 DEF SleepsIdle
<1>12. CASE Llama!Tick
  <2>1. UNCHANGED <<server, adapter, watch, read, woken, idled>> /\ now' = now + 1
    BY <1>12 DEF Llama!Tick, Llama!Inner
  <2>2. SleepsIdle' /\ now' \in Int /\ now' >= now
    BY <1>0, <2>1 DEF SleepsIdle
  <2>3. \A at \in Int : WorkedSince(at) => WorkedSince(at)'
    BY <2>1 DEF WorkedSince
  <2>4. GoesByWork'
    BY <1>0, <2>1, <2>2, <2>3 DEF GoesByWork, Scraped, Followed
  <2> QED
    BY <2>1, <2>2, <2>4 DEF Llama!IdleIsLeftAlone
<1> QED
  BY <1>1, <1>2, <1>3, <1>4, <1>5, <1>7, <1>8, <1>9, <1>10, <1>11, <1>12 DEF Llama!LlamaNext

LlamaPart == part = "llama" => LlamaInv

\* In the system of the adapters, no read of /slots reaches a sleeping server whose
\* work ended longer ago than a scrape is taken for recent and a read may last, for
\* every time after which a server sleeps and any number of reads, faults and models.
THEOREM SleepersAreLeft == Spec => []IdleIsLeftAlone
<1>1. Init => LlamaPart
  BY LlamaStarts DEF Init, LlamaPart
<1>2. LlamaPart /\ [Next]_vars => LlamaPart'
  <2> SUFFICES ASSUME LlamaPart, [Next]_vars, part' = "llama" PROVE LlamaInv'
    BY DEF LlamaPart
  <2>1. CASE LlamaSteps
    BY <2>1, LlamaKeeps DEF LlamaSteps, LlamaPart
  <2>2. CASE UNCHANGED vars
    BY <2>2 DEF vars, llama, LlamaPart, LlamaInv, LlamaTypeOK, SleepsIdle, GoesByWork, WorkedSince, Llama!IdleIsLeftAlone
  <2> QED
    BY <2>1, <2>2 DEF Next, WatchSteps, SplashSteps, OmlxSteps, ActivitySteps, StudioSteps
<1>3. LlamaPart => IdleIsLeftAlone
  BY DEF LlamaPart, LlamaInv, IdleIsLeftAlone
<1> QED
  BY <1>1, <1>2, <1>3, PTL DEF Spec

----------------------------------------------------------------------------
(* Omlx.  A cookie that decides about the key is fresh, and oMLX knows it  *)
(* unless it forgot it on the way; the uptime kept never exceeds the age   *)
(* of its boot.                                                            *)

Tried == [at : {"login", "send"}, cookie : {None} \cup Int, fresh : BOOLEAN, attempt : {1, 2}, forgotten : BOOLEAN]
Settled == [at : {"idle", "ok", "refused", "failed"}]
Sessions == [cookie : {None} \cup Int, login : {"none", "flight"}, refused : {None} \cup Int, blame : BOOLEAN]
Statuses == [ms : Int, at : Int, boot : Int]

OmlxTypeOK ==
    /\ now \in Int
    /\ server \in [accepts : BOOLEAN, boot : Int, cookies : SUBSET Int, given : Int]
    /\ session \in Sessions
    /\ gets \in [Omlx!Reader -> Tried \cup Settled]
    /\ status \in {None, Omlx!Lost} \cup Statuses
    /\ uptime \in {None} \cup Statuses
    /\ misread \in BOOLEAN

\* What a get may send, when oMLX knows these cookies.
Sound(g, cookies) ==
    /\ g.at = "login" => g.fresh /\ ~g.forgotten
    /\ g.at = "send" => /\ g.attempt = 2 => g.fresh
                        /\ g.fresh /\ ~g.forgotten => g.cookie \in cookies

Dated(s) == s.at <= now /\ s.ms <= s.at - s.boot

OmlxInv ==
    /\ OmlxTypeOK
    /\ \A r \in Omlx!Reader : Sound(gets[r], server.cookies)
    /\ ~server.accepts => server.cookies = {}
    /\ status \notin {None, Omlx!Lost} => Dated(status) /\ status.ms = status.at - status.boot
    /\ uptime # None => Dated(uptime)
    /\ Omlx!ServerIsReadRightly

LEMMA OmlxStarts == Omlx!OmlxInit => OmlxInv
<1> SUFFICES ASSUME Omlx!OmlxInit PROVE OmlxInv
  OBVIOUS
<1> USE DEF Omlx!OmlxInit
<1>1. session \in Sessions
  BY DEF Sessions
<1>2. gets \in [Omlx!Reader -> Tried \cup Settled] /\ \A r \in Omlx!Reader : gets[r].at = "idle"
  BY DEF Settled, Omlx!IdleGet
<1>3. server \in [accepts : BOOLEAN, boot : Int, cookies : SUBSET Int, given : Int]
  OBVIOUS
<1>4. misread \in BOOLEAN /\ ~misread /\ ~session.blame
  BY Zenon
<1>5. OmlxTypeOK
  BY <1>1, <1>2, <1>3, <1>4 DEF OmlxTypeOK
<1>6. \A r \in Omlx!Reader : Sound(gets[r], server.cookies)
  BY <1>2 DEF Sound
<1> QED
  BY <1>4, <1>5, <1>6 DEF OmlxInv, Omlx!ServerIsReadRightly

\* A get that is tried is sound whether its cookie is sent or a login is joined.
LEMMA AttemptFacts ==
    ASSUME OmlxInv, NEW r \in Omlx!Reader, NEW s \in Sessions, NEW n \in {1, 2},
           n = 2 => s.cookie = None, Omlx!Attempt(r, s, n)
    PROVE  /\ gets' \in [Omlx!Reader -> Tried \cup Settled]
           /\ \A q \in Omlx!Reader : Sound(gets'[q], server.cookies)
           /\ session' \in Sessions /\ session'.blame = s.blame
<1>1. s.cookie \in {None} \cup Int
  BY DEF Sessions
<1>2. \A b \in {"none", "flight"} : [s EXCEPT !.login = b] \in Sessions /\ [s EXCEPT !.login = b].blame = s.blame
  BY DEF Sessions
<1>3. session' \in Sessions /\ session'.blame = s.blame
  BY <1>2 DEF Omlx!Attempt
<1>4. PICK g \in {Omlx!Trying("login", None, TRUE, n), Omlx!Answered("refused"), Omlx!Trying("send", s.cookie, FALSE, n)} :
         gets' = [gets EXCEPT ![r] = g] /\ (g = Omlx!Trying("send", s.cookie, FALSE, n) => s.cookie # None)
  BY DEF Omlx!Attempt, Omlx!Trying, Omlx!Answered
<1>5. \A b \in BOOLEAN, c \in {None} \cup Int, at \in {"login", "send"} :
         [at |-> at, cookie |-> c, fresh |-> b, attempt |-> n, forgotten |-> FALSE] \in Tried
  BY DEF Tried
<1>6. /\ Omlx!Trying("login", None, TRUE, n) \in Tried /\ Omlx!Trying("send", s.cookie, FALSE, n) \in Tried
      /\ Omlx!Answered("refused") \in Settled
  BY <1>1, <1>5 DEF Omlx!Trying, Omlx!Answered, Settled
<1>7. Sound(g, server.cookies)
  BY <1>4 DEF Sound, Omlx!Trying, Omlx!Answered
<1> QED
  BY <1>3, <1>4, <1>6, <1>7 DEF OmlxInv, OmlxTypeOK

\* A get that is settled is sound.
LEMMA SettledFacts ==
    ASSUME OmlxInv, NEW r \in Omlx!Reader, NEW g \in Settled, gets' = [gets EXCEPT ![r] = g]
    PROVE  /\ gets' \in [Omlx!Reader -> Tried \cup Settled]
           /\ \A q \in Omlx!Reader : Sound(gets'[q], server.cookies)
BY DEF OmlxInv, OmlxTypeOK, Sound, Settled

\* What oMLX forgets, the gets on their way to it do not decide by.
LEMMA ForgetFacts ==
    ASSUME OmlxInv, gets' = Omlx!ForgottenOnTheWay
    PROVE  /\ gets' \in [Omlx!Reader -> Tried \cup Settled]
           /\ \A q \in Omlx!Reader : Sound(gets'[q], {})
<1>1. \A g \in Tried \cup Settled : g.at = "send" => g \in Tried
  BY DEF Settled
<1>2. \A g \in Tried, b \in BOOLEAN : [g EXCEPT !.forgotten = b] \in Tried
  BY DEF Tried
<1>3. \A g \in Tried : /\ [g EXCEPT !.forgotten = TRUE] \in Tried
                       /\ [g EXCEPT !.forgotten = TRUE].at = g.at /\ [g EXCEPT !.forgotten = TRUE].forgotten
                       /\ [g EXCEPT !.forgotten = TRUE].attempt = g.attempt
                       /\ [g EXCEPT !.forgotten = TRUE].fresh = g.fresh
  BY <1>2 DEF Tried
<1>4. ASSUME NEW r \in Omlx!Reader
      PROVE  gets'[r] \in Tried \cup Settled /\ Sound(gets'[r], {})
  <2>1. CASE gets[r].at = "send"
    <3>1. gets[r] \in Tried /\ gets'[r] = [gets[r] EXCEPT !.forgotten = TRUE]
      BY <1>1, <2>1 DEF OmlxInv, OmlxTypeOK, Omlx!ForgottenOnTheWay
    <3>2. gets[r].attempt = 2 => gets[r].fresh
      BY <2>1 DEF OmlxInv, Sound
    <3> QED
      BY <1>3, <2>1, <3>1, <3>2 DEF Sound
  <2>2. CASE gets[r].at # "send"
    BY <2>2 DEF OmlxInv, OmlxTypeOK, Omlx!ForgottenOnTheWay, Sound
  <2> QED
    BY <2>1, <2>2
<1>5. gets' = [r \in Omlx!Reader |-> gets'[r]]
  BY DEF Omlx!ForgottenOnTheWay
<1> QED
  BY <1>4, <1>5

LEMMA SessionsSet ==
    ASSUME NEW s \in Sessions, NEW n \in Int
    PROVE  /\ [s EXCEPT !.login = "none"] \in Sessions /\ [s EXCEPT !.login = "none"].blame = s.blame
           /\ [s EXCEPT !.login = "none", !.cookie = n] \in Sessions
           /\ [s EXCEPT !.login = "none", !.cookie = n].blame = s.blame
           /\ [s EXCEPT !.login = "none", !.refused = n] \in Sessions
           /\ [s EXCEPT !.login = "none", !.refused = n].blame = s.blame
           /\ [s EXCEPT !.cookie = None] \in Sessions /\ [s EXCEPT !.cookie = None].blame = s.blame
           /\ [s EXCEPT !.cookie = None].cookie = None
           /\ \A b \in BOOLEAN : [s EXCEPT !.refused = n, !.blame = b] \in Sessions
BY DEF Sessions

\* Everyone who joined the login goes on with its result.
LEMMA LoginFacts ==
    ASSUME OmlxInv, NEW cookies, server.cookies \subseteq cookies,
           gets' = [r \in Omlx!Reader |-> gets'[r]],
           \A r \in Omlx!Reader :
              /\ gets[r].at # "login" => gets'[r] = gets[r]
              /\ gets[r].at = "login" => gets'[r] \in Tried \cup Settled /\ Sound(gets'[r], cookies)
    PROVE  /\ gets' \in [Omlx!Reader -> Tried \cup Settled]
           /\ \A q \in Omlx!Reader : Sound(gets'[q], cookies)
<1>2. ASSUME NEW r \in Omlx!Reader
      PROVE  gets'[r] \in Tried \cup Settled /\ Sound(gets'[r], cookies)
  <2>1. gets[r] \in Tried \cup Settled /\ Sound(gets[r], server.cookies)
    BY DEF OmlxInv, OmlxTypeOK
  <2> QED
    BY <2>1 DEF Sound
<1> QED
  BY <1>2

\* What a step of the session keeps, when it keeps its gets sound.
LEMMA SessionSteps ==
    ASSUME OmlxInv, UNCHANGED <<now, status, uptime, misread>>,
           gets' \in [Omlx!Reader -> Tried \cup Settled],
           session' \in Sessions, ~session'.blame,
           server' \in [accepts : BOOLEAN, boot : Int, cookies : SUBSET Int, given : Int],
           ~server'.accepts => server'.cookies = {},
           \A r \in Omlx!Reader : Sound(gets'[r], server'.cookies)
    PROVE  OmlxInv'
BY DEF OmlxInv, OmlxTypeOK, Dated, Omlx!ServerIsReadRightly

LEMMA OmlxKeeps == ASSUME OmlxInv, Omlx!OmlxNext PROVE OmlxInv'
<1> DEFINE Servers == [accepts : BOOLEAN, boot : Int, cookies : SUBSET Int, given : Int]
<1>0. /\ now \in Int /\ server \in Servers /\ session \in Sessions
      /\ gets \in [Omlx!Reader -> Tried \cup Settled] /\ ~session.blame /\ ~misread
      /\ (~server.accepts => server.cookies = {})
      /\ \A r \in Omlx!Reader : Sound(gets[r], server.cookies)
  BY DEF OmlxInv, OmlxTypeOK, Omlx!ServerIsReadRightly
<1>1. CASE Omlx!Reboot
  <2>1. server' = [server EXCEPT !.boot = now, !.cookies = {}] /\ gets' = Omlx!ForgottenOnTheWay
        /\ UNCHANGED <<now, session, status, uptime, misread>>
    BY <1>1 DEF Omlx!Reboot, Omlx!reading
  <2>2. server' \in Servers /\ server'.cookies = {}
    BY <1>0, <2>1
  <2> QED
    BY <1>0, <2>1, <2>2, ForgetFacts, SessionSteps
<1>2. CASE Omlx!Rekey
  <2>1. server' = [server EXCEPT !.accepts = ~@, !.cookies = {}] /\ gets' = Omlx!ForgottenOnTheWay
        /\ UNCHANGED <<now, session, status, uptime, misread>>
    BY <1>2 DEF Omlx!Rekey, Omlx!reading
  <2>2. \A b \in BOOLEAN : [server EXCEPT !.accepts = b, !.cookies = {}] \in Servers
    BY <1>0
  <2>3. server' \in Servers /\ server'.cookies = {}
    BY <1>0, <2>1, <2>2
  <2> QED
    BY <1>0, <2>1, <2>3, ForgetFacts, SessionSteps
<1>3. CASE Omlx!Pass
  <2>1. now' = now + 1 /\ UNCHANGED <<server, session, gets, status, uptime, misread>>
    BY <1>3 DEF Omlx!Pass, Omlx!reading
  <2>2. \A s \in Statuses : Dated(s) => Dated(s)'
    BY <1>0, <2>1 DEF Dated, Statuses
  <2> QED
    BY <1>0, <2>1, <2>2 DEF OmlxInv, OmlxTypeOK, Dated, Omlx!ServerIsReadRightly, Statuses
<1>4. ASSUME NEW r \in Omlx!Reader, Omlx!Begin(r) PROVE OmlxInv'
  <2>1. UNCHANGED <<now, server, status, uptime, misread>>
    BY <1>4 DEF Omlx!Begin, Omlx!reading
  <2>2. CASE Omlx!Attempt(r, session, 1)
    BY <1>0, <2>1, <2>2, AttemptFacts, SessionSteps
  <2>3. CASE gets' = [gets EXCEPT ![r] = Omlx!Answered("refused")] /\ UNCHANGED session
    <3>1. Omlx!Answered("refused") \in Settled
      BY DEF Omlx!Answered, Settled
    <3> QED
      BY <1>0, <2>1, <2>3, <3>1, SettledFacts, SessionSteps
  <2> QED
    BY <1>4, <2>2, <2>3 DEF Omlx!Begin
<1>5. CASE Omlx!LoginAnswers
  <2>0. UNCHANGED <<now, status, uptime, misread>>
    BY <1>5 DEF Omlx!LoginAnswers, Omlx!reading
  <2> DEFINE c == server.given + 1
  <2>1. CASE server.accepts
    <3>1. c \in Int
      BY <1>0
    <3>2. /\ server' = [server EXCEPT !.cookies = @ \cup {c}, !.given = c]
          /\ session' = [session EXCEPT !.login = "none", !.cookie = c]
          /\ gets' = [r \in Omlx!Reader |->
                        IF gets[r].at = "login"
                        THEN IF Omlx!Refused(session) THEN Omlx!Answered("refused")
                             ELSE [gets[r] EXCEPT !.at = "send", !.cookie = c]
                        ELSE gets[r]]
      BY <1>5, <2>1 DEF Omlx!LoginAnswers, Omlx!Continue
    <3> HIDE DEF c
    <3>3. server' \in Servers /\ server'.cookies = server.cookies \cup {c} /\ server'.accepts = server.accepts
      BY <1>0, <3>1, <3>2
    <3>5. \A g \in Tried : [g EXCEPT !.at = "send", !.cookie = c] \in Tried
      BY <3>1 DEF Tried
    <3>6. \A g \in Tried : Sound([g EXCEPT !.at = "send", !.cookie = c], server'.cookies) \/ ~g.fresh
      BY <3>3 DEF Tried, Sound
    <3>7. \A g \in Tried \cup Settled : g.at = "login" => g \in Tried
      BY DEF Settled
    <3>8. Omlx!Answered("refused") \in Settled /\ Sound(Omlx!Answered("refused"), server'.cookies)
      BY DEF Settled, Sound, Omlx!Answered
    <3>9. ASSUME NEW r \in Omlx!Reader
          PROVE  /\ gets[r].at # "login" => gets'[r] = gets[r]
                 /\ gets[r].at = "login" => gets'[r] \in Tried \cup Settled /\ Sound(gets'[r], server'.cookies)
      <4>1. gets[r].at = "login" => gets[r] \in Tried /\ gets[r].fresh
        BY <1>0, <3>7 DEF Sound
      <4> QED
        BY <3>2, <3>5, <3>6, <3>8, <4>1
    <3>10. gets' = [r \in Omlx!Reader |-> gets'[r]]
      BY <3>2
    <3>11. /\ gets' \in [Omlx!Reader -> Tried \cup Settled]
           /\ \A q \in Omlx!Reader : Sound(gets'[q], server'.cookies)
      BY <3>3, <3>9, <3>10, LoginFacts
    <3>12. session' \in Sessions /\ ~session'.blame
      BY <1>0, <3>1, <3>2, SessionsSet
    <3> QED
      BY <2>0, <2>1, <3>3, <3>11, <3>12, SessionSteps
  <2>2. CASE ~server.accepts
    <3>1. /\ session' = [session EXCEPT !.login = "none", !.refused = now] /\ server' = server
          /\ gets' = [r \in Omlx!Reader |-> IF gets[r].at = "login" THEN Omlx!Answered("refused") ELSE gets[r]]
      BY <1>5, <2>2 DEF Omlx!LoginAnswers, Omlx!Continue
    <3>2. Omlx!Answered("refused") \in Settled /\ Sound(Omlx!Answered("refused"), server.cookies)
      BY DEF Settled, Sound, Omlx!Answered
    <3>3. /\ gets' \in [Omlx!Reader -> Tried \cup Settled]
          /\ \A q \in Omlx!Reader : Sound(gets'[q], server.cookies)
      BY <3>1, <3>2, LoginFacts
    <3>4. session' \in Sessions /\ ~session'.blame
      BY <1>0, <3>1, SessionsSet
    <3> QED
      BY <1>0, <2>0, <3>1, <3>3, <3>4, SessionSteps
  <2> QED
    BY <2>1, <2>2
<1>6. CASE Omlx!LoginFails
  <2>1. /\ session' = [session EXCEPT !.login = "none"] /\ UNCHANGED <<now, server, status, uptime, misread>>
        /\ gets' = [r \in Omlx!Reader |-> IF gets[r].at = "login" THEN Omlx!Answered("failed") ELSE gets[r]]
    BY <1>6 DEF Omlx!LoginFails, Omlx!Continue, Omlx!reading
  <2>2. Omlx!Answered("failed") \in Settled /\ Sound(Omlx!Answered("failed"), server.cookies)
    BY DEF Settled, Sound, Omlx!Answered
  <2>3. /\ gets' \in [Omlx!Reader -> Tried \cup Settled]
        /\ \A q \in Omlx!Reader : Sound(gets'[q], server.cookies)
    BY <2>1, <2>2, LoginFacts
  <2>4. session' \in Sessions /\ ~session'.blame
    BY <1>0, <2>1, SessionsSet
  <2> QED
    BY <1>0, <2>1, <2>3, <2>4, SessionSteps
<1>7. ASSUME NEW r \in Omlx!Reader, Omlx!Answers(r) PROVE OmlxInv'
  <2>1. UNCHANGED <<now, server, status, uptime, misread>> /\ gets[r].at = "send"
    BY <1>7 DEF Omlx!Answers, Omlx!reading
  <2>2. Omlx!Answered("ok") \in Settled /\ Omlx!Answered("refused") \in Settled
    BY DEF Settled, Omlx!Answered
  <2>3. CASE gets[r].cookie \in server.cookies
    <3>1. gets' = [gets EXCEPT ![r] = Omlx!Answered("ok")] /\ UNCHANGED session
      BY <1>7, <2>3 DEF Omlx!Answers
    <3> QED
      BY <1>0, <2>1, <2>2, <3>1, SettledFacts, SessionSteps
  <2> DEFINE s == [session EXCEPT !.cookie = None]
  <2>4. s \in Sessions /\ ~s.blame /\ s.cookie = None
    BY <1>0, SessionsSet
  <2>5. CASE gets[r].cookie \notin server.cookies /\ Omlx!IsLast(gets[r])
    <3>1. gets[r].forgotten
      BY <1>0, <2>1, <2>5 DEF Omlx!IsLast, Sound
    <3>2. /\ gets' = [gets EXCEPT ![r] = Omlx!Answered("refused")]
          /\ session' = [s EXCEPT !.refused = now, !.blame = @ \/ (server.accepts /\ ~gets[r].forgotten)]
      BY <1>7, <2>5 DEF Omlx!Answers
    <3> HIDE DEF s
    <3>3. session' = [s EXCEPT !.refused = now, !.blame = FALSE]
      BY <2>4, <3>1, <3>2
    <3>4. session' \in Sessions
      BY <1>0, <2>4, <3>3, SessionsSet
    <3>5. ~session'.blame
      BY <2>4, <3>3 DEF Sessions
    <3> QED
      BY <1>0, <2>1, <2>2, <3>2, <3>4, <3>5, SettledFacts, SessionSteps
  <2>6. CASE gets[r].cookie \notin server.cookies /\ ~Omlx!IsLast(gets[r])
    <3>1. Omlx!Attempt(r, s, 2)
      BY <1>7, <2>6 DEF Omlx!Answers
    <3> HIDE DEF s
    <3> QED
      BY <1>0, <2>1, <2>4, <3>1, AttemptFacts, SessionSteps
  <2> QED
    BY <2>3, <2>5, <2>6
<1>8. ASSUME NEW r \in Omlx!Reader, Omlx!GetFails(r) PROVE OmlxInv'
  <2>1. /\ UNCHANGED <<now, server, session, status, uptime, misread>>
        /\ gets' = [gets EXCEPT ![r] = Omlx!Answered("failed")] /\ Omlx!Answered("failed") \in Settled
    BY <1>8 DEF Omlx!GetFails, Omlx!reading, Omlx!Answered, Settled
  <2> QED
    BY <1>0, <2>1, SettledFacts, SessionSteps
<1>9. CASE Omlx!UsageEnds
  <2>1. /\ UNCHANGED <<now, server, session, status, uptime, misread>>
        /\ gets' = [gets EXCEPT !["usage"] = Omlx!IdleGet] /\ Omlx!IdleGet \in Settled /\ "usage" \in Omlx!Reader
    BY <1>9 DEF Omlx!UsageEnds, Omlx!reading, Omlx!IdleGet, Omlx!Reader, Settled
  <2> QED
    BY <1>0, <2>1, SettledFacts, SessionSteps
<1>10. CASE Omlx!StatusAnswers
  <2>1. /\ status' = [ms |-> now - server.boot, at |-> now, boot |-> server.boot]
        /\ UNCHANGED <<now, server, session, gets, uptime, misread>>
    BY <1>10 DEF Omlx!StatusAnswers
  <2>2. server.boot \in Int
    BY <1>0
  <2>3. status' \in Statuses /\ Dated(status)' /\ status'.ms = status'.at - status'.boot
    BY <1>0, <2>1, <2>2 DEF Statuses, Dated
  <2> QED
    BY <1>0, <2>1, <2>3 DEF OmlxInv, OmlxTypeOK, Dated, Omlx!ServerIsReadRightly
<1>11. CASE Omlx!StatusFails
  BY <1>11 DEF Omlx!StatusFails, OmlxInv, OmlxTypeOK, Dated, Omlx!ServerIsReadRightly
<1>12. CASE Omlx!ReadEnds
  <2>1. /\ UNCHANGED <<now, server, session>>
        /\ gets' = [gets EXCEPT !["read"] = Omlx!IdleGet] /\ Omlx!IdleGet \in Settled /\ "read" \in Omlx!Reader
        /\ status' = None
    BY <1>12 DEF Omlx!ReadEnds, Omlx!IdleGet, Omlx!Reader, Settled
  <2>2. /\ gets' \in [Omlx!Reader -> Tried \cup Settled]
        /\ \A q \in Omlx!Reader : Sound(gets'[q], server'.cookies)
    BY <2>1, SettledFacts
  <2>3. CASE UNCHANGED <<uptime, misread>>
    BY <1>0, <2>1, <2>2, <2>3 DEF OmlxInv, OmlxTypeOK, Dated, Omlx!ServerIsReadRightly
  <2>4. CASE /\ status \notin {None, Omlx!Lost}
             /\ uptime' = [ms |-> status.ms, at |-> now, boot |-> status.boot]
             /\ misread' = (misread \/ /\ Omlx!FellBehind(status.ms)
                                       /\ status.boot = uptime.boot
                                       /\ now - status.at <= OfOmlx.slack)
    <3>1. status \in Statuses /\ Dated(status) /\ status.ms = status.at - status.boot
      BY <2>4 DEF OmlxInv, OmlxTypeOK
    <3>2. uptime' \in Statuses /\ Dated(uptime)'
      BY <1>0, <2>1, <2>4, <3>1 DEF Statuses, Dated
    <3>3. ~misread'
      <4> SUFFICES ASSUME Omlx!FellBehind(status.ms), status.boot = uptime.boot, now - status.at <= OfOmlx.slack
                   PROVE  FALSE
        BY <1>0, <2>4
      <4>1. uptime \in Statuses /\ Dated(uptime)
        BY DEF Omlx!FellBehind, OmlxInv, OmlxTypeOK
      <4>2. OfOmlx.slack \in Int
        BY AdapterConstants DEF Omlx!OmlxAssumption
      <4>3. status.ms + OfOmlx.slack < uptime.ms + (now - uptime.at)
        BY DEF Omlx!FellBehind
      <4> QED
        BY <1>0, <3>1, <4>1, <4>2, <4>3 DEF Statuses, Dated
    <3> QED
      <4>1. misread' \in BOOLEAN
        BY <2>4, Zenon
      <4>2. OmlxTypeOK'
        BY <1>0, <2>1, <2>2, <3>2, <4>1 DEF OmlxTypeOK
      <4> QED
        BY <1>0, <2>1, <2>2, <3>2, <3>3, <4>2 DEF OmlxInv, Omlx!ServerIsReadRightly
  <2> QED
    BY <1>12, <2>3, <2>4 DEF Omlx!ReadEnds
<1> QED
  BY <1>1, <1>2, <1>3, <1>4, <1>5, <1>6, <1>7, <1>8, <1>9, <1>10, <1>11, <1>12 DEF Omlx!OmlxNext

OmlxPart == part = "omlx" => OmlxInv

\* A key that oMLX takes is not held for a refused one, and no restart is counted
\* that did not happen, in the system of the adapters: whichever restarts and
\* changes of the key fall between the steps of the two readers.
THEOREM OmlxIsReadRightly == Spec => []ServerIsReadRightly
<1>1. Init => OmlxPart
  BY OmlxStarts DEF Init, OmlxPart
<1>2. OmlxPart /\ [Next]_vars => OmlxPart'
  <2> SUFFICES ASSUME OmlxPart, [Next]_vars, part' = "omlx" PROVE OmlxInv'
    BY DEF OmlxPart
  <2>1. CASE OmlxSteps
    BY <2>1, OmlxKeeps DEF OmlxSteps, OmlxPart
  <2>2. CASE UNCHANGED vars
    BY <2>2 DEF vars, omlx, OmlxPart, OmlxInv, OmlxTypeOK, Dated, Omlx!ServerIsReadRightly
  <2> QED
    BY <2>1, <2>2 DEF Next, LlamaSteps, WatchSteps, SplashSteps, ActivitySteps, StudioSteps
<1>3. OmlxPart => ServerIsReadRightly
  BY DEF OmlxPart, OmlxInv, ServerIsReadRightly
<1> QED
  BY <1>1, <1>2, <1>3, PTL DEF Spec

----------------------------------------------------------------------------
(* SlotWatch.  A request runs in the slot that shows it and in no other,   *)
(* so that one that is read busy again beside nothing else is the one      *)
(* followed, and one that is not has ended.                                *)

WatchedSlot == [busy : BOOLEAN, task : 0 .. OfWatch.tasks, decoded : 0 .. OfWatch.tokens]
Task == [tokens : Nat, runs : BOOLEAN, beside : SUBSET Nat]
FollowedRequest == [id : OfWatch.slots, task : Nat, last : WatchedSlot, overlapped : BOOLEAN, started : BOOLEAN]
Completion == [task : Nat, tokens : Nat, started : BOOLEAN, overlapped : BOOLEAN]

WatchTypeOK ==
    /\ slots \in [OfWatch.slots -> WatchedSlot] /\ previous \in {None} \cup [OfWatch.slots -> WatchedSlot]
    /\ span \in {None} \cup FollowedRequest
    /\ drafts \in Seq(Completion) /\ truth \in Seq(Task)

\* The slots show the requests as they are.
SlotsAreTrue ==
    /\ \A s \in OfWatch.slots : LET t == slots[s].task IN
          /\ t <= Len(truth)
          /\ t # 0 => slots[s].decoded <= truth[t].tokens /\ (slots[s].busy <=> truth[t].runs)
          /\ slots[s].busy => t # 0 /\ slots[s].decoded = truth[t].tokens
    /\ \A s, q \in OfWatch.slots : s # q /\ slots[s].task = slots[q].task => slots[s].task = 0

\* A request read busy that still runs, runs where it was read.
ReadIsTrue ==
    previous # None =>
        \A s \in OfWatch.slots : previous[s].busy =>
            LET t == previous[s].task IN
            /\ t \in 1 .. Len(truth) /\ previous[s].decoded <= truth[t].tokens
            /\ truth[t].runs => slots[s].task = t

\* The one followed was read so; if its start was seen and it did not overlap, it
\* was read beside none, and it has no completion yet.
SpanIsTrue ==
    span # None =>
        /\ previous # None /\ previous[span.id].busy
        /\ span.task = previous[span.id].task /\ span.last = previous[span.id]
        /\ span.started /\ ~span.overlapped => truth[span.task].beside = {}
        /\ \A i \in 1 .. Len(drafts) : drafts[i].task # span.task

\* A request that runs was read beside another only where it was read last.
BesideIsRead ==
    \A s \in OfWatch.slots :
        slots[s].busy /\ truth[slots[s].task].beside # {} =>
            previous # None /\ previous[s].busy /\ previous[s].task = slots[s].task

DraftsAreTrue ==
    /\ \A i \in 1 .. Len(drafts) : drafts[i].task \in 1 .. Len(truth)
    /\ Watch!CompletionsAreTrue

WatchInv == WatchTypeOK /\ SlotsAreTrue /\ ReadIsTrue /\ SpanIsTrue /\ BesideIsRead /\ DraftsAreTrue

LEMMA WatchFacts ==
    /\ OfWatch.tasks \in Nat /\ OfWatch.tokens \in Nat
    /\ None \notin [OfWatch.slots -> WatchedSlot]
BY AdapterConstants DEF Watch!WatchAssumption, Watch!SlotStates, WatchedSlot

LEMMA TruthLength ==
    ASSUME NEW n \in Nat, NEW f \in [1 .. n -> Task]
    PROVE  f \in Seq(Task) /\ Len(f) = n
BY SeqDef, LenProperties

LEMMA WatchStarts == Watch!WatchInit => WatchInv
<1> SUFFICES ASSUME Watch!WatchInit PROVE WatchInv
  OBVIOUS
<1> USE DEF Watch!WatchInit
<1>1. Len(drafts) = 0 /\ Len(truth) = 0
  OBVIOUS
<1>2. slots \in [OfWatch.slots -> WatchedSlot]
  BY WatchFacts DEF WatchedSlot
<1>3. WatchTypeOK
  BY <1>2, EmptySeq DEF WatchTypeOK
<1>4. DraftsAreTrue
  BY <1>1, <1>3, LenProperties DEF DraftsAreTrue, Watch!CompletionsAreTrue, WatchTypeOK
<1> QED
  BY <1>1, <1>3, <1>4 DEF WatchInv, SlotsAreTrue, ReadIsTrue, SpanIsTrue, BesideIsRead

LEMMA TaskSet ==
    ASSUME NEW x \in Task
    PROVE  /\ x.tokens \in Nat /\ x.runs \in BOOLEAN
           /\ LET y == [x EXCEPT !.tokens = @ + 1]
              IN  y \in Task /\ y.tokens = x.tokens + 1 /\ y.runs = x.runs /\ y.beside = x.beside
           /\ LET y == [x EXCEPT !.runs = FALSE]
              IN  y \in Task /\ y.tokens = x.tokens /\ ~y.runs /\ y.beside = x.beside
<1>1. \A b \in BOOLEAN : [x EXCEPT !.runs = b] \in Task
  BY DEF Task
<1>2. [x EXCEPT !.runs = FALSE] \in Task
  BY <1>1
<1> QED
  BY <1>2 DEF Task

\* A request is launched in a slot where none runs.
LEMMA LaunchKeeps ==
    ASSUME WatchInv, NEW s \in OfWatch.slots, Watch!Launch(s)
    PROVE  WatchInv'
<1> DEFINE n == Len(truth) + 1
           new == [tokens |-> 0, runs |-> TRUE, beside |-> {}]
<1>1. /\ ~slots[s].busy /\ n <= OfWatch.tasks
      /\ slots' = [slots EXCEPT ![s] = [busy |-> TRUE, task |-> n, decoded |-> 0]]
      /\ truth' = Append(truth, new) /\ UNCHANGED <<previous, span, drafts>>
  BY DEF Watch!Launch
<1>2. truth \in Seq(Task) /\ Len(truth) \in Nat /\ slots \in [OfWatch.slots -> WatchedSlot]
  BY DEF WatchInv, WatchTypeOK
<1>3. new \in Task
  BY DEF Task
<1>4. /\ truth' \in Seq(Task) /\ Len(truth') = n /\ truth'[n] = new
      /\ \A k \in 1 .. Len(truth) : truth'[k] = truth[k]
  <2> HIDE DEF new
  <2> QED
    BY <1>1, <1>2, <1>3
<1>5. n \in 0 .. OfWatch.tasks /\ 0 \in 0 .. OfWatch.tokens
  BY <1>1, <1>2, WatchFacts
<1>6. /\ slots' \in [OfWatch.slots -> WatchedSlot]
      /\ slots'[s].busy = TRUE /\ slots'[s].task = n /\ slots'[s].decoded = 0
      /\ \A q \in OfWatch.slots \ {s} : slots'[q] = slots[q]
  <2>1. [busy |-> TRUE, task |-> n, decoded |-> 0] \in WatchedSlot
    BY <1>5 DEF WatchedSlot
  <2> QED
    BY <1>1, <1>2, <2>1
<1>7. \A q \in OfWatch.slots : slots[q].task \in Nat /\ slots[q].task <= Len(truth)
  BY <1>2, WatchFacts DEF WatchInv, SlotsAreTrue, WatchedSlot
<1> HIDE DEF n, new
<1>n. n = Len(truth) + 1 /\ new.tokens = 0 /\ new.runs = TRUE /\ new.beside = {}
  BY DEF n, new
<1>8. WatchTypeOK'
  BY <1>1, <1>4, <1>6 DEF WatchInv, WatchTypeOK
<1>9. SlotsAreTrue'
  <2>1. ASSUME NEW q \in OfWatch.slots
        PROVE  LET t == slots'[q].task IN
               /\ t <= Len(truth')
               /\ t # 0 => slots'[q].decoded <= truth'[t].tokens /\ (slots'[q].busy <=> truth'[t].runs)
               /\ slots'[q].busy => t # 0 /\ slots'[q].decoded = truth'[t].tokens
    <3>1. CASE q = s
      <4>1. slots'[q].task = n /\ slots'[q].busy = TRUE /\ slots'[q].decoded = 0
        BY <1>6, <3>1
      <4>2. truth'[n].tokens = 0 /\ truth'[n].runs = TRUE /\ n # 0 /\ n <= Len(truth')
        BY <1>2, <1>4, <1>n
      <4> QED
        BY <4>1, <4>2
    <3>2. CASE q # s
      <4>1. slots[q].task # 0 => truth'[slots[q].task] = truth[slots[q].task]
        BY <1>2, <1>4, <1>7
      <4> QED
        BY <1>2, <1>4, <1>6, <1>7, <1>n, <3>2, <4>1 DEF WatchInv, SlotsAreTrue
    <3> QED
      BY <3>1, <3>2
  <2>2. \A q, r \in OfWatch.slots : q # r /\ slots'[q].task = slots'[r].task => slots'[q].task = 0
    BY <1>2, <1>6, <1>7, <1>n DEF WatchInv, SlotsAreTrue
  <2> QED
    BY <2>1, <2>2 DEF SlotsAreTrue
<1>10. ReadIsTrue'
  <2> SUFFICES ASSUME previous # None, NEW q \in OfWatch.slots, previous[q].busy
               PROVE  LET t == previous[q].task IN
                      /\ t \in 1 .. Len(truth') /\ previous[q].decoded <= truth'[t].tokens
                      /\ truth'[t].runs => slots'[q].task = t
    BY <1>1 DEF ReadIsTrue
  <2> DEFINE t == previous[q].task
  <2>1. t \in 1 .. Len(truth) /\ previous[q].decoded <= truth[t].tokens /\ (truth[t].runs => slots[q].task = t)
    BY DEF WatchInv, ReadIsTrue
  <2>2. truth[t].runs => q # s
    BY <1>1, <2>1 DEF WatchInv, SlotsAreTrue
  <2> QED
    BY <1>2, <1>4, <1>6, <1>n, <2>1, <2>2
<1>11. span # None => span.task \in 1 .. Len(truth)
  BY DEF WatchInv, WatchTypeOK, SpanIsTrue, ReadIsTrue, FollowedRequest
<1>12. SpanIsTrue'
  BY <1>1, <1>4, <1>11 DEF WatchInv, SpanIsTrue
<1>13. BesideIsRead'
  <2> SUFFICES ASSUME NEW q \in OfWatch.slots, slots'[q].busy, truth'[slots'[q].task].beside # {}
               PROVE  previous # None /\ previous[q].busy /\ previous[q].task = slots'[q].task
    BY <1>1 DEF BesideIsRead
  <2>1. q # s
    BY <1>4, <1>6, <1>n
  <2>2. slots[q].task # 0 /\ slots[q].busy
    BY <1>6, <2>1 DEF WatchInv, SlotsAreTrue
  <2>3. truth'[slots[q].task] = truth[slots[q].task]
    BY <1>2, <1>4, <1>7, <2>2
  <2> QED
    BY <1>6, <2>1, <2>2, <2>3 DEF WatchInv, BesideIsRead
<1>14. DraftsAreTrue'
  <2>1. DOMAIN drafts = 1 .. Len(drafts)
    BY LenProperties DEF WatchInv, WatchTypeOK
  <2> QED
    BY <1>1, <1>2, <1>4, <1>n, <2>1 DEF WatchInv, DraftsAreTrue, Watch!CompletionsAreTrue
<1> QED
  BY <1>8, <1>9, <1>10, <1>12, <1>13, <1>14 DEF WatchInv

\* The request in a slot goes on, or ends: of one request the tokens grow, or it no
\* longer runs, and only its slot changes.
LEMMA OneGoesOn ==
    ASSUME WatchInv, NEW s \in OfWatch.slots, slots[s].busy, UNCHANGED <<previous, span, drafts>>,
           NEW x \in Task, x.tokens >= truth[slots[s].task].tokens, x.runs => truth[slots[s].task].runs,
           x.beside = truth[slots[s].task].beside,
           NEW y \in WatchedSlot, y.task = slots[s].task, (y.busy <=> x.runs),
           y.decoded <= x.tokens, y.busy => y.decoded = x.tokens,
           truth' = [truth EXCEPT ![slots[s].task] = x],
           slots' = [slots EXCEPT ![s] = y]
    PROVE  WatchInv'
<1> DEFINE n == slots[s].task
<1>1. truth \in Seq(Task) /\ Len(truth) \in Nat /\ slots \in [OfWatch.slots -> WatchedSlot] /\ n \in 1 .. Len(truth)
  <2>1. truth \in Seq(Task) /\ Len(truth) \in Nat /\ slots \in [OfWatch.slots -> WatchedSlot]
    BY DEF WatchInv, WatchTypeOK
  <2>2. n \in Nat /\ n # 0 /\ n <= Len(truth)
    BY <2>1, WatchFacts DEF WatchInv, SlotsAreTrue, WatchedSlot
  <2> QED
    BY <2>1, <2>2
<1>2. /\ truth' \in Seq(Task) /\ Len(truth') = Len(truth) /\ truth'[n] = x
      /\ \A k \in 1 .. Len(truth) \ {n} : truth'[k] = truth[k]
  BY <1>1, ExceptSeq
<1>3. /\ slots' \in [OfWatch.slots -> WatchedSlot] /\ slots'[s] = y
      /\ \A q \in OfWatch.slots \ {s} : slots'[q] = slots[q]
  BY <1>1
<1>4. \A q \in OfWatch.slots : slots'[q].task = slots[q].task /\ slots[q].task \in 0 .. Len(truth)
  BY <1>1, <1>3, WatchFacts DEF WatchInv, SlotsAreTrue, WatchedSlot
<1>5. \A q \in OfWatch.slots \ {s} : slots[q].task # n
  BY <1>1 DEF WatchInv, SlotsAreTrue
<1>6. x.tokens \in Nat /\ \A k \in 1 .. Len(truth) : truth[k].tokens \in Nat /\ truth[k] \in Task
  <2>1. \A k \in 1 .. Len(truth) : truth[k] \in Task
    BY <1>1, ElementOfSeq
  <2> QED
    BY <2>1 DEF Task
<1>7. \A k \in 1 .. Len(truth) : /\ truth'[k].tokens \in Nat /\ truth'[k].tokens >= truth[k].tokens
                                 /\ (truth'[k].runs => truth[k].runs) /\ truth'[k].beside = truth[k].beside
  BY <1>1, <1>2, <1>6
<1> HIDE DEF n
<1>8. WatchTypeOK'
  BY <1>2, <1>3 DEF WatchInv, WatchTypeOK
<1>9. SlotsAreTrue'
  <2>1. ASSUME NEW q \in OfWatch.slots
        PROVE  LET t == slots'[q].task IN
               /\ t <= Len(truth')
               /\ t # 0 => slots'[q].decoded <= truth'[t].tokens /\ (slots'[q].busy <=> truth'[t].runs)
               /\ slots'[q].busy => t # 0 /\ slots'[q].decoded = truth'[t].tokens
    <3>1. CASE q = s
      BY <1>1, <1>2, <1>3, <3>1 DEF n
    <3>2. CASE q # s
      <4>1. slots[q].task # 0 => truth'[slots[q].task] = truth[slots[q].task]
        BY <1>2, <1>4, <1>5, <3>2
      <4> QED
        BY <1>2, <1>3, <3>2, <4>1 DEF WatchInv, SlotsAreTrue
    <3> QED
      BY <3>1, <3>2
  <2> QED
    BY <1>4, <2>1 DEF WatchInv, SlotsAreTrue
<1>10. ReadIsTrue'
  <2> SUFFICES ASSUME previous # None, NEW q \in OfWatch.slots, previous[q].busy
               PROVE  LET t == previous[q].task IN
                      /\ t \in 1 .. Len(truth') /\ previous[q].decoded <= truth'[t].tokens
                      /\ truth'[t].runs => slots'[q].task = t
    BY DEF ReadIsTrue
  <2> DEFINE t == previous[q].task
  <2>1. t \in 1 .. Len(truth) /\ previous[q].decoded <= truth[t].tokens /\ (truth[t].runs => slots[q].task = t)
    BY DEF WatchInv, ReadIsTrue
  <2>2. previous[q].decoded \in Nat
    BY WatchFacts DEF WatchInv, WatchTypeOK, WatchedSlot
  <2> QED
    BY <1>2, <1>4, <1>6, <1>7, <2>1, <2>2
<1>11. span # None => span.task \in 1 .. Len(truth)
  BY DEF WatchInv, WatchTypeOK, SpanIsTrue, ReadIsTrue, FollowedRequest
<1>12. SpanIsTrue'
  BY <1>7, <1>11 DEF WatchInv, SpanIsTrue
<1>13. BesideIsRead'
  <2> SUFFICES ASSUME NEW q \in OfWatch.slots, slots'[q].busy, truth'[slots'[q].task].beside # {}
               PROVE  previous # None /\ previous[q].busy /\ previous[q].task = slots'[q].task
    BY DEF BesideIsRead
  <2>1. slots[q].busy
    BY <1>3
  <2>2. slots[q].task \in 1 .. Len(truth)
    BY <1>1, <1>4, <2>1 DEF WatchInv, SlotsAreTrue
  <2> QED
    BY <1>4, <1>7, <2>1, <2>2 DEF WatchInv, BesideIsRead
<1>14. DraftsAreTrue'
  <2>1. DOMAIN drafts = 1 .. Len(drafts) /\ \A i \in 1 .. Len(drafts) : drafts[i].tokens \in Nat
    <3>1. drafts \in Seq(Completion)
      BY DEF WatchInv, WatchTypeOK
    <3> QED
      <4>1. DOMAIN drafts = 1 .. Len(drafts) /\ \A i \in 1 .. Len(drafts) : drafts[i] \in Completion
        BY <3>1, LenProperties, ElementOfSeq
      <4> QED
        BY <4>1 DEF Completion
  <2>2. \A i \in 1 .. Len(drafts) : drafts[i].task \in 1 .. Len(truth)
    BY DEF WatchInv, DraftsAreTrue
  <2> QED
    BY <1>2, <1>6, <1>7, <2>1, <2>2 DEF WatchInv, DraftsAreTrue, Watch!CompletionsAreTrue
<1> QED
  BY <1>8, <1>9, <1>10, <1>12, <1>13, <1>14 DEF WatchInv

LEMMA DecodeKeeps == ASSUME WatchInv, NEW s \in OfWatch.slots, Watch!Decode(s) PROVE WatchInv'
<1> DEFINE n == slots[s].task
           x == [truth[n] EXCEPT !.tokens = @ + 1]
           y == [slots[s] EXCEPT !.decoded = @ + 1]
<1>1. /\ slots[s].busy /\ slots[s].decoded < OfWatch.tokens /\ UNCHANGED <<previous, span, drafts>>
      /\ slots' = [slots EXCEPT ![s] = y] /\ truth' = [truth EXCEPT ![n] = x]
  BY DEF Watch!Decode
<1>2. slots[s] \in WatchedSlot /\ truth \in Seq(Task) /\ Len(truth) \in Nat
  BY DEF WatchInv, WatchTypeOK
<1>3. n \in 1 .. Len(truth) /\ slots[s].decoded = truth[n].tokens /\ (slots[s].busy <=> truth[n].runs)
  <2>1. n \in Nat
    BY <1>2, WatchFacts DEF WatchedSlot
  <2>2. n # 0 /\ n <= Len(truth) /\ slots[s].decoded = truth[n].tokens
    BY <1>1 DEF WatchInv, SlotsAreTrue
  <2>3. (slots[s].busy <=> truth[n].runs)
    BY <2>2 DEF WatchInv, SlotsAreTrue
  <2> QED
    BY <1>2, <2>1, <2>2, <2>3
<1>4. truth[n] \in Task
  BY <1>2, <1>3, ElementOfSeq
<1>5. x \in Task /\ x.tokens = truth[n].tokens + 1 /\ x.runs = truth[n].runs /\ x.beside = truth[n].beside
  BY <1>4, TaskSet
<1>6. y \in WatchedSlot /\ y.task = n /\ y.busy = slots[s].busy /\ y.decoded = slots[s].decoded + 1
  <2>1. slots[s].decoded + 1 \in 0 .. OfWatch.tokens
    BY <1>1, <1>2, WatchFacts DEF WatchedSlot
  <2> QED
    BY <1>2, <2>1 DEF WatchedSlot
<1>7. truth[n].tokens \in Nat
  BY <1>4, TaskSet
<1> HIDE DEF x, y
<1>8. /\ x.tokens >= truth[n].tokens /\ (x.runs => truth[n].runs) /\ (y.busy <=> x.runs)
      /\ y.decoded <= x.tokens /\ (y.busy => y.decoded = x.tokens)
  BY <1>3, <1>5, <1>6, <1>7
<1> QED
  BY <1>1, <1>5, <1>6, <1>8, OneGoesOn

LEMMA ReleaseKeeps == ASSUME WatchInv, NEW s \in OfWatch.slots, Watch!Release(s) PROVE WatchInv'
<1> DEFINE n == slots[s].task
           d == IF clears THEN 0 ELSE slots[s].decoded
           x == [truth[n] EXCEPT !.runs = FALSE]
           y == [slots[s] EXCEPT !.busy = FALSE, !.decoded = d]
<1>1. slots[s] \in WatchedSlot /\ truth \in Seq(Task) /\ Len(truth) \in Nat /\ slots \in [OfWatch.slots -> WatchedSlot]
  BY DEF WatchInv, WatchTypeOK
<1>2. /\ slots[s].busy /\ UNCHANGED <<previous, span, drafts>>
      /\ slots' = [[slots EXCEPT ![s].busy = FALSE] EXCEPT ![s].decoded = d] /\ truth' = [truth EXCEPT ![n] = x]
  BY <1>1 DEF Watch!Release, WatchedSlot
<1>3. slots' = [slots EXCEPT ![s] = y]
  BY <1>1, <1>2 DEF WatchedSlot
<1>4. n \in 1 .. Len(truth) /\ slots[s].decoded = truth[n].tokens
  BY <1>1, <1>2, WatchFacts DEF WatchInv, SlotsAreTrue, WatchedSlot
<1>5. truth[n] \in Task
  BY <1>1, <1>4, ElementOfSeq
<1>6. x \in Task /\ x.tokens = truth[n].tokens /\ ~x.runs /\ x.beside = truth[n].beside
  BY <1>5, TaskSet
<1>7. x.runs = FALSE
  BY <1>5 DEF Task
<1>8. d \in 0 .. OfWatch.tokens /\ d <= slots[s].decoded
  BY <1>1, WatchFacts DEF WatchedSlot
<1>9. y \in WatchedSlot
  <2>1. \A b \in BOOLEAN : [slots[s] EXCEPT !.busy = b, !.decoded = d] \in WatchedSlot
    <3> HIDE DEF d
    <3> QED
      BY <1>1, <1>8 DEF WatchedSlot
  <2> QED
    BY <2>1
<1>10. y.task = n /\ y.busy = FALSE /\ y.decoded = d
  BY <1>1 DEF WatchedSlot
<1>11. truth[n].tokens \in Nat
  BY <1>5, TaskSet
<1> HIDE DEF x, y, d
<1>12. x.tokens >= truth[n].tokens /\ y.decoded <= x.tokens
  BY <1>4, <1>6, <1>8, <1>10, <1>11
<1> QED
  BY <1>2, <1>3, <1>6, <1>7, <1>9, <1>10, <1>12, OneGoesOn

\* What a read adds to a request: those it was read beside.
LEMMA ReadTruth ==
    ASSUME WatchInv, Watch!Observe
    PROVE  /\ truth' \in Seq(Task) /\ Len(truth') = Len(truth) /\ Len(truth) \in Nat
           /\ \A k \in 1 .. Len(truth) :
                 /\ truth'[k].tokens = truth[k].tokens /\ truth'[k].runs = truth[k].runs
                 /\ k \notin Watch!Tasks(slots) => truth'[k] = truth[k]
                 /\ k \in Watch!Tasks(slots) => truth'[k].beside = truth[k].beside \cup (Watch!Tasks(slots) \ {k})
<1>1. truth \in Seq(Task) /\ Len(truth) \in Nat /\ DOMAIN truth = 1 .. Len(truth)
  BY LenProperties DEF WatchInv, WatchTypeOK
<1> DEFINE T == Watch!Tasks(slots)
           f == [k \in 1 .. Len(truth) |-> IF k \in T THEN [truth[k] EXCEPT !.beside = @ \cup (T \ {k})] ELSE truth[k]]
<1>2. truth' = f
  BY <1>1 DEF Watch!Observe
<1>3. T \subseteq Nat
  <2>1. \A s \in OfWatch.slots : slots[s].task \in Nat
    BY WatchFacts DEF WatchInv, WatchTypeOK, WatchedSlot
  <2> QED
    BY <2>1 DEF Watch!Tasks, Watch!Busy
<1>4. \A k \in 1 .. Len(truth) : truth[k] \in Task
  BY <1>1, ElementOfSeq
<1> HIDE DEF T
<1>5. \A x \in Task, S \in SUBSET Nat : LET y == [x EXCEPT !.beside = @ \cup S] IN
         y \in Task /\ y.tokens = x.tokens /\ y.runs = x.runs /\ y.beside = x.beside \cup S
  BY DEF Task
<1>6. f \in [1 .. Len(truth) -> Task]
  BY <1>3, <1>4, <1>5
<1>7. \A k \in 1 .. Len(truth) :
         /\ f[k].tokens = truth[k].tokens /\ f[k].runs = truth[k].runs
         /\ k \notin T => f[k] = truth[k]
         /\ k \in T => f[k].beside = truth[k].beside \cup (T \ {k})
  BY <1>3, <1>4, <1>5
<1> HIDE DEF f
<1>8. f \in Seq(Task) /\ Len(f) = Len(truth)
  BY <1>1, <1>6, TruthLength
<1> QED
  BY <1>1, <1>2, <1>7, <1>8 DEF T

\* The request followed is still the one in its slot, if it runs.
LEMMA EndedUnlessSame ==
    ASSUME WatchInv, span # None, ~Watch!IsSame(span, slots)
    PROVE  span.task \in 1 .. Len(truth) /\ ~truth[span.task].runs
<1>1. previous # None /\ previous[span.id].busy /\ span.task = previous[span.id].task /\ span.last = previous[span.id]
  BY DEF WatchInv, SpanIsTrue
<1>2. span.id \in OfWatch.slots
  BY DEF WatchInv, WatchTypeOK, FollowedRequest
<1> DEFINE t == span.task
<1>3. t \in 1 .. Len(truth) /\ span.last.decoded <= truth[t].tokens /\ (truth[t].runs => slots[span.id].task = t)
  BY <1>1, <1>2 DEF WatchInv, ReadIsTrue
<1>4. ASSUME truth[t].runs PROVE FALSE
  <2>1. slots[span.id].task = t /\ t # 0
    BY <1>3, <1>4
  <2>2. slots[span.id].busy
    BY <1>2, <1>4, <2>1 DEF WatchInv, SlotsAreTrue
  <2>3. slots[span.id].decoded = truth[t].tokens
    BY <1>2, <2>1, <2>2 DEF WatchInv, SlotsAreTrue
  <2>4. slots[span.id].decoded \in Int /\ span.last.decoded \in Int
    BY <1>1, <1>2, WatchFacts DEF WatchInv, WatchTypeOK, WatchedSlot
  <2> QED
    BY <1>3, <2>1, <2>2, <2>3, <2>4 DEF Watch!IsSame
<1> QED
  BY <1>3, <1>4

\* The completion of the request followed is true.
LEMMA DraftFacts ==
    ASSUME WatchInv, span # None, ~Watch!IsSame(span, slots)
    PROVE  LET d == Watch!Draft(span, slots) IN
           /\ d \in Completion /\ d.task = span.task /\ d.tokens <= truth[d.task].tokens
           /\ d.started /\ ~d.overlapped => truth[d.task].beside = {}
<1>1. previous # None /\ previous[span.id].busy /\ span.task = previous[span.id].task /\ span.last = previous[span.id]
      /\ (span.started /\ ~span.overlapped => truth[span.task].beside = {})
  BY DEF WatchInv, SpanIsTrue
<1>2. span.id \in OfWatch.slots /\ span.task \in Nat /\ span.started \in BOOLEAN /\ span.overlapped \in BOOLEAN
  BY DEF WatchInv, WatchTypeOK, FollowedRequest
<1>3. slots[span.id].decoded \in Nat /\ span.last.decoded \in Nat
  BY <1>1, <1>2, WatchFacts DEF WatchInv, WatchTypeOK, WatchedSlot
<1>4. span.task \in 1 .. Len(truth) /\ span.last.decoded <= truth[span.task].tokens
  BY <1>1, <1>2 DEF WatchInv, ReadIsTrue
<1>5. slots[span.id].task = span.task => slots[span.id].decoded <= truth[span.task].tokens
  BY <1>2, <1>4 DEF WatchInv, SlotsAreTrue
<1> DEFINE kept == ~slots[span.id].busy /\ slots[span.id].task = span.task /\ slots[span.id].decoded >= span.last.decoded
           final == IF kept THEN slots[span.id].decoded ELSE span.last.decoded
           over == span.overlapped \/ Watch!Busy(slots) \ {span.id} # {}
<1>6. Watch!Draft(span, slots) = [task |-> span.task, tokens |-> final, started |-> span.started, overlapped |-> over]
  BY DEF Watch!Draft
<1>7. final \in Nat /\ final <= truth[span.task].tokens
  BY <1>3, <1>4, <1>5
<1>8. over \in BOOLEAN /\ (~over => ~span.overlapped)
  OBVIOUS
<1> HIDE DEF final, over
<1> QED
  BY <1>1, <1>2, <1>6, <1>7, <1>8 DEF Completion

LEMMA TasksRun ==
    ASSUME WatchInv
    PROVE  \A k \in Watch!Tasks(slots) : k \in 1 .. Len(truth) /\ truth[k].runs
<1> SUFFICES ASSUME NEW s \in OfWatch.slots, slots[s].busy
             PROVE  slots[s].task \in 1 .. Len(truth) /\ truth[slots[s].task].runs
  BY DEF Watch!Tasks, Watch!Busy
<1>1. slots[s].task \in Nat /\ Len(truth) \in Nat
  BY WatchFacts DEF WatchInv, WatchTypeOK, WatchedSlot
<1>2. slots[s].task # 0 /\ slots[s].task <= Len(truth)
  BY DEF WatchInv, SlotsAreTrue
<1> QED
  BY <1>1, <1>2 DEF WatchInv, SlotsAreTrue

\* A completion more, or none: all are true of what was read.
LEMMA DraftsStay ==
    ASSUME WatchInv, Watch!Observe
    PROVE  /\ drafts' \in Seq(Completion) /\ DraftsAreTrue'
           /\ \A i \in 1 .. Len(drafts') : ~truth'[drafts'[i].task].runs
<1> DEFINE T == Watch!Tasks(slots)
<1>1. drafts \in Seq(Completion) /\ DOMAIN drafts = 1 .. Len(drafts) /\ Len(drafts) \in Nat
  BY LenProperties DEF WatchInv, WatchTypeOK
<1>2. /\ \A i \in 1 .. Len(drafts) :
            /\ drafts[i].task \in 1 .. Len(truth)
            /\ ~truth[drafts[i].task].runs /\ drafts[i].tokens <= truth[drafts[i].task].tokens
            /\ drafts[i].started /\ ~drafts[i].overlapped => truth[drafts[i].task].beside = {}
      /\ \A i, j \in 1 .. Len(drafts) : i # j => drafts[i].task # drafts[j].task
  BY <1>1 DEF WatchInv, DraftsAreTrue, Watch!CompletionsAreTrue
<1>3. ASSUME NEW k \in 1 .. Len(truth), ~truth[k].runs
      PROVE  truth'[k] = truth[k]
  BY <1>3, ReadTruth, TasksRun
<1>4. CASE drafts' = drafts
  <2>1. \A i \in 1 .. Len(drafts) : truth'[drafts[i].task] = truth[drafts[i].task]
    BY <1>2, <1>3
  <2> QED
    BY <1>1, <1>2, <1>4, <2>1, ReadTruth DEF DraftsAreTrue, Watch!CompletionsAreTrue
<1>5. CASE drafts' # drafts
  <2> DEFINE d == Watch!Draft(span, slots)
             n == Len(drafts) + 1
  <2>1. span # None /\ ~Watch!IsSame(span, slots) /\ drafts' = Append(drafts, d)
    BY <1>5 DEF Watch!Observe
  <2>2. /\ d \in Completion /\ d.task = span.task /\ d.tokens <= truth[d.task].tokens
        /\ (d.started /\ ~d.overlapped => truth[d.task].beside = {})
    BY <2>1, DraftFacts
  <2>3. d.task \in 1 .. Len(truth) /\ ~truth[d.task].runs
    BY <2>1, <2>2, EndedUnlessSame
  <2>4. \A i \in 1 .. Len(drafts) : drafts[i].task # d.task
    BY <2>1, <2>2 DEF WatchInv, SpanIsTrue
  <2> HIDE DEF d
  <2>5. /\ drafts' \in Seq(Completion) /\ Len(drafts') = n /\ drafts'[n] = d
        /\ \A i \in 1 .. Len(drafts) : drafts'[i] = drafts[i]
    BY <1>1, <2>1, <2>2
  <2>6. DOMAIN drafts' = 1 .. n
    BY <2>5, LenProperties
  <2>7. ASSUME NEW i \in 1 .. n
        PROVE  /\ drafts'[i].task \in 1 .. Len(truth)
               /\ ~truth'[drafts'[i].task].runs /\ drafts'[i].tokens <= truth'[drafts'[i].task].tokens
               /\ drafts'[i].started /\ ~drafts'[i].overlapped => truth'[drafts'[i].task].beside = {}
    <3>1. CASE i = n
      BY <1>3, <2>2, <2>3, <2>5, <3>1
    <3>2. CASE i \in 1 .. Len(drafts)
      BY <1>2, <1>3, <2>5, <3>2
    <3> QED
      BY <1>1, <3>1, <3>2
  <2>8. \A i, j \in 1 .. n : i # j => drafts'[i].task # drafts'[j].task
    <3> SUFFICES ASSUME NEW i \in 1 .. n, NEW j \in 1 .. n, i # j PROVE drafts'[i].task # drafts'[j].task
      OBVIOUS
    <3>1. (i = n \/ i \in 1 .. Len(drafts)) /\ (j = n \/ j \in 1 .. Len(drafts))
      BY <1>1
    <3> QED
      BY <1>2, <2>4, <2>5, <3>1
  <2> QED
    BY <2>5, <2>6, <2>7, <2>8, ReadTruth DEF DraftsAreTrue, Watch!CompletionsAreTrue
<1> QED
  BY <1>4, <1>5

LEMMA ObserveKeeps == ASSUME WatchInv, Watch!Observe PROVE WatchInv'
<1>1. previous' = slots /\ slots' = slots /\ slots \in [OfWatch.slots -> WatchedSlot] /\ slots # None
  BY WatchFacts DEF Watch!Observe, WatchInv, WatchTypeOK
<1>2. \A s \in OfWatch.slots : slots[s].task \in Nat
  BY WatchFacts DEF WatchInv, WatchTypeOK, WatchedSlot
<1>3. \A s \in OfWatch.slots : slots[s].task # 0 => slots[s].task \in 1 .. Len(truth)
  BY <1>2, ReadTruth DEF WatchInv, SlotsAreTrue
<1>4. SlotsAreTrue'
  BY <1>1, <1>3, ReadTruth DEF WatchInv, SlotsAreTrue
<1>5. ReadIsTrue'
  BY <1>1, <1>3, ReadTruth DEF WatchInv, SlotsAreTrue, ReadIsTrue
<1>6. BesideIsRead'
  BY <1>1 DEF BesideIsRead
<1>7. span' \in {None} \cup FollowedRequest /\ SpanIsTrue'
  <2>1. CASE span' = None
    BY <2>1 DEF SpanIsTrue
  <2>2. CASE span # None /\ Watch!IsSame(span, slots) /\ drafts' = drafts
             /\ span' = [span EXCEPT !.overlapped = @ \/ Watch!Busy(slots) \ {span.id} # {}, !.last = slots[span.id]]
    <3> DEFINE i == span.id
               t == span.task
               over == span.overlapped \/ Watch!Busy(slots) \ {i} # {}
    <3>1. span \in FollowedRequest /\ i \in OfWatch.slots /\ slots[i].busy /\ slots[i].task = t
      BY <2>2 DEF WatchInv, WatchTypeOK, FollowedRequest, Watch!IsSame
    <3>2. over \in BOOLEAN
      OBVIOUS
    <3>3. span' \in FollowedRequest
      <4>1. \A b \in BOOLEAN : [span EXCEPT !.overlapped = b, !.last = slots[i]] \in FollowedRequest
        BY <1>1, <3>1 DEF FollowedRequest
      <4> QED
        BY <2>2, <3>2, <4>1
    <3>4. span'.id = i /\ span'.task = t /\ span'.last = slots[i] /\ span'.started = span.started /\ (span'.overlapped <=> over)
      BY <2>2, <3>1 DEF FollowedRequest
    <3>5. t \in 1 .. Len(truth) /\ t \in Watch!Tasks(slots)
      BY <3>1, TasksRun DEF Watch!Tasks, Watch!Busy
    <3>6. ASSUME span.started, ~over
          PROVE  truth'[t].beside = {}
      <4>1. Watch!Busy(slots) \subseteq {i}
        BY <3>6
      <4>2. Watch!Tasks(slots) \subseteq {t}
        BY <3>1, <4>1 DEF Watch!Tasks
      <4>3. truth[t].beside = {}
        BY <2>2, <3>6 DEF WatchInv, SpanIsTrue
      <4> QED
        BY <3>5, <4>2, <4>3, ReadTruth
    <3>7. \A k \in 1 .. Len(drafts') : drafts'[k].task # t
      BY <2>2 DEF WatchInv, SpanIsTrue
    <3> HIDE DEF over
    <3> QED
      BY <1>1, <3>1, <3>3, <3>4, <3>6, <3>7 DEF SpanIsTrue
  <2>3. CASE \E s \in Watch!Busy(slots) : Watch!Busy(slots) = {s} /\ \E before : span' = Watch!Begun(s, slots, before)
    <3>1. PICK s \in Watch!Busy(slots) : Watch!Busy(slots) = {s} /\ \E before : span' = Watch!Begun(s, slots, before)
      BY <2>3
    <3>2. PICK before : span' = Watch!Begun(s, slots, before)
      BY <3>1
    <3> DEFINE over == before \ {s} # {}
               begun == Watch!Continuous /\ (~previous[s].busy \/ previous[s].task # slots[s].task)
               t == slots[s].task
    <3>3. span' = [id |-> s, task |-> t, last |-> slots[s], overlapped |-> over, started |-> begun]
      BY <3>2 DEF Watch!Begun
    <3>4. s \in OfWatch.slots /\ slots[s].busy /\ Watch!Tasks(slots) = {t}
      BY <3>1 DEF Watch!Busy, Watch!Tasks
    <3>5. over \in BOOLEAN /\ begun \in BOOLEAN
      BY DEF Watch!Continuous
    <3>6. begun => truth'[t].beside = {}
      <4>1. t \in 1 .. Len(truth)
        BY <3>4, TasksRun
      <4>2. begun => truth[t].beside = {}
        BY <3>4 DEF WatchInv, BesideIsRead
      <4> QED
        BY <3>4, <4>1, <4>2, ReadTruth
    <3>7. truth'[t].runs
      BY <3>4, TasksRun, ReadTruth
    <3>8. \A k \in 1 .. Len(drafts') : drafts'[k].task # t
      BY <3>7, DraftsStay
    <3> HIDE DEF over, begun
    <3>9. span' \in FollowedRequest
      BY <1>1, <1>2, <3>3, <3>4, <3>5 DEF FollowedRequest
    <3> QED
      BY <1>1, <3>3, <3>4, <3>6, <3>8, <3>9 DEF SpanIsTrue
  <2> QED
    <3> DEFINE before == IF Watch!Continuous THEN Watch!Busy(previous) ELSE {}
               followed == IF Watch!Continuous THEN span ELSE None
               busy == Watch!Busy(slots)
    <3>1. CASE followed # None /\ Watch!IsSame(followed, slots)
      BY <2>2, <3>1 DEF Watch!Observe
    <3>2. CASE ~(followed # None /\ Watch!IsSame(followed, slots)) /\ Watch!Alone(busy)
      <4>1. PICK s \in busy : busy = {s}
        BY <3>2 DEF Watch!Alone
      <4>2. (CHOOSE q \in busy : TRUE) = s
        BY <4>1
      <4>3. span' = Watch!Begun(CHOOSE q \in busy : TRUE, slots, before)
        BY <3>2 DEF Watch!Observe
      <4> QED
        BY <2>3, <4>1, <4>2, <4>3
    <3>3. CASE ~(followed # None /\ Watch!IsSame(followed, slots)) /\ ~Watch!Alone(busy)
      BY <2>1, <3>3 DEF Watch!Observe
    <3> QED
      BY <3>1, <3>2, <3>3
<1>8. WatchTypeOK'
  BY <1>1, <1>7, ReadTruth, DraftsStay DEF WatchTypeOK
<1> QED
  BY <1>4, <1>5, <1>6, <1>7, <1>8, DraftsStay DEF WatchInv

LEMMA WatchKeeps == ASSUME WatchInv, Watch!WatchNext PROVE WatchInv'
<1>1. CASE Watch!Lapse \/ Watch!Reset
  <2>1. /\ UNCHANGED <<slots, drafts, truth>>
        /\ \/ UNCHANGED <<previous, span>>
           \/ previous' = None /\ span' = None /\ Watch!Busy(slots) = {}
    BY <1>1 DEF Watch!Lapse, Watch!Reset
  <2>2. WatchTypeOK' /\ SlotsAreTrue' /\ ReadIsTrue' /\ SpanIsTrue' /\ DraftsAreTrue'
    BY <2>1 DEF WatchInv, WatchTypeOK, SlotsAreTrue, ReadIsTrue, SpanIsTrue, DraftsAreTrue, Watch!CompletionsAreTrue
  <2>3. BesideIsRead'
    BY <2>1 DEF WatchInv, BesideIsRead, Watch!Busy
  <2> QED
    BY <2>2, <2>3 DEF WatchInv
<1> QED
  BY <1>1, ObserveKeeps, LaunchKeeps, DecodeKeeps, ReleaseKeeps DEF Watch!WatchNext

WatchPart == part = "watching" => WatchInv

\* A completion is of a request that has ended and has no other, counts no token
\* that was not made, and says what it was read beside, in the system of the
\* adapters: for every number of slots, requests, tokens and reads.
THEOREM SlotsAreWatched == Spec => []CompletionsAreTrue
<1>1. Init => WatchPart
  BY WatchStarts DEF Init, WatchPart
<1>2. WatchPart /\ [Next]_vars => WatchPart'
  <2> SUFFICES ASSUME WatchPart, [Next]_vars, part' = "watching" PROVE WatchInv'
    BY DEF WatchPart
  <2>1. CASE WatchSteps
    BY <2>1, WatchKeeps DEF WatchSteps, WatchPart
  <2>2. CASE UNCHANGED vars
    BY <2>2 DEF vars, watching, WatchPart, WatchInv, WatchTypeOK, SlotsAreTrue, ReadIsTrue, SpanIsTrue, BesideIsRead,
                DraftsAreTrue, Watch!CompletionsAreTrue
  <2> QED
    BY <2>1, <2>2 DEF Next, LlamaSteps, OmlxSteps, SplashSteps, ActivitySteps, StudioSteps
<1>3. WatchPart => CompletionsAreTrue
  BY DEF WatchPart, WatchInv, DraftsAreTrue, CompletionsAreTrue
<1> QED
  BY <1>1, <1>2, <1>3, PTL DEF Spec

----------------------------------------------------------------------------
(* LmStudio.  A child that ran, or runs, is dated by its start, so that    *)
(* the next is spaced from it; and an inventory names what is loaded where *)
(* it was read.                                                            *)

IsAdapter(a) ==
    /\ a = [legacy |-> a.legacy, greetedAt |-> a.greetedAt, key |-> a.key, generation |-> a.generation]
    /\ a.greetedAt \in Int /\ a.generation \in Int

StudioTypes ==
    /\ now \in Int
    /\ IsAdapter(adapter)
    /\ record.internal \in OfStudio.internal \cup {None}
    /\ ports # None => ports.at \in Int /\ ports.value.internal \in OfStudio.internal \cup {None}
    /\ child \in [Studio!Command -> {None} \cup Studio!Children]
    /\ cached \in [Studio!Command -> {None} \cup Studio!Outcomes]

DatedByStart ==
    \A c \in Studio!Command : spawns[c] # None =>
        IF child[c] # None THEN child[c].at = spawns[c].at
        ELSE cached[c] # None /\ cached[c].at = spawns[c].at

LoadedIn(models) == {x \in OfStudio.models : models[x] \in Studio!Window}

IsInventory(inventory, models) ==
    /\ inventory = [loaded |-> inventory.loaded, loading |-> inventory.loading, countKnown |-> ~ apis.odd]
    /\ DOMAIN inventory.loaded = LoadedIn(models)

\* The read in progress, at each of its awaits.
IsAsking(r) ==
    /\ r.at \in {"v1", "v0"}
    /\ r = [at |-> r.at, began |-> r.began, wanted |-> r.wanted, v1 |-> r.v1, models |-> r.models]
    /\ r.at = "v0" /\ r.v1 # None => IsInventory(r.v1, r.models)

IsWaiting(r) ==
    /\ r = [at |-> "lms", began |-> r.began, models |-> r.models, inventory |-> r.inventory, key |-> r.key,
            port |-> r.port, blocked |-> r.blocked, waits |-> r.waits, got |-> r.got]
    /\ IsInventory(r.inventory, r.models)

StudioReadIsTrue == read # None => IsAsking(read) \/ IsWaiting(read)

StudioInv == StudioTypes /\ DatedByStart /\ StudioReadIsTrue /\ Studio!LmIsReadRightly

\* LmStudio counts as the library's theorems do.
LEMMA SameCount == \A S : Studio!Cardinality(S) = Cardinality(S) /\ Studio!IsFiniteSet(S) = IsFiniteSet(S)
BY Zenon DEF Studio!Cardinality, Cardinality, Studio!IsFiniteSet, IsFiniteSet

LEMMA StudioConstants ==
    /\ IsFiniteSet(OfStudio.models) /\ OfStudio.internal # {} /\ OfStudio.tick \subseteq Int
    /\ OfStudio.portsEvery \in Int /\ 0 < OfStudio.portsEvery
    /\ OfStudio.psMin \in Int /\ OfStudio.psEvery \in Int /\ OfStudio.psMin <= OfStudio.psEvery
    /\ OfStudio.greetingWindow \in Int
    /\ None \notin Int /\ None \notin OfStudio.internal
    /\ None \notin Studio!Children /\ None \notin Studio!Outcomes
<1> DEFINE Known == Int \cup OfStudio.internal \cup Studio!Children \cup Studio!Outcomes
<1>1. /\ Studio!IsFiniteSet(OfStudio.models) /\ OfStudio.internal # {} /\ OfStudio.tick \subseteq Nat
      /\ OfStudio.portsEvery \in Nat \ {0} /\ OfStudio.psMin <= OfStudio.psEvery
      /\ {OfStudio.psMin, OfStudio.psEvery, OfStudio.greetingWindow, OfStudio.greetingEvery} \subseteq Nat
  BY AdapterConstants, Zenon DEF Studio!LmAssumption
<1>0. None \notin Known
  BY AdapterConstants, Zenon DEF Studio!LmAssumption
<1>2. /\ OfStudio.psMin \in Nat /\ OfStudio.psEvery \in Nat /\ OfStudio.greetingWindow \in Nat
  BY <1>1
<1>3. None \notin Int /\ None \notin OfStudio.internal /\ None \notin Studio!Children /\ None \notin Studio!Outcomes
  <2> HIDE DEF Known
  <2>1. Int \subseteq Known /\ OfStudio.internal \subseteq Known /\ Studio!Children \subseteq Known /\ Studio!Outcomes \subseteq Known
    BY Zenon DEF Known
  <2> QED BY <1>0, <2>1, Zenon
<1>4. OfStudio.tick \subseteq Int /\ OfStudio.portsEvery \in Int /\ 0 < OfStudio.portsEvery
  BY <1>1
<1> QED BY <1>1, <1>2, <1>3, <1>4, SameCount

LEMMA StudioStarts == Studio!LmInit => StudioInv
<1> SUFFICES ASSUME Studio!LmInit PROVE StudioInv
  OBVIOUS
<1>1. /\ now = 0 /\ ports = None /\ read = None /\ shown = None
      /\ adapter = [legacy |-> FALSE, greetedAt |-> Studio!Never, key |-> None, generation |-> 0]
      /\ child = [c \in Studio!Command |-> None] /\ cached = [c \in Studio!Command |-> None]
      /\ spawns = [c \in Studio!Command |-> None]
  BY DEF Studio!LmInit
<1>2. record.internal \in OfStudio.internal
  <2>1. PICK r \in OfStudio.rest : app.internal = CHOOSE p \in OfStudio.internal : TRUE
    BY DEF Studio!LmInit
  <2>2. record.internal = app.internal
    BY DEF Studio!LmInit
  <2> QED BY <2>1, <2>2, StudioConstants
<1>3. StudioTypes
  BY <1>1, <1>2 DEF StudioTypes, IsAdapter, Studio!Never
<1>4. DatedByStart /\ StudioReadIsTrue
  BY <1>1 DEF DatedByStart, StudioReadIsTrue
<1>5. Studio!LmIsReadRightly
  BY <1>1 DEF Studio!LmIsReadRightly, Studio!LmsIsWanted, Studio!InventoryIsKnown
<1> QED BY <1>3, <1>4, <1>5 DEF StudioInv

\* A child that is started names the port and the generation it was asked for.
LEMMA ChildStarted ==
    ASSUME NEW p \in OfStudio.internal, NEW g \in Int, NEW t \in Int
    PROVE  /\ [port |-> p, generation |-> g, at |-> t, found |-> Studio!Found(p)] \in Studio!Children
           /\ [port |-> p, generation |-> g, at |-> t, found |-> Studio!Found(p)] # None
<1>1. Studio!Found(p) \in {None} \cup Studio!Rows
  <2>1. CASE app = None \/ app.internal # p
    BY <2>1 DEF Studio!Found
  <2>2. CASE ~ (app = None \/ app.internal # p)
    <3> DEFINE S == {x \in OfStudio.models : app.models[x] \in Studio!Window}
               F == [m \in S |-> app.models[m]]
    <3>1. F \in [S -> Studio!Window] /\ S \in SUBSET OfStudio.models
      BY DEF Studio!Window
    <3>2. F \in Studio!Rows
      BY <3>1 DEF Studio!Rows
    <3> QED BY <2>2, <3>2 DEF Studio!Found
  <2> QED BY <2>1, <2>2
<1> QED BY <1>1, StudioConstants DEF Studio!Children

\* What was read last outlives nothing that its properties rest on.
LEMMA ShownStays ==
    ASSUME Studio!InventoryIsKnown, UNCHANGED apis, shown' = shown \/ shown' = None
    PROVE  Studio!InventoryIsKnown'
BY DEF Studio!InventoryIsKnown, Studio!Window

\* A reading tells of nothing loaded, or how many, only with every row read.
LEMMA ReadingIsKnown ==
    ASSUME NEW ps, IsWaiting(read), read.port = None => ps = None,
           UNCHANGED apis, shown' = Studio!Reading(ps)
    PROVE  Studio!InventoryIsKnown'
<1> DEFINE inv == read.inventory
<1>1. /\ shown'.models = read.models /\ shown'.port = read.port
      /\ shown'.phase = Studio!PhaseOf(inv)
      /\ shown'.rows = [m \in DOMAIN inv.loaded |-> Studio!Row(inv, ps, m)]
      /\ shown'.residencyCount = IF Studio!LoadedCount(inv) = None THEN None
                                 ELSE Cardinality(DOMAIN inv.loaded \cup inv.loading)
  <2> HIDE DEF inv
  <2>1. shown' = [state |-> IF read.blocked THEN "lms_unavailable" ELSE "ready",
                  models |-> read.models, port |-> read.port, key |-> read.key,
                  phase |-> Studio!PhaseOf(inv),
                  rows |-> [m \in DOMAIN inv.loaded |-> Studio!Row(inv, ps, m)],
                  loading |-> inv.loading \ DOMAIN inv.loaded,
                  residencyCount |-> IF Studio!LoadedCount(inv) = None THEN None
                                     ELSE Studio!Cardinality(DOMAIN inv.loaded \cup inv.loading)]
    BY Zenon DEF Studio!Reading, inv
  <2> QED BY <2>1, SameCount
<1>2. /\ inv = [loaded |-> inv.loaded, loading |-> inv.loading, countKnown |-> ~ apis.odd]
      /\ DOMAIN inv.loaded = LoadedIn(read.models)
  BY DEF IsWaiting, IsInventory
<1>3. Studio!LoadedCount(inv) = IF ~ apis.odd THEN Cardinality(DOMAIN inv.loaded) ELSE None
  <2>1. inv.countKnown = (~ apis.odd)
    BY <1>2
  <2>2. CASE apis.odd
    <3>1. inv.countKnown = FALSE
      BY <2>1, <2>2
    <3> QED BY <2>2, <3>1 DEF Studio!LoadedCount
  <2>3. CASE ~ apis.odd
    <3>1. inv.countKnown
      BY <2>1, <2>3
    <3>2. Studio!LoadedCount(inv) = Cardinality(DOMAIN inv.loaded)
      BY <3>1, SameCount, Zenon DEF Studio!LoadedCount
    <3> QED BY <2>3, <3>2
  <2> QED BY <2>2, <2>3
<1>4. ASSUME shown'.phase = "not-loaded"
      PROVE  ~ apis.odd /\ \A m \in OfStudio.models : read.models[m] \notin Studio!Window
  <2>1. Studio!LoadedCount(inv) = 0
    BY <1>1, <1>4 DEF Studio!PhaseOf
  <2>2. ~ apis.odd /\ Cardinality(DOMAIN inv.loaded) = 0
    BY <1>3, <2>1, StudioConstants
  <2>3. IsFiniteSet(LoadedIn(read.models))
    BY StudioConstants, FS_Subset DEF LoadedIn
  <2>4. LoadedIn(read.models) = {}
    BY <1>2, <2>2, <2>3, FS_EmptySet
  <2> QED BY <2>2, <2>4 DEF LoadedIn
<1>5. shown'.residencyCount # None => ~ apis.odd
  BY <1>1, <1>3
<1>6. ASSUME NEW m \in DOMAIN shown'.rows, shown'.rows[m].source = "lms-ps"
      PROVE  shown'.port # None
  <2>1. shown'.rows[m] = Studio!Row(inv, ps, m)
    BY <1>1, <1>6
  <2>2. ps # None
    BY <1>6, <2>1 DEF Studio!Row
  <2> QED BY <1>1, <2>2
<1> QED BY <1>1, <1>4, <1>5, <1>6 DEF Studio!InventoryIsKnown

\* A step that leaves the adapter, its ports and its children alone.
LEMMA ChildrenStay ==
    ASSUME StudioTypes, DatedByStart, UNCHANGED <<child, cached, spawns>>
    PROVE  DatedByStart'
BY DEF DatedByStart

LEMMA WantedStays ==
    ASSUME Studio!LmsIsWanted, UNCHANGED spawns
    PROVE  Studio!LmsIsWanted'
BY DEF Studio!LmsIsWanted

LEMMA BeginKeeps ==
    ASSUME StudioInv, NEW wanted, NEW wait \in OfStudio.tick, Studio!Begin(wanted, wait)
    PROVE  StudioInv'
<1>1. now' = now + wait /\ UNCHANGED <<apis, record, ports, cached, child, spawns>>
  BY DEF Studio!Begin
<1>2. now \in Int /\ wait \in Int /\ IsAdapter(adapter)
  BY StudioConstants DEF StudioInv, StudioTypes
<1>3. IsAdapter(adapter')
  <2>1. CASE adapter' = adapter
    BY <1>2, <2>1
  <2>2. CASE adapter' = [adapter EXCEPT !.greetedAt = now']
    BY <1>1, <1>2, <2>2 DEF IsAdapter
  <2> QED BY <2>1, <2>2 DEF Studio!Begin
<1>4. StudioTypes'
  BY <1>1, <1>2, <1>3 DEF StudioInv, StudioTypes
<1>5. read' = None \/ IsAsking(read)'
  <2>1. read' = None \/ read' = [at |-> "v1", began |-> now', wanted |-> wanted, v1 |-> None, models |-> None]
    BY DEF Studio!Begin, Studio!Ends
  <2> QED BY <2>1 DEF IsAsking
<1>6. StudioReadIsTrue'
  BY <1>5 DEF StudioReadIsTrue
<1>7. shown' = None
  BY DEF Studio!Begin, Studio!Ends
<1>8. Studio!InventoryIsKnown'
  BY <1>7 DEF Studio!InventoryIsKnown
<1> QED BY <1>1, <1>4, <1>6, <1>8, ChildrenStay, WantedStays DEF StudioInv, Studio!LmIsReadRightly

LEMMA AskV1Keeps ==
    ASSUME StudioInv, NEW fails \in BOOLEAN, Studio!AskV1(fails)
    PROVE  StudioInv'
<1>1. read # None /\ read.at = "v1" /\ UNCHANGED <<now, apis, record, ports, cached, child, spawns>>
  BY DEF Studio!AskV1, Studio!outside
<1>2. IsAdapter(adapter) /\ IsAsking(read)
  <2>1. ~ IsWaiting(read)
    BY <1>1 DEF IsWaiting
  <2> QED BY <1>1, <2>1 DEF StudioInv, StudioTypes, StudioReadIsTrue
<1>3. IsAdapter(adapter')
  <2>1. adapter' = adapter \/ adapter' = [adapter EXCEPT !.legacy = @ \/ ~ apis.v1]
    BY DEF Studio!AskV1
  <2> QED BY <1>2, <2>1 DEF IsAdapter
<1>4. StudioTypes'
  BY <1>1, <1>3 DEF StudioInv, StudioTypes
<1>5. read' = None \/ IsAsking(read)'
  <2> SUFFICES ASSUME read' # None PROVE IsAsking(read)'
    OBVIOUS
  <2> DEFINE models == Studio!Answering
             v1 == IF adapter.legacy \/ ~ apis.v1 THEN None ELSE Studio!V1Of(models)
  <2>1. read' = [read EXCEPT !.at = "v0", !.models = models, !.v1 = v1]
    BY DEF Studio!AskV1, Studio!Ends
  <2>2. read' = [at |-> "v0", began |-> read.began, wanted |-> read.wanted, v1 |-> v1, models |-> models]
    BY <1>2, <2>1 DEF IsAsking
  <2>3. IsInventory(Studio!V1Of(models), models)
    BY DEF IsInventory, Studio!V1Of, LoadedIn
  <2>4. v1 # None => IsInventory(v1, models)
    BY <2>3
  <2>5. read'.v1 = v1 /\ read'.models = models /\ read'.at = "v0"
    BY <2>2
  <2>6. read'.v1 # None => IsInventory(read.v1, read.models)'
    BY <1>1, <2>4, <2>5 DEF IsInventory, LoadedIn
  <2> HIDE DEF v1, models
  <2> QED BY <2>2, <2>5, <2>6 DEF IsAsking
<1>6. StudioReadIsTrue'
  BY <1>5 DEF StudioReadIsTrue
<1>7. shown' = shown \/ shown' = None
  BY DEF Studio!AskV1, Studio!Ends
<1> QED BY <1>1, <1>4, <1>6, <1>7, ChildrenStay, WantedStays, ShownStays DEF StudioInv, Studio!LmIsReadRightly

LEMMA ChildEndsKeeps ==
    ASSUME StudioInv, NEW e \in Studio!Command, NEW fails \in BOOLEAN, Studio!ChildEnds(e, fails)
    PROVE  StudioInv'
<1> DEFINE asked == child[e]
           right == ~ fails /\ asked.found # None
           value == IF right THEN [rows |-> asked.found, port |-> asked.port] ELSE Studio!Kept(cached[e], asked.port)
           outcome == [port |-> asked.port, at |-> asked.at, generation |-> asked.generation, failed |-> ~ right, value |-> value]
<1>1. /\ asked # None /\ UNCHANGED <<now, apis, record, adapter, ports, shown, spawns>>
      /\ cached' = [cached EXCEPT ![e] = outcome] /\ child' = [child EXCEPT ![e] = None]
  BY DEF Studio!ChildEnds, Studio!outside
<1>2. child \in [Studio!Command -> {None} \cup Studio!Children] /\ cached \in [Studio!Command -> {None} \cup Studio!Outcomes]
  BY DEF StudioInv, StudioTypes
<1>3. outcome \in Studio!Outcomes
  <2>1. asked \in Studio!Children /\ (cached[e] = None \/ cached[e] \in Studio!Outcomes)
    BY <1>1, <1>2
  <2>2. asked.port \in OfStudio.internal /\ asked.generation \in Int /\ asked.at \in Int /\ (right => asked.found \in Studio!Rows)
    BY <2>1 DEF Studio!Children
  <2>3. Studio!Kept(cached[e], asked.port) \in {None} \cup [rows : Studio!Rows, port : OfStudio.internal]
    BY <2>1 DEF Studio!Kept, Studio!Outcomes
  <2>4. value \in {None} \cup [rows : Studio!Rows, port : OfStudio.internal]
    BY <2>2, <2>3
  <2>5. (~ right) \in BOOLEAN
    OBVIOUS
  <2> QED BY <2>2, <2>4, <2>5 DEF Studio!Outcomes
<1>4. StudioTypes'
  BY <1>1, <1>2, <1>3 DEF StudioInv, StudioTypes
<1>5. DatedByStart'
  <2> SUFFICES ASSUME NEW c \in Studio!Command, spawns[c] # None
               PROVE  IF child'[c] # None THEN child'[c].at = spawns[c].at
                      ELSE cached'[c] # None /\ cached'[c].at = spawns[c].at
    BY <1>1 DEF DatedByStart
  <2>1. CASE c = e
    <3>1. child'[c] = None /\ cached'[c] = outcome
      BY <1>1, <1>2, <2>1
    <3>2. asked.at = spawns[c].at
      BY <1>1, <2>1 DEF StudioInv, DatedByStart
    <3>3. outcome # None /\ outcome.at = asked.at
      BY <1>3, StudioConstants
    <3> QED BY <3>1, <3>2, <3>3
  <2>2. CASE c # e
    BY <1>1, <1>2, <2>2 DEF StudioInv, DatedByStart
  <2> QED BY <2>1, <2>2
<1>6. StudioReadIsTrue'
  <2>1. CASE read' = read
    BY <1>1, <2>1 DEF StudioInv, StudioReadIsTrue, IsAsking, IsWaiting, IsInventory
  <2>2. CASE read' # read
    <3>1. /\ read # None /\ read.at = "lms"
          /\ read' = [read EXCEPT !.waits = @ \ {e}, !.got = [@ EXCEPT ![e] = value]]
      BY <2>2 DEF Studio!ChildEnds
    <3>2. IsWaiting(read)
      BY <3>1 DEF StudioInv, StudioReadIsTrue, IsAsking
    <3>3. IsWaiting(read)'
      BY <1>1, <3>1, <3>2 DEF IsWaiting, IsInventory
    <3> QED BY <3>3 DEF StudioReadIsTrue
  <2> QED BY <2>1, <2>2
<1> QED BY <1>1, <1>4, <1>5, <1>6, WantedStays, ShownStays DEF StudioInv, Studio!LmIsReadRightly

\* The rest of a read: the list of the former API, and lms beside it.
LEMMA AskV0Keeps ==
    ASSUME StudioInv, NEW fails \in BOOLEAN, Studio!AskV0(fails)
    PROVE  StudioInv'
<1> DEFINE v0 == apis.v0 /\ ~ fails /\ Studio!Answering # None
           models == Studio!Answering
           inventory == IF read.v1 # None
                        THEN [read.v1 EXCEPT !.loading = IF v0 THEN Studio!V0Of(models).loading ELSE {}]
                        ELSE Studio!V0Of(models)
           key == IF v0 THEN Studio!StatesKey(models) ELSE Studio!InstancesKey(read.v1)
           joined == IF Studio!IsBound(Studio!PortsNow.value) /\ Studio!Greeted THEN Studio!PortsNow.value.internal ELSE None
           wanted == IF joined = None THEN {} ELSE read.wanted
           generation == IF key # adapter.key THEN adapter.generation + 1 ELSE adapter.generation
           starts(c) == child[c] = None /\ IF c = "ps" THEN Studio!PsDue(cached[c], joined, generation)
                                           ELSE Studio!EnginesDue(cached[c], joined)
           started(c) == [port |-> joined, generation |-> generation, at |-> now, found |-> Studio!Found(joined)]
<1>1. read # None /\ read.at = "v0" /\ UNCHANGED <<now, apis, record, cached>>
  BY DEF Studio!AskV0, Studio!outside
<1>2. IsAsking(read) /\ (read.v1 # None => IsInventory(read.v1, read.models))
  <2>1. ~ IsWaiting(read)
    BY <1>1 DEF IsWaiting
  <2>2. IsAsking(read)
    BY <1>1, <2>1 DEF StudioInv, StudioReadIsTrue
  <2> QED BY <1>1, <2>2 DEF IsAsking
<1>3. CASE read' = None /\ UNCHANGED <<adapter, ports, child, spawns>>
  <2>1. shown' = shown \/ shown' = None
    BY DEF Studio!AskV0, Studio!Ends
  <2>2. StudioTypes' /\ StudioReadIsTrue'
    BY <1>1, <1>3 DEF StudioInv, StudioTypes, StudioReadIsTrue
  <2> QED BY <1>1, <1>3, <2>1, <2>2, ChildrenStay, WantedStays, ShownStays DEF StudioInv, Studio!LmIsReadRightly
<1>4. CASE /\ adapter' = [adapter EXCEPT !.key = key, !.generation = generation]
           /\ ports' = Studio!PortsNow
           /\ child' = [c \in Studio!Command |-> IF c \in wanted /\ starts(c) THEN started(c) ELSE child[c]]
           /\ spawns' = [c \in Studio!Command |->
                 IF c \in wanted /\ starts(c)
                 THEN [at |-> now, spaced |-> spawns[c] = None \/ now - spawns[c].at >= OfStudio.psMin, bound |-> ports'.value.rest,
                       greeting |-> now - adapter.greetedAt, recorded |-> now - ports'.at]
                 ELSE spawns[c]]
           /\ read'.at = "lms"
           /\ read' = [at |-> "lms", began |-> read.began, models |-> read'.models, inventory |-> inventory, key |-> key,
                       port |-> joined, blocked |-> read'.blocked, waits |-> read'.waits, got |-> read'.got]
           /\ read'.models = IF read.v1 = None THEN models ELSE read.models
           /\ UNCHANGED shown
  <2>1. now \in Int /\ IsAdapter(adapter) /\ adapter.generation \in Int /\ adapter.greetedAt \in Int
    BY DEF StudioInv, StudioTypes, IsAdapter
  <2>2. generation \in Int
    BY <2>1
  <2>3. IsAdapter(adapter')
    BY <1>4, <2>1, <2>2 DEF IsAdapter
  <2>4. /\ Studio!PortsNow.at \in Int /\ now - Studio!PortsNow.at < OfStudio.portsEvery
        /\ Studio!PortsNow.value.internal \in OfStudio.internal \cup {None}
    <3>1. CASE Studio!PortsNow = [at |-> now, value |-> record]
      <4>1. Studio!PortsNow.at = now /\ Studio!PortsNow.value = record
        BY <3>1
      <4> QED BY <4>1, <2>1, StudioConstants DEF StudioInv, StudioTypes
    <3>2. CASE Studio!PortsNow = ports /\ ports # None /\ ~ (now - ports.at >= OfStudio.portsEvery)
      <4>1. ports.at \in Int /\ ports.value.internal \in OfStudio.internal \cup {None}
        BY <3>2 DEF StudioInv, StudioTypes
      <4>2. now - ports.at < OfStudio.portsEvery
        BY <2>1, <3>2, <4>1, StudioConstants
      <4> QED BY <3>2, <4>1, <4>2
    <3> QED BY <3>1, <3>2 DEF Studio!PortsNow
  <2>5. ASSUME joined # None
        PROVE  /\ joined \in OfStudio.internal
               /\ Studio!PortsNow.value.rest = OfStudio.conn
               /\ now - adapter.greetedAt <= OfStudio.greetingWindow
    BY <2>4, <2>5 DEF Studio!IsBound, Studio!Greeted
  <2>6. ASSUME NEW c \in Studio!Command, c \in wanted, starts(c)
        PROVE  child'[c] \in Studio!Children /\ child'[c] # None /\ child'[c].at = now
    <3>1. child'[c] = started(c)
      BY <1>4, <2>6
    <3>2. joined # None
      BY <2>6
    <3>3. joined \in OfStudio.internal
      BY <2>5, <3>2
    <3>4. started(c) \in Studio!Children /\ started(c) # None
      BY <2>1, <2>2, <3>3, ChildStarted
    <3> QED BY <3>1, <3>4
  <2>7. child' \in [Studio!Command -> {None} \cup Studio!Children]
    <3>1. \A c \in Studio!Command : child'[c] \in {None} \cup Studio!Children
      <4> TAKE c \in Studio!Command
      <4>1. CASE c \in wanted /\ starts(c)
        BY <2>6, <4>1
      <4>2. CASE ~ (c \in wanted /\ starts(c))
        <5>1. child'[c] = child[c]
          BY <1>4, <4>2
        <5> QED BY <5>1 DEF StudioInv, StudioTypes
      <4> QED BY <4>1, <4>2
    <3>2. child' = [c \in Studio!Command |-> child'[c]]
      BY <1>4
    <3> QED BY <3>1, <3>2
  <2>8. StudioTypes'
    BY <1>1, <1>4, <2>1, <2>3, <2>4, <2>7 DEF StudioInv, StudioTypes
  <2>9. DatedByStart'
    <3> SUFFICES ASSUME NEW c \in Studio!Command, spawns'[c] # None
                 PROVE  IF child'[c] # None THEN child'[c].at = spawns'[c].at
                        ELSE cached[c] # None /\ cached[c].at = spawns'[c].at
      BY <1>1 DEF DatedByStart
    <3>1. CASE c \in wanted /\ starts(c)
      <4>1. spawns'[c].at = now
        BY <1>4, <3>1
      <4> QED BY <2>6, <3>1, <4>1
    <3>2. CASE ~ (c \in wanted /\ starts(c))
      <4>1. child'[c] = child[c] /\ spawns'[c] = spawns[c]
        BY <1>4, <3>2
      <4> QED BY <4>1 DEF StudioInv, DatedByStart
    <3> QED BY <3>1, <3>2
  <2>10. Studio!LmsIsWanted'
    <3> SUFFICES ASSUME NEW c \in Studio!Command, spawns'[c] # None
                 PROVE  /\ spawns'[c].greeting <= OfStudio.greetingWindow
                        /\ spawns'[c].bound = OfStudio.conn /\ spawns'[c].recorded < OfStudio.portsEvery
                        /\ c = "ps" => spawns'[c].spaced
      BY DEF Studio!LmsIsWanted
    <3>1. CASE c \in wanted /\ starts(c)
      <4>1. spawns'[c] = [at |-> now, spaced |-> spawns[c] = None \/ now - spawns[c].at >= OfStudio.psMin,
                          bound |-> ports'.value.rest, greeting |-> now - adapter.greetedAt, recorded |-> now - ports'.at]
        BY <1>4, <3>1
      <4>2. joined # None
        BY <3>1
      <4>3. spawns'[c].greeting <= OfStudio.greetingWindow /\ spawns'[c].bound = OfStudio.conn
            /\ spawns'[c].recorded < OfStudio.portsEvery
        BY <1>4, <2>4, <2>5, <4>1, <4>2
      <4>4. ASSUME c = "ps" PROVE spawns[c] = None \/ now - spawns[c].at >= OfStudio.psMin
        <5> SUFFICES ASSUME spawns[c] # None PROVE now - spawns[c].at >= OfStudio.psMin
          OBVIOUS
        <5>1. child[c] = None /\ Studio!PsDue(cached[c], joined, generation)
          BY <3>1, <4>4
        <5>2. cached[c] # None /\ cached[c].at = spawns[c].at
          BY <5>1 DEF StudioInv, DatedByStart
        <5>3. cached[c].at \in Int
          BY <5>2 DEF StudioInv, StudioTypes, Studio!Outcomes
        <5>4. now - cached[c].at >= OfStudio.psEvery \/ now - cached[c].at >= OfStudio.psMin
          BY <5>1, <5>2 DEF Studio!PsDue
        <5> QED BY <2>1, <5>2, <5>3, <5>4, StudioConstants
      <4>5. spawns'[c].spaced = (spawns[c] = None \/ now - spawns[c].at >= OfStudio.psMin)
        BY <4>1
      <4>6. c = "ps" => spawns'[c].spaced
        BY <4>4, <4>5
      <4> QED BY <4>3, <4>6
    <3>2. CASE ~ (c \in wanted /\ starts(c))
      <4>1. spawns'[c] = spawns[c]
        BY <1>4, <3>2
      <4> QED BY <4>1 DEF StudioInv, Studio!LmIsReadRightly, Studio!LmsIsWanted
    <3> QED BY <3>1, <3>2
  <2>11. IsInventory(inventory, read'.models)
    <3>1. CASE read.v1 = None
      <4>1. inventory = Studio!V0Of(models) /\ read'.models = models
        BY <1>4, <3>1
      <4> QED BY <4>1 DEF IsInventory, Studio!V0Of, LoadedIn
    <3>2. CASE read.v1 # None
      <4>1. inventory = [read.v1 EXCEPT !.loading = IF v0 THEN Studio!V0Of(models).loading ELSE {}] /\ read'.models = read.models
        BY <1>4, <3>2
      <4>2. IsInventory(read.v1, read.models)
        BY <1>2, <3>2
      <4> QED BY <4>1, <4>2 DEF IsInventory
    <3> QED BY <3>1, <3>2
  <2>12. StudioReadIsTrue'
    <3>1. read'.inventory = inventory /\ read'.key = key /\ read'.port = joined /\ read'.began = read.began
      BY <1>4
    <3>2. IsInventory(read.inventory, read.models)'
      <4> HIDE DEF inventory
      <4> QED BY <1>1, <2>11, <3>1 DEF IsInventory, LoadedIn
    <3>3. IsWaiting(read)'
      <4> HIDE DEF inventory, key, joined
      <4> QED BY <1>4, <3>1, <3>2 DEF IsWaiting
    <3> QED BY <3>3 DEF StudioReadIsTrue
  <2> QED BY <1>1, <1>4, <2>8, <2>9, <2>10, <2>12, ShownStays DEF StudioInv, Studio!LmIsReadRightly
<1> QED BY <1>3, <1>4 DEF Studio!AskV0, Studio!Ends

LEMMA FinishKeeps == ASSUME StudioInv, Studio!Finish PROVE StudioInv'
<1>1. /\ read # None /\ read.at = "lms" /\ read' = None
      /\ UNCHANGED <<now, apis, record, adapter, ports, cached, child, spawns>>
  BY DEF Studio!Finish, Studio!Ends, Studio!outside
<1>2. IsWaiting(read)
  BY <1>1 DEF StudioInv, StudioReadIsTrue, IsAsking
<1>3. PICK ps : shown' = Studio!Reading(ps) /\ (read.port = None => ps = None)
  BY DEF Studio!Finish, Studio!Ends
<1>4. StudioTypes' /\ StudioReadIsTrue'
  BY <1>1 DEF StudioInv, StudioTypes, StudioReadIsTrue
<1>5. Studio!InventoryIsKnown'
  BY <1>1, <1>2, <1>3, ReadingIsKnown
<1> QED BY <1>1, <1>4, <1>5, ChildrenStay, WantedStays DEF StudioInv, Studio!LmIsReadRightly

LEMMA WorldKeeps ==
    ASSUME StudioInv, Studio!Loads \/ Studio!Quits \/ Studio!Restarts \/ Studio!Tunnels \/ Studio!Passes
    PROVE  StudioInv'
<1>1. UNCHANGED <<apis, adapter, ports, cached, child, read, shown, spawns>>
  BY DEF Studio!Loads, Studio!Quits, Studio!Restarts, Studio!Tunnels, Studio!Change, Studio!Passes, Studio!outside
<1>2. now' \in Int
  <2>1. now' = now \/ now' = now + 1
    BY DEF Studio!Loads, Studio!Quits, Studio!Restarts, Studio!Tunnels, Studio!Change, Studio!Passes
  <2> QED BY <2>1 DEF StudioInv, StudioTypes
<1>3. record'.internal \in OfStudio.internal \cup {None}
  <2>1. record' = record \/ record' = [rest |-> None, internal |-> None]
        \/ \E r \in OfStudio.rest, i \in OfStudio.internal : record' = [rest |-> r, internal |-> i]
    BY DEF Studio!Loads, Studio!Quits, Studio!Restarts, Studio!Tunnels, Studio!Passes, Studio!outside
  <2> QED BY <2>1 DEF StudioInv, StudioTypes
<1>4. StudioTypes'
  BY <1>1, <1>2, <1>3 DEF StudioInv, StudioTypes
<1>5. StudioReadIsTrue'
  BY <1>1 DEF StudioInv, StudioReadIsTrue, IsAsking, IsWaiting, IsInventory
<1> QED BY <1>1, <1>4, <1>5, ChildrenStay, WantedStays, ShownStays DEF StudioInv, Studio!LmIsReadRightly

LEMMA StudioKeeps == ASSUME StudioInv, Studio!LmNext PROVE StudioInv'
<1>1. Studio!Fault \subseteq BOOLEAN
  BY DEF Studio!Fault
<1>2. CASE Studio!Finish
  BY <1>2, FinishKeeps
<1>3. CASE Studio!Loads \/ Studio!Quits \/ Studio!Restarts \/ Studio!Tunnels \/ Studio!Passes
  BY <1>3, WorldKeeps
<1>4. CASE \E wanted \in {{}, {"ps"}, Studio!Command}, wait \in OfStudio.tick : Studio!Begin(wanted, wait)
  BY <1>4, BeginKeeps
<1>5. CASE \E fails \in Studio!Fault : Studio!AskV1(fails) \/ Studio!AskV0(fails)
  BY <1>1, <1>5, AskV1Keeps, AskV0Keeps
<1>6. CASE \E c \in Studio!Command, fails \in Studio!Fault : Studio!ChildEnds(c, fails)
  BY <1>1, <1>6, ChildEndsKeeps
<1> QED BY <1>2, <1>3, <1>4, <1>5, <1>6 DEF Studio!LmNext

StudioPart == part = "studio" => StudioInv

\* lms runs only beside an application that answered a moment ago, on the connection it
\* recorded, and not too soon after itself; "not loaded" and a count are told only of a
\* server whose every row was read: for every set of models, ports and times.
THEOREM StudioIsReadRightly == Spec => []LmIsReadRightly
<1>1. Init => StudioPart
  BY StudioStarts DEF Init, StudioPart
<1>2. StudioPart /\ [Next]_vars => StudioPart'
  <2> SUFFICES ASSUME StudioPart, [Next]_vars, part' = "studio" PROVE StudioInv'
    BY DEF StudioPart
  <2>1. CASE StudioSteps
    BY <2>1, StudioKeeps DEF StudioSteps, StudioPart
  <2>2. CASE UNCHANGED vars
    BY <2>2 DEF vars, studio, StudioPart, StudioInv, StudioTypes, IsAdapter, DatedByStart, StudioReadIsTrue, IsAsking, IsWaiting,
                IsInventory, Studio!LmIsReadRightly, Studio!LmsIsWanted, Studio!InventoryIsKnown
  <2> QED
    BY <2>1, <2>2 DEF Next, LlamaSteps, OmlxSteps, SplashSteps, ActivitySteps, WatchSteps
<1>3. StudioPart => LmIsReadRightly
  BY DEF StudioPart, StudioInv, LmIsReadRightly
<1> QED
  BY <1>1, <1>2, <1>3, PTL DEF Spec


----------------------------------------------------------------------------
(* Splash.  What a later body differs by is what the requests did since:   *)
(* while one engine runs, its counters count the requests that ended.      *)

SplashStates == {"new", "queued", "prefill", "decode", "sent", "done", "aborted"}
Engine == [state : {"ready", "stale", "recovering"}, starts : Nat, completed : Nat, cancelled : Nat, decoded : Nat]

Bodies ==
    [starts : Nat, busy : Nat, queued : Nat, completed : Nat, cancelled : Nat, decoded : Nat,
     prefilling : SUBSET Splash!Request, decoding : SUBSET Splash!Request, begun : SUBSET Splash!Request,
     active : SUBSET Splash!Request, done : SUBSET Splash!Request, state : {"ready", "stale", "recovering"}]

Replies ==
    [single : BOOLEAN, whole : BOOLEAN, output : Int, prompt : {None} \cup Splash!Request, start : {None} \cup Int, at : Int,
     touched : SUBSET Splash!Request, done : SUBSET Splash!Request]

SplashTypeOK ==
    /\ now \in Int /\ busySince \in {None} \cup Int
    /\ request \in [Splash!Request -> SplashStates] /\ tokens \in [Splash!Request -> Nat]
    /\ native \in Engine
    /\ lastPrompt \in {None} \cup [of : Splash!Request, at : Int]
    /\ drafts \in Seq(Replies)

ClosedAt(b) == b.begun \ b.active
LostAt(b) == b.begun \ (b.active \cup b.done)
DecodedAt(b) == b.decoding \cup b.done

IsBody(b) ==
    /\ b \in Bodies
    /\ b.busy = Cardinality(b.active)
    /\ b.done \cup b.active \subseteq b.begun
    /\ b.prefilling \cup b.decoding \subseteq b.active \ b.done

\* What ended stays so, also when the engine is started anew; of one engine the
\* counters tell what ended, and without a cancellation what was decoded.
Follows(a, b) ==
    /\ a.starts <= b.starts
    /\ a.begun \subseteq b.begun /\ a.done \subseteq b.done
    /\ ClosedAt(a) \subseteq ClosedAt(b) /\ LostAt(a) \subseteq LostAt(b)
    /\ a.starts = b.starts /\ b.state = "ready" =>
          /\ a.state = "ready"
          /\ b.completed = a.completed + Cardinality(b.done \ a.done)
          /\ a.cancelled <= b.cancelled
          /\ a.cancelled = b.cancelled =>
                /\ LostAt(a) = LostAt(b)
                /\ DecodedAt(a) \subseteq DecodedAt(b)
                /\ b.decoded = a.decoded + Cardinality(DecodedAt(b) \ DecodedAt(a))

\* What was told before a body.
ToldBy(told, b) ==
    \A i \in DOMAIN told :
        /\ told[i].done \subseteq b.done
        /\ told[i].prompt # None => told[i].prompt \in ClosedAt(b)

IsTold(d) ==
    /\ d.single => Cardinality(d.done) >= 1
    /\ d.whole => \E r \in d.done : d.touched = {r} /\ d.done = {r} /\ d.output = 1

PromptsAreLeft ==
    \A i, j \in DOMAIN drafts :
        drafts[i].prompt # None => drafts[i].prompt \in drafts[i].touched \/ drafts[i].prompt \notin drafts[j].done

PromptWaits ==
    lastPrompt # None =>
        /\ lastPrompt.of \in Splash!Begun
        /\ body # None => lastPrompt.of \in body.begun
        /\ \A j \in DOMAIN drafts : lastPrompt.of \notin drafts[j].done

Stands(b) == IsBody(b) /\ Follows(b, Splash!Snapshot) /\ ToldBy(drafts, b)

SplashInv ==
    /\ SplashTypeOK
    /\ \A r \in Splash!Request : request[r] \in {"decode", "sent", "done"} => tokens[r] = 1
    /\ ToldBy(drafts, Splash!Snapshot)
    /\ anchor # None => Stands(anchor)
    /\ body # None => Stands(body)
    /\ anchor # None /\ body # None => Follows(anchor, body)
    /\ \A i \in DOMAIN drafts : IsTold(drafts[i])
    /\ PromptWaits
    /\ PromptsAreLeft

\* What a body says when the requests and the engine are so.
SnapshotOf(req, eng) ==
    LET active == {r \in Splash!Request : req[r] \in {"queued", "prefill", "decode", "sent"}} IN
    [starts |-> eng.starts, busy |-> Cardinality(active),
     queued |-> Cardinality({r \in Splash!Request : req[r] = "queued"}),
     completed |-> eng.completed, cancelled |-> eng.cancelled, decoded |-> eng.decoded,
     prefilling |-> {r \in Splash!Request : req[r] = "prefill"},
     decoding |-> {r \in Splash!Request : req[r] = "decode"},
     begun |-> {r \in Splash!Request : req[r] # "new"}, active |-> active,
     done |-> {r \in Splash!Request : req[r] \in {"sent", "done"}}, state |-> eng.state]

\* Splash counts as the library's theorems do.
LEMMA SplashCount == \A S : Splash!Cardinality(S) = Cardinality(S) /\ Splash!IsFiniteSet(S) = IsFiniteSet(S)
BY Zenon DEF Splash!Cardinality, Cardinality, Splash!IsFiniteSet, IsFiniteSet

LEMMA SnapshotIs ==
    Splash!Snapshot = SnapshotOf(request, native) /\ Splash!Snapshot' = SnapshotOf(request', native')
BY SplashCount DEF Splash!Snapshot, SnapshotOf, Splash!Active, Splash!Begun

LEMMA FewRequests ==
    ASSUME NEW S \in SUBSET Splash!Request
    PROVE  IsFiniteSet(S) /\ Cardinality(S) \in Nat
<1>1. IsFiniteSet(Splash!Request)
  BY AdapterConstants, SplashCount DEF Splash!SplashAssumption
<1>2. IsFiniteSet(S)
  BY <1>1, FS_Subset
<1> QED
  BY <1>2, FS_CardinalityType

LEMMA SnapshotFacts ==
    ASSUME NEW req \in [Splash!Request -> SplashStates], NEW eng \in Engine
    PROVE  /\ IsBody(SnapshotOf(req, eng))
           /\ ClosedAt(SnapshotOf(req, eng)) = {r \in Splash!Request : req[r] \in {"done", "aborted"}}
           /\ LostAt(SnapshotOf(req, eng)) = {r \in Splash!Request : req[r] = "aborted"}
           /\ DecodedAt(SnapshotOf(req, eng)) = {r \in Splash!Request : req[r] \in {"decode", "sent", "done"}}
<1> DEFINE b == SnapshotOf(req, eng)
<1>1. b.busy \in Nat /\ b.queued \in Nat /\ b.busy = Cardinality(b.active)
  BY FewRequests DEF SnapshotOf
<1>2. /\ b.prefilling \in SUBSET Splash!Request /\ b.decoding \in SUBSET Splash!Request /\ b.begun \in SUBSET Splash!Request
      /\ b.active \in SUBSET Splash!Request /\ b.done \in SUBSET Splash!Request
  BY DEF SnapshotOf
<1>3. b.starts \in Nat /\ b.completed \in Nat /\ b.cancelled \in Nat /\ b.decoded \in Nat /\ b.state \in {"ready", "stale", "recovering"}
  BY DEF SnapshotOf, Engine
<1>4. b = [starts |-> b.starts, busy |-> b.busy, queued |-> b.queued, completed |-> b.completed, cancelled |-> b.cancelled,
           decoded |-> b.decoded, prefilling |-> b.prefilling, decoding |-> b.decoding, begun |-> b.begun,
           active |-> b.active, done |-> b.done, state |-> b.state]
  BY DEF SnapshotOf
<1>5. b \in Bodies
  <2> HIDE DEF b
  <2> QED
    BY <1>1, <1>2, <1>3, <1>4 DEF Bodies
<1>6. b.done \cup b.active \subseteq b.begun /\ b.prefilling \cup b.decoding \subseteq b.active \ b.done
  BY DEF SnapshotOf
<1>7. IsBody(b)
  BY <1>1, <1>5, <1>6 DEF IsBody
<1> QED
  BY <1>7 DEF SnapshotOf, ClosedAt, LostAt, DecodedAt, SplashStates

LEMMA FollowsItself ==
    ASSUME NEW b \in Bodies PROVE Follows(b, b)
BY FewRequests, FS_EmptySet DEF Follows, Bodies

\* A set that grew in two steps grew by as many as in each.
LEMMA GrownTwice ==
    \A A, B, C \in SUBSET Splash!Request :
        A \subseteq B /\ B \subseteq C => Cardinality(C \ A) = Cardinality(B \ A) + Cardinality(C \ B)
<1> SUFFICES ASSUME NEW A \in SUBSET Splash!Request, NEW B \in SUBSET Splash!Request, NEW C \in SUBSET Splash!Request,
                    A \subseteq B, B \subseteq C
             PROVE  Cardinality(C \ A) = Cardinality(B \ A) + Cardinality(C \ B)
  OBVIOUS
<1>1. IsFiniteSet(B \ A) /\ IsFiniteSet(C \ B)
  BY FewRequests
<1>2. (B \ A) \cup (C \ B) = C \ A /\ (B \ A) \cap (C \ B) = {}
  OBVIOUS
<1>3. Cardinality(B \ A) \in Nat /\ Cardinality(C \ B) \in Nat
  BY FewRequests
<1> QED
  BY <1>1, <1>2, <1>3, FS_Union, FS_EmptySet

LEMMA FollowsOn ==
    ASSUME NEW a, NEW b, NEW c, IsBody(a), IsBody(b), IsBody(c), Follows(a, b), Follows(b, c)
    PROVE  Follows(a, c)
<1>1. a \in Bodies /\ b \in Bodies /\ c \in Bodies
  BY DEF IsBody
<1>2. /\ a.starts \in Nat /\ b.starts \in Nat /\ c.starts \in Nat
      /\ a.completed \in Nat /\ b.completed \in Nat /\ c.completed \in Nat
      /\ a.cancelled \in Nat /\ b.cancelled \in Nat /\ c.cancelled \in Nat
      /\ a.decoded \in Nat /\ b.decoded \in Nat /\ c.decoded \in Nat
  BY <1>1 DEF Bodies
<1>3. /\ a.starts <= c.starts
      /\ a.begun \subseteq c.begun /\ a.done \subseteq c.done
      /\ ClosedAt(a) \subseteq ClosedAt(c) /\ LostAt(a) \subseteq LostAt(c)
  BY <1>2 DEF Follows
<1>4. ASSUME a.starts = c.starts, c.state = "ready"
      PROVE  /\ a.state = "ready"
             /\ c.completed = a.completed + Cardinality(c.done \ a.done)
             /\ a.cancelled <= c.cancelled
             /\ a.cancelled = c.cancelled =>
                   /\ LostAt(a) = LostAt(c)
                   /\ DecodedAt(a) \subseteq DecodedAt(c)
                   /\ c.decoded = a.decoded + Cardinality(DecodedAt(c) \ DecodedAt(a))
  <2>1. a.starts = b.starts /\ b.starts = c.starts
    BY <1>2, <1>4 DEF Follows
  <2>2. b.state = "ready" /\ a.state = "ready"
    BY <1>4, <2>1 DEF Follows
  <2>3. a.done \subseteq b.done /\ b.done \subseteq c.done
    BY DEF Follows
  <2>4. /\ a.done \in SUBSET Splash!Request /\ b.done \in SUBSET Splash!Request /\ c.done \in SUBSET Splash!Request
        /\ DecodedAt(a) \in SUBSET Splash!Request /\ DecodedAt(b) \in SUBSET Splash!Request
        /\ DecodedAt(c) \in SUBSET Splash!Request
    BY <1>1 DEF Bodies, DecodedAt
  <2>5. Cardinality(c.done \ a.done) = Cardinality(b.done \ a.done) + Cardinality(c.done \ b.done)
    BY <2>3, <2>4, GrownTwice, Zenon
  <2>6. b.completed = a.completed + Cardinality(b.done \ a.done) /\ c.completed = b.completed + Cardinality(c.done \ b.done)
    BY <1>4, <2>1, <2>2 DEF Follows
  <2>7. Cardinality(b.done \ a.done) \in Nat /\ Cardinality(c.done \ b.done) \in Nat
    BY <2>4, FewRequests
  <2>8. a.cancelled <= b.cancelled /\ b.cancelled <= c.cancelled
    BY <1>4, <2>1, <2>2 DEF Follows
  <2>9. ASSUME a.cancelled = c.cancelled
        PROVE  /\ LostAt(a) = LostAt(c)
               /\ DecodedAt(a) \subseteq DecodedAt(c)
               /\ c.decoded = a.decoded + Cardinality(DecodedAt(c) \ DecodedAt(a))
    <3>1. a.cancelled = b.cancelled /\ b.cancelled = c.cancelled
      BY <1>2, <2>8, <2>9
    <3>2. /\ LostAt(a) = LostAt(b) /\ LostAt(b) = LostAt(c)
          /\ DecodedAt(a) \subseteq DecodedAt(b) /\ DecodedAt(b) \subseteq DecodedAt(c)
          /\ b.decoded = a.decoded + Cardinality(DecodedAt(b) \ DecodedAt(a))
          /\ c.decoded = b.decoded + Cardinality(DecodedAt(c) \ DecodedAt(b))
      BY <1>4, <2>1, <2>2, <3>1 DEF Follows
    <3>3. Cardinality(DecodedAt(c) \ DecodedAt(a)) =
             Cardinality(DecodedAt(b) \ DecodedAt(a)) + Cardinality(DecodedAt(c) \ DecodedAt(b))
      BY <2>4, <3>2, GrownTwice
    <3>4. Cardinality(DecodedAt(b) \ DecodedAt(a)) \in Nat /\ Cardinality(DecodedAt(c) \ DecodedAt(b)) \in Nat
      BY <2>4, FewRequests
    <3> QED
      BY <1>2, <3>2, <3>3, <3>4
  <2> QED
    BY <1>2, <2>2, <2>5, <2>6, <2>7, <2>8, <2>9
<1> QED
  BY <1>3, <1>4 DEF Follows

\* What was told before a body was told before those that follow it.
LEMMA ToldOn ==
    ASSUME NEW told, NEW a, NEW b, ToldBy(told, a), Follows(a, b)
    PROVE  ToldBy(told, b)
BY DEF ToldBy, Follows

----------------------------------------------------------------------------
(* The server.                                                             *)

\* Requests go on: what ended stays so.
GoesOn(req, next) ==
    \A r \in Splash!Request :
        /\ req[r] # "new" => next[r] # "new"
        /\ req[r] \in {"sent", "done"} => next[r] \in {"sent", "done"}
        /\ req[r] \in {"done", "aborted"} => next[r] = req[r]

LEMMA FollowsAnew ==
    ASSUME NEW req \in [Splash!Request -> SplashStates], NEW next \in [Splash!Request -> SplashStates],
           NEW eng \in Engine, NEW after \in Engine, GoesOn(req, next), eng.starts <= after.starts
    PROVE  LET a == SnapshotOf(req, eng) b == SnapshotOf(next, after) IN
           /\ a.starts <= b.starts
           /\ a.begun \subseteq b.begun /\ a.done \subseteq b.done
           /\ ClosedAt(a) \subseteq ClosedAt(b) /\ LostAt(a) \subseteq LostAt(b)
BY SnapshotFacts DEF GoesOn, SnapshotOf

\* While the engine runs, its counters move with the requests.
NowDone(req, next) == {r \in Splash!Request : req[r] \notin {"sent", "done"} /\ next[r] \in {"sent", "done"}}
NowDecoded(req, next) ==
    {r \in Splash!Request : req[r] \notin {"decode", "sent", "done"} /\ next[r] \in {"decode", "sent", "done"}}
NoneLost(req, next) ==
    \A r \in Splash!Request :
        /\ next[r] = "aborted" => req[r] = "aborted"
        /\ req[r] \in {"decode", "sent", "done"} => next[r] \in {"decode", "sent", "done"}

Counts(req, next, eng, after) ==
    /\ eng.state = "ready"
    /\ after.completed = eng.completed + Cardinality(NowDone(req, next))
    /\ eng.cancelled <= after.cancelled
    /\ eng.cancelled = after.cancelled =>
          NoneLost(req, next) /\ after.decoded = eng.decoded + Cardinality(NowDecoded(req, next))

LEMMA FollowsInCounts ==
    ASSUME NEW req \in [Splash!Request -> SplashStates], NEW next \in [Splash!Request -> SplashStates],
           NEW eng \in Engine, NEW after \in Engine, GoesOn(req, next), eng.starts <= after.starts,
           eng.starts = after.starts /\ after.state = "ready" => Counts(req, next, eng, after)
    PROVE  Follows(SnapshotOf(req, eng), SnapshotOf(next, after))
<1> DEFINE a == SnapshotOf(req, eng)
           b == SnapshotOf(next, after)
<1>1. /\ a.starts <= b.starts
      /\ a.begun \subseteq b.begun /\ a.done \subseteq b.done
      /\ ClosedAt(a) \subseteq ClosedAt(b) /\ LostAt(a) \subseteq LostAt(b)
  BY FollowsAnew
<1>2. /\ a.starts = eng.starts /\ b.starts = after.starts /\ a.state = eng.state /\ b.state = after.state
      /\ a.completed = eng.completed /\ b.completed = after.completed
      /\ a.cancelled = eng.cancelled /\ b.cancelled = after.cancelled
      /\ a.decoded = eng.decoded /\ b.decoded = after.decoded
  BY DEF SnapshotOf
<1>3. b.done \ a.done = NowDone(req, next)
  BY DEF SnapshotOf, NowDone
<1>4. /\ DecodedAt(a) = {r \in Splash!Request : req[r] \in {"decode", "sent", "done"}}
      /\ DecodedAt(b) = {r \in Splash!Request : next[r] \in {"decode", "sent", "done"}}
      /\ LostAt(a) = {r \in Splash!Request : req[r] = "aborted"} /\ LostAt(b) = {r \in Splash!Request : next[r] = "aborted"}
  BY SnapshotFacts
<1>5. DecodedAt(b) \ DecodedAt(a) = NowDecoded(req, next)
  BY <1>4 DEF NowDecoded
<1>6. NoneLost(req, next) => LostAt(a) = LostAt(b) /\ DecodedAt(a) \subseteq DecodedAt(b)
  BY <1>1, <1>4 DEF NoneLost
<1> HIDE DEF a, b
<1>8. Follows(a, b)
  BY <1>1, <1>2, <1>3, <1>5, <1>6 DEF Follows, Counts
<1> QED
  BY <1>8 DEF a, b

\* What every step leaves of what was read and told, when the requests go on.
LEMMA SplashGoesOn ==
    ASSUME SplashInv, UNCHANGED <<body, anchor, lastPrompt, drafts>>, SplashTypeOK',
           \A r \in Splash!Request : request'[r] \in {"decode", "sent", "done"} => tokens'[r] = 1,
           Follows(Splash!Snapshot, Splash!Snapshot')
    PROVE  SplashInv'
<1>1. IsBody(Splash!Snapshot) /\ IsBody(Splash!Snapshot')
  BY SnapshotIs, SnapshotFacts DEF SplashInv, SplashTypeOK
<1>2. ASSUME NEW b, Stands(b) PROVE Follows(b, Splash!Snapshot')
  BY <1>1, <1>2, FollowsOn DEF Stands
<1>3. ToldBy(drafts, Splash!Snapshot')
  BY ToldOn DEF SplashInv
<1>4. (anchor # None => Stands(anchor))' /\ (body # None => Stands(body))'
  BY <1>2 DEF SplashInv, Stands
<1>5. Splash!Begun \subseteq Splash!Begun'
  BY DEF Follows, Splash!Snapshot
<1>6. PromptWaits'
  BY <1>5 DEF SplashInv, PromptWaits
<1>7. PromptsAreLeft'
  BY DEF SplashInv, PromptsAreLeft
<1>8. (anchor # None /\ body # None => Follows(anchor, body))' /\ \A i \in DOMAIN drafts' : IsTold(drafts'[i])
  BY DEF SplashInv
<1> QED
  BY <1>3, <1>4, <1>6, <1>7, <1>8 DEF SplashInv

\* A request that moves ends, is decoded or is lost, and is counted so.
LEMMA FollowsOne ==
    ASSUME SplashTypeOK, NEW r \in Splash!Request, NEW from \in SplashStates, NEW to \in SplashStates,
           Splash!Move(r, from, to), GoesOn(request, request'), native' \in Engine, native.state = native'.state,
           native.starts = native'.starts,
           native.state = "ready" =>
              /\ native'.completed = native.completed + IF from \notin {"sent", "done"} /\ to \in {"sent", "done"} THEN 1 ELSE 0
              /\ native'.cancelled = native.cancelled + IF to = "aborted" THEN 1 ELSE 0
              /\ native'.decoded = native.decoded + IF to = "decode" THEN 1 ELSE 0,
           to = "decode" => from = "prefill", to \in {"sent", "done"} => from \in {"decode", "sent"},
           from = "decode" => to \in {"sent", "done", "aborted"}, from # "aborted"
    PROVE  Follows(Splash!Snapshot, Splash!Snapshot')
<1>1. request \in [Splash!Request -> SplashStates] /\ native \in Engine /\ request' = [request EXCEPT ![r] = to] /\ request[r] = from
  BY DEF SplashTypeOK, Splash!Move
<1>2. request' \in [Splash!Request -> SplashStates] /\ request'[r] = to /\ \A x \in Splash!Request : x # r => request'[x] = request[x]
  BY <1>1
<1>3. NowDone(request, request') = IF from \notin {"sent", "done"} /\ to \in {"sent", "done"} THEN {r} ELSE {}
  BY <1>1, <1>2 DEF NowDone
<1>4. to # "aborted" => NowDecoded(request, request') = IF to = "decode" THEN {r} ELSE {}
  BY <1>1, <1>2 DEF NowDecoded
<1>5. /\ Cardinality({}) = 0 /\ Cardinality({r}) = 1
      /\ native.cancelled \in Nat /\ native.starts \in Nat
  BY <1>1, FS_EmptySet, FS_Singleton DEF Engine
<1>6. Cardinality(NowDone(request, request')) = IF from \notin {"sent", "done"} /\ to \in {"sent", "done"} THEN 1 ELSE 0
  BY <1>3, <1>5
<1>7. to # "aborted" => Cardinality(NowDecoded(request, request')) = IF to = "decode" THEN 1 ELSE 0
  BY <1>4, <1>5
<1>8. to # "aborted" => NoneLost(request, request')
  BY <1>1, <1>2 DEF NoneLost, GoesOn
<1>9. native.starts <= native'.starts /\ (native.state = "ready" => native.cancelled <= native'.cancelled
                                          /\ (native.cancelled = native'.cancelled => to # "aborted"))
  BY <1>5
<1>10. Follows(SnapshotOf(request, native), SnapshotOf(request', native'))
  BY <1>1, <1>2, <1>6, <1>7, <1>8, <1>9, FollowsInCounts DEF Counts
<1> QED
  BY <1>10, SnapshotIs

\* The steps of the server leave what the adapter knows; a request that moves is
\* prefilled, decoded or ended, or aborted.
LEMMA SplashServer ==
    ASSUME SplashInv, NEW r \in Splash!Request,
           Splash!Submit(r) \/ Splash!Prefill(r) \/ Splash!Decode(r) \/ Splash!Complete(r) \/ Splash!Sent(r) \/ Splash!Abort(r)
    PROVE  SplashInv'
<1> USE DEF SplashStates
<1>1. SplashTypeOK /\ \A x \in Splash!Request : request[x] \in {"decode", "sent", "done"} => tokens[x] = 1
  BY DEF SplashInv
<1>2. /\ native \in Engine /\ request \in [Splash!Request -> SplashStates] /\ tokens \in [Splash!Request -> Nat]
      /\ native.completed \in Nat /\ native.cancelled \in Nat /\ native.decoded \in Nat /\ native.starts \in Nat
  BY <1>1 DEF SplashTypeOK, Engine
<1>3. ASSUME NEW from \in SplashStates, NEW to \in SplashStates, Splash!Move(r, from, to), tokens' = tokens,
             to = "decode" => FALSE, to \in {"sent", "done"} => from \in {"decode", "sent"}
      PROVE  /\ request' \in [Splash!Request -> SplashStates] /\ tokens' \in [Splash!Request -> Nat]
             /\ \A x \in Splash!Request : request'[x] \in {"decode", "sent", "done"} => tokens'[x] = 1
  BY <1>1, <1>2, <1>3 DEF Splash!Move
<1>4. ASSUME UNCHANGED <<now, busySince, lastPrompt, drafts>>, native' \in Engine,
             request' \in [Splash!Request -> SplashStates], tokens' \in [Splash!Request -> Nat]
      PROVE  SplashTypeOK'
  BY <1>1, <1>4 DEF SplashTypeOK
<1>5. ASSUME NEW from \in SplashStates, NEW to \in SplashStates, Splash!Move(r, from, to), from \notin {"done", "aborted"},
             to # "new", from = "sent" => to = "done"
      PROVE  GoesOn(request, request')
  BY <1>2, <1>5 DEF GoesOn, Splash!Move
<1>6. CASE Splash!Submit(r)
  <2>1. Splash!Move(r, "new", "queued") /\ UNCHANGED <<now, tokens, native, body, anchor, busySince, lastPrompt, drafts>>
    BY <1>6 DEF Splash!Submit, Splash!Adapter
  <2>2. Follows(Splash!Snapshot, Splash!Snapshot')
    BY <1>1, <1>2, <1>5, <2>1, FollowsOne
  <2> QED
    BY <1>2, <1>3, <1>4, <2>1, <2>2, SplashGoesOn
<1>7. CASE Splash!Prefill(r)
  <2>1. Splash!Move(r, "queued", "prefill") /\ UNCHANGED <<now, tokens, native, body, anchor, busySince, lastPrompt, drafts>>
    BY <1>7 DEF Splash!Prefill, Splash!Adapter
  <2>2. Follows(Splash!Snapshot, Splash!Snapshot')
    BY <1>1, <1>2, <1>5, <2>1, FollowsOne
  <2> QED
    BY <1>2, <1>3, <1>4, <2>1, <2>2, SplashGoesOn
<1>8. CASE Splash!Decode(r)
  <2>1. /\ Splash!Move(r, "prefill", "decode") /\ tokens' = [tokens EXCEPT ![r] = 1]
        /\ native' = [native EXCEPT !.decoded = @ + 1] /\ UNCHANGED <<now, body, anchor, busySince, lastPrompt, drafts>>
    BY <1>8 DEF Splash!Decode, Splash!Adapter
  <2>2. /\ native' \in Engine /\ native'.starts = native.starts /\ native'.state = native.state
        /\ native'.completed = native.completed /\ native'.cancelled = native.cancelled
        /\ native'.decoded = native.decoded + 1
    BY <1>2, <2>1 DEF Engine
  <2>3. Follows(Splash!Snapshot, Splash!Snapshot')
    BY <1>1, <1>2, <1>5, <2>1, <2>2, FollowsOne
  <2>4. /\ request' \in [Splash!Request -> SplashStates] /\ tokens' \in [Splash!Request -> Nat]
        /\ \A x \in Splash!Request : request'[x] \in {"decode", "sent", "done"} => tokens'[x] = 1
    BY <1>1, <1>2, <2>1 DEF Splash!Move
  <2> QED
    BY <1>4, <2>1, <2>2, <2>3, <2>4, SplashGoesOn
<1>9. CASE Splash!Complete(r)
  <2>1. PICK to \in {"sent", "done"} : Splash!Move(r, "decode", to)
    BY <1>9 DEF Splash!Complete
  <2>2. native' = [native EXCEPT !.completed = @ + 1] /\ UNCHANGED <<now, tokens, body, anchor, busySince, lastPrompt, drafts>>
    BY <1>9 DEF Splash!Complete, Splash!Adapter
  <2>3. /\ native' \in Engine /\ native'.starts = native.starts /\ native'.state = native.state
        /\ native'.completed = native.completed + 1 /\ native'.cancelled = native.cancelled
        /\ native'.decoded = native.decoded
    BY <1>2, <2>2 DEF Engine
  <2>4. Follows(Splash!Snapshot, Splash!Snapshot')
    BY <1>1, <1>2, <1>5, <2>1, <2>3, FollowsOne
  <2> QED
    BY <1>3, <1>4, <2>1, <2>2, <2>3, <2>4, SplashGoesOn
<1>10. CASE Splash!Sent(r)
  <2>1. Splash!Move(r, "sent", "done") /\ UNCHANGED <<now, tokens, native, body, anchor, busySince, lastPrompt, drafts>>
    BY <1>10 DEF Splash!Sent, Splash!Adapter
  <2>2. Follows(Splash!Snapshot, Splash!Snapshot')
    BY <1>1, <1>2, <1>5, <2>1, FollowsOne
  <2> QED
    BY <1>2, <1>3, <1>4, <2>1, <2>2, SplashGoesOn
<1>11. CASE Splash!Abort(r)
  <2>1. /\ Splash!Move(r, request[r], "aborted") /\ request[r] \in {"queued", "prefill", "decode"}
        /\ native' = [native EXCEPT !.cancelled = @ + 1] /\ UNCHANGED <<now, tokens, body, anchor, busySince, lastPrompt, drafts>>
    BY <1>11 DEF Splash!Abort, Splash!Adapter, Splash!Flight, Splash!Move
  <2>2. /\ native' \in Engine /\ native'.starts = native.starts /\ native'.state = native.state
        /\ native'.completed = native.completed /\ native'.cancelled = native.cancelled + 1
        /\ native'.decoded = native.decoded
    BY <1>2, <2>1 DEF Engine
  <2>3. Follows(Splash!Snapshot, Splash!Snapshot')
    BY <1>1, <1>2, <1>5, <2>1, <2>2, FollowsOne
  <2> QED
    BY <1>3, <1>4, <2>1, <2>2, <2>3, SplashGoesOn
<1> QED
  BY <1>6, <1>7, <1>8, <1>9, <1>10, <1>11

\* The engine fails or is started anew, time passes, a read fails: nothing is told.
LEMMA SplashFaults ==
    ASSUME SplashInv,
           Splash!Fail \/ Splash!Recover \/ Splash!Tick \/ Splash!ReadFails \/ Splash!HoldEnds \/ Splash!Lapse
    PROVE  SplashInv'
<1> USE DEF SplashStates
<1>1. SplashTypeOK /\ \A x \in Splash!Request : request[x] \in {"decode", "sent", "done"} => tokens[x] = 1
  BY DEF SplashInv
<1>2. /\ native \in Engine /\ request \in [Splash!Request -> SplashStates] /\ native.starts \in Nat
      /\ OfSplash.lead \in Nat
  BY <1>1, AdapterConstants DEF SplashTypeOK, Engine, Splash!SplashAssumption
<1>3. CASE Splash!Fail
  <2>1. PICK state \in {"stale", "recovering"} : native' = [native EXCEPT !.state = state]
    BY <1>3 DEF Splash!Fail
  <2>2. /\ request' = [x \in Splash!Request |-> IF x \in Splash!Flight THEN "aborted" ELSE request[x]]
        /\ UNCHANGED <<now, tokens, body, anchor, busySince, lastPrompt, drafts>>
    BY <1>3 DEF Splash!Fail, Splash!Adapter
  <2>3. native' \in Engine /\ native'.state # "ready" /\ native'.starts = native.starts
    BY <1>2, <2>1 DEF Engine
  <2>4. request' \in [Splash!Request -> SplashStates] /\ GoesOn(request, request')
    BY <1>2, <2>2 DEF GoesOn, Splash!Flight
  <2>5. Follows(SnapshotOf(request, native), SnapshotOf(request', native'))
    BY <1>2, <2>3, <2>4, FollowsInCounts
  <2>6. SplashTypeOK' /\ \A x \in Splash!Request : request'[x] \in {"decode", "sent", "done"} => tokens'[x] = 1
    BY <1>1, <1>2, <2>2, <2>3, <2>4 DEF SplashTypeOK, Splash!Flight
  <2> QED
    BY <2>2, <2>5, <2>6, SnapshotIs, SplashGoesOn
<1>4. CASE Splash!Recover
  <2>1. /\ native' = [state |-> "ready", starts |-> native.starts + 1, completed |-> 0, cancelled |-> 0, decoded |-> 0]
        /\ UNCHANGED <<now, request, tokens, body, anchor, busySince, lastPrompt, drafts>>
    BY <1>4 DEF Splash!Recover, Splash!Adapter
  <2>2. native' \in Engine /\ native'.starts = native.starts + 1
    BY <1>2, <2>1 DEF Engine
  <2>3. GoesOn(request, request')
    BY <2>1 DEF GoesOn
  <2>4. Follows(SnapshotOf(request, native), SnapshotOf(request', native'))
    BY <1>2, <2>1, <2>2, <2>3, FollowsInCounts
  <2>5. SplashTypeOK' /\ \A x \in Splash!Request : request'[x] \in {"decode", "sent", "done"} => tokens'[x] = 1
    BY <1>1, <2>1, <2>2 DEF SplashTypeOK
  <2> QED
    BY <2>1, <2>4, <2>5, SnapshotIs, SplashGoesOn
<1>5. CASE Splash!Tick \/ Splash!HoldEnds \/ Splash!Lapse
  <2>1. UNCHANGED <<request, tokens, native, body, anchor, busySince, lastPrompt, drafts>> /\ (now' = now \/ now' = now + 1 \/ now' = now + OfSplash.lead + 1)
    BY <1>5 DEF Splash!Tick, Splash!HoldEnds, Splash!Lapse, Splash!Adapter
  <2>2. SplashTypeOK' /\ \A x \in Splash!Request : request'[x] \in {"decode", "sent", "done"} => tokens'[x] = 1
    BY <1>1, <1>2, <2>1 DEF SplashTypeOK
  <2>3. Follows(Splash!Snapshot, Splash!Snapshot')
    BY <1>2, <2>1, SnapshotIs, SnapshotFacts, FollowsItself DEF IsBody
  <2> QED
    BY <2>1, <2>2, <2>3, SplashGoesOn
<1>6. CASE Splash!ReadFails
  <2>1. body' = None /\ UNCHANGED <<now, request, tokens, native, anchor, busySince, lastPrompt, drafts>>
    BY <1>6 DEF Splash!ReadFails
  <2>2. SplashTypeOK' /\ Splash!Snapshot' = Splash!Snapshot /\ Splash!Begun' = Splash!Begun
    BY <1>1, <2>1, SnapshotIs DEF SplashTypeOK, Splash!Begun
  <2>3. PromptWaits' /\ PromptsAreLeft'
    BY <2>1, <2>2 DEF SplashInv, PromptWaits, PromptsAreLeft
  <2> QED
    BY <1>1, <2>1, <2>2, <2>3 DEF SplashInv, Stands
<1> QED
  BY <1>3, <1>4, <1>5, <1>6

\* A body that is asked for says how things are.
LEMMA SplashAsks ==
    ASSUME SplashInv, Splash!Ask PROVE SplashInv'
<1>1. body' = Splash!Snapshot /\ UNCHANGED <<now, request, tokens, native, anchor, busySince, lastPrompt, drafts>>
  BY DEF Splash!Ask
<1>2. SplashTypeOK' /\ Splash!Snapshot' = Splash!Snapshot /\ Splash!Begun' = Splash!Begun
  BY <1>1, SnapshotIs DEF SplashInv, SplashTypeOK, Splash!Begun
<1>3. IsBody(Splash!Snapshot)
  BY SnapshotIs, SnapshotFacts DEF SplashInv, SplashTypeOK
<1>4. Stands(body)'
  BY <1>1, <1>2, <1>3, FollowsItself DEF SplashInv, Stands, IsBody
<1>5. body'.begun = Splash!Begun
  BY <1>1 DEF Splash!Snapshot
<1>6. PromptWaits' /\ PromptsAreLeft'
  BY <1>1, <1>2, <1>5 DEF SplashInv, PromptWaits, PromptsAreLeft
<1>7. (anchor # None => Stands(anchor))' /\ (anchor # None /\ body # None => Follows(anchor, body))'
  BY <1>1, <1>2 DEF SplashInv, Stands
<1> QED
  BY <1>1, <1>2, <1>4, <1>6, <1>7 DEF SplashInv

LEMMA SplashStarts == Splash!SplashInit => SplashInv
<1> SUFFICES ASSUME Splash!SplashInit PROVE SplashInv
  OBVIOUS
<1> USE DEF Splash!SplashInit
<1>1. DOMAIN drafts = {} /\ drafts \in Seq(Replies) /\ native \in Engine
  BY DEF Engine
<1>2. SplashTypeOK
  BY <1>1 DEF SplashTypeOK, SplashStates
<1> QED
  BY <1>1, <1>2 DEF SplashInv, ToldBy, PromptWaits, PromptsAreLeft

\* The last prompt is of a request that was being read when a body was made, and so of
\* none that was told before it.
LEMMA PromptIsLater ==
    ASSUME SplashInv, body # None, Splash!Prompt(body) # None
    PROVE  /\ Splash!Prompt(body) \in [of : Splash!Request, at : Int]
           /\ Splash!Prompt(body).of \in body.begun
           /\ \A j \in DOMAIN drafts : Splash!Prompt(body).of \notin drafts[j].done
<1>1. IsBody(body) /\ ToldBy(drafts, body) /\ now \in Int
  BY DEF SplashInv, Stands, SplashTypeOK
<1>2. CASE Splash!Prompt(body) = lastPrompt
  BY <1>2 DEF SplashInv, PromptWaits, SplashTypeOK
<1>3. CASE Splash!Prompt(body) # lastPrompt
  <2> DEFINE r == CHOOSE x \in body.prefilling : TRUE
  <2>1. Splash!Prompt(body) = [of |-> r, at |-> now] /\ Splash!Cardinality(body.prefilling) = 1
    BY <1>3 DEF Splash!Prompt
  <2>2. body.prefilling # {} /\ body.prefilling \subseteq Splash!Request
    BY <1>1, <2>1, SplashCount, FS_EmptySet DEF IsBody, Bodies
  <2>3. r \in body.prefilling
    BY <2>2
  <2>4. r \in Splash!Request /\ r \in body.begun /\ r \notin body.done
    BY <1>1, <2>2, <2>3 DEF IsBody
  <2> HIDE DEF r
  <2> QED
    BY <1>1, <2>1, <2>4 DEF ToldBy
<1> QED
  BY <1>2, <1>3

\* The completion of a span.
Spanned == Splash!Completion(anchor, body)
Given ==
    IF Splash!Prompt(body) # None /\ Spanned.whole /\ Spanned.output > 0 /\ Spanned.start # None
       /\ Splash!Prompt(body).at >= Spanned.start - OfSplash.lead
    THEN [Spanned EXCEPT !.prompt = Splash!Prompt(body).of] ELSE Spanned

\* A body tells of a completion, is where the next span starts, or goes by.
LEMMA ReceivedIs ==
    ASSUME SplashInv, Splash!Receive
    PROVE  /\ body # None /\ body' = None /\ UNCHANGED <<now, request, tokens, native>>
           /\ anchor' \in {anchor, body} /\ busySince' \in {None, now, busySince}
           /\ \/ drafts' = drafts /\ lastPrompt' \in {lastPrompt, Splash!Prompt(body)}
              \/ /\ anchor # None /\ Splash!Comparable(anchor, body) /\ body.state = "ready" /\ body.busy = 0
                 /\ anchor' = body /\ lastPrompt' = None /\ drafts' = drafts \o <<Given>>
<1>1. drafts \in Seq(Replies) /\ body # None /\ body' = None /\ UNCHANGED <<now, request, tokens, native>>
  BY DEF SplashInv, SplashTypeOK, Splash!Receive
<1>2. CASE body.state # "ready"
  BY <1>1, <1>2 DEF Splash!Receive
<1>3. CASE body.state = "ready"
  <2> DEFINE restarted == lapsed \/ anchor = None \/ ~Splash!Comparable(anchor, body)
             new == IF restarted \/ body.busy > 0 \/ body.completed = anchor.completed THEN <<>> ELSE <<Spanned>>
             given(d) == IF Splash!Prompt(body) # None /\ d.whole /\ d.output > 0 /\ d.start # None
                            /\ Splash!Prompt(body).at >= d.start - OfSplash.lead
                         THEN [d EXCEPT !.prompt = Splash!Prompt(body).of] ELSE d
  <2>1. /\ anchor' = IF ~restarted /\ body.busy > 0 THEN anchor ELSE body
        /\ busySince' = IF body.busy = 0 THEN None ELSE IF restarted \/ busySince = None THEN now ELSE busySince
        /\ drafts' = drafts \o [i \in DOMAIN new |-> given(new[i])]
        /\ lastPrompt' = Splash!PromptAfter(new)
    BY <1>3, Zenon DEF Splash!Receive, Spanned
  <2>2. given(Spanned) = Given
    BY DEF Given
  <2>3. CASE restarted \/ body.busy > 0 \/ body.completed = anchor.completed
    <3>1. new = <<>>
      BY <2>3
    <3>2. [i \in DOMAIN new |-> given(new[i])] = <<>>
      BY <3>1
    <3>3. drafts' = drafts /\ lastPrompt' = Splash!Prompt(body)
      BY <1>1, <2>1, <3>1, <3>2 DEF Splash!PromptAfter
    <3>4. anchor' \in {anchor, body} /\ busySince' \in {None, now, busySince}
      BY <2>1
    <3> HIDE DEF restarted, new, given
    <3> QED
      BY <1>1, <3>3, <3>4
  <2>4. CASE ~(restarted \/ body.busy > 0 \/ body.completed = anchor.completed)
    <3>1. new = <<Spanned>> /\ new # <<>>
      BY <2>4
    <3>2. DOMAIN new = {1} /\ new[1] = Spanned
      BY <3>1
    <3> HIDE DEF new, given
    <3>3. [i \in DOMAIN new |-> given(new[i])] = <<given(Spanned)>>
      BY <3>2
    <3>4. drafts' = drafts \o <<Given>> /\ lastPrompt' = None
      BY <2>1, <2>2, <3>1, <3>3 DEF Splash!PromptAfter
    <3>5. body.busy = 0
      BY <1>1, <2>4 DEF SplashInv, Stands, IsBody, Bodies
    <3>6. /\ anchor # None /\ Splash!Comparable(anchor, body) /\ anchor' = body
          /\ busySince' \in {None, now, busySince}
      BY <2>1, <2>4, <3>5
    <3> HIDE DEF restarted
    <3> QED
      BY <1>1, <1>3, <3>4, <3>5, <3>6
  <2> QED
    BY <2>3, <2>4
<1> QED
  BY <1>2, <1>3

\* The span between two idle bodies of one engine that ends in one completion is of
\* that request, whatever came and went between them.
LEMMA SpannedIs ==
    ASSUME SplashInv, body # None, anchor # None, Splash!Comparable(anchor, body), body.state = "ready", body.busy = 0
    PROVE  /\ Given \in Replies /\ IsTold(Given)
           /\ Given.done = body.done \ (anchor.done \ anchor.active)
           /\ Given.prompt # None => Splash!Prompt(body) # None /\ Given.prompt = Splash!Prompt(body).of /\ Given.whole
           /\ Given.whole => Given.done = Given.touched
           /\ body.active = {}
<1>1. IsBody(body) /\ IsBody(anchor) /\ Follows(anchor, body) /\ now \in Int /\ busySince \in {None} \cup Int
  BY DEF SplashInv, Stands, SplashTypeOK
<1>2. body \in Bodies /\ anchor \in Bodies
  BY <1>1 DEF IsBody
<1>3. /\ body.busy \in Nat /\ body.completed \in Nat /\ body.decoded \in Nat /\ anchor.completed \in Nat /\ anchor.decoded \in Nat
      /\ body.active \in SUBSET Splash!Request /\ anchor.active \in SUBSET Splash!Request
      /\ body.begun \in SUBSET Splash!Request /\ anchor.begun \in SUBSET Splash!Request
      /\ body.done \in SUBSET Splash!Request /\ anchor.done \in SUBSET Splash!Request /\ anchor.busy \in Nat
  BY <1>2 DEF Bodies
<1>4. body.active = {}
  BY <1>1, <1>3, FewRequests, FS_EmptySet DEF IsBody
<1>5. anchor.busy = 0 => anchor.active = {}
  BY <1>1, <1>3, FewRequests, FS_EmptySet DEF IsBody
<1>6. /\ body.completed = anchor.completed + Cardinality(body.done \ anchor.done)
      /\ anchor.cancelled = body.cancelled =>
            /\ LostAt(anchor) = LostAt(body)
            /\ DecodedAt(anchor) \subseteq DecodedAt(body)
            /\ body.decoded = anchor.decoded + Cardinality(DecodedAt(body) \ DecodedAt(anchor))
  BY <1>1 DEF Follows, Splash!Comparable
<1>7. /\ Spanned.single = Splash!IsSingle(anchor, body) /\ Spanned.whole = (Splash!IsSingle(anchor, body) /\ anchor.busy = 0)
      /\ Spanned.output = body.decoded - anchor.decoded /\ Spanned.prompt = None
      /\ Spanned.touched = (body.begun \ anchor.begun) \cup anchor.active
      /\ Spanned.done = body.done \ (anchor.done \ anchor.active)
      /\ Spanned.start = busySince /\ Spanned.at = now
  BY DEF Spanned, Splash!Completion
<1>8. Spanned \in Replies
  <2>1. Spanned.single \in BOOLEAN /\ Spanned.whole \in BOOLEAN
    BY <1>7, Zenon DEF Splash!IsSingle
  <2>2. Spanned = [single |-> Spanned.single, whole |-> Spanned.whole, output |-> Spanned.output, prompt |-> Spanned.prompt,
                   start |-> Spanned.start, at |-> Spanned.at, touched |-> Spanned.touched, done |-> Spanned.done]
    BY DEF Spanned, Splash!Completion
  <2>3. /\ Spanned.output \in Int /\ Spanned.prompt \in {None} \cup Splash!Request /\ Spanned.start \in {None} \cup Int
        /\ Spanned.at \in Int /\ Spanned.touched \in SUBSET Splash!Request /\ Spanned.done \in SUBSET Splash!Request
    BY <1>1, <1>3, <1>7
  <2> QED
    BY <2>1, <2>2, <2>3 DEF Replies
<1>9. Spanned.single => Cardinality(body.done \ anchor.done) = 1 /\ anchor.cancelled = body.cancelled
  <2>1. Cardinality(body.done \ anchor.done) \in Nat
    BY <1>3, FewRequests
  <2>2. Spanned.single => body.completed - anchor.completed = 1 /\ anchor.cancelled = body.cancelled
    BY <1>7, Zenon DEF Splash!IsSingle
  <2> QED
    BY <1>3, <1>6, <2>1, <2>2
<1>10. Spanned.single => Cardinality(Spanned.done) >= 1
  <2>1. body.done \ anchor.done \in SUBSET Spanned.done /\ Spanned.done \in SUBSET Splash!Request
    BY <1>3, <1>7
  <2>2. IsFiniteSet(Spanned.done)
    BY <2>1, FewRequests
  <2>3. Cardinality(body.done \ anchor.done) <= Cardinality(Spanned.done)
    BY <2>1, <2>2, FS_Subset
  <2>4. Cardinality(Spanned.done) \in Nat
    BY <2>1, FewRequests
  <2> QED
    BY <1>9, <2>3, <2>4
<1>11. ASSUME Spanned.whole
       PROVE  \E r \in Spanned.done : Spanned.touched = {r} /\ Spanned.done = {r} /\ Spanned.output = 1
  <2>1. Spanned.single /\ anchor.active = {}
    BY <1>5, <1>7, <1>11, Zenon
  <2>2. PICK r : body.done \ anchor.done = {r}
    <3>1. IsFiniteSet(body.done \ anchor.done)
      BY <1>3, FewRequests
    <3> QED
      BY <1>9, <2>1, <3>1, FS_Singleton
  <2>3. LostAt(anchor) = LostAt(body) /\ body.decoded = anchor.decoded + Cardinality(DecodedAt(body) \ DecodedAt(anchor))
    BY <1>6, <1>9, <2>1
  <2>4. anchor.done \subseteq anchor.begun /\ body.done \subseteq body.begun /\ anchor.begun \subseteq body.begun
    BY <1>1 DEF IsBody, Follows
  <2>5. body.begun = LostAt(body) \cup body.done /\ anchor.begun = LostAt(anchor) \cup anchor.done /\ LostAt(body) \cap body.done = {}
    BY <1>4, <2>1, <2>4 DEF LostAt
  <2>6. body.begun \ anchor.begun = {r}
    BY <2>2, <2>3, <2>5
  <2>7. Spanned.done = {r} /\ Spanned.touched = {r}
    BY <1>7, <2>1, <2>2, <2>6
  <2>8. DecodedAt(body) \ DecodedAt(anchor) = {r}
    <3>1. DecodedAt(body) = body.done /\ DecodedAt(anchor) = anchor.done
      BY <1>1, <1>4, <2>1 DEF IsBody, DecodedAt
    <3> QED
      BY <2>2, <3>1
  <2>9. Spanned.output = 1
    <3>1. Cardinality({r}) = 1
      BY FS_Singleton
    <3>2. Cardinality(DecodedAt(body) \ DecodedAt(anchor)) = 1
      BY <2>8, <3>1, Zenon
    <3>3. body.decoded = anchor.decoded + 1
      BY <2>3, <3>2
    <3> QED
      BY <1>3, <1>7, <3>3
  <2> QED
    BY <2>7, <2>9
<1>12. IsTold(Spanned)
  BY <1>10, <1>11 DEF IsTold
<1>13. CASE Given = Spanned
  BY <1>4, <1>7, <1>8, <1>11, <1>12, <1>13
<1>14. CASE Given # Spanned
  <2>1. /\ Splash!Prompt(body) # None /\ Spanned.whole
        /\ Given = [Spanned EXCEPT !.prompt = Splash!Prompt(body).of]
    BY <1>14 DEF Given
  <2>2. Splash!Prompt(body).of \in Splash!Request
    BY <2>1, PromptIsLater
  <2> HIDE DEF Spanned
  <2>3. /\ Given \in Replies /\ Given.single = Spanned.single /\ Given.whole = Spanned.whole /\ Given.output = Spanned.output
        /\ Given.touched = Spanned.touched /\ Given.done = Spanned.done /\ Given.prompt = Splash!Prompt(body).of
    BY <1>8, <2>1, <2>2 DEF Replies
  <2>4. IsTold(Given)
    BY <1>12, <2>3 DEF IsTold
  <2> QED
    BY <1>4, <1>7, <1>11, <2>1, <2>3, <2>4
<1> QED
  BY <1>13, <1>14

LEMMA SplashReceives ==
    ASSUME SplashInv, Splash!Receive PROVE SplashInv'
<1>1. /\ body # None /\ body' = None /\ UNCHANGED <<now, request, tokens, native>>
      /\ anchor' \in {anchor, body} /\ busySince' \in {None, now, busySince}
  BY ReceivedIs
<1>2. /\ SplashTypeOK /\ Stands(body) /\ (anchor # None => Stands(anchor) /\ Follows(anchor, body))
      /\ ToldBy(drafts, Splash!Snapshot)
  BY <1>1 DEF SplashInv
<1>3. IsBody(body) /\ Follows(body, Splash!Snapshot) /\ ToldBy(drafts, body)
  BY <1>2 DEF Stands
<1>4. Splash!Snapshot' = Splash!Snapshot /\ Splash!Begun' = Splash!Begun
  BY <1>1, SnapshotIs DEF Splash!Begun
<1>5. body.begun \subseteq Splash!Begun
  BY <1>3 DEF Follows, Splash!Snapshot
<1>6. CASE drafts' = drafts /\ lastPrompt' \in {lastPrompt, Splash!Prompt(body)}
  <2>1. lastPrompt' # None =>
           /\ lastPrompt' \in [of : Splash!Request, at : Int] /\ lastPrompt'.of \in Splash!Begun
           /\ \A j \in DOMAIN drafts : lastPrompt'.of \notin drafts[j].done
    <3>1. CASE lastPrompt' = lastPrompt
      BY <1>2, <3>1 DEF SplashInv, PromptWaits, SplashTypeOK
    <3>2. CASE lastPrompt' = Splash!Prompt(body)
      BY <1>1, <1>5, <3>2, PromptIsLater
    <3> QED
      BY <1>6, <3>1, <3>2
  <2>2. SplashTypeOK'
    BY <1>1, <1>2, <1>6, <2>1 DEF SplashTypeOK
  <2>3. PromptWaits' /\ PromptsAreLeft'
    BY <1>1, <1>4, <1>6, <2>1 DEF PromptWaits, PromptsAreLeft, SplashInv
  <2>4. (anchor # None => Stands(anchor))'
    BY <1>1, <1>2, <1>4, <1>6 DEF Stands
  <2> QED
    BY <1>1, <1>2, <1>4, <1>6, <2>2, <2>3, <2>4 DEF SplashInv
<1>7. CASE /\ anchor # None /\ Splash!Comparable(anchor, body) /\ body.state = "ready" /\ body.busy = 0
           /\ anchor' = body /\ lastPrompt' = None /\ drafts' = drafts \o <<Given>>
  <2> DEFINE n == Len(drafts) + 1
  <2>1. /\ Given \in Replies /\ IsTold(Given)
        /\ Given.done = body.done \ (anchor.done \ anchor.active)
        /\ Given.prompt # None => Splash!Prompt(body) # None /\ Given.prompt = Splash!Prompt(body).of /\ Given.whole
        /\ Given.whole => Given.done = Given.touched
        /\ body.active = {}
    BY <1>1, <1>7, SpannedIs
  <2>2. drafts \in Seq(Replies) /\ Len(drafts) \in Nat /\ DOMAIN drafts = 1 .. Len(drafts)
    BY <1>2 DEF SplashTypeOK
  <2>3. /\ drafts' \in Seq(Replies) /\ DOMAIN drafts' = 1 .. n /\ drafts'[n] = Given
        /\ \A i \in DOMAIN drafts : drafts'[i] = drafts[i]
    BY <1>7, <2>1, <2>2
  <2>4. \A i \in DOMAIN drafts' : i \in DOMAIN drafts \/ i = n
    BY <2>2, <2>3
  <2> HIDE DEF n
  <2>5. Given.prompt # None => /\ Given.prompt \in body.begun
                               /\ \A j \in DOMAIN drafts : Given.prompt \notin drafts[j].done
    BY <1>1, <2>1, PromptIsLater
  <2>6. ToldBy(drafts', body)
    <3>1. Given.done \subseteq body.done /\ (Given.prompt # None => Given.prompt \in ClosedAt(body))
      BY <2>1, <2>5 DEF ClosedAt
    <3> QED
      BY <1>3, <2>3, <2>4, <3>1 DEF ToldBy
  <2>7. ToldBy(drafts', Splash!Snapshot)
    BY <1>3, <2>6, ToldOn
  <2>8. \A i \in DOMAIN drafts' : IsTold(drafts'[i])
    BY <2>1, <2>3, <2>4 DEF SplashInv
  <2>9. SplashTypeOK'
    BY <1>1, <1>2, <1>7, <2>3 DEF SplashTypeOK
  <2>10. ASSUME NEW i \in DOMAIN drafts, drafts[i].prompt # None PROVE drafts[i].prompt \notin Given.done
    <3>1. drafts[i].prompt \in anchor.begun \ anchor.active
      BY <1>2, <1>7, <2>10 DEF Stands, ToldBy, ClosedAt
    <3>2. LostAt(anchor) \subseteq LostAt(body)
      BY <1>2, <1>7 DEF Follows
    <3> QED
      BY <2>1, <3>1, <3>2 DEF LostAt
  <2>11. PromptsAreLeft'
    <3> SUFFICES ASSUME NEW i \in DOMAIN drafts', NEW j \in DOMAIN drafts', drafts'[i].prompt # None
                 PROVE  drafts'[i].prompt \in drafts'[i].touched \/ drafts'[i].prompt \notin drafts'[j].done
      BY DEF PromptsAreLeft
    <3>1. CASE i \in DOMAIN drafts /\ j \in DOMAIN drafts
      BY <2>3, <3>1 DEF SplashInv, PromptsAreLeft
    <3>2. CASE i \in DOMAIN drafts /\ j = n
      BY <2>3, <2>10, <3>2
    <3>3. CASE i = n /\ j \in DOMAIN drafts
      BY <2>3, <2>5, <3>3
    <3>4. CASE i = n /\ j = n
      BY <2>1, <2>3, <3>4
    <3> QED
      BY <2>4, <3>1, <3>2, <3>3, <3>4
  <2>12. PromptWaits'
    BY <1>7 DEF PromptWaits
  <2>13. Stands(anchor)'
    BY <1>3, <1>4, <1>7, <2>6 DEF Stands
  <2> QED
    BY <1>1, <1>2, <1>4, <2>7, <2>8, <2>9, <2>11, <2>12, <2>13 DEF SplashInv
<1> QED
  BY <1>6, <1>7, ReceivedIs

LEMMA SplashKeeps == ASSUME SplashInv, Splash!SplashNext PROVE SplashInv'
BY SplashServer, SplashFaults, SplashAsks, SplashReceives DEF Splash!SplashNext

LEMMA SplashRepliesAreTold == SplashInv => Splash!RepliesAreTold
<1> SUFFICES ASSUME SplashInv PROVE Splash!RepliesAreTold
  OBVIOUS
<1>1. ASSUME NEW i \in DOMAIN drafts
      PROVE  /\ drafts[i].single => Splash!Cardinality(drafts[i].done) >= 1
             /\ drafts[i].whole => \E r \in drafts[i].done : drafts[i].touched = {r} /\ drafts[i].output = tokens[r]
  <2>1. IsTold(drafts[i]) /\ drafts[i].done \subseteq Splash!Snapshot.done
    BY DEF SplashInv, ToldBy
  <2>2. \A r \in Splash!Snapshot.done : tokens[r] = 1
    BY DEF SplashInv, Splash!Snapshot
  <2> QED
    BY <2>1, <2>2, SplashCount DEF IsTold
<1>2. ASSUME NEW i \in DOMAIN drafts, drafts[i].prompt # None
      PROVE  drafts[i].prompt \in drafts[i].touched \/ \A j \in DOMAIN drafts : drafts[i].prompt \notin drafts[j].done
  BY <1>2 DEF SplashInv, PromptsAreLeft
<1> QED
  BY <1>1, <1>2 DEF Splash!RepliesAreTold

SplashPart == part = "splash" => SplashInv

\* A reply that is given counts of its own is the one request that touched the span,
\* with its counts, and a prompt it is given is its own or of a request no reply was told
\* of, in the system of the adapters: however many requests begin, end, are aborted or
\* lost with their engine between two bodies.
THEOREM RepliesAreToldRightly == Spec => []RepliesAreTold
<1>1. Init => SplashPart
  BY SplashStarts DEF Init, SplashPart
<1>2. SplashPart /\ [Next]_vars => SplashPart'
  <2> SUFFICES ASSUME SplashPart, [Next]_vars, part' = "splash" PROVE SplashInv'
    BY DEF SplashPart
  <2>1. CASE SplashSteps
    BY <2>1, SplashKeeps DEF SplashSteps, SplashPart
  <2>2. CASE UNCHANGED vars
    <3>1. part = "splash" /\ UNCHANGED <<now, request, tokens, native, body, anchor, busySince, lastPrompt, drafts>>
      BY <2>2 DEF vars, splash
    <3>2. Splash!Snapshot' = Splash!Snapshot /\ Splash!Begun' = Splash!Begun
      BY <3>1, SnapshotIs DEF Splash!Begun
    <3> QED
      BY <3>1, <3>2 DEF SplashPart, SplashInv, SplashTypeOK, Stands, PromptWaits, PromptsAreLeft
  <2> QED
    BY <2>1, <2>2 DEF Next, LlamaSteps, OmlxSteps, WatchSteps, ActivitySteps, StudioSteps
<1>3. SplashPart => RepliesAreTold
  BY SplashRepliesAreTold DEF SplashPart, RepliesAreTold
<1> QED
  BY <1>1, <1>2, <1>3, PTL DEF Spec

----------------------------------------------------------------------------
(* Activity.  The lines of the current child that nobody has read yet lead *)
(* from the requests its lines have told of so far to how far LM Studio is *)
(* with each, and the tracker has tallied exactly what was told.           *)

Tags == Activity!Models
Asked == OfActivity.requests
Stages == {"idle", "started", "streaming", "summarised", "over", "failed", "broken"}
Kinds == {"started", "streaming", "done", "prediction", "finished", "failed"}
Told == [kind : Kinds, of : Asked]
Attributions == [model : {None} \cup Tags, start : {None} \cup Asked, overlapped : BOOLEAN]
Completions == [told : Attributions, of : Asked, blind : BOOLEAN]
Tallies == [starts : Seq(Asked), streamed : Nat, overlapped : BOOLEAN]

\* The lines of a request come in this order.
Rank(kind) == IF kind = "started" THEN 0 ELSE IF kind = "streaming" THEN 1 ELSE IF kind = "done" THEN 2 ELSE 3
Reached(s) ==
    IF s = "idle" THEN -1 ELSE IF s = "started" THEN 0 ELSE IF s = "streaming" THEN 1
    ELSE IF s = "summarised" THEN 2 ELSE 3

\* A line tells of a step LM Studio has taken, of a kind the request is for.
LineFits(line, at) ==
    LET s == at[line.of] IN
    /\ Rank(line.kind) <= Reached(s)
    /\ line.kind \in {"streaming", "finished"} => line.of \in OfActivity.streams
    /\ line.kind = "prediction" => line.of \notin OfActivity.streams
    /\ line.kind = "streaming" => s \notin {"started", "failed"}
    /\ line.kind = "finished" => s = "over"
    /\ line.kind = "failed" => s \in {"failed", "broken"}

InOrder(lines) ==
    \A i, j \in DOMAIN lines : i < j /\ lines[i].of = lines[j].of => Rank(lines[i].kind) < Rank(lines[j].kind)

\* The first line of a request not told of yet is its start.
StartsFirst(lines, told) ==
    \A j \in DOMAIN lines :
        IF lines[j].kind = "started" THEN lines[j].of \notin told
        ELSE lines[j].of \in told \/ \E i \in DOMAIN lines : i < j /\ lines[i] = [kind |-> "started", of |-> lines[j].of]

LinesFit(lines, told, at) ==
    /\ lines \in Seq(Told)
    /\ \A i \in DOMAIN lines : LineFits(lines[i], at)
    /\ InOrder(lines)
    /\ StartsFirst(lines, told)

Waits(lines, kind, r) == \E i \in DOMAIN lines : lines[i] = [kind |-> kind, of |-> r]

\* Nothing in flight that writes to the child goes untold.
NoneMissed(lines, told, at) ==
    \A r \in Asked : at[r] \in {"started", "streaming", "summarised"} => r \in told \/ Waits(lines, "started", r)

\* The requests of a tag its tally may hold as announced to stream.
Announced(m, lines, told, at) ==
    {r \in told : /\ OfActivity.modelOf[r] = m /\ r \in OfActivity.streams
                  /\ at[r] \notin {"started", "failed"} /\ ~Waits(lines, "streaming", r)}

ToldOf(m, told) == {r \in told : OfActivity.modelOf[r] = m}
Unbroken(m, at) == \A r \in Asked : OfActivity.modelOf[r] = m => at[r] # "broken"

Heard == IF child = None THEN <<>> ELSE pipes[child]

ActivityTypeOK ==
    /\ stage \in [Asked -> Stages]
    /\ pipes \in Seq(Seq(Told))
    /\ child \in {None} \cup DOMAIN pipes
    /\ entries \in [Tags -> Tallies]
    /\ open \in SUBSET Asked /\ blind \in BOOLEAN
    /\ recent \in {None} \cup Attributions
    /\ pending \in Seq(Completions)

\* A tally alone in flight since its start is of one request.
Tallied(e) ==
    /\ e.starts = <<>> => e = Activity!Idle
    /\ ~e.overlapped => Len(e.starts) <= 1

TallyFits(m, e, lines, told, missed, at) ==
    /\ Tallied(e)
    /\ Unbroken(m, at) => /\ Len(e.starts) <= Cardinality(ToldOf(m, told))
                          /\ e.streamed <= Cardinality(Announced(m, lines, told, at))
    /\ ~missed => Len(e.starts) >= Cardinality(ToldOf(m, told))
    /\ ~missed /\ ~e.overlapped /\ e.starts # <<>> => told \subseteq {Head(e.starts)}

ActivityInv ==
    /\ ActivityTypeOK
    /\ \A r \in open : stage[r] # "idle"
    /\ LinesFit(Heard, open, stage)
    /\ child = None => \A m \in Tags : entries[m] = Activity!Idle
    /\ child # None /\ port = app => NoneMissed(Heard, open, stage)
    /\ \A m \in Tags : TallyFits(m, entries[m], Heard, open, blind, stage)
    /\ Activity!CompletionsAreOwn

ActivityFacts ==
    /\ IsFiniteSet(Asked) /\ OfActivity.streams \subseteq Asked
    /\ OfActivity.pending \in Nat /\ None \notin Nat

\* Activity counts as the library's theorems do.
LEMMA ActivityCount == \A S : Activity!Cardinality(S) = Cardinality(S) /\ Activity!IsFiniteSet(S) = IsFiniteSet(S)
BY Zenon DEF Activity!Cardinality, Cardinality, Activity!IsFiniteSet, IsFiniteSet

LEMMA ActivityConstants == ActivityFacts
BY AdapterConstants, ActivityCount DEF Activity!ActivityAssumption, ActivityFacts, Asked

LEMMA FewAsked ==
    ASSUME NEW S \in SUBSET Asked
    PROVE  IsFiniteSet(S) /\ Cardinality(S) \in Nat
<1>1. IsFiniteSet(S)
  BY ActivityConstants, FS_Subset DEF ActivityFacts
<1> QED
  BY <1>1, FS_CardinalityType

LEMMA MoreAsked ==
    ASSUME NEW S \in SUBSET Asked, NEW T \in SUBSET Asked, S \subseteq T
    PROVE  Cardinality(S) <= Cardinality(T)
BY FewAsked, FS_Subset

\* One more request and one less.
LEMMA OneMore ==
    \A S \in SUBSET Asked, r \in Asked :
        /\ r \notin S => Cardinality(S \cup {r}) = Cardinality(S) + 1
        /\ r \in S => Cardinality(S \ {r}) = Cardinality(S) - 1 /\ Cardinality(S) >= 1
<1> SUFFICES ASSUME NEW S \in SUBSET Asked, NEW r \in Asked
             PROVE  /\ r \notin S => Cardinality(S \cup {r}) = Cardinality(S) + 1
                    /\ r \in S => Cardinality(S \ {r}) = Cardinality(S) - 1 /\ Cardinality(S) >= 1
  BY Zenon
<1>1. IsFiniteSet(S) /\ Cardinality(S) \in Nat /\ Cardinality(S \ {r}) \in Nat
  BY FewAsked
<1>2. Cardinality(S \cup {r}) = IF r \in S THEN Cardinality(S) ELSE Cardinality(S) + 1
  BY <1>1, FS_AddElement
<1>3. Cardinality(S \ {r}) = IF r \in S THEN Cardinality(S) - 1 ELSE Cardinality(S)
  BY <1>1, FS_RemoveElement
<1> QED
  BY <1>1, <1>2, <1>3

----------------------------------------------------------------------------
(* Lines written and lines read.                                           *)

\* What LM Studio does with a request, and the line it writes of it.
Goes(r, from, to, kind) ==
    \/ kind = "started" /\ from = "idle" /\ to = "started"
    \/ kind = "streaming" /\ from = "started" /\ to = "streaming" /\ r \in OfActivity.streams
    \/ kind = "done" /\ from = (IF r \in OfActivity.streams THEN "streaming" ELSE "started") /\ to = "summarised"
    \/ kind = "finished" /\ from = "summarised" /\ to = "over" /\ r \in OfActivity.streams
    \/ kind = "prediction" /\ from = "summarised" /\ to = "over" /\ r \notin OfActivity.streams
    \/ kind = "failed" /\ from = "started" /\ to = "failed"
    \/ kind = "failed" /\ from = "streaming" /\ to = "broken"

LEMMA GoesFacts ==
    ASSUME NEW r \in Asked, NEW at \in [Asked -> Stages], NEW to, NEW kind, Goes(r, at[r], to, kind)
    PROVE  /\ to \in Stages /\ kind \in Kinds
           /\ Reached(at[r]) < Rank(kind) /\ Rank(kind) = Reached(to)
           /\ LineFits([kind |-> kind, of |-> r], [at EXCEPT ![r] = to])
           /\ \A line \in Told : LineFits(line, at) => LineFits(line, [at EXCEPT ![r] = to])
           /\ kind = "started" <=> at[r] = "idle"
           /\ kind = "started" => at[r] = "idle"
           /\ kind # "started" => at[r] \in {"started", "streaming", "summarised"}
<1> DEFINE next == [at EXCEPT ![r] = to]
<1>1. to \in Stages /\ kind \in Kinds
  BY DEF Goes, Stages, Kinds
<1>2. Reached(at[r]) < Rank(kind) /\ Rank(kind) = Reached(to)
  BY DEF Goes, Reached, Rank
<1>3. /\ kind = "started" <=> at[r] = "idle"
      /\ kind # "started" => at[r] \in {"started", "streaming", "summarised"}
  BY DEF Goes
<1>4. next \in [Asked -> Stages] /\ next[r] = to /\ \A q \in Asked : q # r => next[q] = at[q]
  BY <1>1
<1> HIDE DEF next
<1>5. LineFits([kind |-> kind, of |-> r], next)
  <2> DEFINE line == [kind |-> kind, of |-> r]
  <2>1. line.kind = kind /\ line.of = r
    OBVIOUS
  <2> HIDE DEF line
  <2>2. next[line.of] = to
    BY <1>4, <2>1
  <2>3. LineFits(line, next)
    BY <1>2, <2>1, <2>2 DEF Goes, LineFits, Reached
  <2> QED
    BY <2>3 DEF line
<1>6. ASSUME NEW line \in Told, LineFits(line, at) PROVE LineFits(line, next)
  <2>1. CASE line.of # r
    BY <1>4, <1>6, <2>1 DEF LineFits, Told
  <2>2. CASE line.of = r
    <3>1. Rank(line.kind) <= Reached(at[r])
      BY <1>6, <2>2 DEF LineFits
    <3>2. Rank(line.kind) <= Reached(to)
      BY <1>2, <3>1 DEF Goes, Reached, Rank
    <3>3. line.kind \notin {"finished", "failed"}
      BY <3>1 DEF Goes, Reached, Rank
    <3>4. line.kind = "streaming" => to \notin {"started", "failed"}
      BY <1>6, <2>2, <3>1 DEF Goes, Reached, Rank
    <3> QED
      BY <1>4, <1>6, <2>2, <3>2, <3>3, <3>4 DEF LineFits
  <2> QED
    BY <2>1, <2>2
<1> QED
  BY <1>1, <1>2, <1>3, <1>5, <1>6 DEF next

LEMMA LineWritten ==
    ASSUME NEW told \in SUBSET Asked, NEW at \in [Asked -> Stages], NEW lines, LinesFit(lines, told, at),
           \A q \in told : at[q] # "idle",
           NEW r \in Asked, NEW to, NEW kind, Goes(r, at[r], to, kind),
           at[r] # "idle" => r \in told \/ Waits(lines, "started", r)
    PROVE  LinesFit(Append(lines, [kind |-> kind, of |-> r]), told, [at EXCEPT ![r] = to])
<1> DEFINE line == [kind |-> kind, of |-> r]
           next == [at EXCEPT ![r] = to]
           all == Append(lines, line)
           n == Len(lines)
<1>1. line \in Told /\ line.kind = kind /\ line.of = r
  BY GoesFacts DEF Told
<1>2. LineFits(line, next) /\ \A l \in Told : LineFits(l, at) => LineFits(l, next)
  BY GoesFacts
<1> HIDE DEF line, next
<1>3. lines \in Seq(Told) /\ n \in Nat /\ DOMAIN lines = 1 .. n
  BY DEF LinesFit
<1>4. all \in Seq(Told) /\ DOMAIN all = 1 .. n + 1 /\ all[n + 1] = line /\ \A i \in 1 .. n : all[i] = lines[i] /\ lines[i] \in Told
  BY <1>1, <1>3
<1> HIDE DEF all, n
<1>5. \A i \in DOMAIN all : i \in 1 .. n \/ i = n + 1
  BY <1>3, <1>4
<1>6. \A i \in DOMAIN all : LineFits(all[i], next)
  BY <1>2, <1>3, <1>4, <1>5 DEF LinesFit
<1>7. ASSUME NEW i \in 1 .. n, lines[i].of = r PROVE Rank(lines[i].kind) < Rank(kind)
  <2>1. Rank(lines[i].kind) <= Reached(at[r])
    BY <1>3, <1>7 DEF LinesFit, LineFits
  <2>2. Reached(at[r]) < Rank(kind)
    BY GoesFacts
  <2> QED
    BY <2>1, <2>2 DEF Reached, Rank
<1>8. InOrder(all)
  <2> SUFFICES ASSUME NEW i \in DOMAIN all, NEW j \in DOMAIN all, i < j, all[i].of = all[j].of
               PROVE  Rank(all[i].kind) < Rank(all[j].kind)
    BY DEF InOrder
  <2>1. i \in 1 .. n
    BY <1>3, <1>4
  <2>2. CASE j \in 1 .. n
    BY <1>3, <1>4, <2>1, <2>2 DEF LinesFit, InOrder
  <2>3. CASE j = n + 1
    BY <1>1, <1>4, <1>7, <2>1, <2>3
  <2> QED
    BY <1>5, <2>2, <2>3
<1>9. StartsFirst(all, told)
  <2> SUFFICES ASSUME NEW j \in DOMAIN all
               PROVE  IF all[j].kind = "started" THEN all[j].of \notin told
                      ELSE all[j].of \in told
                           \/ \E i \in DOMAIN all : i < j /\ all[i] = [kind |-> "started", of |-> all[j].of]
    BY DEF StartsFirst
  <2>1. CASE j \in 1 .. n
    <3>1. IF lines[j].kind = "started" THEN lines[j].of \notin told
          ELSE lines[j].of \in told
               \/ \E i \in 1 .. n : i < j /\ lines[i] = [kind |-> "started", of |-> lines[j].of]
      BY <1>3, <2>1 DEF LinesFit, StartsFirst
    <3> QED
      BY <1>3, <1>4, <2>1, <3>1
  <2>2. CASE j = n + 1
    <3>1. kind = "started" => r \notin told
      BY GoesFacts
    <3>2. kind # "started" => r \in told \/ \E i \in 1 .. n : lines[i] = [kind |-> "started", of |-> r]
      BY <1>3, GoesFacts DEF Waits
    <3>3. all[j].kind = kind /\ all[j].of = r
      BY <1>1, <1>4, <2>2
    <3>4. ASSUME kind # "started", r \notin told
          PROVE  \E i \in DOMAIN all : i < j /\ all[i] = [kind |-> "started", of |-> r]
      <4>1. PICK i \in 1 .. n : lines[i] = [kind |-> "started", of |-> r]
        BY <3>2, <3>4
      <4>2. i \in DOMAIN all /\ i < j /\ all[i] = lines[i]
        BY <1>3, <1>4, <2>2
      <4> QED
        BY <4>1, <4>2
    <3> QED
      BY <3>1, <3>3, <3>4
  <2> QED
    BY <1>5, <2>1, <2>2
<1> QED
  BY <1>4, <1>6, <1>8, <1>9 DEF LinesFit, all, line, next

LEMMA LineLost ==
    ASSUME NEW told \in SUBSET Asked, NEW at \in [Asked -> Stages], NEW lines, LinesFit(lines, told, at),
           NEW r \in Asked, NEW to, NEW kind, Goes(r, at[r], to, kind)
    PROVE  LinesFit(lines, told, [at EXCEPT ![r] = to])
<1>1. \A l \in Told : LineFits(l, at) => LineFits(l, [at EXCEPT ![r] = to])
  BY GoesFacts
<1>2. lines \in Seq(Told) /\ \A i \in DOMAIN lines : lines[i] \in Told
  BY DEF LinesFit
<1> QED
  BY <1>1, <1>2 DEF LinesFit

\* Reading a line: who is told of afterwards.
ToldAfter(told, line) ==
    IF line.kind = "started" THEN told \cup {line.of}
    ELSE IF line.kind \in {"prediction", "finished", "failed"} THEN told \ {line.of}
    ELSE told

LEMMA LineRead ==
    ASSUME NEW told \in SUBSET Asked, NEW at \in [Asked -> Stages], NEW lines, LinesFit(lines, told, at), lines # <<>>
    PROVE  LET line == Head(lines) IN
           /\ line \in Told /\ LineFits(line, at)
           /\ line.kind = "started" <=> line.of \notin told
           /\ ToldAfter(told, line) \in SUBSET Asked
           /\ LinesFit(Tail(lines), ToldAfter(told, line), at)
           /\ \A k \in Kinds : \A q \in Asked :
                 Waits(lines, k, q) <=> [kind |-> k, of |-> q] = line \/ Waits(Tail(lines), k, q)
           /\ ~Waits(Tail(lines), line.kind, line.of)
           /\ Rank(line.kind) = 3 => ~Waits(Tail(lines), "streaming", line.of)
<1> DEFINE line == Head(lines)
           rest == Tail(lines)
           n == Len(lines)
           after == ToldAfter(told, line)
<1>1. lines \in Seq(Told) /\ n \in Nat /\ n >= 1 /\ DOMAIN lines = 1 .. n
  BY DEF LinesFit
<1>2. line = lines[1] /\ line \in Told /\ line.of \in Asked /\ line.kind \in Kinds
  <2>1. line = lines[1] /\ line \in Told
    BY <1>1
  <2> HIDE DEF line
  <2> QED
    BY <2>1 DEF Told
<1>3. rest \in Seq(Told) /\ DOMAIN rest = 1 .. n - 1 /\ \A i \in 1 .. n - 1 : rest[i] = lines[i + 1] /\ i + 1 \in DOMAIN lines /\ lines[i + 1] \in Told
  BY <1>1
<1> HIDE DEF line, rest, n
<1>4. LineFits(line, at)
  BY <1>1, <1>2 DEF LinesFit
<1>5. line.kind = "started" <=> line.of \notin told
  <2>1. 1 \in DOMAIN lines /\ ~\E i \in DOMAIN lines : i < 1
    BY <1>1
  <2>2. IF lines[1].kind = "started" THEN lines[1].of \notin told ELSE lines[1].of \in told
    BY <2>1 DEF LinesFit, StartsFirst
  <2> QED
    BY <1>2, <2>2
<1>6. after \in SUBSET Asked
  BY <1>2 DEF ToldAfter
<1>7. \A i \in DOMAIN rest : LineFits(rest[i], at)
  BY <1>3 DEF LinesFit
<1>8. InOrder(rest)
  <2> SUFFICES ASSUME NEW i \in DOMAIN rest, NEW j \in DOMAIN rest, i < j, rest[i].of = rest[j].of
               PROVE  Rank(rest[i].kind) < Rank(rest[j].kind)
    BY DEF InOrder
  <2>1. i + 1 \in DOMAIN lines /\ j + 1 \in DOMAIN lines /\ i + 1 < j + 1 /\ rest[i] = lines[i + 1] /\ rest[j] = lines[j + 1]
    BY <1>1, <1>3
  <2> QED
    BY <2>1 DEF LinesFit, InOrder
<1>9. ASSUME NEW i \in DOMAIN rest, rest[i].of = line.of PROVE Rank(line.kind) < Rank(rest[i].kind)
  <2>1. 1 \in DOMAIN lines /\ i + 1 \in DOMAIN lines /\ 1 < i + 1 /\ rest[i] = lines[i + 1]
    BY <1>1, <1>3
  <2> QED
    BY <1>2, <1>9, <2>1 DEF LinesFit, InOrder
<1>10. StartsFirst(rest, after)
  <2> SUFFICES ASSUME NEW j \in DOMAIN rest
               PROVE  IF rest[j].kind = "started" THEN rest[j].of \notin after
                      ELSE rest[j].of \in after
                           \/ \E i \in DOMAIN rest : i < j /\ rest[i] = [kind |-> "started", of |-> rest[j].of]
    BY DEF StartsFirst
  <2>1. j + 1 \in DOMAIN lines /\ rest[j] = lines[j + 1] /\ rest[j] \in Told
    BY <1>3
  <2>2. IF rest[j].kind = "started" THEN rest[j].of \notin told
        ELSE rest[j].of \in told
             \/ \E i \in DOMAIN lines : i < j + 1 /\ lines[i] = [kind |-> "started", of |-> rest[j].of]
    BY <2>1 DEF LinesFit, StartsFirst
  <2>3. CASE rest[j].kind = "started"
    BY <1>9, <2>2, <2>3 DEF after, ToldAfter, Rank
  <2>4. CASE rest[j].kind # "started"
    <3>1. CASE rest[j].of \in told
      <4>1. rest[j].of # line.of \/ line.kind \notin {"prediction", "finished", "failed"}
        BY <1>9 DEF Rank
      <4> QED
        BY <2>4, <3>1, <4>1 DEF after, ToldAfter
    <3>2. CASE \E i \in DOMAIN lines : i < j + 1 /\ lines[i] = [kind |-> "started", of |-> rest[j].of]
      <4>1. PICK i \in DOMAIN lines : i < j + 1 /\ lines[i] = [kind |-> "started", of |-> rest[j].of]
        BY <3>2
      <4>2. CASE i = 1
        BY <1>2, <2>4, <4>1, <4>2 DEF after, ToldAfter
      <4>3. CASE i # 1
        <5>1. i - 1 \in DOMAIN rest /\ i - 1 < j /\ rest[i - 1] = [kind |-> "started", of |-> rest[j].of]
          BY <1>1, <1>3, <4>1, <4>3
        <5> QED
          BY <2>4, <5>1
      <4> QED
        BY <4>2, <4>3
    <3> QED
      BY <2>2, <2>4, <3>1, <3>2
  <2> QED
    BY <2>3, <2>4
<1>11. ASSUME NEW k \in Kinds, NEW q \in Asked
       PROVE  Waits(lines, k, q) <=> [kind |-> k, of |-> q] = line \/ Waits(rest, k, q)
  <2> DEFINE l == [kind |-> k, of |-> q]
  <2> HIDE DEF l
  <2>1. \A i \in DOMAIN lines : i = 1 \/ (i - 1 \in DOMAIN rest /\ lines[i] = rest[i - 1])
    BY <1>1, <1>3
  <2>2. \A i \in DOMAIN rest : i + 1 \in DOMAIN lines /\ rest[i] = lines[i + 1]
    BY <1>3
  <2>3. 1 \in DOMAIN lines
    BY <1>1
  <2>4. (\E i \in DOMAIN lines : lines[i] = l) => l = line \/ \E i \in DOMAIN rest : rest[i] = l
    BY <1>2, <2>1
  <2>5. l = line \/ (\E i \in DOMAIN rest : rest[i] = l) => \E i \in DOMAIN lines : lines[i] = l
    BY <1>2, <2>2, <2>3
  <2> QED
    BY <2>4, <2>5 DEF Waits, l
<1>12. ~Waits(rest, line.kind, line.of)
  BY <1>9 DEF Waits, Rank
<1>13. Rank(line.kind) = 3 => ~Waits(rest, "streaming", line.of)
  BY <1>9 DEF Waits, Rank
<1> QED
  BY <1>2, <1>3, <1>4, <1>5, <1>6, <1>7, <1>8, <1>10, <1>11, <1>12, <1>13 DEF LinesFit, line, rest, after

----------------------------------------------------------------------------
(* LM Studio writes.                                                       *)

LEMMA AnnouncedGrows ==
    ASSUME NEW told \in SUBSET Asked, NEW at \in [Asked -> Stages], NEW lines, LinesFit(lines, told, at),
           \A q \in told : at[q] # "idle",
           NEW r \in Asked, NEW to, NEW kind, Goes(r, at[r], to, kind),
           NEW more \in {lines, Append(lines, [kind |-> kind, of |-> r])}, NEW m
    PROVE  Announced(m, lines, told, at) \subseteq Announced(m, more, told, [at EXCEPT ![r] = to])
<1> DEFINE next == [at EXCEPT ![r] = to]
           line == [kind |-> kind, of |-> r]
<1>1. next \in [Asked -> Stages] /\ next[r] = to /\ \A q \in Asked : q # r => next[q] = at[q]
  BY GoesFacts
<1>2. line \in Told /\ line.kind = kind /\ line.of = r
  BY GoesFacts DEF Told
<1>3. lines \in Seq(Told) /\ DOMAIN lines = 1 .. Len(lines) /\ Len(lines) \in Nat
  BY DEF LinesFit
<1> HIDE DEF next
<1> SUFFICES ASSUME NEW q \in told, q \in Announced(m, lines, told, at) PROVE q \in Announced(m, more, told, next)
  BY DEF Announced, next
<1>4. at[q] \notin {"started", "failed"} /\ ~Waits(lines, "streaming", q) /\ OfActivity.modelOf[q] = m /\ q \in OfActivity.streams
  BY DEF Announced
<1>5. next[q] \notin {"started", "failed"}
  BY <1>1, <1>4 DEF Goes
<1>6. ~Waits(more, "streaming", q)
  <2>1. CASE more = lines
    BY <1>4, <2>1
  <2>2. CASE more = Append(lines, line)
    <3>1. line # [kind |-> "streaming", of |-> q]
      BY <1>2, <1>4 DEF Goes
    <3> HIDE DEF line
    <3>2. \A i \in DOMAIN more : more[i] = line \/ (i \in DOMAIN lines /\ more[i] = lines[i])
      <4> DEFINE n == Len(lines)
      <4>1. n \in Nat /\ DOMAIN lines = 1 .. n
        BY <1>3
      <4>2. /\ Append(lines, line) \in Seq(Told) /\ DOMAIN Append(lines, line) = 1 .. n + 1
            /\ Append(lines, line)[n + 1] = line /\ \A i \in 1 .. n : Append(lines, line)[i] = lines[i]
        BY <1>2, <1>3
      <4> HIDE DEF n
      <4> QED
        BY <2>2, <4>1, <4>2
    <3> QED
      BY <1>4, <3>1, <3>2 DEF Waits
  <2> QED
    BY <2>1, <2>2
<1> QED
  BY <1>4, <1>5, <1>6 DEF Announced

LEMMA AnnouncedAsked ==
    ASSUME NEW told \in SUBSET Asked, NEW lines, NEW at, NEW m
    PROVE  /\ Announced(m, lines, told, at) \in SUBSET Asked /\ ToldOf(m, told) \in SUBSET Asked
           /\ Cardinality(Announced(m, lines, told, at)) \in Nat /\ Cardinality(ToldOf(m, told)) \in Nat
           /\ Announced(m, lines, told, at) \subseteq ToldOf(m, told)
           /\ Cardinality(Announced(m, lines, told, at)) <= Cardinality(ToldOf(m, told))
<1>1. /\ Announced(m, lines, told, at) \in SUBSET Asked /\ ToldOf(m, told) \in SUBSET Asked
      /\ Announced(m, lines, told, at) \subseteq ToldOf(m, told)
  BY DEF Announced, ToldOf
<1> QED
  BY <1>1, FewAsked, MoreAsked

\* A tally stays true as long as no fewer requests are announced.
LEMMA TallyStays ==
    ASSUME NEW told \in SUBSET Asked, NEW m, NEW e \in Tallies, NEW missed \in BOOLEAN, NEW at, NEW next, NEW lines, NEW more,
           TallyFits(m, e, lines, told, missed, at),
           Unbroken(m, next) => Unbroken(m, at),
           Announced(m, lines, told, at) \subseteq Announced(m, more, told, next)
    PROVE  TallyFits(m, e, more, told, missed, next)
<1>1. Cardinality(Announced(m, lines, told, at)) <= Cardinality(Announced(m, more, told, next))
  BY AnnouncedAsked, MoreAsked
<1>2. Cardinality(Announced(m, lines, told, at)) \in Nat /\ Cardinality(Announced(m, more, told, next)) \in Nat
  BY AnnouncedAsked
<1>3. e.streamed \in Nat
  BY DEF Tallies
<1> QED
  BY <1>1, <1>2, <1>3 DEF TallyFits

LEMMA PipesSet ==
    ASSUME NEW c \in DOMAIN pipes, pipes \in Seq(Seq(Told)), NEW new \in Seq(Told)
    PROVE  /\ [pipes EXCEPT ![c] = new] \in Seq(Seq(Told))
           /\ DOMAIN [pipes EXCEPT ![c] = new] = DOMAIN pipes
           /\ [pipes EXCEPT ![c] = new][c] = new
           /\ \A d \in DOMAIN pipes : d # c => [pipes EXCEPT ![c] = new][d] = pipes[d]
BY ExceptSeq

LEMMA RequestGoes ==
    ASSUME ActivityInv, NEW r \in Asked, NEW to, NEW kind, Goes(r, stage[r], to, kind),
           stage' = [stage EXCEPT ![r] = to], Activity!Write(kind, r),
           UNCHANGED <<app, child, port, entries, recent, pending, open, blind>>
    PROVE  ActivityInv'
<1> DEFINE line == [kind |-> kind, of |-> r]
           writes == child # None /\ port = app
<1>1. /\ ActivityTypeOK /\ LinesFit(Heard, open, stage) /\ \A q \in open : stage[q] # "idle"
      /\ stage \in [Asked -> Stages] /\ open \in SUBSET Asked /\ pipes \in Seq(Seq(Told))
  BY DEF ActivityInv, ActivityTypeOK
<1>2. stage' \in [Asked -> Stages] /\ stage'[r] = to /\ \A q \in Asked : q # r => stage'[q] = stage[q]
  BY <1>1, GoesFacts
<1>3. line \in Told
  BY <1>1, GoesFacts DEF Told
<1>4. child # None => child \in DOMAIN pipes /\ Heard = pipes[child] /\ Heard \in Seq(Told)
  BY <1>1 DEF ActivityTypeOK, Heard, LinesFit
<1>5. /\ pipes' \in Seq(Seq(Told)) /\ DOMAIN pipes' = DOMAIN pipes
      /\ Heard' = IF writes THEN Append(Heard, line) ELSE Heard
  <2>1. CASE writes
    <3>1. pipes' = [pipes EXCEPT ![child] = Append(Heard, line)]
      BY <1>4, <2>1 DEF Activity!Write
    <3>2. Append(Heard, line) \in Seq(Told)
      BY <1>3, <1>4, <2>1
    <3> HIDE DEF line
    <3> QED
      BY <1>1, <1>4, <2>1, <3>1, <3>2, PipesSet DEF Heard
  <2>2. CASE ~writes
    <3>1. pipes' = pipes
      BY <2>2 DEF Activity!Write
    <3> QED
      BY <1>1, <2>2, <3>1 DEF Heard
  <2> QED
    BY <2>1, <2>2
<1>6. kind = "started" <=> stage[r] = "idle"
  BY <1>1, GoesFacts
<1>7. writes /\ stage[r] # "idle" => r \in open \/ Waits(Heard, "started", r)
  <2>1. kind # "started" => stage[r] \in {"started", "streaming", "summarised"}
    BY <1>1, GoesFacts
  <2> QED
    BY <1>6, <2>1 DEF ActivityInv, NoneMissed
<1>8. LinesFit(Heard', open, stage')
  <2>1. CASE writes
    BY <1>1, <1>5, <1>7, <2>1, LineWritten
  <2>2. CASE ~writes
    BY <1>1, <1>5, <2>2, LineLost
  <2> QED
    BY <2>1, <2>2
<1>9. \A q \in open : stage'[q] # "idle"
  BY <1>1, <1>2 DEF Goes
<1>10. ASSUME writes PROVE NoneMissed(Heard', open, stage')
  <2>1. Heard' = Append(Heard, line) /\ Heard \in Seq(Told)
    BY <1>4, <1>5, <1>10
  <2>2. \A k \in Kinds, q \in Asked : Waits(Heard, k, q) => Waits(Heard', k, q)
    BY <1>3, <2>1 DEF Waits
  <2>3. Waits(Heard', kind, r)
    BY <1>3, <2>1 DEF Waits
  <2>4. "started" \in Kinds
    BY DEF Kinds
  <2>5. r \in open \/ Waits(Heard', "started", r)
    BY <1>6, <1>7, <1>10, <2>2, <2>3, <2>4
  <2> QED
    BY <1>2, <1>10, <2>2, <2>4, <2>5 DEF NoneMissed, ActivityInv
<1>11. ASSUME NEW m \in Tags PROVE TallyFits(m, entries[m], Heard', open, blind, stage')
  <2>1. Unbroken(m, stage') => Unbroken(m, stage)
    BY <1>2 DEF Unbroken, Goes
  <2>2. Announced(m, Heard, open, stage) \subseteq Announced(m, Heard', open, stage')
    <3>1. Heard' \in {Heard, Append(Heard, line)}
      BY <1>5
    <3> QED
      BY <1>1, <3>1, AnnouncedGrows
  <2>3. entries[m] \in Tallies /\ blind \in BOOLEAN
    BY <1>1 DEF ActivityTypeOK
  <2>4. TallyFits(m, entries[m], Heard, open, blind, stage)
    BY DEF ActivityInv
  <2> QED
    BY <1>1, <2>1, <2>2, <2>3, <2>4, TallyStays
<1>12. ActivityTypeOK'
  BY <1>1, <1>2, <1>5 DEF ActivityTypeOK
<1>13. Activity!CompletionsAreOwn'
  BY DEF ActivityInv, Activity!CompletionsAreOwn
<1> QED
  BY <1>8, <1>9, <1>10, <1>11, <1>12, <1>13 DEF ActivityInv


LEMMA RequestsGo ==
    ASSUME ActivityInv, NEW r \in Asked,
           \/ Activity!Run(r) \/ Activity!Stream(r) \/ Activity!Summarise(r) \/ Activity!Finish(r) \/ Activity!Fail(r)
    PROVE  ActivityInv'
<1>1. PICK from, to, kind : r \in Asked /\ Goes(r, stage[r], to, kind) /\ stage[r] \in from /\ Activity!Advance(r, from, to, kind)
  <2>1. CASE Activity!Run(r)
    BY <2>1, Zenon DEF Activity!Run, Activity!Advance, Goes
  <2> QED
    BY <2>1 DEF Activity!Run, Activity!Stream, Activity!Summarise, Activity!Finish, Activity!Fail, Activity!Advance, Goes
<1>2. /\ stage' = [stage EXCEPT ![r] = to] /\ Activity!Write(kind, r)
      /\ UNCHANGED <<app, child, port, entries, recent, pending, open, blind>>
  BY <1>1 DEF Activity!Advance, Activity!stream, Activity!tracker
<1> QED
  BY <1>1, <1>2, RequestGoes

LEMMA AppRestarts == ASSUME ActivityInv, NEW p, Activity!Restart(p) PROVE ActivityInv'
<1>1. /\ ActivityTypeOK /\ LinesFit(Heard, open, stage)
      /\ stage \in [Asked -> Stages] /\ open \in SUBSET Asked
  BY DEF ActivityInv, ActivityTypeOK
<1>2. /\ UNCHANGED <<pipes, child, port, entries, recent, pending, open, blind>>
      /\ stage' = [r \in Asked |-> IF r \in Activity!Running THEN "over" ELSE stage[r]]
  BY DEF Activity!Restart, Activity!stream, Activity!tracker, Asked
<1>3. \A r \in Asked :
          /\ stage[r] \in {"started", "streaming", "summarised"} => stage'[r] = "over"
          /\ stage[r] \notin {"started", "streaming", "summarised"} => stage'[r] = stage[r]
  BY <1>2 DEF Activity!Running, Asked
<1>4. stage' \in [Asked -> Stages]
  BY <1>1, <1>2 DEF Stages
<1>5. Heard' = Heard
  BY <1>2 DEF Heard
<1>6. ASSUME NEW line \in Told, LineFits(line, stage) PROVE LineFits(line, stage')
  <2>1. line.of \in Asked
    BY DEF Told
  <2>2. Rank(line.kind) <= Reached(stage'[line.of])
    BY <1>3, <1>6, <2>1 DEF LineFits, Reached, Rank
  <2> QED
    BY <1>3, <1>6, <2>1, <2>2 DEF LineFits
<1>7. LinesFit(Heard', open', stage')
  <2>1. Heard \in Seq(Told) /\ \A i \in DOMAIN Heard : Heard[i] \in Told
    BY <1>1 DEF LinesFit
  <2> QED
    BY <1>1, <1>2, <1>5, <1>6, <2>1 DEF LinesFit
<1>8. NoneMissed(Heard', open', stage')
  BY <1>3 DEF NoneMissed, Stages
<1>9. ASSUME NEW m \in Tags PROVE TallyFits(m, entries'[m], Heard', open', blind', stage')
  <2>1. Unbroken(m, stage') => Unbroken(m, stage)
    BY <1>3 DEF Unbroken
  <2>2. Announced(m, Heard, open, stage) \subseteq Announced(m, Heard, open, stage')
    BY <1>1, <1>3 DEF Announced
  <2>3. entries[m] \in Tallies /\ blind \in BOOLEAN
    BY <1>1 DEF ActivityTypeOK
  <2>4. TallyFits(m, entries[m], Heard, open, blind, stage)
    BY DEF ActivityInv
  <2> QED
    BY <1>1, <1>2, <1>5, <2>1, <2>2, <2>3, <2>4, TallyStays
<1>10. \A r \in open' : stage'[r] # "idle"
  BY <1>1, <1>2, <1>3 DEF ActivityInv
<1>11. ActivityTypeOK'
  BY <1>1, <1>2, <1>4 DEF ActivityTypeOK
<1>12. Activity!CompletionsAreOwn'
  BY <1>2 DEF ActivityInv, Activity!CompletionsAreOwn
<1>13. child' = None => \A m \in Tags : entries'[m] = Activity!Idle
  BY <1>2 DEF ActivityInv
<1> QED
  BY <1>7, <1>8, <1>9, <1>10, <1>11, <1>12, <1>13 DEF ActivityInv


----------------------------------------------------------------------------
(* The child's lines are read.                                             *)

Closing == {"prediction", "finished", "failed"}

\* What a line changes of whom the tallies are of.
LEMMA ReadSets ==
    ASSUME NEW told \in SUBSET Asked, NEW at \in [Asked -> Stages], NEW lines, LinesFit(lines, told, at), lines # <<>>, NEW m
    PROVE  LET line == Head(lines) r == line.of rest == Tail(lines) after == ToldAfter(told, line)
               were == Announced(m, lines, told, at) are == Announced(m, rest, after, at) IN
           /\ OfActivity.modelOf[r] # m => ToldOf(m, after) = ToldOf(m, told) /\ were \subseteq are
           /\ OfActivity.modelOf[r] = m =>
                 /\ line.kind = "started" => r \notin ToldOf(m, told) /\ ToldOf(m, after) = ToldOf(m, told) \cup {r}
                 /\ line.kind \in Closing => r \in ToldOf(m, told) /\ ToldOf(m, after) = ToldOf(m, told) \ {r}
                 /\ line.kind \in {"streaming", "done"} => after = told /\ r \in ToldOf(m, told)
                 /\ line.kind \in {"started", "done"} => were \subseteq are
                 /\ line.kind = "streaming" => r \notin were /\ were \cup {r} \subseteq are
                 /\ line.kind = "finished" => r \in were /\ were \ {r} \subseteq are
                 /\ line.kind = "prediction" => r \notin were /\ were \subseteq are
                 /\ line.kind = "failed" /\ Unbroken(m, at) => r \notin were /\ were \subseteq are
<1> DEFINE line == Head(lines)
           r == line.of
           rest == Tail(lines)
           after == ToldAfter(told, line)
           were == Announced(m, lines, told, at)
           are == Announced(m, rest, after, at)
           model == OfActivity.modelOf[r]
<1>1. /\ line \in Told /\ LineFits(line, at)
      /\ line.kind = "started" <=> r \notin told
      /\ after \in SUBSET Asked
      /\ \A k \in Kinds : \A q \in Asked : Waits(lines, k, q) <=> [kind |-> k, of |-> q] = line \/ Waits(rest, k, q)
      /\ ~Waits(rest, line.kind, r)
      /\ Rank(line.kind) = 3 => ~Waits(rest, "streaming", r)
  BY LineRead
<1>2. r \in Asked /\ line.kind \in Kinds /\ line = [kind |-> line.kind, of |-> r]
  BY <1>1 DEF Told
<1> HIDE DEF line, rest
<1>3. \A q \in Asked : Waits(rest, "streaming", q) => Waits(lines, "streaming", q)
  BY <1>1 DEF Kinds
<1>4. after = told \/ after = told \cup {r} \/ after = told \ {r}
  BY DEF ToldAfter
<1>5. line.kind = "started" => after = told \cup {r} /\ r \notin told
  BY <1>1 DEF ToldAfter
<1>6. line.kind \in Closing => after = told \ {r} /\ r \in told
  BY <1>1 DEF ToldAfter, Closing
<1>7. line.kind \in {"streaming", "done"} => after = told /\ r \in told
  BY <1>1 DEF ToldAfter
<1>8. were \ {r} \subseteq are
  BY <1>3, <1>4 DEF Announced
<1>9. model # m => r \notin were
  BY DEF Announced
<1>10. model # m => ToldOf(m, after) = ToldOf(m, told) /\ were \subseteq are
  BY <1>4, <1>8, <1>9 DEF ToldOf
<1>11. ASSUME model = m
       PROVE  /\ line.kind = "started" => r \notin ToldOf(m, told) /\ ToldOf(m, after) = ToldOf(m, told) \cup {r}
              /\ line.kind \in Closing => r \in ToldOf(m, told) /\ ToldOf(m, after) = ToldOf(m, told) \ {r}
              /\ line.kind \in {"streaming", "done"} => after = told /\ r \in ToldOf(m, told)
  BY <1>5, <1>6, <1>7, <1>11 DEF ToldOf
<1>12. line.kind \in {"started", "done"} => were \subseteq are
  <2>1. line.kind = "started" => r \notin were
    BY <1>5 DEF Announced
  <2>2. line.kind = "done" => after = told
    BY <1>7
  <2> QED
    BY <1>3, <1>8, <2>1, <2>2 DEF Announced
<1>13. ASSUME model = m, line.kind = "streaming" PROVE r \notin were /\ were \cup {r} \subseteq are
  <2>1. Waits(lines, "streaming", r) /\ ~Waits(rest, "streaming", r)
    BY <1>1, <1>2, <1>13
  <2>2. r \in OfActivity.streams /\ at[r] \notin {"started", "failed"}
    BY <1>1, <1>13 DEF LineFits
  <2>3. r \in after
    BY <1>7, <1>13
  <2> QED
    BY <1>8, <1>13, <2>1, <2>2, <2>3 DEF Announced
<1>14. ASSUME line.kind \in Closing PROVE ~Waits(lines, "streaming", r)
  <2>1. Rank(line.kind) = 3 /\ line # [kind |-> "streaming", of |-> r]
    BY <1>2, <1>14 DEF Rank, Closing
  <2> QED
    BY <1>1, <1>2, <2>1 DEF Kinds
<1>15. ASSUME model = m, line.kind = "finished" PROVE r \in were
  <2>1. r \in OfActivity.streams /\ at[r] = "over"
    BY <1>1, <1>15 DEF LineFits
  <2> QED
    BY <1>6, <1>14, <1>15, <2>1 DEF Announced, Closing
<1>16. line.kind = "prediction" => r \notin were
  BY <1>1 DEF LineFits, Announced
<1>17. ASSUME model = m, line.kind = "failed", Unbroken(m, at) PROVE r \notin were
  <2>1. at[r] = "failed"
    BY <1>1, <1>2, <1>17 DEF LineFits, Unbroken
  <2> QED
    BY <2>1 DEF Announced
<1> QED
  BY <1>8, <1>10, <1>11, <1>12, <1>13, <1>15, <1>16, <1>17 DEF line, rest

\* What it changes of how many.
LEMMA ReadCounts ==
    ASSUME NEW told \in SUBSET Asked, NEW at \in [Asked -> Stages], NEW lines, LinesFit(lines, told, at), lines # <<>>, NEW m
    PROVE  LET line == Head(lines) r == line.of after == ToldAfter(told, line)
               before == Cardinality(ToldOf(m, told)) then == Cardinality(ToldOf(m, after))
               were == Cardinality(Announced(m, lines, told, at)) are == Cardinality(Announced(m, Tail(lines), after, at)) IN
           /\ before \in Nat /\ then \in Nat /\ were \in Nat /\ are \in Nat /\ were <= before
           /\ OfActivity.modelOf[r] # m => then = before /\ were <= are
           /\ OfActivity.modelOf[r] = m =>
                 /\ line.kind = "started" => then = before + 1 /\ were <= are
                 /\ line.kind \in Closing => then = before - 1
                 /\ line.kind \in {"streaming", "done"} => then = before /\ before >= 1
                 /\ line.kind = "done" => were <= are
                 /\ line.kind = "streaming" => were + 1 <= are
                 /\ line.kind = "finished" => were - 1 <= are
                 /\ line.kind = "prediction" => were <= are /\ were <= before - 1
                 /\ line.kind = "failed" /\ Unbroken(m, at) => were <= are /\ were <= before - 1
<1> DEFINE line == Head(lines)
           r == line.of
           after == ToldAfter(told, line)
           before == ToldOf(m, told)
           then == ToldOf(m, after)
           were == Announced(m, lines, told, at)
           are == Announced(m, Tail(lines), after, at)
<1>1. line \in Told /\ r \in Asked /\ after \in SUBSET Asked
  BY LineRead DEF Told
<1>2. /\ before \in SUBSET Asked /\ then \in SUBSET Asked /\ were \in SUBSET Asked /\ are \in SUBSET Asked
      /\ were \subseteq before /\ Cardinality(were) <= Cardinality(before)
      /\ Cardinality(before) \in Nat /\ Cardinality(then) \in Nat /\ Cardinality(were) \in Nat /\ Cardinality(are) \in Nat
  BY <1>1, AnnouncedAsked
<1>3. /\ OfActivity.modelOf[r] # m => then = before /\ were \subseteq are
      /\ OfActivity.modelOf[r] = m =>
            /\ line.kind = "started" => r \notin before /\ then = before \cup {r}
            /\ line.kind \in Closing => r \in before /\ then = before \ {r}
            /\ line.kind \in {"streaming", "done"} => after = told /\ r \in before
            /\ line.kind \in {"started", "done"} => were \subseteq are
            /\ line.kind = "streaming" => r \notin were /\ were \cup {r} \subseteq are
            /\ line.kind = "finished" => r \in were /\ were \ {r} \subseteq are
            /\ line.kind = "prediction" => r \notin were /\ were \subseteq are
            /\ line.kind = "failed" /\ Unbroken(m, at) => r \notin were /\ were \subseteq are
  BY ReadSets
<1>4. after = told => then = before
  OBVIOUS
<1> HIDE DEF line, r, after, before, then, were, are
<1>5. r \notin before => Cardinality(before \cup {r}) = Cardinality(before) + 1
  BY <1>1, <1>2, OneMore
<1>6. r \in before => Cardinality(before \ {r}) = Cardinality(before) - 1 /\ Cardinality(before) >= 1
  BY <1>1, <1>2, OneMore
<1>7. r \notin were => Cardinality(were \cup {r}) = Cardinality(were) + 1
  BY <1>1, <1>2, OneMore
<1>8. r \in were => Cardinality(were \ {r}) = Cardinality(were) - 1
  BY <1>1, <1>2, OneMore
<1>9. were \subseteq are => Cardinality(were) <= Cardinality(are)
  BY <1>2, MoreAsked
<1>10. were \cup {r} \subseteq are => Cardinality(were \cup {r}) <= Cardinality(are)
  BY <1>1, <1>2, MoreAsked
<1>11. were \ {r} \subseteq are => Cardinality(were \ {r}) <= Cardinality(are)
  BY <1>1, <1>2, MoreAsked
<1>12. r \in before /\ r \notin were => Cardinality(were) <= Cardinality(before) - 1
  <2>1. r \in before /\ r \notin were => were \subseteq before \ {r}
    BY <1>2
  <2>2. were \subseteq before \ {r} => Cardinality(were) <= Cardinality(before \ {r})
    BY <1>2, MoreAsked
  <2> QED
    BY <1>6, <2>1, <2>2
<1>13. OfActivity.modelOf[r] # m => Cardinality(then) = Cardinality(before) /\ Cardinality(were) <= Cardinality(are)
  BY <1>3, <1>9
<1>14. ASSUME OfActivity.modelOf[r] = m
       PROVE  /\ line.kind = "started" => Cardinality(then) = Cardinality(before) + 1 /\ Cardinality(were) <= Cardinality(are)
              /\ line.kind \in Closing => Cardinality(then) = Cardinality(before) - 1
              /\ line.kind \in {"streaming", "done"} => Cardinality(then) = Cardinality(before) /\ Cardinality(before) >= 1
              /\ line.kind = "done" => Cardinality(were) <= Cardinality(are)
              /\ line.kind = "streaming" => Cardinality(were) + 1 <= Cardinality(are)
              /\ line.kind = "finished" => Cardinality(were) - 1 <= Cardinality(are)
  BY <1>2, <1>3, <1>4, <1>5, <1>6, <1>7, <1>8, <1>9, <1>10, <1>11, <1>14
<1>15. ASSUME OfActivity.modelOf[r] = m, line.kind = "prediction" \/ (line.kind = "failed" /\ Unbroken(m, at))
       PROVE  Cardinality(were) <= Cardinality(are) /\ Cardinality(were) <= Cardinality(before) - 1
  BY <1>3, <1>9, <1>12, <1>15 DEF Closing
<1> QED
  BY <1>2, <1>13, <1>14, <1>15 DEF line, r, after, before, then, were, are


LEMMA CloseCounts ==
    ASSUME NEW told \in SUBSET Asked, NEW at \in [Asked -> Stages], NEW lines, LinesFit(lines, told, at), lines # <<>>,
           Head(lines).kind \in Closing
    PROVE  LET m == OfActivity.modelOf[Head(lines).of] IN
           Cardinality(ToldOf(m, ToldAfter(told, Head(lines)))) = Cardinality(ToldOf(m, told)) - 1
<1> DEFINE line == Head(lines)
           m == OfActivity.modelOf[line.of]
           after == ToldAfter(told, line)
<1>1. line \in Told /\ (line.kind = "started" <=> line.of \notin told)
  BY LineRead
<1> HIDE DEF line
<1>2. line.of \in told /\ after = told \ {line.of}
  BY <1>1 DEF ToldAfter, Closing, line
<1>2a. line.of \in ToldOf(m, told) /\ ToldOf(m, after) = ToldOf(m, told) \ {line.of}
  BY <1>2 DEF ToldOf
<1>3. ToldOf(m, told) \in SUBSET Asked
  BY DEF ToldOf
<1>4. line.of \in Asked
  BY <1>1 DEF Told
<1> HIDE DEF m, after
<1>5. Cardinality(ToldOf(m, after)) = Cardinality(ToldOf(m, told)) - 1
  BY <1>2a, <1>3, <1>4, OneMore
<1> QED
  BY <1>5 DEF line, m, after

LEMMA StartCounts ==
    ASSUME NEW told \in SUBSET Asked, NEW at \in [Asked -> Stages], NEW lines, LinesFit(lines, told, at), lines # <<>>,
           Head(lines).kind = "started"
    PROVE  LET m == OfActivity.modelOf[Head(lines).of] IN
           Cardinality(ToldOf(m, ToldAfter(told, Head(lines)))) = Cardinality(ToldOf(m, told)) + 1
<1> DEFINE line == Head(lines)
           m == OfActivity.modelOf[line.of]
           after == ToldAfter(told, line)
<1>1. line \in Told /\ (line.kind = "started" <=> line.of \notin told)
  BY LineRead
<1> HIDE DEF line
<1>2. line.of \notin told /\ after = told \cup {line.of}
  BY <1>1 DEF ToldAfter, line
<1>3. line.of \notin ToldOf(m, told) /\ ToldOf(m, after) = ToldOf(m, told) \cup {line.of}
  BY <1>2 DEF ToldOf
<1>4. ToldOf(m, told) \in SUBSET Asked /\ line.of \in Asked
  BY <1>1 DEF ToldOf, Told
<1> HIDE DEF m, after
<1>5. Cardinality(ToldOf(m, after)) = Cardinality(ToldOf(m, told)) + 1
  BY <1>3, <1>4, OneMore
<1> QED
  BY <1>5 DEF line, m, after

\* A tally without its first request.
Ended(e) ==
    IF Tail(e.starts) = <<>> THEN Activity!Idle
    ELSE [e EXCEPT !.starts = Tail(e.starts),
                   !.streamed = IF @ > Len(Tail(e.starts)) THEN Len(Tail(e.starts)) ELSE @]

LEMMA IdleFacts ==
    /\ Activity!Idle \in Tallies /\ Activity!Idle.starts = <<>> /\ Len(Activity!Idle.starts) = 0
    /\ Activity!Idle.streamed = 0 /\ ~Activity!Idle.overlapped /\ Tallied(Activity!Idle)
BY DEF Activity!Idle, Tallies, Tallied

LEMMA EndedFacts ==
    ASSUME NEW e \in Tallies, e.starts # <<>>
    PROVE  /\ Ended(e) \in Tallies
           /\ Len(Ended(e).starts) = Len(e.starts) - 1
           /\ Ended(e).streamed <= e.streamed
           /\ Tallied(e) => Tallied(Ended(e)) /\ (Ended(e).starts # <<>> => Ended(e).overlapped)
<1>1. e.starts \in Seq(Asked) /\ e.streamed \in Nat /\ e.overlapped \in BOOLEAN
  BY DEF Tallies
<1> DEFINE rest == Tail(e.starts)
           k == IF e.streamed > Len(rest) THEN Len(rest) ELSE e.streamed
<1>2. rest \in Seq(Asked) /\ Len(rest) = Len(e.starts) - 1 /\ Len(rest) \in Nat /\ (Len(rest) = 0 <=> rest = <<>>)
  <2>1. rest \in Seq(Asked) /\ Len(rest) = Len(e.starts) - 1
    BY <1>1
  <2> HIDE DEF rest
  <2>2. rest # <<>> => Len(rest) \in Nat \ {0}
    BY <2>1, EmptySeq
  <2>3. rest = <<>> => Len(rest) = 0
    BY EmptySeq
  <2> QED
    BY <2>1, <2>2, <2>3
<1> HIDE DEF rest
<1>3. k \in Nat /\ k <= e.streamed
  BY <1>1, <1>2
<1>4. CASE rest = <<>>
  <2>1. Ended(e) = Activity!Idle
    BY <1>4 DEF Ended, rest
  <2>2. Len(rest) = 0 /\ 0 <= e.streamed
    BY <1>1, <1>2, <1>4
  <2> QED
    BY <1>2, <2>1, <2>2, IdleFacts
<1>5. CASE rest # <<>>
  <2>1. Ended(e) = [e EXCEPT !.starts = rest, !.streamed = k]
    BY <1>5 DEF Ended, rest
  <2> HIDE DEF k
  <2>2. Ended(e) = [starts |-> rest, streamed |-> k, overlapped |-> e.overlapped]
    BY <2>1 DEF Tallies
  <2>3. Ended(e) \in Tallies
    BY <1>1, <1>2, <1>3, <2>2 DEF Tallies
  <2>4. Tallied(e) => e.overlapped
    BY <1>1, <1>2, <1>5 DEF Tallied
  <2>5. Ended(e).starts = rest /\ Ended(e).streamed = k /\ Ended(e).overlapped = e.overlapped
    BY <2>2
  <2> QED
    BY <1>2, <1>3, <1>5, <2>3, <2>4, <2>5 DEF Tallied
<1> QED
  BY <1>4, <1>5

LEMMA Closes ==
    ASSUME ActivityInv, Heard # <<>>, Head(Heard).kind \in Closing, Activity!Apply(Head(Heard))
    PROVE  LET line == Head(Heard) m == OfActivity.modelOf[line.of] before == Cardinality(ToldOf(m, open))
               are == Cardinality(Announced(m, Tail(Heard), ToldAfter(open, line), stage)) IN
           /\ recent' \in {None} \cup Attributions
           /\ \E e \in Tallies :
                 /\ entries' = [entries EXCEPT ![m] = e]
                 /\ Tallied(e)
                 /\ Unbroken(m, stage) => Len(e.starts) <= before - 1 /\ e.streamed <= are
                 /\ ~blind => Len(e.starts) >= before - 1
                 /\ e.starts # <<>> /\ ~e.overlapped => e = entries[m]
<1> DEFINE line == Head(Heard)
           m == OfActivity.modelOf[line.of]
           before == Cardinality(ToldOf(m, open))
           were == Cardinality(Announced(m, Heard, open, stage))
           are == Cardinality(Announced(m, Tail(Heard), ToldAfter(open, line), stage))
           old == entries[m]
           Fine(e) ==
                 /\ Tallied(e)
                 /\ Unbroken(m, stage) => Len(e.starts) <= before - 1 /\ e.streamed <= are
                 /\ ~blind => Len(e.starts) >= before - 1
                 /\ e.starts # <<>> /\ ~e.overlapped => e = old
<1>1. /\ LinesFit(Heard, open, stage) /\ stage \in [Asked -> Stages] /\ open \in SUBSET Asked
      /\ entries \in [Tags -> Tallies] /\ recent \in {None} \cup Attributions
  BY DEF ActivityInv, ActivityTypeOK
<1>2. line \in Told /\ line.of \in Asked
  BY <1>1, LineRead DEF Told
<1>3. m \in Tags
  BY <1>2 DEF Tags, Activity!Models, Asked
<1>4. /\ before \in Nat /\ were \in Nat /\ are \in Nat /\ before - 1 \in Nat
      /\ line.kind = "finished" => were - 1 <= are
      /\ line.kind = "prediction" \/ (line.kind = "failed" /\ Unbroken(m, stage)) => were <= are /\ were <= before - 1
  BY <1>1, ReadCounts
<1>5. old \in Tallies /\ TallyFits(m, old, Heard, open, blind, stage) /\ Activity!Active(m) = Len(old.starts)
  BY <1>1, <1>3 DEF ActivityInv, Activity!Active
<1> HIDE DEF line, m, before, were, are
<1>6. /\ old.streamed \in Nat /\ Len(old.starts) \in Nat /\ old.starts \in Seq(Asked) /\ (Len(old.starts) = 0 <=> old.starts = <<>>)
      /\ old.overlapped \in BOOLEAN
  BY <1>5 DEF Tallies
<1>7. /\ Tallied(old)
      /\ Unbroken(m, stage) => Len(old.starts) <= before /\ old.streamed <= were
      /\ ~blind => Len(old.starts) >= before
  BY <1>5 DEF TallyFits, before, were
<1>8. [entries EXCEPT ![m] = old] = entries
  BY <1>1, <1>3
<1>9. ASSUME NEW e \in Tallies, e.starts # <<>>, e.starts = old.starts, e.overlapped = old.overlapped,
             Unbroken(m, stage) => e.streamed <= are, Activity!End(m, e)
      PROVE  Ended(e) \in Tallies /\ entries' = [entries EXCEPT ![m] = Ended(e)] /\ Fine(Ended(e)) /\ recent' \in Attributions
  <2>1. entries' = [entries EXCEPT ![m] = Ended(e)]
    BY <1>9 DEF Activity!End, Ended
  <2>2. Tallied(e)
    BY <1>7, <1>9 DEF Tallied
  <2>3. /\ Ended(e) \in Tallies /\ Len(Ended(e).starts) = Len(old.starts) - 1 /\ Ended(e).streamed <= e.streamed
        /\ Tallied(Ended(e)) /\ (Ended(e).starts # <<>> => Ended(e).overlapped)
    BY <1>9, <2>2, EndedFacts
  <2>4. Ended(e).streamed \in Nat /\ e.streamed \in Nat
    BY <1>9, <2>3 DEF Tallies
  <2>5. Fine(Ended(e))
    BY <1>4, <1>6, <1>7, <1>9, <2>3, <2>4
  <2>6. Head(e.starts) \in Asked
    BY <1>6, <1>9
  <2>7. recent' \in Attributions
    BY <1>3, <1>6, <1>9, <2>6 DEF Activity!End, Attributions
  <2> QED
    BY <2>1, <2>3, <2>5, <2>7
<1>10. ASSUME old.starts = <<>> \/ (line.kind = "prediction" /\ Len(old.starts) <= old.streamed) PROVE Fine(old)
  <2>1. CASE old.starts = <<>>
    <3>1. old.streamed = 0 /\ Len(old.starts) = 0
      BY <1>7, <2>1, IdleFacts DEF Tallied
    <3> QED
      BY <1>4, <1>7, <3>1
  <2>2. CASE line.kind = "prediction" /\ Len(old.starts) <= old.streamed
    BY <1>4, <1>6, <1>7, <2>2
  <2> QED
    BY <1>10, <2>1, <2>2
<1>11. ASSUME UNCHANGED <<entries, recent>>, Fine(old)
       PROVE  recent' \in {None} \cup Attributions /\ \E e \in Tallies : entries' = [entries EXCEPT ![m] = e] /\ Fine(e)
  BY <1>1, <1>5, <1>8, <1>11
<1>12. ASSUME NEW prediction \in BOOLEAN, line.kind = (IF prediction THEN "prediction" ELSE "finished"), Activity!Finished(m, prediction)
       PROVE  recent' \in {None} \cup Attributions /\ \E e \in Tallies : entries' = [entries EXCEPT ![m] = e] /\ Fine(e)
  <2> DEFINE k == IF ~prediction /\ old.streamed > 0 THEN old.streamed - 1 ELSE old.streamed
             e == [old EXCEPT !.streamed = k]
  <2>1. CASE Len(old.starts) = 0 \/ (prediction /\ Len(old.starts) <= old.streamed)
    BY <1>5, <1>6, <1>10, <1>11, <1>12, <2>1 DEF Activity!Finished
  <2>2. CASE ~(Len(old.starts) = 0 \/ (prediction /\ Len(old.starts) <= old.streamed))
    <3>1. Activity!End(m, e)
      BY <1>5, <1>12, <2>2 DEF Activity!Finished
    <3>2. k \in Nat /\ (prediction => k = old.streamed) /\ (~prediction => k <= old.streamed - 1 \/ k = 0)
      BY <1>6
    <3>3. e = [starts |-> old.starts, streamed |-> k, overlapped |-> old.overlapped]
      BY <1>5 DEF Tallies
    <3> HIDE DEF k, e
    <3>4. e \in Tallies /\ e.starts = old.starts /\ e.overlapped = old.overlapped /\ e.streamed = k
      BY <1>6, <3>2, <3>3 DEF Tallies
    <3>5. Unbroken(m, stage) => k <= are
      BY <1>4, <1>6, <1>7, <1>12, <3>2
    <3> QED
      BY <1>6, <1>9, <2>2, <3>1, <3>4, <3>5
  <2> QED
    BY <2>1, <2>2
<1>13. ASSUME line.kind = "failed", Activity!Failed(m)
       PROVE  recent' \in {None} \cup Attributions /\ \E e \in Tallies : entries' = [entries EXCEPT ![m] = e] /\ Fine(e)
  <2>1. CASE Len(old.starts) = 0
    BY <1>5, <1>6, <1>10, <1>11, <1>13, <2>1 DEF Activity!Failed
  <2>2. CASE Len(old.starts) # 0
    <3>1. Activity!End(m, old)
      BY <1>5, <1>13, <2>2 DEF Activity!Failed
    <3>2. Unbroken(m, stage) => old.streamed <= are
      BY <1>4, <1>6, <1>7, <1>13
    <3> QED
      BY <1>5, <1>6, <1>9, <2>2, <3>1, <3>2
  <2> QED
    BY <2>1, <2>2
<1>14. recent' \in {None} \cup Attributions /\ \E e \in Tallies : entries' = [entries EXCEPT ![m] = e] /\ Fine(e)
  <2>1. \/ line.kind = "prediction" /\ Activity!Finished(m, TRUE)
        \/ line.kind = "finished" /\ Activity!Finished(m, FALSE)
        \/ line.kind = "failed" /\ Activity!Failed(m)
    BY DEF Activity!Apply, Closing, line, m
  <2> QED
    BY <1>12, <1>13, <2>1
<1> QED
  BY <1>14 DEF line, m, before, are


\* After a closing line: what was missed is forgotten with the last request told of.
LEMMA TalliesClose ==
    ASSUME ActivityInv, Heard # <<>>, Head(Heard).kind \in Closing, Activity!Apply(Head(Heard)),
           open' = ToldAfter(open, Head(Heard)), blind' = (blind /\ open' # {})
    PROVE  /\ recent' \in {None} \cup Attributions /\ entries' \in [Tags -> Tallies]
           /\ \A m \in Tags : TallyFits(m, entries'[m], Tail(Heard), open', blind', stage)
<1> DEFINE line == Head(Heard)
           rest == Tail(Heard)
           n == OfActivity.modelOf[line.of]
           Before(m) == Cardinality(ToldOf(m, open))
           Now(m) == Cardinality(ToldOf(m, open'))
           Were(m) == Cardinality(Announced(m, Heard, open, stage))
           Are(m) == Cardinality(Announced(m, rest, open', stage))
<1>1. /\ LinesFit(Heard, open, stage) /\ stage \in [Asked -> Stages] /\ open \in SUBSET Asked
      /\ entries \in [Tags -> Tallies] /\ blind \in BOOLEAN
  BY DEF ActivityInv, ActivityTypeOK
<1>2. line.of \in Asked /\ open' \in SUBSET Asked
  BY <1>1, LineRead DEF Told
<1>3. n \in Tags
  BY <1>2 DEF Tags, Activity!Models, Asked
<1>4. open' = open \ {line.of}
  BY DEF ToldAfter, Closing
<1>5. PICK e \in Tallies :
         /\ entries' = [entries EXCEPT ![n] = e]
         /\ Tallied(e)
         /\ Unbroken(n, stage) => Len(e.starts) <= Before(n) - 1 /\ e.streamed <= Are(n)
         /\ ~blind => Len(e.starts) >= Before(n) - 1
         /\ e.starts # <<>> /\ ~e.overlapped => e = entries[n]
  BY Closes
<1>6. recent' \in {None} \cup Attributions
  BY Closes
<1>7. ASSUME NEW m
      PROVE  /\ Before(m) \in Nat /\ Now(m) \in Nat /\ Were(m) \in Nat /\ Are(m) \in Nat
             /\ n # m => Now(m) = Before(m) /\ Were(m) <= Are(m)
             /\ n = m => Now(m) = Before(m) - 1
  <2> DEFINE after == ToldAfter(open, line)
             now_ == Cardinality(ToldOf(m, after))
             are_ == Cardinality(Announced(m, rest, after, stage))
  <2>1. Before(m) \in Nat /\ now_ \in Nat /\ Were(m) \in Nat /\ are_ \in Nat
    BY <1>1, ReadCounts
  <2>1a. n # m => now_ = Before(m) /\ Were(m) <= are_
    BY <1>1, ReadCounts
  <2>1b. n = m => now_ = Before(m) - 1
    BY <1>1, CloseCounts
  <2>2. now_ = Now(m) /\ are_ = Are(m)
    OBVIOUS
  <2> QED
    BY <2>1, <2>1a, <2>1b, <2>2
<1>8. open' = {} => \A m : Now(m) = 0
  <2>1. open' = {} => \A m : ToldOf(m, open') = {}
    BY DEF ToldOf
  <2> QED
    BY <2>1, FS_EmptySet
<1>8a. ~blind' => ~blind \/ open' = {}
  BY Zenon
<1>9. \A m \in Tags : /\ entries[m] \in Tallies /\ TallyFits(m, entries[m], Heard, open, blind, stage)
                       /\ entries[m].streamed \in Nat /\ Len(entries[m].starts) \in Nat
  BY <1>1 DEF ActivityInv, Tallies
<1> HIDE DEF line, rest, n, Before, Now, Were, Are
<1>10. ASSUME NEW m \in Tags, m # n PROVE TallyFits(m, entries'[m], rest, open', blind', stage)
  <2>1. entries'[m] = entries[m]
    BY <1>1, <1>5, <1>10
  <2>2. /\ Tallied(entries[m])
        /\ Unbroken(m, stage) => Len(entries[m].starts) <= Before(m) /\ entries[m].streamed <= Were(m)
        /\ ~blind => Len(entries[m].starts) >= Before(m)
        /\ ~blind /\ ~entries[m].overlapped /\ entries[m].starts # <<>> => open \subseteq {Head(entries[m].starts)}
    BY <1>9 DEF TallyFits, Before, Were
  <2>3. /\ Before(m) \in Nat /\ Now(m) = Before(m) /\ Were(m) \in Nat /\ Are(m) \in Nat /\ Were(m) <= Are(m)
        /\ Len(entries[m].starts) \in Nat /\ entries[m].streamed \in Nat
    BY <1>7, <1>9, <1>10
  <2>3a. Unbroken(m, stage) => Len(entries[m].starts) <= Now(m) /\ entries[m].streamed <= Are(m)
    BY <2>2, <2>3
  <2>3b. ~blind' => Len(entries[m].starts) >= Now(m)
    BY <1>8, <1>8a, <2>2, <2>3
  <2>4. ~blind' /\ ~entries[m].overlapped /\ entries[m].starts # <<>> => open' \subseteq {Head(entries[m].starts)}
    BY <1>4, <1>8a, <2>2
  <2> QED
    BY <2>1, <2>2, <2>3a, <2>3b, <2>4 DEF TallyFits, Now, Are
<1>11. TallyFits(n, entries'[n], rest, open', blind', stage)
  <2>1. entries'[n] = e /\ Len(e.starts) \in Nat
    BY <1>1, <1>3, <1>5 DEF Tallies
  <2>2. Now(n) = Before(n) - 1
    BY <1>7
  <2>2a. Unbroken(n, stage) => Len(e.starts) <= Now(n) /\ e.streamed <= Are(n)
    BY <1>5, <2>2
  <2>2b. ~blind' => Len(e.starts) >= Now(n)
    BY <1>5, <1>8, <1>8a, <2>1, <2>2
  <2>3. ~blind' /\ ~e.overlapped /\ e.starts # <<>> => open' \subseteq {Head(e.starts)}
    <3>1. e.starts # <<>> /\ ~e.overlapped => e = entries[n]
      BY <1>5
    <3>2. ~blind /\ ~entries[n].overlapped /\ entries[n].starts # <<>> => open \subseteq {Head(entries[n].starts)}
      BY <1>3, <1>9 DEF TallyFits
    <3> QED
      BY <1>4, <1>8a, <3>1, <3>2
  <2> QED
    BY <1>5, <2>1, <2>2a, <2>2b, <2>3 DEF TallyFits, Now, Are
<1>12. entries' \in [Tags -> Tallies]
  BY <1>1, <1>3, <1>5
<1> QED
  BY <1>6, <1>10, <1>11, <1>12 DEF rest

LEMMA TalliesStream ==
    ASSUME ActivityInv, Heard # <<>>, Head(Heard).kind = "streaming", Activity!Apply(Head(Heard))
    PROVE  /\ UNCHANGED <<recent, pending, open, blind>> /\ entries' \in [Tags -> Tallies]
           /\ \A m \in Tags : TallyFits(m, entries'[m], Tail(Heard), open, blind, stage)
<1> DEFINE line == Head(Heard)
           rest == Tail(Heard)
           n == OfActivity.modelOf[line.of]
           k == IF entries[n].streamed < Len(entries[n].starts) THEN entries[n].streamed + 1 ELSE entries[n].streamed
           e == [entries[n] EXCEPT !.streamed = k]
           Before(m) == Cardinality(ToldOf(m, open))
           Were(m) == Cardinality(Announced(m, Heard, open, stage))
           Are(m) == Cardinality(Announced(m, rest, open, stage))
<1>1. /\ LinesFit(Heard, open, stage) /\ stage \in [Asked -> Stages] /\ open \in SUBSET Asked
      /\ entries \in [Tags -> Tallies] /\ blind \in BOOLEAN
  BY DEF ActivityInv, ActivityTypeOK
<1>2. line.of \in Asked
  BY <1>1, LineRead DEF Told
<1>3. n \in Tags
  BY <1>2 DEF Tags, Activity!Models, Asked
<1>4. ToldAfter(open, line) = open
  BY DEF ToldAfter
<1>5. \A m : /\ Before(m) \in Nat /\ Were(m) \in Nat /\ Are(m) \in Nat
             /\ n # m => Were(m) <= Are(m)
             /\ n = m => Were(m) + 1 <= Are(m)
  BY <1>1, <1>4, ReadCounts
<1>6. entries' = [entries EXCEPT ![n] = e] /\ UNCHANGED <<recent, pending, open, blind>>
  BY DEF Activity!Apply, Activity!Streaming, Activity!Active
<1>7. \A m \in Tags : /\ entries[m] \in Tallies /\ TallyFits(m, entries[m], Heard, open, blind, stage)
                       /\ entries[m].streamed \in Nat
  BY <1>1 DEF ActivityInv, Tallies
<1>8. e \in Tallies /\ e.starts = entries[n].starts /\ e.overlapped = entries[n].overlapped /\ e.streamed = k /\ k <= entries[n].streamed + 1
  <2>1. k \in Nat /\ k <= entries[n].streamed + 1
    BY <1>3, <1>7
  <2> HIDE DEF k
  <2>2. e = [starts |-> entries[n].starts, streamed |-> k, overlapped |-> entries[n].overlapped]
    BY <1>3, <1>7 DEF Tallies
  <2> HIDE DEF e
  <2> QED
    BY <1>3, <1>7, <2>1, <2>2 DEF Tallies
<1>9. Tallied(e)
  <2>1. CASE entries[n].starts = <<>>
    <3>1. entries[n] = Activity!Idle
      BY <1>3, <1>7, <2>1 DEF TallyFits, Tallied
    <3>2. k = entries[n].streamed
      BY <3>1, IdleFacts
    <3>3. e = entries[n]
      BY <1>3, <1>7, <3>2 DEF Tallies
    <3> QED
      BY <3>1, <3>3, IdleFacts
  <2>2. CASE entries[n].starts # <<>>
    <3>1. Tallied(entries[n])
      BY <1>3, <1>7 DEF TallyFits
    <3> HIDE DEF e, n
    <3> QED
      BY <1>8, <2>2, <3>1 DEF Tallied
  <2> QED
    BY <2>1, <2>2
<1> HIDE DEF line, rest, n, e, k
<1>10. ASSUME NEW m \in Tags, m # n PROVE TallyFits(m, entries'[m], rest, open, blind, stage)
  <2>1. entries'[m] = entries[m]
    BY <1>1, <1>6, <1>10
  <2>2. Were(m) <= Are(m) /\ Were(m) \in Nat /\ Are(m) \in Nat /\ entries[m].streamed \in Nat
    BY <1>5, <1>7, <1>10
  <2>3. Unbroken(m, stage) => entries[m].streamed <= Are(m)
    BY <1>7, <2>2 DEF TallyFits
  <2> QED
    BY <1>7, <2>1, <2>3 DEF TallyFits
<1>11. TallyFits(n, entries'[n], rest, open, blind, stage)
  <2>1. entries'[n] = e
    BY <1>1, <1>3, <1>6
  <2>2. Unbroken(n, stage) => e.streamed <= Are(n)
    <3>1. Unbroken(n, stage) => entries[n].streamed <= Were(n)
      BY <1>3, <1>7 DEF TallyFits
    <3>2. e.streamed \in Nat
      BY <1>8 DEF Tallies
    <3> QED
      BY <1>3, <1>5, <1>7, <1>8, <3>1, <3>2
  <2> QED
    BY <1>3, <1>7, <1>8, <1>9, <2>1, <2>2 DEF TallyFits
<1>12. entries' \in [Tags -> Tallies]
  BY <1>1, <1>3, <1>6, <1>8
<1> QED
  BY <1>6, <1>10, <1>11, <1>12 DEF rest


\* What a start leaves of a tally.
Overlapped(e, starts, overlapping) ==
    [starts |-> starts, streamed |-> e.streamed, overlapped |-> starts # <<>> /\ (e.overlapped \/ overlapping)]

LEMMA StartSets ==
    ASSUME ActivityInv, NEW r \in Asked, Activity!Started(r)
    PROVE  \A m \in Tags : entries'[m] = Overlapped(entries[m],
               IF m = OfActivity.modelOf[r] THEN Append(entries[m].starts, r) ELSE entries[m].starts, Activity!InFlight # {})
<1> DEFINE f == [m \in Tags |->
                   LET entry == IF m = OfActivity.modelOf[r]
                                THEN [entries[m] EXCEPT !.starts = Append(@, r)] ELSE entries[m]
                   IN  [entry EXCEPT !.overlapped =
                           entry.starts # <<>> /\ Activity!Overlaps(entries[m], Activity!InFlight # {})]]
<1>1. entries' = f
  BY Zenon DEF Activity!Started, Tags
<1>2. entries \in [Tags -> Tallies]
  BY DEF ActivityInv, ActivityTypeOK
<1> SUFFICES ASSUME NEW m \in Tags
             PROVE  f[m] = Overlapped(entries[m],
                        IF m = OfActivity.modelOf[r] THEN Append(entries[m].starts, r) ELSE entries[m].starts, Activity!InFlight # {})
  BY <1>1
<1> DEFINE e == entries[m]
           over(starts) == starts # <<>> /\ Activity!Overlaps(e, Activity!InFlight # {})
<1>3. e = [starts |-> e.starts, streamed |-> e.streamed, overlapped |-> e.overlapped]
  BY <1>2 DEF Tallies
<1>4. CASE m = OfActivity.modelOf[r]
  <2> DEFINE starts == Append(e.starts, r)
             entry == [e EXCEPT !.starts = starts]
  <2>1. entry = [starts |-> starts, streamed |-> e.streamed, overlapped |-> e.overlapped]
    BY <1>3
  <2>2. f[m] = [entry EXCEPT !.overlapped = over(entry.starts)]
    BY <1>4
  <2> HIDE DEF entry, starts, f, over
  <2>3. entry.starts = starts /\ [entry EXCEPT !.overlapped = over(starts)] = [starts |-> starts, streamed |-> e.streamed, overlapped |-> over(starts)]
    BY <2>1
  <2>4. f[m] = [starts |-> starts, streamed |-> e.streamed, overlapped |-> over(starts)]
    BY <2>2, <2>3
  <2> QED
    BY <1>4, <2>4, Zenon DEF Overlapped, over, starts, Activity!Overlaps
<1>5. CASE m # OfActivity.modelOf[r]
  <2>1. f[m] = [e EXCEPT !.overlapped = over(e.starts)]
    BY <1>5
  <2> HIDE DEF f, over, e
  <2>2. [e EXCEPT !.overlapped = over(e.starts)] = [starts |-> e.starts, streamed |-> e.streamed, overlapped |-> over(e.starts)]
    BY <1>3
  <2>3. f[m] = [starts |-> e.starts, streamed |-> e.streamed, overlapped |-> over(e.starts)]
    BY <2>1, <2>2
  <2> QED
    BY <1>5, <2>3, Zenon DEF Overlapped, over, e, Activity!Overlaps
<1> QED
  BY <1>4, <1>5

LEMMA OverlappedFacts ==
    ASSUME NEW e \in Tallies, NEW starts \in Seq(Asked), NEW overlapping \in BOOLEAN
    PROVE  /\ Overlapped(e, starts, overlapping) \in Tallies
           /\ Overlapped(e, starts, overlapping).starts = starts /\ Overlapped(e, starts, overlapping).streamed = e.streamed
           /\ starts # <<>> /\ ~Overlapped(e, starts, overlapping).overlapped => ~e.overlapped /\ ~overlapping
           /\ starts = <<>> => ~Overlapped(e, starts, overlapping).overlapped
<1> DEFINE b == starts # <<>> /\ (e.overlapped \/ overlapping)
           o == Overlapped(e, starts, overlapping)
<1>1. b \in BOOLEAN
  BY Zenon
<1>2. o = [starts |-> starts, streamed |-> e.streamed, overlapped |-> b]
  BY Zenon DEF Overlapped
<1>3. e.streamed \in Nat
  BY DEF Tallies
<1>4. starts # <<>> /\ ~b => ~e.overlapped /\ ~overlapping
  BY Zenon
<1>5. starts = <<>> => ~b
  BY Zenon
<1> HIDE DEF b, o
<1>6. o \in Tallies
  BY <1>1, <1>2, <1>3 DEF Tallies
<1>7. o.starts = starts /\ o.streamed = e.streamed /\ o.overlapped = b
  BY <1>2, Zenon
<1> QED
  BY <1>4, <1>5, <1>6, <1>7, Zenon DEF o

LEMMA TalliesStart ==
    ASSUME ActivityInv, Heard # <<>>, Head(Heard).kind = "started", Activity!Apply(Head(Heard))
    PROVE  /\ UNCHANGED <<recent, pending, blind>> /\ entries' \in [Tags -> Tallies] /\ open' = ToldAfter(open, Head(Heard))
           /\ \A m \in Tags : TallyFits(m, entries'[m], Tail(Heard), open', blind, stage)
<1> DEFINE line == Head(Heard)
           rest == Tail(Heard)
           r == line.of
           n == OfActivity.modelOf[r]
           overlapping == Activity!InFlight # {}
           Starts(m) == IF m = n THEN Append(entries[m].starts, r) ELSE entries[m].starts
           Before(m) == Cardinality(ToldOf(m, open))
           Now(m) == Cardinality(ToldOf(m, ToldAfter(open, line)))
           Were(m) == Cardinality(Announced(m, Heard, open, stage))
           Are(m) == Cardinality(Announced(m, rest, ToldAfter(open, line), stage))
<1>1. /\ LinesFit(Heard, open, stage) /\ stage \in [Asked -> Stages] /\ open \in SUBSET Asked
      /\ entries \in [Tags -> Tallies] /\ blind \in BOOLEAN
  BY DEF ActivityInv, ActivityTypeOK
<1>2. r \in Asked
  BY <1>1, LineRead DEF Told
<1>3. n \in Tags
  BY <1>2 DEF Tags, Activity!Models, Asked
<1>4. Activity!Started(r) /\ UNCHANGED pending
  BY DEF Activity!Apply, Activity!Started
<1>5. open' = open \cup {r} /\ open' = ToldAfter(open, line) /\ UNCHANGED <<recent, blind>>
  BY <1>4 DEF Activity!Started, ToldAfter
<1>6. \A m : /\ Before(m) \in Nat /\ Now(m) \in Nat /\ Were(m) \in Nat /\ Are(m) \in Nat /\ Were(m) <= Are(m)
             /\ n # m => Now(m) = Before(m)
  BY <1>1, ReadCounts
<1>6a. Now(n) = Before(n) + 1
  BY <1>1, StartCounts
<1>7. \A m \in Tags : entries'[m] = Overlapped(entries[m], Starts(m), overlapping)
  BY <1>2, <1>4, StartSets
<1>8. \A m \in Tags : /\ entries[m] \in Tallies /\ TallyFits(m, entries[m], Heard, open, blind, stage)
                       /\ entries[m].streamed \in Nat /\ entries[m].starts \in Seq(Asked) /\ Len(entries[m].starts) \in Nat
  BY <1>1 DEF ActivityInv, Tallies
<1>9. overlapping \in BOOLEAN /\ (overlapping <=> \E m \in Tags : Len(entries[m].starts) > 0)
  BY DEF Activity!InFlight, Activity!Active, Tags
<1> HIDE DEF line, rest, r, n, overlapping, Before, Now, Were, Are, Starts
<1>10. ASSUME NEW m \in Tags
       PROVE  /\ Starts(m) \in Seq(Asked)
              /\ m # n => Starts(m) = entries[m].starts
              /\ m = n => Starts(m) # <<>> /\ Len(Starts(m)) = Len(entries[m].starts) + 1
              /\ m = n /\ entries[m].starts = <<>> => Head(Starts(m)) = r
  <2>1. CASE m = n
    <3>1. Starts(m) = Append(entries[m].starts, r) /\ entries[m].starts \in Seq(Asked)
      BY <1>8, <2>1 DEF Starts
    <3> QED
      BY <1>2, <2>1, <3>1
  <2>2. CASE m # n
    BY <1>8, <2>2 DEF Starts
  <2> QED
    BY <2>1, <2>2
<1>11. ASSUME NEW m \in Tags
       PROVE  /\ entries'[m] \in Tallies /\ entries'[m].starts = Starts(m) /\ entries'[m].streamed = entries[m].streamed
              /\ Starts(m) # <<>> /\ ~entries'[m].overlapped => ~entries[m].overlapped /\ ~overlapping
              /\ Starts(m) = <<>> => ~entries'[m].overlapped
  BY <1>7, <1>8, <1>9, <1>10, OverlappedFacts
<1>12. ASSUME NEW m \in Tags PROVE Tallied(entries'[m])
  <2>1. CASE Starts(m) = <<>>
    <3>1. m # n /\ entries[m].starts = <<>>
      BY <1>10, <2>1
    <3>2. entries[m].streamed = 0
      BY <1>8, <3>1, IdleFacts DEF TallyFits, Tallied
    <3>3. entries'[m] = [starts |-> <<>>, streamed |-> 0, overlapped |-> FALSE]
      BY <1>11, <2>1, <3>2 DEF Tallies
    <3> QED
      BY <3>3, IdleFacts DEF Activity!Idle
  <2>2. CASE Starts(m) # <<>>
    <3>1. ~entries'[m].overlapped => ~overlapping
      BY <1>11, <2>2
    <3>2. ~overlapping => Len(entries[m].starts) = 0
      BY <1>8, <1>9
    <3>3. ~overlapping => Len(Starts(m)) <= 1
      BY <1>10, <3>2
    <3> QED
      BY <1>11, <2>2, <3>1, <3>3 DEF Tallied
  <2> QED
    BY <2>1, <2>2
<1>13. ASSUME NEW m \in Tags, ~blind, ~entries'[m].overlapped, Starts(m) # <<>>
       PROVE  open' \subseteq {Head(Starts(m))}
  <2>1. ~overlapping
    BY <1>11, <1>13
  <2>2. \A k \in Tags : Len(entries[k].starts) = 0 /\ entries[k].starts = <<>>
    BY <1>8, <1>9, <2>1
  <2>3. \A k \in Tags : ToldOf(k, open) = {}
    <3> SUFFICES ASSUME NEW k \in Tags PROVE ToldOf(k, open) = {}
      OBVIOUS
    <3>1. Before(k) = 0
      BY <1>6, <1>8, <1>13, <2>2 DEF TallyFits, Before
    <3>2. IsFiniteSet(ToldOf(k, open))
      BY <1>1, FewAsked DEF ToldOf
    <3> QED
      BY <3>1, <3>2, FS_EmptySet DEF Before
  <2>4. open = {}
    <3>1. \A q \in open : OfActivity.modelOf[q] \in Tags /\ q \in ToldOf(OfActivity.modelOf[q], open)
      BY <1>1 DEF ToldOf, Tags, Activity!Models, Asked
    <3> QED
      BY <2>3, <3>1
  <2>5. m = n
    BY <1>10, <1>13, <2>2
  <2> QED
    BY <1>5, <1>10, <2>2, <2>4, <2>5
<1>14. ASSUME NEW m \in Tags PROVE TallyFits(m, entries'[m], rest, open', blind, stage)
  <2>1. /\ Unbroken(m, stage) => Len(entries[m].starts) <= Before(m) /\ entries[m].streamed <= Were(m)
        /\ ~blind => Len(entries[m].starts) >= Before(m)
    BY <1>8 DEF TallyFits, Before, Were
  <2>2. /\ Before(m) \in Nat /\ Now(m) \in Nat /\ Were(m) \in Nat /\ Are(m) \in Nat /\ Were(m) <= Are(m)
        /\ m # n => Now(m) = Before(m) /\ Len(Starts(m)) = Len(entries[m].starts)
        /\ m = n => Now(m) = Before(m) + 1 /\ Len(Starts(m)) = Len(entries[m].starts) + 1
        /\ Len(entries[m].starts) \in Nat /\ entries[m].streamed \in Nat
    BY <1>6, <1>6a, <1>8, <1>10
  <2>3. /\ Unbroken(m, stage) => Len(Starts(m)) <= Now(m) /\ entries[m].streamed <= Are(m)
        /\ ~blind => Len(Starts(m)) >= Now(m)
    <3>1. CASE m = n
      <4>1. Now(m) = Before(m) + 1 /\ Len(Starts(m)) = Len(entries[m].starts) + 1
        BY <2>2, <3>1
      <4>2. ASSUME Unbroken(m, stage) PROVE Len(Starts(m)) <= Now(m) /\ entries[m].streamed <= Are(m)
        <5>1. Len(entries[m].starts) <= Before(m) /\ entries[m].streamed <= Were(m)
          BY <2>1, <4>2
        <5>2. Before(m) \in Nat /\ Were(m) \in Nat /\ Are(m) \in Nat /\ Were(m) <= Are(m)
              /\ Len(entries[m].starts) \in Nat /\ entries[m].streamed \in Nat
          BY <2>2
        <5> QED
          BY <4>1, <5>1, <5>2
      <4>3. ~blind => Len(Starts(m)) >= Now(m)
        BY <2>1, <2>2, <4>1
      <4> QED
        BY <4>2, <4>3
    <3>2. CASE m # n
      BY <2>1, <2>2, <3>2
    <3> QED
      BY <3>1, <3>2
  <2> QED
    BY <1>5, <1>11, <1>12, <1>13, <2>3 DEF TallyFits, Now, Are
<1>15. entries' \in [Tags -> Tallies]
  <2>1. DOMAIN entries' = Tags /\ entries' = [m \in Tags |-> entries'[m]]
    BY <1>4 DEF Activity!Started, Tags
  <2> QED
    BY <1>11, <2>1
<1> QED
  BY <1>4, <1>5, <1>14, <1>15 DEF rest, line


\* Whom a summary is given to.
LEMMA AttributedFacts ==
    ASSUME ActivityInv, NEW r \in open
    PROVE  /\ Activity!Attributed \in Attributions
           /\ ~Activity!Attributed.overlapped /\ ~blind =>
                 Activity!Attributed.model = OfActivity.modelOf[r] /\ Activity!Attributed.start = r
<1> DEFINE told == Activity!Attributed
<1>1. /\ entries \in [Tags -> Tallies] /\ open \in SUBSET Asked /\ recent \in {None} \cup Attributions
      /\ \A m \in Tags : TallyFits(m, entries[m], Heard, open, blind, stage)
  BY DEF ActivityInv, ActivityTypeOK
<1>2. \A m \in Tags : /\ Activity!Active(m) = Len(entries[m].starts) /\ Len(entries[m].starts) \in Nat
                       /\ entries[m].starts \in Seq(Asked) /\ entries[m].overlapped \in BOOLEAN
  BY <1>1 DEF Activity!Active, Tallies
<1>3. OfActivity.modelOf[r] \in Tags /\ r \in ToldOf(OfActivity.modelOf[r], open)
  BY <1>1 DEF Tags, Activity!Models, Asked, ToldOf
<1>4. ~blind => OfActivity.modelOf[r] \in Activity!InFlight
  <2> DEFINE m == OfActivity.modelOf[r]
  <2>1. Cardinality(ToldOf(m, open)) >= 1
    BY <1>1, <1>3, OneMore DEF ToldOf
  <2>2. Cardinality(ToldOf(m, open)) \in Nat
    BY <1>1, FewAsked DEF ToldOf
  <2> HIDE DEF m
  <2>3. ~blind => Len(entries[m].starts) >= Cardinality(ToldOf(m, open))
    BY <1>1, <1>3 DEF TallyFits, m
  <2>4. m \in Tags
    BY <1>3 DEF m
  <2>5. ~blind => Activity!Active(m) > 0
    BY <1>2, <2>1, <2>2, <2>3, <2>4
  <2> QED
    BY <2>4, <2>5 DEF Activity!InFlight, Tags, m
<1>5. CASE Activity!Single # {}
  <2> DEFINE m == CHOOSE m \in Activity!Single : TRUE
  <2>1. m \in Activity!Single
    BY <1>5
  <2>2. told = [model |-> m, start |-> Head(entries[m].starts), overlapped |-> entries[m].overlapped]
    <3>1. Activity!InFlight # {}
      BY <1>5 DEF Activity!Single
    <3> QED
      BY <1>5, <3>1 DEF Activity!Attributed
  <2> HIDE DEF m, told
  <2>3. m \in Tags /\ m \in Activity!InFlight /\ (\A n \in Activity!InFlight : n = m) /\ Activity!Active(m) = 1
    BY <2>1 DEF Activity!Single, Activity!InFlight, Tags
  <2>4. Len(entries[m].starts) = 1 /\ entries[m].starts # <<>> /\ Head(entries[m].starts) \in Asked
    <3> DEFINE starts == entries[m].starts
    <3>1. Len(starts) = 1 /\ starts \in Seq(Asked)
      BY <1>2, <2>3
    <3> HIDE DEF starts
    <3>2. starts # <<>>
      BY <3>1, EmptySeq
    <3>3. Len(starts) = 1 /\ starts # <<>> /\ Head(starts) \in Asked
      BY <3>1, <3>2
    <3> QED
      BY <3>3 DEF starts
  <2>5. told.model = m /\ told.start = Head(entries[m].starts) /\ told.overlapped = entries[m].overlapped
    BY <2>2, Zenon
  <2>6. told \in Attributions
    BY <1>2, <2>2, <2>3, <2>4 DEF Attributions
  <2>7. ~blind /\ ~entries[m].overlapped => open \subseteq {Head(entries[m].starts)}
    BY <1>1, <2>3, <2>4 DEF TallyFits
  <2>8. ~told.overlapped => ~entries[m].overlapped
    BY <2>5, Zenon
  <2> QED
    BY <1>4, <2>3, <2>5, <2>6, <2>7, <2>8 DEF told
<1>6. CASE Activity!Single = {} /\ Activity!InFlight = {} /\ recent # None
  <2>1. told = recent
    BY <1>6 DEF Activity!Attributed
  <2> QED
    BY <1>1, <1>4, <1>6, <2>1
<1>7. CASE Activity!Single = {} /\ ~(Activity!InFlight = {} /\ recent # None)
  <2>1. told = [model |-> None, start |-> None, overlapped |-> TRUE]
    BY <1>7 DEF Activity!Attributed
  <2> QED
    BY <2>1 DEF Attributions
<1> QED
  BY <1>5, <1>6, <1>7

LEMMA LastOf ==
    ASSUME NEW s \in Seq(Completions), NEW x \in Completions, NEW limit \in Nat
    PROVE  LET all == Append(s, x) kept == IF Len(all) > limit THEN Tail(all) ELSE all IN
           kept \in Seq(Completions) /\ \A i \in DOMAIN kept : kept[i] = x \/ \E j \in DOMAIN s : kept[i] = s[j]
<1> DEFINE all == Append(s, x)
           n == Len(s)
<1>1. n \in Nat /\ DOMAIN s = 1 .. n
  OBVIOUS
<1>2. /\ all \in Seq(Completions) /\ Len(all) = n + 1 /\ DOMAIN all = 1 .. n + 1
      /\ all[n + 1] = x /\ \A i \in 1 .. n : all[i] = s[i]
  OBVIOUS
<1> HIDE DEF all, n
<1>3. all # <<>>
  BY <1>1, <1>2, EmptySeq
<1>4. Tail(all) \in Seq(Completions) /\ DOMAIN Tail(all) = 1 .. n /\ \A i \in 1 .. n : Tail(all)[i] = all[i + 1]
  BY <1>1, <1>2, <1>3
<1>5. \A i \in DOMAIN all : all[i] = x \/ \E j \in DOMAIN s : all[i] = s[j]
  BY <1>1, <1>2
<1>6. \A i \in DOMAIN Tail(all) : i + 1 \in DOMAIN all /\ Tail(all)[i] = all[i + 1]
  BY <1>1, <1>2, <1>4
<1> QED
  BY <1>2, <1>4, <1>5, <1>6 DEF all

LEMMA TalliesDone ==
    ASSUME ActivityInv, Heard # <<>>, Head(Heard).kind = "done", Activity!Apply(Head(Heard))
    PROVE  /\ UNCHANGED <<entries, recent, open, blind>>
           /\ pending' \in Seq(Completions) /\ Activity!CompletionsAreOwn'
           /\ \A m \in Tags : TallyFits(m, entries[m], Tail(Heard), open, blind, stage)
<1> DEFINE line == Head(Heard)
           r == line.of
           told == Activity!Attributed
           x == [told |-> told, of |-> r, blind |-> blind]
<1>1. /\ LinesFit(Heard, open, stage) /\ stage \in [Asked -> Stages] /\ open \in SUBSET Asked
      /\ entries \in [Tags -> Tallies] /\ blind \in BOOLEAN /\ pending \in Seq(Completions)
  BY DEF ActivityInv, ActivityTypeOK
<1>2. /\ line \in Told /\ r \in Asked
      /\ line.kind = "started" <=> r \notin open
  BY <1>1, LineRead DEF Told
<1>3. r \in open
  BY <1>2
<1>4. Activity!Done(r)
  BY DEF Activity!Apply
<1>5. UNCHANGED <<entries, recent, open, blind>>
  BY <1>4 DEF Activity!Done
<1>6. told \in Attributions /\ (~told.overlapped /\ ~blind => told.model = OfActivity.modelOf[r] /\ told.start = r)
  BY <1>3, AttributedFacts
<1>7. pending' = LET all == Append(pending, x) IN IF Len(all) > OfActivity.pending THEN Tail(all) ELSE all
  BY <1>4 DEF Activity!Done
<1> HIDE DEF told
<1>8. x \in Completions /\ x.told = told /\ x.of = r
  BY <1>1, <1>2, <1>6 DEF Completions
<1>8a. ~x.blind => ~blind
  BY Zenon
<1>9. OfActivity.pending \in Nat
  BY ActivityConstants DEF ActivityFacts
<1> HIDE DEF x
<1>10. pending' \in Seq(Completions) /\ \A i \in DOMAIN pending' : pending'[i] = x \/ \E j \in DOMAIN pending : pending'[i] = pending[j]
  BY <1>1, <1>7, <1>8, <1>9, LastOf
<1>11. Activity!CompletionsAreOwn'
  <2> SUFFICES ASSUME NEW i \in DOMAIN pending', ~pending'[i].told.overlapped, ~pending'[i].blind
               PROVE  pending'[i].told.model = OfActivity.modelOf[pending'[i].of] /\ pending'[i].told.start = pending'[i].of
    BY DEF Activity!CompletionsAreOwn
  <2>1. CASE pending'[i] = x
    BY <1>6, <1>8, <1>8a, <2>1
  <2>2. ASSUME NEW j \in DOMAIN pending, pending'[i] = pending[j]
        PROVE  pending'[i].told.model = OfActivity.modelOf[pending'[i].of] /\ pending'[i].told.start = pending'[i].of
    BY <2>2 DEF ActivityInv, Activity!CompletionsAreOwn
  <2> QED
    BY <1>10, <2>1, <2>2
<1>12. ASSUME NEW m \in Tags PROVE TallyFits(m, entries[m], Tail(Heard), open, blind, stage)
  <2>1. ToldAfter(open, line) = open
    BY DEF ToldAfter
  <2>2. /\ Cardinality(Announced(m, Heard, open, stage)) \in Nat /\ Cardinality(Announced(m, Tail(Heard), open, stage)) \in Nat
        /\ Cardinality(Announced(m, Heard, open, stage)) <= Cardinality(Announced(m, Tail(Heard), open, stage))
    BY <1>1, <2>1, ReadCounts
  <2>3. TallyFits(m, entries[m], Heard, open, blind, stage) /\ entries[m].streamed \in Nat
    BY <1>1 DEF ActivityInv, Tallies
  <2>4. Unbroken(m, stage) => entries[m].streamed <= Cardinality(Announced(m, Tail(Heard), open, stage))
    BY <2>2, <2>3 DEF TallyFits
  <2> QED
    BY <2>3, <2>4 DEF TallyFits
<1> QED
  BY <1>5, <1>10, <1>11, <1>12


LEMMA LineDelivered ==
    ASSUME ActivityInv, child # None, Heard # <<>>, Activity!Apply(Head(Heard)),
           pipes' = [pipes EXCEPT ![child] = Tail(@)], UNCHANGED <<stage, app, child, port>>
    PROVE  ActivityInv'
<1> DEFINE line == Head(Heard)
           r == line.of
           after == ToldAfter(open, line)
<1>1. /\ ActivityTypeOK /\ LinesFit(Heard, open, stage) /\ stage \in [Asked -> Stages] /\ open \in SUBSET Asked
      /\ \A q \in open : stage[q] # "idle"
      /\ entries \in [Tags -> Tallies] /\ blind \in BOOLEAN /\ pipes \in Seq(Seq(Told)) /\ pending \in Seq(Completions)
      /\ recent \in {None} \cup Attributions
  BY DEF ActivityInv, ActivityTypeOK
<1>2. child \in DOMAIN pipes /\ Heard = pipes[child] /\ Heard \in Seq(Told)
  BY <1>1 DEF ActivityTypeOK, Heard, LinesFit
<1>3. /\ line \in Told /\ LineFits(line, stage)
      /\ line.kind = "started" <=> r \notin open
      /\ after \in SUBSET Asked
      /\ LinesFit(Tail(Heard), after, stage)
      /\ \A k \in Kinds : \A q \in Asked :
            Waits(Heard, k, q) <=> [kind |-> k, of |-> q] = line \/ Waits(Tail(Heard), k, q)
  BY <1>1, LineRead
<1>4. r \in Asked /\ line.kind \in Kinds
  BY <1>3 DEF Told
<1>5. Heard' = Tail(Heard) /\ pipes' \in Seq(Seq(Told)) /\ DOMAIN pipes' = DOMAIN pipes
  <2>1. Tail(Heard) \in Seq(Told)
    BY <1>3 DEF LinesFit
  <2>2. pipes' = [pipes EXCEPT ![child] = Tail(Heard)]
    BY <1>2
  <2> QED
    BY <1>1, <1>2, <2>1, <2>2, PipesSet DEF Heard
<1> HIDE DEF line
<1>6. /\ recent' \in {None} \cup Attributions /\ entries' \in [Tags -> Tallies] /\ pending' \in Seq(Completions)
      /\ open' = after /\ blind' \in BOOLEAN /\ Activity!CompletionsAreOwn'
      /\ \A m \in Tags : TallyFits(m, entries'[m], Tail(Heard), open', blind', stage)
  <2>1. CASE line.kind = "started"
    <3>1. /\ UNCHANGED <<recent, pending, blind>> /\ entries' \in [Tags -> Tallies] /\ open' = after
          /\ \A m \in Tags : TallyFits(m, entries'[m], Tail(Heard), open', blind, stage)
      BY <2>1, TalliesStart DEF line
    <3>2. Activity!CompletionsAreOwn'
      BY <3>1 DEF ActivityInv, Activity!CompletionsAreOwn
    <3> HIDE DEF after
    <3> QED
      BY <1>1, <3>1, <3>2
  <2>2. CASE line.kind = "streaming"
    <3>1. /\ UNCHANGED <<recent, pending, open, blind>> /\ entries' \in [Tags -> Tallies]
          /\ \A m \in Tags : TallyFits(m, entries'[m], Tail(Heard), open, blind, stage)
      BY <2>2, TalliesStream DEF line
    <3>2. Activity!CompletionsAreOwn'
      BY <3>1 DEF ActivityInv, Activity!CompletionsAreOwn
    <3>3. after = open
      BY <2>2 DEF ToldAfter
    <3> HIDE DEF after
    <3> QED
      BY <1>1, <3>1, <3>2, <3>3
  <2>3. CASE line.kind = "done"
    <3>1. /\ UNCHANGED <<entries, recent, open, blind>>
          /\ pending' \in Seq(Completions) /\ Activity!CompletionsAreOwn'
          /\ \A m \in Tags : TallyFits(m, entries[m], Tail(Heard), open, blind, stage)
      BY <2>3, TalliesDone DEF line
    <3>2. after = open
      BY <2>3 DEF ToldAfter
    <3> HIDE DEF after
    <3> QED
      BY <1>1, <3>1, <3>2
  <2>4. CASE line.kind \in Closing
    <3>1. Activity!Closes(r) /\ UNCHANGED pending
      BY <2>4 DEF Activity!Apply, Closing, line
    <3>2. open' = after
      BY <2>4, <3>1 DEF Activity!Closes, ToldAfter, Closing
    <3>3. blind' = (blind /\ open' # {})
      BY <3>1, Zenon DEF Activity!Closes
    <3>4. blind' \in BOOLEAN
      BY <3>3, Zenon
    <3>5. /\ recent' \in {None} \cup Attributions /\ entries' \in [Tags -> Tallies]
          /\ \A m \in Tags : TallyFits(m, entries'[m], Tail(Heard), open', blind', stage)
      BY <2>4, <3>2, <3>3, TalliesClose DEF line
    <3>6. Activity!CompletionsAreOwn'
      BY <3>1 DEF ActivityInv, Activity!CompletionsAreOwn
    <3> HIDE DEF after
    <3> QED
      BY <1>1, <3>1, <3>2, <3>4, <3>5, <3>6
  <2> QED
    BY <1>4, <2>1, <2>2, <2>3, <2>4 DEF Kinds, Closing
<1>7. NoneMissed(Heard, open, stage) => NoneMissed(Tail(Heard), after, stage)
  <2> SUFFICES ASSUME NoneMissed(Heard, open, stage),
                      NEW q \in Asked, stage[q] \in {"started", "streaming", "summarised"}
               PROVE  q \in after \/ Waits(Tail(Heard), "started", q)
    BY DEF NoneMissed
  <2>1. q \in open \/ Waits(Heard, "started", q)
    BY DEF NoneMissed
  <2>2. CASE q \in open
    <3>1. q = r => line.kind \notin Closing
      BY <1>3 DEF LineFits, Rank, Reached, Closing
    <3> QED
      BY <2>2, <3>1 DEF ToldAfter, Closing
  <2>3. CASE Waits(Heard, "started", q)
    <3>1. [kind |-> "started", of |-> q] = line \/ Waits(Tail(Heard), "started", q)
      BY <1>3, <2>3 DEF Kinds
    <3>2. [kind |-> "started", of |-> q] = line => q \in after
      BY DEF ToldAfter
    <3> QED
      BY <3>1, <3>2
  <2> QED
    BY <2>1, <2>2, <2>3
<1>8. \A q \in after : stage[q] # "idle"
  <2>1. line.kind = "started" => stage[r] # "idle"
    BY <1>3 DEF LineFits, Rank, Reached
  <2> QED
    BY <1>1, <2>1 DEF ToldAfter
<1> HIDE DEF after
<1>9. ActivityTypeOK'
  BY <1>1, <1>2, <1>3, <1>5, <1>6 DEF ActivityTypeOK
<1>10. (child # None /\ port = app => NoneMissed(Heard, open, stage))'
  BY <1>5, <1>6, <1>7 DEF ActivityInv
<1> QED
  BY <1>3, <1>5, <1>6, <1>8, <1>9, <1>10 DEF ActivityInv

LEMMA LinesDelivered == ASSUME ActivityInv, NEW c \in DOMAIN pipes, Activity!Deliver(c) PROVE ActivityInv'
<1>1. ActivityTypeOK /\ pipes \in Seq(Seq(Told)) /\ child \in {None} \cup DOMAIN pipes
  BY DEF ActivityInv, ActivityTypeOK
<1>2. /\ pipes[c] # <<>> /\ pipes' = [pipes EXCEPT ![c] = Tail(@)]
      /\ UNCHANGED <<stage, app, child, port>>
  BY DEF Activity!Deliver, Activity!world
<1>3. CASE c = child
  <2>1. c # None
    BY <1>1, ActivityConstants DEF ActivityFacts
  <2>2. Heard = pipes[child]
    BY <1>3, <2>1 DEF Heard
  <2>3. Activity!Apply(Head(Heard))
    BY <1>3, <2>2 DEF Activity!Deliver, Activity!IsCurrent
  <2> QED
    BY <1>2, <1>3, <2>1, <2>2, <2>3, LineDelivered
<1>4. CASE c # child
  <2>1. UNCHANGED <<entries, recent, pending, open, blind>>
    BY <1>4 DEF Activity!Deliver, Activity!IsCurrent, Activity!tracker
  <2>2. pipes[c] \in Seq(Told) /\ Tail(pipes[c]) \in Seq(Told)
    BY <1>1, <1>2
  <2>3. pipes' = [pipes EXCEPT ![c] = Tail(pipes[c])]
    BY <1>2
  <2>4. /\ pipes' \in Seq(Seq(Told)) /\ DOMAIN pipes' = DOMAIN pipes
        /\ \A d \in DOMAIN pipes : d # c => pipes'[d] = pipes[d]
    BY <1>1, <2>2, <2>3, PipesSet
  <2>5. Heard' = Heard
    BY <1>1, <1>2, <1>4, <2>4 DEF Heard
  <2>6. ActivityTypeOK'
    BY <1>1, <1>2, <2>1, <2>4 DEF ActivityTypeOK
  <2>7. Activity!CompletionsAreOwn'
    BY <2>1 DEF ActivityInv, Activity!CompletionsAreOwn
  <2> QED
    BY <1>2, <2>1, <2>5, <2>6, <2>7 DEF ActivityInv
<1> QED
  BY <1>3, <1>4

----------------------------------------------------------------------------
(* The child comes and goes.                                               *)

LEMMA IdleFits ==
    ASSUME NEW told \in SUBSET Asked, NEW m, NEW lines, NEW at, NEW missed \in BOOLEAN, missed \/ told = {}
    PROVE  TallyFits(m, Activity!Idle, lines, told, missed, at)
<1>1. Cardinality(ToldOf(m, told)) \in Nat /\ Cardinality(Announced(m, lines, told, at)) \in Nat
  BY AnnouncedAsked
<1>2. told = {} => Cardinality(ToldOf(m, told)) = 0
  <2>1. told = {} => ToldOf(m, told) = {}
    BY DEF ToldOf
  <2> QED
    BY <2>1, FS_EmptySet
<1> QED
  BY <1>1, <1>2, IdleFacts DEF TallyFits

LEMMA NothingWaits ==
    ASSUME NEW told \in SUBSET Asked, NEW at
    PROVE  LinesFit(<<>>, told, at)
<1>1. <<>> \in Seq(Told) /\ DOMAIN <<>> = {}
  BY EmptySeq
<1> QED
  BY <1>1 DEF LinesFit, InOrder, StartsFirst

\* The child is gone, and with it all it told.
LEMMA ChildGoes ==
    ASSUME ActivityInv, child' = None, Activity!ResetActive, UNCHANGED <<stage, app, pipes, port>>
    PROVE  ActivityInv'
<1>1. ActivityTypeOK
  BY DEF ActivityInv
<1>2. /\ entries' = [m \in Tags |-> Activity!Idle] /\ recent' = None /\ open' = {} /\ blind' = FALSE /\ pending' = pending
  BY DEF Activity!ResetActive, Tags
<1>3. Heard' = <<>>
  BY DEF Heard
<1>4. LinesFit(Heard', open', stage')
  BY <1>2, <1>3, NothingWaits
<1>5. ASSUME NEW m \in Tags PROVE entries'[m] = Activity!Idle /\ TallyFits(m, entries'[m], Heard', open', blind', stage')
  BY <1>2, IdleFits
<1>6. ActivityTypeOK'
  BY <1>1, <1>2, IdleFacts DEF ActivityTypeOK
<1>7. Activity!CompletionsAreOwn'
  BY <1>2 DEF ActivityInv, Activity!CompletionsAreOwn
<1> QED
  BY <1>2, <1>4, <1>5, <1>6, <1>7 DEF ActivityInv

LEMMA ChildComes == ASSUME ActivityInv, Activity!Touch PROVE ActivityInv'
<1> DEFINE n == Len(pipes) + 1
<1>1. ActivityTypeOK /\ pipes \in Seq(Seq(Told)) /\ stage \in [Asked -> Stages] /\ entries \in [Tags -> Tallies]
  BY DEF ActivityInv, ActivityTypeOK
<1>2. /\ port' = app /\ child' = n /\ pipes' = Append(pipes, <<>>)
      /\ open' = Activity!Running /\ UNCHANGED <<stage, app, pending>>
  BY DEF Activity!Touch, Activity!world
<1>3. blind' = (Activity!Running # {})
  BY Zenon DEF Activity!Touch
<1>4. <<>> \in Seq(Told)
  BY EmptySeq
<1>5. pipes' \in Seq(Seq(Told)) /\ DOMAIN pipes' = 1 .. n /\ pipes'[n] = <<>> /\ n \in Nat /\ n \in 1 .. n
  BY <1>1, <1>2, <1>4
<1>6. child' # None /\ Heard' = <<>>
  BY <1>2, <1>5, ActivityConstants DEF Heard, ActivityFacts
<1>7. Activity!Running = {r \in Asked : stage[r] \in {"started", "streaming", "summarised"}}
  BY DEF Activity!Running, Asked
<1>8. (\A m \in Tags : entries'[m] = Activity!Idle) /\ entries' \in [Tags -> Tallies] /\ recent' \in {None} \cup Attributions
  <2>1. CASE child = None
    <3>1. \A m \in Tags : entries[m] = Activity!Idle
      BY <2>1 DEF ActivityInv
    <3>2. recent' \in {recent, None} /\ (entries' = entries \/ entries' = [m \in Tags |-> Activity!Idle])
      BY DEF Activity!Touch, Tags
    <3> QED
      BY <1>1, <3>1, <3>2, IdleFacts DEF ActivityTypeOK
  <2>2. CASE child # None
    <3>1. entries' = [m \in Tags |-> Activity!Idle] /\ recent' = None
      BY <2>2 DEF Activity!Touch, Tags
    <3> QED
      BY <3>1, IdleFacts
  <2> QED
    BY <2>1, <2>2
<1>9. open' \in SUBSET Asked /\ blind' \in BOOLEAN /\ (blind' \/ open' = {})
  BY <1>2, <1>3, <1>7, Zenon
<1> HIDE DEF n
<1>10. LinesFit(Heard', open', stage')
  BY <1>6, <1>9, NothingWaits
<1>11. NoneMissed(Heard', open', stage')
  BY <1>2, <1>7 DEF NoneMissed
<1>12. ASSUME NEW m \in Tags PROVE TallyFits(m, entries'[m], Heard', open', blind', stage')
  BY <1>8, <1>9, IdleFits
<1>13. ActivityTypeOK'
  BY <1>1, <1>2, <1>5, <1>8, <1>9 DEF ActivityTypeOK
<1>14. Activity!CompletionsAreOwn'
  BY <1>2 DEF ActivityInv, Activity!CompletionsAreOwn
<1>15. \A q \in open' : stage'[q] # "idle"
  BY <1>2, <1>7
<1> QED
  BY <1>6, <1>10, <1>11, <1>12, <1>13, <1>14, <1>15 DEF ActivityInv

LEMMA TalliesAge == ASSUME ActivityInv, NEW old, Activity!View(old) PROVE ActivityInv'
<1>1. ActivityTypeOK /\ entries \in [Tags -> Tallies] /\ open \in SUBSET Asked /\ blind \in BOOLEAN
  BY DEF ActivityInv, ActivityTypeOK
<1>2. /\ UNCHANGED <<stage, app, pipes, child, port, recent, open>> /\ pending' = <<>>
      /\ entries' = [m \in Tags |-> IF m \in old THEN Activity!Idle ELSE entries[m]]
  BY DEF Activity!View, Activity!world, Activity!stream, Tags
<1>3. blind' = (blind \/ old # {})
  BY Zenon DEF Activity!View
<1>4. blind' \in BOOLEAN /\ (blind => blind') /\ (old # {} => blind') /\ (old = {} => blind' = blind)
  BY <1>1, <1>3, Zenon
<1>5. Heard' = Heard
  BY <1>2 DEF Heard
<1>6. ASSUME NEW m \in Tags PROVE TallyFits(m, entries'[m], Heard', open', blind', stage')
  <2>1. CASE m \in old
    <3>1. entries'[m] = Activity!Idle /\ blind'
      BY <1>2, <1>4, <2>1
    <3> QED
      BY <1>1, <1>2, <1>4, <3>1, IdleFits
  <2>2. CASE m \notin old
    <3>1. entries'[m] = entries[m] /\ TallyFits(m, entries[m], Heard, open, blind, stage)
      BY <1>2, <2>2 DEF ActivityInv
    <3> QED
      BY <1>2, <1>4, <1>5, <3>1 DEF TallyFits
  <2> QED
    BY <2>1, <2>2
<1>7. entries' \in [Tags -> Tallies]
  BY <1>1, <1>2, IdleFacts
<1>8. pending' \in Seq(Completions) /\ Activity!CompletionsAreOwn'
  BY <1>2, EmptySeq DEF Activity!CompletionsAreOwn
<1>9. ActivityTypeOK'
  BY <1>1, <1>2, <1>4, <1>7, <1>8 DEF ActivityTypeOK
<1>10. child = None => \A m \in Tags : entries'[m] = Activity!Idle
  BY <1>2 DEF ActivityInv
<1> QED
  BY <1>2, <1>5, <1>6, <1>8, <1>9, <1>10 DEF ActivityInv

LEMMA ActivityStays ==
    ASSUME ActivityInv, UNCHANGED <<stage, app, pipes, child, port, entries, pending, open, blind>>,
           recent' \in {recent, None}
    PROVE  ActivityInv'
<1>1. Heard' = Heard
  BY DEF Heard
<1>2. ActivityTypeOK'
  BY DEF ActivityInv, ActivityTypeOK
<1>3. Activity!CompletionsAreOwn'
  BY DEF ActivityInv, Activity!CompletionsAreOwn
<1> QED
  BY <1>1, <1>2, <1>3 DEF ActivityInv

LEMMA ActivityStarts == Activity!ActivityInit => ActivityInv
<1> SUFFICES ASSUME Activity!ActivityInit PROVE ActivityInv
  OBVIOUS
<1>1. /\ stage = [r \in Asked |-> "idle"] /\ pipes = <<>> /\ child = None /\ entries = [m \in Tags |-> Activity!Idle]
      /\ recent = None /\ pending = <<>> /\ open = {} /\ blind = FALSE
  BY Zenon DEF Activity!ActivityInit, Asked, Tags
<1>2. Heard = <<>>
  BY <1>1 DEF Heard
<1>3. LinesFit(Heard, open, stage)
  BY <1>1, <1>2, NothingWaits
<1>4. ASSUME NEW m \in Tags PROVE entries[m] = Activity!Idle /\ TallyFits(m, entries[m], Heard, open, blind, stage)
  BY <1>1, IdleFits
<1>5. ActivityTypeOK
  BY <1>1, IdleFacts, EmptySeq DEF ActivityTypeOK, Stages
<1>6. Activity!CompletionsAreOwn
  BY <1>1, EmptySeq DEF Activity!CompletionsAreOwn
<1> QED
  BY <1>1, <1>3, <1>4, <1>5, <1>6 DEF ActivityInv

LEMMA ActivityKeeps == ASSUME ActivityInv, Activity!ActivityNext PROVE ActivityInv'
<1>1. ASSUME NEW r \in Asked,
             Activity!Run(r) \/ Activity!Stream(r) \/ Activity!Summarise(r) \/ Activity!Finish(r) \/ Activity!Fail(r)
      PROVE  ActivityInv'
  BY <1>1, RequestsGo
<1>2. CASE \E p \in OfActivity.ports : Activity!Restart(p)
  BY <1>2, AppRestarts
<1>3. CASE \E c \in DOMAIN pipes : Activity!Deliver(c)
  BY <1>3, LinesDelivered
<1>4. CASE Activity!Stop \/ \E output \in BOOLEAN : Activity!Exit(output)
  <2>1. child' = None /\ Activity!ResetActive /\ UNCHANGED <<stage, app, pipes, port>>
    BY <1>4 DEF Activity!Stop, Activity!Exit, Activity!world
  <2> QED
    BY <2>1, ChildGoes
<1>5. CASE Activity!BackedOff \/ Activity!Lapse
  <2>1. UNCHANGED <<stage, app, pipes, child, port, entries, pending, open, blind>> /\ recent' \in {recent, None}
    BY <1>5 DEF Activity!BackedOff, Activity!Lapse, Activity!world, Activity!stream, Activity!tracker
  <2> QED
    BY <2>1, ActivityStays
<1>6. CASE \E old \in SUBSET Activity!Models : Activity!View(old)
  BY <1>6, TalliesAge
<1> QED
  BY <1>1, <1>2, <1>3, <1>4, <1>5, <1>6, ChildComes DEF Activity!ActivityNext, Asked

LEMMA ActivityTellsTrue == ActivityInv => Activity!ActivityIsTrue
<1> SUFFICES ASSUME ActivityInv PROVE Activity!TallyIsTrue
  BY DEF ActivityInv, Activity!ActivityIsTrue
<1> SUFFICES ASSUME ~blind, NEW m \in Tags
             PROVE  /\ Activity!Active(m) >= Cardinality(ToldOf(m, open))
                    /\ Unbroken(m, stage) => Activity!Active(m) = Cardinality(ToldOf(m, open))
  BY ActivityCount DEF Activity!TallyIsTrue, Activity!OpenOf, ToldOf, Unbroken, Tags, Asked
<1>1. TallyFits(m, entries[m], Heard, open, blind, stage) /\ Activity!Active(m) = Len(entries[m].starts)
  BY DEF ActivityInv, Activity!Active
<1>2. Len(entries[m].starts) \in Nat /\ Cardinality(ToldOf(m, open)) \in Nat
  BY FewAsked DEF ActivityInv, ActivityTypeOK, Tallies, ToldOf
<1> QED
  BY <1>1, <1>2 DEF TallyFits

ActivityPart == part = "activity" => ActivityInv

\* A completion not marked as overlapped is told of its own request, its tag and its
\* start, as long as its child missed nothing; and the requests shown in flight are those
\* the lines leave unfinished, never fewer, and more only of a tag one of whose requests
\* failed as it streamed: however many requests run beside each other, however long their
\* lines wait, and however often the child, the application or the port changes.
THEOREM ActivityIsToldTrue == Spec => []ActivityIsTrue
<1>1. Init => ActivityPart
  BY ActivityStarts DEF Init, ActivityPart
<1>2. ActivityPart /\ [Next]_vars => ActivityPart'
  <2> SUFFICES ASSUME ActivityPart, [Next]_vars, part' = "activity" PROVE ActivityInv'
    BY DEF ActivityPart
  <2>1. CASE ActivitySteps
    BY <2>1, ActivityKeeps DEF ActivitySteps, ActivityPart
  <2>2. CASE UNCHANGED vars
    <3>1. part = "activity" /\ UNCHANGED <<stage, app, pipes, child, port, entries, recent, pending, open, blind>>
      BY <2>2 DEF vars, activity
    <3> QED
      BY <3>1, ActivityStays DEF ActivityPart
  <2> QED
    BY <2>1, <2>2 DEF Next, LlamaSteps, WatchSteps, SplashSteps, OmlxSteps, StudioSteps
<1>3. ActivityPart => ActivityIsTrue
  BY ActivityTellsTrue DEF ActivityPart, ActivityIsTrue
<1> QED
  BY <1>1, <1>2, <1>3, PTL DEF Spec

==============================================================================
