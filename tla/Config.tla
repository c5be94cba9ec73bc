------------------------------- MODULE Config -------------------------------
(***************************************************************************)
(* service/config.ts and the part of service/runtime-client.ts that uses   *)
(* it: which connections the user's own files declare, with which key each *)
(* is read, and how a configuration is shared by the requests of a few     *)
(* seconds.  OpenCode's documents are merged in their order, the current   *)
(* layout of a provider hides the former one, a saved key may come from    *)
(* OpenCode's credentials or from oMLX's own settings, and everything but  *)
(* a loopback endpoint is left out.  The files are read one after the      *)
(* other, those beside a document again for each value that refers to one, *)
(* while the user edits them.  A file holds one of a few contents; a value *)
(* in a document is an endpoint, a key, a reference to a file beside it or *)
(* one that cannot be resolved.  Names, labels, limits on their length and *)
(* variables a provider names for its key are left out.                    *)
(***************************************************************************)
EXTENDS Integers, Sequences, SequencesExt, FiniteSetsExt

CONSTANTS
    Caller,         \* requests in progress
    Document,       \* OpenCode's documents, the last one wins: a sequence
    Provider,       \* provider ids in the order of the documents: a sequence
    Contents,       \* file -> what it may hold: Document, "native", "auth" and those of Beside
    Disks,          \* what the files hold at first
    Beside,         \* document -> reference -> the file beside it
    Local,          \* the endpoints parseLocalOrigin takes
    Hint,           \* hintFor: id -> the runtime it names, or None
    Serves,         \* endpoint -> the runtime a probe finds there, or None
    Environment,    \* what MLX_SCOPE_BASE_URL and its key may say: [base, key]
    Select,         \* what a request may ask: [provider, runtime], each may be None
    Chooser,        \* how many connections are offered
    CacheLife,      \* configAt + 5000
    None,
    MaxNow, MaxEdits

Keyless == {"lmstudio", "mlx-lm", "vllm-mlx"}   \* not given oMLX's own key
Reference == {"{base}", "{key}"}
File == ToSet(Document) \cup {"native", "auth"}

VARIABLES
    now, edits,
    env,        \* the service's environment
    disk,       \* file -> its content
    configFlight,   \* configFlight: what it read of each file, what the values that refer to a
                    \* file were told, and, for history, the disks meanwhile; or None
    cache,      \* configuration and configAt: [value, disks, at], or None
    callers,    \* caller -> [sel, asked, cfg], cfg None while it waits; or None
    detected    \* id -> the runtime its automatic slot found, or None

configVars == <<now, edits, env, disk, configFlight, cache, callers, detected>>

----------------------------------------------------------------------------
(* resolveRuntimeConnections, given what was read of each file.            *)

IsRead(got, file) == got[file].status = "ok"

IssueOf(status) == IF status = "malformed" THEN "malformed_config" ELSE "unreadable_config"

\* statusOf, and the issue that stops everything but an explicit environment.
FileIssue(got) ==
    LET status == {got[d].status : d \in ToSet(Document)}
    IN  IF "malformed" \in status THEN IssueOf("malformed")
        ELSE IF "unreadable" \in status THEN IssueOf("unreadable") ELSE "none"

\* The documents that say something of a provider in a layout.
Saying(got, layout, id) ==
    {n \in DOMAIN Document : IsRead(got, Document[n]) /\ got[Document[n]][layout][id] # None}

\* Mutant: the first document that has the field gives it.
FieldOfFirst(got, layout, id, field) ==
    LET from == {n \in Saying(got, layout, id) : got[Document[n]][layout][id][field] # None}
    IN  IF from = {} THEN None
        ELSE [value |-> got[Document[Max(from)]][layout][id][field], source |-> Document[Min(from)]]

\* merge and sourceFor: the last document that has a field gives it, and the
\* files it refers to are found from there.
FieldOf(got, layout, id, field) ==
    LET from == {n \in Saying(got, layout, id) : got[Document[n]][layout][id][field] # None}
    IN  IF from = {} THEN None
        ELSE [value |-> got[Document[Max(from)]][layout][id][field], source |-> Document[Max(from)]]

\* Mutant: the former layout wins.
LayoutFormer(got, id) ==
    IF Saying(got, "legacy", id) # {} THEN "legacy" ELSE IF Saying(got, "v2", id) # {} THEN "v2" ELSE None

\* The layout of a provider: the current one wins.
LayoutOf(got, id) ==
    IF Saying(got, "v2", id) # {} THEN "v2" ELSE IF Saying(got, "legacy", id) # {} THEN "legacy" ELSE None

\* The values that are expanded: an endpoint twice, for "declared" and for "base".
Field(got, id, use) == FieldOf(got, LayoutOf(got, id), id, IF use = "key" THEN "key" ELSE "base")

Refers(field) == field # None /\ field.value \in Reference

\* What a file beside a document says, None if it cannot be read.
TextOf(content) == IF content.status = "ok" THEN content.text ELSE None

\* expand: None when a reference cannot be resolved.
Expand(field, told) ==
    IF field = None \/ field.value = "{missing}" THEN None
    ELSE IF Refers(field) THEN told ELSE field.value

\* What one of them was expanded to, None if its file is yet to be read.
Expanded(got, told, id, use) ==
    Expand(Field(got, id, use), IF <<id, use>> \in DOMAIN told THEN told[<<id, use>>] ELSE None)

LocalOf(endpoint) == IF endpoint \in Local THEN endpoint ELSE None

NativeOrigin(got) == IF IsRead(got, "native") THEN LocalOf(got["native"].origin) ELSE None

\* Mutant: a saved key is used for a provider of the current layout as well.
SavedKeyAlways(got, id, layout, source) ==
    IF source # "environment" /\ IsRead(got, "auth") THEN got["auth"].keys[id] ELSE None

\* OpenCode 2 keeps its credentials elsewhere: auth.json is of the former layout.
SavedKey(got, id, layout, source) ==
    IF source # "environment" /\ layout # "v2" /\ IsRead(got, "auth") THEN got["auth"].keys[id] ELSE None

\* Mutant: oMLX's own key goes to any endpoint.
NativeKeyAnywhere(got, base, runtime) ==
    IF IsRead(got, "native") /\ base # None /\ runtime \notin Keyless THEN got["native"].key ELSE None

\* oMLX's own key, for the endpoint its settings name.
NativeKey(got, base, runtime) ==
    IF IsRead(got, "native") /\ base # None /\ runtime \notin Keyless /\ NativeOrigin(got) = base
    THEN got["native"].key ELSE None

First(values) == LET set == SelectSeq(values, LAMBDA v : v # None)
                 IN  IF set = <<>> THEN None ELSE set[1]

\* add: one connection, with the reason it cannot be read; "given" and "configured"
\* are its endpoint and its key as expanded.
Added(got, id, source, layout, given, hasKey, configured, runtime) ==
    LET base       == LocalOf(given)
        key        == First(<<configured, SavedKey(got, id, layout, source), NativeKey(got, base, runtime)>>)
        unresolved == hasKey /\ configured = None
        credential == IF source = "opencode" /\ layout = "legacy" /\ got["auth"].status \in {"malformed", "unreadable"}
                      THEN IssueOf(got["auth"].status) ELSE "missing_credential"
    IN  [id |-> id, source |-> source, layout |-> layout, base |-> base,
         key |-> IF unresolved THEN None ELSE key,
         runtime |-> IF runtime # None THEN runtime
                     ELSE IF base # None /\ base = NativeOrigin(got) THEN "omlx" ELSE None,
         issue |-> CASE base = None /\ given = None -> "unsupported_config"
                     [] base = None /\ given # None -> "invalid_endpoint"
                     [] base # None /\ unresolved -> "unsupported_config"
                     [] base # None /\ ~ unresolved /\ key # None -> "none"
                     [] OTHER -> credential]

\* The chosen model's provider first, oMLX next, the others as they are.
Ordered(got) ==
    LET chosen   == {n \in DOMAIN Document : IsRead(got, Document[n]) /\ got[Document[n]].model # None}
        selected == IF chosen = {} THEN None ELSE got[Document[Max(chosen)]].model
        of(P(_)) == SelectSeq(Provider, P)
    IN  of(LAMBDA id : id = selected) \o of(LAMBDA id : id # selected /\ id = "omlx")
            \o of(LAMBDA id : id # selected /\ id # "omlx")

\* The providers that name an endpoint, each with it and where it is local.
Declaring(got) == SelectSeq(Ordered(got), LAMBDA id :
    LayoutOf(got, id) # None /\ FieldOf(got, LayoutOf(got, id), id, "base") # None)

FromProvider(got, told, id) ==
    Added(got, id, "opencode", LayoutOf(got, id), Expanded(got, told, id, "base"),
          Field(got, id, "key") # None, Expanded(got, told, id, "key"), Hint[id])

\* Local targets, and those a name claims for a runtime, enter the chooser.
Entering(got, told) ==
    LET wanted == SelectSeq(Declaring(got), LAMBDA id :
                      LocalOf(Expanded(got, told, id, "declared")) # None \/ Hint[id] # None)
    IN  SubSeq(wanted, 1, Min({Chooser, Len(wanted)}))

Offered(got, told) == [n \in DOMAIN Entering(got, told) |-> FromProvider(got, told, Entering(got, told)[n])]

\* oMLX's own settings add the runtime when no provider is it.
WithNative(got, offered) ==
    IF /\ IsRead(got, "native") /\ got["native"].origin # None
       /\ Len(offered) < Chooser /\ \A n \in DOMAIN offered : offered[n].runtime # "omlx"
    THEN Append(offered, Added(got, "omlx", "omlx", "none", got["native"].origin, FALSE, None, "omlx"))
    ELSE offered

\* Every provider's loopback endpoint, also of those the chooser has no room for.
Declared(got, told, connections) ==
    [id \in ToSet(Provider) |->
        LET own   == IF Contains(Declaring(got), id) THEN LocalOf(Expanded(got, told, id, "declared")) ELSE None
            added == SelectSeq(connections, LAMBDA c : c.id = id /\ c.base # None)
        IN  IF env.base = None /\ own # None THEN own
            ELSE IF added # <<>> THEN added[1].base ELSE None]

Resolved(got, told) ==
    LET connections ==
            IF env.base # None
            THEN <<Added(got, "omlx", "environment", "none", env.base, env.key # None, env.key, "omlx")>>
            ELSE IF FileIssue(got) # "none" THEN <<>>
            ELSE WithNative(got, Offered(got, told))
    IN  [connections |-> connections, declared |-> Declared(got, told, connections),
         issue |-> IF connections # <<>> THEN "none"
                   ELSE IF FileIssue(got) # "none" THEN FileIssue(got)
                   ELSE IF got["native"].status \in {"malformed", "unreadable"} THEN IssueOf(got["native"].status)
                   ELSE "missing_endpoint"]

----------------------------------------------------------------------------
(* What a request makes of it.                                             *)

\* automatic: by name, else by what its slot found, else the first.
Automatic(value, runtime) ==
    LET named == SelectSeq(value.connections, LAMBDA c : c.runtime = runtime)
        found == SelectSeq(value.connections, LAMBDA c : detected[c.id] = runtime)
    IN  First(<<IF runtime = None \/ named = <<>> THEN None ELSE named[1],
                IF runtime = None \/ found = <<>> THEN None ELSE found[1],
                IF value.connections = <<>> THEN None ELSE value.connections[1]>>)

Choice(value, sel) ==
    LET mine == SelectSeq(value.connections, LAMBDA c : c.id = sel.provider)
    IN  IF sel.provider = None THEN Automatic(value, sel.runtime)
        ELSE IF mine = <<>> THEN None ELSE mine[1]

\* read: the connection that is read, None if there is only an issue to tell.
ReadOf(value, sel) ==
    LET choice == Choice(value, sel)
    IN  IF choice # None /\ choice.base # None /\ choice.issue \in {"none", "missing_credential"}
        THEN choice ELSE None

\* companionTarget: the endpoint of which a chat's data are taken.
Target(value, id) == value.declared[id]

----------------------------------------------------------------------------
(* config(): one flight, kept for a while.                                 *)

ConfigInit ==
    /\ now = 0 /\ edits = 0
    /\ env \in Environment
    /\ disk \in Disks
    /\ configFlight = None /\ cache = None
    /\ callers = [c \in Caller |-> None]
    /\ detected = [id \in ToSet(Provider) |-> None]

\* Mutant: a configuration once read is used for good.
IsFreshOnce == cache # None

IsFresh == cache # None /\ now - cache.at < CacheLife

Ask(c, sel) ==
    /\ callers[c] = None
    /\ callers' = [callers EXCEPT ![c] = [sel |-> sel, asked |-> now, cfg |-> IF IsFresh THEN cache ELSE None]]
    /\ configFlight' = IF IsFresh \/ configFlight # None THEN configFlight
                 ELSE [got |-> [f \in File |-> None], told |-> <<>>, disks |-> {disk}]
    /\ UNCHANGED <<now, edits, env, disk, cache, detected>>

\* OpenCode's documents together, then oMLX's settings, then the credentials.
Before(f) == CASE f = "auth" -> File \ {"auth"}
               [] f = "native" -> ToSet(Document)
               [] OTHER -> {}

ReadFile(f) ==
    /\ configFlight # None /\ configFlight.got[f] = None
    /\ \A g \in Before(f) : configFlight.got[g] # None
    /\ configFlight' = [configFlight EXCEPT !.got[f] = disk[f]]
    /\ UNCHANGED <<now, edits, env, disk, cache, callers, detected>>

\* The values that refer to a file, in the order in which they are expanded: of
\* each provider "declared", and of one that enters its endpoint and its key.
Referring(got, told) ==
    LET uses(id) == IF Contains(Entering(got, told), id) THEN <<"declared", "base", "key">> ELSE <<"declared">>
        of(id)   == [n \in DOMAIN uses(id) |-> <<id, uses(id)[n]>>]
        all      == FlattenSeq([n \in DOMAIN Declaring(got) |-> of(Declaring(got)[n])])
    IN  IF env.base # None \/ FileIssue(got) # "none" THEN <<>>
        ELSE SelectSeq(all, LAMBDA x : Refers(Field(got, x[1], x[2])))

Unread(got, told) == SelectSeq(Referring(got, told), LAMBDA x : x \notin DOMAIN told)

AllRead == configFlight # None /\ \A f \in File : configFlight.got[f] # None

\* One after the other, each reads its file anew.
ReadReference ==
    /\ AllRead
    /\ LET got  == configFlight.got
           told == configFlight.told
       IN  /\ Unread(got, told) # <<>>
           /\ LET next  == Head(Unread(got, told))
                  field == Field(got, next[1], next[2])
              IN  configFlight' = [configFlight EXCEPT !.told = told @@ (next :> TextOf(disk[Beside[field.source][field.value]]))]
    /\ UNCHANGED <<now, edits, env, disk, cache, callers, detected>>

ReadEnds ==
    /\ AllRead /\ Unread(configFlight.got, configFlight.told) = <<>>
    /\ cache' = [value |-> Resolved(configFlight.got, configFlight.told), disks |-> configFlight.disks, at |-> now]
    /\ configFlight' = None
    /\ callers' = [c \in Caller |-> IF callers[c] # None /\ callers[c].cfg = None
                                    THEN [callers[c] EXCEPT !.cfg = cache'] ELSE callers[c]]
    /\ UNCHANGED <<now, edits, env, disk, detected>>

\* The reading is in: an automatic slot knows what its endpoint serves.
Answer(c) ==
    /\ callers[c] # None /\ callers[c].cfg # None
    /\ LET read == ReadOf(callers[c].cfg.value, callers[c].sel)
       IN  detected' = IF read = None \/ callers[c].sel.runtime # None THEN detected
                       ELSE [detected EXCEPT ![read.id] = First(<<read.runtime, Serves[read.base]>>)]
    /\ callers' = [callers EXCEPT ![c] = None]
    /\ UNCHANGED <<now, edits, env, disk, configFlight, cache>>

\* The user, or OpenCode, writes a file.
Edit(f, content) ==
    /\ edits < MaxEdits /\ content # disk[f]
    /\ edits' = edits + 1
    /\ disk' = [disk EXCEPT ![f] = content]
    /\ configFlight' = IF configFlight = None THEN None ELSE [configFlight EXCEPT !.disks = @ \cup {disk'}]
    /\ UNCHANGED <<now, env, cache, callers, detected>>

Passes ==
    /\ now < MaxNow
    /\ now' = now + 1
    /\ UNCHANGED <<edits, env, disk, configFlight, cache, callers, detected>>

ConfigNext ==
    \/ ReadReference \/ ReadEnds \/ Passes
    \/ \E c \in Caller : Answer(c)
    \/ \E c \in Caller, sel \in Select : Ask(c, sel)
    \/ \E f \in File : ReadFile(f)
    \/ \E f \in DOMAIN Contents : \E content \in Contents[f] : Edit(f, content)

----------------------------------------------------------------------------
(* Properties.                                                             *)

Answered == {c \in Caller : callers[c] # None /\ callers[c].cfg # None}

\* What the documents of one moment write for a field of a provider, with the files
\* beside them as they are at another.
Written(docs, files, layout, id, field) ==
    {LET value == docs[d][layout][id][field]
     IN  IF value \in Reference THEN TextOf(files[Beside[d][value]]) ELSE value :
        d \in {e \in ToSet(Document) : docs[e].status = "ok" /\ docs[e][layout][id] # None}}

\* While the files hold w, an endpoint is of this connection and its key is meant
\* for that endpoint: the environment's for its own; a document's key, of the file
\* beside it if it refers to one, for the provider's entry that stands; saved
\* credentials for a provider nobody declares in the current layout; oMLX's key for
\* the endpoint its settings name.
IsMeant(w, read) ==
    /\ CASE read.source = "environment" -> read.base = env.base
         [] read.source = "opencode" -> read.base \in Written(w, w, read.layout, read.id, "base")
         [] OTHER -> read.base = w["native"].origin
    /\ \/ read.key = None
       \/ read.source = "environment" /\ read.key = env.key
       \/ read.source = "opencode" /\ read.key \in Written(w, w, read.layout, read.id, "key")
       \/ /\ w["auth"].status = "ok" /\ read.key = w["auth"].keys[read.id]
          /\ read.source = "opencode" => Written(w, w, "v2", read.id, "base") = {}
       \/ w["native"].status = "ok" /\ read.key = w["native"].key /\ read.base = w["native"].origin

Reads == {r \in {[cfg |-> callers[c].cfg, read |-> ReadOf(callers[c].cfg.value, callers[c].sel)] : c \in Answered} :
             r.read # None}

\* Whatever is edited, in which layout and while it is read: a key is given to a
\* loopback endpoint, and to one it was meant for at some moment of that reading, as
\* long as no two of the files it is made of change meanwhile.
KeysStayHome ==
    \A r \in Reads :
        /\ r.read.base \in Local
        /\ Cardinality(r.cfg.disks) <= 2 => \E w \in r.cfg.disks : IsMeant(w, r.read)

\* The endpoint whose chat data are shown for a provider is one its own entry named
\* at some moment of the reading, by a file as it was at some moment if it refers to
\* one: not that of another provider.
TargetIsNamed ==
    \A c \in Answered : \A id \in ToSet(Provider) :
        LET cfg    == callers[c].cfg
            target == Target(cfg.value, id)
        IN  target # None =>
                /\ target \in Local
                /\ \/ \E w, v \in cfg.disks : \E layout \in {"v2", "legacy"} :
                          target \in Written(w, v, layout, id, "base")
                   \/ id = "omlx" /\ (target = env.base \/ \E w \in cfg.disks : target = w["native"].origin)

\* A request is answered from files as they were read for it or, at most CacheLife
\* before, for another one.
ConfigIsRecent == \A c \in Answered : callers[c].cfg.at > callers[c].asked - CacheLife

ConfigIsTrue == KeysStayHome /\ TargetIsNamed /\ ConfigIsRecent

\* "Credentials are matched to the configured provider and origin" (SECURITY.md:58):
\* a key is given to an endpoint it was meant for at some moment of the reading.
KeyIsOfItsEndpoint == \A r \in Reads : \E w \in r.cfg.disks : IsMeant(w, r.read)
=============================================================================
