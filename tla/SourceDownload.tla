-------------------------- MODULE SourceDownload --------------------------
(* The remote documents of a cycle. Before anything runs, the schemas that  *)
(* the inputs or the manifest name are bound to entity types, each remote   *)
(* one downloaded into a temporary file (resolve_custom_schemas); then each *)
(* lane's collector hands over its inputs in order, downloading the remote  *)
(* ones (GenericCollector::collect). Both use one Downloader: a transient   *)
(* answer is asked again after a wait that a shutdown cuts short, anything  *)
(* else that is not a success ends the download.                            *)
EXTENDS Integers, Sequences

CONSTANTS
    Urls,         \* remote sources
    Locals,       \* local files named as a source
    Types,        \* entity types the mappings produce
    NumLanes,     \* number of inputs of the manifest
    Settings,     \* manifests: the sources and schemas of every lane
    NoSource,     \* no schema is named
    NoPath,       \* nothing is bound
    NoFile,       \* content of a path nothing was written to
    Torn,         \* content left by a write that failed
    MaxAttempts,  \* DEFAULT_MAX_ATTEMPTS
    MaxBackoff,   \* MAX_BACKOFF, in slices of sleep_or_shutdown
    Asked         \* Retry-After delays a server sends; 0 stands for none

Lanes == 1..NumLanes
Setup == 0
Clients == {Setup} \cup Lanes

Sources == Urls \cup Locals

\* directory.path().join("{entity_type}.json")
SchemaPath(t) == <<Setup, t>>

\* Mutant: the inputs of a lane are downloaded to one path.
SharedInputPath(l, i) == <<l, 1>>

\* temp_dir.path().join("input_{index}"), in a directory of the collector's own
InputPath(l, i) == <<l, i>>

TempPaths == {SchemaPath(t) : t \in Types} \cup
             {InputPath(l, i) : l \in Lanes,
                i \in UNION {DOMAIN s.inputs[k] : s \in Settings, k \in Lanes}}

ASSUME DownloadAssumption ==
    /\ NumLanes \in Nat /\ MaxAttempts \in Nat \ {0} /\ MaxBackoff \in Nat \ {0}
    /\ Asked \subseteq Nat
    /\ Urls \cap Locals = {} /\ Locals \cap TempPaths = {}
    /\ NoSource \notin Sources /\ NoPath \notin Locals \cup TempPaths
    /\ \A s \in Settings :
         /\ s.schema \in [Lanes -> Sources \cup {NoSource}]
         /\ s.global \in Sources \cup {NoSource}
         /\ \A l \in Lanes : s.types[l] \in Seq(Types) /\ s.inputs[l] \in Seq(Sources)

VARIABLES
    set,       \* the manifest of this run
    round,     \* pass of the set-up over the lanes: their own schemas, then the global one
    item,      \* index of the mapping the set-up handles in its lane
    byType,    \* by_type: the path each type's schema is read from
    fetched,   \* fetched: the path of each remote schema already downloaded
    next,      \* index of the input each collector handles
    sent,      \* payloads each collector has handed over: path and source
    disk,      \* content of the temporary files: the source it came from
    client,    \* each client: its state, and the download it is in
    shutdown,  \* the process-lifetime flag
    late       \* requests each client has sent for its download since the flag was raised

vars == <<set, round, item, byType, fetched, next, sent, disk, client, shutdown, late>>

\* resolve_custom_schemas goes twice over the lanes, for their own schemas and
\* then for the global one.
LastRound == 2 * NumLanes
Global(r) == r > NumLanes
LaneOf(r) == IF Global(r) THEN r - NumLanes ELSE r
SourceOf(r) == IF Global(r) THEN set.global ELSE set.schema[LaneOf(r)]
TypesOf(r) == set.types[LaneOf(r)]

\* The source and type in hand.
Source == SourceOf(round)
Type == TypesOf(round)[item]
InHand == round <= LastRound /\ Source # NoSource /\ item <= Len(TypesOf(round))

Idle(state) == [state |-> state, url |-> NoSource, attempt |-> 0, wait |-> 0]

Init ==
    /\ set \in Settings
    /\ round = 1 /\ item = 1
    /\ byType = [t \in Types |-> NoPath]
    /\ fetched = [u \in Urls |-> NoPath]
    /\ next = [l \in Lanes |-> 1]
    /\ sent = [l \in Lanes |-> <<>>]
    /\ disk = [p \in TempPaths |-> NoFile]
    /\ client = [c \in Clients |-> Idle(IF c = Setup THEN "ready" ELSE "unborn")]
    /\ shutdown = FALSE
    /\ late = [c \in Clients |-> 0]

RaiseShutdown ==
    /\ ~shutdown
    /\ shutdown' = TRUE
    /\ UNCHANGED <<set, round, item, byType, fetched, next, sent, disk, client, late>>

-----------------------------------------------------------------------------
(* The Downloader. *)

\* The first request of a download is sent whatever the flag says.
Begin(c, url) ==
    /\ client' = [client EXCEPT ![c] =
         [state |-> "asking", url |-> url, attempt |-> 1, wait |-> 0]]
    /\ late' = [late EXCEPT ![c] = IF shutdown THEN 1 ELSE 0]

\* What the client was asked to fetch: its url and where to write it.
Destination(c) ==
    IF c = Setup THEN SchemaPath(Type) ELSE InputPath(c, next[c])

BackoffDelay(attempt) ==
    IF 2^(attempt - 1) < MaxBackoff THEN 2^(attempt - 1) ELSE MaxBackoff

\* There is a wait before every retry.
ASSUME BackoffAssumption == \A attempt \in 1..MaxAttempts : BackoffDelay(attempt) \in Nat \ {0}

RetryDelay(attempt, asked) ==
    IF BackoffDelay(attempt) > asked THEN BackoffDelay(attempt) ELSE asked

Asking(c) == client[c].state = "asking"

\* 429 or 5xx with attempts left: wait, at least as long as the server asked.
TransientAnswer(c) ==
    /\ Asking(c) /\ client[c].attempt < MaxAttempts
    /\ \E asked \in Asked :
         client' = [client EXCEPT ![c] =
           [@ EXCEPT !.state = "sleeping", !.wait = RetryDelay(client[c].attempt, asked)]]
    /\ UNCHANGED <<set, round, item, byType, fetched, next, sent, disk, shutdown, late>>

\* No answer, a body that breaks off, a status that is not a success and not
\* transient, or a transient one on the last attempt.
DownloadFails(c) ==
    /\ Asking(c)
    /\ client' = [client EXCEPT ![c] = Idle("failed")]
    /\ UNCHANGED <<set, round, item, byType, fetched, next, sent, disk, shutdown, late>>

\* A success whose body cannot be written in full.
WriteFails(c) ==
    /\ Asking(c)
    /\ \E left \in {disk[Destination(c)], Torn} :
         disk' = [disk EXCEPT ![Destination(c)] = left]
    /\ client' = [client EXCEPT ![c] = Idle("failed")]
    /\ UNCHANGED <<set, round, item, byType, fetched, next, sent, shutdown, late>>

\* Mutant: the flag is not looked at while sleeping.
SleepThroughSlice(c) ==
    /\ client[c].state = "sleeping" /\ client[c].wait > 0
    /\ client' = [client EXCEPT ![c] = [@ EXCEPT !.wait = client[c].wait - 1]]
    /\ UNCHANGED <<set, round, item, byType, fetched, next, sent, disk, shutdown, late>>

SleepSlice(c) ==
    /\ client[c].state = "sleeping" /\ client[c].wait > 0 /\ ~shutdown
    /\ client' = [client EXCEPT ![c] = [@ EXCEPT !.wait = client[c].wait - 1]]
    /\ UNCHANGED <<set, round, item, byType, fetched, next, sent, disk, shutdown, late>>

\* The flag is looked at before every slice; the answer in hand is the failure.
SleepCutShort(c) ==
    /\ client[c].state = "sleeping" /\ client[c].wait > 0 /\ shutdown
    /\ client' = [client EXCEPT ![c] = Idle("failed")]
    /\ UNCHANGED <<set, round, item, byType, fetched, next, sent, disk, shutdown, late>>

\* Mutant: the attempt is not counted.
AskAgainUncounted(c) ==
    /\ client[c].state = "sleeping" /\ client[c].wait = 0
    /\ client' = [client EXCEPT ![c].state = "asking"]
    /\ late' = [late EXCEPT ![c] = IF shutdown THEN @ + 1 ELSE 0]
    /\ UNCHANGED <<set, round, item, byType, fetched, next, sent, disk, shutdown>>

AskAgain(c) ==
    /\ client[c].state = "sleeping" /\ client[c].wait = 0
    /\ client' = [client EXCEPT ![c] = [@ EXCEPT !.state = "asking", !.attempt = client[c].attempt + 1]]
    /\ late' = [late EXCEPT ![c] = IF shutdown THEN @ + 1 ELSE 0]
    /\ UNCHANGED <<set, round, item, byType, fetched, next, sent, disk, shutdown>>

-----------------------------------------------------------------------------
(* resolve_custom_schemas, before the lanes are started. *)

Binding == client[Setup].state = "ready" /\ InHand

\* Mutant: the global schema is bound to types that have one of their own.
NeverCovered(t) == FALSE

\* The global schema passes over a type that has one.
Covered(t) == Global(round) /\ byType[t] # NoPath

NextItem == item' = item + 1 /\ UNCHANGED round

\* A binding that needs no request: the type is covered, the source is a local file,
\* or its url has been fetched before.
BindKnown ==
    /\ Binding
    /\ \/ Covered(Type) /\ UNCHANGED byType
       \/ /\ ~Covered(Type) /\ Source \in Locals
          /\ byType' = [byType EXCEPT ![Type] = Source]
       \/ /\ ~Covered(Type) /\ Source \in Urls /\ fetched[Source] # NoPath
          /\ byType' = [byType EXCEPT ![Type] = fetched[Source]]
    /\ NextItem
    /\ UNCHANGED <<set, fetched, next, sent, disk, client, shutdown, late>>

BindRemote ==
    /\ Binding
    /\ ~Covered(Type) /\ Source \in Urls /\ fetched[Source] = NoPath
    /\ Begin(Setup, Source)
    /\ UNCHANGED <<set, round, item, byType, fetched, next, sent, disk, shutdown>>

\* The url is remembered with the path, which carries the type's name.
SchemaArrives ==
    /\ Asking(Setup)
    /\ disk' = [disk EXCEPT ![SchemaPath(Type)] = Source]
    /\ byType' = [byType EXCEPT ![Type] = SchemaPath(Type)]
    /\ fetched' = [fetched EXCEPT ![Source] = SchemaPath(Type)]
    /\ NextItem
    /\ client' = [client EXCEPT ![Setup] = Idle("ready")]
    /\ UNCHANGED <<set, next, sent, shutdown, late>>

\* A lane without a schema, or with no mapping left, gives way to the next.
NextRound ==
    /\ client[Setup].state = "ready" /\ round <= LastRound /\ ~InHand
    /\ round' = round + 1 /\ item' = 1
    /\ UNCHANGED <<set, byType, fetched, next, sent, disk, client, shutdown, late>>

\* run_phase1 spawns a collector for every lane; a failed set-up starts none.
StartLanes ==
    /\ client[Setup].state = "ready" /\ round > LastRound
    /\ client' = [c \in Clients |-> Idle(IF c = Setup THEN "done" ELSE "ready")]
    /\ UNCHANGED <<set, round, item, byType, fetched, next, sent, disk, shutdown, late>>

-----------------------------------------------------------------------------
(* GenericCollector::collect, one thread for each lane. *)

Collecting(l) == client[l].state = "ready" /\ next[l] <= Len(set.inputs[l])
Current(l) == set.inputs[l][next[l]]

HandOver(l, path) ==
    /\ sent' = [sent EXCEPT ![l] = Append(@, [path |-> path, source |-> Current(l)])]
    /\ next' = [next EXCEPT ![l] = @ + 1]

CollectLocal(l) ==
    /\ Collecting(l) /\ Current(l) \in Locals
    /\ HandOver(l, Current(l))
    /\ UNCHANGED <<set, round, item, byType, fetched, disk, client, shutdown, late>>

CollectRemote(l) ==
    /\ Collecting(l) /\ Current(l) \in Urls
    /\ Begin(l, Current(l))
    /\ UNCHANGED <<set, round, item, byType, fetched, next, sent, disk, shutdown>>

InputArrives(l) ==
    /\ Asking(l)
    /\ disk' = [disk EXCEPT ![Destination(l)] = client[l].url]
    /\ HandOver(l, Destination(l))
    /\ client' = [client EXCEPT ![l] = Idle("ready")]
    /\ UNCHANGED <<set, round, item, byType, fetched, shutdown, late>>

\* Nobody reads the payload any more: ChannelClosed ends the collector, with
\* the input in hand on disk but not handed over.
SendFails(l) ==
    /\ \/ Collecting(l) /\ Current(l) \in Locals /\ UNCHANGED disk
       \/ Asking(l) /\ disk' = [disk EXCEPT ![Destination(l)] = client[l].url]
    /\ client' = [client EXCEPT ![l] = Idle("failed")]
    /\ UNCHANGED <<set, round, item, byType, fetched, next, sent, shutdown, late>>

CollectEnds(l) ==
    /\ client[l].state = "ready" /\ next[l] > Len(set.inputs[l])
    /\ client' = [client EXCEPT ![l] = Idle("done")]
    /\ UNCHANGED <<set, round, item, byType, fetched, next, sent, disk, shutdown, late>>

-----------------------------------------------------------------------------
Downloading(c) ==
    \/ TransientAnswer(c) \/ DownloadFails(c) \/ WriteFails(c)
    \/ SleepSlice(c) \/ SleepCutShort(c) \/ AskAgain(c)

SetupStep ==
    BindKnown \/ BindRemote \/ SchemaArrives \/ NextRound \/ StartLanes \/ Downloading(Setup)

LaneStep(l) ==
    \/ CollectLocal(l) \/ CollectRemote(l) \/ InputArrives(l) \/ SendFails(l)
    \/ CollectEnds(l) \/ Downloading(l)

Ended(c) == client[c].state \in {"done", "failed"}
Rest ==
    /\ client[Setup].state = "failed" \/ \A c \in Clients : Ended(c)
    /\ UNCHANGED vars

Next ==
    RaiseShutdown \/ SetupStep \/ (\E l \in Lanes : LaneStep(l)) \/ Rest

Spec == Init /\ [][Next]_vars

(* A request has reqwest's timeout and a sleeping thread wakes: every client  *)
(* keeps moving. Nothing obliges a user to raise the flag.                    *)
FairSpec == Spec /\ WF_vars(SetupStep) /\ \A l \in Lanes : WF_vars(LaneStep(l))

-----------------------------------------------------------------------------
(* PROPERTIES *)

\* Type invariant.
TypeOK ==
    /\ set \in Settings /\ round \in 1..LastRound + 1 /\ item \in Nat \ {0}
    /\ byType \in [Types -> Locals \cup TempPaths \cup {NoPath}]
    /\ fetched \in [Urls -> TempPaths \cup {NoPath}]
    /\ disk \in [TempPaths -> Urls \cup {NoFile, Torn}]
    /\ client \in [Clients -> [state : {"unborn", "ready", "asking", "sleeping", "failed", "done"},
                               url : Urls \cup {NoSource}, attempt : 0..MaxAttempts, wait : Nat]]
    /\ next \in [Lanes -> Nat]
    /\ sent \in [Lanes -> Seq([path : Locals \cup TempPaths, source : Sources])]
    /\ late \in [Clients -> Nat]
    /\ shutdown \in BOOLEAN

Content(path) == IF path \in Locals THEN path ELSE disk[path]

\* The source a manifest gives a type: that of the last lane producing the type
\* that names a schema, otherwise the global one.
LanesNaming(t) ==
    {l \in Lanes : set.schema[l] # NoSource /\ t \in {set.types[l][i] : i \in DOMAIN set.types[l]}}
Produced(t) == \E l \in Lanes : \E i \in DOMAIN set.types[l] : set.types[l][i] = t
DeclaredSource(t) ==
    IF LanesNaming(t) = {} THEN set.global
    ELSE set.schema[CHOOSE l \in LanesNaming(t) : \A k \in LanesNaming(t) : k <= l]

Bound == client[Setup].state = "done"
ReadsItsSource(t) ==
    IF Produced(t) /\ DeclaredSource(t) # NoSource
      THEN byType[t] # NoPath /\ Content(byType[t]) = DeclaredSource(t)
      ELSE byType[t] = NoPath

\* Once the schemas are resolved, the file bound to each type holds the schema
\* the manifest gives that type (resolve_custom_schemas, "an input's own
\* `schema` binds every type its lane produces"): what a download writes never
\* changes what an earlier binding reads.
SchemaIsItsSource == Bound => \A t \in Types : ReadsItsSource(t)

\* The same for manifests in which no type is given two remote schemas by two
\* lanes (SchemaDownloader::download reuses a url's file, named for the first
\* type it was fetched for): retries, repeated urls, local files and the global
\* schema never give a type another schema than its own.
Contested == \E l, k \in Lanes : \E t \in Types :
    /\ {l, k} \subseteq LanesNaming(t) /\ set.schema[l] # set.schema[k]
    /\ {set.schema[l], set.schema[k]} \subseteq Urls
UncontestedSchemaIsItsSource == Contested \/ SchemaIsItsSource

\* A payload that was handed over names a file with the whole content of its
\* own source, then and at any later time: no retry, and no later input of the
\* lane or of another lane, writes over what a profiler may still be reading
\* (collect, download_to_file). Every variable keeps its type.
HandedOverIsWhole ==
    /\ TypeOK
    /\ \A l \in Lanes : next[l] = Len(sent[l]) + 1
    /\ \A l \in Lanes : \A i \in DOMAIN sent[l] :
         /\ sent[l][i].source = set.inputs[l][i]
         /\ Content(sent[l][i].path) = sent[l][i].source

\* Stopping the run ends a wait (sleep_or_shutdown): once the flag is raised, a
\* client sends at most one more request for the download it is in, however
\* often the server answers that it should be asked again.
StopEndsRetries == \A c \in Clients : late[c] <= 1

\* The set-up returns, and so does every collector it started, whatever the
\* servers answer and ask for (download_to_file).
DownloadsEnd ==
    /\ <>Ended(Setup)
    /\ \A l \in Lanes : client[l].state = "ready" ~> Ended(l)
=============================================================================
