--------------------------- MODULE SchemaCatalog ---------------------------
(* The Smart Data Models catalogue on disk and the download that fills it:  *)
(* download_schemas opens a FileSystemStore, reads the published lists,     *)
(* fetches every schema with a bounded number of requests in flight, writes *)
(* each into its own file, and records what was stored in manifest.json,    *)
(* first the models and then their context URLs. No file is written through *)
(* a rename: fs::write truncates and then writes, so a write that fails, or *)
(* a process that is killed during it, leaves a torn file. Runs follow one  *)
(* another over the same directory.                                         *)
EXTENDS Integers, FiniteSets

CONSTANTS
    Models,       \* schema ids the model list may publish (SchemaKind::EntityModel)
    Extras,       \* ids of the extra list: a repository, but no entity model
    Shared,       \* ids compiled into the program, without a repository
    Attempts,     \* requests made for one schema before it is given up
    Concurrency,  \* requests in flight at once
    MaxRuns       \* BOUND: downloads started over the same directory

ASSUME CatalogAssumption ==
    /\ Attempts \in Nat \ {0}
    /\ Concurrency \in Nat \ {0}
    /\ MaxRuns \in Nat
    /\ Models \cap Extras = {} /\ Models \cap Shared = {} /\ Extras \cap Shared = {}

Ids == Models \cup Extras \cup Shared

VARIABLES
    index,    \* manifest.json: absent, torn or whole, and what it lists
    file,     \* the file of each schema: Absent, Torn, or the run that wrote it
    run,      \* number of the current run, or of the last one
    pc,       \* where the run is; "idle" between runs
    result,   \* how the last run ended
    plan,     \* ids of this run's tasks
    tries,    \* requests that have failed, for each task
    flying,   \* tasks with a request in flight or waiting out a backoff
    stored,   \* tasks whose schema this run has written
    failed    \* tasks this run has given up

catalogVars == <<index, file, run, pc, result, plan, tries, flying, stored, failed>>

\* What stands for a schema file no run has written, and for a torn one.
Absent == 0
TornFile == -1

IndexAs(kind, models, contexts) ==
    [kind |-> kind, models |-> models, contexts |-> contexts]

Readable == index.kind = "whole"

\* fs::write creates or truncates the file before it writes, so where it fails,
\* or the process is killed during it, the file is torn if not as before.
TornIndex == IndexAs("torn", {}, {})
IndexWriteFails == index' \in {index, TornIndex}
SchemaWriteFails(i) == \E left \in {file[i], TornFile} : file' = [file EXCEPT ![i] = left]

CatalogInit ==
    /\ index = IndexAs("absent", {}, {})
    /\ file = [i \in Ids |-> Absent]
    /\ run = 0
    /\ pc = "idle"
    /\ result = "none"
    /\ plan = {} /\ flying = {} /\ stored = {} /\ failed = {}
    /\ tries = [i \in Ids |-> 0]

\* What a run keeps in memory is gone when it returns or is killed.
Return(how) ==
    /\ pc' = "idle" /\ result' = how
    /\ plan' = {} /\ flying' = {} /\ stored' = {} /\ failed' = {}
    /\ tries' = [i \in Ids |-> 0]

-----------------------------------------------------------------------------
(* Opening the store and reading the published lists. *)

\* FileSystemStore::new: an index is written only where none exists, and is
\* not read, so a torn one is not noticed here.
Open ==
    /\ pc = "idle" /\ run < MaxRuns
    /\ run' = run + 1
    /\ index' = IF index.kind = "absent" THEN IndexAs("whole", {}, {}) ELSE index
    /\ pc' = "planning" /\ result' = "none"
    /\ UNCHANGED <<file, plan, tries, flying, stored, failed>>

OpenFails ==
    /\ pc = "idle" /\ run < MaxRuns /\ index.kind = "absent"
    /\ run' = run + 1
    /\ IndexWriteFails
    /\ result' = "err"
    /\ UNCHANGED <<file, pc, plan, tries, flying, stored, failed>>

\* plan: the shared schemas and whatever the two lists publish today.
Plan ==
    /\ pc = "planning"
    /\ \E published \in SUBSET (Models \cup Extras) : plan' = Shared \cup published
    /\ pc' = "fetching"
    /\ UNCHANGED <<index, file, run, result, tries, flying, stored, failed>>

\* Neither list is asked for twice: one that cannot be read ends the run.
PlanFails ==
    /\ pc = "planning"
    /\ Return("err")
    /\ UNCHANGED <<index, file, run>>

-----------------------------------------------------------------------------
(* fetch_all: the tasks share one thread, so a put_schema is not interleaved *)
(* with another one, but requests are.                                       *)

StartFetch(i) ==
    /\ pc = "fetching"
    /\ i \in plan \ (flying \cup stored \cup failed)
    /\ Cardinality(flying) < Concurrency
    /\ flying' = flying \cup {i}
    /\ UNCHANGED <<index, file, run, pc, result, plan, tries, stored, failed>>

\* fetch_once fails: no answer, an error status, a content type that is not a
\* schema's, or a body that is not JSON. All of them are tried again.
FetchFails(i) ==
    /\ pc = "fetching" /\ i \in flying
    /\ tries' = [tries EXCEPT ![i] = @ + 1]
    /\ IF tries'[i] = Attempts
         THEN flying' = flying \ {i} /\ failed' = failed \cup {i}
         ELSE UNCHANGED <<flying, failed>>
    /\ UNCHANGED <<index, file, run, pc, result, plan, stored>>

\* The rewritten body is put into the store in the same poll.
PutSchema(i) ==
    /\ pc = "fetching" /\ i \in flying
    /\ file' = [file EXCEPT ![i] = run]
    /\ flying' = flying \ {i}
    /\ stored' = stored \cup {i}
    /\ UNCHANGED <<index, run, pc, result, plan, tries, failed>>

\* A failed put is not tried again: the task is reported and left out.
PutSchemaFails(i) ==
    /\ pc = "fetching" /\ i \in flying
    /\ SchemaWriteFails(i)
    /\ flying' = flying \ {i}
    /\ failed' = failed \cup {i}
    /\ UNCHANGED <<index, run, pc, result, plan, tries, stored>>

\* Mutant: the run waits for every planned schema to be stored.
StoredAll ==
    /\ pc = "fetching"
    /\ stored = plan
    /\ pc' = "models"
    /\ UNCHANGED <<index, file, run, result, plan, tries, flying, stored, failed>>

FetchedAll ==
    /\ pc = "fetching"
    /\ stored \cup failed = plan
    /\ pc' = "models"
    /\ UNCHANGED <<index, file, run, result, plan, tries, flying, stored, failed>>

-----------------------------------------------------------------------------
(* Recording: manifest.json is read, changed and written back, twice. *)

\* Mutant: every planned model is listed, stored or not.
PlannedModelIds == plan \cap Models

\* entity_model_ids: support schemas are stored but not listed.
EntityModelIds == stored \cap Models

\* context_urls: of every task that has a repository, stored or not.
ContextUrls == plan \ Shared

\* set_models replaces the list: a download is authoritative.
SetModels == [index EXCEPT !.models = EntityModelIds]

\* The contexts of earlier runs stay.
ExtendContexts == [index EXCEPT !.contexts = @ \cup ContextUrls]

RecordModels ==
    /\ pc = "models" /\ Readable
    /\ index' = SetModels
    /\ pc' = "contexts"
    /\ UNCHANGED <<file, run, result, plan, tries, flying, stored, failed>>

RecordContextUrls ==
    /\ pc = "contexts" /\ Readable
    /\ index' = ExtendContexts
    /\ Return("ok")
    /\ UNCHANGED <<file, run>>

\* read_index cannot parse the file, or write_index fails.
RecordFails ==
    /\ pc \in {"models", "contexts"}
    /\ IF Readable THEN IndexWriteFails ELSE UNCHANGED index
    /\ Return("err")
    /\ UNCHANGED <<file, run>>

-----------------------------------------------------------------------------
\* The process is killed: during a put, or while the index is written back. A
\* kill while Open writes the index leaves what OpenFails leaves.
Crash ==
    /\ pc # "idle"
    /\ Return("killed")
    /\ CASE pc = "planning" -> UNCHANGED <<index, file>>
         [] pc = "fetching" ->
              /\ \/ UNCHANGED file
                 \/ \E i \in flying : SchemaWriteFails(i)
              /\ UNCHANGED index
         [] OTHER ->
              /\ IF Readable THEN IndexWriteFails ELSE UNCHANGED index
              /\ UNCHANGED file
    /\ UNCHANGED run

\* Every permitted run has been made.
CatalogRest == pc = "idle" /\ run = MaxRuns /\ UNCHANGED catalogVars

Fetching == \E i \in Ids :
    StartFetch(i) \/ FetchFails(i) \/ PutSchema(i) \/ PutSchemaFails(i)

Step ==
    \/ Plan \/ PlanFails \/ Fetching \/ FetchedAll
    \/ RecordModels \/ RecordContextUrls \/ RecordFails

CatalogNext == Open \/ OpenFails \/ Step \/ Crash \/ CatalogRest

CatalogSpec == CatalogInit /\ [][CatalogNext]_catalogVars

(* A started run is driven by block_on and every request has a timeout, so   *)
(* something always happens next; nothing obliges anybody to start a run.    *)
FairCatalogSpec == CatalogSpec /\ WF_catalogVars(Step)

-----------------------------------------------------------------------------
(* PROPERTIES *)

\* Type invariant; a task is in flight, stored or given up, and never two of them.
CatalogTypeOK ==
    /\ index \in [kind : {"absent", "torn", "whole"}, models : SUBSET Models,
                  contexts : SUBSET (Models \cup Extras)]
    /\ file \in [Ids -> {Absent, TornFile} \cup 1..MaxRuns]
    /\ run \in 0..MaxRuns
    /\ pc \in {"idle", "planning", "fetching", "models", "contexts"}
    /\ result \in {"none", "ok", "err", "killed"}
    /\ plan \subseteq Ids /\ flying \cup stored \cup failed \subseteq plan
    /\ flying \cap (stored \cup failed) = {} /\ stored \cap failed = {}
    /\ tries \in [Ids -> 0..Attempts] /\ Cardinality(flying) <= Concurrency

\* What manifest.json lists is on disk (run, record_models): at every moment,
\* after any number of failed, killed and repeated downloads, a listed model
\* has a file; and once a download has returned Ok the index can be read, and
\* every listed model has the whole schema that download fetched and a context
\* URL, whatever an earlier run left torn.
ListedIsOnDisk ==
    /\ CatalogTypeOK
    /\ Readable => \A m \in index.models : file[m] # Absent
    /\ result = "ok" =>
         /\ Readable
         /\ \A m \in index.models : file[m] = run /\ m \in index.contexts

\* A download that has begun ends, whatever fails on the way: every schema is
\* stored or given up after Attempts requests, and the ones given up do not
\* keep the run waiting (fetch, fetch_all).
RunEnds == pc # "idle" ~> pc = "idle"
=============================================================================
