---------------------------- MODULE EntityStore ----------------------------
(***************************************************************************)
(* The stores between the two phases of a cycle (cassiopeia-resolver): the *)
(* resolver's thread writes batches of fragments and their edges, and when *)
(* all are written the assembler's thread reads every id back and hands    *)
(* its units on.                                                           *)
(*                                                                         *)
(* In memory a batch is written by a pool of threads, one task per         *)
(* fragment, each of which looks the id up, inserts it when it missed, and *)
(* merges its scope, every one of them under the lock of its map entry     *)
(* only.  On disk a batch is prepared, then the edges and the fragments    *)
(* are written in one transaction each; what a transaction has written is  *)
(* in the tables once it commits, and lost when it fails.                  *)
(***************************************************************************)
EXTENDS RecordMerging

CONSTANTS
  Fragments,          \* the fragments there may be
  Workloads,          \* which of them one run is given
  Content,            \* what each of them writes (FragmentWrite)
  Ids,                \* base ids, numbered in the order of their URNs
  Mappings,           \* interned mapping ids
  TemporalMappings,   \* the ones that declare an observedAt
  SyntheticMappings,  \* the ones with MappingRole::Synthetic
  Reads,              \* the top-level keys a mapping reads
  EntityTypeOf,       \* the entity type of a mapping
  BatchSize,          \* fragments in one batch, at most
  Kinds,              \* the store kinds configured
  Modes               \* subset of {"latest", "series"}

EntityTypes == {EntityTypeOf[m] : m \in Mappings}

ASSUME StoreAssumption ==
  /\ IsFiniteSet(Fragments) /\ Workloads \subseteq SUBSET Fragments
  /\ IsFiniteSet(Ids) /\ Ids \subseteq Nat /\ IsFiniteSet(Mappings) /\ Mappings \subseteq Nat
  /\ TemporalMappings \subseteq Mappings /\ SyntheticMappings \subseteq Mappings
  /\ \A f \in Fragments :
       /\ Content[f].id \in Ids /\ Content[f].mapping \in Mappings
       /\ IsFiniteSet(Content[f].data)
       /\ \A leaf \in Content[f].data : leaf.path \in Seq(Nat) /\ leaf.path # NoPath
       /\ \A a, b \in Content[f].data : Meet(a, b) => a = b
       /\ Content[f].timestamp.kind \in {"Absent", "Unresolvable", "Declared"}
       /\ Content[f].timestamp.kind = "Declared" => Content[f].timestamp.text \in Nat
       /\ Content[f].expires \in Nat
  /\ BatchSize \in Nat \ {0}
  /\ Kinds \subseteq {"DashMap", "Redb"} /\ Modes \subseteq {"latest", "series"}

VARIABLES
  entityStore,        \* which entity store was built
  relationshipStore,  \* which relationship store was built
  input,              \* the fragments of this run
  mode,               \* whether the current state or the whole series is kept
  phase,              \* "resolve", "failed", "assemble", "done"
  task,               \* how far each fragment is
  unsent,             \* edges of a task still to be checked or written
  slots,              \* the current-state store: per id and mapping
  series,             \* the series store: per id, in order of arrival
  scopes,             \* per id
  txn,                \* these three as the open write transaction has them
  edges,              \* the relationship store
  seen,               \* temporal_edge_dedup
  failures,           \* observed_at_failures: mappings with an error kept
  edgesFailed,        \* rel_failure of the batch being written
  emitted,            \* per id, what was handed on
  broken,             \* the receiver of the units is gone
  merged,             \* losses.merged, per entity type
  discarded           \* losses.discarded, per mapping

config == <<input, entityStore, relationshipStore, mode>>
stored == <<slots, series, scopes>>
related == <<unsent, edges, seen>>
losses == <<merged, discarded>>
vars == <<config, phase, task, related, stored, txn, failures, edgesFailed, emitted, broken, losses>>

Vacant == [data |-> {}, timestamp |-> [kind |-> "Absent"], discards |-> 0, records |-> 0,
           conflict |-> NoPath, expires |-> 0]
NothingEmitted == [outcome |-> "none", units |-> 0, slots |-> [m \in Mappings |-> Vacant],
                   scope |-> {}, expires |-> 0, edges |-> {}]
NoTransaction == <<>>
NoMerge == [ids |-> 0, id |-> 0, records |-> 0, field |-> NoPath]

Init ==
  /\ input \in Workloads
  /\ entityStore \in Kinds /\ relationshipStore \in Kinds /\ mode \in Modes
  /\ phase = "resolve"
  /\ task = [f \in Fragments |-> "idle"]
  /\ unsent = [f \in Fragments |-> {}]
  /\ slots = [i \in Ids |-> [m \in Mappings |-> Vacant]]
  /\ series = [i \in Ids |-> <<>>]
  /\ scopes = [i \in Ids |-> {}]
  /\ txn = NoTransaction
  /\ edges = {} /\ seen = {} /\ failures = {} /\ edgesFailed = FALSE
  /\ emitted = [i \in Ids |-> NothingEmitted]
  /\ broken = FALSE
  /\ merged = [t \in EntityTypes |-> NoMerge]
  /\ discarded = [m \in Mappings |-> [entities |-> 0, records |-> 0]]

Temporal(f) == Content[f].mapping \in TemporalMappings
Unresolvable(timestamp) == timestamp.kind = "Unresolvable"

-----------------------------------------------------------------------------
\* What a write does to the records of an id.

\* The first record of a slot.
FirstRecord(f) ==
  [data |-> Content[f].data, timestamp |-> Content[f].timestamp, discards |-> 0, records |-> 1,
   conflict |-> NoPath, expires |-> Content[f].expires]

\* Mutant: only a record that arrives too late is counted as discarded.
ObserveStaleOnly(slot, f) ==
  LET wins == Supersedes(slot.timestamp, Content[f].timestamp) IN
  IF wins
    THEN [slot EXCEPT !.records = @ + 1, !.data = Content[f].data,
                      !.timestamp = Content[f].timestamp, !.expires = Content[f].expires]
    ELSE [slot EXCEPT !.records = @ + 1,
                      !.discards = @ + (IF Unresolvable(Content[f].timestamp) THEN 1 ELSE 0)]

\* An observation takes the slot or is dropped; a discarded failure is counted.
Observe(slot, f) ==
  LET wins == Supersedes(slot.timestamp, Content[f].timestamp)
      loser == IF wins THEN slot.timestamp ELSE Content[f].timestamp
      counted == [slot EXCEPT !.records = @ + 1,
                              !.discards = @ + (IF Unresolvable(loser) THEN 1 ELSE 0)]
  IN IF wins
       THEN [counted EXCEPT !.data = Content[f].data, !.timestamp = Content[f].timestamp,
                            !.expires = Content[f].expires]
       ELSE counted

\* A static record is merged into the one that is held.
Refine(slot, f) ==
  [slot EXCEPT !.records = @ + 1,
               !.data = DeepMerge(@, Content[f].data),
               !.conflict = Earliest(@, FieldConflict(slot.data, Content[f].data,
                                                      Reads[Content[f].mapping])),
               !.expires = IF Content[f].expires = 0 THEN @ ELSE Content[f].expires]

\* merge_fragment, when the mapping has a slot.
MergeFragment(slot, f) == IF Temporal(f) THEN Observe(slot, f) ELSE Refine(slot, f)

\* apply_write: the same rule with the first record included.
ApplyWrite(slot, f) == IF slot = Vacant THEN FirstRecord(f) ELSE MergeFragment(slot, f)

PlaceLatest(held, f) == [held EXCEPT ![Content[f].id][Content[f].mapping] = ApplyWrite(@, f)]
PlaceObservation(held, f) == [held EXCEPT ![Content[f].id] = Append(@, f)]

-----------------------------------------------------------------------------
\* Writing a batch: resolve_batch_timed.

\* StoreWriteStrategy::combine: one transactional store makes the batch transactional.
Concurrent == entityStore = "DashMap" /\ relationshipStore = "DashMap"

\* The next batch begins when the last has ended.
NoTask == \A f \in input : task[f] \in {"idle", "done"}
Batches == {B \in SUBSET {f \in input : task[f] = "idle"} : B # {} /\ Cardinality(B) <= BatchSize}

\* record_timestamp keeps the first error of a mapping.
FailuresWith(B) ==
  failures \cup {Content[f].mapping : f \in {g \in B : Unresolvable(Content[g].timestamp)}}

TakeBatchConcurrent ==
  /\ phase = "resolve" /\ Concurrent /\ NoTask
  /\ \E B \in Batches :
       /\ task' = [f \in Fragments |-> IF f \in B THEN "build" ELSE task[f]]
       /\ unsent' = [f \in Fragments |-> IF f \in B THEN Content[f].edges ELSE unsent[f]]
       /\ failures' = FailuresWith(B)
  /\ UNCHANGED <<config, phase, edges, seen, stored, txn, edgesFailed, emitted, broken, losses>>

\* build_edges: a temporal edge that was seen before is dropped.
BuildEdges(f) ==
  /\ task[f] = "build"
  /\ unsent' = [unsent EXCEPT ![f] = IF Temporal(f) THEN @ \ seen ELSE @]
  /\ seen' = IF Temporal(f) THEN seen \cup Content[f].edges ELSE seen
  /\ task' = [task EXCEPT ![f] = "edges"]
  /\ UNCHANGED <<config, phase, edges, stored, txn, failures, edgesFailed, emitted, broken, losses>>

\* add_child for every edge that is left.
AddChildren(f) ==
  /\ task[f] = "edges"
  /\ edges' = edges \cup unsent[f]
  /\ unsent' = [unsent EXCEPT ![f] = {}]
  /\ task' = [task EXCEPT ![f] = "lookup"]
  /\ UNCHANGED <<config, phase, seen, stored, txn, failures, edgesFailed, emitted, broken, losses>>

Placed(f) ==
  IF mode = "latest"
    THEN slots' = PlaceLatest(slots, f) /\ UNCHANGED series
    ELSE series' = PlaceObservation(series, f) /\ UNCHANGED slots

\* What get_mut finds: the slot, or in a series the id.
Hit(f) ==
  IF mode = "latest" THEN slots[Content[f].id][Content[f].mapping] # Vacant
  ELSE series[Content[f].id] # <<>>

LookupHits(f) ==
  /\ task[f] = "lookup" /\ Hit(f)
  /\ Placed(f)
  /\ task' = [task EXCEPT ![f] = "scope"]
  /\ UNCHANGED <<config, phase, related, scopes, txn, failures, edgesFailed, emitted, broken, losses>>

LookupMisses(f) ==
  /\ task[f] = "lookup" /\ ~Hit(f)
  /\ task' = [task EXCEPT ![f] = "insert"]
  /\ UNCHANGED <<config, phase, related, stored, txn, failures, edgesFailed, emitted, broken, losses>>

\* Mutant: the slot is taken to be vacant still.
InsertBlindly(f) ==
  /\ task[f] = "insert"
  /\ slots' = IF mode = "latest"
                THEN [slots EXCEPT ![Content[f].id][Content[f].mapping] = FirstRecord(f)] ELSE slots
  /\ series' = IF mode = "latest" THEN series ELSE [series EXCEPT ![Content[f].id] = <<f>>]
  /\ task' = [task EXCEPT ![f] = "scope"]
  /\ UNCHANGED <<config, phase, related, scopes, txn, failures, edgesFailed, emitted, broken, losses>>

\* Another task may have created the id meanwhile: the merge rule is applied again.
InsertAfterMiss(f) ==
  /\ task[f] = "insert"
  /\ Placed(f)
  /\ task' = [task EXCEPT ![f] = "scope"]
  /\ UNCHANGED <<config, phase, related, scopes, txn, failures, edgesFailed, emitted, broken, losses>>

\* Mutant: the last scope replaces the others.
ReplaceScope(f) ==
  /\ task[f] = "scope"
  /\ scopes' = [scopes EXCEPT ![Content[f].id] = Content[f].scope]
  /\ task' = [task EXCEPT ![f] = "done"]
  /\ UNCHANGED <<config, phase, related, slots, series, txn, failures, edgesFailed, emitted, broken,
                 losses>>

\* ConcurrentScopes::merge.
MergeScope(f) ==
  /\ task[f] = "scope"
  /\ scopes' = [scopes EXCEPT ![Content[f].id] = @ \cup Content[f].scope]
  /\ task' = [task EXCEPT ![f] = "done"]
  /\ UNCHANGED <<config, phase, related, slots, series, txn, failures, edgesFailed, emitted, broken,
                 losses>>

-----------------------------------------------------------------------------
\* The coalesced path of a transactional store.  A store in memory beside one on disk
\* writes in place; the resolver is alone with it until the batch has ended.

InBatch(state) == {f \in input : task[f] = state}
MoveBatch(B, state) == task' = [f \in Fragments |-> IF f \in B THEN state ELSE task[f]]

\* prepare_fragments: the edges of the whole batch, a temporal one once.
PrepareBatch ==
  /\ phase = "resolve" /\ ~Concurrent /\ NoTask
  /\ \E B \in Batches :
       /\ MoveBatch(B, "prepared")
       /\ unsent' = [f \in Fragments |->
                       IF f \notin B THEN unsent[f]
                       ELSE IF Temporal(f) THEN Content[f].edges \ seen ELSE Content[f].edges]
       /\ seen' = seen \cup UNION {Content[f].edges : f \in {g \in B : Temporal(g)}}
  /\ UNCHANGED <<config, phase, edges, stored, txn, failures, edgesFailed, emitted, broken, losses>>

WriteEdges(ok) ==
  LET B == InBatch("prepared") IN
  /\ B # {}
  /\ ok \/ relationshipStore = "Redb"
  /\ edges' = IF ok THEN edges \cup UNION {unsent[f] : f \in B} ELSE edges
  /\ edgesFailed' = ~ok
  /\ unsent' = [f \in Fragments |-> {}]
  /\ MoveBatch(B, "related")
  /\ failures' = FailuresWith(B)
  /\ txn' = [slots |-> slots, series |-> series, scopes |-> scopes]
  /\ UNCHANGED <<config, phase, seen, stored, emitted, broken, losses>>

\* A fragment of the batch is folded into what the transaction has read and written.
StoreFragment(f) ==
  /\ task[f] = "related"
  /\ txn' = [slots |-> IF mode = "latest" THEN PlaceLatest(txn.slots, f) ELSE txn.slots,
             series |-> IF mode = "latest" THEN txn.series ELSE PlaceObservation(txn.series, f),
             scopes |-> [txn.scopes EXCEPT ![Content[f].id] = @ \cup Content[f].scope]]
  /\ task' = [task EXCEPT ![f] = "stored"]
  /\ UNCHANGED <<config, phase, related, stored, failures, edgesFailed, emitted, broken, losses>>

\* The commit.  Edges that could not be written are the failure of every fragment, and
\* end the resolver's stage.
WriteFragments ==
  LET B == InBatch("stored") IN
  /\ B # {} /\ InBatch("related") = {}
  /\ slots' = txn.slots /\ series' = txn.series /\ scopes' = txn.scopes
  /\ txn' = NoTransaction
  /\ MoveBatch(B, "done")
  /\ phase' = IF edgesFailed THEN "failed" ELSE phase
  /\ UNCHANGED <<config, related, failures, edgesFailed, emitted, broken, losses>>

\* A read, a write or the commit fails, and the tables are as they were.
WriteFragmentsFails ==
  LET B == InBatch("related") \cup InBatch("stored") IN
  /\ B # {} /\ entityStore = "Redb"
  /\ txn' = NoTransaction
  /\ MoveBatch(B, "refused")
  /\ phase' = "failed"
  /\ UNCHANGED <<config, related, stored, failures, edgesFailed, emitted, broken, losses>>

-----------------------------------------------------------------------------
\* Reading back: drive_assembly.

\* Every fragment has been written and the assembler starts.
BeginAssembly ==
  /\ phase = "resolve"
  /\ \A f \in input : task[f] = "done"
  /\ phase' = "assemble"
  /\ UNCHANGED <<config, task, related, stored, txn, failures, edgesFailed, emitted, broken, losses>>

Slotted(i) == {m \in Mappings : slots[i][m] # Vacant}
RecordedFor(i, m) == {f \in ToSet(series[i]) : Content[f].mapping = m}
Present(i) == Slotted(i) # {} \/ series[i] # <<>>

\* join over the slots, join_observations over a series.
ExpiryOf(i) ==
  IF mode = "latest"
    THEN JoinExpiries({slots[i][m].expires : m \in Slotted(i)})
    ELSE JoinExpiries({Max({Content[f].expires : f \in RecordedFor(i, m)}) :
                         m \in {Content[f].mapping : f \in ToSet(series[i])}})

\* How many records a mapping gave the id, and the first field they disagree on.
RecordsOf(i, m) ==
  IF mode = "latest" THEN slots[i][m].records
  ELSE Cardinality({n \in DOMAIN series[i] : Content[series[i][n]].mapping = m})
ConflictOf(i, m) ==
  IF mode = "latest" THEN slots[i][m].conflict
  ELSE FoldLeft(LAMBDA acc, f : IF Content[f].mapping # m THEN acc
                                ELSE FirstConflict(acc, Content[f].data, Reads[m]),
                NothingMerged, series[i]).found

\* RecordMerge::counts_records_of: only a static mapping of the document.
CountsRecordsOf(m) == m \notin TemporalMappings \cup SyntheticMappings

\* RecordMerge::among: the mappings of the id whose records disagree.
Disagreeing(i) == {m \in Mappings : CountsRecordsOf(m) /\ ConflictOf(i, m) # NoPath}
RecordMerge(i) ==
  [id |-> i,
   records |-> SumFunctionOnSet([m \in Mappings |-> RecordsOf(i, m)], Disagreeing(i)),
   field |-> EarliestOf({ConflictOf(i, m) : m \in Disagreeing(i)})]

\* Mutant: among equal records the first one found stays.
RanksFirstByRecords(merge, exemplar) == merge.records > exemplar.records

\* MergedType::absorb: more records first, then the lower id.
RanksFirst(merge, exemplar) ==
  \/ merge.records > exemplar.records
  \/ merge.records = exemplar.records /\ exemplar.id > merge.id

\* MergedRecords::record, under the type of the id's first disagreeing mapping.
RecordMerged(i) ==
  IF Disagreeing(i) = {} THEN merged
  ELSE LET merge == RecordMerge(i)
           type == EntityTypeOf[Min(Disagreeing(i))]
           exemplar(old) == IF old.ids = 0 \/ RanksFirst(merge, old) THEN merge
                            ELSE [id |-> old.id, records |-> old.records, field |-> old.field]
           absorb(old) == [ids |-> old.ids + 1, id |-> exemplar(old).id,
                           records |-> exemplar(old).records, field |-> exemplar(old).field]
       IN [merged EXCEPT ![type] = absorb(@)]

\* DiscardedObservations::record takes the error the first time.
RecordDiscarded(i) ==
  [m \in Mappings |->
     IF slots[i][m].discards = 0 \/ (discarded[m].entities = 0 /\ m \notin failures)
       THEN discarded[m]
       ELSE [entities |-> discarded[m].entities + 1,
             records |-> discarded[m].records + slots[i][m].discards]]

DiscardsTaken(i) == {m \in Mappings : slots[i][m].discards > 0}

\* assemble_entity moves the id out of a store in memory and reads one on disk.
Drain(i) ==
  /\ slots' = IF entityStore = "Redb" THEN slots
              ELSE [slots EXCEPT ![i] = [m \in Mappings |-> Vacant]]
  /\ series' = IF entityStore = "Redb" THEN series ELSE [series EXCEPT ![i] = <<>>]

\* assemble, and the units of the id handed on until the receiver is gone.
EmitId(i) ==
  LET all == IF mode = "latest" THEN 1 ELSE Len(series[i]) IN
  /\ phase = "assemble" /\ ~broken
  /\ Present(i) /\ emitted[i].outcome = "none"
  /\ \E n \in 0..all :
       /\ broken' = (n < all)
       /\ emitted' = [emitted EXCEPT ![i] =
            [outcome |-> "units", units |-> n, slots |-> slots[i], scope |-> scopes[i],
             expires |-> ExpiryOf(i), edges |-> {e \in edges : e.parent = i}]]
  /\ merged' = RecordMerged(i)
  /\ discarded' = RecordDiscarded(i)
  /\ failures' = failures \ DiscardsTaken(i)
  /\ Drain(i)
  /\ UNCHANGED <<config, phase, task, related, scopes, txn, edgesFailed>>

\* A store on disk that cannot be read: the error takes the place of the units,
\* and the scan goes on unless the receiver is gone.
EmitIdFails(i) ==
  /\ phase = "assemble" /\ ~broken
  /\ "Redb" \in {entityStore, relationshipStore}
  /\ Present(i) /\ emitted[i].outcome = "none"
  /\ emitted' = [emitted EXCEPT ![i].outcome = "error"]
  /\ broken' \in BOOLEAN
  /\ Drain(i)
  /\ UNCHANGED <<config, phase, task, related, scopes, txn, failures, edgesFailed, losses>>

\* The scan has ended, and the stores are destroyed.
Destroy ==
  /\ phase = "assemble"
  /\ broken \/ \A i \in Ids : Present(i) => emitted[i].outcome # "none"
  /\ phase' = "done"
  /\ slots' = [i \in Ids |-> [m \in Mappings |-> Vacant]]
  /\ series' = [i \in Ids |-> <<>>]
  /\ scopes' = [i \in Ids |-> {}]
  /\ edges' = {}
  /\ UNCHANGED <<config, task, unsent, seen, txn, failures, edgesFailed, emitted, broken, losses>>

-----------------------------------------------------------------------------
TaskStep(f) ==
  \/ BuildEdges(f) \/ AddChildren(f) \/ LookupHits(f) \/ LookupMisses(f)
  \/ InsertAfterMiss(f) \/ MergeScope(f)

Next ==
  \/ TakeBatchConcurrent
  \/ \E f \in input : TaskStep(f)
  \/ PrepareBatch \/ (\E ok \in BOOLEAN : WriteEdges(ok)) \/ (\E f \in input : StoreFragment(f))
  \/ WriteFragments \/ WriteFragmentsFails
  \/ BeginAssembly
  \/ \E i \in Ids : EmitId(i) \/ EmitIdFails(i)
  \/ Destroy
  \/ phase \in {"failed", "done"} /\ UNCHANGED vars

Spec == Init /\ [][Next]_vars

-----------------------------------------------------------------------------
\* Properties.

\* The fragments of mapping m for id i that have been placed.
Written(i, m) ==
  {f \in input : Content[f].id = i /\ Content[f].mapping = m /\ task[f] \in {"scope", "done"}}

\* The records of id i, in the store or as they were handed on.
Readable(i) == emitted[i].outcome = "units" \/ (emitted[i].outcome = "none" /\ phase # "done")
SlotOf(i, m) == IF emitted[i].outcome = "units" THEN emitted[i].slots[m] ELSE slots[i][m]

\* Type invariant.
TypeOK ==
  /\ entityStore \in Kinds /\ relationshipStore \in Kinds /\ mode \in Modes
  /\ phase \in {"resolve", "failed", "assemble", "done"}
  /\ task \in [Fragments -> {"idle", "build", "edges", "lookup", "insert", "scope", "done",
                              "prepared", "related", "stored", "refused"}]
  /\ \A f \in input : unsent[f] \subseteq Content[f].edges
  /\ \A i \in Ids : DOMAIN slots[i] = Mappings /\ ToSet(series[i]) \subseteq Fragments
  /\ failures \subseteq Mappings /\ edgesFailed \in BOOLEAN /\ broken \in BOOLEAN
  /\ \A i \in Ids : emitted[i].outcome \in {"none", "units", "error"} /\ emitted[i].units \in Nat
  /\ DOMAIN merged = EntityTypes /\ DOMAIN discarded = Mappings

\* However the tasks of a batch interleave, and whether or not a transaction commits,
\* a slot stands for exactly the fragments that were placed in it, and a series holds
\* each of them once (store_fragment, store_fragment_batch); every variable keeps its type.
NoRecordLost ==
  /\ TypeOK
  /\ mode = "latest" =>
       \A i \in Ids, m \in Mappings :
         Readable(i) => SlotOf(i, m).records = Cardinality(Written(i, m))
  /\ mode = "series" =>
       \A i \in Ids :
         emitted[i].outcome = "none" /\ phase # "done" =>
           /\ ToSet(series[i]) = UNION {Written(i, m) : m \in Mappings}
           /\ Len(series[i]) = Cardinality(ToSet(series[i]))

\* One placed record whole, data, timestamp and expiry together, with none later.
LatestRetained ==
  mode = "latest" =>
    \A i \in Ids, m \in TemporalMappings :
      Readable(i) /\ Written(i, m) # {} =>
        LET slot == SlotOf(i, m) IN
        /\ \A f \in Written(i, m) : RankingText(Content[f].timestamp) <= RankingText(slot.timestamp)
        /\ \E f \in Written(i, m) :
             /\ Content[f].data = slot.data
             /\ Content[f].timestamp = slot.timestamp /\ Content[f].expires = slot.expires

\* The records of the mapping, two by two: the fields they disagree on.
PairConflicts(i, m) ==
  UNION {Conflicts(Content[p[1]].data, Content[p[2]].data, Reads[m]) :
           p \in {q \in Written(i, m) \X Written(i, m) : q[1] # q[2]}}

\* The disagreement of a mapping is the earliest one between any two of its records.
ConflictIsOrderFree ==
  \A i \in Ids, m \in Mappings \ TemporalMappings :
    /\ mode = "latest" /\ Readable(i) => SlotOf(i, m).conflict = EarliestOf(PairConflicts(i, m))
    /\ mode = "series" /\ emitted[i].outcome = "none" /\ phase # "done" =>
         ConflictOf(i, m) = EarliestOf(PairConflicts(i, m))

\* Whatever a record holds is in the merged record, or something else in its place.
EveryFieldKept ==
  mode = "latest" =>
    \A i \in Ids, m \in Mappings \ TemporalMappings :
      Readable(i) =>
        \A f \in Written(i, m) : \A leaf \in Content[f].data :
          leaf \in SlotOf(i, m).data \/ \E k \in SlotOf(i, m).data : Differ(k, leaf)

\* However the tasks interleave, a slot is what its mapping promises: the slot of a
\* temporal mapping holds one placed record whole and no placed record is later
\* (SlotRanking::rank, supersede), the slot of a static one has lost no field of any
\* record merged into it (deep_merge).
SlotIsFaithful == LatestRetained /\ EveryFieldKept

FragmentsOf(i) == {f \in input : Content[f].id = i}
Undisturbed == phase = "done" /\ ~broken /\ \A i \in Ids : emitted[i].outcome # "error"

\* No expiry unless every mapping that contributed has one, and then the furthest.
ExpiryCoversMappings ==
  \A i \in Ids :
    emitted[i].outcome = "units" /\ emitted[i].expires # 0 =>
      \A m \in {Content[f].mapping : f \in FragmentsOf(i)} :
        LET declared == {Content[f].expires : f \in {g \in FragmentsOf(i) : Content[g].mapping = m}}
            kept == IF mode = "latest" THEN emitted[i].slots[m].expires ELSE Max(declared)
        IN kept # 0 /\ kept <= emitted[i].expires

\* A scan that was not cut short hands every id on, with every unit, every scope its
\* fragments declared and every edge they named, although a temporal edge is written
\* by only one of them (build_edges, ConcurrentScopes, drive_assembly); and no id is
\* handed on with an expiry that a mapping's own data outlasts (join, join_observations).
EmittedIsComplete ==
  /\ ExpiryCoversMappings
  /\ Undisturbed =>
     \A i \in {Content[f].id : f \in input} :
      /\ emitted[i].outcome = "units"
      /\ emitted[i].units = IF mode = "latest" THEN 1 ELSE Cardinality(FragmentsOf(i))
      /\ emitted[i].scope = UNION {Content[f].scope : f \in FragmentsOf(i)}
      /\ emitted[i].edges = {e \in UNION {Content[f].edges : f \in input} : e.parent = i}

\* Every observedAt that could not be resolved is reported once: by the tally of
\* discarded records, or by the extractor for a record that kept its slot
\* (SlotRanking::rank, DiscardedObservations::record).
DiscardsReportedOnce ==
  Undisturbed /\ mode = "latest" =>
    \A m \in TemporalMappings :
      discarded[m].records
        + Cardinality({i \in Ids : Unresolvable(emitted[i].slots[m].timestamp)})
      = Cardinality({f \in input : Content[f].mapping = m /\ Unresolvable(Content[f].timestamp)})

\* The ids whose records of type t disagree, as they were handed on.
MergedIds(t) ==
  LET disagreeing(i) ==
        {m \in Mappings : CountsRecordsOf(m) /\ emitted[i].slots[m].conflict # NoPath}
  IN {i \in Ids : disagreeing(i) # {} /\ EntityTypeOf[Min(disagreeing(i))] = t}
MergedRecordsOf(i) ==
  SumFunctionOnSet([m \in Mappings |-> emitted[i].slots[m].records],
                   {m \in Mappings : CountsRecordsOf(m) /\ emitted[i].slots[m].conflict # NoPath})

\* A type's example is the id with most records, the lowest among equals.
ExemplarIsOrderFree ==
  mode = "latest" =>
    \A t \in EntityTypes :
      /\ merged[t].ids = Cardinality(MergedIds(t))
      /\ merged[t].ids > 0 =>
           /\ merged[t].records = Max({MergedRecordsOf(i) : i \in MergedIds(t)})
           /\ merged[t].id = Min({i \in MergedIds(t) : MergedRecordsOf(i) = merged[t].records})

\* What the summary says of merged records depends neither on the order they arrived in,
\* nor on the store, nor on the order the ids were scanned in: the earliest field any two
\* records disagree on (deep_merge, first_conflict), and the example with most records,
\* the lowest id among equals (MergedType::absorb).
ReportIsOrderFree == ConflictIsOrderFree /\ ExemplarIsOrderFree
=============================================================================
