# Cassiopeia: TLA+ models, checks and proofs

Cassiopeia reads records from files and remote sources, maps them to NGSI-LD
entities and writes the entities to files or to a context broker. This
directory models the stateful core of the program: the threads and channels
of the two pipeline phases, the scheduler that runs them in cycles, the stores
between the phases, what the writers leave on disk or at a broker, and the
remote documents a cycle depends on. The models follow the Rust source under
`src/`; the correspondence, definition by definition, is the `map` of
`PROJECT.json`.

## The system

A run is a sequence of *cycles*. Each cycle has two *phases*, and each phase is
a set of threads joined by bounded channels that carry `Signal`s (`Start`,
`Data(batch)`, `Error`, `Stop`).

    scheduler thread --rendezvous--> driver (retries, failure policy)
                                        |
                                        v  one cycle
    set-up    schemas of the manifest -> downloader -> temporary files
    phase 1   per input: collector -> splitter -> profiler -> ingestors -> expander
                 (downloader)           \_ errors _\______________________  |
                                                                          v v
                                                 intake (shared) -> resolver -> store
    phase 2   store -> assembler -> extractor -> transformer -> validator
                    -> [aggregator] -> writer -> completion channel
    file      writer -> one sink per entity type, or a spool replayed on commit
    broker    writer -> job channel -> worker 1..n -> HTTP requests
                 \_ size controller <- shared metrics _/

| Component | State | Operations | What makes it hard | What makes it correct |
| --- | --- | --- | --- | --- |
| Output phase (`phase2.rs`, `stages/pump.rs`, `stages/*.rs`, `completion.rs`) | one thread and channel per stage, the `errored` flag, held-back units, the writer's disposition | receive, process, forward an error, finalize, drain | failures anywhere in a chain of threads that know only their neighbour; cancellation; panics; full channels | a committed output is complete, Ok means delivered, failures are reported, everything ends |
| Input lane (`stages/collector.rs`, `profiler.rs`, `ingestor.rs`, `expander.rs`) | a thread per stage and per format, held-back fragments | collect, split, profile, ingest, expand | errors take two ways to the intake; threads give up independently | an error precedes the `Stop`, no thread is left waiting |
| Input phase (`phase1.rs`, `stages/resolver.rs`) | the intake, `stops_remaining`, the store | resolve, count stops, report | all lanes share one channel | Ok means stored, the store is settled before phase 2 reads it |
| Entity and relationship stores (`cassiopeia-resolver`) | slots per id and mapping, the series, scopes, edges, losses | write a batch by tasks or by transactions, scan, assemble | tasks of one batch meet at one id in any order; a transaction of two fails | no record is lost, the latest stays whole, reports do not depend on the order |
| Scheduler and driver (`cassiopeia-scheduler`, `schedule_driver.rs`) | run number, deadline, attempt, first failure | wait, offer a run, retry, apply the policy | shutdown and expiry at any moment, a rendezvous with a driver that may be gone | bounds are respected, the exit status tells the truth, a shutdown ends the run |
| File writer and atomic spool (`cassiopeia-writer/src/file`, `broker/atomic_writer.rs`) | open sinks with buffers and offsets, the files, the spool | write, flush, close, replay, discard, drop | the thread of a failed attempt is alive while the retry writes the same files | an uncontested Ok leaves exact files; the spool hands on whole entities in order, nothing of an aborted run, and everything when a cycle ends in Ok |
| Broker writer (`cassiopeia-writer/src/broker`) | buffer, job channel, a split stack per worker, two counters, recorded failures | write, flush, post, retry, split, reconcile, join | several workers, lossy answers, shutdown with work queued, panics | every entity is counted once or known to be dropped, nothing is over-reported unless an answer balances by repeating or inventing ids, total failure is an error |
| Size controller (`metrics.rs`, `controller.rs`, `batch_settlement.rs`) | averages, streaks and a payload limit in shared atomics | load, store, count, adjust | updates of two workers overwrite each other | averages stay within what was measured, the target under what was refused |
| Downloader (`cassiopeia-collector`, `schema_resolution.rs`) | attempts, waits, temporary files, `by_type`, `fetched` | ask, wait, write, bind, hand over | retries, `Retry-After`, a shutdown during a wait, files named by one key and remembered by another | a file holds the source it is named for, a stop ends the retries |
| Schema catalogue (`cassiopeia-smart-data-models`) | `manifest.json`, a file per schema | open, plan, fetch, store, record | killed or failing anywhere, files written in place | what the index lists is on disk |
| Parsing, mapping, conversion, transformation, validation rules | none that outlives a record | pure functions | | not modelled |
| Reporting, command line, terminal interface, manifest and configuration | presentation and settings | | | not modelled |

`PROJECT.json` lists every component with its status, and the hazards of the
code at the line where they bite, with the properties that watch them.

## Modules

| Module | Models | Built from |
| --- | --- | --- |
| `OutputPhase` | phase 2 as a chain of `NumStages` threads; `Skipping`, `Validating` and `Folding` say what kind each stage is | |
| `LaneContract` | what a lane promises to the resolver, as relations between two lane states | |
| `InputLaneSpec` | the contract as an abstract specification of one lane | `LaneContract` |
| `InputLane` | the threads of one lane, shown to implement `InputLaneSpec` | `InputLaneSpec` by `INSTANCE ... WITH` |
| `InputPhase` | all lanes, doing anything the contract allows, with the resolver and the completion | `LaneContract` |
| `RecordMerging` | how records of one mapping fold into one: `deep_merge`, conflicts, supersession, expiry | |
| `EntityStore` | both stores, in memory and on disk, for the current state and for the series, from the first batch written to the last unit handed on | `RecordMerging` |
| `Schedule` | scheduler thread and driver; a cycle succeeds or fails | |
| `FileOutput` | the writer thread of every attempt of a cycle, its sinks or its spool, and the files on disk | |
| `BrokerDelivery` | the broker writer and its worker pool | |
| `SizeControl` | the shared metrics, one atomic access at a time, and the controller that reads them | |
| `SourceDownload` | the downloader with its two users: the set-up that binds schemas to types and the collectors | |
| `SchemaCatalog` | downloads of the Smart Data Models catalogue over one directory, with crashes | |
| `OutputPhaseProofs`, `InputLaneProofs`, `InputPhaseProofs`, `BrokerDeliveryProofs`, `ScheduleProofs`, `EntityStoreProofs`, `WriterProofs`, `DownloadProofs` | theorems about the module they are named after, the last two about `FileOutput` and `SizeControl`, and `SourceDownload` and `SchemaCatalog` | these modules, `TLAPS` |
| `MC*` | small instances for TLC | the module they are named after |

The phases compose through the contract: `InputLane` shows with all its threads
that one lane keeps it, and `InputPhase` assumes no more than that for each of
several lanes. This keeps several inputs within reach of TLC, which a product
of whole lanes is not. In the same way `Schedule` takes a cycle as one step that
succeeds or fails, and `BrokerDelivery` takes any batch size within the bounds
that `SizeControl` keeps to.

How state and actions correspond to the code:

* A thread is a `pc` value; one loop iteration is one action, except that a
  blocking send is a step of its own. The signals an operation still has to send
  wait in `out`, and the thread does nothing else until they are sent
  (`SendSignal`) or the receiver is found gone (`SendFails`, `SendBreaks`).
  What a send error does differs between stages as it does in the code: most
  ignore it (`let _ = tx.send(..)`), the assembler and the validator break.
* `HasRoom` is the bounded channel of `channel.rs`; a receiver is disconnected
  when its senders are gone and the channel is empty.
* Cancellation is one flag, read by a stage only where the code reads it:
  after a receive and when the outcome of the stream is decided.
* A batch is the set of its units. A unit is an entity in phase 2, and in phase 1
  a payload or an input, tracked by the batch that carries its last record. What
  a stage computes is reduced to pass, skip with a warning, or fail, each
  possible for every unit.
* In `EntityStore` a record is the set of its leaves with their paths. In memory,
  a task per fragment takes the lock of its map entry in separate steps
  for the lookup, the insertion and the scope; on disk a batch is two transactions, and
  `txn` is what the one for the fragments has read and written: `StoreFragment` folds
  one fragment into it, `WriteFragments` commits it, `WriteFragmentsFails` drops it.
* In `FileOutput` a file is a sequence of tokens and a sink keeps its own offset, so
  that a write of one thread lands where it would in a file another has truncated.
* In `SizeControl` each load, store and `fetch_add` is a step; the value loaded is
  kept by the worker until it stores. A counter stops at its threshold, above
  which the code does not tell values apart.
* In `SourceDownload` the content of a file is the source it came from, and in
  `SchemaCatalog` the run that wrote it; a failed or killed write leaves the old
  content or a torn file.
* A panic (`Panic`) drops what the thread holds and its channel ends.
* Time has no clock: a wait may end at any moment, a deadline may pass at any
  moment. The waits of the downloader are counted in slices, since the flag is
  read between two of them.
* The broker, the servers and the file system are external. A request ends in any
  answer the code tells apart; a 207 answer carries any
  two lists of ids sent or not sent, each id any number of times (`Lists`).
* History variables (marked in each module) record what the properties speak
  of and influence no action. In `BrokerDelivery` they are the entities the broker said it
  `accepted`, the entries it listed in `excess` of them in bodies taken as they stand,
  and how many entities were dropped `uncounted` by a panic or with the channel.

## Runs

| Run | Question | States |
| --- | --- | --- |
| `output_phase` | current-state chain, 3 units in batches of 2, channels of 1, every failure and cancellation: `CommitIsComplete`, `OkIsDelivered` | 373 379 |
| `output_phase_series` | chain with aggregator, every stage may panic: `WriteFailureIsReported`, `ChainNeverJams` and `PhaseTerminates` | 196 834 |
| `input_lane` | 2 payloads, 2 formats: the lane implements its contract (`KeepsContract`), never jams (`LaneNeverJams`) and ends (`LaneTerminates`) | 150 026 |
| `input_phase` | 2 lanes: `OkIsStored`, `StoreSettled`, `ReturnsAfterLanes` | 565 780 |
| `entity_store` | 4 workloads of 4 fragments over 2 ids and 3 mappings, both kinds of both stores, both modes: `NoRecordLost`, `SlotIsFaithful`, `ReportIsOrderFree`, `EmittedIsComplete`, `DiscardsReportedOnce` | 36 265 |
| `schedule` | every combination of once, repeat 0..2, duration, 1..2 attempts and the three policies: exit status, bounds, termination | 10 050 |
| `file_output` | 3 entities of 2 types, 2 attempts whose threads may overlap, both framings and the spool: `OkFileIsExact`, `WrappedInOrder`, `OkIsFinal` | 625 511 |
| `broker_delivery` | 3 entities, 2 workers that may both panic, batches of 1 or 3, 2 attempts, 207 lists that repeat ids and name a stranger: `EveryEntityCounted`, `NeverOverReports`, `NothingDeliveredFails`, `DeliveredOnce`, `DeliveryTerminates` | 200 591 |
| `size_control` | 2 workers, a target of 3 values, 2 payload sizes around them, every kind of answer: `AveragesAreObserved`, `CeilingIsARejection`, `OverloadShrinks` | 466 857 |
| `source_download` | every manifest of 2 lanes over 2 types, 2 urls and a local file, then 2 collectors, 3 attempts: `UncontestedSchemaIsItsSource`, `HandedOverIsWhole`, `StopEndsRetries`, `DownloadsEnd` | 321 194 |
| `schema_catalog` | 3 downloads of 3 schemas into one directory, failing or killed anywhere: `ListedIsOnDisk`, `RunEnds` | 298 062 |

All pass. One run ends in a violation, where the code does something else than
its docs say; `findings` in `PROJECT.json` quotes the lines:

| Run | What it shows |
| --- | --- |
| `file_output_retry` | the thread of a failed attempt still holds its files when the retry recreates them, and flushes at its own offsets into what the retry wrote; the retry ends in Ok |

`OkFileIsExact` and `OkIsFinal` are what remains true: an attempt that began with no
earlier thread alive leaves exact and final files.

### Disagreements seen while modelling

The models below allow these behaviours; the properties are stated so that they
say what does hold, and no run is spent on the disagreement.

* `stages/writer.rs`, `process`: a refused batch returns `Continue`, so the rest of
  the stream is committed, although the comment at `writer.rs:54` and
  `docs/running.md:68` speak of a run that is not half populated. The phase does
  end in Err (`WriteFailureIsReported`).
* `completion.rs:20`: a panicking stage looks like a clean end of stream and the
  phase can end in Ok, against the comment at line 6. `OkIsDelivered` and
  `CommitIsComplete` are therefore stated for runs without a panic.
* `stages/profiler.rs:42`: the routes are dropped before the error is sent, so the
  lane's `Stop` can overtake it, against the comment at line 30; `LaneContract`
  has the case.
* `cassiopeia-scheduler/src/stage.rs:78`: the deadline is not looked at after the wait,
  so one run can begin past it, against `docs/manifest.md:269`.
  `ExpiryStopsRuns` says never two.
* `broker/atomic_writer.rs:108`: the replay hands on entity by entity, so a commit whose
  replay fails half-way has given the wrapped writer the first part of the spool; and
  after a failed spool write the stream goes on and commits, so the replay may have a hole
  (or end at the torn record). All or nothing holds of aborted cycles and of
  cycles that end in Ok; of the others `WrappedInOrder` says that what was handed on is whole
  entities in the order of the stream, none twice.
* `broker_writer.rs:282`: a worker's panic takes its batch uncounted, and a run that
  delivered nothing can end in Ok, against `docs/output.md:306` and the comment
  at line 279. `NothingDeliveredFails` says that this takes a run of which nothing at all
  was counted; `EveryEntityCounted` that entities go uncounted only at a shutdown or a panic.
* `batch_reconciliation.rs:35`: a 207 body with as many entries as entities were sent is
  taken as it stands, even if it repeats ids or names others: `success = [A, A]` for a
  batch of A and B counts two as written, against the comments at lines 23 and 29.
  `NeverOverReports` says by how much the count can be off: by the entries of such
  bodies that repeat an id or name a stranger (`Overstated`), and by nothing else.
* `batch_settlement.rs:332`: two racing observations of a refused payload can store the
  larger one last, so the limit can grow, against the comment at
  `controller.rs:29`; the comment at `metrics.rs:22` says largest where the code
  keeps the smallest. `CeilingIsARejection` says it stays a refused payload.
* `schema_resolution.rs:155`: a schema file is named for the entity type but
  remembered under its url. When lane A gives types T1 and T2 the schema at one
  url, and lane B gives T1 another, the second download overwrites `T1.json`,
  which T2 is still bound to, against the comment at line 34 and
  `docs/validation.md:94`. `SchemaIsItsSource` states the intention,
  `UncontestedSchemaIsItsSource` what holds.
* `dereference/mod.rs:92`: resolved and expanding references are keyed by the reference
  string alone, not by the document it is relative to. Not modelled.

### Bounds, and why they are enough

* Channels hold 1 or 2 signals. Every blocking send, and every order of a full
  channel and a departing receiver, occurs at capacity 1; the intake of
  `InputPhase` gets 2 so that signals of two lanes can overtake an error.
* Three units in batches of two give a full batch, a partial batch, and a
  failure before, within and after each. A chain of four stages has a first, a
  last and two inner stages; since every pump stage knows only its neighbours, a
  longer chain repeats the inner ones.
* `RunBound` caps the run counter beyond every repeat count; a schedule without
  a bound keeps running at the cap, so liveness is not cut short.
* A batch of three splits unevenly and then again, and batches of one keep both
  workers busy while a third batch waits in the channel; two attempts give one
  backoff per request. A list of a 207 has up to two repeated entries (`MaxRepeats`) and one
  stranger (`Strangers`), so that a batch of three balances with any number of its entities
  left out, by either means or both.
* Three records that disagree pairwise in nested and plain fields are the fewest
  for which the order of merging matters; the temporal ones tie, fail to
  resolve and share an edge. Batches of up to three let three tasks meet at
  one id, and leave a second batch.
* Two attempts overlap in every way one thread can outlive its attempt; three
  entities of two types give each file a separator and one file none.
* A target of three values can be at, between and off its bounds. Two workers
  suffice for every lost update, since a third can only lose in the same way.
* Three attempts give two waits of different length, and `MaxBackoff` of 4 slices
  with `Retry-After` of 0 or 3 makes each the longer one once.
* Three runs over one directory (`MaxRuns`) are a success, a run that fails or is killed
  anywhere, and one that follows.
* Symmetry is used only for the units of `output_phase`, which checks invariants
  alone.

### Fairness

`FairSpec` assumes weak fairness of each thread: a thread that can continue is
scheduled. For the code that means a blocking receive or send that can proceed
does, a sleep ends, a parser returns, and a request is answered or times out
(`build_client` sets a timeout). No fairness is assumed of the signal handler, of
the lanes in `InputPhase` (their own termination is `LaneTerminates`), of the
expiry of a deadline, or of a crash; in `BrokerDelivery` the writer thread is fair because
`PhaseTerminates` shows that the pipeline finalizes its writer. `OverloadShrinks`
also has a premise on the broker: from some time on it accepts nothing, and it does not
stop failing transiently or answering 413. A broker that only answers 400 or 401 accepts nothing
either, but such answers touch no metric (`settle_rejected`, `settle_opaque`), so the
target stays where it is; in the model they are the answer `idle`.

## Proofs

Each result holds for every value of the constants that satisfies the named
`ASSUME`s of its module; TLC evaluates those on every run.

**`OutputPhaseProofs`**: `TypeCorrect`, `Spec => []TypeOK`. `TypeOK` is `Typed /\
Bounded`: every variable keeps its type, and no channel holds more than its
capacity. It is inductive as it stands, but in two layers: `TypedStep` takes one
step per action; `BoundedStep` uses `Typed` to know that channels are functions
to sequences, and rests on three lemmas on what a step may do to the channels
(`ChangeBounded` one channel changes within its bound, `TakeBounded` a receive
shortens one, `ClearBounded` a departing receiver empties one).

`WriteFailureReported`, `Spec => []WriteFailureIsReported`, holds whatever panics or is
cancelled. Its invariant `Reports` speaks of the writer alone: nothing follows its
`Stop`, and as long as `drain_completion` runs a failure of the writer is in what it
still has to send or in the completion channel (`ReportUnderWay`), so `Stop` cannot be read
before it. Every other thread leaves these variables alone (`OthersAreQuiet`).

Its last theorems are `CommitInvariant` (`Spec => []IInv`), and from it `CommitComplete` and
`OkDelivered`. Neither property is inductive: that a committing
writer has seen everything depends on every stage above it. Their streams ended
with a `Stop` that nothing follows (`StopClosesStream`), the `Stop` is still on
its way or was received (`StopArrives`), a failure has moved one stage down or is
on its way (`FailureTravels`), a stage that ended cleanly has only cleanly ended,
drained stages above it (`CleanEnd`), units are dropped only with a failure
(`LossIsFailure`), and every unit is somewhere (`Conservation`). `IInv` is the
conjunction; it was model-checked on the chain of `output_phase_series` before it
was proved.

The argument for a step of one thread does not go through the actions again for each
part. `Shape` says what a thread leaves alone: all of the other stages, and all
channels but its own and the one it receives from. `OwnShape` says that what it does to its own stage
is one of five things: it sends, drops what it cannot send, operates, panics or
closes. With `EffectsOfStep` (what is lost or taken, and when a loop may end) each part
follows from these cases and from the lemmas on queues of signals. `StepFlows`
shows that no step loses a unit: what leaves a stage or the channel above it
arrives in another place, is settled or is recorded as lost. The last link is
`CleanEndIsComplete`: a writer that ends its loop without a failure, in a chain
whose stages are all drained, finds every unit settled.

`NeverJams`, `Spec => []ChainNeverJams`, is the safety half of `PhaseTerminates`. `CanStep(s)`
says that what the thread of `s` waits for is there: room below or nobody to read, a
signal above or nobody to send one. The core is `UpstreamSteps`: if a stage that is not over
cannot be blocked below, its channel being empty or its reader gone, some stage can step.
Take the least such stage: it sends, ends or receives, unless the channel above it is
empty and its sender alive, and then that sender is a lesser one. And there is
such a stage whenever the phase is not over and `drain_completion` has nothing to
read: the writer while `drain_completion` still waits, the last stage that is
not over afterwards. `LeastNumber` and `GreatestStage` give these stages, from the
well-foundedness of `Nat`. The one thing to carry along the run is that no batch in
the chain is empty (`AllFilled`), or the aggregator could be left with an empty aggregate. That
`CanStep(s)` and `CanDrain` are what enables `StageStep(s)` and `DrainStep` was checked with
TLC on both chains. What is left to fairness, and to TLC, is that a chain that
can always go on comes to its end.

**`InputLaneProofs`**: `LaneTyped` (`Spec => []TypeOK`), `LaneInvariant` (`Spec =>
[]LaneInv`) and `LaneKeepsContract` (`Spec => KeepsContract`), the refinement that
`InputPhase` rests on. The contract forbids a `Stop` while a payload is unanswered,
an error of the collector or of an ingestor after the `Stop`, and a second `Stop`. The expander,
which sends the `Stop`, knows none of this: it goes by its ingestors having ended.
So the invariant says what a thread that is past its loop leaves behind it:

* `Control`: what each thread can have left to send, and whether it is past its loop;
* `Streams`: in the channels to the splitter and the profiler a `Stop` is last, and
  whoever sent it is through;
* `Unique`: what the profiler has still to see is nowhere further down the lane. It is
  needed for one case only: a payload that cannot be profiled must not have been
  handed over, for then the lane could be complete and yet owe an error;
* `Excused \/ Answerable`: either the lane is relieved (the run was cancelled, the
  intake closed, an error was handed over, or a profiling error is owed), or every
  payload is in the lane, handed over or skipped, or an ingestor's error is coming
  (`ErrorComing`), and each thread that ended did so after the one above it and with
  an empty channel (`CollectorOver`, `SplitterOver`, `ProfilerOver`, `FormatOver`,
  `ExpanderOver`).

While the lane has to answer, no thread finds its receiver gone (`NoSendFails`)
and none drops a signal as it ends (`CloseEmpty`), which leaves few of the steps
(`AnswerableSteps`); `PayloadKept` shows that these lose nothing but for an error
that is coming. `StopIsComplete` is the case the contract turns on: with the `Stop` next, all
that is above the expander is over and empty, so everything was handed over or
skipped. `ContractSteps` states the contract in terms of the lane's variables, and
`SplitterContract`, `ProfilerContract`, `ExpanderContract` and `ThreadContract` map each
thread's steps to it. The assumption that an input has a payload at all
(`LaneAssumption`) is what the code builds: `input_config.rs` makes every source
a single one.

`LaneNeverStuck`, `Spec => []LaneNeverJams`, does for the lane what `NeverJams` does for the
output phase. Its threads are not in a line: the splitter and the profiler also send to the
intake, and the profiler serves every ingestor. The argument goes up the lane and
down again (`LaneGoesOn`). Were no thread to go on, the expander would have nothing to send, since the
intake always takes or refuses; so its channel is empty, and then no ingestor, and
in turn not the profiler, the splitter or the collector, has anything left to send. So all wait
for signals; but the collector waits for nobody, so it has ended, and then so has each thread
below it. What is carried along the run is that nobody is sent a signal it has no answer to
(`Served`), which follows from what `Control` says of the sends. As for the output phase, TLC
confirmed on the run's instance that `CanStep(t)` is what enables `ThreadStep(t)`.

**`InputPhaseProofs`**: `PhaseInvariant` (`Spec => []IInv`), and from it `OkStored` and the
action property `StoreIsSettled`. The resolver does not know its lanes: it counts their
`Stop`s and leaves its loop at the last one expected. That this is the right moment needs
two facts. The `Stop`s are conserved (`StopsCounted`): those still expected and the lanes
that have stopped add up to the inputs and the `Stop`s in the intake. And
whatever a lane handed over lies before its `Stop` in the intake, is stored, or has
become an error (`Accounted`, in `LanesAccounted`). `LastStop` combines them: when one `Stop` is
expected and it is at the head, every lane has stopped and nothing else is in
flight. `StreamEnds` and `ResolverAccounted` carry this over to the result: an error
the resolver met is in what it still has to send, in the completion channel or in the result.

**`BrokerDeliveryProofs`**: `DeliveryInvariant` (`Spec => []IInv`), and from it `AllCounted`,
`SettledOnce`, `NothingIsAnError` and `ReportsAreBacked`. Counting is not inductive without knowing where the entities
are. `OneHolder` says that buffer, job, channel, stacks and current batches hold
no entity twice; `Accounts` that none of those in hand was accepted, that the counters, the
hand and what was dropped uncounted add up to what was given, and that nothing was dropped
without a shutdown or a panic; `Phases` what a thread can hold where it stands, and that a pool that is
gone has emptied the channel; `Noted` that a counted failure is on record. A step of a
worker is then an instance of one of three lemmas: it moves (`Moving`), it settles its batch
(`Settling`) or it splits it (`Splitting`); `WorkerHolds` and `Counting` carry the
sets and the numbers through the others. `ReconcileAddsUp` is the fact about `reconcile`: whatever
the two lists of an answer hold, its two numbers add up to the batch (`TwoParts` and `ListSize`
count the ids a list names against its entries). For `ReportsAreBacked` the same lists are
compared with what the answer accepts: a body that does not balance never
counts more than that, and one that does exceeds it by what `excess` records.

**`EntityStoreProofs`**: `StoreInvariant` (`Spec => []IInv`), and from it `RecordsKept`,
`SlotsFaithful`, `EmittedComplete`, `DiscardsReported` and `ReportOrderFree`, for any number of
fragments, ids and mappings and batches of any size. The proof has two layers. The first is
about one record: a slot *stands for* a set of fragments of its mapping (`StandsFor`) when it
counts them, is one of them whole with none later and has counted the failing ones that are not
in it (a temporal mapping), or is what their records merge to (a static one). `ApplyWriteStandsFor`
shows that a write makes a slot stand for one fragment more, whether it creates
the slot, takes it, is dropped or is merged, so the race between a lookup that
misses and the insertion cannot matter. `PlaceHolds` lifts this to the tables of both modes.

The second layer is the invariant. `TablesKept`: the tables hold the fragments in `InPlace`, the scopes
those that are done. `TransactionKept`: an open transaction has besides these the fragments it
has folded in, so a commit and a failure both leave `TablesKept`. `EdgesKept` is the
subtle part: a temporal edge that another task has claimed is dropped although it is
not written yet, so what a task named is not in the table but *covered*, written
already or about to be (`Covered`); when all tasks are done the two are the same
(`Assembling`). `FailuresKept`: the error of a mapping is kept until one of its discards was
recorded, so none is ever recorded in vain. `Handed` and `DiscardsCounted` carry these over
to what was handed on. The expiry of an id is the maximum of a finite set;
that it has one (`MaxOfFinite`) is shown by a smallest counterexample.

`ReportOrderFree` proves what the comment of `deep_merge` argues in prose: the earliest field in
conflict is the same whichever order the records arrive in. The difficulty is that merging
drops leaves, and a dropped leaf takes its later conflicts with it. `Merges` says what a merged
record knows of the set it came from: every leaf of it is one of theirs, every leaf of theirs
is met by one of it, and its conflict is the earliest between any two of them. The heart is
`DroppedLeafTells`: a leaf that was dropped left one in its place that either ends
no later than the two leaves whose conflict was missed, so that an earlier conflict was found when it was
dropped, or reaches beyond them and shows the same conflict itself. With it `MergesNext` adds
a record, for which the order of paths is shown to be total (`BeforeChains`,
`BeforeOneWay`, `BeforeEitherWay`). Paths are nonempty and none of a record continues another
(`StoreAssumption`), because a record is a JSON object; an object without keys in it is a leaf
that differs from nothing below its path (`BothObjects`). In a series
the same lemma runs along the fold of `conflict_of` (`FoldedMerges`). The library's fold is a
chosen recursive function; that there is one is shown for these two folds by a least
counterexample (`FoldExists`, `SumExists`), as the general theorem takes an operator. The example
of a type is first among the ids counted (`ExemplarsKept`), an invariant
of its own beside `IInv`, which only handing on an id can disturb (`EmitIdReports`).

**`ScheduleProofs`**: `ScheduleInvariant` (`Spec => []IInv`), and from it
`ExitStatus`, `RepeatBound`, `ShutdownBound`, `ExpiryBound` and the action
property `AbortEnds`. None of these is inductive alone. That at most one run
begins too late holds because the scheduler has a run in preparation only while
none did, and because it looks at the flag and the deadline whenever it comes
back to the top of its loop (`NothingLateYet`). The repeat bound needs to know
where the run being offered stands between the scheduler's count and the
driver's (`RunsInOrder`). The exit status needs what the driver remembers under
each policy (`FailureRemembered`), and the type of `attempt` that a backoff means
an attempt is left (`RetryLeft`). `RepeatIsRespected` and the invariant are proved
and not run.

**`WriterProofs`**, of `FileOutput`: `FilesInvariant` (`Spec => []IInv`), and from it
`OkFilesExact`, `ReplayInOrder` and the action property `OkFilesFinal`. That the file of a
type is exact at the end says nothing of the states before, so the invariant
follows an entity on its way: of those taken of the stream, the first are in the sinks
and their files, the next are prepared, then retained, then still in the batch
(`InHand`), and for each type the file followed by the buffer of its sink is the joined
lines of the first (`SinkHolds`). This is indifferent to when a buffer is written out. It
is kept for the attempt that nobody contests, until that reports an error
(`Undisturbed`); that no other thread can then touch its files is `ActiveThread`: a later attempt has not
begun, and earlier ones are done. The lemmas on data carry the weight: `LinesAppend`, the
next entity adds a line to the file of its own type and to no other (`Nth` picks the
element with a rank, which `NthLater` shows stable); `JoinedAppend`, what
`write_serialized` adds is what the framing asks for at that place; `WriteAtEnd`, a
write at the end of a file continues it, which holds as long as the sink's
offset is the file's length; `StretchOf`, taking and handing on an interval of the stream. The spool is the
same argument with one sequence (`Spooled`), for every attempt, as spools are not shared, as
long as nothing was reported. What remains true after an error is in a part of its own,
`Ordered`: what was replayed followed by what is spooled are lines in the order of the stream,
torn ones apart, and what is left of the batch comes after them. A replay moves
the boundary between the two (`Moved`) and so leaves it as it is; a torn line is never replayed.

**`WriterProofs`**, of `SizeControl` (whose specification is named `ControlSpec` so that
both fit in one module): `AveragesObserved` and `CeilingRefused`. A racing store uses a
value loaded earlier, so the invariant must say what a worker carries between
its load and its store: a value between two measurements, and, for the limit, that
one was stored before if one was seen (`Carried`). With `LimitIsRefused` (the limit
is a refused payload, and there is one once a payload was refused) every store
keeps both. The arithmetic is one lemma: a smoothed average of two numbers between two
measurements is between two measurements (`SmoothedBetween`).

**`DownloadProofs`**: of `SourceDownload`, `HandedOverWhole`, `StopEnds` and `SchemaIsDeclared`. A file that was handed over
stays whole because whatever is being downloaded goes to a path that was not
handed over (`DestinationFresh`): the paths of the set-up and of the lanes are apart, and a
lane's index has moved on. The invariant says of a client in a download what it
asked for (`SetupAsks`, `LaneAsks`), so that what arrives is what is recorded. At most one
late request is sent because a client that has slept to the end did so before the
flag was raised (`NoneLate`). Exponentiation is beyond
the prover: that a backoff is a positive number is the assumption `BackoffAssumption`.

`SchemaIsDeclared` follows the two passes of the set-up over the lanes with an invariant
of its own (`BindInv`). At every point a type is bound to the schema of the last lane so
far that gave it one, otherwise to the global one (`BoundToLast`): the last lane is
carried along, so that no maximum of a set is needed at the end. What a url was fetched
for was given that url (`FetchedFor`), so a second download to the same path would mean two
remote schemas for one type; the global schema never is the second, because a type
that has one is passed over, and two lanes are what `Contested` excludes (`PathIsFree`).
That invariant was model-checked on the run's instance before it was proved.

**`DownloadProofs`** also proves, of `SchemaCatalog`, `CatalogIsOnDisk`. What is listed has a file because a model is
recorded only after its schema was stored in the same run (`StoredIsWhole`,
`ListedIsStored`), and no write ever makes a file absent (`ListedHasFile`); that an Ok run
leaves whole files needs that the index was replaced by what that run stored
(`OkIsListed`) and that nothing else is in progress between runs (`RunInProgress`).

Left to TLC: the liveness properties, which need `ENABLED` and fairness. Of `PhaseTerminates`
and `LaneTerminates` the half that is safety, that the threads never all wait for one
another, is proved (`NeverJams`, `LaneNeverStuck`).

## Plan

1. Done: the output phase, the lane and its contract, the input phase, the
   stores, the schedule, broker delivery, the size controller, the file writer
   and the spool, the downloader and its users, the schema catalogue; proved: all
   safety properties of the output phase, the lane and its contract, the input phase
   and broker delivery, the safety of the schedule, of the stores, of the file and spool
   writers, of the size controller, of the downloads and of the catalogue, and that neither the
   output chain nor a lane ever deadlocks.
2. Model next, if the need arises: the dereferencer of schemas, and the two phases
   composed into one cycle that implements the cycle of `Schedule`.

## Not modelled

* Panics of the collector, profiler and expander threads (an ingestor's panic is
  an error, as `ingest_one` makes it).
* `Start` and `Meta` signals in phase 1, where no thread acts on them.
* A broker that processes a request whose answer is lost: the model keeps what
  the broker said, not what it did.
* The encoding of records on disk, indentation of files, and the rewriting,
  dereferencing and searching of schemas.
* Most of the source by lines: parsing, format detection, mapping, templates,
  geometry and attribute conversion, NGSI-LD transformation, manifest building.
  These are pure functions from documents to documents. They hold no state
  between records, and an abstraction that keeps only their control is empty;
  they are best tested with examples, as the repository does.
* Reporting, diagnostics, telemetry, the command line, the terminal interface,
  the manifest and configuration loaders: presentation and I/O without shared
  state that a property here depends on.
