---------------------------- MODULE FileOutput -----------------------------
(***************************************************************************)
(* What the writer leaves behind (cassiopeia-writer): the file writer with *)
(* one sink per entity type, and the staging writer that spools entities   *)
(* and replays them on commit, both driven by the writer stage's thread.   *)
(*                                                                         *)
(* drain_completion returns at the first error, and the thread goes on; a  *)
(* retry of the cycle starts another thread with a writer for the same     *)
(* directory.  A file is a sequence of tokens.  A sink holds its own file  *)
(* offset, so what it writes lands there whatever the file has become.     *)
(***************************************************************************)
EXTENDS Naturals, Sequences, SequencesExt, FiniteSets

CONSTANTS
  EntityCount,   \* the entities of the stream are numbered in its order
  TypeOf,        \* entity -> entity type
  HandOff,       \* entities in one batch of the channel
  BatchSize,     \* entities serialised at a time
  MaxAttempts,   \* retry.maxAttempts
  Destinations,  \* subset of {"File", "Atomic"}
  Framings       \* subset of {"Array", "LineDelimited"}

Entities == 1..EntityCount
Types == {TypeOf[e] : e \in Entities}
Attempts == 1..MaxAttempts

ASSUME FileOutputAssumption ==
  /\ EntityCount \in Nat /\ HandOff \in Nat \ {0} /\ BatchSize \in Nat \ {0}
  /\ MaxAttempts \in Nat \ {0}
  /\ Destinations \subseteq {"File", "Atomic"} /\ Framings \subseteq {"Array", "LineDelimited"}

VARIABLES
  destination, framing,
  driver,      \* run_with_retry: "draining", "backoff", "ok", "failed"
  attempt,     \* the attempt it is in
  shutdown,    \* the process-wide flag
  thread,      \* per attempt, the writer stage: "idle", "running", "flushing", "closing",
               \* "dropping", "done"
  next,        \* per attempt, the next entity of the stream
  errored,     \* per attempt, an error came down the stream
  aborted,     \* per attempt, finalize was given RunOutcome::Aborted
  reported,    \* per attempt, the first completion signal: "none", "Error", "Stop"
  contested,   \* the attempts that began while an earlier thread was still alive
  batch,       \* per attempt, the rest of the batch in write_batch
  pending,     \* per attempt, FileWriter.pending
  ready,       \* per attempt, prepared entities not yet written
  closeFailed, \* per attempt, a sink could not be finalized
  sinks,       \* per attempt and type
  files,       \* per type, what is on disk
  spool,       \* per attempt, the lines of the spool
  inner        \* per attempt, what the wrapped writer was given

config == <<destination, framing>>
control == <<driver, attempt, contested>>
atomic == <<spool, inner>>
vars == <<config, control, shutdown, thread, next, errored, aborted, reported, batch, pending,
          ready, closeFailed, sinks, files, atomic>>

NoSink == [open |-> FALSE, first |-> FALSE, buffer |-> <<>>, offset |-> 0]
NewSink == [NoSink EXCEPT !.open = TRUE]

\* Tokens of a file.
Opening == <<"[">>
Separator == <<",">>
Closing == <<"]">>
Hole == <<"hole">>
Line(a, e) == <<"entity", a, e>>
Torn == <<"torn">>

Init ==
  /\ destination \in Destinations /\ framing \in Framings
  /\ driver = "draining" /\ attempt = 1 /\ shutdown = FALSE /\ contested = {}
  /\ thread = [a \in Attempts |-> IF a = 1 THEN "running" ELSE "idle"]
  /\ next = [a \in Attempts |-> 1]
  /\ errored = [a \in Attempts |-> FALSE] /\ aborted = [a \in Attempts |-> FALSE]
  /\ reported = [a \in Attempts |-> "none"]
  /\ batch = [a \in Attempts |-> <<>>] /\ pending = [a \in Attempts |-> <<>>]
  /\ ready = [a \in Attempts |-> <<>>] /\ closeFailed = [a \in Attempts |-> FALSE]
  /\ sinks = [a \in Attempts |-> [t \in Types |-> NoSink]]
  /\ files = [t \in Types |-> <<>>]
  /\ spool = [a \in Attempts |-> <<>>] /\ inner = [a \in Attempts |-> <<>>]

\* tx.send: only the first signal is drained, the receiver is dropped after it.
Report(a, signal) == reported' = [reported EXCEPT ![a] = IF @ = "none" THEN signal ELSE @]

-----------------------------------------------------------------------------
\* run_with_retry.

Shutdown ==
  /\ ~shutdown /\ shutdown' = TRUE
  /\ UNCHANGED <<config, control, thread, next, errored, aborted, reported, batch, pending, ready,
                 closeFailed, sinks, files, atomic>>

\* drain_completion: Stop is Ok, the first error ends the cycle.
Drain ==
  /\ driver = "draining" /\ reported[attempt] # "none"
  /\ driver' = IF reported[attempt] = "Stop" THEN "ok"
               ELSE IF attempt < MaxAttempts THEN "backoff" ELSE "failed"
  /\ UNCHANGED <<config, attempt, contested, shutdown, thread, next, errored, aborted, reported,
                 batch, pending, ready, closeFailed, sinks, files, atomic>>

\* The backoff has elapsed: run_cycle builds a new writer and a new stage.
Retry ==
  /\ driver = "backoff" /\ ~shutdown
  /\ attempt' = attempt + 1 /\ driver' = "draining"
  /\ thread' = [thread EXCEPT ![attempt + 1] = "running"]
  /\ contested' = IF \E a \in 1..attempt : thread[a] # "done" THEN contested \cup {attempt + 1}
                  ELSE contested
  /\ UNCHANGED <<config, shutdown, next, errored, aborted, reported, batch, pending, ready,
                 closeFailed, sinks, files, atomic>>

BackoffInterrupted ==
  /\ driver = "backoff" /\ shutdown
  /\ driver' = "failed"
  /\ UNCHANGED <<config, attempt, contested, shutdown, thread, next, errored, aborted, reported,
                 batch, pending, ready, closeFailed, sinks, files, atomic>>

-----------------------------------------------------------------------------
\* The writer stage: run_pump_stage with a WriterProcessor.

Waiting(a) == thread[a] = "running" /\ batch[a] = <<>> /\ ready[a] = <<>>

TakeBatch(a) ==
  /\ Waiting(a) /\ ~shutdown /\ next[a] <= EntityCount
  /\ LET last == IF next[a] + HandOff - 1 < EntityCount THEN next[a] + HandOff - 1 ELSE EntityCount
     IN /\ batch' = [batch EXCEPT ![a] = [i \in 1..(last - next[a] + 1) |-> next[a] + i - 1]]
        /\ next' = [next EXCEPT ![a] = last + 1]
  /\ UNCHANGED <<config, control, shutdown, thread, errored, aborted, reported, pending, ready,
                 closeFailed, sinks, files, atomic>>

\* An error of an earlier stage is forwarded.
ForwardError(a) ==
  /\ Waiting(a) /\ ~shutdown /\ ~errored[a]
  /\ errored' = [errored EXCEPT ![a] = TRUE]
  /\ Report(a, "Error")
  /\ UNCHANGED <<config, control, shutdown, thread, next, aborted, batch, pending, ready,
                 closeFailed, sinks, files, atomic>>

\* Stop, or a cancellation; after an error Stop may come before the whole stream has.
EndStream(a) ==
  /\ Waiting(a)
  /\ shutdown \/ errored[a] \/ next[a] > EntityCount
  /\ aborted' = [aborted EXCEPT ![a] = errored[a] \/ shutdown]
  /\ thread' = [thread EXCEPT ![a] = "flushing"]
  /\ UNCHANGED <<config, control, shutdown, next, errored, reported, batch, pending, ready,
                 closeFailed, sinks, files, atomic>>

-----------------------------------------------------------------------------
\* FileWriter.

OnFile(a) == destination = "File" /\ thread[a] \in {"running", "flushing"}

\* write: an entity is retained until a batch is full, which is then prepared as a whole.
Push(a) ==
  LET held == Append(pending[a], Head(batch[a]))
      full == Len(held) >= BatchSize
  IN /\ OnFile(a) /\ batch[a] # <<>> /\ ready[a] = <<>>
     /\ batch' = [batch EXCEPT ![a] = Tail(@)]
     /\ pending' = [pending EXCEPT ![a] = IF full THEN <<>> ELSE held]
     /\ ready' = [ready EXCEPT ![a] = IF full THEN held ELSE <<>>]
     /\ UNCHANGED <<config, control, shutdown, thread, next, errored, aborted, reported,
                    closeFailed, sinks, files, atomic>>

\* flush_pending in finalize.
FlushPending(a) ==
  /\ OnFile(a) /\ thread[a] = "flushing" /\ ready[a] = <<>> /\ pending[a] # <<>>
  /\ ready' = [ready EXCEPT ![a] = pending[a]]
  /\ pending' = [pending EXCEPT ![a] = <<>>]
  /\ UNCHANGED <<config, control, shutdown, thread, next, errored, aborted, reported, batch,
                 closeFailed, sinks, files, atomic>>

\* What is left when write_batch or flush_pending returns an error: the rest of the batch
\* is dropped, and a finalize that failed leaves its sinks to the drop of the writer.
GiveUp(a) ==
  /\ batch' = [batch EXCEPT ![a] = <<>>]
  /\ ready' = [ready EXCEPT ![a] = <<>>]
  /\ thread' = [thread EXCEPT ![a] = IF @ = "flushing" THEN "dropping" ELSE @]
  /\ Report(a, "Error")

\* An entity that cannot be serialised fails the whole prepared batch.
PrepareFails(a) ==
  /\ OnFile(a) /\ ready[a] = <<>>
  /\ \/ batch[a] # <<>> /\ Len(pending[a]) + 1 >= BatchSize
     \/ thread[a] = "flushing" /\ pending[a] # <<>>
  /\ pending' = [pending EXCEPT ![a] = <<>>]
  /\ GiveUp(a)
  /\ UNCHANGED <<config, control, shutdown, next, errored, aborted, closeFailed, sinks, files,
                 atomic>>

\* A write at an offset of the file, which may have become shorter.
WriteAt(file, offset, tokens) ==
  [i \in 1..(IF offset + Len(tokens) > Len(file) THEN offset + Len(tokens) ELSE Len(file)) |->
     IF i > offset /\ i <= offset + Len(tokens) THEN tokens[i - offset]
     ELSE IF i <= Len(file) THEN file[i] ELSE Hole]

\* The sink and the file once the buffer has been written out.
Flushed(sink) ==
  [sink EXCEPT !.buffer = <<>>, !.offset = @ + Len(sink.buffer)]
FlushedFile(file, sink) == WriteAt(file, sink.offset, sink.buffer)

\* Mutant: every entity is preceded by a separator only.
SeparatedOnly(sink, a, e) ==
  IF framing = "Array" THEN <<Separator, Line(a, e)>> ELSE <<Line(a, e)>>

\* write_serialized.
Serialized(sink, a, e) ==
  IF framing = "Array" THEN <<IF sink.first THEN Separator ELSE Opening, Line(a, e)>>
  ELSE <<Line(a, e)>>

\* The sink of a type is opened, and its file truncated, by the first entity of the type.
SinkFor(a, t) == IF sinks[a][t].open THEN sinks[a][t] ELSE NewSink
FileFor(a, t) == IF sinks[a][t].open THEN files[t] ELSE <<>>

\* write_prepared; the buffer is written out when the entity does not fit in it.
WritePrepared(a) ==
  LET e == Head(ready[a])
      t == TypeOf[e]
      sink == SinkFor(a, t)
      with(s) == [s EXCEPT !.first = TRUE, !.buffer = @ \o Serialized(sink, a, e)]
  IN /\ OnFile(a) /\ ready[a] # <<>>
     /\ \/ /\ sinks' = [sinks EXCEPT ![a][t] = with(sink)]
           /\ files' = [files EXCEPT ![t] = FileFor(a, t)]
        \/ /\ sink.buffer # <<>>
           /\ sinks' = [sinks EXCEPT ![a][t] = with(Flushed(sink))]
           /\ files' = [files EXCEPT ![t] = FlushedFile(@, sink)]
     /\ ready' = [ready EXCEPT ![a] = Tail(@)]
     /\ UNCHANGED <<config, control, shutdown, thread, next, errored, aborted, reported, batch,
                    pending, closeFailed, atomic>>

\* The file cannot be created, or the entity cannot be written, perhaps after its
\* separator was; a sink that was just opened is dropped with the error.
WritePreparedFails(a) ==
  LET e == Head(ready[a])
      t == TypeOf[e]
      sink == SinkFor(a, t)
      prefix(n) == SubSeq(Serialized(sink, a, e), 1, n)
  IN /\ OnFile(a) /\ ready[a] # <<>>
     /\ \E n \in 0..(Len(Serialized(sink, a, e)) - 1) :
          IF sinks[a][t].open
            THEN /\ sinks' = [sinks EXCEPT ![a][t].buffer = @ \o prefix(n)]
                 /\ UNCHANGED files
            ELSE /\ UNCHANGED sinks
                 /\ \/ files' = [files EXCEPT ![t] = prefix(n)]
                    \/ n = 0 /\ UNCHANGED files
     /\ GiveUp(a)
     /\ UNCHANGED <<config, control, shutdown, next, errored, aborted, pending, closeFailed, atomic>>

Unclosed(a) == {t \in Types : sinks[a][t].open}

\* finalize goes on to the sinks, whatever the outcome of the run.
TakeSinks(a) ==
  /\ OnFile(a) /\ thread[a] = "flushing" /\ ready[a] = <<>> /\ pending[a] = <<>>
  /\ thread' = [thread EXCEPT ![a] = "closing"]
  /\ UNCHANGED <<config, control, shutdown, next, errored, aborted, reported, batch, pending,
                 ready, closeFailed, sinks, files, atomic>>

\* EntityTypeSink::finalize, of the sinks in parallel.
CloseSink(a, t) ==
  /\ thread[a] = "closing" /\ t \in Unclosed(a)
  /\ sinks' = [sinks EXCEPT ![a][t] = NoSink]
  /\ LET sink == sinks[a][t]
         ended == [sink EXCEPT !.buffer = @ \o IF framing = "Array" THEN <<Closing>> ELSE <<>>]
     IN files' = [files EXCEPT ![t] = FlushedFile(@, ended)]
  /\ UNCHANGED <<config, control, shutdown, thread, next, errored, aborted, reported, batch,
                 pending, ready, closeFailed, atomic>>

CloseSinkFails(a, t) ==
  /\ thread[a] = "closing" /\ t \in Unclosed(a)
  /\ sinks' = [sinks EXCEPT ![a][t] = NoSink]
  /\ closeFailed' = [closeFailed EXCEPT ![a] = TRUE]
  /\ UNCHANGED <<config, control, shutdown, thread, next, errored, aborted, reported, batch,
                 pending, ready, files, atomic>>

\* Mutant: the end is reported while sinks are still being closed.
EndFinalizeEarly(a) ==
  /\ thread[a] = "closing"
  /\ Report(a, IF closeFailed[a] THEN "Error" ELSE "Stop")
  /\ thread' = [thread EXCEPT ![a] = IF Unclosed(a) = {} THEN "done" ELSE @]
  /\ UNCHANGED <<config, control, shutdown, next, errored, aborted, batch, pending, ready,
                 closeFailed, sinks, files, atomic>>

\* The stage reports how finalize went and then Stop.
EndFinalize(a) ==
  /\ thread[a] = "closing" /\ Unclosed(a) = {}
  /\ Report(a, IF closeFailed[a] THEN "Error" ELSE "Stop")
  /\ thread' = [thread EXCEPT ![a] = "done"]
  /\ UNCHANGED <<config, control, shutdown, next, errored, aborted, batch, pending, ready,
                 closeFailed, sinks, files, atomic>>

\* A sink that was never finalized is flushed, unclosed, when the writer is dropped.
DropSink(a, t) ==
  /\ thread[a] = "dropping" /\ t \in Unclosed(a)
  /\ sinks' = [sinks EXCEPT ![a][t] = NoSink]
  /\ files' = [files EXCEPT ![t] = FlushedFile(@, sinks[a][t])]
  /\ UNCHANGED <<config, control, shutdown, thread, next, errored, aborted, reported, batch,
                 pending, ready, closeFailed, atomic>>

Dropped(a) ==
  /\ thread[a] = "dropping" /\ Unclosed(a) = {}
  /\ thread' = [thread EXCEPT ![a] = "done"]
  /\ UNCHANGED <<config, control, shutdown, next, errored, aborted, reported, batch, pending,
                 ready, closeFailed, sinks, files, atomic>>

-----------------------------------------------------------------------------
\* AtomicWriter.

OnSpool(a) == destination = "Atomic" /\ thread[a] \in {"running", "flushing"}

Spool(a) ==
  /\ OnSpool(a) /\ batch[a] # <<>>
  /\ spool' = [spool EXCEPT ![a] = Append(@, Line(a, Head(batch[a])))]
  /\ batch' = [batch EXCEPT ![a] = Tail(@)]
  /\ UNCHANGED <<config, control, shutdown, thread, next, errored, aborted, reported, pending,
                 ready, closeFailed, sinks, files, inner>>

\* The line may have been written in part.
SpoolFails(a) ==
  /\ OnSpool(a) /\ batch[a] # <<>>
  /\ spool' \in {spool, [spool EXCEPT ![a] = Append(@, Torn)]}
  /\ GiveUp(a)
  /\ UNCHANGED <<config, control, shutdown, next, errored, aborted, pending, closeFailed, sinks,
                 files, inner>>

Finalizing(a) == OnSpool(a) /\ thread[a] = "flushing"

\* Mutant: what was spooled is replayed whatever the outcome.
ReplayAlways(a) ==
  /\ Finalizing(a) /\ spool[a] # <<>> /\ Head(spool[a]) # Torn
  /\ inner' = [inner EXCEPT ![a] = Append(@, Head(spool[a]))]
  /\ spool' = [spool EXCEPT ![a] = Tail(@)]
  /\ UNCHANGED <<config, control, shutdown, thread, next, errored, aborted, reported, batch,
                 pending, ready, closeFailed, sinks, files>>

\* replay: line by line into the wrapped writer, on commit only.
Replay(a) ==
  /\ Finalizing(a) /\ ~aborted[a] /\ spool[a] # <<>> /\ Head(spool[a]) # Torn
  /\ inner' = [inner EXCEPT ![a] = Append(@, Head(spool[a]))]
  /\ spool' = [spool EXCEPT ![a] = Tail(@)]
  /\ UNCHANGED <<config, control, shutdown, thread, next, errored, aborted, reported, batch,
                 pending, ready, closeFailed, sinks, files>>

\* The spool cannot be flushed or read, or the wrapped writer refuses the entity.
ReplayFails(a) ==
  /\ Finalizing(a) /\ ~aborted[a]
  /\ Report(a, "Error")
  /\ thread' = [thread EXCEPT ![a] = "done"]
  /\ UNCHANGED <<config, control, shutdown, next, errored, aborted, batch, pending, ready,
                 closeFailed, sinks, files, atomic>>

\* The wrapped writer's own finalize, which may fail.
FinalizeInner(a) ==
  /\ Finalizing(a) /\ (aborted[a] \/ spool[a] = <<>>)
  /\ \E signal \in {"Error", "Stop"} : Report(a, signal)
  /\ thread' = [thread EXCEPT ![a] = "done"]
  /\ UNCHANGED <<config, control, shutdown, next, errored, aborted, batch, pending, ready,
                 closeFailed, sinks, files, atomic>>

-----------------------------------------------------------------------------
StageStep(a) == TakeBatch(a) \/ ForwardError(a) \/ EndStream(a)

FileStep(a) ==
  \/ Push(a) \/ FlushPending(a) \/ PrepareFails(a) \/ WritePrepared(a) \/ WritePreparedFails(a)
  \/ TakeSinks(a) \/ EndFinalize(a) \/ Dropped(a)
  \/ \E t \in Types : CloseSink(a, t) \/ CloseSinkFails(a, t) \/ DropSink(a, t)

SpoolStep(a) == Spool(a) \/ SpoolFails(a) \/ Replay(a) \/ ReplayFails(a) \/ FinalizeInner(a)

Settled == driver \in {"ok", "failed"} /\ \A a \in Attempts : thread[a] \in {"idle", "done"}

Next ==
  \/ Shutdown \/ Drain \/ Retry \/ BackoffInterrupted
  \/ \E a \in Attempts : StageStep(a) \/ FileStep(a) \/ SpoolStep(a)
  \/ Settled /\ UNCHANGED vars

Spec == Init /\ [][Next]_vars

-----------------------------------------------------------------------------
\* Properties.

\* Type invariant; no more than one batch is retained at a time.
TypeOK ==
  /\ destination \in Destinations /\ framing \in Framings
  /\ driver \in {"draining", "backoff", "ok", "failed"} /\ attempt \in Attempts
  /\ contested \subseteq Attempts
  /\ \A a \in Attempts :
       /\ thread[a] \in {"idle", "running", "flushing", "closing", "dropping", "done"}
       /\ next[a] \in 1..(EntityCount + 1)
       /\ reported[a] \in {"none", "Error", "Stop"}
       /\ Len(pending[a]) < BatchSize /\ Len(ready[a]) <= BatchSize
       /\ Len(pending[a]) + Len(ready[a]) <= BatchSize
       /\ \A t \in Types : DOMAIN sinks[a][t] = DOMAIN NoSink

\* The lines of the entities of type t among the first n of the stream, in its order.
OfType(t, n) == {e \in 1..n : TypeOf[e] = t}
Nth(S, k) == CHOOSE x \in S : Cardinality({y \in S : y <= x}) = k
Lines(a, t, n) == [k \in 1..Cardinality(OfType(t, n)) |-> Line(a, Nth(OfType(t, n), k))]

\* The lines of a file that is still open, and of one that was closed.
Joined(lines) ==
  IF framing = "LineDelimited" THEN lines
  ELSE [i \in 1..(2 * Len(lines)) |->
          IF i = 1 THEN Opening ELSE IF i % 2 = 0 THEN lines[i \div 2] ELSE Separator]
Framed(lines) ==
  IF framing = "LineDelimited" \/ lines = <<>> THEN lines ELSE Append(Joined(lines), Closing)

\* Files hold the first n entities of the stream, framed, and nothing else; all of them
\* unless the run was cancelled.
Exact(a) ==
  \E n \in 0..EntityCount :
    /\ shutdown \/ n = EntityCount
    /\ \A t \in Types :
         LET lines == Lines(a, t, n) IN
         files[t] = Framed(lines) \/ (lines = <<>> /\ a > 1)

\* A cycle that ends in Ok has left one well-framed file per type with every entity of
\* the stream once and in order, whatever was buffered when and although files of a
\* failed attempt were there (FileWriter::finalize, EntityTypeSink::open), if no thread
\* of an earlier attempt was still writing.  In every state the writer retains at most
\* one batch.
OkFileIsExact ==
  /\ TypeOK
  /\ destination = "File" /\ driver = "ok" /\ attempt \notin contested => Exact(attempt)

\* Once the cycle has returned Ok its files are final: Stop is not sent before the last
\* sink is flushed (WriterProcessor::finalize).
OkIsFinal ==
  [][destination = "File" /\ driver = "ok" /\ attempt \notin contested => UNCHANGED files]_vars

\* The k-th token is an entity of the attempt, and one that comes after those before it.
Follows(tokens, a, k) ==
  \E e \in Entities :
    /\ tokens[k] = Line(a, e)
    /\ \A j \in 1..(k - 1), d \in Entities : tokens[j] = Line(a, d) => d < e

\* The staging writer gives the wrapped one whole entities in the order of the stream
\* and none twice, also after the spool broke off in a record or the replay half-way;
\* nothing when the run is aborted; and the whole stream, or nothing if it was
\* cancelled, when a cycle ends in Ok (AtomicWriter::finalize, replay).
WrappedInOrder ==
  destination = "Atomic" =>
    /\ \A a \in Attempts : \A k \in 1..Len(inner[a]) : Follows(inner[a], a, k)
    /\ \A a \in Attempts : aborted[a] => inner[a] = <<>>
    /\ driver = "ok" =>
         \/ inner[attempt] = [e \in Entities |-> Line(attempt, e)]
         \/ inner[attempt] = <<>> /\ shutdown

\* What the retry of a failed cycle leaves is what that cycle wrote: EntityTypeSink
\* recreates the file, and on disk it is the array of the entities, also while threads
\* of the failed attempt are still alive.
RetryRecreatesFiles ==
  destination = "File" /\ driver = "ok" => Exact(attempt)
=============================================================================
