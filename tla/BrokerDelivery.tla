--------------------------- MODULE BrokerDelivery ---------------------------
(***************************************************************************)
(* Delivery to a context broker (cassiopeia-writer, broker/): the writer   *)
(* thread buffers entities and queues batches on a bounded channel; a pool *)
(* of workers takes them, posts them, retries what is transient, splits    *)
(* what keeps failing, and counts every entity as written or failed in two *)
(* shared counters, from which finalize tells whether anything arrived.    *)
(*                                                                         *)
(* The broker is external: a request ends in any answer post_batch tells   *)
(* apart.  The size controller is reduced to its result, a batch size      *)
(* within the tuning bounds; payload bytes and latencies are left out.     *)
(***************************************************************************)
EXTENDS Naturals, Sequences, FiniteSets, SequencesExt

CONSTANTS
  Entities,      \* the entities of the run
  Strangers,     \* ids a broker may name that were not in the batch
  MaxRepeats,    \* how many entries of a list of a 207 answer may repeat an id
  Workers,       \* sender threads
  PanicWorkers,  \* workers whose request handling may panic
  Capacity,      \* channel_capacity
  BatchSizes,    \* min_batch_size..max_batch_size
  MaxRetries     \* max_retries

ASSUME DeliveryAssumption ==
  /\ IsFiniteSet(Entities) /\ IsFiniteSet(Strangers) /\ Strangers \cap Entities = {}
  /\ IsFiniteSet(Workers) /\ Workers # {} /\ PanicWorkers \subseteq Workers
  /\ Capacity \in Nat \ {0}
  /\ BatchSizes \subseteq Nat \ {0} /\ BatchSizes # {}
  /\ MaxRetries \in Nat /\ MaxRepeats \in Nat

VARIABLES
  shutdown,   \* the process-wide shutdown flag
  writer,     \* where the writer thread is
  given,      \* entities the pipeline has passed to write
  front,      \* front_buffer
  batchSize,  \* current_batch_size
  job,        \* the batch flush_to_sender is sending
  queue,      \* the job channel
  worker,     \* where each worker is
  stack,      \* its split-retry stack, the last element on top
  batch,      \* the entities of its current request
  attempt,    \* its attempt counter
  written,    \* written_count
  failed,     \* failed_count
  recorded,   \* BrokerFailures holds an entry
  result,     \* what finalize returned
  \* history, read by no action:
  accepted,   \* entities the broker said it accepted
  excess,     \* entries taken as written that repeat an id or name one not sent
  uncounted   \* how many entities were dropped without being counted

writerVars == <<writer, given, front, batchSize, job, result>>
workerVars == <<worker, stack, batch, attempt>>
counters == <<written, failed, recorded>>
history == <<accepted, excess, uncounted>>
vars == <<shutdown, writerVars, queue, workerVars, counters, history>>

Init ==
  /\ shutdown = FALSE
  /\ writer = "write" /\ given = {} /\ front = <<>> /\ batchSize \in BatchSizes
  /\ job = <<>> /\ result = "running"
  /\ queue = <<>>
  /\ worker = [w \in Workers |-> "recv"]
  /\ stack = [w \in Workers |-> <<>>]
  /\ batch = [w \in Workers |-> <<>>]
  /\ attempt = [w \in Workers |-> 0]
  /\ written = 0 /\ failed = 0 /\ recorded = FALSE
  /\ accepted = {} /\ excess = 0 /\ uncounted = 0

\* The signal handler raises the shutdown flag.
Shutdown ==
  /\ shutdown = FALSE
  /\ shutdown' = TRUE
  /\ UNCHANGED <<writerVars, queue, workerVars, counters, history>>

-----------------------------------------------------------------------------
\* The writer thread (write, flush_to_sender, finalize).

\* A worker that returned or unwound has dropped its receiver.
Gone(w) == worker[w] \in {"done", "panicked"}
PoolGone == \A w \in Workers : Gone(w)

\* The buffer becomes the job to send, and the next batch may have another size.
TakeFront(buffer, after) ==
  /\ job' = buffer
  /\ front' = <<>>
  /\ batchSize' \in BatchSizes
  /\ writer' = after

WriteEntity(e) ==
  /\ writer = "write"
  /\ e \notin given
  /\ given' = given \cup {e}
  /\ LET buffer == Append(front, e) IN
       IF Len(buffer) >= batchSize
         THEN TakeFront(buffer, "send")
         ELSE front' = buffer /\ UNCHANGED <<writer, job, batchSize>>
  /\ UNCHANGED <<shutdown, queue, workerVars, counters, result, history>>

\* The stream has ended, cleanly or not: the rest of the buffer is sent.
Finalize ==
  /\ writer = "write"
  /\ IF front = <<>>
       THEN writer' = "join" /\ UNCHANGED <<job, front, batchSize>>
       ELSE TakeFront(front, "flush")
  /\ UNCHANGED <<shutdown, queue, workerVars, counters, given, result, history>>

AfterSend == IF writer = "flush" THEN "join" ELSE "write"

SendJob ==
  /\ writer \in {"send", "flush"}
  /\ ~PoolGone
  /\ Len(queue) < Capacity
  /\ queue' = Append(queue, job)
  /\ job' = <<>>
  /\ writer' = AfterSend
  /\ UNCHANGED <<shutdown, given, front, batchSize, result, workerVars, counters, history>>

\* Every worker has dropped its receiver: the batch is counted as failed.
SendFails ==
  /\ writer \in {"send", "flush"}
  /\ PoolGone
  /\ failed' = failed + Len(job)
  /\ recorded' = TRUE
  /\ job' = <<>>
  /\ writer' = AfterSend
  /\ UNCHANGED <<shutdown, given, front, batchSize, result, queue, workerVars, written, history>>

\* A run that delivered nothing although something failed is an error.
DeliveredNothing == written = 0 /\ failed > 0 /\ recorded'

\* Every worker is joined; one that panicked is recorded.
Join ==
  /\ writer = "join"
  /\ PoolGone
  /\ recorded' = (recorded \/ \E w \in Workers : worker[w] = "panicked")
  /\ result' = IF DeliveredNothing THEN "Err" ELSE "Ok"
  /\ writer' = "done"
  /\ UNCHANGED <<shutdown, given, front, batchSize, job, queue, workerVars, written, failed, history>>

-----------------------------------------------------------------------------
\* A worker (sender_loop).

Goto(w, where) == worker' = [worker EXCEPT ![w] = where]

\* The entities of a queue or stack of batches.
Contents(q) == UNION {ToSet(q[n]) : n \in 1..Len(q)}

\* The last receiver to go takes what is left in the channel with it.
LastToGo(w) == \A v \in Workers \ {w} : Gone(v)
QueueAfter(w, rest) == IF LastToGo(w) THEN <<>> ELSE rest
DroppedWith(w, rest) == IF LastToGo(w) THEN Contents(rest) ELSE {}

RecvJob(w) ==
  /\ worker[w] = "recv" /\ ~shutdown
  /\ queue # <<>>
  /\ queue' = Tail(queue)
  /\ stack' = [stack EXCEPT ![w] = <<Head(queue)>>]
  /\ Goto(w, "pop")
  /\ UNCHANGED <<shutdown, writerVars, batch, attempt, counters, history>>

\* The job that was waiting is counted as failed and the worker ends.
RecvShutdown(w) ==
  /\ worker[w] = "recv" /\ shutdown
  /\ queue # <<>>
  /\ queue' = QueueAfter(w, Tail(queue))
  /\ failed' = failed + Len(Head(queue))
  /\ uncounted' = uncounted + Cardinality(DroppedWith(w, Tail(queue)))
  /\ Goto(w, "done")
  /\ UNCHANGED <<shutdown, writerVars, stack, batch, attempt, written, recorded, accepted, excess>>

\* finalize has dropped the sender.
RecvDisconnected(w) ==
  /\ worker[w] = "recv"
  /\ queue = <<>> /\ writer = "join"
  /\ Goto(w, "done")
  /\ UNCHANGED <<shutdown, writerVars, queue, stack, batch, attempt, counters, history>>

\* The stack is empty: back to the channel.
StackEmpty(w) ==
  /\ worker[w] = "pop"
  /\ stack[w] = <<>>
  /\ Goto(w, "recv")
  /\ UNCHANGED <<shutdown, writerVars, queue, stack, batch, attempt, counters, history>>

\* The top batch is taken and serialized.
Pop(w) ==
  /\ worker[w] = "pop" /\ ~shutdown
  /\ stack[w] # <<>>
  /\ batch' = [batch EXCEPT ![w] = Last(stack[w])]
  /\ stack' = [stack EXCEPT ![w] = Front(@)]
  /\ attempt' = [attempt EXCEPT ![w] = 0]
  /\ Goto(w, "post")
  /\ UNCHANGED <<shutdown, writerVars, queue, counters, history>>

\* The batch is given up, at the shutdown flag or because it cannot be serialized.
PopFails(w) ==
  /\ worker[w] = "pop"
  /\ stack[w] # <<>>
  /\ failed' = failed + Len(Last(stack[w]))
  /\ recorded' \in {recorded \/ ~shutdown, TRUE}
  /\ stack' = [stack EXCEPT ![w] = Front(@)]
  /\ UNCHANGED <<shutdown, writerVars, queue, worker, batch, attempt, written, history>>

-----------------------------------------------------------------------------
\* The request loop (post_batch).

\* The batch is settled: n entities written, k failed, and the failure noted.
Settle(w, n, k, note) ==
  /\ written' = written + n
  /\ failed' = failed + k
  /\ recorded' = (recorded \/ note)
  /\ batch' = [batch EXCEPT ![w] = <<>>]
  /\ Goto(w, "pop")
  /\ UNCHANGED <<shutdown, writerVars, queue, attempt>>

PostShutdown(w) ==
  /\ worker[w] = "post" /\ shutdown
  /\ Settle(w, 0, Len(batch[w]), FALSE)
  /\ UNCHANGED <<stack, history>>

Post(w) ==
  /\ worker[w] = "post" /\ ~shutdown
  /\ Goto(w, "sent")
  /\ UNCHANGED <<shutdown, writerVars, queue, stack, batch, attempt, counters, history>>

\* 2xx: everything was written.
AnswerWritten(w) ==
  /\ worker[w] = "sent"
  /\ accepted' = accepted \cup ToSet(batch[w])
  /\ Settle(w, Len(batch[w]), 0, FALSE)
  /\ UNCHANGED <<stack, excess, uncounted>>

AtMost(n, bound) == IF n < bound THEN n ELSE bound

\* A list of a 207 answer: the ids it names, and how many entries repeat one of them.
Lists(ids) == {l \in [ids : SUBSET ids, repeats : 0..MaxRepeats] : l.ids = {} => l.repeats = 0}
Entries(l) == Cardinality(l.ids) + l.repeats

\* The entries of both lists are as many as the entities sent: no diff is made.
Balanced(sent, success, errors) == Entries(success) + Entries(errors) = Len(sent)

\* Mutant: what the broker did not mention is taken as written.
ReconcileOptimistic(sent, success, errors) ==
  LET bad == AtMost(Entries(errors), Len(sent))
  IN [written |-> Len(sent) - bad, failed |-> bad, unaccounted |-> {}]

\* 207: the two lists of the answer against the batch.
Reconcile(sent, success, errors) ==
  LET total == Len(sent)
      unaccounted == ToSet(sent) \ (success.ids \cup errors.ids)
      bad == AtMost(Entries(errors) + Cardinality(unaccounted), total)
  IN IF Balanced(sent, success, errors)
       THEN [written |-> Entries(success), failed |-> Entries(errors), unaccounted |-> {}]
       ELSE [written |-> AtMost(Entries(success), total - bad), failed |-> bad,
             unaccounted |-> unaccounted]

\* What a body that is taken as it stands lists as written beyond what it accepts.
Overstated(sent, success, errors) ==
  IF Balanced(sent, success, errors)
    THEN Entries(success) - Cardinality(success.ids \cap ToSet(sent))
    ELSE 0

AnswerPartial(w, success, errors) ==
  LET counted == Reconcile(batch[w], success, errors) IN
  /\ worker[w] = "sent"
  /\ accepted' = accepted \cup (success.ids \cap ToSet(batch[w]))
  /\ excess' = excess + Overstated(batch[w], success, errors)
  /\ Settle(w, counted.written, counted.failed, errors.ids # {} \/ counted.unaccounted # {})
  /\ UNCHANGED <<stack, uncounted>>

\* Mutant: the failure is counted and not recorded.
AnswerRejectedUnrecorded(w) ==
  /\ worker[w] = "sent"
  /\ Settle(w, 0, Len(batch[w]), FALSE)
  /\ UNCHANGED <<stack, history>>

\* An unreadable 207, or a 4xx that is neither 413 nor 429: the batch has failed.
AnswerRejected(w) ==
  /\ worker[w] = "sent"
  /\ Settle(w, 0, Len(batch[w]), TRUE)
  /\ UNCHANGED <<stack, history>>

\* Mutants: the tail of a split batch is not pushed; the first part is not shortened.
SplitHead(w) ==
  /\ Settle(w, 0, IF Len(batch[w]) > 1 THEN 0 ELSE Len(batch[w]), TRUE)
  /\ stack' = IF Len(batch[w]) > 1
                THEN [stack EXCEPT ![w] = Append(@, SubSeq(batch[w], 1, Len(batch[w]) \div 2))]
                ELSE stack

SplitWhole(w) ==
  /\ Settle(w, 0, IF Len(batch[w]) > 1 THEN 0 ELSE Len(batch[w]), TRUE)
  /\ stack' = IF Len(batch[w]) > 1
                THEN [stack EXCEPT ![w] =
                        @ \o <<SubSeq(batch[w], (Len(batch[w]) \div 2) + 1, Len(batch[w])), batch[w]>>]
                ELSE stack

\* The batch is split in two, the first half on top; one entity alone has failed.
Split(w) ==
  LET n == Len(batch[w])
      head == SubSeq(batch[w], 1, n \div 2)
      tail == SubSeq(batch[w], (n \div 2) + 1, n) IN
  /\ Settle(w, 0, IF n > 1 THEN 0 ELSE n, TRUE)
  /\ stack' = IF n > 1 THEN [stack EXCEPT ![w] = @ \o <<tail, head>>] ELSE stack

\* 413: too large.
AnswerTooLarge(w) ==
  /\ worker[w] = "sent"
  /\ Split(w)
  /\ UNCHANGED history

RetriesSpent(w) == attempt[w] + 1 >= MaxRetries

\* Mutant: attempts are not counted.
AnswerTransientUncounted(w) ==
  /\ worker[w] = "sent"
  /\ Goto(w, "backoff")
  /\ UNCHANGED <<shutdown, writerVars, queue, stack, batch, attempt, counters, history>>

\* A transport error, 429 or 5xx: back off, or split once the attempts are spent.
AnswerTransient(w) ==
  /\ worker[w] = "sent"
  /\ IF RetriesSpent(w)
       THEN Split(w)
       ELSE /\ attempt' = [attempt EXCEPT ![w] = @ + 1]
            /\ Goto(w, "backoff")
            /\ UNCHANGED <<shutdown, writerVars, queue, stack, batch, counters>>
  /\ UNCHANGED history

BackoffElapses(w) ==
  /\ worker[w] = "backoff"
  /\ Goto(w, "post")
  /\ UNCHANGED <<shutdown, writerVars, queue, stack, batch, attempt, counters, history>>

BackoffInterrupted(w) ==
  /\ worker[w] = "backoff" /\ shutdown
  /\ Settle(w, 0, Len(batch[w]), FALSE)
  /\ UNCHANGED <<stack, history>>

\* The thread unwinds with the batch and the stack it holds.
Panic(w) ==
  /\ w \in PanicWorkers
  /\ worker[w] = "sent"
  /\ Goto(w, "panicked")
  /\ batch' = [batch EXCEPT ![w] = <<>>]
  /\ stack' = [stack EXCEPT ![w] = <<>>]
  /\ queue' = QueueAfter(w, queue)
  /\ uncounted' = uncounted + Cardinality(ToSet(batch[w]) \cup Contents(stack[w]) \cup DroppedWith(w, queue))
  /\ UNCHANGED <<shutdown, writerVars, attempt, counters, accepted, excess>>

-----------------------------------------------------------------------------
WriterStep ==
  \/ \E e \in Entities : WriteEntity(e)
  \/ Finalize \/ SendJob \/ SendFails \/ Join

Answer(w) ==
  \/ AnswerWritten(w) \/ AnswerRejected(w) \/ AnswerTooLarge(w) \/ AnswerTransient(w)
  \/ \E success, errors \in Lists(ToSet(batch[w]) \cup Strangers) : AnswerPartial(w, success, errors)

WorkerStep(w) ==
  \/ RecvJob(w) \/ RecvShutdown(w) \/ RecvDisconnected(w)
  \/ StackEmpty(w) \/ Pop(w) \/ PopFails(w)
  \/ PostShutdown(w) \/ Post(w) \/ Answer(w)
  \/ BackoffElapses(w) \/ BackoffInterrupted(w)
  \/ Panic(w)

Next ==
  \/ Shutdown
  \/ WriterStep
  \/ \E w \in Workers : WorkerStep(w)
  \/ writer = "done" /\ UNCHANGED vars

\* Every thread keeps running: a request is answered or times out, a backoff ends,
\* and the pipeline finalizes its writer (PhaseTerminates of OutputPhase).
Fairness == WF_vars(WriterStep) /\ \A w \in Workers : WF_vars(WorkerStep(w))

Spec == Init /\ [][Next]_vars
FairSpec == Spec /\ Fairness

-----------------------------------------------------------------------------
NoPanic == \A w \in Workers : worker[w] # "panicked"

Batches == Seq(Entities)

\* Type invariant.
TypeOK ==
  /\ shutdown \in BOOLEAN
  /\ writer \in {"write", "send", "flush", "join", "done"}
  /\ given \subseteq Entities /\ front \in Batches /\ batchSize \in BatchSizes /\ job \in Batches
  /\ queue \in Seq(Batches) /\ Len(queue) <= Capacity
  /\ worker \in [Workers -> {"recv", "pop", "post", "sent", "backoff", "done", "panicked"}]
  /\ stack \in [Workers -> Seq(Batches)] /\ batch \in [Workers -> Batches]
  /\ attempt \in [Workers -> Nat] /\ \A w \in Workers : attempt[w] = 0 \/ attempt[w] < MaxRetries
  /\ written \in Nat /\ failed \in Nat /\ recorded \in BOOLEAN
  /\ result \in {"running", "Ok", "Err"}
  /\ accepted \subseteq given /\ excess \in Nat /\ uncounted \in Nat

\* Every entity given to the writer is counted once, as written or as failed
\* (sender_loop, post_batch, reconcile), whatever the broker answers and however
\* often batches are split and retried; the others were dropped with a panicking
\* worker or, after a shutdown or a panic, with the channel.  No batch is tried past
\* its last attempt, and the channel never holds more than it may.
EveryEntityCounted ==
  /\ TypeOK
  /\ writer = "done" => written + failed + uncounted = Cardinality(given)
  /\ uncounted > 0 => shutdown \/ ~NoPanic

\* The writer counts no more entities as written than the broker said it accepted,
\* but for the entries that repeat an id or name a stranger in a body whose entries
\* are as many as the entities sent (reconcile takes such a body as it stands); a
\* body that had to be compared with the batch never adds to them.
NeverOverReports == written <= Cardinality(accepted) + excess

\* A run that delivered nothing fails (finalize), if it was not shut down and
\* anything given was counted at all.
NothingDeliveredFails ==
  writer = "done" /\ ~shutdown /\ uncounted < Cardinality(given) /\ written = 0 => result = "Err"

\* A batch that names no entity twice, and a queue or stack of such batches.
Distinct(b) == \A j, k \in 1..Len(b) : b[j] = b[k] => j = k

Tidy(q) ==
  /\ \A n \in 1..Len(q) : Distinct(q[n])
  /\ \A m, n \in 1..Len(q) : m # n => ToSet(q[m]) \cap ToSet(q[n]) = {}

\* What the writer thread, a worker, and all of them with the channel hold.
WriterHand == ToSet(front) \cup ToSet(job)
WorkerHand(w) == ToSet(batch[w]) \cup Contents(stack[w])
InHand == WriterHand \cup Contents(queue) \cup UNION {WorkerHand(w) : w \in Workers}

\* No entity is in two places, or twice in one.
OneHolder ==
  /\ Distinct(front) /\ Distinct(job) /\ ToSet(front) \cap ToSet(job) = {}
  /\ Tidy(queue) /\ Contents(queue) \cap WriterHand = {}
  /\ \A w \in Workers :
       /\ Distinct(batch[w]) /\ Tidy(stack[w]) /\ ToSet(batch[w]) \cap Contents(stack[w]) = {}
       /\ WorkerHand(w) \cap (WriterHand \cup Contents(queue)) = {}
       /\ \A v \in Workers : v # w => WorkerHand(v) \cap WorkerHand(w) = {}

\* An entity whose batch is settled is never posted again: no entity is in two
\* batches at once, and every one is in hand, counted or dropped, and only one of
\* them (sender_loop's stack).
DeliveredOnce == OneHolder /\ written + failed + uncounted + Cardinality(InHand) = Cardinality(given)

\* finalize returns: the writer never waits for a pool that is gone, nor the pool
\* for a writer that waits to be joined.
DeliveryTerminates == <>(writer = "done")
=============================================================================
