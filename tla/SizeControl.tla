---------------------------- MODULE SizeControl ----------------------------
(***************************************************************************)
(* The adaptive payload size of the broker writer (cassiopeia-writer,      *)
(* broker/): worker threads record what happened to their requests in     *)
(* shared atomics (metrics.rs), one load, store or fetch_add at a time,    *)
(* and the writer's thread reads them at every flush (controller.rs).      *)
(***************************************************************************)
EXTENDS Naturals, FiniteSets, FiniteSetsExt

CONSTANTS
  Workers,
  Payloads,          \* payload sizes of requests, in bytes
  Sizes,             \* entity sizes a batch averages to
  Latencies,         \* request latencies, in milliseconds
  MinBytes, MaxBytes, InitialBytes,
  MinBatch, MaxBatch, InitialBatch,
  FastMs, SlowMs,
  GrowThreshold, ShrinkThreshold

ASSUME SizeControlAssumption ==
  /\ Payloads \subseteq Nat \ {0} /\ Sizes \subseteq Nat /\ Latencies \subseteq Nat
  /\ {MinBytes, MaxBytes, InitialBytes, MinBatch, MaxBatch, InitialBatch, FastMs, SlowMs} \subseteq Nat
  /\ MinBytes <= MaxBytes /\ MinBatch <= MaxBatch
  /\ GrowThreshold \in Nat \ {0} /\ ShrinkThreshold \in Nat \ {0}

VARIABLES
  avgLatency, avgSize, successes, failures, limit,   \* BrokerMetrics
  target,       \* current_target_bytes
  batchSize,    \* current_batch_size
  pc,           \* per worker, the next access of its settlement
  seen,         \* per worker, the value it loaded
  sample,       \* per worker, what it measured: a size, a latency or a payload
  verdict,      \* what the values loaded by adjust_target_bytes ask for, if it is running
  rejected      \* ghost: payloads whose 413 has been observed

metrics == <<avgLatency, avgSize, successes, failures, limit>>
sizing == <<target, batchSize>>
controlVars == <<metrics, sizing, pc, seen, sample, verdict, rejected>>

Clamp(n, low, high) == IF n < low THEN low ELSE IF n > high THEN high ELSE n

ControlInit ==
  /\ avgLatency = 0 /\ avgSize = 0 /\ successes = 0 /\ failures = 0 /\ limit = 0
  /\ target = Clamp(InitialBytes, MinBytes, MaxBytes) /\ batchSize = InitialBatch
  /\ pc = [w \in Workers |-> "idle"] /\ seen = [w \in Workers |-> 0]
  /\ sample = [w \in Workers |-> 0]
  /\ verdict = "none"
  /\ rejected = {}

\* A counter is only compared with its threshold, so it stops there (bound).
Count(n, threshold) == IF n < threshold THEN n + 1 ELSE n

-----------------------------------------------------------------------------
\* A worker.

\* A worker keeps no value between two of its updates.
Forget(w) == sample' = [sample EXCEPT ![w] = 0] /\ seen' = [seen EXCEPT ![w] = 0]

\* record_entity_size: the size of the batch that was serialised.
LoadSize(w) ==
  /\ pc[w] = "idle"
  /\ \E s \in Sizes : sample' = [sample EXCEPT ![w] = s]
  /\ seen' = [seen EXCEPT ![w] = avgSize]
  /\ pc' = [pc EXCEPT ![w] = "storeSize"]
  /\ UNCHANGED <<metrics, sizing, verdict, rejected>>

\* Mutant: only the new sample is divided.
SmoothedMisgrouped(previous, observed) ==
  IF previous = 0 THEN observed ELSE 3 * previous + observed \div 4

\* The average: seeded by the first sample, a quarter of each later one.
Smoothed(previous, observed) ==
  IF previous = 0 THEN observed ELSE (3 * previous + observed) \div 4

\* What follows a request: an accepted one, a transient failure and a 413 are recorded.
\* Any other refusal is a client error and no signal, and neither is a request that the
\* shutdown flag prevented: the worker goes on to its next batch with every metric as
\* it was.
Answers == {"loadLatency", "addFailure", "addTooLarge", "idle"}

\* The request is posted once the size is recorded.
StoreSize(w) ==
  /\ pc[w] = "storeSize"
  /\ avgSize' = Smoothed(seen[w], sample[w])
  /\ Forget(w)
  /\ \E answer \in Answers : pc' = [pc EXCEPT ![w] = answer]
  /\ UNCHANGED <<avgLatency, successes, failures, limit, sizing, verdict, rejected>>

\* record_success.
LoadLatency(w) ==
  /\ pc[w] = "loadLatency"
  /\ \E s \in Latencies : sample' = [sample EXCEPT ![w] = s]
  /\ seen' = [seen EXCEPT ![w] = avgLatency]
  /\ pc' = [pc EXCEPT ![w] = "storeLatency"]
  /\ UNCHANGED <<metrics, sizing, verdict, rejected>>

StoreLatency(w) ==
  /\ pc[w] = "storeLatency"
  /\ avgLatency' = Smoothed(seen[w], sample[w])
  /\ Forget(w)
  /\ pc' = [pc EXCEPT ![w] = "addSuccess"]
  /\ UNCHANGED <<avgSize, successes, failures, limit, sizing, verdict, rejected>>

AddSuccess(w) ==
  /\ pc[w] = "addSuccess"
  /\ successes' = Count(successes, GrowThreshold)
  /\ pc' = [pc EXCEPT ![w] = "clearFailures"]
  /\ UNCHANGED <<avgLatency, avgSize, failures, limit, sizing, seen, sample, verdict, rejected>>

ClearFailures(w) ==
  /\ pc[w] = "clearFailures"
  /\ failures' = 0
  /\ pc' = [pc EXCEPT ![w] = "idle"]
  /\ UNCHANGED <<avgLatency, avgSize, successes, limit, sizing, seen, sample, verdict, rejected>>

\* record_failure, of a request that failed and of one that was too large.
AddFailure(w) ==
  /\ pc[w] \in {"addFailure", "addTooLarge"}
  /\ failures' = Count(failures, ShrinkThreshold)
  /\ pc' = [pc EXCEPT ![w] = IF @ = "addFailure" THEN "clear" ELSE "clearThenLimit"]
  /\ UNCHANGED <<avgLatency, avgSize, successes, limit, sizing, seen, sample, verdict, rejected>>

\* A transient failure is posted again, or given up (idle).
ClearSuccesses(w) ==
  /\ pc[w] \in {"clear", "clearThenLimit"}
  /\ successes' = 0
  /\ \E after \in IF pc[w] = "clear" THEN Answers ELSE {"loadLimit"} : pc' = [pc EXCEPT ![w] = after]
  /\ UNCHANGED <<avgLatency, avgSize, failures, limit, sizing, seen, sample, verdict, rejected>>

\* observe_payload_limit: a load, a comparison and a store.
LoadLimit(w) ==
  /\ pc[w] = "loadLimit"
  /\ \E s \in Payloads : sample' = [sample EXCEPT ![w] = s]
  /\ seen' = [seen EXCEPT ![w] = limit]
  /\ pc' = [pc EXCEPT ![w] = "storeLimit"]
  /\ UNCHANGED <<metrics, sizing, verdict, rejected>>

StoreLimit(w) ==
  /\ pc[w] = "storeLimit"
  /\ limit' = IF seen[w] = 0 \/ seen[w] > sample[w] THEN sample[w] ELSE limit
  /\ rejected' = rejected \cup {sample[w]}
  /\ Forget(w)
  /\ pc' = [pc EXCEPT ![w] = "idle"]
  /\ UNCHANGED <<avgLatency, avgSize, successes, failures, sizing, verdict>>

-----------------------------------------------------------------------------
\* The writer's thread: flush_to_sender.

\* The three values are loaded and compared: a failure streak comes before a slow
\* broker, and that before a streak of fast successes.
Asked ==
  IF failures >= ShrinkThreshold THEN "halve"
  ELSE IF avgLatency > SlowMs THEN "slow"
  ELSE IF successes >= GrowThreshold /\ avgLatency > 0 /\ avgLatency < FastMs THEN "grow"
  ELSE "hold"

LoadMetrics ==
  /\ verdict = "none"
  /\ verdict' = Asked
  /\ UNCHANGED <<metrics, sizing, pc, seen, sample, rejected>>

\* The target before it is clamped.
Adjusted ==
  CASE verdict = "halve" -> target \div 2
    [] verdict = "slow" -> (target * 3) \div 4
    [] verdict = "grow" -> (target * 11) \div 10
    [] OTHER -> target

\* Mutant: a rejected payload is no bound.
UpperIgnoringLimit == MaxBytes

\* 80% of the payload limit, and never below the minimum.
Upper ==
  LET ceiling == IF limit > 0 THEN Min({MaxBytes, (limit * 4) \div 5}) ELSE MaxBytes
  IN Max({ceiling, MinBytes})

\* update_batch_size divides by the average unless there is none.
BatchSizeFor(bytes) ==
  IF avgSize = 0 THEN batchSize ELSE Clamp(bytes \div avgSize, MinBatch, MaxBatch)

\* Mutant: a failing broker is left to its load.
AdjustUnlessFailing ==
  /\ verdict # "none"
  /\ target' = Clamp(IF verdict = "halve" THEN target ELSE Adjusted, MinBytes, Upper)
  /\ batchSize' = BatchSizeFor(target')
  /\ failures' = IF verdict = "halve" THEN 0 ELSE failures
  /\ successes' = IF verdict = "grow" THEN 0 ELSE successes
  /\ verdict' = "none"
  /\ UNCHANGED <<avgLatency, avgSize, limit, pc, seen, sample, rejected>>

\* adjust_target_bytes, from the values loaded before, and the batch size it gives.
Adjust ==
  /\ verdict # "none"
  /\ target' = Clamp(Adjusted, MinBytes, Upper)
  /\ batchSize' = BatchSizeFor(target')
  /\ failures' = IF verdict = "halve" THEN 0 ELSE failures
  /\ successes' = IF verdict = "grow" THEN 0 ELSE successes
  /\ verdict' = "none"
  /\ UNCHANGED <<avgLatency, avgSize, limit, pc, seen, sample, rejected>>

-----------------------------------------------------------------------------
WorkerStep(w) ==
  \/ LoadSize(w) \/ StoreSize(w) \/ LoadLatency(w) \/ StoreLatency(w) \/ AddSuccess(w)
  \/ ClearFailures(w) \/ AddFailure(w) \/ ClearSuccesses(w) \/ LoadLimit(w) \/ StoreLimit(w)

ControlNext == LoadMetrics \/ Adjust \/ \E w \in Workers : WorkerStep(w)

\* Every thread keeps running.
Fairness == WF_controlVars(LoadMetrics \/ Adjust) /\ \A w \in Workers : WF_controlVars(WorkerStep(w))

ControlSpec == ControlInit /\ [][ControlNext]_controlVars /\ Fairness

-----------------------------------------------------------------------------
\* Properties.

\* Type invariant.
ControlTypeOK ==
  /\ target \in MinBytes..MaxBytes /\ batchSize \in (MinBatch..MaxBatch) \cup {InitialBatch}
  /\ avgLatency \in Nat /\ avgSize \in Nat
  /\ successes \in 0..GrowThreshold /\ failures \in 0..ShrinkThreshold
  /\ limit \in Payloads \cup {0} /\ rejected \subseteq Payloads
  /\ pc \in [Workers -> {"idle", "storeSize", "loadLatency", "storeLatency", "addSuccess",
                         "clearFailures", "addFailure", "addTooLarge", "clear",
                         "clearThenLimit", "loadLimit", "storeLimit"}]
  /\ seen \in [Workers -> Nat] /\ sample \in [Workers -> Nat]
  /\ verdict \in {"none", "halve", "slow", "grow", "hold"}

\* An average lies between two measurements, or there is none yet.
Between(average, measured) ==
  average = 0 \/ \E low, high \in measured : low <= average /\ average <= high

\* Updates that overwrite each other, with integer division, still leave an average
\* within what was measured, so a race cannot push the sizer outside the observed range
\* (record_success, record_entity_size), and the target stays within its bounds.
AveragesAreObserved ==
  ControlTypeOK /\ Between(avgLatency, Latencies) /\ Between(avgSize, Sizes)

\* The limit the target is held under is a payload the broker did refuse, and once one
\* was refused no adjustment leaves the target above 80% of the largest of them,
\* whichever of two racing observations was stored last (observe_payload_limit).
CeilingIsARejection ==
  [][/\ limit' # limit => limit' \in rejected'
     /\ verdict # "none" /\ verdict' = "none" /\ rejected # {} =>
          target' <= MinBytes \/ \E r \in rejected : target' <= (r * 4) \div 5]_controlVars

\* A worker whose request was accepted, and one whose failure is about to be recorded.
Succeeding(w) == pc[w] \in {"loadLatency", "storeLatency", "addSuccess", "clearFailures"}
Failing(w) == pc[w] \in {"addFailure", "addTooLarge"}

\* A broker that from some time on accepts nothing, and whose transient failures and
\* 413s never end, is offered the smallest payload in the end (record_failure,
\* adjust_target_bytes): no interleaving loses every streak, whatever other refusals
\* come between.  Those alone are no signal and leave the target where it is.
OverloadShrinks ==
  <>[](\A w \in Workers : ~Succeeding(w)) /\ []<>(\E w \in Workers : Failing(w)) => <>[](target = MinBytes)
=============================================================================
