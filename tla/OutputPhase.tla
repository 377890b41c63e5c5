---------------------------- MODULE OutputPhase ----------------------------
(***************************************************************************)
(* The output phase of one run cycle (phase2.rs): the assembler reads the  *)
(* resolved store and feeds a chain of pump stages (extractor,             *)
(* transformer, validator, for a series run the aggregator, writer), one   *)
(* thread each, joined by bounded channels.  The last stage reports on the *)
(* completion channel that drain_completion reads.  A stage learns that    *)
(* its stream failed only from the signals it receives and from the        *)
(* process-wide shutdown flag, and from that alone the writer decides      *)
(* whether the run's output is committed.                                  *)
(*                                                                         *)
(* Stages are numbered along the chain: 1 is the assembler, NumStages the  *)
(* writer.  chan[s] is the channel stage s sends on, out[s] the signals    *)
(* its current operation still has to send, in order.                      *)
(***************************************************************************)
EXTENDS Naturals, Sequences, FiniteSets

CONSTANTS
  Units,        \* the units the store holds for this cycle
  NumStages,    \* length of the chain
  Skipping,     \* stages that skip a unit they cannot convert (extractor, transformer)
  Validating,   \* stages that may abort the run on a unit (validator)
  Folding,      \* stages that hold units back for a later batch (aggregator)
  PanicStages,  \* stages whose processing may panic
  Capacity,     \* ChannelPolicy::Bounded(Capacity)
  BatchSize     \* units per batch the assembler hands over

Stages == 1..NumStages
Writer == NumStages

ASSUME ChainAssumption ==
  /\ NumStages \in Nat /\ NumStages > 1
  /\ Skipping \cup Validating \cup Folding = 2..(NumStages - 1)
  /\ Skipping \cap Validating = {}
  /\ (Skipping \cup Validating) \cap Folding = {}
  /\ PanicStages \subseteq Stages

ASSUME SizeAssumption ==
  /\ Capacity \in Nat \ {0}
  /\ BatchSize \in Nat \ {0}

ASSUME FiniteAssumption == IsFiniteSet(Units)

VARIABLES
  cancel,       \* the process-wide shutdown flag
  pc,           \* where each stage's thread is
  errored,      \* the stage's `errored` flag (for the assembler: it reported a failure)
  held,         \* units a stage keeps back: BatchEmitter.pending, the open aggregate
  out,          \* signals a stage still has to send
  chan,         \* channel contents
  todo,         \* units the assembler has not reached
  disposition,  \* the RunOutcome the writer was finalized with
  result,       \* what drain_completion returned
  delivered,    \* history: units the writer accepted
  refused,      \* history: units of batches write_batch failed on
  skipped,      \* history: units a converting stage skipped with a warning
  lost,         \* history: units dropped on any other path
  unfinished    \* history: the writer's finalize returned an error

stageVars == <<pc, errored, held, out, chan, todo>>
history == <<delivered, refused, skipped, lost, unfinished>>
vars == <<cancel, stageVars, disposition, result, history>>

-----------------------------------------------------------------------------
\* Signals (signal.rs).  A batch is the set of its units; only Data carries any.
Signal ==
  {m \in [kind : {"Start", "Data", "Error", "Stop"}, units : SUBSET Units] :
     m.kind # "Data" => m.units = {}}
Start == [kind |-> "Start", units |-> {}]
Error == [kind |-> "Error", units |-> {}]
Stop  == [kind |-> "Stop", units |-> {}]

\* An empty batch is never handed over.
Batch(U) == IF U = {} THEN <<>> ELSE <<[kind |-> "Data", units |-> U]>>

UnitsIn(q) == UNION {q[i].units : i \in 1..Len(q)}
Holds(q, kind) == \E i \in 1..Len(q) : q[i].kind = kind

-----------------------------------------------------------------------------
Ended(s) == pc[s] \in {"done", "panicked"}

\* Mutant: a send to a thread that is gone waits for ever.
ClosedAtEnd(s) == s = Writer /\ result # "running"

\* The receiver of chan[s] lives in the next stage's thread, or in drain_completion.
Closed(s) == IF s = Writer THEN result # "running" ELSE Ended(s + 1)

\* The thread of s is back in its loop, with nothing left to send.
Ready(s) == pc[s] = "run" /\ out[s] = <<>>

Init ==
  /\ cancel = FALSE
  /\ pc = [s \in Stages |-> "run"]
  /\ errored = [s \in Stages |-> FALSE]
  /\ held = [s \in Stages |-> {}]
  /\ out = [s \in Stages |-> <<Start>>]
  /\ chan = [s \in Stages |-> <<>>]
  /\ todo = Units
  /\ disposition = "none"
  /\ result = "running"
  /\ delivered = {} /\ refused = {} /\ skipped = {} /\ lost = {}
  /\ unfinished = FALSE

\* The signal handler raises the shutdown flag; nothing lowers it.
Cancel ==
  /\ cancel = FALSE
  /\ cancel' = TRUE
  /\ UNCHANGED <<stageVars, disposition, result, history>>

-----------------------------------------------------------------------------
\* Channel sends.

UnboundedRoom(s) == TRUE
HasRoom(s) == Len(chan[s]) < Capacity

SendSignal(s) ==
  /\ out[s] # <<>>
  /\ ~Closed(s)
  /\ HasRoom(s)
  /\ chan' = [chan EXCEPT ![s] = Append(@, Head(out[s]))]
  /\ out' = [out EXCEPT ![s] = Tail(@)]
  /\ UNCHANGED <<cancel, pc, errored, held, todo, disposition, result, history>>

\* The receiver is gone, so this send and every later one of the operation fails.
\* A batch that cannot be handed over breaks the loop; so does any failed send of
\* the assembler's scan.  Elsewhere the result of the send is ignored.
SendBreaks(s) ==
  /\ pc[s] = "run"
  /\ \/ Head(out[s]).kind = "Data"
     \/ s = 1 /\ Head(out[s]).kind = "Error"

SendFails(s) ==
  /\ out[s] # <<>>
  /\ Closed(s)
  /\ out' = [out EXCEPT ![s] = <<>>]
  /\ IF SendBreaks(s)
       THEN /\ pc' = [pc EXCEPT ![s] = "final"]
            /\ errored' = [errored EXCEPT ![s] = TRUE]
            /\ todo' = IF s = 1 THEN {} ELSE todo
            /\ lost' = lost \cup UnitsIn(out[s]) \cup (todo \ todo')
       ELSE /\ UNCHANGED <<pc, errored, todo>>
            /\ lost' = lost \cup UnitsIn(out[s])
  /\ UNCHANGED <<cancel, held, chan, disposition, result, delivered, refused, skipped, unfinished>>

-----------------------------------------------------------------------------
\* The assembler's scan of the store (drive_assembly and its emit closure).

AssembleUnit(u) ==
  /\ Ready(1) /\ ~cancel
  /\ u \in todo
  /\ todo' = todo \ {u}
  /\ LET pending == held[1] \cup {u} IN
       IF Cardinality(pending) >= BatchSize
         THEN /\ held' = [held EXCEPT ![1] = {}]
              /\ out' = [out EXCEPT ![1] = Batch(pending)]
         ELSE /\ held' = [held EXCEPT ![1] = pending]
              /\ UNCHANGED out
  /\ UNCHANGED <<cancel, pc, errored, chan, disposition, result, history>>

\* One id cannot be assembled: its error is sent and the scan goes on.
AssembleFails(u) ==
  /\ Ready(1) /\ ~cancel
  /\ u \in todo
  /\ todo' = todo \ {u}
  /\ lost' = lost \cup {u}
  /\ errored' = [errored EXCEPT ![1] = TRUE]
  /\ out' = [out EXCEPT ![1] = <<Error>>]
  /\ UNCHANGED <<cancel, pc, held, chan, disposition, result, delivered, refused, skipped, unfinished>>

\* emit sees the shutdown flag and breaks; the ids not reached are passed over.
AssembleCancelled ==
  /\ Ready(1) /\ cancel
  /\ todo # {}
  /\ todo' = {}
  /\ lost' = lost \cup todo
  /\ pc' = [pc EXCEPT ![1] = "final"]
  /\ UNCHANGED <<cancel, errored, held, out, chan, disposition, result, delivered, refused, skipped, unfinished>>

\* The store scan itself fails: the pending batch is flushed, then the error sent.
ScanFails ==
  /\ Ready(1)
  /\ todo' = {}
  /\ lost' = lost \cup todo
  /\ errored' = [errored EXCEPT ![1] = TRUE]
  /\ held' = [held EXCEPT ![1] = {}]
  /\ out' = [out EXCEPT ![1] = Batch(held[1]) \o <<Error>>]
  /\ pc' = [pc EXCEPT ![1] = "final"]
  /\ UNCHANGED <<cancel, chan, disposition, result, delivered, refused, skipped, unfinished>>

ScanEnds ==
  /\ Ready(1)
  /\ todo = {}
  /\ pc' = [pc EXCEPT ![1] = "final"]
  /\ UNCHANGED <<cancel, errored, held, out, chan, todo, disposition, result, history>>

-----------------------------------------------------------------------------
\* The loop of a pump stage (run_pump_stage).

\* recv returned signal sig to stage s, and the shutdown flag was not set.
Receive(s, kind) ==
  /\ s > 1
  /\ Ready(s)
  /\ chan[s - 1] # <<>>
  /\ Head(chan[s - 1]).kind = kind
  /\ ~cancel
  /\ chan' = [chan EXCEPT ![s - 1] = Tail(@)]

Received(s) == Head(chan[s - 1]).units

RecvCancelled(s) ==
  /\ s > 1
  /\ Ready(s)
  /\ chan[s - 1] # <<>>
  /\ cancel
  /\ chan' = [chan EXCEPT ![s - 1] = Tail(@)]
  /\ lost' = lost \cup Received(s)
  /\ pc' = [pc EXCEPT ![s] = "final"]
  /\ UNCHANGED <<cancel, errored, held, out, todo, disposition, result, delivered, refused, skipped, unfinished>>

RecvStart(s) ==
  /\ Receive(s, "Start")
  /\ UNCHANGED <<cancel, pc, errored, held, out, todo, disposition, result, history>>

\* expected_stops is 1 for every stage of this chain.
RecvStop(s) ==
  /\ Receive(s, "Stop")
  /\ pc' = [pc EXCEPT ![s] = "final"]
  /\ UNCHANGED <<cancel, errored, held, out, todo, disposition, result, history>>

\* Mutant: the error is left in the channel.
RecvErrorPeeked(s) ==
  /\ s > 1 /\ Ready(s) /\ ~cancel
  /\ chan[s - 1] # <<>> /\ Head(chan[s - 1]).kind = "Error"
  /\ errored' = [errored EXCEPT ![s] = TRUE]
  /\ out' = [out EXCEPT ![s] = <<Error>>]
  /\ UNCHANGED <<cancel, pc, held, chan, todo, disposition, result, history>>

\* An error is remembered and forwarded, and the stage keeps draining.
RecvError(s) ==
  /\ Receive(s, "Error")
  /\ errored' = [errored EXCEPT ![s] = TRUE]
  /\ out' = [out EXCEPT ![s] = <<Error>>]
  /\ UNCHANGED <<cancel, pc, held, todo, disposition, result, history>>

\* Every sender is gone: recv fails and the loop ends.
RecvDisconnected(s) ==
  /\ s > 1
  /\ Ready(s)
  /\ chan[s - 1] = <<>>
  /\ Ended(s - 1)
  /\ pc' = [pc EXCEPT ![s] = "final"]
  /\ UNCHANGED <<cancel, errored, held, out, chan, todo, disposition, result, history>>

\* Extractor and transformer: the units that convert go on, the others are
\* skipped with a warning.
Convert(s, kept) ==
  /\ s \in Skipping
  /\ Receive(s, "Data")
  /\ kept \subseteq Received(s)
  /\ out' = [out EXCEPT ![s] = Batch(kept)]
  /\ skipped' = skipped \cup (Received(s) \ kept)
  /\ UNCHANGED <<cancel, pc, errored, held, todo, disposition, result, delivered, refused, lost, unfinished>>

\* Validator: every unit is forwarded (conformant or warned about).
Validate(s) ==
  /\ s \in Validating
  /\ Receive(s, "Data")
  /\ out' = [out EXCEPT ![s] = Batch(Received(s))]
  /\ UNCHANGED <<cancel, pc, errored, held, todo, disposition, result, history>>

\* Validator: a unit aborts the run.  The units decided before it are handed
\* over, then the error; the rest of the batch is dropped and the loop breaks.
Abort(s, kept) ==
  /\ s \in Validating
  /\ Receive(s, "Data")
  /\ kept \subseteq Received(s) /\ kept # Received(s)
  /\ out' = [out EXCEPT ![s] = Batch(kept) \o <<Error>>]
  /\ errored' = [errored EXCEPT ![s] = TRUE]
  /\ pc' = [pc EXCEPT ![s] = "final"]
  /\ lost' = lost \cup (Received(s) \ kept)
  /\ UNCHANGED <<cancel, held, todo, disposition, result, delivered, refused, skipped, unfinished>>

\* Aggregator: completed aggregates go on, the open one is kept back.
Fold(s, open) ==
  /\ s \in Folding
  /\ Receive(s, "Data")
  /\ LET folded == held[s] \cup Received(s) IN
       /\ open \subseteq folded /\ open # {}
       /\ held' = [held EXCEPT ![s] = open]
       /\ out' = [out EXCEPT ![s] = Batch(folded \ open)]
  /\ UNCHANGED <<cancel, pc, errored, todo, disposition, result, history>>

\* Writer: write_batch accepts the batch.
Write ==
  /\ Receive(Writer, "Data")
  /\ delivered' = delivered \cup Received(Writer)
  /\ UNCHANGED <<cancel, pc, errored, held, out, todo, disposition, result, refused, skipped, lost, unfinished>>

\* Writer: write_batch fails.  The error goes to the completion channel and the
\* loop continues; the stage's own `errored` flag is not raised.
WriteFails ==
  /\ Receive(Writer, "Data")
  /\ refused' = refused \cup Received(Writer)
  /\ out' = [out EXCEPT ![Writer] = <<Error>>]
  /\ UNCHANGED <<cancel, pc, errored, held, todo, disposition, result, delivered, skipped, lost, unfinished>>

\* Processing a batch, or assembling an id, panics: the thread unwinds and drops
\* both its channel ends without sending Stop.
Panic(s) ==
  /\ s \in PanicStages
  /\ Ready(s) /\ ~cancel
  /\ IF s = 1
       THEN /\ todo # {}
            /\ todo' = {}
            /\ lost' = lost \cup todo \cup held[s]
            /\ UNCHANGED chan
       ELSE /\ chan[s - 1] # <<>>
            /\ Head(chan[s - 1]).kind = "Data"
            /\ chan' = [chan EXCEPT ![s - 1] = <<>>]
            /\ lost' = lost \cup UnitsIn(chan[s - 1]) \cup held[s]
            /\ UNCHANGED todo
  /\ pc' = [pc EXCEPT ![s] = "panicked"]
  /\ held' = [held EXCEPT ![s] = {}]
  /\ UNCHANGED <<cancel, errored, out, disposition, result, delivered, refused, skipped, unfinished>>

-----------------------------------------------------------------------------
\* After the loop.

\* Mutant: only a cancellation fails a stream.
FailedIfCancelled(s) == cancel

Failed(s) == errored[s] \/ cancel

\* What is held back is flushed, then Stop closes the stream.
Finalize(s) ==
  /\ s # Writer
  /\ pc[s] = "final" /\ out[s] = <<>>
  /\ out' = [out EXCEPT ![s] = Batch(held[s]) \o <<Stop>>]
  /\ held' = [held EXCEPT ![s] = {}]
  /\ pc' = [pc EXCEPT ![s] = "closing"]
  /\ UNCHANGED <<cancel, errored, chan, todo, disposition, result, history>>

\* Mutant: the error of a failed finalize is not sent.
FinalizeWriterSilently(ok) ==
  /\ pc[Writer] = "final" /\ out[Writer] = <<>>
  /\ disposition' = IF Failed(Writer) THEN "Aborted" ELSE "Committed"
  /\ unfinished' = ~ok
  /\ out' = [out EXCEPT ![Writer] = <<Stop>>]
  /\ pc' = [pc EXCEPT ![Writer] = "closing"]
  /\ UNCHANGED <<cancel, errored, held, chan, todo, result, delivered, refused, skipped, lost>>

\* The writer is finalized with the outcome of its stream; finalize may fail.
FinalizeWriter(ok) ==
  /\ pc[Writer] = "final" /\ out[Writer] = <<>>
  /\ disposition' = IF Failed(Writer) THEN "Aborted" ELSE "Committed"
  /\ unfinished' = ~ok
  /\ out' = [out EXCEPT ![Writer] = IF ok THEN <<Stop>> ELSE <<Error, Stop>>]
  /\ pc' = [pc EXCEPT ![Writer] = "closing"]
  /\ UNCHANGED <<cancel, errored, held, chan, todo, result, delivered, refused, skipped, lost>>

\* The thread ends and drops its receiver with whatever is left in the channel.
Close(s) ==
  /\ pc[s] = "closing" /\ out[s] = <<>>
  /\ pc' = [pc EXCEPT ![s] = "done"]
  /\ IF s = 1
       THEN UNCHANGED <<chan, lost>>
       ELSE /\ chan' = [chan EXCEPT ![s - 1] = <<>>]
            /\ lost' = lost \cup UnitsIn(chan[s - 1])
  /\ UNCHANGED <<cancel, errored, held, out, todo, disposition, result, delivered, refused, skipped, unfinished>>

-----------------------------------------------------------------------------
\* drain_completion: Stop ends it cleanly, the first Error is returned at once.

\* Mutant: an Error is passed over like control traffic.
DrainSignalSwallowing ==
  /\ result = "running"
  /\ chan[Writer] # <<>>
  /\ result' = IF Head(chan[Writer]).kind = "Stop" THEN "Ok" ELSE "running"
  /\ chan' = [chan EXCEPT ![Writer] = Tail(@)]
  /\ UNCHANGED <<cancel, pc, errored, held, out, todo, disposition, history>>

DrainSignal ==
  /\ result = "running"
  /\ chan[Writer] # <<>>
  /\ LET kind == Head(chan[Writer]).kind IN
       result' = CASE kind = "Stop"  -> "Ok"
                   [] kind = "Error" -> "Err"
                   [] OTHER          -> "running"
  /\ chan' = [chan EXCEPT ![Writer] = Tail(@)]
  /\ UNCHANGED <<cancel, pc, errored, held, out, todo, disposition, history>>

DrainDisconnected ==
  /\ result = "running"
  /\ chan[Writer] = <<>>
  /\ Ended(Writer)
  /\ result' = "Ok"
  /\ UNCHANGED <<cancel, stageVars, disposition, history>>

-----------------------------------------------------------------------------
AssemblerStep ==
  \/ \E u \in Units : AssembleUnit(u) \/ AssembleFails(u)
  \/ AssembleCancelled
  \/ ScanFails
  \/ ScanEnds

ProcessBatch(s) ==
  \/ \E U \in SUBSET Units : Convert(s, U) \/ Abort(s, U) \/ Fold(s, U)
  \/ Validate(s)
  \/ s = Writer /\ (Write \/ WriteFails)

LoopStep(s) ==
  \/ RecvCancelled(s)
  \/ RecvStart(s)
  \/ RecvStop(s)
  \/ RecvError(s)
  \/ RecvDisconnected(s)
  \/ ProcessBatch(s)

EndStep(s) ==
  \/ Finalize(s)
  \/ s = Writer /\ \E ok \in BOOLEAN : FinalizeWriter(ok)
  \/ Close(s)

\* Everything the thread of stage s does.
StageStep(s) ==
  \/ SendSignal(s)
  \/ SendFails(s)
  \/ s = 1 /\ AssemblerStep
  \/ LoopStep(s)
  \/ Panic(s)
  \/ EndStep(s)

DrainStep == DrainSignal \/ DrainDisconnected

Terminated == result # "running" /\ \A s \in Stages : Ended(s)

Next ==
  \/ Cancel
  \/ \E s \in Stages : StageStep(s)
  \/ DrainStep
  \/ Terminated /\ UNCHANGED vars

\* Every thread the operating system schedules keeps running; a signal may never come.
Fairness ==
  /\ \A s \in Stages : WF_vars(StageStep(s))
  /\ WF_vars(DrainStep)

Spec == Init /\ [][Next]_vars
FairSpec == Spec /\ Fairness

-----------------------------------------------------------------------------
NoPanic == \A s \in Stages : pc[s] # "panicked"

Typed ==
  /\ cancel \in BOOLEAN
  /\ pc \in [Stages -> {"run", "final", "closing", "done", "panicked"}]
  /\ errored \in [Stages -> BOOLEAN]
  /\ held \in [Stages -> SUBSET Units]
  /\ out \in [Stages -> Seq(Signal)]
  /\ chan \in [Stages -> Seq(Signal)]
  /\ todo \subseteq Units
  /\ disposition \in {"none", "Committed", "Aborted"}
  /\ result \in {"running", "Ok", "Err"}
  /\ delivered \subseteq Units /\ refused \subseteq Units
  /\ skipped \subseteq Units /\ lost \subseteq Units
  /\ unfinished \in BOOLEAN

Bounded == \A s \in Stages : Len(chan[s]) <= Capacity

\* Type invariant: every variable has its type, and no channel holds more than
\* the capacity it was created with (channel.rs).
TypeOK == Typed /\ Bounded

\* A committed output is complete (writer.rs finalize, pump.rs outcome): if no
\* stage panicked, every unit of the store reached the writer or was skipped
\* with a warning.  No cancellation, validation abort, assembly failure or closed
\* channel anywhere in the chain can end in a commit of a truncated stream.
CommitIsComplete ==
  disposition = "Committed" /\ NoPanic => Units = delivered \cup refused \cup skipped

\* A phase that returns Ok without a cancellation has committed, and the writer
\* accepted every unit that was not skipped (completion.rs, phase2.rs): no stage's
\* failure is swallowed on its way to drain_completion.
OkIsDelivered ==
  result = "Ok" /\ ~cancel /\ NoPanic =>
    /\ disposition = "Committed"
    /\ Units = delivered \cup skipped
    /\ ~unfinished

\* A failure of the writer itself is never swallowed (writer.rs process and
\* finalize, completion.rs): its Error reaches drain_completion before any Stop,
\* also when the run is cancelled or a stage panics around it.
WriteFailureIsReported ==
  refused # {} \/ unfinished => result # "Ok"

\* Every thread of the phase ends and drain_completion returns, whatever fails
\* and whenever the run is cancelled: bounded channels never leave a sender and
\* a receiver waiting for each other.
PhaseTerminates == <>Terminated

\* What the thread of stage s waits for is there: room in its channel or nobody to
\* read it, a signal or nobody to send one.  An aggregate is never left empty.
CanSend(s) == out[s] # <<>> /\ (Closed(s) \/ HasRoom(s))
CanReceive(s) ==
  /\ s > 1 /\ Ready(s)
  /\ IF chan[s - 1] = <<>> THEN Ended(s - 1)
     ELSE s \in Folding /\ Head(chan[s - 1]).kind = "Data" => cancel \/ held[s] \cup Received(s) # {}
CanEnd(s) == pc[s] \in {"final", "closing"} /\ out[s] = <<>>
CanStep(s) == CanSend(s) \/ CanReceive(s) \/ CanEnd(s) \/ (s = 1 /\ Ready(s))

CanDrain == result = "running" /\ (chan[Writer] # <<>> \/ Ended(Writer))

\* The chain never jams (channel.rs, pump.rs, completion.rs): while the phase is not
\* over some thread has what it waits for, whoever has failed, panicked or been
\* cancelled.  No circle of full channels and waiting receivers ever forms, and no
\* thread waits for one that is gone.
ChainNeverJams == Terminated \/ CanDrain \/ \E s \in Stages : CanStep(s)

-----------------------------------------------------------------------------
\* The inductive invariant behind CommitIsComplete and OkIsDelivered.

LeftLoop(s) == pc[s] \in {"final", "closing", "done"}

\* Stage s has sent everything it ever will.
Drained(s) ==
  /\ pc[s] \in {"closing", "done"}
  /\ out[s] = <<>>
  /\ held[s] = {}

\* Stop is the last signal of a stream: nothing follows it in a channel or in
\* the sends of its stage, and only a stage past its loop sends it.
StopLast(q) == \A i \in 1..Len(q) : q[i].kind = "Stop" => i = Len(q)

StopClosesStream ==
  \A s \in Stages :
    /\ StopLast(chan[s])
    /\ StopLast(out[s])
    /\ Holds(chan[s], "Stop") => pc[s] \in {"closing", "done"} /\ out[s] = <<>>
    /\ Holds(out[s], "Stop") => pc[s] = "closing"
    /\ pc[s] = "closing" /\ out[s] # <<>> => Holds(out[s], "Stop")
    /\ pc[s] \in {"closing", "done", "panicked"} => held[s] = {}
    /\ pc[s] \in {"done", "panicked"} => out[s] = <<>>

\* While the next stage still receives, a stage's Stop waits in the channel.
StopArrives ==
  \A s \in Stages \ {Writer} :
    pc[s] \in {"closing", "done"} /\ out[s] = <<>> /\ pc[s + 1] = "run"
      => Holds(chan[s], "Stop")

\* A stage that failed has told the next one: the error is under way, or the
\* next stage has it (or failed by itself).
FailureTravels ==
  \A s \in Stages \ {Writer} :
    errored[s] => \/ errored[s + 1]
                  \/ Holds(out[s], "Error")
                  \/ Holds(chan[s], "Error")

\* A stage that left its loop without failing has consumed the whole stream:
\* every stage above it is drained, has not failed, and left nothing behind.
CleanEnd ==
  \A s \in Stages :
    LeftLoop(s) /\ ~errored[s] =>
      /\ todo = {}
      /\ \A t \in Stages : t < s => Drained(t) /\ ~errored[t] /\ chan[t] = <<>>

\* Units are dropped only where some stage failed.
LossIsFailure == lost # {} => \E s \in Stages : errored[s]

\* The chain's own signals account for every failure, short of a cancellation
\* or a panic.
FailureAccounted ==
  ~cancel /\ NoPanic => FailureTravels /\ CleanEnd /\ LossIsFailure

\* Every unit of the store is somewhere.
InFlight(u) ==
  \E s \in Stages : u \in held[s] \/ u \in UnitsIn(out[s]) \/ u \in UnitsIn(chan[s])

Conservation ==
  \A u \in Units : u \in todo \cup delivered \cup refused \cup skipped \cup lost \/ InFlight(u)

\* The completion channel carries no units, and the writer holds none back.
CompletionCarriesNoUnits ==
  held[Writer] = {} /\ UnitsIn(out[Writer]) = {} /\ UnitsIn(chan[Writer]) = {}

\* The writer is finalized when it closes, with the outcome of its stream.
DispositionKnown ==
  /\ disposition = "none" <=> pc[Writer] \in {"run", "final", "panicked"}
  /\ disposition = "Aborted" => errored[Writer] \/ cancel

\* A failure of the writer reaches drain_completion before Stop does.
WriterFailed == errored[Writer] \/ refused # {} \/ unfinished

FailureReported ==
  NoPanic =>
    /\ WriterFailed /\ result = "running" => Holds(out[Writer], "Error") \/ Holds(chan[Writer], "Error")
    /\ result = "Ok" => ~WriterFailed /\ pc[Writer] \in {"closing", "done"} /\ out[Writer] = <<>>
    /\ pc[Writer] \in {"closing", "done"} /\ out[Writer] = <<>> /\ result = "running"
         => Holds(chan[Writer], "Stop")

\* The parts together: what the code keeps true in every state so that the two
\* properties hold in the end (pump.rs errored and outcome, writer.rs finalize,
\* completion.rs).
IInv ==
  /\ TypeOK
  /\ StopClosesStream
  /\ StopArrives
  /\ FailureAccounted
  /\ Conservation
  /\ CompletionCarriesNoUnits
  /\ DispositionKnown
  /\ FailureReported
  /\ CommitIsComplete

=============================================================================
