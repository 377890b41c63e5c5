----------------------------- MODULE InputPhase -----------------------------
(***************************************************************************)
(* The input phase of one run cycle (phase1.rs): the lanes of all inputs   *)
(* merge on the intake of the resolver, a pump stage that stores what      *)
(* arrives and ends after one Stop per input; drain_completion reads what  *)
(* the resolver reports.  A lane does what LaneContract allows it, which   *)
(* is all InputLane does.                                                  *)
(***************************************************************************)
EXTENDS LaneContract, Naturals, Sequences, FiniteSets

CONSTANTS
  Inputs,     \* the manifest's inputs
  Capacity    \* ChannelPolicy::Bounded(Capacity)

ASSUME InputAssumption ==
  /\ IsFiniteSet(Inputs) /\ Inputs # {}
  /\ Capacity \in Nat \ {0}

VARIABLES
  cancel,      \* the process-wide shutdown flag
  lane,        \* what each lane has handed over
  intake,      \* the resolver's channel
  pc,          \* where the resolver's thread is
  stops,       \* its stops_remaining
  out,         \* signals it still has to send
  completion,  \* the channel drain_completion reads
  result,      \* what drain_completion returned
  stored,      \* history: inputs whose last fragments are in the store
  skipped,     \* history: inputs whose last records were skipped
  unprofiled   \* history: inputs with a payload whose profiling failed

resolverVars == <<pc, stops, out, completion, result, stored>>
vars == <<cancel, lane, intake, resolverVars, skipped, unprofiled>>

\* completes: the inputs whose last fragments a batch carries; only Data carries any.
Signal ==
  {m \in [kind : {"Data", "Error", "Stop"}, completes : SUBSET Inputs] :
     m.kind # "Data" => m.completes = {}}
Data(I) == [kind |-> "Data", completes |-> I]
Error == [kind |-> "Error", completes |-> {}]
Stop == [kind |-> "Stop", completes |-> {}]

\* Mutant: one Stop more is expected than lanes send.
ExtraStop == Cardinality(Inputs) + 1
ExpectedStops == Cardinality(Inputs)

Init ==
  /\ cancel = FALSE
  /\ lane = [i \in Inputs |-> NewLane]
  /\ intake = <<>>
  /\ pc = "run"
  /\ stops = ExpectedStops
  /\ out = <<>>
  /\ completion = <<>>
  /\ result = "running"
  /\ stored = {} /\ skipped = {} /\ unprofiled = {}

Cancel ==
  /\ cancel = FALSE
  /\ cancel' = TRUE
  /\ UNCHANGED <<lane, intake, resolverVars, skipped, unprofiled>>

-----------------------------------------------------------------------------
\* Lanes.

UnboundedRoom == TRUE
HasRoom == Len(intake) < Capacity

\* Lane i hands over signal m and is in state l afterwards.
HandOver(i, m, l) ==
  /\ pc # "done"
  /\ HasRoom
  /\ intake' = Append(intake, m)
  /\ lane' = [lane EXCEPT ![i] = l]
  /\ UNCHANGED <<cancel, resolverVars, skipped, unprofiled>>

LaneData(i) ==
  \E l \in LaneState :
    /\ HandsOverData(lane[i], l)
    /\ HandOver(i, Data(IF l.complete /\ ~lane[i].complete THEN {i} ELSE {}), l)

LaneError(i) ==
  \E l \in LaneState : HandsOverError(lane[i], l, cancel) /\ HandOver(i, Error, l)

LaneOwed(i) ==
  \E l \in LaneState : HandsOverOwed(lane[i], l) /\ HandOver(i, Error, l)

LaneStop(i) ==
  \E l \in LaneState : HandsOverStop(lane[i], l, cancel) /\ HandOver(i, Stop, l)

LaneSkips(i) ==
  /\ ~lane[i].complete
  /\ \E l \in LaneState : SkipsRest(lane[i], l) /\ lane' = [lane EXCEPT ![i] = l]
  /\ skipped' = skipped \cup {i}
  /\ UNCHANGED <<cancel, intake, resolverVars, unprofiled>>

LaneFailsProfiling(i) ==
  /\ i \notin unprofiled
  /\ \E l \in LaneState : FailsProfiling(lane[i], l) /\ lane' = [lane EXCEPT ![i] = l]
  /\ unprofiled' = unprofiled \cup {i}
  /\ UNCHANGED <<cancel, intake, resolverVars, skipped>>

LaneGivesUp(i) ==
  /\ pc = "done"
  /\ \E l \in LaneState : GivesUp(lane[i], l) /\ lane' = [lane EXCEPT ![i] = l]
  /\ UNCHANGED <<cancel, intake, resolverVars, skipped, unprofiled>>

LaneStep(i) ==
  \/ LaneData(i) \/ LaneError(i) \/ LaneOwed(i) \/ LaneStop(i)
  \/ LaneSkips(i) \/ LaneFailsProfiling(i) \/ LaneGivesUp(i)

-----------------------------------------------------------------------------
\* Resolver: run_pump_stage with ResolverProcessor and one expected Stop per input.

Receive(kind) ==
  /\ pc = "run" /\ out = <<>>
  /\ intake # <<>>
  /\ Head(intake).kind = kind
  /\ intake' = Tail(intake)

RecvCancelled ==
  /\ cancel
  /\ \E kind \in {"Data", "Error", "Stop"} : Receive(kind)
  /\ pc' = "closing" /\ out' = <<Stop>>
  /\ UNCHANGED <<cancel, lane, stops, completion, result, stored, skipped, unprofiled>>

Resolve ==
  /\ ~cancel
  /\ Receive("Data")
  /\ stored' = stored \cup Head(intake).completes
  /\ UNCHANGED <<cancel, lane, pc, stops, out, completion, result, skipped, unprofiled>>

\* The store refuses a fragment: the error is reported and the loop breaks.
ResolveFails ==
  /\ ~cancel
  /\ Receive("Data")
  /\ pc' = "closing" /\ out' = <<Error, Stop>>
  /\ UNCHANGED <<cancel, lane, stops, completion, result, stored, skipped, unprofiled>>

RecvError ==
  /\ ~cancel
  /\ Receive("Error")
  /\ out' = <<Error>>
  /\ UNCHANGED <<cancel, lane, pc, stops, completion, result, stored, skipped, unprofiled>>

\* Mutants: the first Stop ends the stage; every Stop is reported.
RecvFirstStop ==
  /\ ~cancel
  /\ Receive("Stop")
  /\ pc' = "closing" /\ out' = <<Stop>>
  /\ UNCHANGED <<cancel, lane, stops, completion, result, stored, skipped, unprofiled>>

RecvStopForwarded ==
  /\ ~cancel
  /\ Receive("Stop")
  /\ stops' = IF stops > 0 THEN stops - 1 ELSE 0
  /\ out' = <<Stop>>
  /\ pc' = IF stops' = 0 THEN "closing" ELSE pc
  /\ UNCHANGED <<cancel, lane, completion, result, stored, skipped, unprofiled>>

RecvStop ==
  /\ ~cancel
  /\ Receive("Stop")
  /\ stops' = IF stops > 0 THEN stops - 1 ELSE 0
  /\ IF stops' = 0
       THEN pc' = "closing" /\ out' = <<Stop>>
       ELSE UNCHANGED <<pc, out>>
  /\ UNCHANGED <<cancel, lane, completion, result, stored, skipped, unprofiled>>

\* A send on the completion channel; once drain_completion has returned it fails
\* and is ignored.
Report ==
  /\ out # <<>>
  /\ IF result # "running"
       THEN UNCHANGED completion
       ELSE /\ Len(completion) < Capacity
            /\ completion' = Append(completion, Head(out))
  /\ out' = Tail(out)
  /\ UNCHANGED <<cancel, lane, intake, pc, stops, result, stored, skipped, unprofiled>>

\* The thread ends and drops the intake with whatever is left in it.
Close ==
  /\ pc = "closing" /\ out = <<>>
  /\ pc' = "done"
  /\ intake' = <<>>
  /\ UNCHANGED <<cancel, lane, stops, out, completion, result, stored, skipped, unprofiled>>

ResolverStep ==
  \/ RecvCancelled \/ Resolve \/ ResolveFails \/ RecvError \/ RecvStop
  \/ Report \/ Close

\* drain_completion: Stop ends it cleanly, the first Error is returned at once.
DrainSignal ==
  /\ result = "running"
  /\ completion # <<>>
  /\ result' = IF Head(completion).kind = "Stop" THEN "Ok" ELSE "Err"
  /\ completion' = Tail(completion)
  /\ UNCHANGED <<cancel, lane, intake, pc, stops, out, stored, skipped, unprofiled>>

-----------------------------------------------------------------------------
LaneOver(i) == lane[i].status # "open"

Terminated == result # "running" /\ pc = "done" /\ \A i \in Inputs : LaneOver(i)

Next ==
  \/ Cancel
  \/ \E i \in Inputs : LaneStep(i)
  \/ ResolverStep
  \/ DrainSignal
  \/ Terminated /\ UNCHANGED vars

\* The resolver's and the main thread keep running.
Fairness == WF_vars(ResolverStep) /\ WF_vars(DrainSignal)

Spec == Init /\ [][Next]_vars
FairSpec == Spec /\ Fairness

-----------------------------------------------------------------------------
\* Type invariant.
TypeOK ==
  /\ cancel \in BOOLEAN
  /\ lane \in [Inputs -> LaneState]
  /\ intake \in Seq(Signal) /\ Len(intake) <= Capacity
  /\ pc \in {"run", "closing", "done"}
  /\ stops \in 0..Cardinality(Inputs)
  /\ out \in Seq(Signal)
  /\ completion \in Seq(Signal)
  /\ result \in {"running", "Ok", "Err"}
  /\ stored \subseteq Inputs /\ skipped \subseteq Inputs /\ unprofiled \subseteq Inputs

\* A phase that returns Ok without a cancellation has stored every input, or
\* skipped its last records with a warning (completion.rs, pump.rs stops_remaining):
\* the failure of a collector, an ingestor or the store reaches drain_completion
\* before the last Stop, whatever the other lanes do.  A profiler sends its failure
\* after its lane's Stop can have left, so a lane whose profiler failed is excepted.
\* In every state the channels keep their bound.
OkIsStored ==
  /\ TypeOK
  /\ result = "Ok" /\ ~cancel /\ unprofiled = {} => Inputs = stored \cup skipped

\* Nothing enters the store once the phase has returned Ok without a cancellation
\* (pump.rs): the output phase reads a store that no lane still writes to.
StoreSettled ==
  [][result = "Ok" /\ ~cancel => stored' = stored]_vars

\* The phase returns once every lane has stopped, whatever is still in the
\* channels and whatever failed (phase1.rs): one Stop per input is enough.
ReturnsAfterLanes ==
  (\A i \in Inputs : LaneOver(i)) ~> result # "running"
=============================================================================
