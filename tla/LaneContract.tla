---------------------------- MODULE LaneContract ----------------------------
(***************************************************************************)
(* What one input's lane of the input phase promises to the resolver whose *)
(* intake it feeds: InputLane is shown to keep this contract, InputPhase   *)
(* relies on it for every input.                                           *)
(*                                                                         *)
(* A lane is `complete` once every record of its input has been handed     *)
(* over or skipped with a warning, it has `failed` once it handed over an  *)
(* error, and it `owes` an error while a profiling failure is not handed   *)
(* over.                                                                   *)
(***************************************************************************)

LaneState == [status : {"open", "stopped", "gone"},
              complete : BOOLEAN, failed : BOOLEAN, owes : BOOLEAN]

NewLane == [status |-> "open", complete |-> FALSE, failed |-> FALSE, owes |-> FALSE]

\* The operators below relate the state l of a lane before a step to its state m
\* after it; cancel is the shutdown flag.

\* A batch is handed over, perhaps the one that completes the lane.
HandsOverData(l, m) ==
  /\ l.status = "open"
  /\ m \in {l, [l EXCEPT !.complete = TRUE]}

\* The last records are skipped, or turn out to be none.
SkipsRest(l, m) ==
  /\ l.status = "open"
  /\ m = [l EXCEPT !.complete = TRUE]

\* The first error of a collector or an ingestor comes before the lane's Stop,
\* unless the run was cancelled or a profiler gave up on the lane.
HandsOverError(l, m, cancel) ==
  /\ l.status = "open" \/ cancel \/ l.failed \/ l.owes
  /\ m = [l EXCEPT !.failed = TRUE]

\* A payload cannot be profiled.
FailsProfiling(l, m) ==
  /\ ~l.complete
  /\ m = [l EXCEPT !.owes = TRUE]

\* The profiling error has no place in the order: it may come after the Stop.
HandsOverOwed(l, m) ==
  /\ l.owes
  /\ m = [l EXCEPT !.owes = FALSE, !.failed = TRUE]

\* Stop is handed over once, and never silently instead of records.
HandsOverStop(l, m, cancel) ==
  /\ l.status = "open"
  /\ l.complete \/ l.failed \/ l.owes \/ cancel
  /\ m = [l EXCEPT !.status = "stopped"]

\* The intake is gone: the lane ends without a Stop, or drops its error.
GivesUp(l, m) ==
  \/ l.status = "open" /\ m = [l EXCEPT !.status = "gone"]
  \/ l.owes /\ m = [l EXCEPT !.owes = FALSE]

=============================================================================
