----------------------------- MODULE InputLane ------------------------------
(***************************************************************************)
(* One input's lane of the input phase (phase1.rs): a collector, the       *)
(* splitter thread that create_profiler starts, a profiler, an ingestor    *)
(* thread per data format, and an expander that hands fragments to the     *)
(* resolver's intake, a channel all lanes share.  Failures take two ways:  *)
(* down the lane as the records do, or straight from the splitter or the   *)
(* profiler to the intake.                                                 *)
(*                                                                         *)
(* Every channel has one receiver and is named by it: inbox[t] is what     *)
(* thread t has still to receive, an ingestor being named by its format.   *)
(* out[t] is what the current operation of t still has to send, in order.  *)
(* Start and Meta signals are left out: no thread of a lane acts on them.  *)
(***************************************************************************)
EXTENDS Naturals, Sequences, FiniteSets

CONSTANTS
  Payloads,   \* what the input's source consists of, one file or download at least
  Formats,    \* the data formats that have an ingestor
  Capacity    \* ChannelPolicy::Bounded(Capacity)

ASSUME LaneAssumption ==
  /\ Payloads # {}
  /\ Formats # {}
  /\ Formats \cap {"collector", "splitter", "profiler", "expander", "intake"} = {}
  /\ Capacity \in Nat \ {0}

Threads == {"collector", "splitter", "profiler", "expander"} \cup Formats

VARIABLES
  cancel,      \* the process-wide shutdown flag
  open,        \* the resolver still holds the intake
  pc,          \* where each thread is
  inbox,       \* channel contents
  out,         \* signals a thread still has to send
  uncollected, \* payloads the collector has not resolved yet
  pending,     \* FragmentEmitter.pending: payloads whose last fragments are held back
  sent,        \* history: payloads whose fragments were all handed over
  skipped,     \* history: payloads whose last records the expander skipped
  unprofiled,  \* history: payloads whose profiling failed
  errorSent,   \* history: an error was handed over
  stopSent     \* history: Stop was handed over

history == <<sent, skipped, unprofiled, errorSent, stopSent>>
vars == <<cancel, open, pc, inbox, out, uncollected, pending, history>>

-----------------------------------------------------------------------------
\* Signals.  A batch is represented by the payloads it completes.
Signal == [kind : {"Data", "Error", "Stop"}, units : SUBSET Payloads]
Error == [kind |-> "Error", units |-> {}]
Stop  == [kind |-> "Stop", units |-> {}]
Data(U) == [kind |-> "Data", units |-> U]

Send(t, m) == [to |-> t, signal |-> m]

Init ==
  /\ cancel = FALSE /\ open = TRUE
  /\ pc = [t \in Threads |-> "run"]
  /\ inbox = [t \in Threads |-> <<>>]
  /\ out = [t \in Threads |-> <<>>]
  /\ uncollected = Payloads
  /\ pending = {}
  /\ sent = {} /\ skipped = {} /\ unprofiled = {}
  /\ errorSent = FALSE /\ stopSent = FALSE

\* The signal handler raises the shutdown flag.
Cancel ==
  /\ cancel = FALSE
  /\ cancel' = TRUE
  /\ UNCHANGED <<open, pc, inbox, out, uncollected, pending, history>>

\* The resolver stops early, after a failure or a cancellation.
CloseIntake ==
  /\ open
  /\ open' = FALSE
  /\ UNCHANGED <<cancel, pc, inbox, out, uncollected, pending, history>>

-----------------------------------------------------------------------------
\* Channels.

\* profile() consumes the receiver and the routes, so a profiler that returned
\* from it has dropped both before it sends its error.
Released(t) == pc[t] = "done" \/ (t = "profiler" /\ pc[t] = "closing")

\* Mutant: a send to a thread that is gone waits for ever.
ClosedIntake(t) == t = "intake" /\ ~open

Closed(t) == IF t = "intake" THEN ~open ELSE Released(t)

Ready(t) == pc[t] = "run" /\ out[t] = <<>>

\* The threads that hold a sender of t's channel.
Senders(t) ==
  CASE t = "collector" -> {}
    [] t = "splitter"  -> {"collector"}
    [] t = "profiler"  -> {"splitter"}
    [] t = "expander"  -> Formats
    [] OTHER           -> {"profiler"}

HasRoom(t) == Len(inbox[t]) < Capacity

SendSignal(t) ==
  /\ out[t] # <<>>
  /\ LET to == Head(out[t]).to
         m  == Head(out[t]).signal IN
       /\ ~Closed(to)
       /\ IF to = "intake"
            THEN /\ sent' = sent \cup m.units
                 /\ errorSent' = (errorSent \/ m.kind = "Error")
                 /\ stopSent' = (stopSent \/ m.kind = "Stop")
                 /\ UNCHANGED inbox
            ELSE /\ HasRoom(to)
                 /\ inbox' = [inbox EXCEPT ![to] = Append(@, m)]
                 /\ UNCHANGED <<sent, errorSent, stopSent>>
  /\ out' = [out EXCEPT ![t] = Tail(@)]
  /\ UNCHANGED <<cancel, open, pc, uncollected, pending, skipped, unprofiled>>

\* The receiver is gone.  An ingestor goes on to the next payload, every other
\* thread gives up, without a Stop.
SendFails(t) ==
  /\ out[t] # <<>>
  /\ Closed(Head(out[t]).to)
  /\ out' = [out EXCEPT ![t] = <<>>]
  /\ pc' = IF t \in Formats THEN pc ELSE [pc EXCEPT ![t] = "closing"]
  /\ UNCHANGED <<cancel, open, inbox, uncollected, pending, history>>

\* recv returned a signal of this kind to thread t.
Receive(t, kind) ==
  /\ Ready(t)
  /\ inbox[t] # <<>>
  /\ Head(inbox[t]).kind = kind
  /\ inbox' = [inbox EXCEPT ![t] = Tail(@)]

Received(t) == Head(inbox[t]).units

\* The loop of t is over; last is what t still sends.
Leave(t, last) ==
  /\ pc' = [pc EXCEPT ![t] = "closing"]
  /\ out' = [out EXCEPT ![t] = last]

\* Every sender is gone: recv fails and the loop ends.
RecvDisconnected(t) ==
  /\ t \notin {"collector", "expander"}
  /\ Ready(t)
  /\ inbox[t] = <<>>
  /\ \A s \in Senders(t) : Released(s)
  /\ Leave(t, <<>>)
  /\ UNCHANGED <<cancel, open, inbox, uncollected, pending, history>>

\* The thread ends and drops its receiver with whatever is left in the channel.
Close(t) ==
  /\ pc[t] = "closing" /\ out[t] = <<>>
  /\ pc' = [pc EXCEPT ![t] = "done"]
  /\ inbox' = [inbox EXCEPT ![t] = <<>>]
  /\ UNCHANGED <<cancel, open, out, uncollected, pending, history>>

-----------------------------------------------------------------------------
\* Collector.

Collect(p) ==
  /\ Ready("collector")
  /\ p \in uncollected
  /\ uncollected' = uncollected \ {p}
  /\ out' = [out EXCEPT !["collector"] = <<Send("splitter", Data({p}))>>]
  /\ UNCHANGED <<cancel, open, pc, inbox, pending, history>>

\* A file or a download cannot be had: the error and Stop are sent, the
\* remaining payloads are not collected.
CollectFails ==
  /\ Ready("collector")
  /\ uncollected # {}
  /\ Leave("collector", <<Send("splitter", Error), Send("splitter", Stop)>>)
  /\ UNCHANGED <<cancel, open, inbox, uncollected, pending, history>>

CollectEnds ==
  /\ Ready("collector")
  /\ uncollected = {}
  /\ Leave("collector", <<Send("splitter", Stop)>>)
  /\ UNCHANGED <<cancel, open, inbox, uncollected, pending, history>>

-----------------------------------------------------------------------------
\* Splitter: payloads and Stop to the profiler, an error to the intake.

SplitData ==
  /\ Receive("splitter", "Data")
  /\ out' = [out EXCEPT !["splitter"] = <<Send("profiler", Data(Received("splitter")))>>]
  /\ UNCHANGED <<cancel, open, pc, uncollected, pending, history>>

\* Mutant: the error ends the splitter and goes nowhere.
SplitErrorDropped ==
  /\ Receive("splitter", "Error")
  /\ Leave("splitter", <<>>)
  /\ UNCHANGED <<cancel, open, uncollected, pending, history>>

SplitError ==
  /\ Receive("splitter", "Error")
  /\ Leave("splitter", <<Send("intake", Error)>>)
  /\ UNCHANGED <<cancel, open, uncollected, pending, history>>

SplitStop ==
  /\ Receive("splitter", "Stop")
  /\ Leave("splitter", <<Send("profiler", Stop)>>)
  /\ UNCHANGED <<cancel, open, uncollected, pending, history>>

-----------------------------------------------------------------------------
\* Profiler (route_payloads).

Profile(f) ==
  /\ Receive("profiler", "Data")
  /\ out' = [out EXCEPT !["profiler"] = <<Send(f, Data(Received("profiler")))>>]
  /\ UNCHANGED <<cancel, open, pc, uncollected, pending, history>>

\* The payload cannot be profiled, or its format has no route.  profile() returns
\* the error: the receiver and the routes are dropped, then the error is sent.
ProfileFails ==
  /\ Ready("profiler")
  /\ inbox["profiler"] # <<>> /\ Head(inbox["profiler"]).kind = "Data"
  /\ inbox' = [inbox EXCEPT !["profiler"] = <<>>]
  /\ unprofiled' = unprofiled \cup Received("profiler")
  /\ Leave("profiler", <<Send("intake", Error)>>)
  /\ UNCHANGED <<cancel, open, uncollected, pending, sent, skipped, errorSent, stopSent>>

ProfileStop ==
  /\ Receive("profiler", "Stop")
  /\ Leave("profiler", <<>>)
  /\ UNCHANGED <<cancel, open, uncollected, pending, history>>

-----------------------------------------------------------------------------
\* Ingestor thread of format f (run_ingestor_lane, ingest_one).

Ingest(f) ==
  /\ Receive(f, "Data")
  /\ out' = [out EXCEPT ![f] = <<Send("expander", Data(Received(f)))>>]
  /\ UNCHANGED <<cancel, open, pc, uncollected, pending, history>>

\* Mutant: the payload that failed is tried again.
IngestRetries(f, some) ==
  /\ Ready(f)
  /\ inbox[f] # <<>> /\ Head(inbox[f]).kind = "Data"
  /\ out' = [out EXCEPT ![f] = <<Send("expander", Error)>>]
  /\ UNCHANGED <<cancel, open, pc, inbox, uncollected, pending, history>>

\* The ingestor cannot be built, or it fails or panics, perhaps after it sent
\* some of the records; the thread goes on with the next payload.
IngestFails(f, some) ==
  /\ Receive(f, "Data")
  /\ out' = [out EXCEPT ![f] =
       (IF some THEN <<Send("expander", Data({}))>> ELSE <<>>) \o <<Send("expander", Error)>>]
  /\ UNCHANGED <<cancel, open, pc, uncollected, pending, history>>

-----------------------------------------------------------------------------
\* Expander.

\* A batch is handed over only if it is not empty.
Flush(U) == IF U = {} THEN <<>> ELSE <<Send("intake", Data(U))>>

\* The fragments of a batch join the pending ones; every full batch is handed
\* over and the rest is held back.  Records that cannot be expanded are skipped.
Expand(bad, full) ==
  LET ready == pending \cup (Received("expander") \ bad) IN
  /\ ~cancel
  /\ Receive("expander", "Data")
  /\ bad \subseteq Received("expander")
  /\ full \subseteq ready
  /\ pending' = ready \ full
  /\ skipped' = skipped \cup bad
  /\ out' = [out EXCEPT !["expander"] = Flush(full)]
  /\ UNCHANGED <<cancel, open, pc, uncollected, sent, unprofiled, errorSent, stopSent>>

ExpandError ==
  /\ ~cancel
  /\ Receive("expander", "Error")
  /\ out' = [out EXCEPT !["expander"] = <<Send("intake", Error)>>]
  /\ UNCHANGED <<cancel, open, pc, uncollected, pending, history>>

\* The loop ends, at the shutdown flag or because every ingestor is gone: what
\* is pending is flushed and Stop is sent.
ExpandEnds ==
  /\ Leave("expander", Flush(pending) \o <<Send("intake", Stop)>>)
  /\ pending' = {}
  /\ UNCHANGED <<cancel, open, uncollected, history>>

ExpandCancelled ==
  /\ cancel
  /\ \E kind \in {"Data", "Error"} : Receive("expander", kind)
  /\ ExpandEnds

ExpandDisconnected ==
  /\ Ready("expander")
  /\ inbox["expander"] = <<>>
  /\ \A f \in Formats : Released(f)
  /\ UNCHANGED inbox
  /\ ExpandEnds

-----------------------------------------------------------------------------
CollectorStep == (\E p \in Payloads : Collect(p)) \/ CollectFails \/ CollectEnds

SplitterStep == SplitData \/ SplitError \/ SplitStop

ProfilerStep == (\E f \in Formats : Profile(f)) \/ ProfileFails \/ ProfileStop

IngestorStep(f) == Ingest(f) \/ \E some \in BOOLEAN : IngestFails(f, some)

ExpanderStep ==
  \/ \E bad, full \in SUBSET Payloads : Expand(bad, full)
  \/ ExpandError
  \/ ExpandCancelled
  \/ ExpandDisconnected

\* Everything thread t does.
ThreadStep(t) ==
  \/ SendSignal(t)
  \/ SendFails(t)
  \/ RecvDisconnected(t)
  \/ Close(t)
  \/ t = "collector" /\ CollectorStep
  \/ t = "splitter" /\ SplitterStep
  \/ t = "profiler" /\ ProfilerStep
  \/ t \in Formats /\ IngestorStep(t)
  \/ t = "expander" /\ ExpanderStep

Terminated == \A t \in Threads : pc[t] = "done"

Next ==
  \/ Cancel
  \/ CloseIntake
  \/ \E t \in Threads : ThreadStep(t)
  \/ Terminated /\ UNCHANGED vars

\* Every thread the operating system schedules keeps running.
Fairness == \A t \in Threads : WF_vars(ThreadStep(t))

Spec == Init /\ [][Next]_vars
FairSpec == Spec /\ Fairness

-----------------------------------------------------------------------------
\* Type invariant.
TypeOK ==
  /\ cancel \in BOOLEAN /\ open \in BOOLEAN
  /\ pc \in [Threads -> {"run", "closing", "done"}]
  /\ inbox \in [Threads -> Seq(Signal)]
  /\ \A t \in Threads : Len(inbox[t]) <= Capacity
  /\ out \in [Threads -> Seq([to : Threads \cup {"intake"}, signal : Signal])]
  /\ uncollected \subseteq Payloads /\ pending \subseteq Payloads
  /\ sent \subseteq Payloads /\ skipped \subseteq Payloads /\ unprofiled \subseteq Payloads
  /\ errorSent \in BOOLEAN /\ stopSent \in BOOLEAN

\* What the lane has handed over, as the contract sees it.
Contract == INSTANCE InputLaneSpec WITH
  lane <- [status   |-> IF stopSent THEN "stopped"
                        ELSE IF pc["expander"] # "run" /\ out["expander"] = <<>> THEN "gone"
                        ELSE "open",
           complete |-> Payloads = sent \cup skipped,
           failed   |-> errorSent,
           owes     |-> unprofiled # {} /\ out["profiler"] # <<>>]

\* The lane keeps the contract of LaneContract (collector.rs, profiler.rs,
\* ingestor.rs, expander.rs): a payload that is neither handed over nor skipped is
\* answered by an error handed over before the Stop, except a profiling error,
\* which races it; and a lane ends without Stop only when the intake is gone.
KeepsContract == Contract!LaneSpec

\* Every thread of the lane ends, whatever fails, whenever the run is cancelled
\* and whenever the intake closes: no thread waits for one that gave up.
LaneTerminates == <>Terminated

\* What thread t waits for is there: room in the channel it sends to or nobody to
\* read it, a signal it has an answer to or nobody to send one.
CanSend(t) ==
  /\ out[t] # <<>>
  /\ LET to == Head(out[t]).to IN Closed(to) \/ to = "intake" \/ HasRoom(to)
Answers(t) ==
  CASE t = "splitter" -> {"Data", "Error", "Stop"}
    [] t = "profiler" -> {"Data", "Stop"}
    [] t = "expander" -> {"Data", "Error"}
    [] OTHER          -> {"Data"}
CanReceive(t) ==
  /\ Ready(t)
  /\ IF inbox[t] = <<>> THEN \A s \in Senders(t) : Released(s)
     ELSE Head(inbox[t]).kind \in Answers(t)
CanEnd(t) == pc[t] = "closing" /\ out[t] = <<>>
CanStep(t) == CanSend(t) \/ CanReceive(t) \/ CanEnd(t)

\* The lane never jams (channel.rs, phase1.rs): while a thread of it lives, some thread
\* has what it waits for, whoever failed or gave up and whether or not the resolver
\* still listens.  No channel of the lane fills up for good or past its capacity, and no
\* thread is sent a signal it has no answer to.
LaneNeverJams ==
  /\ TypeOK
  /\ Terminated \/ \E t \in Threads : CanStep(t)
=============================================================================
