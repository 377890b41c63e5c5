-------------------------- MODULE InputPhaseProofs --------------------------
(***************************************************************************)
(* An input phase that returns Ok has stored every input, for any number   *)
(* of inputs and any channel capacity.                                     *)
(***************************************************************************)
EXTENDS InputPhase, FiniteSetTheorems, SequenceTheorems, TLAPS

-----------------------------------------------------------------------------
\* Queues of signals.

Holds(q, kind) == \E k \in 1..Len(q) : q[k].kind = kind

\* A batch in the queue completes input i.
Carries(q, i) == \E k \in 1..Len(q) : i \in q[k].completes

\* The same, and a Stop is queued behind it.
CarriesBeforeStop(q, i) ==
  \E k, j \in 1..Len(q) : k < j /\ i \in q[k].completes /\ q[j].kind = "Stop"

ErrorBeforeStop(q) ==
  \E k, j \in 1..Len(q) : k < j /\ q[k].kind = "Error" /\ q[j].kind = "Stop"

StopsAt(q) == {k \in 1..Len(q) : q[k].kind = "Stop"}
StopCount(q) == Cardinality(StopsAt(q))

\* Nothing follows a Stop.
StopLast(q) == \A k \in 1..Len(q) : q[k].kind = "Stop" => k = Len(q)

\* The signals the threads send.
LEMMA SignalFacts ==
  /\ Error \in Signal /\ Stop \in Signal
  /\ Error.kind = "Error" /\ Stop.kind = "Stop" /\ Error.completes = {} /\ Stop.completes = {}
  /\ \A I \in SUBSET Inputs : Data(I) \in Signal /\ Data(I).kind = "Data" /\ Data(I).completes = I
BY DEF Signal, Error, Stop, Data

\* The empty queue.
LEMMA EmptyFacts ==
  /\ <<>> \in Seq(Signal) /\ StopLast(<<>>) /\ StopCount(<<>>) = 0
  /\ \A k : ~Holds(<<>>, k)
<1>1. StopsAt(<<>>) = {}
  BY DEF StopsAt
<1> QED
  BY <1>1, FS_EmptySet DEF Holds, StopLast, StopCount

\* The Stops of a queue can be counted.
LEMMA StopCountType ==
  ASSUME NEW q \in Seq(Signal)
  PROVE  /\ IsFiniteSet(StopsAt(q)) /\ StopCount(q) \in Nat
         /\ StopCount(q) = 0 <=> ~Holds(q, "Stop")
<1>1. Len(q) \in Nat
  OBVIOUS
<1>2. IsFiniteSet(1..Len(q)) /\ StopsAt(q) \in SUBSET (1..Len(q))
  <2>1. 1 \in Int /\ Len(q) \in Int
    BY <1>1
  <2>2. IsFiniteSet(1..Len(q))
    BY <2>1, FS_Interval
  <2> QED
    BY <2>2 DEF StopsAt
<1>3. IsFiniteSet(StopsAt(q))
  BY <1>2, FS_Subset
<1>4. StopCount(q) \in Nat /\ (StopCount(q) = 0 <=> StopsAt(q) = {})
  BY <1>3, FS_CardinalityType, FS_EmptySet DEF StopCount
<1> QED
  BY <1>3, <1>4 DEF StopsAt, Holds

\* What one signal at the end of a queue adds.
LEMMA AppendFacts ==
  ASSUME NEW q \in Seq(Signal), NEW m \in Signal
  PROVE  /\ Append(q, m) \in Seq(Signal) /\ Append(q, m) # <<>> /\ Len(Append(q, m)) = Len(q) + 1
         /\ \A k : Holds(Append(q, m), k) <=> Holds(q, k) \/ m.kind = k
         /\ \A i : Carries(Append(q, m), i) <=> Carries(q, i) \/ i \in m.completes
         /\ \A i : CarriesBeforeStop(q, i) \/ (m.kind = "Stop" /\ Carries(q, i)) =>
                     CarriesBeforeStop(Append(q, m), i)
         /\ ErrorBeforeStop(q) \/ (m.kind = "Stop" /\ Holds(q, "Error")) => ErrorBeforeStop(Append(q, m))
         /\ StopCount(Append(q, m)) = IF m.kind = "Stop" THEN StopCount(q) + 1 ELSE StopCount(q)
         /\ ~Holds(q, "Stop") => StopLast(Append(q, m))
<1> DEFINE r == Append(q, m)
<1>1. r \in Seq(Signal) /\ Len(r) = Len(q) + 1 /\ r[Len(q) + 1] = m /\ Len(q) \in Nat
  OBVIOUS
<1>2. \A k \in 1..Len(q) : r[k] = q[k]
  OBVIOUS
<1> HIDE DEF r
<1>3. r # <<>>
  BY <1>1
<1>4. /\ \A k \in 1..Len(r) : k \in 1..Len(q) \/ k = Len(q) + 1
      /\ Len(q) + 1 \in 1..Len(r)
      /\ \A k \in 1..Len(q) : k \in 1..Len(r) /\ k < Len(q) + 1
  BY <1>1
<1>5. \A k : Holds(r, k) <=> Holds(q, k) \/ m.kind = k
  BY <1>1, <1>2, <1>4 DEF Holds
<1>6. \A i : Carries(r, i) <=> Carries(q, i) \/ i \in m.completes
  BY <1>1, <1>2, <1>4 DEF Carries
<1>7. ASSUME NEW i, CarriesBeforeStop(q, i) \/ (m.kind = "Stop" /\ Carries(q, i))
      PROVE  CarriesBeforeStop(r, i)
  BY <1>1, <1>2, <1>4, <1>7 DEF CarriesBeforeStop, Carries
<1>8. ErrorBeforeStop(q) \/ (m.kind = "Stop" /\ Holds(q, "Error")) => ErrorBeforeStop(r)
  BY <1>1, <1>2, <1>4 DEF ErrorBeforeStop, Holds
<1>9. StopCount(r) = IF m.kind = "Stop" THEN StopCount(q) + 1 ELSE StopCount(q)
  <2>1. StopsAt(r) = IF m.kind = "Stop" THEN StopsAt(q) \cup {Len(q) + 1} ELSE StopsAt(q)
    BY <1>1, <1>2, <1>4 DEF StopsAt
  <2>2. Len(q) + 1 \notin StopsAt(q)
    BY <1>1 DEF StopsAt
  <2>3. IsFiniteSet(StopsAt(q))
    BY StopCountType
  <2>4. Cardinality(StopsAt(q) \cup {Len(q) + 1}) = Cardinality(StopsAt(q)) + 1
    BY <2>2, <2>3, FS_AddElement
  <2> QED
    BY <2>1, <2>4 DEF StopCount
<1>10. ~Holds(q, "Stop") => StopLast(r)
  BY <1>1, <1>2, <1>4 DEF Holds, StopLast
<1> QED
  BY <1>1, <1>3, <1>5, <1>6, <1>7, <1>8, <1>9, <1>10 DEF r

\* What taking the first signal from a queue removes.
LEMMA HeadTailFacts ==
  ASSUME NEW q \in Seq(Signal), q # <<>>
  PROVE  /\ Head(q) \in Signal /\ Tail(q) \in Seq(Signal) /\ Len(Tail(q)) = Len(q) - 1
         /\ \A k : Holds(q, k) <=> Head(q).kind = k \/ Holds(Tail(q), k)
         /\ \A i : Carries(q, i) => i \in Head(q).completes \/ Carries(Tail(q), i)
         /\ \A i : CarriesBeforeStop(q, i) => i \in Head(q).completes \/ CarriesBeforeStop(Tail(q), i)
         /\ ErrorBeforeStop(q) => Head(q).kind = "Error" \/ ErrorBeforeStop(Tail(q))
         /\ StopCount(q) = IF Head(q).kind = "Stop" THEN StopCount(Tail(q)) + 1 ELSE StopCount(Tail(q))
         /\ StopLast(q) => StopLast(Tail(q))
         /\ StopLast(q) /\ Head(q).kind = "Stop" => Tail(q) = <<>>
<1> DEFINE r == Tail(q)
<1>1. /\ r \in Seq(Signal) /\ Len(r) = Len(q) - 1 /\ Len(q) \in Nat /\ Len(q) >= 1
      /\ Head(q) = q[1] /\ q[1] \in Signal
  OBVIOUS
<1>2. \A k \in 1..Len(r) : r[k] = q[k + 1]
  OBVIOUS
<1>3. Len(r) = 0 => r = <<>>
  BY <1>1, EmptySeq
<1> HIDE DEF r
<1>4. /\ \A k \in 1..Len(q) : k = 1 \/ (k - 1 \in 1..Len(r) /\ q[k] = r[k - 1])
      /\ \A k \in 1..Len(r) : k + 1 \in 1..Len(q)
      /\ 1 \in 1..Len(q)
  BY <1>1, <1>2
<1>5. \A k : Holds(q, k) <=> q[1].kind = k \/ Holds(r, k)
  BY <1>1, <1>2, <1>4 DEF Holds
<1>6. \A i : Carries(q, i) => i \in q[1].completes \/ Carries(r, i)
  BY <1>4 DEF Carries
<1>7. ASSUME NEW i, CarriesBeforeStop(q, i) PROVE i \in q[1].completes \/ CarriesBeforeStop(r, i)
  <2>1. PICK k, j \in 1..Len(q) : k < j /\ i \in q[k].completes /\ q[j].kind = "Stop"
    BY <1>7 DEF CarriesBeforeStop
  <2>2. CASE k # 1
    <3>1. k - 1 \in 1..Len(r) /\ j - 1 \in 1..Len(r) /\ k - 1 < j - 1 /\ q[k] = r[k - 1] /\ q[j] = r[j - 1]
      BY <1>1, <1>4, <2>1, <2>2
    <3> QED
      BY <2>1, <3>1 DEF CarriesBeforeStop
  <2> QED
    BY <2>1, <2>2
<1>8. ASSUME ErrorBeforeStop(q) PROVE q[1].kind = "Error" \/ ErrorBeforeStop(r)
  <2>1. PICK k, j \in 1..Len(q) : k < j /\ q[k].kind = "Error" /\ q[j].kind = "Stop"
    BY <1>8 DEF ErrorBeforeStop
  <2>2. CASE k # 1
    <3>1. k - 1 \in 1..Len(r) /\ j - 1 \in 1..Len(r) /\ k - 1 < j - 1 /\ q[k] = r[k - 1] /\ q[j] = r[j - 1]
      BY <1>1, <1>4, <2>1, <2>2
    <3> QED
      BY <2>1, <3>1 DEF ErrorBeforeStop
  <2> QED
    BY <2>1, <2>2
<1>9. StopCount(q) = IF q[1].kind = "Stop" THEN StopCount(r) + 1 ELSE StopCount(r)
  <2> DEFINE f == [k \in StopsAt(r) |-> k + 1]
             T == StopsAt(q) \ {1}
  <2>1. f \in [StopsAt(r) -> T]
    BY <1>1, <1>2, <1>4 DEF StopsAt
  <2>2. \A a, b \in StopsAt(r) : f[a] = f[b] => a = b
    BY <1>1 DEF StopsAt
  <2>3. ASSUME NEW k \in T PROVE \E a \in StopsAt(r) : f[a] = k
    <3>1. k - 1 \in StopsAt(r) /\ k - 1 + 1 = k
      BY <1>1, <1>4 DEF StopsAt
    <3> QED
      BY <3>1
  <2>4. f \in Bijection(StopsAt(r), T)
    BY <2>1, <2>2, <2>3 DEF Bijection, Injection, Surjection, IsInjective
  <2>5. ExistsBijection(StopsAt(r), T)
    BY <2>4 DEF ExistsBijection
  <2>6. IsFiniteSet(StopsAt(r)) /\ IsFiniteSet(StopsAt(q)) /\ StopCount(q) \in Nat
    BY <1>1, StopCountType
  <2>7. Cardinality(T) = Cardinality(StopsAt(r))
    BY <2>5, <2>6, FS_Bijection
  <2>8. Cardinality(T) = IF 1 \in StopsAt(q) THEN Cardinality(StopsAt(q)) - 1 ELSE Cardinality(StopsAt(q))
    BY <2>6, FS_RemoveElement
  <2>9. 1 \in StopsAt(q) <=> q[1].kind = "Stop"
    BY <1>4 DEF StopsAt
  <2> QED
    BY <2>6, <2>7, <2>8, <2>9 DEF StopCount
<1>10. (StopLast(q) => StopLast(r)) /\ (StopLast(q) /\ q[1].kind = "Stop" => r = <<>>)
  BY <1>1, <1>2, <1>3, <1>4 DEF StopLast
<1> QED
  BY <1>1, <1>5, <1>6, <1>7, <1>8, <1>9, <1>10 DEF r

\* A Stop or an Error completes no input.
LEMMA ControlCompletesNone ==
  ASSUME NEW m \in Signal, m.kind # "Data"
  PROVE  m.completes = {}
BY DEF Signal

\* What the resolver sends at the end of an operation.
LEMMA ControlFacts ==
  /\ <<Error>> \in Seq(Signal) /\ <<Stop>> \in Seq(Signal) /\ <<Error, Stop>> \in Seq(Signal)
  /\ <<Error>> # <<>> /\ <<Stop>> # <<>> /\ <<Error, Stop>> # <<>>
  /\ StopLast(<<Error>>) /\ StopLast(<<Stop>>) /\ StopLast(<<Error, Stop>>)
  /\ Holds(<<Error>>, "Error") /\ ~Holds(<<Error>>, "Stop") /\ Holds(<<Error, Stop>>, "Error")
  /\ Holds(<<Stop>>, "Stop") /\ ~Holds(<<Stop>>, "Error")
<1> USE SignalFacts
<1>1. <<Error>> \in Seq(Signal) /\ <<Stop>> \in Seq(Signal) /\ <<Error, Stop>> \in Seq(Signal)
  OBVIOUS
<1>2. /\ Len(<<Error>>) = 1 /\ <<Error>>[1] = Error /\ Len(<<Stop>>) = 1 /\ <<Stop>>[1] = Stop
      /\ Len(<<Error, Stop>>) = 2 /\ <<Error, Stop>>[1] = Error /\ <<Error, Stop>>[2] = Stop
  OBVIOUS
<1>3. <<Error>> # <<>> /\ <<Stop>> # <<>> /\ <<Error, Stop>> # <<>>
  OBVIOUS
<1>4. StopLast(<<Error>>) /\ Holds(<<Error>>, "Error") /\ ~Holds(<<Error>>, "Stop")
  BY <1>2 DEF StopLast, Holds
<1>5. StopLast(<<Stop>>) /\ Holds(<<Stop>>, "Stop") /\ ~Holds(<<Stop>>, "Error")
  BY <1>2 DEF StopLast, Holds
<1>6. StopLast(<<Error, Stop>>) /\ Holds(<<Error, Stop>>, "Error")
  BY <1>2 DEF StopLast, Holds
<1> QED
  BY <1>1, <1>3, <1>4, <1>5, <1>6

-----------------------------------------------------------------------------
\* Types.

\* The number of inputs.
LEMMA InputCount == Cardinality(Inputs) \in Nat \ {0}
BY InputAssumption, FS_CardinalityType, FS_EmptySet

\* A lane handing something over keeps the types.
LEMMA HandOverTyped ==
  ASSUME TypeOK, NEW i \in Inputs, NEW m \in Signal, NEW l \in LaneState, HandOver(i, m, l)
  PROVE  TypeOK'
<1>1. Append(intake, m) \in Seq(Signal) /\ Len(Append(intake, m)) = Len(intake) + 1 /\ Len(intake) \in Nat
  BY AppendFacts DEF TypeOK
<1>2. intake' \in Seq(Signal) /\ Len(intake') <= Capacity
  BY <1>1, InputAssumption DEF HandOver, HasRoom
<1> QED
  BY <1>2 DEF HandOver, resolverVars, TypeOK

\* Every step keeps the types and the bound of the intake.
LEMMA TypeStep ==
  ASSUME TypeOK, [Next]_vars
  PROVE  TypeOK'
<1>1. ASSUME NEW i \in Inputs, LaneStep(i) PROVE TypeOK'
  <2>1. CASE LaneData(i)
    <3>1. PICK l \in LaneState : HandOver(i, Data(IF l.complete /\ ~lane[i].complete THEN {i} ELSE {}), l)
      BY <2>1 DEF LaneData
    <3>2. Data(IF l.complete /\ ~lane[i].complete THEN {i} ELSE {}) \in Signal
      BY SignalFacts
    <3> QED
      BY <3>1, <3>2, HandOverTyped
  <2>2. CASE LaneError(i) \/ LaneOwed(i) \/ LaneStop(i)
    BY <2>2, SignalFacts, HandOverTyped DEF LaneError, LaneOwed, LaneStop
  <2>3. CASE LaneSkips(i) \/ LaneFailsProfiling(i) \/ LaneGivesUp(i)
    BY <2>3 DEF LaneSkips, LaneFailsProfiling, LaneGivesUp, resolverVars, TypeOK
  <2> QED
    BY <1>1, <2>1, <2>2, <2>3 DEF LaneStep
<1>2. ASSUME intake # <<>> PROVE Tail(intake) \in Seq(Signal) /\ Len(Tail(intake)) <= Capacity /\ Head(intake) \in Signal
  <2>1. intake \in Seq(Signal) /\ Len(intake) <= Capacity /\ Len(intake) \in Nat
    BY DEF TypeOK
  <2>2. Tail(intake) \in Seq(Signal) /\ Len(Tail(intake)) = Len(intake) - 1 /\ Head(intake) \in Signal
    BY <1>2, <2>1, HeadTailFacts
  <2> QED
    BY <2>1, <2>2, InputAssumption
<1>3. CASE RecvCancelled \/ ResolveFails \/ RecvError
  BY <1>2, <1>3, ControlFacts DEF RecvCancelled, ResolveFails, RecvError, Receive, TypeOK
<1>4. CASE Resolve
  <2>1. Head(intake).completes \in SUBSET Inputs
    BY <1>2, <1>4 DEF Resolve, Receive, Signal
  <2> QED
    BY <1>2, <1>4, <2>1 DEF Resolve, Receive, TypeOK
<1>5. CASE RecvStop
  <2>1. stops' \in 0..Cardinality(Inputs)
    BY <1>5, InputCount DEF RecvStop, TypeOK
  <2> QED
    BY <1>2, <1>5, <2>1, ControlFacts DEF RecvStop, Receive, TypeOK
<1>6. CASE Report
  <2>1. out \in Seq(Signal) /\ completion \in Seq(Signal) /\ out # <<>>
    BY <1>6 DEF Report, TypeOK
  <2>2. Head(out) \in Signal /\ Tail(out) \in Seq(Signal)
    BY <2>1, HeadTailFacts
  <2>3. Append(completion, Head(out)) \in Seq(Signal)
    BY <2>1, <2>2, AppendFacts
  <2> QED
    BY <1>6, <2>2, <2>3 DEF Report, TypeOK
<1>7. CASE Close
  BY <1>7, EmptyFacts, InputAssumption DEF Close, TypeOK
<1>8. CASE DrainSignal
  <2>1. Tail(completion) \in Seq(Signal)
    BY <1>8, HeadTailFacts DEF DrainSignal, TypeOK
  <2> QED
    BY <1>8, <2>1 DEF DrainSignal, TypeOK
<1>9. CASE Cancel
  BY <1>9 DEF Cancel, resolverVars, TypeOK
<1>10. CASE UNCHANGED vars
  BY <1>10 DEF vars, resolverVars, TypeOK
<1> QED
  BY <1>1, <1>3, <1>4, <1>5, <1>6, <1>7, <1>8, <1>9, <1>10 DEF Next, ResolverStep

-----------------------------------------------------------------------------
\* The invariant.

\* A failure the resolver knows of is on its way to drain_completion, or arrived.
ErrorOut == Holds(out, "Error") \/ Holds(completion, "Error") \/ result = "Err"

\* The resolver's Stop is the last it sends, and Ok means that it was read.
StreamEnds ==
  /\ StopLast(completion) /\ StopLast(out)
  /\ Holds(completion, "Stop") => pc # "run" /\ out = <<>>
  /\ Holds(out, "Stop") => pc = "closing"
  /\ pc = "done" => out = <<>>
  /\ result = "Ok" => pc # "run" /\ out = <<>> /\ completion = <<>>

\* What lane i has handed over is stored or waits in the intake, before its Stop if it
\* has stopped; and it has stopped only with everything handed over, or with a failure.
Accounted(i) ==
  /\ lane[i].status # "gone"
  /\ lane[i].owes => i \in unprofiled
  /\ lane[i].complete => i \in stored \cup skipped \/ Carries(intake, i)
  /\ lane[i].complete /\ lane[i].status = "stopped" =>
       i \in stored \cup skipped \/ CarriesBeforeStop(intake, i)
  /\ lane[i].failed => ErrorOut \/ Holds(intake, "Error")
  /\ lane[i].failed /\ lane[i].status = "stopped" =>
       cancel \/ i \in unprofiled \/ ErrorOut \/ ErrorBeforeStop(intake)
  /\ lane[i].status = "stopped" => lane[i].complete \/ lane[i].failed \/ i \in unprofiled \/ cancel

\* The resolver still expects one Stop for each lane that has not stopped, and for
\* each Stop in the intake.
Stopped == {i \in Inputs : lane[i].status = "stopped"}
StopsCounted == stops > 0 /\ Cardinality(Stopped) + stops = Cardinality(Inputs) + StopCount(intake)

LanesAccounted == pc = "run" => StopsCounted /\ \A i \in Inputs : Accounted(i)

\* A resolver that left its loop has stored everything or has a failure to report,
\* unless the run was cancelled or a profiler failed.
ResolverAccounted ==
  pc # "run" /\ ~cancel /\ unprofiled = {} => ErrorOut \/ Inputs \subseteq stored \cup skipped

IInv == TypeOK /\ StreamEnds /\ LanesAccounted /\ ResolverAccounted

-----------------------------------------------------------------------------
\* Lanes.

\* What a step of any lane leaves alone.
LaneFrame(i, l) ==
  /\ lane' = [lane EXCEPT ![i] = l]
  /\ UNCHANGED <<cancel, pc, stops, out, completion, result, stored>>
  /\ skipped \subseteq skipped' /\ unprofiled \subseteq unprofiled'

\* Lane i does not disturb the account of the others.
LEMMA OtherLanes ==
  ASSUME TypeOK, NEW i \in Inputs, NEW j \in Inputs, i # j, NEW l \in LaneState, LaneFrame(i, l),
         intake' = intake \/ \E m \in Signal : intake' = Append(intake, m), Accounted(j)
  PROVE  Accounted(j)'
<1>1. lane'[j] = lane[j]
  BY DEF LaneFrame, TypeOK
<1>2. /\ Carries(intake, j) => Carries(intake', j)
      /\ CarriesBeforeStop(intake, j) => CarriesBeforeStop(intake', j)
      /\ Holds(intake, "Error") => Holds(intake', "Error")
      /\ ErrorBeforeStop(intake) => ErrorBeforeStop(intake')
  <2>1. CASE intake' = intake
    BY <2>1
  <2>2. ASSUME NEW m \in Signal, intake' = Append(intake, m)
        PROVE  /\ Carries(intake, j) => Carries(intake', j)
               /\ CarriesBeforeStop(intake, j) => CarriesBeforeStop(intake', j)
               /\ Holds(intake, "Error") => Holds(intake', "Error")
               /\ ErrorBeforeStop(intake) => ErrorBeforeStop(intake')
    BY <2>2, AppendFacts DEF TypeOK
  <2> QED
    BY <2>1, <2>2
<1>3. ErrorOut' = ErrorOut
  BY DEF LaneFrame, ErrorOut
<1>4. j \in stored \cup skipped => (j \in stored \cup skipped)'
  BY DEF LaneFrame
<1>5. (j \in unprofiled => j \in unprofiled') /\ cancel' = cancel
  BY DEF LaneFrame
<1> HIDE DEF LaneFrame
<1> QED
  BY <1>1, <1>2, <1>3, <1>4, <1>5 DEF Accounted

\* The rest of the invariant does not depend on the lanes.
LEMMA LaneKeeps ==
  ASSUME IInv, NEW i \in Inputs, NEW l \in LaneState, LaneFrame(i, l), TypeOK',
         intake' = intake \/ \E m \in Signal : intake' = Append(intake, m),
         pc = "run" => Accounted(i)' /\ StopsCounted'
  PROVE  IInv'
<1>1. StreamEnds'
  BY DEF IInv, StreamEnds, LaneFrame
<1>2. ResolverAccounted'
  BY DEF IInv, ResolverAccounted, LaneFrame, ErrorOut
<1>3. LanesAccounted'
  <2> SUFFICES ASSUME pc' = "run" PROVE StopsCounted' /\ \A j \in Inputs : Accounted(j)'
    BY DEF LanesAccounted
  <2>1. pc = "run"
    BY DEF LaneFrame
  <2>2. ASSUME NEW j \in Inputs, i # j PROVE Accounted(j)'
    BY <2>1, <2>2, OtherLanes DEF IInv, LanesAccounted
  <2> QED
    BY <2>1, <2>2
<1> QED
  BY <1>1, <1>2, <1>3 DEF IInv

\* A step after which lane i has the status it had, and no Stop was handed over.
LEMMA CountKept ==
  ASSUME TypeOK, StopsCounted, NEW i \in Inputs, NEW l \in LaneState, LaneFrame(i, l),
         l.status = lane[i].status,
         intake' = intake \/ \E m \in Signal : m.kind # "Stop" /\ intake' = Append(intake, m)
  PROVE  StopsCounted'
<1>1. Stopped' = Stopped
  BY DEF Stopped, LaneFrame, TypeOK
<1>2. StopCount(intake') = StopCount(intake)
  BY AppendFacts DEF TypeOK
<1> QED
  BY <1>1, <1>2 DEF StopsCounted, LaneFrame

\* Lane i hands over its Stop.
LEMMA CountStop ==
  ASSUME TypeOK, StopsCounted, NEW i \in Inputs, NEW l \in LaneState, LaneFrame(i, l),
         lane[i].status # "stopped", l.status = "stopped", intake' = Append(intake, Stop)
  PROVE  StopsCounted'
<1>1. Stopped' = Stopped \cup {i} /\ i \notin Stopped
  BY DEF Stopped, LaneFrame, TypeOK
<1>2. IsFiniteSet(Stopped) /\ Cardinality(Stopped) \in Nat
  BY InputAssumption, FS_Subset, FS_CardinalityType DEF Stopped
<1>3. Cardinality(Stopped') = Cardinality(Stopped) + 1
  BY <1>1, <1>2, FS_AddElement
<1>4. StopCount(intake') = StopCount(intake) + 1 /\ StopCount(intake) \in Nat
  <2>1. intake \in Seq(Signal) /\ Stop \in Signal /\ Stop.kind = "Stop"
    BY SignalFacts DEF TypeOK
  <2>2. StopCount(Append(intake, Stop)) = StopCount(intake) + 1
    BY <2>1, AppendFacts
  <2> QED
    BY <2>1, <2>2, StopCountType
<1>5. stops \in Nat /\ Cardinality(Inputs) \in Nat /\ stops' = stops
  BY InputCount DEF LaneFrame, TypeOK
<1> DEFINE c == Cardinality(Stopped)
           n == Cardinality(Inputs)
           k == StopCount(intake)
<1>6. c \in Nat /\ n \in Nat /\ k \in Nat /\ stops > 0 /\ c + stops = n + k
  BY <1>2, <1>4, <1>5 DEF StopsCounted
<1>7. Cardinality(Stopped') = c + 1 /\ StopCount(intake') = k + 1
  BY <1>3, <1>4
<1> HIDE DEF c, n, k
<1>8. (c + 1) + stops = n + (k + 1)
  BY <1>5, <1>6
<1> QED
  BY <1>5, <1>6, <1>7, <1>8 DEF StopsCounted, n

\* Every step of a lane.
LEMMA LaneStepKeeps ==
  ASSUME IInv, TypeOK', NEW i \in Inputs, LaneStep(i)
  PROVE  IInv'
<1>1. TypeOK /\ lane[i] \in LaneState /\ intake \in Seq(Signal)
  BY DEF IInv, TypeOK
<1>2. pc = "run" => Accounted(i) /\ StopsCounted
  BY DEF IInv, LanesAccounted
<1>3. ASSUME NEW m \in Signal, NEW l \in LaneState, HandOver(i, m, l)
      PROVE  /\ LaneFrame(i, l) /\ lane'[i] = l /\ intake' = Append(intake, m) /\ ErrorOut' = ErrorOut
             /\ UNCHANGED <<cancel, stored, skipped, unprofiled>>
             /\ \A k : Holds(intake', k) <=> Holds(intake, k) \/ m.kind = k
             /\ Carries(intake', i) <=> Carries(intake, i) \/ i \in m.completes
             /\ CarriesBeforeStop(intake, i) \/ (m.kind = "Stop" /\ Carries(intake, i)) =>
                  CarriesBeforeStop(intake', i)
             /\ ErrorBeforeStop(intake) \/ (m.kind = "Stop" /\ Holds(intake, "Error")) =>
                  ErrorBeforeStop(intake')
  <2>1. LaneFrame(i, l) /\ intake' = Append(intake, m) /\ UNCHANGED <<cancel, stored, skipped, unprofiled>>
    BY <1>3 DEF HandOver, resolverVars, LaneFrame
  <2>2. lane'[i] = l /\ ErrorOut' = ErrorOut
    BY <1>1, <2>1 DEF LaneFrame, TypeOK, ErrorOut
  <2> QED
    BY <1>1, <2>1, <2>2, AppendFacts
<1>4. CASE LaneData(i)
  <2> DEFINE m(l) == Data(IF l.complete /\ ~lane[i].complete THEN {i} ELSE {})
  <2>1. PICK l \in LaneState : HandsOverData(lane[i], l) /\ HandOver(i, m(l), l)
    BY <1>4 DEF LaneData
  <2>2. /\ m(l) \in Signal /\ m(l).kind = "Data"
        /\ l.complete /\ ~lane[i].complete => i \in m(l).completes
    BY SignalFacts
  <2>3. /\ l.status = "open" /\ lane[i].status = "open" /\ l.owes = lane[i].owes /\ l.failed = lane[i].failed
    BY <1>1, <2>1 DEF HandsOverData, LaneState
  <2> HIDE DEF m
  <2>4. LaneFrame(i, l) /\ intake' = Append(intake, m(l))
    BY <1>3, <2>1, <2>2
  <2>5. pc = "run" => Accounted(i)'
    BY <1>2, <1>3, <2>1, <2>2, <2>3 DEF Accounted
  <2>6. pc = "run" => StopsCounted'
    BY <1>1, <1>2, <2>2, <2>3, <2>4, CountKept
  <2> QED
    BY <2>2, <2>4, <2>5, <2>6, LaneKeeps
<1>5. CASE LaneError(i)
  <2>1. PICK l \in LaneState : HandsOverError(lane[i], l, cancel) /\ HandOver(i, Error, l)
    BY <1>5 DEF LaneError
  <2>2. /\ l.status = lane[i].status /\ l.owes = lane[i].owes /\ l.failed /\ l.complete = lane[i].complete
        /\ lane[i].status = "open" \/ cancel \/ lane[i].failed \/ lane[i].owes
    BY <1>1, <2>1 DEF HandsOverError, LaneState
  <2>3. Error \in Signal /\ Error.kind = "Error"
    BY SignalFacts
  <2>4. LaneFrame(i, l) /\ intake' = Append(intake, Error)
    BY <1>3, <2>1, <2>3
  <2>5. pc = "run" => Accounted(i)'
    BY <1>2, <1>3, <2>1, <2>2, <2>3 DEF Accounted
  <2>6. pc = "run" => StopsCounted'
    BY <1>1, <1>2, <2>2, <2>3, <2>4, CountKept
  <2> QED
    BY <2>3, <2>4, <2>5, <2>6, LaneKeeps
<1>6. CASE LaneOwed(i)
  <2>1. PICK l \in LaneState : HandsOverOwed(lane[i], l) /\ HandOver(i, Error, l)
    BY <1>6 DEF LaneOwed
  <2>2. /\ l.status = lane[i].status /\ ~l.owes /\ l.failed /\ l.complete = lane[i].complete /\ lane[i].owes
    BY <1>1, <2>1 DEF HandsOverOwed, LaneState
  <2>3. Error \in Signal /\ Error.kind = "Error"
    BY SignalFacts
  <2>4. LaneFrame(i, l) /\ intake' = Append(intake, Error)
    BY <1>3, <2>1, <2>3
  <2>5. pc = "run" => Accounted(i)'
    BY <1>2, <1>3, <2>1, <2>2, <2>3 DEF Accounted
  <2>6. pc = "run" => StopsCounted'
    BY <1>1, <1>2, <2>2, <2>3, <2>4, CountKept
  <2> QED
    BY <2>3, <2>4, <2>5, <2>6, LaneKeeps
<1>7. CASE LaneStop(i)
  <2>1. PICK l \in LaneState : HandsOverStop(lane[i], l, cancel) /\ HandOver(i, Stop, l)
    BY <1>7 DEF LaneStop
  <2>2. /\ lane[i].status = "open" /\ l.status = "stopped"
        /\ l.owes = lane[i].owes /\ l.failed = lane[i].failed /\ l.complete = lane[i].complete
        /\ lane[i].complete \/ lane[i].failed \/ lane[i].owes \/ cancel
    BY <1>1, <2>1 DEF HandsOverStop, LaneState
  <2>3. Stop \in Signal /\ Stop.kind = "Stop"
    BY SignalFacts
  <2>4. LaneFrame(i, l) /\ intake' = Append(intake, Stop)
    BY <1>3, <2>1, <2>3
  <2>5. pc = "run" => Accounted(i)'
    BY <1>2, <1>3, <2>1, <2>2, <2>3 DEF Accounted
  <2>6. pc = "run" => StopsCounted'
    BY <1>1, <1>2, <2>2, <2>4, CountStop
  <2> QED
    BY <2>3, <2>4, <2>5, <2>6, LaneKeeps
<1>8. CASE LaneSkips(i)
  <2>1. PICK l \in LaneState : SkipsRest(lane[i], l) /\ lane' = [lane EXCEPT ![i] = l]
    BY <1>8 DEF LaneSkips
  <2>2. /\ l.status = "open" /\ lane[i].status = "open" /\ l.owes = lane[i].owes /\ l.failed = lane[i].failed
    BY <1>1, <2>1 DEF SkipsRest, LaneState
  <2>3. /\ LaneFrame(i, l) /\ lane'[i] = l /\ ErrorOut' = ErrorOut
        /\ UNCHANGED <<cancel, intake, stored, unprofiled>> /\ i \in skipped'
    BY <1>1, <1>8, <2>1 DEF LaneSkips, LaneFrame, resolverVars, ErrorOut, TypeOK
  <2>4. pc = "run" => Accounted(i)'
    BY <1>2, <2>2, <2>3 DEF Accounted
  <2>5. pc = "run" => StopsCounted'
    BY <1>1, <1>2, <2>2, <2>3, CountKept
  <2> QED
    BY <2>3, <2>4, <2>5, LaneKeeps
<1>9. CASE LaneFailsProfiling(i)
  <2>1. PICK l \in LaneState : FailsProfiling(lane[i], l) /\ lane' = [lane EXCEPT ![i] = l]
    BY <1>9 DEF LaneFailsProfiling
  <2>2. /\ l.status = lane[i].status /\ l.failed = lane[i].failed /\ l.complete = lane[i].complete
    BY <1>1, <2>1 DEF FailsProfiling, LaneState
  <2>3. /\ LaneFrame(i, l) /\ lane'[i] = l /\ ErrorOut' = ErrorOut
        /\ UNCHANGED <<cancel, intake, stored, skipped>> /\ i \in unprofiled'
    BY <1>1, <1>9, <2>1 DEF LaneFailsProfiling, LaneFrame, resolverVars, ErrorOut, TypeOK
  <2>4. pc = "run" => Accounted(i)'
    BY <1>2, <2>2, <2>3 DEF Accounted
  <2>5. pc = "run" => StopsCounted'
    BY <1>1, <1>2, <2>2, <2>3, CountKept
  <2> QED
    BY <2>3, <2>4, <2>5, LaneKeeps
<1>10. CASE LaneGivesUp(i)
  <2>1. PICK l \in LaneState : lane' = [lane EXCEPT ![i] = l]
    BY <1>10 DEF LaneGivesUp
  <2>2. LaneFrame(i, l) /\ intake' = intake /\ pc = "done"
    BY <1>10, <2>1 DEF LaneGivesUp, LaneFrame, resolverVars
  <2> QED
    BY <2>2, LaneKeeps
<1> QED
  BY <1>4, <1>5, <1>6, <1>7, <1>8, <1>9, <1>10 DEF LaneStep

-----------------------------------------------------------------------------
\* The resolver.

\* What the resolver's loop leaves alone when it takes a signal.
Takes(kind) ==
  /\ pc = "run" /\ out = <<>> /\ intake # <<>> /\ Head(intake).kind = kind /\ intake' = Tail(intake)
  /\ UNCHANGED <<cancel, lane, completion, result, skipped, unprofiled>>

\* An operation of the resolver's loop keeps the order of what it sends.
LEMMA StreamStays ==
  ASSUME StreamEnds, pc = "run", out = <<>>, completion' = completion, result' = result,
         StopLast(out'), Holds(out', "Stop") => pc' = "closing", pc' = "done" => out' = <<>>
  PROVE  StreamEnds'
BY DEF StreamEnds

\* A resolver that goes on keeps the account of every lane, if it stores what it took
\* or passes the error on.
LEMMA TakeKeeps ==
  ASSUME TypeOK, NEW kind, Takes(kind), NEW i \in Inputs, Accounted(i), stored \subseteq stored',
         ErrorOut => ErrorOut', kind = "Error" => ErrorOut', Head(intake).completes \subseteq stored'
  PROVE  Accounted(i)'
<1>1. intake \in Seq(Signal) /\ intake # <<>> /\ intake' = Tail(intake) /\ Head(intake).kind = kind
  BY DEF TypeOK, Takes
<1>2. /\ Carries(intake, i) => i \in stored' \/ Carries(intake', i)
      /\ CarriesBeforeStop(intake, i) => i \in stored' \/ CarriesBeforeStop(intake', i)
      /\ Holds(intake, "Error") => kind = "Error" \/ Holds(intake', "Error")
      /\ ErrorBeforeStop(intake) => kind = "Error" \/ ErrorBeforeStop(intake')
  BY <1>1, HeadTailFacts
<1>3. UNCHANGED <<cancel, lane, skipped, unprofiled>>
  BY DEF Takes
<1> QED
  BY <1>2, <1>3 DEF Accounted

\* A signal other than Stop leaves the count alone.
LEMMA TakeCounts ==
  ASSUME TypeOK, NEW kind, Takes(kind), StopsCounted
  PROVE  /\ kind # "Stop" /\ stops' = stops => StopsCounted'
         /\ kind = "Stop" /\ stops' = stops - 1 /\ stops' # 0 => StopsCounted'
<1>1. intake \in Seq(Signal) /\ intake # <<>> /\ intake' = Tail(intake) /\ Head(intake).kind = kind
  BY DEF TypeOK, Takes
<1>2. /\ StopCount(intake) = IF kind = "Stop" THEN StopCount(intake') + 1 ELSE StopCount(intake')
      /\ intake' \in Seq(Signal)
  BY <1>1, HeadTailFacts
<1>3. StopCount(intake') \in Nat
  BY <1>2, StopCountType
<1>4. Stopped' = Stopped /\ stops \in Nat /\ Cardinality(Inputs) \in Nat /\ Cardinality(Stopped) \in Nat
  <2>1. IsFiniteSet(Stopped)
    BY InputAssumption, FS_Subset DEF Stopped
  <2> QED
    BY <2>1, InputCount, FS_CardinalityType DEF Stopped, Takes, TypeOK
<1> DEFINE c == Cardinality(Stopped)
           n == Cardinality(Inputs)
           k == StopCount(intake')
<1>5. c \in Nat /\ n \in Nat /\ k \in Nat /\ stops > 0 /\ c + stops = n + StopCount(intake)
  BY <1>3, <1>4 DEF StopsCounted
<1>6. Cardinality(Stopped') = c /\ StopCount(intake) = IF kind = "Stop" THEN k + 1 ELSE k
  BY <1>2, <1>4
<1> HIDE DEF c, n, k
<1>7. CASE kind # "Stop"
  BY <1>5, <1>6, <1>7 DEF StopsCounted, n, k
<1>8. CASE kind = "Stop"
  <2>1. c + (stops - 1) = n + k /\ stops - 1 \in Nat
    BY <1>4, <1>5, <1>6, <1>8
  <2>2. stops - 1 # 0 => stops - 1 > 0
    <3>1. stops \in Nat /\ stops > 0
      BY <1>4, <1>5
    <3> QED
      BY <3>1
  <2> QED
    <3> SUFFICES ASSUME stops' = stops - 1, stops' # 0
                 PROVE  stops' > 0 /\ Cardinality(Stopped') + stops' = Cardinality(Inputs) + StopCount(intake')
      BY <1>8 DEF StopsCounted
    <3>1. stops' > 0 /\ c + stops' = n + k
      BY <2>1, <2>2
    <3> QED
      BY <1>6, <3>1 DEF n, k
<1> QED
  BY <1>7, <1>8

\* The last expected Stop: every lane has stopped, and nothing of theirs is left behind it.
LEMMA LastStop ==
  ASSUME TypeOK, Takes("Stop"), StopsCounted, stops = 1, ~cancel, unprofiled = {},
         \A i \in Inputs : Accounted(i)
  PROVE  ErrorOut \/ Inputs \subseteq stored \cup skipped
<1>1. intake \in Seq(Signal) /\ intake # <<>> /\ Head(intake).kind = "Stop"
  BY DEF TypeOK, Takes
<1>2. /\ StopCount(intake) = StopCount(Tail(intake)) + 1 /\ Tail(intake) \in Seq(Signal)
      /\ Head(intake) \in Signal
  BY <1>1, HeadTailFacts
<1>3. StopCount(Tail(intake)) \in Nat /\ (StopCount(Tail(intake)) = 0 <=> ~Holds(Tail(intake), "Stop"))
  BY <1>2, StopCountType
<1>4. /\ Cardinality(Stopped) <= Cardinality(Inputs) /\ Cardinality(Stopped) \in Nat
      /\ Cardinality(Inputs) = Cardinality(Stopped) => Inputs = Stopped
  <2>1. Stopped \in SUBSET Inputs /\ IsFiniteSet(Inputs)
    BY InputAssumption DEF Stopped
  <2> QED
    BY <2>1, FS_Subset, FS_CardinalityType
<1>5. Cardinality(Inputs) \in Nat /\ Cardinality(Stopped) + 1 = Cardinality(Inputs) + StopCount(intake)
  BY InputCount DEF StopsCounted
<1>6. StopCount(Tail(intake)) = 0 /\ Cardinality(Inputs) = Cardinality(Stopped)
  BY <1>2, <1>3, <1>4, <1>5
<1>7. Inputs = Stopped /\ ~Holds(Tail(intake), "Stop")
  BY <1>3, <1>4, <1>6
<1>8. Head(intake).completes = {}
  BY <1>1, <1>2, ControlCompletesNone
<1>9. ASSUME NEW i \in Inputs PROVE ~CarriesBeforeStop(intake, i)
  <2>1. ~CarriesBeforeStop(Tail(intake), i)
    BY <1>7 DEF CarriesBeforeStop, Holds
  <2> QED
    BY <1>1, <1>8, <2>1, HeadTailFacts
<1>10. ~ErrorBeforeStop(intake)
  <2>1. ~ErrorBeforeStop(Tail(intake))
    BY <1>7 DEF ErrorBeforeStop, Holds
  <2> QED
    BY <1>1, <2>1, HeadTailFacts
<1>11. ASSUME NEW i \in Inputs PROVE ErrorOut \/ i \in stored \cup skipped
  <2>1. lane[i].status = "stopped"
    BY <1>7 DEF Stopped
  <2> QED
    BY <1>9, <1>10, <2>1 DEF Accounted
<1> QED
  BY <1>11

\* Every step of the resolver.
LEMMA ResolverStepKeeps ==
  ASSUME IInv, TypeOK', ResolverStep
  PROVE  IInv'
<1>1. TypeOK /\ StreamEnds /\ ResolverAccounted
  BY DEF IInv
<1>2. pc = "run" => StopsCounted /\ \A i \in Inputs : Accounted(i)
  BY DEF IInv, LanesAccounted
<1>3. CASE RecvCancelled
  <2>1. pc = "run" /\ out = <<>> /\ UNCHANGED <<completion, result>> /\ pc' = "closing" /\ out' = <<Stop>> /\ cancel'
    BY <1>3 DEF RecvCancelled, Receive
  <2>2. StreamEnds'
    BY <1>1, <2>1, ControlFacts, StreamStays
  <2> QED
    BY <2>1, <2>2 DEF IInv, LanesAccounted, ResolverAccounted
<1>4. CASE Resolve
  <2>1. /\ Takes("Data") /\ UNCHANGED <<pc, stops, out>> /\ stored' = stored \cup Head(intake).completes
    BY <1>4 DEF Resolve, Receive, Takes
  <2>2. pc = "run" /\ out = <<>> /\ UNCHANGED <<completion, result>> /\ ErrorOut' = ErrorOut
    BY <2>1 DEF Takes, ErrorOut
  <2>3. StreamEnds'
    BY <1>1, <2>1, <2>2, EmptyFacts, StreamStays
  <2>4. ASSUME NEW i \in Inputs PROVE Accounted(i)'
    BY <1>1, <1>2, <2>1, <2>2, TakeKeeps
  <2>5. StopsCounted'
    BY <1>1, <1>2, <2>1, <2>2, TakeCounts
  <2> QED
    BY <2>1, <2>2, <2>3, <2>4, <2>5 DEF IInv, LanesAccounted, ResolverAccounted
<1>5. CASE ResolveFails
  <2>1. pc = "run" /\ out = <<>> /\ UNCHANGED <<completion, result>> /\ pc' = "closing" /\ out' = <<Error, Stop>>
    BY <1>5 DEF ResolveFails, Receive
  <2>2. StreamEnds'
    BY <1>1, <2>1, ControlFacts, StreamStays
  <2>3. ErrorOut'
    BY <2>1, ControlFacts DEF ErrorOut
  <2> QED
    BY <2>1, <2>2, <2>3 DEF IInv, LanesAccounted, ResolverAccounted
<1>6. CASE RecvError
  <2>1. Takes("Error") /\ UNCHANGED <<pc, stops, stored>> /\ out' = <<Error>>
    BY <1>6 DEF RecvError, Receive, Takes
  <2>2. pc = "run" /\ out = <<>> /\ UNCHANGED <<completion, result>> /\ ErrorOut'
    BY <2>1, ControlFacts DEF Takes, ErrorOut
  <2>3. StreamEnds'
    BY <1>1, <2>1, <2>2, ControlFacts, StreamStays
  <2>4. Head(intake).completes = {}
    <3>1. Head(intake) \in Signal /\ Head(intake).kind # "Data"
      BY <1>1, <2>1, HeadTailFacts DEF Takes, TypeOK
    <3> QED
      BY <3>1, ControlCompletesNone
  <2>5. ASSUME NEW i \in Inputs PROVE Accounted(i)'
    BY <1>1, <1>2, <2>1, <2>2, <2>4, TakeKeeps
  <2>6. StopsCounted'
    BY <1>1, <1>2, <2>1, <2>2, TakeCounts
  <2> QED
    BY <2>1, <2>2, <2>3, <2>5, <2>6 DEF IInv, LanesAccounted, ResolverAccounted
<1>7. CASE RecvStop
  <2>1. Takes("Stop") /\ UNCHANGED stored /\ pc = "run" /\ out = <<>> /\ UNCHANGED <<completion, result>>
    BY <1>7 DEF RecvStop, Receive, Takes
  <2>2. stops \in Nat /\ stops > 0 /\ stops' = stops - 1
    BY <1>1, <1>2, <1>7, <2>1, InputCount DEF RecvStop, StopsCounted, TypeOK
  <2>3. CASE stops' = 0
    <3>1. pc' = "closing" /\ out' = <<Stop>> /\ stops = 1
      BY <1>7, <2>2, <2>3 DEF RecvStop
    <3>2. StreamEnds'
      BY <1>1, <2>1, <3>1, ControlFacts, StreamStays
    <3>3. ErrorOut => ErrorOut'
      BY <2>1, EmptyFacts DEF ErrorOut
    <3>4. UNCHANGED <<cancel, unprofiled, stored, skipped>>
      BY <2>1 DEF Takes
    <3>5. ~cancel /\ unprofiled = {} => ErrorOut \/ Inputs \subseteq stored \cup skipped
      BY <1>1, <1>2, <2>1, <3>1, LastStop
    <3>6. ResolverAccounted'
      BY <3>3, <3>4, <3>5 DEF ResolverAccounted
    <3> QED
      BY <3>1, <3>2, <3>6 DEF IInv, LanesAccounted
  <2>4. CASE stops' # 0
    <3>1. UNCHANGED <<pc, out>>
      BY <1>7, <2>4 DEF RecvStop
    <3>2. StreamEnds'
      BY <1>1, <2>1, <3>1, EmptyFacts, StreamStays
    <3>3. ErrorOut' = ErrorOut
      BY <2>1, <3>1 DEF ErrorOut
    <3>4. Head(intake).completes = {}
      <4>1. Head(intake) \in Signal /\ Head(intake).kind # "Data"
        BY <1>1, <2>1, HeadTailFacts DEF Takes, TypeOK
      <4> QED
        BY <4>1, ControlCompletesNone
    <3>5. ASSUME NEW i \in Inputs PROVE Accounted(i)'
      BY <1>1, <1>2, <2>1, <3>3, <3>4, TakeKeeps
    <3>6. StopsCounted'
      BY <1>1, <1>2, <2>1, <2>2, <2>4, TakeCounts
    <3> QED
      BY <2>1, <3>1, <3>2, <3>5, <3>6 DEF IInv, LanesAccounted, ResolverAccounted
  <2> QED
    BY <2>3, <2>4
<1>8. CASE Report
  <2>1. /\ out # <<>> /\ out' = Tail(out) /\ out \in Seq(Signal) /\ completion \in Seq(Signal)
        /\ UNCHANGED <<cancel, lane, intake, pc, stops, result, stored, skipped, unprofiled>>
        /\ (result = "Err" /\ completion' = completion)
             \/ (result = "running" /\ completion' = Append(completion, Head(out)))
    BY <1>1, <1>8 DEF Report, StreamEnds, TypeOK
  <2>2. /\ Head(out) \in Signal /\ \A k : Holds(out, k) <=> Head(out).kind = k \/ Holds(Tail(out), k)
        /\ StopLast(out) => StopLast(Tail(out))
        /\ StopLast(out) /\ Head(out).kind = "Stop" => Tail(out) = <<>>
    BY <2>1, HeadTailFacts
  <2>3. /\ \A k : Holds(Append(completion, Head(out)), k) <=> Holds(completion, k) \/ Head(out).kind = k
        /\ ~Holds(completion, "Stop") => StopLast(Append(completion, Head(out)))
    BY <2>1, <2>2, AppendFacts
  <2>4. StreamEnds'
    BY <1>1, <2>1, <2>2, <2>3 DEF StreamEnds
  <2>5. ErrorOut => ErrorOut'
    BY <2>1, <2>2, <2>3 DEF ErrorOut
  <2>6. ASSUME NEW i \in Inputs, Accounted(i) PROVE Accounted(i)'
    BY <2>1, <2>5, <2>6 DEF Accounted
  <2>7. LanesAccounted'
    BY <1>2, <2>1, <2>6 DEF LanesAccounted, StopsCounted, Stopped
  <2>8. ResolverAccounted'
    BY <1>1, <2>1, <2>5 DEF ResolverAccounted
  <2> QED
    BY <2>4, <2>7, <2>8 DEF IInv
<1>9. CASE Close
  <2>1. /\ pc = "closing" /\ pc' = "done" /\ out = <<>>
        /\ UNCHANGED <<cancel, out, completion, result, stored, skipped, unprofiled>>
    BY <1>9 DEF Close
  <2>2. StreamEnds'
    BY <1>1, <2>1, EmptyFacts DEF StreamEnds
  <2>3. ResolverAccounted'
    BY <1>1, <2>1 DEF ResolverAccounted, ErrorOut
  <2> QED
    BY <2>1, <2>2, <2>3 DEF IInv, LanesAccounted
<1> QED
  BY <1>3, <1>4, <1>5, <1>6, <1>7, <1>8, <1>9 DEF ResolverStep

\* drain_completion.
LEMMA DrainKeeps ==
  ASSUME IInv, TypeOK', DrainSignal
  PROVE  IInv'
<1>1. TypeOK /\ StreamEnds /\ ResolverAccounted /\ LanesAccounted
  BY DEF IInv
<1>2. /\ result = "running" /\ completion # <<>> /\ completion' = Tail(completion) /\ completion \in Seq(Signal)
      /\ Head(completion).kind = "Stop" => result' = "Ok"
      /\ Head(completion).kind # "Stop" => result' = "Err"
      /\ UNCHANGED <<cancel, lane, intake, pc, stops, out, stored, skipped, unprofiled>>
  BY <1>1 DEF DrainSignal, TypeOK
<1>3. /\ \A k : Holds(completion, k) <=> Head(completion).kind = k \/ Holds(Tail(completion), k)
      /\ StopLast(completion) => StopLast(Tail(completion))
      /\ StopLast(completion) /\ Head(completion).kind = "Stop" => Tail(completion) = <<>>
  BY <1>2, HeadTailFacts
<1>4. StreamEnds'
  BY <1>1, <1>2, <1>3, EmptyFacts DEF StreamEnds
<1>5. ErrorOut => ErrorOut'
  BY <1>1, <1>2, <1>3, EmptyFacts DEF ErrorOut, StreamEnds
<1>6. ASSUME NEW i \in Inputs, Accounted(i) PROVE Accounted(i)'
  BY <1>2, <1>5, <1>6 DEF Accounted
<1>7. LanesAccounted'
  BY <1>1, <1>2, <1>6 DEF LanesAccounted, StopsCounted, Stopped
<1>8. ResolverAccounted'
  BY <1>1, <1>2, <1>5 DEF ResolverAccounted
<1> QED
  BY <1>4, <1>7, <1>8 DEF IInv

\* The shutdown flag is raised, or nothing changes.
LEMMA StillKeeps ==
  ASSUME IInv, TypeOK', Cancel \/ UNCHANGED vars
  PROVE  IInv'
<1>1. /\ UNCHANGED <<lane, intake, pc, stops, out, completion, result, stored, skipped, unprofiled>>
      /\ cancel => cancel'
  BY DEF Cancel, vars, resolverVars
<1>2. StreamEnds'
  BY <1>1 DEF IInv, StreamEnds
<1>3. ASSUME NEW i \in Inputs, Accounted(i) PROVE Accounted(i)'
  BY <1>1, <1>3 DEF Accounted, ErrorOut
<1>4. LanesAccounted'
  BY <1>1, <1>3 DEF IInv, LanesAccounted, StopsCounted, Stopped
<1>5. ResolverAccounted'
  BY <1>1 DEF IInv, ResolverAccounted, ErrorOut
<1> QED
  BY <1>2, <1>4, <1>5 DEF IInv

-----------------------------------------------------------------------------
\* The invariant holds in every reachable state: every Stop a lane sent is counted once,
\* and what a lane handed over before it is stored or reported before the last of them.
THEOREM PhaseInvariant == Spec => []IInv
<1>1. Init => IInv
  <2> SUFFICES ASSUME Init PROVE IInv
    OBVIOUS
  <2>1. NewLane \in LaneState /\ NewLane.status = "open" /\ ~NewLane.complete /\ ~NewLane.failed /\ ~NewLane.owes
    BY DEF NewLane, LaneState
  <2>2. TypeOK
    <3>1. stops \in 0..Cardinality(Inputs)
      BY InputCount DEF Init, ExpectedStops
    <3>2. intake \in Seq(Signal) /\ Len(intake) <= Capacity /\ out \in Seq(Signal) /\ completion \in Seq(Signal)
      <4>1. Len(<<>>) = 0 /\ 0 <= Capacity
        BY InputAssumption
      <4> QED
        BY <4>1, EmptyFacts DEF Init
    <3>3. lane \in [Inputs -> LaneState]
      BY <2>1 DEF Init
    <3> QED
      BY <3>1, <3>2, <3>3 DEF Init, TypeOK
  <2>3. StreamEnds
    BY EmptyFacts DEF Init, StreamEnds
  <2>4. Stopped = {} /\ Cardinality(Stopped) = 0
    BY <2>1, FS_EmptySet DEF Init, Stopped
  <2>5. StopsCounted
    BY <2>4, EmptyFacts, InputCount DEF Init, ExpectedStops, StopsCounted
  <2>6. ASSUME NEW i \in Inputs PROVE Accounted(i)
    BY <2>1 DEF Init, Accounted
  <2> QED
    BY <2>2, <2>3, <2>5, <2>6 DEF Init, IInv, LanesAccounted, ResolverAccounted
<1>2. IInv /\ [Next]_vars => IInv'
  <2> SUFFICES ASSUME IInv, [Next]_vars PROVE IInv'
    OBVIOUS
  <2>1. TypeOK'
    BY TypeStep DEF IInv
  <2> QED
    BY <2>1, LaneStepKeeps, ResolverStepKeeps, DrainKeeps, StillKeeps DEF Next
<1> QED
  BY <1>1, <1>2, PTL DEF Spec

\* A phase that returns Ok without a cancellation or a failed profiler has stored every
\* input or skipped its last records, for any number of lanes that merge on the intake.
THEOREM OkStored == Spec => []OkIsStored
<1>1. IInv => OkIsStored
  <2> SUFFICES ASSUME IInv, result = "Ok", ~cancel, unprofiled = {} PROVE Inputs = stored \cup skipped
    BY DEF IInv, OkIsStored
  <2>1. pc # "run" /\ out = <<>> /\ completion = <<>>
    BY DEF IInv, StreamEnds
  <2>2. ~ErrorOut
    BY <2>1, EmptyFacts DEF ErrorOut
  <2> QED
    BY <2>1, <2>2 DEF IInv, ResolverAccounted, TypeOK
<1> QED
  BY <1>1, PhaseInvariant, PTL

\* Nothing enters the store once the phase has returned Ok: the output phase reads a
\* store that no lane still writes to.
THEOREM StoreIsSettled == Spec => StoreSettled
<1>1. IInv /\ [Next]_vars => [result = "Ok" /\ ~cancel => stored' = stored]_vars
  <2> SUFFICES ASSUME IInv, Next, result = "Ok" PROVE stored' = stored
    BY DEF vars
  <2>1. pc # "run"
    BY DEF IInv, StreamEnds
  <2>2. CASE \E i \in Inputs : LaneStep(i)
    BY <2>2 DEF LaneStep, LaneData, LaneError, LaneOwed, LaneStop, LaneSkips, LaneFailsProfiling, LaneGivesUp,
                HandOver, resolverVars
  <2>3. CASE ResolverStep
    BY <2>1, <2>3 DEF ResolverStep, RecvCancelled, Resolve, ResolveFails, RecvError, RecvStop, Report, Close, Receive
  <2>4. CASE Cancel \/ DrainSignal \/ UNCHANGED vars
    BY <2>4 DEF Cancel, DrainSignal, vars, resolverVars
  <2> QED
    BY <2>2, <2>3, <2>4 DEF Next
<1> QED
  BY <1>1, PhaseInvariant, PTL DEF Spec, StoreSettled
=============================================================================
