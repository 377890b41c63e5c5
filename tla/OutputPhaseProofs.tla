------------------------- MODULE OutputPhaseProofs -------------------------
(***************************************************************************)
(* Proofs about the output phase, for every store, chain length, channel   *)
(* capacity, batch size and set of stages that may panic.                  *)
(***************************************************************************)
EXTENDS OutputPhase, SequenceTheorems, WellFoundedInduction, TLAPS

-----------------------------------------------------------------------------
\* Signals and sequences of signals.

\* The control signals carry no units (signal.rs).
LEMMA SignalFacts ==
  /\ Start \in Signal /\ Error \in Signal /\ Stop \in Signal
  /\ Start.kind = "Start" /\ Error.kind = "Error" /\ Stop.kind = "Stop"
  /\ Start.units = {} /\ Error.units = {} /\ Stop.units = {}
  BY DEF Signal, Start, Error, Stop

\* The empty sequence holds nothing.
LEMMA EmptyFacts ==
  /\ <<>> \in Seq(Signal)
  /\ UnitsIn(<<>>) = {}
  /\ \A k : ~Holds(<<>>, k)
  /\ StopLast(<<>>)
  BY DEF UnitsIn, Holds, StopLast

\* What one signal at the end of a queue adds.
LEMMA AppendFacts ==
  ASSUME NEW q \in Seq(Signal), NEW m \in Signal
  PROVE  /\ Append(q, m) \in Seq(Signal)
         /\ Append(q, m) # <<>>
         /\ UnitsIn(Append(q, m)) = UnitsIn(q) \cup m.units
         /\ \A k : Holds(Append(q, m), k) <=> Holds(q, k) \/ m.kind = k
         /\ ~Holds(q, "Stop") => StopLast(Append(q, m))
<1> DEFINE r == Append(q, m)
<1>1. r \in Seq(Signal) /\ Len(r) = Len(q) + 1 /\ r[Len(q) + 1] = m /\ Len(q) \in Nat
  OBVIOUS
<1>2. \A i \in 1..Len(q) : r[i] = q[i]
  OBVIOUS
<1> HIDE DEF r
<1>3. \A i \in 1..Len(r) : i \in 1..Len(q) \/ i = Len(q) + 1
  BY <1>1
<1>3a. Len(q) + 1 \in 1..Len(r) /\ \A i \in 1..Len(q) : i \in 1..Len(r)
  BY <1>1
<1>4. UnitsIn(r) = UnitsIn(q) \cup m.units
  <2>1. ASSUME NEW u PROVE u \in UnitsIn(r) <=> \E i \in 1..Len(r) : u \in r[i].units
    BY DEF UnitsIn
  <2>2. ASSUME NEW u PROVE u \in UnitsIn(q) <=> \E i \in 1..Len(q) : u \in q[i].units
    BY DEF UnitsIn
  <2>3. ASSUME NEW u, u \in UnitsIn(r) PROVE u \in UnitsIn(q) \cup m.units
    <3>1. PICK i \in 1..Len(r) : u \in r[i].units
      BY <2>1, <2>3
    <3>2. CASE i \in 1..Len(q)
      BY <3>1, <3>2, <1>2, <2>2
    <3>3. CASE i = Len(q) + 1
      BY <3>1, <3>3, <1>1
    <3>4. QED
      BY <3>2, <3>3, <1>3
  <2>4. ASSUME NEW u, u \in UnitsIn(q) PROVE u \in UnitsIn(r)
    BY <2>1, <2>2, <2>4, <1>2, <1>3a
  <2>5. ASSUME NEW u, u \in m.units PROVE u \in UnitsIn(r)
    BY <2>1, <2>5, <1>1, <1>3a
  <2>6. QED
    BY <2>3, <2>4, <2>5
<1>5. ASSUME NEW k PROVE Holds(r, k) <=> Holds(q, k) \/ m.kind = k
  BY <1>1, <1>2, <1>3, <1>3a DEF Holds
<1>6. ~Holds(q, "Stop") => StopLast(r)
  BY <1>1, <1>2, <1>3 DEF Holds, StopLast
<1>7. r # <<>>
  BY <1>1
<1>8. QED
  BY <1>1, <1>4, <1>5, <1>6, <1>7 DEF r

\* What taking one signal from the front of a queue removes.
LEMMA HeadTailFacts ==
  ASSUME NEW q \in Seq(Signal), q # <<>>
  PROVE  /\ Head(q) \in Signal /\ Tail(q) \in Seq(Signal)
         /\ Head(q).units \in SUBSET Units
         /\ Head(q).kind # "Data" => Head(q).units = {}
         /\ UnitsIn(q) = Head(q).units \cup UnitsIn(Tail(q))
         /\ \A k : Holds(q, k) <=> Head(q).kind = k \/ Holds(Tail(q), k)
         /\ StopLast(q) => StopLast(Tail(q))
         /\ StopLast(q) /\ Head(q).kind = "Stop" => Tail(q) = <<>>
<1> DEFINE r == Tail(q)
<1>1. /\ r \in Seq(Signal) /\ Len(r) = Len(q) - 1 /\ Len(q) \in Nat /\ Len(q) >= 1
      /\ Head(q) = q[1] /\ q[1] \in Signal
  OBVIOUS
<1>2. \A i \in 1..Len(r) : r[i] = q[i + 1]
  OBVIOUS
<1>2a. Len(r) = 0 => r = <<>>
  BY <1>1, EmptySeq
<1> HIDE DEF r
<1>3. /\ \A i \in 1..Len(q) : i = 1 \/ (i - 1 \in 1..Len(r) /\ q[i] = r[i - 1])
      /\ \A i \in 1..Len(r) : i + 1 \in 1..Len(q)
      /\ 1 \in 1..Len(q)
  BY <1>1, <1>2
<1>4. UnitsIn(q) = q[1].units \cup UnitsIn(r)
  <2>1. ASSUME NEW u PROVE u \in UnitsIn(r) <=> \E i \in 1..Len(r) : u \in r[i].units
    BY DEF UnitsIn
  <2>2. ASSUME NEW u PROVE u \in UnitsIn(q) <=> \E i \in 1..Len(q) : u \in q[i].units
    BY DEF UnitsIn
  <2>3. ASSUME NEW u, u \in UnitsIn(q) PROVE u \in q[1].units \cup UnitsIn(r)
    BY <2>1, <2>2, <2>3, <1>3
  <2>4. ASSUME NEW u, u \in UnitsIn(r) PROVE u \in UnitsIn(q)
    BY <2>1, <2>2, <2>4, <1>2, <1>3
  <2>5. ASSUME NEW u, u \in q[1].units PROVE u \in UnitsIn(q)
    BY <2>2, <2>5, <1>3
  <2>6. QED
    BY <2>3, <2>4, <2>5
<1>5. ASSUME NEW k PROVE Holds(q, k) <=> q[1].kind = k \/ Holds(r, k)
  BY <1>1, <1>2, <1>3 DEF Holds
<1>6. StopLast(q) => StopLast(r)
  BY <1>1, <1>2, <1>3 DEF StopLast
<1>7. StopLast(q) /\ q[1].kind = "Stop" => r = <<>>
  BY <1>1, <1>2a, <1>3 DEF StopLast
<1>8. q[1].units \in SUBSET Units /\ (q[1].kind # "Data" => q[1].units = {})
  BY <1>1 DEF Signal
<1>9. QED
  BY <1>1, <1>4, <1>5, <1>6, <1>7, <1>8 DEF r

\* A queue of one signal.
LEMMA SingletonFacts ==
  ASSUME NEW m \in Signal
  PROVE  /\ <<m>> \in Seq(Signal)
         /\ <<m>> # <<>>
         /\ UnitsIn(<<m>>) = m.units
         /\ \A k : Holds(<<m>>, k) <=> m.kind = k
         /\ StopLast(<<m>>)
<1>1. <<m>> = Append(<<>>, m)
  OBVIOUS
<1>2. <<>> \in Seq(Signal)
  OBVIOUS
<1>3. /\ Append(<<>>, m) \in Seq(Signal) /\ Append(<<>>, m) # <<>>
      /\ UnitsIn(Append(<<>>, m)) = UnitsIn(<<>>) \cup m.units
      /\ \A k : Holds(Append(<<>>, m), k) <=> Holds(<<>>, k) \/ m.kind = k
      /\ ~Holds(<<>>, "Stop") => StopLast(Append(<<>>, m))
  BY <1>2, AppendFacts, Zenon
<1>4. QED
  BY <1>1, <1>3, EmptyFacts

\* Two elements in a row, as an append.
LEMMA PairIsAppend ==
  ASSUME NEW a, NEW b
  PROVE  <<a, b>> = Append(<<a>>, b)
  OBVIOUS

\* Two signals in a row.
LEMMA PairFacts ==
  ASSUME NEW n \in Signal, NEW m \in Signal, n.kind # "Stop"
  PROVE  /\ <<n, m>> \in Seq(Signal)
         /\ <<n, m>> # <<>>
         /\ UnitsIn(<<n, m>>) = n.units \cup m.units
         /\ \A k : Holds(<<n, m>>, k) <=> n.kind = k \/ m.kind = k
         /\ StopLast(<<n, m>>)
<1>1. <<n, m>> = Append(<<n>>, m)
  BY PairIsAppend
<1>2. /\ <<n>> \in Seq(Signal) /\ UnitsIn(<<n>>) = n.units /\ ~Holds(<<n>>, "Stop")
      /\ \A k : Holds(<<n>>, k) <=> n.kind = k
  BY SingletonFacts
<1>3. /\ Append(<<n>>, m) \in Seq(Signal) /\ Append(<<n>>, m) # <<>>
      /\ UnitsIn(Append(<<n>>, m)) = UnitsIn(<<n>>) \cup m.units
      /\ \A k : Holds(Append(<<n>>, m), k) <=> Holds(<<n>>, k) \/ m.kind = k
      /\ ~Holds(<<n>>, "Stop") => StopLast(Append(<<n>>, m))
  BY <1>2, AppendFacts, Zenon
<1>4. QED
  BY <1>1, <1>2, <1>3

\* The control signals a stage sends.
LEMMA ControlFacts ==
  /\ <<Start>> \in Seq(Signal) /\ <<Error>> \in Seq(Signal)
  /\ <<Stop>> \in Seq(Signal) /\ <<Error, Stop>> \in Seq(Signal)
  /\ <<Start>> # <<>> /\ <<Error>> # <<>> /\ <<Stop>> # <<>> /\ <<Error, Stop>> # <<>>
  /\ UnitsIn(<<Start>>) = {} /\ UnitsIn(<<Error>>) = {}
  /\ UnitsIn(<<Stop>>) = {} /\ UnitsIn(<<Error, Stop>>) = {}
  /\ StopLast(<<Start>>) /\ StopLast(<<Error>>) /\ StopLast(<<Stop>>) /\ StopLast(<<Error, Stop>>)
  /\ ~Holds(<<Start>>, "Stop") /\ ~Holds(<<Start>>, "Error")
  /\ ~Holds(<<Error>>, "Stop") /\ Holds(<<Error>>, "Error")
  /\ Holds(<<Stop>>, "Stop") /\ ~Holds(<<Stop>>, "Error")
  /\ Holds(<<Error, Stop>>, "Stop") /\ Holds(<<Error, Stop>>, "Error")
<1>1. ASSUME NEW m \in Signal, m.units = {}
      PROVE  /\ <<m>> \in Seq(Signal) /\ <<m>> # <<>> /\ UnitsIn(<<m>>) = {} /\ StopLast(<<m>>)
             /\ \A k : Holds(<<m>>, k) <=> m.kind = k
  BY <1>1, SingletonFacts
<1>2. /\ <<Error, Stop>> \in Seq(Signal) /\ <<Error, Stop>> # <<>>
      /\ UnitsIn(<<Error, Stop>>) = Error.units \cup Stop.units
      /\ \A k : Holds(<<Error, Stop>>, k) <=> Error.kind = k \/ Stop.kind = k
      /\ StopLast(<<Error, Stop>>)
  <2>1. Error \in Signal /\ Stop \in Signal /\ Error.kind # "Stop"
    BY SignalFacts
  <2>2. QED
    BY <2>1, PairFacts, Zenon
<1>3. QED
  BY <1>1, <1>2, SignalFacts

\* A batch to hand over, alone and followed by one more signal.
LEMMA BatchFacts ==
  ASSUME NEW U \in SUBSET Units
  PROVE  /\ Batch(U) \in Seq(Signal)
         /\ UnitsIn(Batch(U)) = U
         /\ \A k : k # "Data" => ~Holds(Batch(U), k)
         /\ StopLast(Batch(U))
         /\ Batch(U) # <<>> => Head(Batch(U)).kind = "Data"
         /\ \A m \in Signal :
              /\ Batch(U) \o <<m>> \in Seq(Signal)
              /\ Batch(U) \o <<m>> # <<>>
              /\ UnitsIn(Batch(U) \o <<m>>) = U \cup m.units
              /\ StopLast(Batch(U) \o <<m>>)
              /\ \A k : k # "Data" => (Holds(Batch(U) \o <<m>>, k) <=> m.kind = k)
<1> DEFINE d == [kind |-> "Data", units |-> U]
<1>1. d \in Signal /\ d.kind = "Data" /\ d.units = U
  BY DEF Signal
<1>1a. Batch(U) = IF U = {} THEN <<>> ELSE <<d>>
  BY DEF Batch
<1> HIDE DEF d
<1>2. CASE U = {}
  <2>1. Batch(U) = <<>>
    BY <1>1a, <1>2
  <2>2. \A m \in Signal : Batch(U) \o <<m>> = <<m>>
    BY <2>1
  <2>3. ASSUME NEW m \in Signal
        PROVE  /\ <<m>> \in Seq(Signal) /\ <<m>> # <<>>
               /\ UnitsIn(<<m>>) = U \cup m.units
               /\ StopLast(<<m>>)
               /\ \A k : Holds(<<m>>, k) <=> m.kind = k
    BY <1>2, SingletonFacts
  <2>4. QED
    BY <1>2, <2>1, <2>2, <2>3, EmptyFacts
<1>3. CASE U # {}
  <2>1. Batch(U) = <<d>>
    BY <1>1a, <1>3
  <2>2. ASSUME NEW m \in Signal PROVE Batch(U) \o <<m>> = <<d, m>>
    <3>1. <<d>> \o <<m>> = Append(<<d>>, m)
      BY <1>1, AppendIsConcat
    <3>2. Append(<<d>>, m) = <<d, m>>
      BY PairIsAppend
    <3>3. QED
      BY <2>1, <3>1, <3>2
  <2>3. Head(<<d>>) = d
    OBVIOUS
  <2>4. /\ <<d>> \in Seq(Signal) /\ UnitsIn(<<d>>) = U /\ StopLast(<<d>>)
        /\ \A k : Holds(<<d>>, k) <=> "Data" = k
    BY <1>1, SingletonFacts
  <2>5. ASSUME NEW m \in Signal
        PROVE  /\ <<d, m>> \in Seq(Signal) /\ <<d, m>> # <<>>
               /\ UnitsIn(<<d, m>>) = U \cup m.units
               /\ StopLast(<<d, m>>)
               /\ \A k : Holds(<<d, m>>, k) <=> "Data" = k \/ m.kind = k
    <3>1. d.kind # "Stop" /\ d \in Signal
      BY <1>1
    <3>2. /\ <<d, m>> \in Seq(Signal) /\ <<d, m>> # <<>>
          /\ UnitsIn(<<d, m>>) = d.units \cup m.units
          /\ StopLast(<<d, m>>)
          /\ \A k : Holds(<<d, m>>, k) <=> d.kind = k \/ m.kind = k
      BY <3>1, PairFacts, Zenon
    <3>3. QED
      BY <1>1, <3>2
  <2>6. ASSUME NEW m \in Signal
        PROVE  /\ Batch(U) \o <<m>> \in Seq(Signal)
               /\ Batch(U) \o <<m>> # <<>>
               /\ UnitsIn(Batch(U) \o <<m>>) = U \cup m.units
               /\ StopLast(Batch(U) \o <<m>>)
               /\ \A k : Holds(Batch(U) \o <<m>>, k) <=> "Data" = k \/ m.kind = k
    BY <2>2, <2>5, Zenon
  <2>7. /\ Batch(U) \in Seq(Signal) /\ UnitsIn(Batch(U)) = U /\ StopLast(Batch(U))
        /\ \A k : Holds(Batch(U), k) <=> "Data" = k
        /\ Head(Batch(U)).kind = "Data"
    BY <1>1, <2>1, <2>3, <2>4
  <2>8. QED
    BY <2>6, <2>7
<1>4. QED
  BY <1>2, <1>3
-----------------------------------------------------------------------------
\* The chain.

\* How stages are numbered.
LEMMA StageFacts ==
  /\ 1 \in Stages /\ Writer \in Stages /\ Writer # 1
  /\ \A s \in Stages : /\ s \in Nat /\ s >= 1 /\ s <= Writer
                       /\ s > 1 => s - 1 \in Stages
                       /\ s # Writer => s + 1 \in Stages
  /\ Skipping \subseteq Stages /\ Validating \subseteq Stages /\ Folding \subseteq Stages
  BY ChainAssumption DEF Stages, Writer

\* The same, as one characterisation of the stage numbers.
LEMMA StageRange ==
  /\ Writer \in Nat /\ Writer > 1
  /\ \A s : s \in Stages <=> s \in Nat /\ 1 <= s /\ s <= Writer
  /\ \A s \in Skipping \cup Validating \cup Folding : s \in Nat /\ 1 < s /\ s < Writer
  BY ChainAssumption DEF Stages, Writer

\* A queue of signals carries units of the store.
LEMMA UnitsInType ==
  ASSUME NEW q \in Seq(Signal)
  PROVE  UnitsIn(q) \subseteq Units
<1>1. ASSUME NEW i \in 1..Len(q) PROVE q[i].units \subseteq Units
  <2>1. q[i] \in Signal
    BY ElementOfSeq
  <2>2. QED
    BY <2>1 DEF Signal
<1>2. QED
  BY <1>1 DEF UnitsIn

\* Every step of every thread keeps the types.
LEMMA TypedStep ==
  ASSUME Typed, [Next]_vars
  PROVE  Typed'
<1>1. ASSUME Cancel PROVE Typed'
  BY <1>1, StageFacts
     DEF Cancel, stageVars, history, Typed
<1>2. ASSUME NEW s \in Stages, SendSignal(s) PROVE Typed'
  BY <1>2, StageFacts, HeadTailFacts, AppendFacts
     DEF SendSignal, Closed, HasRoom, history, Typed
<1>3. ASSUME NEW s \in Stages, SendFails(s) PROVE Typed'
  BY <1>3, StageFacts, UnitsInType, EmptyFacts
     DEF SendFails, SendBreaks, Closed, Typed
<1>4. ASSUME NEW u \in Units, AssembleUnit(u) PROVE Typed'
  <2>1. held[1] \cup {u} \in SUBSET Units
    BY <1>4, StageFacts DEF Typed
  <2>2. Batch(held[1] \cup {u}) \in Seq(Signal)
    BY <2>1, BatchFacts
  <2>3. CASE Cardinality(held[1] \cup {u}) >= BatchSize
    <3>1. /\ held' = [held EXCEPT ![1] = {}]
          /\ out' = [out EXCEPT ![1] = Batch(held[1] \cup {u})]
          /\ todo' = todo \ {u}
          /\ UNCHANGED <<cancel, pc, errored, chan, disposition, result, history>>
      BY <1>4, <2>3 DEF AssembleUnit
    <3>2. QED
      BY <2>2, <3>1, StageFacts DEF history, Typed
  <2>4. CASE ~(Cardinality(held[1] \cup {u}) >= BatchSize)
    BY <1>4, <2>1, <2>4, StageFacts DEF AssembleUnit, history, Typed
  <2>5. QED
    BY <2>3, <2>4
<1>5. ASSUME NEW u \in Units, AssembleFails(u) PROVE Typed'
  BY <1>5, StageFacts, ControlFacts
     DEF AssembleFails, Ready, Typed
<1>6. ASSUME AssembleCancelled PROVE Typed'
  BY <1>6, StageFacts
     DEF AssembleCancelled, Ready, Typed
<1>7. ASSUME ScanFails PROVE Typed'
  BY <1>7, StageFacts, BatchFacts, SignalFacts
     DEF ScanFails, Ready, Typed
<1>8. ASSUME ScanEnds PROVE Typed'
  BY <1>8, StageFacts
     DEF ScanEnds, Ready, history, Typed
<1>9. ASSUME NEW s \in Stages, RecvCancelled(s) PROVE Typed'
  BY <1>9, StageFacts, HeadTailFacts
     DEF RecvCancelled, Received, Ready, Typed
<1>10. ASSUME NEW s \in Stages, RecvStart(s) PROVE Typed'
  BY <1>10, StageFacts, HeadTailFacts
     DEF RecvStart, Receive, Ready, history, Typed
<1>11. ASSUME NEW s \in Stages, RecvStop(s) PROVE Typed'
  BY <1>11, StageFacts, HeadTailFacts
     DEF RecvStop, Receive, Ready, history, Typed
<1>12. ASSUME NEW s \in Stages, RecvError(s) PROVE Typed'
  BY <1>12, StageFacts, HeadTailFacts, ControlFacts
     DEF RecvError, Receive, Ready, history, Typed
<1>13. ASSUME NEW s \in Stages, RecvDisconnected(s) PROVE Typed'
  BY <1>13, StageFacts
     DEF RecvDisconnected, Ended, Ready, history, Typed
<1>14. ASSUME NEW s \in Stages, NEW U \in SUBSET Units, Convert(s, U) PROVE Typed'
  BY <1>14, StageFacts, HeadTailFacts, BatchFacts
     DEF Convert, Receive, Received, Ready, Typed
<1>15. ASSUME NEW s \in Stages, NEW U \in SUBSET Units, Abort(s, U) PROVE Typed'
  BY <1>15, StageFacts, HeadTailFacts, BatchFacts, SignalFacts
     DEF Abort, Receive, Received, Ready, Typed
<1>16. ASSUME NEW s \in Stages, NEW U \in SUBSET Units, Fold(s, U) PROVE Typed'
  <2>1. s - 1 \in Stages /\ chan[s - 1] \in Seq(Signal) /\ chan[s - 1] # <<>>
    BY <1>16, StageFacts DEF Fold, Receive, Typed
  <2>2. /\ Tail(chan[s - 1]) \in Seq(Signal)
        /\ (held[s] \cup Received(s)) \ U \in SUBSET Units
    BY <2>1, HeadTailFacts DEF Received, Typed
  <2>3. Batch((held[s] \cup Received(s)) \ U) \in Seq(Signal)
    BY <2>2, BatchFacts
  <2>4. QED
    BY <1>16, <2>1, <2>2, <2>3 DEF Fold, Receive, history, Typed
<1>17. ASSUME NEW s \in Stages, Validate(s) PROVE Typed'
  <2>1. s - 1 \in Stages /\ chan[s - 1] \in Seq(Signal) /\ chan[s - 1] # <<>>
    BY <1>17, StageFacts DEF Validate, Receive, Typed
  <2>2. Batch(Received(s)) \in Seq(Signal) /\ Tail(chan[s - 1]) \in Seq(Signal)
    BY <2>1, HeadTailFacts, BatchFacts DEF Received
  <2>3. QED
    BY <1>17, <2>1, <2>2 DEF Validate, Receive, history, Typed
<1>18. ASSUME Write PROVE Typed'
  <2>1. /\ Writer - 1 \in Stages /\ Writer \in Stages
        /\ chan[Writer - 1] \in Seq(Signal) /\ chan[Writer - 1] # <<>>
    BY <1>18, StageFacts DEF Write, Receive, Typed
  <2>2. Tail(chan[Writer - 1]) \in Seq(Signal) /\ Received(Writer) \subseteq Units
    BY <2>1, HeadTailFacts DEF Received
  <2>3. QED
    BY <1>18, <2>1, <2>2 DEF Write, Receive, Typed
<1>19. ASSUME WriteFails PROVE Typed'
  <2>1. /\ Writer - 1 \in Stages /\ Writer \in Stages
        /\ chan[Writer - 1] \in Seq(Signal) /\ chan[Writer - 1] # <<>>
    BY <1>19, StageFacts DEF WriteFails, Receive, Typed
  <2>2. Tail(chan[Writer - 1]) \in Seq(Signal) /\ Received(Writer) \subseteq Units
    BY <2>1, HeadTailFacts DEF Received
  <2>3. QED
    BY <1>19, <2>1, <2>2, ControlFacts DEF WriteFails, Receive, Typed
<1>20. ASSUME NEW s \in Stages, Panic(s) PROVE Typed'
  <2>1. CASE s = 1
    BY <1>20, <2>1, StageFacts DEF Panic, Typed
  <2>2. CASE s # 1
    <3>1. s - 1 \in Stages /\ chan[s - 1] \in Seq(Signal)
      BY <2>2, StageFacts DEF Typed
    <3>2. UnitsIn(chan[s - 1]) \subseteq Units
      BY <3>1, UnitsInType
    <3>3. <<>> \in Seq(Signal)
      OBVIOUS
    <3>4. QED
      BY <1>20, <2>2, <3>1, <3>2, <3>3 DEF Panic, Typed
  <2>3. QED
    BY <2>1, <2>2
<1>21. ASSUME NEW s \in Stages, Finalize(s) PROVE Typed'
  BY <1>21, StageFacts, BatchFacts, SignalFacts
     DEF Finalize, history, Typed
<1>22. ASSUME NEW ok \in BOOLEAN, FinalizeWriter(ok) PROVE Typed'
  BY <1>22, StageFacts, ControlFacts
     DEF FinalizeWriter, Failed, Typed
<1>23. ASSUME NEW s \in Stages, Close(s) PROVE Typed'
  <2>1. CASE s = 1
    BY <1>23, <2>1 DEF Close, Typed
  <2>2. CASE s # 1
    <3>1. s - 1 \in Stages /\ chan[s - 1] \in Seq(Signal)
      BY <2>2, StageFacts DEF Typed
    <3>2. UnitsIn(chan[s - 1]) \subseteq Units
      BY <3>1, UnitsInType
    <3>3. <<>> \in Seq(Signal)
      OBVIOUS
    <3>4. QED
      BY <1>23, <2>2, <3>1, <3>2, <3>3 DEF Close, Typed
  <2>3. QED
    BY <2>1, <2>2
<1>24. ASSUME DrainSignal PROVE Typed'
  BY <1>24, StageFacts, HeadTailFacts
     DEF DrainSignal, history, Typed
<1>25. ASSUME DrainDisconnected PROVE Typed'
  BY <1>25, StageFacts
     DEF DrainDisconnected, stageVars, history, Typed
<1>26. ASSUME UNCHANGED vars PROVE Typed'
  BY <1>26, StageFacts
     DEF vars, stageVars, history, Typed
<1>27. QED
  BY <1>1, <1>2, <1>3, <1>4, <1>5, <1>6, <1>7, <1>8, <1>9, <1>10, <1>11, <1>12, <1>13, <1>14, <1>15, <1>16, <1>17, <1>18, <1>19, <1>20, <1>21, <1>22, <1>23, <1>24, <1>25, <1>26
     DEF Next, StageStep, AssemblerStep, LoopStep, ProcessBatch, EndStep, DrainStep

\* A queue a step has taken from, emptied or appended to with room left.
LEMMA ChangeBounded ==
  ASSUME Typed, Bounded, NEW t \in Stages, NEW q \in Seq(Signal),
         chan' = [chan EXCEPT ![t] = q], Len(q) <= Capacity
  PROVE  Bounded'
  BY DEF Typed, Bounded

\* A receive, or a drain, leaves a shorter queue.
LEMMA TakeBounded ==
  ASSUME Typed, Bounded, NEW t \in Stages, chan[t] # <<>>,
         chan' = [chan EXCEPT ![t] = Tail(@)]
  PROVE  Bounded'
<1> DEFINE q == Tail(chan[t])
<1>1. chan[t] \in Seq(Signal) /\ Len(chan[t]) \in Nat /\ Len(chan[t]) <= Capacity
  BY DEF Typed, Bounded
<1>2. q \in Seq(Signal) /\ Len(q) = Len(chan[t]) - 1
  BY <1>1
<1>3. chan' = [chan EXCEPT ![t] = q]
  OBVIOUS
<1> HIDE DEF q
<1>4. Len(q) <= Capacity
  BY <1>1, <1>2, SizeAssumption
<1>5. QED
  BY <1>2, <1>3, <1>4, ChangeBounded

\* A thread that ends empties the queue it received from.
LEMMA ClearBounded ==
  ASSUME Typed, Bounded, NEW t \in Stages, chan' = [chan EXCEPT ![t] = <<>>]
  PROVE  Bounded'
<1>1. <<>> \in Seq(Signal) /\ Len(<<>>) <= Capacity
  BY SizeAssumption
<1>2. QED
  BY <1>1, ChangeBounded

\* Every step of every thread keeps the channels within their capacity.
LEMMA BoundedStep ==
  ASSUME Typed, Bounded, [Next]_vars
  PROVE  Bounded'
<1>1. ASSUME chan' = chan PROVE Bounded'
  BY <1>1 DEF Bounded
<1>2. ASSUME NEW s \in Stages, SendSignal(s) PROVE Bounded'
  <2> DEFINE q == Append(chan[s], Head(out[s]))
  <2>1. chan[s] \in Seq(Signal) /\ out[s] \in Seq(Signal) /\ out[s] # <<>>
    BY <1>2 DEF SendSignal, Typed
  <2>2. Head(out[s]) \in Signal
    BY <2>1, HeadTailFacts
  <2>3. q \in Seq(Signal) /\ Len(q) = Len(chan[s]) + 1 /\ Len(chan[s]) \in Nat
    BY <2>1, <2>2
  <2>4. chan' = [chan EXCEPT ![s] = q] /\ Len(chan[s]) < Capacity
    BY <1>2 DEF SendSignal, HasRoom
  <2> HIDE DEF q
  <2>5. Len(q) <= Capacity
    BY <2>3, <2>4, SizeAssumption
  <2>6. QED
    BY <2>3, <2>4, <2>5, ChangeBounded
<1>3. ASSUME NEW s \in Stages, LoopStep(s) PROVE Bounded'
  <2>1. \/ chan' = chan
        \/ s > 1 /\ chan[s - 1] # <<>> /\ chan' = [chan EXCEPT ![s - 1] = Tail(@)]
    BY <1>3, StageFacts
       DEF LoopStep, RecvCancelled, RecvStart, RecvStop, RecvError, RecvDisconnected, ProcessBatch,
           Convert, Validate, Abort, Fold, Write, WriteFails, Receive
  <2>2. QED
    BY <2>1, <1>1, TakeBounded, StageFacts
<1>4. ASSUME NEW s \in Stages, Panic(s) \/ EndStep(s) PROVE Bounded'
  <2>1. \/ chan' = chan
        \/ s # 1 /\ chan' = [chan EXCEPT ![s - 1] = <<>>]
    BY <1>4 DEF Panic, EndStep, Finalize, FinalizeWriter, Close
  <2>2. s # 1 => s - 1 \in Stages
    BY StageFacts
  <2>3. QED
    BY <2>1, <2>2, <1>1, ClearBounded
<1>5. ASSUME DrainStep PROVE Bounded'
  <2>1. \/ chan' = chan
        \/ chan[Writer] # <<>> /\ chan' = [chan EXCEPT ![Writer] = Tail(@)]
    BY <1>5 DEF DrainStep, DrainSignal, DrainDisconnected, stageVars
  <2>2. QED
    BY <2>1, <1>1, TakeBounded, StageFacts
<1>6. ASSUME NEW s \in Stages, SendFails(s) \/ AssemblerStep PROVE Bounded'
  BY <1>1, <1>6
     DEF SendFails, AssemblerStep, AssembleUnit, AssembleFails, AssembleCancelled, ScanFails, ScanEnds
<1>7. ASSUME Cancel \/ UNCHANGED vars PROVE Bounded'
  BY <1>1, <1>7 DEF Cancel, vars, stageVars
<1>8. QED
  BY <1>2, <1>3, <1>4, <1>5, <1>6, <1>7, StageFacts DEF Next, StageStep

\* Every reachable state is well typed, and no channel holds more signals than
\* its capacity.
THEOREM TypeCorrect == Spec => []TypeOK
<1>1. Init => Typed
  BY StageFacts, ControlFacts, EmptyFacts DEF Init, Typed
<1>2. Init => Bounded
  BY SizeAssumption DEF Init, Bounded
<1>3. TypeOK /\ [Next]_vars => TypeOK'
  BY TypedStep, BoundedStep DEF TypeOK
<1>4. QED
  BY <1>1, <1>2, <1>3, PTL DEF Spec, TypeOK

-----------------------------------------------------------------------------
\* The writer's reports.  What the writer sends ends with Stop, nothing follows it, and
\* a failure of the writer is on its way until drain_completion has returned.

Failing == errored[Writer] \/ refused # {} \/ unfinished

StreamEnds ==
  /\ StopLast(chan[Writer]) /\ StopLast(out[Writer])
  /\ Holds(chan[Writer], "Stop") => pc[Writer] \in {"closing", "done"} /\ out[Writer] = <<>>
  /\ Holds(out[Writer], "Stop") => pc[Writer] = "closing"
  /\ pc[Writer] \in {"done", "panicked"} => out[Writer] = <<>>

ReportUnderWay ==
  /\ Failing /\ result = "running" => Holds(out[Writer], "Error") \/ Holds(chan[Writer], "Error")
  /\ result = "Ok" => ~Failing /\ pc[Writer] \in {"closing", "done", "panicked"} /\ out[Writer] = <<>>

Reports == StreamEnds /\ ReportUnderWay

\* A step that leaves the writer and drain_completion alone.
Quiet ==
  /\ pc'[Writer] = pc[Writer] /\ out'[Writer] = out[Writer] /\ chan'[Writer] = chan[Writer]
  /\ errored'[Writer] = errored[Writer]
  /\ result' = result /\ refused' = refused /\ unfinished' = unfinished

\* Such a step keeps the reports.
LEMMA QuietKeeps ==
  ASSUME Reports, Quiet
  PROVE  Reports'
BY DEF Reports, StreamEnds, ReportUnderWay, Failing, Quiet

\* Where the writer is in the chain.
LEMMA WriterStage ==
  /\ Writer \in Stages /\ Writer # 1 /\ Writer - 1 \in Stages /\ Writer - 1 # Writer
  /\ Writer \notin Skipping \cup Validating \cup Folding
  /\ \A s \in Stages : s - 1 # Writer
BY ChainAssumption DEF Stages, Writer

\* Every other stage leaves the writer alone: it sends on its own channel and
\* takes from the one before it.
LEMMA OthersAreQuiet ==
  ASSUME Typed, NEW s \in Stages, s # Writer, StageStep(s)
  PROVE  Quiet
<1>1. /\ pc \in [Stages -> {"run", "final", "closing", "done", "panicked"}]
      /\ out \in [Stages -> Seq(Signal)] /\ chan \in [Stages -> Seq(Signal)]
      /\ errored \in [Stages -> BOOLEAN] /\ held \in [Stages -> SUBSET Units]
      /\ Writer \in Stages /\ Writer # 1 /\ s - 1 # Writer
  BY WriterStage DEF Typed
<1>2. CASE SendSignal(s) \/ SendFails(s)
  BY <1>1, <1>2 DEF SendSignal, SendFails, history, Quiet
<1>3. CASE s = 1 /\ AssemblerStep
  BY <1>1, <1>3 DEF AssemblerStep, AssembleUnit, AssembleFails, AssembleCancelled, ScanFails, ScanEnds,
                    history, Quiet
<1>4. CASE RecvCancelled(s) \/ RecvStart(s) \/ RecvStop(s) \/ RecvError(s) \/ RecvDisconnected(s)
  BY <1>1, <1>4 DEF RecvCancelled, RecvStart, RecvStop, RecvError, RecvDisconnected, Receive, history, Quiet
<1>5. CASE ProcessBatch(s)
  BY <1>1, <1>5 DEF ProcessBatch, Convert, Abort, Fold, Validate, Receive, history, Quiet
<1>6. CASE Panic(s)
  BY <1>1, <1>6 DEF Panic, Quiet
<1>7. CASE EndStep(s)
  BY <1>1, <1>7 DEF EndStep, Finalize, Close, history, Quiet
<1> QED
  BY <1>2, <1>3, <1>4, <1>5, <1>6, <1>7 DEF StageStep, LoopStep

\* A writer back in its loop has nothing to send, and drain_completion has not
\* returned Ok.
LEMMA ReadyWriter ==
  ASSUME Typed, Reports, pc[Writer] \in {"run", "final"}
  PROVE  result # "Ok" /\ ~Holds(chan[Writer], "Stop")
BY DEF Reports, StreamEnds, ReportUnderWay

\* The writer's operations, which replace what it has to send and move it on.
LEMMA WriterOperates ==
  ASSUME Typed, Reports, pc[Writer] \in {"run", "final"}, out[Writer] = <<>>,
         result' = result, chan'[Writer] = chan[Writer],
         StopLast(out'[Writer]),
         Holds(out'[Writer], "Stop") => pc'[Writer] = "closing",
         pc'[Writer] \in {"done", "panicked"} => out'[Writer] = <<>>,
         Failing' => Failing \/ Holds(out'[Writer], "Error")
  PROVE  Reports'
<1>1. result # "Ok" /\ ~Holds(chan[Writer], "Stop") /\ ~Holds(out[Writer], "Error")
  BY ReadyWriter, EmptyFacts
<1> QED
  BY <1>1 DEF Reports, StreamEnds, ReportUnderWay

\* Whatever the writer does in its loop.
LEMMA WriterLoopStep ==
  ASSUME Typed, Reports, LoopStep(Writer) \/ Panic(Writer)
  PROVE  Reports'
<1>1. /\ pc \in [Stages -> {"run", "final", "closing", "done", "panicked"}]
      /\ out \in [Stages -> Seq(Signal)] /\ chan \in [Stages -> Seq(Signal)]
      /\ errored \in [Stages -> BOOLEAN] /\ held \in [Stages -> SUBSET Units]
      /\ Writer \in Stages /\ Writer # 1 /\ Writer - 1 # Writer /\ Writer - 1 \in Stages
      /\ Writer \notin Skipping \cup Validating \cup Folding
  BY WriterStage DEF Typed
<1>2. pc[Writer] = "run" /\ out[Writer] = <<>>
  BY <1>1 DEF LoopStep, RecvCancelled, RecvStart, RecvStop, RecvError, RecvDisconnected, ProcessBatch,
              Convert, Abort, Fold, Validate, Write, WriteFails, Receive, Panic, Ready
<1>3. result' = result /\ chan'[Writer] = chan[Writer]
  BY <1>1 DEF LoopStep, RecvCancelled, RecvStart, RecvStop, RecvError, RecvDisconnected, ProcessBatch,
              Convert, Abort, Fold, Validate, Write, WriteFails, Receive, Panic
<1>4. /\ pc'[Writer] \in {"run", "final", "panicked"}
      /\ \/ out' = out /\ errored' = errored /\ refused' = refused /\ unfinished' = unfinished
         \/ pc' = pc /\ out'[Writer] = <<Error>>
  <2>1. CASE RecvCancelled(Writer) \/ RecvStart(Writer) \/ RecvStop(Writer) \/ RecvDisconnected(Writer)
    BY <1>1, <1>2, <2>1 DEF RecvCancelled, RecvStart, RecvStop, RecvDisconnected, history
  <2>2. CASE RecvError(Writer)
    BY <1>1, <1>2, <2>2 DEF RecvError
  <2>3. CASE ProcessBatch(Writer)
    BY <1>1, <1>2, <2>3 DEF ProcessBatch, Convert, Abort, Fold, Validate, Write, WriteFails
  <2>4. CASE Panic(Writer)
    BY <1>1, <2>4 DEF Panic
  <2> QED
    BY <2>1, <2>2, <2>3, <2>4 DEF LoopStep
<1>5. CASE out' = out /\ errored' = errored /\ refused' = refused /\ unfinished' = unfinished
  <2>1. out'[Writer] = <<>> /\ (Failing' => Failing) /\ StopLast(<<>>) /\ ~Holds(<<>>, "Stop")
    BY <1>2, <1>5, EmptyFacts DEF Failing
  <2> QED
    BY <1>2, <1>3, <2>1, WriterOperates
<1>6. CASE pc' = pc /\ out'[Writer] = <<Error>>
  <2>1. StopLast(<<Error>>) /\ ~Holds(<<Error>>, "Stop") /\ Holds(<<Error>>, "Error")
    BY ControlFacts
  <2> QED
    BY <1>2, <1>3, <1>6, <2>1, WriterOperates
<1> QED
  BY <1>4, <1>5, <1>6

\* The writer is finalized, and its thread ends.
LEMMA WriterEndStep ==
  ASSUME Typed, Reports, EndStep(Writer)
  PROVE  Reports'
<1>1. /\ pc \in [Stages -> {"run", "final", "closing", "done", "panicked"}]
      /\ out \in [Stages -> Seq(Signal)] /\ chan \in [Stages -> Seq(Signal)]
      /\ errored \in [Stages -> BOOLEAN] /\ held \in [Stages -> SUBSET Units]
      /\ Writer \in Stages /\ Writer # 1 /\ Writer - 1 # Writer
  BY WriterStage DEF Typed
<1>2. ASSUME NEW ok \in BOOLEAN, FinalizeWriter(ok) PROVE Reports'
  <2>1. /\ pc[Writer] = "final" /\ out[Writer] = <<>> /\ pc'[Writer] = "closing"
        /\ out'[Writer] = IF ok THEN <<Stop>> ELSE <<Error, Stop>>
        /\ result' = result /\ chan' = chan /\ errored' = errored /\ refused' = refused /\ unfinished' = ~ok
    BY <1>1, <1>2 DEF FinalizeWriter
  <2>2. StopLast(out'[Writer]) /\ (Failing' => Failing \/ Holds(out'[Writer], "Error"))
    BY <2>1, ControlFacts DEF Failing
  <2> QED
    BY <2>1, <2>2, WriterOperates
<1>3. CASE Close(Writer)
  <2>1. /\ pc[Writer] = "closing" /\ pc'[Writer] = "done" /\ out' = out /\ out[Writer] = <<>>
        /\ chan'[Writer] = chan[Writer]
        /\ UNCHANGED <<errored, result, refused, unfinished>>
    BY <1>1, <1>3 DEF Close
  <2> QED
    BY <2>1, EmptyFacts DEF Reports, StreamEnds, ReportUnderWay, Failing
<1> QED
  BY <1>2, <1>3 DEF EndStep, Finalize

\* The writer sends on the completion channel.
LEMMA WriterSendStep ==
  ASSUME Typed, Reports, SendSignal(Writer) \/ SendFails(Writer)
  PROVE  Reports'
<1> DEFINE q == chan[Writer]
           o == out[Writer]
<1>1. /\ pc \in [Stages -> {"run", "final", "closing", "done", "panicked"}]
      /\ out \in [Stages -> Seq(Signal)] /\ chan \in [Stages -> Seq(Signal)]
      /\ errored \in [Stages -> BOOLEAN] /\ held \in [Stages -> SUBSET Units]
      /\ Writer \in Stages /\ q \in Seq(Signal) /\ o \in Seq(Signal)
  BY WriterStage DEF Typed
<1>2. CASE SendSignal(Writer)
  <2>1. /\ o # <<>> /\ result = "running"
        /\ chan'[Writer] = Append(q, Head(o)) /\ out'[Writer] = Tail(o)
        /\ UNCHANGED <<pc, errored, result, refused, unfinished>>
    BY <1>1, <1>2 DEF SendSignal, Closed, history
  <2>2. /\ Head(o) \in Signal
        /\ \A k : Holds(o, k) <=> Head(o).kind = k \/ Holds(Tail(o), k)
        /\ StopLast(o) => StopLast(Tail(o))
        /\ StopLast(o) /\ Head(o).kind = "Stop" => Tail(o) = <<>>
    BY <1>1, <2>1, HeadTailFacts
  <2>3. ~Holds(q, "Stop") /\ StopLast(o) /\ (Holds(o, "Stop") => pc[Writer] = "closing")
        /\ pc[Writer] \notin {"done", "panicked"}
    BY <2>1 DEF Reports, StreamEnds
  <2>4. /\ \A k : Holds(Append(q, Head(o)), k) <=> Holds(q, k) \/ Head(o).kind = k
        /\ StopLast(Append(q, Head(o)))
    BY <1>1, <2>2, <2>3, AppendFacts
  <2>5. StreamEnds'
    BY <2>1, <2>2, <2>3, <2>4 DEF StreamEnds
  <2>6. ReportUnderWay'
    BY <2>1, <2>2, <2>4 DEF Reports, ReportUnderWay, Failing
  <2> QED
    BY <2>5, <2>6 DEF Reports
<1>3. CASE SendFails(Writer)
  <2>1. /\ o # <<>> /\ result # "running" /\ out'[Writer] = <<>> /\ chan' = chan
        /\ UNCHANGED <<result, refused, unfinished>>
        /\ (pc' = pc /\ errored' = errored) \/ (pc[Writer] = "run" /\ pc'[Writer] = "final")
    BY <1>1, <1>3 DEF SendFails, SendBreaks, Closed
  <2> QED
    BY <2>1, EmptyFacts DEF Reports, StreamEnds, ReportUnderWay, Failing
<1> QED
  BY <1>2, <1>3

\* drain_completion takes a signal or finds the channel closed.
LEMMA DrainReports ==
  ASSUME Typed, Reports, DrainStep
  PROVE  Reports'
<1> DEFINE q == chan[Writer]
<1>1. chan \in [Stages -> Seq(Signal)] /\ Writer \in Stages /\ q \in Seq(Signal)
  BY WriterStage DEF Typed
<1>2. CASE DrainSignal
  <2>1. /\ q # <<>> /\ result = "running" /\ chan'[Writer] = Tail(q)
        /\ UNCHANGED <<pc, out, errored, refused, unfinished>>
        /\ Head(q).kind = "Stop" => result' = "Ok"
        /\ Head(q).kind = "Error" => result' = "Err"
        /\ Head(q).kind \notin {"Stop", "Error"} => result' = "running"
    BY <1>1, <1>2 DEF DrainSignal, history
  <2>2. /\ \A k : Holds(q, k) <=> Head(q).kind = k \/ Holds(Tail(q), k)
        /\ StopLast(q) => StopLast(Tail(q))
        /\ StopLast(q) /\ Head(q).kind = "Stop" => Tail(q) = <<>>
    BY <1>1, <2>1, HeadTailFacts
  <2>3. StreamEnds'
    BY <2>1, <2>2 DEF Reports, StreamEnds
  <2>4. ReportUnderWay'
    <3>1. CASE Head(q).kind = "Stop"
      <4>1. /\ pc[Writer] \in {"closing", "done"} /\ out[Writer] = <<>> /\ ~Holds(q, "Error")
        BY <2>2, <3>1, EmptyFacts DEF Reports, StreamEnds
      <4> QED
        BY <2>1, <3>1, <4>1, EmptyFacts DEF Reports, ReportUnderWay, Failing
    <3>2. CASE Head(q).kind # "Stop"
      BY <2>1, <2>2, <3>2 DEF Reports, ReportUnderWay, Failing
    <3> QED
      BY <3>1, <3>2
  <2> QED
    BY <2>3, <2>4 DEF Reports
<1>3. CASE DrainDisconnected
  <2>1. /\ q = <<>> /\ result = "running" /\ result' = "Ok" /\ pc[Writer] \in {"done", "panicked"}
        /\ UNCHANGED <<pc, out, chan, errored, refused, unfinished>>
    BY <1>3 DEF DrainDisconnected, Ended, stageVars, history
  <2> QED
    BY <2>1, EmptyFacts DEF Reports, StreamEnds, ReportUnderWay, Failing
<1> QED
  BY <1>2, <1>3 DEF DrainStep

\* Every step keeps the writer's reports on their way.
LEMMA ReportsStep ==
  ASSUME Typed, Reports, [Next]_vars
  PROVE  Reports'
<1>1. CASE Cancel \/ UNCHANGED vars
  BY <1>1, QuietKeeps DEF Cancel, vars, stageVars, history, Quiet
<1>2. ASSUME NEW s \in Stages, StageStep(s), s # Writer PROVE Reports'
  BY <1>2, OthersAreQuiet, QuietKeeps
<1>3. CASE StageStep(Writer)
  BY <1>3, StageFacts, WriterLoopStep, WriterEndStep, WriterSendStep DEF StageStep
<1>4. CASE DrainStep
  BY <1>4, DrainReports
<1> QED
  BY <1>1, <1>2, <1>3, <1>4 DEF Next

\* A batch the writer refused, or a finalize that failed, is never followed by Ok
\* from drain_completion, whatever panics, is cancelled or closes around it.
THEOREM WriteFailureReported == Spec => []WriteFailureIsReported
<1>1. Init => Typed /\ Reports
  <2>1. Init => Typed
    BY StageFacts, ControlFacts, EmptyFacts DEF Init, Typed
  <2>2. Init => Reports
    BY StageFacts, ControlFacts, EmptyFacts DEF Init, Reports, StreamEnds, ReportUnderWay, Failing
  <2> QED
    BY <2>1, <2>2
<1>2. Typed /\ Reports /\ [Next]_vars => (Typed /\ Reports)'
  BY TypedStep, ReportsStep
<1>3. Reports => WriteFailureIsReported
  BY DEF Reports, ReportUnderWay, Failing, WriteFailureIsReported
<1> QED
  BY <1>1, <1>2, <1>3, PTL DEF Spec

-----------------------------------------------------------------------------
\* What is committed.  A committed output is complete and Ok means delivered,
\* because the invariant IInv of OutputPhase is inductive.


\* The functions of a well-typed state.
FnTyped ==
  /\ pc \in [Stages -> {"run", "final", "closing", "done", "panicked"}]
  /\ errored \in [Stages -> BOOLEAN] /\ held \in [Stages -> SUBSET Units]
  /\ out \in [Stages -> Seq(Signal)] /\ chan \in [Stages -> Seq(Signal)]

\* Types of the functions.
LEMMA TypedFns ==
  ASSUME Typed
  PROVE  FnTyped
BY DEF Typed, FnTyped

\* The stages next to one another.
LEMMA Neighbours ==
  /\ Writer \in Stages /\ 1 \in Stages /\ Writer # 1
  /\ \A s \in Stages : s - 1 # s /\ s + 1 # s /\ s + 1 - 1 = s /\ s - 1 + 1 = s /\ s - 1 # Writer
  /\ \A s \in Stages : s # 1 => s > 1 /\ s - 1 \in Stages
  /\ \A s \in Stages : s # Writer => s + 1 \in Stages /\ s + 1 # 1
  /\ \A s \in Stages : ~(1 > 1) /\ (s > 1 => s # 1)
  /\ \A s \in Skipping \cup Validating \cup Folding : s \in Stages /\ s # Writer /\ s # 1
BY ChainAssumption DEF Stages, Writer

-----------------------------------------------------------------------------
\* What a step of one thread may change of the others.

SameStage(s) ==
  pc'[s] = pc[s] /\ errored'[s] = errored[s] /\ held'[s] = held[s] /\ out'[s] = out[s]

Took(s) ==
  \/ chan'[s] = chan[s]
  \/ chan[s] # <<>> /\ chan'[s] = Tail(chan[s])
  \/ chan'[s] = <<>>

\* A thread changes its own stage, its channel and the one it receives from.
LEMMA Shape ==
  ASSUME Typed, NEW t \in Stages, StageStep(t)
  PROVE  /\ \A s \in Stages : s # t => SameStage(s)
         /\ \A s \in Stages : s # t /\ s # t - 1 => chan'[s] = chan[s]
         /\ t # 1 => Took(t - 1)
<1> USE Neighbours, TypedFns DEF FnTyped, SameStage, Took
<1>1. CASE SendSignal(t) \/ SendFails(t)
  BY <1>1 DEF SendSignal, SendFails
<1>2. CASE t = 1 /\ AssemblerStep
  BY <1>2 DEF AssemblerStep, AssembleUnit, AssembleFails, AssembleCancelled, ScanFails, ScanEnds
<1>3. CASE RecvCancelled(t) \/ RecvStart(t) \/ RecvStop(t) \/ RecvError(t) \/ RecvDisconnected(t)
  BY <1>3 DEF RecvCancelled, RecvStart, RecvStop, RecvError, RecvDisconnected, Receive
<1>4. CASE ProcessBatch(t)
  <2>1. ASSUME NEW U \in SUBSET Units, Convert(t, U) \/ Abort(t, U)
        PROVE  /\ \A s \in Stages : s # t => SameStage(s)
               /\ \A s \in Stages : s # t /\ s # t - 1 => chan'[s] = chan[s]
               /\ t # 1 => Took(t - 1)
    <3>1. CASE Convert(t, U)
      BY <3>1 DEF Convert, Receive
    <3>2. CASE Abort(t, U)
      BY <3>2 DEF Abort, Receive
    <3> QED
      BY <2>1, <3>1, <3>2
  <2>2. ASSUME NEW U \in SUBSET Units, Fold(t, U)
        PROVE  /\ \A s \in Stages : s # t => SameStage(s)
               /\ \A s \in Stages : s # t /\ s # t - 1 => chan'[s] = chan[s]
               /\ t # 1 => Took(t - 1)
    BY <2>2 DEF Fold, Receive
  <2>3. CASE Validate(t)
    BY <2>3 DEF Validate, Receive
  <2>4. CASE t = Writer /\ (Write \/ WriteFails)
    BY <2>4 DEF Write, WriteFails, Receive
  <2> QED
    BY <1>4, <2>1, <2>2, <2>3, <2>4 DEF ProcessBatch
<1>5. CASE Panic(t)
  BY <1>5 DEF Panic
<1>6. CASE EndStep(t)
  <2>1. CASE Finalize(t)
    BY <2>1 DEF Finalize
  <2>2. ASSUME NEW ok \in BOOLEAN, FinalizeWriter(ok), t = Writer
        PROVE  /\ \A s \in Stages : s # t => SameStage(s)
               /\ \A s \in Stages : s # t /\ s # t - 1 => chan'[s] = chan[s]
               /\ t # 1 => Took(t - 1)
    BY <2>2 DEF FinalizeWriter
  <2>3. CASE Close(t)
    BY <2>3 DEF Close
  <2> QED
    BY <1>6, <2>1, <2>2, <2>3 DEF EndStep
<1> QED
  BY <1>1, <1>2, <1>3, <1>4, <1>5, <1>6 DEF StageStep, LoopStep

\* What the thread of stage t does to its own stage: it sends, drops what it cannot
\* send, operates with nothing left to send, or ends.
Sends(t) ==
  /\ out[t] # <<>> /\ ~Closed(t) /\ chan'[t] = Append(chan[t], Head(out[t])) /\ out'[t] = Tail(out[t])
  /\ pc'[t] = pc[t] /\ held'[t] = held[t] /\ errored' = errored

Drops(t) ==
  /\ out[t] # <<>> /\ Closed(t) /\ chan' = chan /\ out'[t] = <<>> /\ held'[t] = held[t]
  /\ \/ pc'[t] = pc[t] /\ errored' = errored
     \/ pc[t] = "run" /\ pc'[t] = "final" /\ errored'[t]

Operates(t) ==
  /\ pc[t] \in {"run", "final"} /\ out[t] = <<>> /\ chan'[t] = chan[t]
  /\ pc'[t] \in {"run", "final", "closing"}
  /\ pc'[t] = "run" => pc[t] = "run"
  /\ StopLast(out'[t])
  /\ Holds(out'[t], "Stop") <=> pc'[t] = "closing"
  /\ pc'[t] = "closing" => pc[t] = "final" /\ (t # Writer => held'[t] = {}) /\ (t = Writer => held' = held)
  /\ errored[t] => errored'[t]
  /\ errored'[t] /\ ~errored[t] => Holds(out'[t], "Error")
  /\ pc[t] = "final" => errored' = errored /\ chan' = chan

Panics(t) ==
  pc[t] = "run" /\ out[t] = <<>> /\ chan'[t] = chan[t] /\ pc'[t] = "panicked" /\ out'[t] = <<>>
  /\ held'[t] = {} /\ errored' = errored

Closes(t) ==
  pc[t] = "closing" /\ out[t] = <<>> /\ chan'[t] = chan[t] /\ pc'[t] = "done" /\ out'[t] = <<>>
  /\ held'[t] = held[t] /\ errored' = errored
  /\ (t # 1 => chan'[t - 1] = <<>>)

\* The five cases are all a thread does.
LEMMA OwnShape ==
  ASSUME Typed, NEW t \in Stages, StageStep(t)
  PROVE  Sends(t) \/ Drops(t) \/ Operates(t) \/ Panics(t) \/ Closes(t)
<1> USE Neighbours, TypedFns DEF FnTyped
<1>1. CASE SendSignal(t)
  BY <1>1 DEF SendSignal, Sends
<1>2. CASE SendFails(t)
  BY <1>2 DEF SendFails, SendBreaks, Drops
<1>3. ASSUME NEW u \in Units, AssembleUnit(u), t = 1 PROVE Operates(t)
  <2>1. held[1] \cup {u} \in SUBSET Units
    BY DEF Typed
  <2>2. StopLast(Batch(held[1] \cup {u})) /\ ~Holds(Batch(held[1] \cup {u}), "Stop")
    BY <2>1, BatchFacts
  <2>3. /\ pc[1] = "run" /\ out[1] = <<>> /\ chan' = chan /\ pc' = pc /\ errored' = errored
        /\ out'[1] = <<>> \/ out'[1] = Batch(held[1] \cup {u})
    <3> DEFINE pending == held[1] \cup {u}
    <3>1. CASE Cardinality(pending) >= BatchSize
      <4>1. out' = [out EXCEPT ![1] = Batch(pending)]
        BY <1>3, <3>1 DEF AssembleUnit
      <4> QED
        BY <1>3, <4>1 DEF AssembleUnit, Ready
    <3>2. CASE ~(Cardinality(pending) >= BatchSize)
      <4>1. out' = out
        BY <1>3, <3>2 DEF AssembleUnit
      <4> QED
        BY <1>3, <4>1 DEF AssembleUnit, Ready
    <3> QED
      BY <3>1, <3>2
  <2> QED
    BY <1>3, <2>2, <2>3, EmptyFacts DEF Operates
<1>4. ASSUME NEW u \in Units, AssembleFails(u), t = 1 PROVE Operates(t)
  BY <1>4, ControlFacts DEF AssembleFails, Ready, Operates
<1>5. CASE t = 1 /\ (AssembleCancelled \/ ScanEnds)
  BY <1>5, EmptyFacts DEF AssembleCancelled, ScanEnds, Ready, Operates
<1>6. CASE t = 1 /\ ScanFails
  <2>1. /\ StopLast(Batch(held[1]) \o <<Error>>) /\ ~Holds(Batch(held[1]) \o <<Error>>, "Stop")
        /\ Holds(Batch(held[1]) \o <<Error>>, "Error")
    <3>1. held[1] \in SUBSET Units /\ Error \in Signal /\ Error.kind = "Error"
      BY SignalFacts
    <3> QED
      BY <3>1, BatchFacts
  <2> QED
    BY <1>6, <2>1 DEF ScanFails, Ready, Operates
<1>7. CASE RecvCancelled(t) \/ RecvStart(t) \/ RecvStop(t) \/ RecvDisconnected(t)
  <2>1. CASE RecvCancelled(t)
    BY <2>1, EmptyFacts DEF RecvCancelled, Ready, Operates
  <2>2. CASE RecvStart(t)
    BY <2>2, EmptyFacts DEF RecvStart, Receive, Ready, Operates
  <2>3. CASE RecvStop(t)
    BY <2>3, EmptyFacts DEF RecvStop, Receive, Ready, Operates
  <2>4. CASE RecvDisconnected(t)
    BY <2>4, EmptyFacts DEF RecvDisconnected, Ready, Operates
  <2> QED
    BY <1>7, <2>1, <2>2, <2>3, <2>4
<1>8. CASE RecvError(t)
  BY <1>8, ControlFacts DEF RecvError, Receive, Ready, Operates
<1>9. ASSUME NEW U \in SUBSET Units, Convert(t, U) PROVE Operates(t)
  <2>1. StopLast(Batch(U)) /\ ~Holds(Batch(U), "Stop")
    BY BatchFacts
  <2> QED
    BY <1>9, <2>1 DEF Convert, Receive, Ready, Operates
<1>10. ASSUME NEW U \in SUBSET Units, Abort(t, U) PROVE Operates(t)
  <2>1. /\ StopLast(Batch(U) \o <<Error>>) /\ ~Holds(Batch(U) \o <<Error>>, "Stop")
        /\ Holds(Batch(U) \o <<Error>>, "Error")
    BY BatchFacts, SignalFacts
  <2> QED
    BY <1>10, <2>1 DEF Abort, Receive, Ready, Operates
<1>11. ASSUME NEW U \in SUBSET Units, Fold(t, U) \/ Validate(t) PROVE Operates(t)
  <2>1. t # 1 /\ chan[t - 1] \in Seq(Signal) /\ chan[t - 1] # <<>>
    BY <1>11 DEF Fold, Validate, Receive
  <2>2. Received(t) \in SUBSET Units /\ held[t] \in SUBSET Units
    BY <2>1, HeadTailFacts DEF Received
  <2>3. \A W \in SUBSET Units : StopLast(Batch(W)) /\ ~Holds(Batch(W), "Stop")
    BY BatchFacts
  <2>4. StopLast(out'[t]) /\ ~Holds(out'[t], "Stop")
    <3>1. CASE Fold(t, U)
      <4>1. out'[t] = Batch((held[t] \cup Received(t)) \ U)
        BY <3>1 DEF Fold
      <4> QED
        BY <2>2, <2>3, <4>1
    <3>2. CASE Validate(t)
      BY <2>2, <2>3, <3>2 DEF Validate
    <3> QED
      BY <1>11, <3>1, <3>2
  <2> QED
    BY <1>11, <2>4 DEF Fold, Validate, Receive, Ready, Operates
<1>12. CASE t = Writer /\ Write
  BY <1>12, EmptyFacts DEF Write, Receive, Ready, Operates
<1>13. CASE t = Writer /\ WriteFails
  BY <1>13, ControlFacts DEF WriteFails, Receive, Ready, Operates
<1>14. CASE Panic(t)
  BY <1>14 DEF Panic, Ready, Panics
<1>15. CASE Finalize(t)
  <2>1. StopLast(Batch(held[t]) \o <<Stop>>) /\ Holds(Batch(held[t]) \o <<Stop>>, "Stop")
    <3>1. held[t] \in SUBSET Units /\ Stop \in Signal /\ Stop.kind = "Stop"
      BY SignalFacts
    <3> QED
      BY <3>1, BatchFacts
  <2> QED
    BY <1>15, <2>1 DEF Finalize, Operates
<1>16. ASSUME NEW ok \in BOOLEAN, FinalizeWriter(ok), t = Writer PROVE Operates(t)
  BY <1>16, ControlFacts DEF FinalizeWriter, Operates
<1>17. CASE Close(t)
  BY <1>17 DEF Close, Closes
<1> QED
  BY <1>1, <1>2, <1>3, <1>4, <1>5, <1>6, <1>7, <1>8, <1>9, <1>10, <1>11, <1>12, <1>13, <1>14, <1>15,
     <1>16, <1>17 DEF StageStep, AssemblerStep, LoopStep, ProcessBatch, EndStep

-----------------------------------------------------------------------------
\* Stop closes every stream.

StopCloses(s) ==
  /\ StopLast(chan[s]) /\ StopLast(out[s])
  /\ Holds(chan[s], "Stop") => pc[s] \in {"closing", "done"} /\ out[s] = <<>>
  /\ Holds(out[s], "Stop") => pc[s] = "closing"
  /\ pc[s] = "closing" /\ out[s] # <<>> => Holds(out[s], "Stop")
  /\ pc[s] \in {"closing", "done", "panicked"} => held[s] = {}
  /\ pc[s] \in {"done", "panicked"} => out[s] = <<>>

\* A queue that was taken from holds no Stop it did not hold.
LEMMA TookFacts ==
  ASSUME Typed, NEW s \in Stages, Took(s), StopLast(chan[s])
  PROVE  StopLast(chan[s])' /\ (Holds(chan'[s], "Stop") => Holds(chan[s], "Stop"))
<1>1. chan[s] \in Seq(Signal)
  BY DEF Typed
<1>2. CASE chan[s] # <<>> /\ chan'[s] = Tail(chan[s])
  <2>1. /\ \A k : Holds(chan[s], k) <=> Head(chan[s]).kind = k \/ Holds(Tail(chan[s]), k)
        /\ StopLast(chan[s]) => StopLast(Tail(chan[s]))
    BY <1>1, <1>2, HeadTailFacts
  <2> QED
    BY <1>2, <2>1
<1>3. CASE chan'[s] = <<>>
  BY <1>3, EmptyFacts
<1> QED
  BY <1>2, <1>3 DEF Took

\* A thread keeps the streams closed by Stop.
LEMMA StopClosesStep ==
  ASSUME Typed, StopClosesStream, CompletionCarriesNoUnits, NEW t \in Stages, StageStep(t)
  PROVE  StopClosesStream'
<1>1. ASSUME NEW s \in Stages PROVE StopCloses(s)
  BY DEF StopClosesStream, StopCloses
<1>2. ASSUME NEW s \in Stages, s # t, s # t - 1 PROVE StopCloses(s)'
  BY <1>1, <1>2, Shape DEF StopCloses, SameStage
<1>3. ASSUME NEW s \in Stages, s # t, s = t - 1 PROVE StopCloses(s)'
  <2>1. t # 1
    BY <1>3, StageRange
  <2>2. SameStage(s) /\ Took(s)
    BY <1>3, <2>1, Shape
  <2> QED
    BY <1>1, <2>2, TookFacts DEF StopCloses, SameStage
<1>4. StopCloses(t)'
  <2>0. /\ chan[t] \in Seq(Signal) /\ out[t] \in Seq(Signal)
        /\ pc[t] \in {"run", "final", "closing", "done", "panicked"}
    BY DEF Typed
  <2>1. CASE Sends(t)
    <3>1. /\ Head(out[t]) \in Signal
          /\ \A k : Holds(out[t], k) <=> Head(out[t]).kind = k \/ Holds(Tail(out[t]), k)
          /\ StopLast(out[t]) => StopLast(Tail(out[t]))
          /\ StopLast(out[t]) /\ Head(out[t]).kind = "Stop" => Tail(out[t]) = <<>>
      BY <2>0, <2>1, HeadTailFacts DEF Sends
    <3>2. ~Holds(chan[t], "Stop")
      BY <1>1, <2>1 DEF StopCloses, Sends
    <3>3. /\ \A k : Holds(Append(chan[t], Head(out[t])), k) <=> Holds(chan[t], k) \/ Head(out[t]).kind = k
          /\ StopLast(Append(chan[t], Head(out[t])))
      BY <2>0, <3>1, <3>2, AppendFacts
    <3> QED
      BY <1>1, <2>1, <3>1, <3>2, <3>3, EmptyFacts DEF StopCloses, Sends
  <2>2. CASE Drops(t)
    BY <1>1, <2>2, EmptyFacts DEF StopCloses, Drops
  <2>3. CASE Operates(t)
    BY <1>1, <2>3, EmptyFacts DEF StopCloses, Operates, CompletionCarriesNoUnits
  <2>4. CASE Panics(t)
    BY <1>1, <2>4, EmptyFacts DEF StopCloses, Panics
  <2>5. CASE Closes(t)
    BY <1>1, <2>5, EmptyFacts DEF StopCloses, Closes
  <2> QED
    BY <2>1, <2>2, <2>3, <2>4, <2>5, OwnShape
<1>5. ASSUME NEW s \in Stages PROVE StopCloses(s)'
  BY <1>2, <1>3, <1>4
<1> QED
  BY <1>5 DEF StopClosesStream, StopCloses
-----------------------------------------------------------------------------
\* The Stop of a stage waits for the next one.

Arrives(s) ==
  pc[s] \in {"closing", "done"} /\ out[s] = <<>> /\ pc[s + 1] = "run" => Holds(chan[s], "Stop")

\* A thread that stays in its loop has not taken a Stop.
LEMMA StillRunning ==
  ASSUME Typed, NEW t \in Stages, t # 1, StageStep(t), pc'[t] = "run"
  PROVE  /\ pc[t] = "run"
         /\ \/ chan'[t - 1] = chan[t - 1]
            \/ /\ chan[t - 1] # <<>> /\ chan'[t - 1] = Tail(chan[t - 1])
               /\ Head(chan[t - 1]).kind # "Stop"
<1> USE Neighbours, TypedFns DEF FnTyped
<1>1. CASE SendSignal(t) \/ SendFails(t)
  BY <1>1 DEF SendSignal, SendFails
<1>2. CASE RecvCancelled(t) \/ RecvStart(t) \/ RecvStop(t) \/ RecvError(t) \/ RecvDisconnected(t)
  BY <1>2 DEF RecvCancelled, RecvStart, RecvStop, RecvError, RecvDisconnected, Receive, Ready
<1>3. CASE ProcessBatch(t)
  <2>1. Receive(t, "Data")
    BY <1>3 DEF ProcessBatch, Convert, Abort, Fold, Validate, Write, WriteFails
  <2> QED
    BY <2>1 DEF Receive, Ready
<1>4. CASE Panic(t)
  BY <1>4 DEF Panic
<1>5. CASE EndStep(t)
  BY <1>5 DEF EndStep, Finalize, FinalizeWriter, Close
<1> QED
  BY <1>1, <1>2, <1>3, <1>4, <1>5 DEF StageStep, LoopStep

\* A thread keeps every Stop where the next stage finds it.
LEMMA StopArrivesStep ==
  ASSUME Typed, StopClosesStream, StopArrives, NEW t \in Stages, StageStep(t)
  PROVE  StopArrives'
<1> SUFFICES ASSUME NEW s \in Stages \ {Writer} PROVE Arrives(s)'
  BY DEF StopArrives, Arrives
<1>1. Arrives(s) /\ StopCloses(s) /\ s + 1 \in Stages /\ s + 1 # s /\ s + 1 # 1 /\ s + 1 - 1 = s
  BY Neighbours DEF StopArrives, Arrives, StopClosesStream, StopCloses
<1>2. chan[s] \in Seq(Signal) /\ out[s] \in Seq(Signal)
  BY DEF Typed
<1>3. CASE t = s
  <2>1. pc'[s + 1] = pc[s + 1]
    BY <1>1, <1>3, Shape DEF SameStage
  <2>2. CASE Sends(t)
    <3>1. /\ Head(out[s]) \in Signal
          /\ \A k : Holds(out[s], k) <=> Head(out[s]).kind = k \/ Holds(Tail(out[s]), k)
      BY <1>2, <1>3, <2>2, HeadTailFacts DEF Sends
    <3>2. \A k : Holds(Append(chan[s], Head(out[s])), k) <=> Holds(chan[s], k) \/ Head(out[s]).kind = k
      BY <1>2, <3>1, AppendFacts
    <3> QED
      BY <1>1, <1>3, <2>1, <2>2, <3>1, <3>2, EmptyFacts DEF Sends, Arrives, StopCloses
  <2>3. CASE Drops(t)
    BY <1>1, <1>3, <2>1, <2>3 DEF Drops, Closed, Ended, Arrives
  <2>4. CASE Operates(t)
    BY <1>3, <2>4, EmptyFacts DEF Operates, Arrives
  <2>5. CASE Panics(t)
    BY <1>3, <2>5 DEF Panics, Arrives
  <2>6. CASE Closes(t)
    BY <1>1, <1>3, <2>1, <2>6 DEF Closes, Arrives
  <2> QED
    BY <2>2, <2>3, <2>4, <2>5, <2>6, OwnShape
<1>4. CASE t = s + 1
  <2>1. SameStage(s) /\ t # 1 /\ t - 1 = s
    BY <1>1, <1>4, Shape
  <2>2. ASSUME pc'[t] = "run"
        PROVE  /\ pc[t] = "run"
               /\ \/ chan'[s] = chan[s]
                  \/ chan[s] # <<>> /\ chan'[s] = Tail(chan[s]) /\ Head(chan[s]).kind # "Stop"
    BY <2>1, <2>2, StillRunning
  <2>3. chan[s] # <<>> => \A k : Holds(chan[s], k) <=> Head(chan[s]).kind = k \/ Holds(Tail(chan[s]), k)
    BY <1>2, HeadTailFacts
  <2> QED
    BY <1>1, <1>4, <2>1, <2>2, <2>3 DEF Arrives, SameStage
<1>5. CASE t # s /\ t # s + 1
  <2>1. s # t - 1
    BY <1>5, StageRange
  <2> QED
    BY <1>1, <1>5, <2>1, Shape DEF Arrives, SameStage
<1> QED
  BY <1>3, <1>4, <1>5

-----------------------------------------------------------------------------
\* Failures are accounted for.

\* What else a step may change while there is no cancellation and no panic.
Effects(t) ==
  /\ todo' \subseteq todo
  /\ \/ lost' = lost
     \/ errored'[t]
     \/ out[t] # <<>> /\ Closed(t) /\ lost' = lost \cup UnitsIn(out[t])
     \/ pc[t] = "closing" /\ t # 1 /\ lost' = lost \cup UnitsIn(chan[t - 1])
  /\ t # 1 /\ Holds(chan[t - 1], "Error") =>
       Holds(chan'[t - 1], "Error") \/ errored'[t] \/ pc[t] = "closing"
  /\ pc[t] = "run" /\ pc'[t] = "final" /\ ~errored'[t] =>
       \/ t = 1 /\ todo' = {}
       \/ t # 1 /\ chan[t - 1] # <<>> /\ Head(chan[t - 1]).kind = "Stop" /\ chan'[t - 1] = Tail(chan[t - 1])
       \/ t # 1 /\ chan[t - 1] = <<>> /\ Ended(t - 1) /\ chan' = chan

\* Every step of a thread keeps to these effects.
LEMMA EffectsOfStep ==
  ASSUME Typed, NEW t \in Stages, StageStep(t), ~cancel, pc'[t] # "panicked"
  PROVE  Effects(t)
<1> USE Neighbours, TypedFns DEF FnTyped
<1>1. CASE SendSignal(t)
  BY <1>1 DEF SendSignal, Effects, history
<1>2. CASE SendFails(t)
  <2>1. CASE SendBreaks(t)
    BY <1>2, <2>1 DEF SendFails, SendBreaks, Effects
  <2>2. CASE ~SendBreaks(t)
    BY <1>2, <2>2 DEF SendFails, Effects
  <2> QED
    BY <2>1, <2>2
<1>3. CASE t = 1 /\ AssemblerStep
  BY <1>3 DEF AssemblerStep, AssembleUnit, AssembleFails, AssembleCancelled, ScanFails, ScanEnds, Effects,
              Ready, history
<1>4. ASSUME t # 1, chan[t - 1] # <<>>, Head(chan[t - 1]).kind # "Error", chan'[t - 1] = Tail(chan[t - 1])
      PROVE  Holds(chan[t - 1], "Error") => Holds(chan'[t - 1], "Error")
  <2>1. chan[t - 1] \in Seq(Signal)
    BY <1>4
  <2>2. Holds(chan[t - 1], "Error") <=> Head(chan[t - 1]).kind = "Error" \/ Holds(Tail(chan[t - 1]), "Error")
    BY <1>4, <2>1, HeadTailFacts
  <2> QED
    BY <1>4, <2>2
<1>5. CASE RecvStart(t) \/ RecvStop(t)
  <2>1. /\ t # 1 /\ chan[t - 1] # <<>> /\ Head(chan[t - 1]).kind # "Error" /\ chan'[t - 1] = Tail(chan[t - 1])
        /\ todo' = todo /\ lost' = lost
        /\ pc'[t] = "final" => Head(chan[t - 1]).kind = "Stop"
    BY <1>5 DEF RecvStart, RecvStop, Receive, Ready, history
  <2> QED
    BY <1>4, <2>1 DEF Effects
<1>6. CASE RecvError(t)
  BY <1>6 DEF RecvError, Receive, Effects, history
<1>7. CASE RecvDisconnected(t)
  BY <1>7 DEF RecvDisconnected, Effects, history
<1>8. CASE ProcessBatch(t)
  <2>1. Receive(t, "Data")
    BY <1>8 DEF ProcessBatch, Convert, Abort, Fold, Validate, Write, WriteFails
  <2>2. t # 1 /\ chan[t - 1] # <<>> /\ Head(chan[t - 1]).kind # "Error" /\ chan'[t - 1] = Tail(chan[t - 1])
    BY <2>1 DEF Receive
  <2>3. todo' = todo /\ (errored'[t] \/ (lost' = lost /\ pc' = pc))
    BY <1>8 DEF ProcessBatch, Convert, Abort, Fold, Validate, Write, WriteFails, history
  <2> QED
    BY <1>4, <2>2, <2>3 DEF Effects
<1>9. CASE RecvCancelled(t) \/ Panic(t)
  BY <1>9 DEF RecvCancelled, Panic
<1>10. CASE EndStep(t)
  <2>1. CASE Finalize(t) \/ \E ok \in BOOLEAN : t = Writer /\ FinalizeWriter(ok)
    BY <2>1 DEF Finalize, FinalizeWriter, Effects, history
  <2>2. CASE Close(t)
    <3>1. pc[t] = "closing" /\ pc'[t] = "done" /\ todo' = todo
      BY <2>2 DEF Close
    <3>2. (t = 1 /\ lost' = lost) \/ (t # 1 /\ lost' = lost \cup UnitsIn(chan[t - 1]))
      BY <2>2 DEF Close
    <3> QED
      BY <3>1, <3>2 DEF Effects
  <2> QED
    BY <1>10, <2>1, <2>2 DEF EndStep
<1> QED
  BY <1>1, <1>2, <1>3, <1>5, <1>6, <1>7, <1>8, <1>9, <1>10 DEF StageStep, LoopStep

Travels(s) == errored[s] => errored[s + 1] \/ Holds(out[s], "Error") \/ Holds(chan[s], "Error")
Clean(s) ==
  LeftLoop(s) /\ ~errored[s] =>
    todo = {} /\ \A r \in Stages : r < s => Drained(r) /\ ~errored[r] /\ chan[r] = <<>>

\* A stage whose sends fail has a failed stage below it.
LEMMA DropIsFailure ==
  ASSUME Typed, NoPanic, CleanEnd, NEW t \in Stages \ {Writer}, out[t] # <<>>, Closed(t)
  PROVE  errored[t + 1]
<1>1. t + 1 \in Stages /\ pc[t + 1] = "done" /\ t < t + 1 /\ t \in Stages
  BY StageRange DEF Closed, Ended, NoPanic
<1> QED
  BY <1>1 DEF CleanEnd, LeftLoop, Drained

\* A closing stage that has not failed leaves nothing in its channel.
LEMMA CleanClose ==
  ASSUME Typed, CleanEnd, NEW t \in Stages, t # 1, pc[t] \in {"closing", "final", "done"}, ~errored[t]
  PROVE  chan[t - 1] = <<>> /\ ~errored[t - 1]
<1>1. t - 1 \in Stages /\ t - 1 < t
  BY StageRange
<1> QED
  BY <1>1 DEF CleanEnd, LeftLoop

\* Each thread passes its failure on.
LEMMA TravelsStep ==
  ASSUME Typed, NoPanic, CleanEnd, FailureTravels, NEW t \in Stages, StageStep(t), ~cancel,
         pc'[t] # "panicked"
  PROVE  FailureTravels'
<1> SUFFICES ASSUME NEW s \in Stages \ {Writer} PROVE Travels(s)'
  BY DEF FailureTravels, Travels
<1>1. Travels(s) /\ s + 1 \in Stages /\ s + 1 # s /\ s + 1 # 1 /\ s + 1 - 1 = s
  BY Neighbours DEF FailureTravels, Travels
<1>2. chan[s] \in Seq(Signal) /\ out[s] \in Seq(Signal)
  BY DEF Typed
<1>3. CASE t = s
  <2>1. errored'[s + 1] = errored[s + 1]
    BY <1>1, <1>3, Shape DEF SameStage
  <2>2. CASE Sends(t)
    <3>1. /\ Head(out[s]) \in Signal
          /\ \A k : Holds(out[s], k) <=> Head(out[s]).kind = k \/ Holds(Tail(out[s]), k)
      BY <1>2, <1>3, <2>2, HeadTailFacts DEF Sends
    <3>2. \A k : Holds(Append(chan[s], Head(out[s])), k) <=> Holds(chan[s], k) \/ Head(out[s]).kind = k
      BY <1>2, <3>1, AppendFacts
    <3> QED
      BY <1>1, <1>3, <2>1, <2>2, <3>1, <3>2 DEF Sends, Travels
  <2>3. CASE Drops(t)
    <3>1. errored[s + 1]
      BY <1>3, <2>3, DropIsFailure DEF Drops
    <3> QED
      BY <2>1, <3>1 DEF Travels
  <2>4. CASE Operates(t)
    BY <1>1, <1>3, <2>1, <2>4, EmptyFacts DEF Operates, Travels
  <2>5. CASE Closes(t)
    BY <1>1, <1>3, <2>1, <2>5, EmptyFacts DEF Closes, Travels
  <2> QED
    BY <2>2, <2>3, <2>4, <2>5, OwnShape DEF Panics
<1>4. CASE t = s + 1
  <2>1. SameStage(s) /\ t # 1 /\ t - 1 = s
    BY <1>1, <1>4, Shape
  <2>2. errored[t] => errored'[t]
    BY OwnShape DEF Sends, Drops, Operates, Panics, Closes
  <2>3. Holds(chan[s], "Error") => Holds(chan'[s], "Error") \/ errored'[t] \/ pc[t] = "closing"
    BY <2>1, EffectsOfStep DEF Effects
  <2>4. pc[t] = "closing" /\ ~errored[t] => ~errored[s]
    BY <2>1, CleanClose
  <2> QED
    BY <1>1, <1>4, <2>1, <2>2, <2>3, <2>4 DEF Travels, SameStage
<1>5. CASE t # s /\ t # s + 1
  <2>1. s # t - 1
    BY <1>5, StageRange
  <2> QED
    BY <1>1, <1>5, <2>1, Shape DEF Travels, SameStage
<1> QED
  BY <1>3, <1>4, <1>5

\* A stage leaves its loop cleanly only when all above it are drained.
LEMMA CleanStep ==
  ASSUME Typed, NoPanic, StopClosesStream, StopArrives, CleanEnd, FailureTravels,
         NEW t \in Stages, StageStep(t), ~cancel, pc'[t] # "panicked"
  PROVE  CleanEnd'
<1> SUFFICES ASSUME NEW s \in Stages, LeftLoop(s)', ~errored'[s]
             PROVE  /\ todo' = {}
                    /\ \A r \in Stages : r < s => Drained(r)' /\ ~errored'[r] /\ chan'[r] = <<>>
  BY DEF CleanEnd
<1>1. todo' \subseteq todo
  BY EffectsOfStep DEF Effects
<1>2. CASE t = s
  <2>1. \A r \in Stages : r < s => /\ SameStage(r) /\ r # s
                                   /\ r # s - 1 => chan'[r] = chan[r]
                                   /\ r = s - 1 => Took(r) /\ s # 1
    <3>1. \A r \in Stages : r < s => r # s /\ (r = s - 1 => s # 1)
      BY StageRange
    <3> QED
      BY <1>2, <3>1, Shape
  <2>2. CASE LeftLoop(s) /\ ~errored[s]
    <3>1. todo = {} /\ \A r \in Stages : r < s => Drained(r) /\ ~errored[r] /\ chan[r] = <<>>
      BY <2>2 DEF CleanEnd
    <3> QED
      BY <1>1, <2>1, <3>1 DEF SameStage, Took, Drained
  <2>3. CASE ~(LeftLoop(s) /\ ~errored[s])
    <3>1. pc[s] = "run" /\ pc'[s] = "final"
      BY <1>2, <2>3, OwnShape DEF Sends, Drops, Operates, Panics, Closes, LeftLoop
    <3>2. CASE s = 1
      <4>1. todo' = {}
        BY <1>2, <3>1, <3>2, EffectsOfStep DEF Effects
      <4>2. \A r \in Stages : ~(r < s)
        BY <3>2, StageRange
      <4> QED
        BY <4>1, <4>2
    <3>3. CASE s # 1
      <4>1. \/ chan[s - 1] # <<>> /\ Head(chan[s - 1]).kind = "Stop" /\ chan'[s - 1] = Tail(chan[s - 1])
            \/ chan[s - 1] = <<>> /\ Ended(s - 1) /\ chan' = chan
        BY <1>2, <3>1, <3>3, EffectsOfStep DEF Effects
      <4>2. /\ s - 1 \in Stages \ {Writer} /\ s - 1 + 1 = s /\ chan[s - 1] \in Seq(Signal)
            /\ StopCloses(s - 1) /\ Arrives(s - 1) /\ Travels(s - 1)
        <5>1. s - 1 \in Stages \ {Writer} /\ s - 1 + 1 = s
          BY <3>3, Neighbours
        <5> QED
          BY <5>1 DEF Typed, StopClosesStream, StopCloses, StopArrives, Arrives, FailureTravels, Travels
      <4>3. ~(chan[s - 1] = <<>> /\ Ended(s - 1))
        BY <3>1, <4>2, EmptyFacts DEF Ended, NoPanic, StopCloses, Arrives
      <4>4. /\ chan[s - 1] # <<>> /\ Head(chan[s - 1]).kind = "Stop" /\ chan'[s - 1] = Tail(chan[s - 1])
        BY <4>1, <4>3
      <4>5. chan'[s - 1] = <<>> /\ Holds(chan[s - 1], "Stop") /\ ~Holds(chan[s - 1], "Error")
        <5>1. /\ \A k : Holds(chan[s - 1], k) <=> Head(chan[s - 1]).kind = k \/ Holds(Tail(chan[s - 1]), k)
              /\ StopLast(chan[s - 1]) /\ Head(chan[s - 1]).kind = "Stop" => Tail(chan[s - 1]) = <<>>
          BY <4>2, <4>4, HeadTailFacts
        <5> QED
          BY <4>2, <4>4, <5>1, EmptyFacts DEF StopCloses
      <4>6. Drained(s - 1) /\ LeftLoop(s - 1)
        BY <4>2, <4>5 DEF StopCloses, Drained, LeftLoop
      <4>7. ~errored[s]
        BY <1>2, OwnShape DEF Sends, Drops, Operates, Panics, Closes
      <4>8. ~errored[s - 1]
        BY <4>2, <4>5, <4>6, <4>7, EmptyFacts DEF Travels, Drained
      <4>9. todo = {} /\ \A r \in Stages : r < s - 1 => Drained(r) /\ ~errored[r] /\ chan[r] = <<>>
        BY <4>2, <4>6, <4>8 DEF CleanEnd
      <4>10. \A r \in Stages : r < s => r = s - 1 \/ r < s - 1
        BY StageRange
      <4> QED
        BY <1>1, <2>1, <4>5, <4>6, <4>8, <4>9, <4>10 DEF SameStage, Took, Drained
    <3> QED
      BY <3>2, <3>3
  <2> QED
    BY <2>2, <2>3
<1>3. CASE t # s
  <2>1. LeftLoop(s) /\ ~errored[s]
    BY <1>3, Shape DEF SameStage, LeftLoop
  <2>2. todo = {} /\ \A r \in Stages : r < s => Drained(r) /\ ~errored[r] /\ chan[r] = <<>>
    BY <2>1 DEF CleanEnd
  <2>3. CASE t < s
    <3>1. Closes(t)
      BY <2>2, <2>3, OwnShape DEF Sends, Drops, Operates, Panics, Drained
    <3>2. Drained(t)' /\ ~errored'[t] /\ chan'[t] = <<>>
      BY <2>2, <2>3, <3>1 DEF Closes, Drained
    <3>3. ASSUME NEW r \in Stages, r < s, r # t PROVE Drained(r)' /\ ~errored'[r] /\ chan'[r] = <<>>
      <4>1. SameStage(r) /\ (r # t - 1 => chan'[r] = chan[r])
        BY <3>3, Shape
      <4>2. r = t - 1 => chan'[r] = <<>>
        <5>1. r = t - 1 => t # 1
          BY StageRange
        <5> QED
          BY <3>1, <5>1 DEF Closes
      <4> QED
        BY <2>2, <3>3, <4>1, <4>2 DEF SameStage, Drained
    <3> QED
      BY <1>1, <2>2, <3>2, <3>3
  <2>4. CASE ~(t < s)
    <3>1. \A r \in Stages : r < s => r # t /\ r # t - 1
      BY <1>3, <2>4, StageRange
    <3>2. \A r \in Stages : r < s => SameStage(r) /\ chan'[r] = chan[r]
      BY <3>1, Shape
    <3> QED
      BY <1>1, <2>2, <3>2 DEF SameStage, Drained
  <2> QED
    BY <2>3, <2>4
<1> QED
  BY <1>2, <1>3

\* A unit is dropped only with a failure.
LEMMA LossStep ==
  ASSUME Typed, NoPanic, CleanEnd, LossIsFailure, CompletionCarriesNoUnits,
         NEW t \in Stages, StageStep(t), ~cancel, pc'[t] # "panicked"
  PROVE  LossIsFailure'
<1>1. \A s \in Stages : errored[s] => errored'[s]
  <2>1. errored[t] => errored'[t]
    BY OwnShape DEF Sends, Drops, Operates, Panics, Closes
  <2> QED
    BY <2>1, Shape DEF SameStage
<1>2. CASE lost' = lost
  BY <1>1, <1>2 DEF LossIsFailure
<1>3. CASE errored'[t]
  BY <1>3 DEF LossIsFailure
<1>4. CASE out[t] # <<>> /\ Closed(t) /\ lost' = lost \cup UnitsIn(out[t])
  <2>1. CASE t = Writer
    BY <1>1, <1>4, <2>1 DEF LossIsFailure, CompletionCarriesNoUnits
  <2>2. CASE t # Writer
    <3>1. errored[t + 1] /\ t + 1 \in Stages
      BY <1>4, <2>2, DropIsFailure, Neighbours
    <3> QED
      BY <1>1, <3>1 DEF LossIsFailure
  <2> QED
    BY <2>1, <2>2
<1>5. CASE pc[t] = "closing" /\ t # 1 /\ lost' = lost \cup UnitsIn(chan[t - 1])
  <2>1. CASE errored[t]
    BY <1>1, <2>1 DEF LossIsFailure
  <2>2. CASE ~errored[t]
    <3>1. UnitsIn(chan[t - 1]) = {}
      BY <1>5, <2>2, CleanClose, EmptyFacts
    <3> QED
      BY <1>1, <1>5, <3>1 DEF LossIsFailure
  <2> QED
    BY <2>1, <2>2
<1> QED
  BY <1>2, <1>3, <1>4, <1>5, EffectsOfStep DEF Effects
-----------------------------------------------------------------------------
\* Every unit is somewhere.

Settled == todo \cup delivered \cup refused \cup skipped \cup lost
Carried(t) == held[t] \cup UnitsIn(out[t]) \cup UnitsIn(chan[t])

\* What a step moves out of a place it moves into another.
Flows(t) ==
  /\ Carried(t) \cup Settled \subseteq Carried(t)' \cup Settled'
  /\ t # 1 => UnitsIn(chan[t - 1]) \subseteq UnitsIn(chan[t - 1])' \cup Carried(t)' \cup Settled'

\* Moving units between one stage, the channel above it and the settled ones loses none.
LEMMA FlowKeeps ==
  ASSUME Typed, Conservation, NEW t \in Stages, StageStep(t), Flows(t)
  PROVE  Conservation'
<1>1. ASSUME NEW u PROVE u \in Settled \/ (\E s \in Stages : u \in Carried(s)) <=>
                         u \in todo \cup delivered \cup refused \cup skipped \cup lost \/ InFlight(u)
  BY DEF Settled, Carried, InFlight
<1>2. ASSUME NEW u PROVE (u \in Settled \/ \E s \in Stages : u \in Carried(s))' <=>
                         (u \in todo \cup delivered \cup refused \cup skipped \cup lost \/ InFlight(u))'
  BY DEF Settled, Carried, InFlight
<1>3. ASSUME NEW u, NEW s \in Stages, u \in Carried(s)
      PROVE  u \in Settled' \/ \E r \in Stages : u \in Carried(r)'
  <2>1. CASE s = t
    BY <1>3, <2>1 DEF Flows
  <2>2. CASE s # t /\ s # t - 1
    <3>1. Carried(s)' = Carried(s)
      BY <2>2, Shape DEF SameStage, Carried
    <3> QED
      BY <1>3, <3>1
  <2>3. CASE s # t /\ s = t - 1
    <3>1. t # 1
      BY <2>3, StageRange
    <3>2. held'[s] = held[s] /\ out'[s] = out[s]
      BY <2>3, Shape DEF SameStage
    <3>3. CASE u \in held[s] \cup UnitsIn(out[s])
      BY <3>2, <3>3 DEF Carried
    <3>4. CASE u \in UnitsIn(chan[s])
      <4>1. u \in UnitsIn(chan[s])' \cup Carried(t)' \cup Settled'
        BY <2>3, <3>1, <3>4 DEF Flows
      <4> QED
        BY <4>1 DEF Carried
    <3> QED
      BY <1>3, <3>3, <3>4 DEF Carried
  <2> QED
    BY <2>1, <2>2, <2>3
<1>4. ASSUME NEW u \in Units PROVE u \in Settled' \/ \E r \in Stages : u \in Carried(r)'
  <2>1. u \in Settled \/ \E s \in Stages : u \in Carried(s)
    BY <1>1 DEF Conservation
  <2>2. u \in Settled => u \in Carried(t)' \cup Settled'
    BY DEF Flows
  <2> QED
    BY <1>3, <2>1, <2>2
<1> QED
  BY <1>2, <1>4 DEF Conservation

\* A thread that takes a signal and does something with its units.
LEMMA ReceiveFlows ==
  ASSUME Typed, NEW t \in Stages, t # 1, chan[t - 1] # <<>>, chan'[t - 1] = Tail(chan[t - 1]),
         out[t] = <<>>, chan'[t] = chan[t], Settled \subseteq Settled',
         held[t] \cup Received(t) \subseteq held'[t] \cup UnitsIn(out'[t]) \cup Settled'
  PROVE  Flows(t)
<1>1. chan[t - 1] \in Seq(Signal)
  BY Neighbours DEF Typed
<1>2. UnitsIn(chan[t - 1]) = Received(t) \cup UnitsIn(Tail(chan[t - 1]))
  BY <1>1, HeadTailFacts DEF Received
<1> QED
  BY <1>2, EmptyFacts DEF Flows, Carried

\* No step of a thread loses a unit.
LEMMA StepFlows ==
  ASSUME Typed, StopClosesStream, NEW t \in Stages, StageStep(t)
  PROVE  Flows(t)
<1> USE Neighbours, TypedFns DEF FnTyped
<1>1. CASE SendSignal(t)
  <2>1. /\ out[t] # <<>> /\ chan' = [chan EXCEPT ![t] = Append(chan[t], Head(out[t]))]
        /\ out'[t] = Tail(out[t])
        /\ held' = held /\ Settled' = Settled
    BY <1>1 DEF SendSignal, history, Settled
  <2>2. Head(out[t]) \in Signal /\ UnitsIn(out[t]) = Head(out[t]).units \cup UnitsIn(Tail(out[t]))
    BY <2>1, HeadTailFacts
  <2>3. UnitsIn(Append(chan[t], Head(out[t]))) = UnitsIn(chan[t]) \cup Head(out[t]).units
    BY <2>2, AppendFacts
  <2>4. chan'[t] = Append(chan[t], Head(out[t])) /\ (t # 1 => chan'[t - 1] = chan[t - 1])
    BY <2>1
  <2> QED
    BY <2>1, <2>2, <2>3, <2>4 DEF Flows, Carried
<1>2. CASE SendFails(t)
  <2>1. /\ out'[t] = <<>> /\ chan' = chan /\ held' = held
        /\ UnitsIn(out[t]) \subseteq lost' /\ lost \subseteq lost' /\ todo \subseteq todo' \cup lost'
        /\ UNCHANGED <<delivered, refused, skipped>>
    BY <1>2 DEF SendFails
  <2> QED
    BY <2>1 DEF Flows, Carried, Settled
<1>3. ASSUME NEW u \in Units, AssembleUnit(u), t = 1 PROVE Flows(t)
  <2> DEFINE pending == held[1] \cup {u}
  <2>1. out[1] = <<>> /\ chan' = chan /\ todo' = todo \ {u} /\ UNCHANGED <<delivered, refused, skipped, lost>>
    BY <1>3 DEF AssembleUnit, Ready, history
  <2>2. UnitsIn(Batch(pending)) = pending
    <3>1. pending \in SUBSET Units
      BY DEF Typed
    <3> QED
      BY <3>1, BatchFacts
  <2>3. (held'[1] = {} /\ out'[1] = Batch(pending)) \/ held'[1] = pending
    <3>1. CASE Cardinality(pending) >= BatchSize
      <4>1. held' = [held EXCEPT ![1] = {}] /\ out' = [out EXCEPT ![1] = Batch(pending)]
        BY <1>3, <3>1 DEF AssembleUnit
      <4> QED
        BY <4>1
    <3>2. CASE ~(Cardinality(pending) >= BatchSize)
      <4>1. held' = [held EXCEPT ![1] = pending]
        BY <1>3, <3>2 DEF AssembleUnit
      <4> QED
        BY <4>1
    <3> QED
      BY <3>1, <3>2
  <2>4. UnitsIn(out[1]) = {} /\ pending \subseteq held'[1] \cup UnitsIn(out'[1])
    BY <2>1, <2>2, <2>3, EmptyFacts
  <2> QED
    BY <1>3, <2>1, <2>4 DEF Flows, Carried, Settled
<1>4. ASSUME NEW u \in Units, AssembleFails(u), t = 1 PROVE Flows(t)
  BY <1>4, EmptyFacts DEF AssembleFails, Ready, Flows, Carried, Settled
<1>5. CASE t = 1 /\ (AssembleCancelled \/ ScanEnds)
  BY <1>5 DEF AssembleCancelled, ScanEnds, history, Flows, Carried, Settled
<1>6. CASE t = 1 /\ ScanFails
  <2>1. /\ out[1] = <<>> /\ chan' = chan /\ todo' = {} /\ lost' = lost \cup todo
        /\ out'[1] = Batch(held[1]) \o <<Error>> /\ UNCHANGED <<delivered, refused, skipped>>
    BY <1>6 DEF ScanFails, Ready
  <2>2. UnitsIn(Batch(held[1]) \o <<Error>>) = held[1] \cup Error.units
    <3>1. held[1] \in SUBSET Units /\ Error \in Signal
      BY SignalFacts
    <3> QED
      BY <3>1, BatchFacts
  <2>3. UnitsIn(out[1]) = {} /\ held[1] \subseteq UnitsIn(out'[1])
    BY <2>1, <2>2, EmptyFacts
  <2>4. Settled \subseteq Settled'
    BY <2>1 DEF Settled
  <2>5. Carried(1) \subseteq Carried(1)'
    BY <2>1, <2>3 DEF Carried
  <2> QED
    BY <1>6, <2>4, <2>5 DEF Flows
<1>7. CASE RecvCancelled(t)
  <2>1. /\ t # 1 /\ chan[t - 1] # <<>> /\ chan'[t - 1] = Tail(chan[t - 1]) /\ out[t] = <<>>
        /\ chan'[t] = chan[t] /\ lost' = lost \cup Received(t) /\ held' = held
        /\ UNCHANGED <<todo, delivered, refused, skipped>>
    BY <1>7 DEF RecvCancelled, Ready
  <2> QED
    BY <2>1, ReceiveFlows DEF Settled
<1>8. CASE RecvStart(t) \/ RecvStop(t) \/ RecvError(t)
  <2>1. /\ t # 1 /\ chan[t - 1] # <<>> /\ chan'[t - 1] = Tail(chan[t - 1]) /\ out[t] = <<>>
        /\ chan'[t] = chan[t] /\ held' = held /\ Head(chan[t - 1]).kind # "Data"
        /\ UNCHANGED <<todo, delivered, refused, skipped, lost>>
    BY <1>8 DEF RecvStart, RecvStop, RecvError, Receive, Ready, history
  <2>2. chan[t - 1] \in Seq(Signal)
    BY <2>1
  <2>3. Received(t) = {}
    BY <2>1, <2>2, HeadTailFacts DEF Received
  <2> QED
    BY <2>1, <2>3, ReceiveFlows DEF Settled
<1>9. CASE RecvDisconnected(t)
  BY <1>9 DEF RecvDisconnected, history, Flows, Carried, Settled
<1>10. ASSUME Receive(t, "Data")
       PROVE  /\ t # 1 /\ chan[t - 1] # <<>> /\ chan'[t - 1] = Tail(chan[t - 1]) /\ out[t] = <<>>
              /\ chan'[t] = chan[t] /\ Received(t) \in SUBSET Units
  <2>1. t # 1 /\ chan[t - 1] # <<>> /\ chan'[t - 1] = Tail(chan[t - 1]) /\ out[t] = <<>> /\ chan'[t] = chan[t]
    BY <1>10 DEF Receive, Ready
  <2>2. chan[t - 1] \in Seq(Signal)
    BY <2>1
  <2> QED
    BY <2>1, <2>2, HeadTailFacts DEF Received
<1>11. ASSUME NEW U \in SUBSET Units, Convert(t, U) PROVE Flows(t)
  <2>1. UnitsIn(Batch(U)) = U
    BY BatchFacts
  <2>2. /\ Receive(t, "Data") /\ out'[t] = Batch(U) /\ held' = held
        /\ skipped' = skipped \cup (Received(t) \ U) /\ UNCHANGED <<todo, delivered, refused, lost>>
    BY <1>11 DEF Convert
  <2>3. Settled \subseteq Settled' /\ held[t] \cup Received(t) \subseteq held'[t] \cup UnitsIn(out'[t]) \cup Settled'
    BY <2>1, <2>2 DEF Settled
  <2> QED
    BY <1>10, <2>2, <2>3, ReceiveFlows
<1>12. ASSUME NEW U \in SUBSET Units, Abort(t, U) PROVE Flows(t)
  <2>1. UnitsIn(Batch(U) \o <<Error>>) = U \cup Error.units
    BY BatchFacts, SignalFacts
  <2>2. /\ Receive(t, "Data") /\ out'[t] = Batch(U) \o <<Error>> /\ held' = held
        /\ lost' = lost \cup (Received(t) \ U) /\ UNCHANGED <<todo, delivered, refused, skipped>>
    BY <1>12 DEF Abort
  <2>3. Settled \subseteq Settled' /\ held[t] \cup Received(t) \subseteq held'[t] \cup UnitsIn(out'[t]) \cup Settled'
    BY <2>1, <2>2 DEF Settled
  <2> QED
    BY <1>10, <2>2, <2>3, ReceiveFlows
<1>13. ASSUME NEW U \in SUBSET Units, Fold(t, U) PROVE Flows(t)
  <2> DEFINE rest == (held[t] \cup Received(t)) \ U
  <2>1. /\ Receive(t, "Data") /\ held'[t] = U /\ out'[t] = Batch(rest)
        /\ UNCHANGED <<todo, delivered, refused, skipped, lost>>
    BY <1>13 DEF Fold, history
  <2>2. rest \in SUBSET Units
    BY <1>10, <2>1
  <2>3. UnitsIn(Batch(rest)) = rest
    BY <2>2, BatchFacts
  <2>4. Settled \subseteq Settled' /\ held[t] \cup Received(t) \subseteq held'[t] \cup UnitsIn(out'[t]) \cup Settled'
    BY <2>1, <2>3 DEF Settled
  <2> QED
    BY <1>10, <2>1, <2>4, ReceiveFlows
<1>14. CASE Validate(t)
  <2>1. /\ Receive(t, "Data") /\ held' = held /\ out'[t] = Batch(Received(t))
        /\ UNCHANGED <<todo, delivered, refused, skipped, lost>>
    BY <1>14 DEF Validate, history
  <2>2. UnitsIn(Batch(Received(t))) = Received(t)
    BY <1>10, <2>1, BatchFacts
  <2>3. Settled \subseteq Settled' /\ held[t] \cup Received(t) \subseteq held'[t] \cup UnitsIn(out'[t]) \cup Settled'
    BY <2>1, <2>2 DEF Settled
  <2> QED
    BY <1>10, <2>1, <2>3, ReceiveFlows
<1>15. CASE t = Writer /\ (Write \/ WriteFails)
  <2>1. /\ Receive(t, "Data") /\ held' = held /\ UNCHANGED <<todo, skipped, lost>>
        /\ delivered \subseteq delivered' /\ refused \subseteq refused'
        /\ Received(t) \subseteq delivered' \cup refused'
    BY <1>15 DEF Write, WriteFails
  <2>2. Settled \subseteq Settled' /\ held[t] \cup Received(t) \subseteq held'[t] \cup UnitsIn(out'[t]) \cup Settled'
    BY <2>1 DEF Settled
  <2> QED
    BY <1>10, <2>1, <2>2, ReceiveFlows
<1>16. CASE Panic(t)
  <2>1. /\ out[t] = <<>> /\ held[t] \subseteq lost' /\ lost \subseteq lost' /\ todo \subseteq todo' \cup lost'
        /\ chan'[t] = chan[t] /\ UNCHANGED <<delivered, refused, skipped>>
        /\ t # 1 => UnitsIn(chan[t - 1]) \subseteq lost'
    BY <1>16 DEF Panic, Ready
  <2> QED
    BY <2>1, EmptyFacts DEF Flows, Carried, Settled
<1>17. CASE Finalize(t)
  <2>1. /\ out[t] = <<>> /\ out'[t] = Batch(held[t]) \o <<Stop>> /\ chan' = chan
        /\ UNCHANGED <<todo, delivered, refused, skipped, lost>>
    BY <1>17 DEF Finalize, history
  <2>2. UnitsIn(Batch(held[t]) \o <<Stop>>) = held[t] \cup Stop.units
    <3>1. held[t] \in SUBSET Units /\ Stop \in Signal
      BY SignalFacts
    <3> QED
      BY <3>1, BatchFacts
  <2>3. Settled' = Settled
    BY <2>1 DEF Settled
  <2>4. Carried(t) \subseteq Carried(t)'
    <3>1. UnitsIn(out[t]) = {} /\ held[t] \subseteq UnitsIn(out'[t])
      BY <2>1, <2>2, EmptyFacts
    <3> QED
      BY <2>1, <3>1 DEF Carried
  <2> QED
    BY <2>1, <2>3, <2>4 DEF Flows
<1>18. ASSUME NEW ok \in BOOLEAN, FinalizeWriter(ok), t = Writer PROVE Flows(t)
  BY <1>18, EmptyFacts DEF FinalizeWriter, Flows, Carried, Settled
<1>19. CASE Close(t)
  <2>1. /\ out' = out /\ held' = held /\ chan'[t] = chan[t] /\ lost \subseteq lost'
        /\ UNCHANGED <<todo, delivered, refused, skipped>>
        /\ t # 1 => UnitsIn(chan[t - 1]) \subseteq lost'
    BY <1>19 DEF Close
  <2> QED
    BY <2>1 DEF Flows, Carried, Settled
<1> QED
  BY <1>1, <1>2, <1>3, <1>4, <1>5, <1>6, <1>7, <1>8, <1>9, <1>11, <1>12, <1>13, <1>14, <1>15, <1>16,
     <1>17, <1>18, <1>19 DEF StageStep, AssemblerStep, LoopStep, ProcessBatch, EndStep

-----------------------------------------------------------------------------
\* The writer's outcome.

\* Flags that are raised stay raised, and a panicked thread stays so.
LEMMA FlagsStay ==
  ASSUME Typed, NEW t \in Stages, StageStep(t)
  PROVE  /\ \A s \in Stages : errored[s] => errored'[s]
         /\ \A s \in Stages : pc[s] = "panicked" => pc'[s] = "panicked"
<1>1. (errored[t] => errored'[t]) /\ (pc[t] = "panicked" => pc'[t] = "panicked")
  BY OwnShape DEF Sends, Drops, Operates, Panics, Closes
<1> QED
  BY <1>1, Shape DEF SameStage

\* A step is the writer's finalize, or leaves its outcome alone and settles no fewer units.
Finalizes ==
  /\ pc[Writer] = "final" /\ pc'[Writer] = "closing"
  /\ disposition' = IF Failed(Writer) THEN "Aborted" ELSE "Committed"
  /\ UNCHANGED <<errored, delivered, refused, skipped>>

Progresses ==
  /\ disposition' = disposition
  /\ delivered \subseteq delivered' /\ refused \subseteq refused' /\ skipped \subseteq skipped'
  /\ pc'[Writer] = "closing" => pc[Writer] = "closing"

\* Only the writer's finalize decides the outcome, and no thread raises the shutdown flag.
LEMMA OutcomeOfStep ==
  ASSUME Typed, NEW t \in Stages, StageStep(t)
  PROVE  cancel' = cancel /\ result' = result /\ (Finalizes \/ Progresses)
<1> USE Neighbours, TypedFns DEF FnTyped
<1>1. CASE SendSignal(t) \/ SendFails(t)
  BY <1>1 DEF SendSignal, SendFails, history, Progresses
<1>2. CASE t = 1 /\ AssemblerStep
  BY <1>2 DEF AssemblerStep, AssembleUnit, AssembleFails, AssembleCancelled, ScanFails, ScanEnds, history,
              Progresses
<1>3. CASE RecvCancelled(t) \/ RecvStart(t) \/ RecvStop(t) \/ RecvError(t) \/ RecvDisconnected(t)
  BY <1>3 DEF RecvCancelled, RecvStart, RecvStop, RecvError, RecvDisconnected, history, Progresses
<1>4. CASE ProcessBatch(t)
  BY <1>4 DEF ProcessBatch, Convert, Abort, Fold, Validate, Write, WriteFails, history, Progresses
<1>5. CASE Panic(t)
  BY <1>5 DEF Panic, Progresses
<1>6. CASE Finalize(t) \/ Close(t)
  BY <1>6 DEF Finalize, Close, history, Progresses
<1>7. ASSUME NEW ok \in BOOLEAN, t = Writer, FinalizeWriter(ok)
      PROVE  cancel' = cancel /\ result' = result /\ Finalizes
  BY <1>7 DEF FinalizeWriter, Finalizes
<1> QED
  BY <1>1, <1>2, <1>3, <1>4, <1>5, <1>6, <1>7 DEF StageStep, LoopStep, EndStep

\* The outcome stays the one the writer's stream had.
LEMMA DispositionStep ==
  ASSUME Typed, DispositionKnown, NEW t \in Stages, StageStep(t)
  PROVE  DispositionKnown'
<1>1. /\ Writer \in Stages /\ (errored[Writer] => errored'[Writer]) /\ cancel' = cancel
      /\ pc[Writer] \in {"run", "final", "closing", "done", "panicked"}
  BY Neighbours, FlagsStay, OutcomeOfStep DEF Typed
<1>2. CASE Finalizes
  BY <1>1, <1>2 DEF Finalizes, Failed, DispositionKnown
<1>3. CASE Progresses
  <2>1. pc'[Writer] \in {"run", "final", "panicked"} <=> pc[Writer] \in {"run", "final", "panicked"}
    <3>1. CASE t = Writer
      BY <1>1, <1>3, <3>1, OwnShape DEF Sends, Drops, Operates, Panics, Closes, Progresses
    <3>2. CASE t # Writer
      BY <1>1, <3>2, Shape DEF SameStage
    <3> QED
      BY <3>1, <3>2
  <2> QED
    BY <1>1, <1>3, <2>1 DEF Progresses, DispositionKnown
<1> QED
  BY <1>2, <1>3, OutcomeOfStep

\* A stream that ended without a failure has settled every unit.
LEMMA CleanEndIsComplete ==
  ASSUME Typed, CleanEnd, LossIsFailure, Conservation, CompletionCarriesNoUnits,
         pc[Writer] = "final", ~errored[Writer]
  PROVE  Units = delivered \cup refused \cup skipped
<1>1. todo = {} /\ \A s \in Stages : s < Writer => Drained(s) /\ ~errored[s] /\ chan[s] = <<>>
  BY Neighbours DEF CleanEnd, LeftLoop
<1>2. \A s \in Stages : s = Writer \/ s < Writer
  BY StageRange DEF Stages, Writer
<1>3. lost = {}
  BY <1>1, <1>2 DEF LossIsFailure
<1>4. ASSUME NEW u \in Units PROVE ~InFlight(u)
  <2>1. ASSUME NEW s \in Stages PROVE u \notin held[s] /\ u \notin UnitsIn(out[s]) /\ u \notin UnitsIn(chan[s])
    <3>1. CASE s = Writer
      BY <3>1 DEF CompletionCarriesNoUnits
    <3>2. CASE s < Writer
      BY <1>1, <3>2, EmptyFacts DEF Drained
    <3> QED
      BY <1>2, <3>1, <3>2
  <2> QED
    BY <2>1 DEF InFlight
<1>5. Units \subseteq delivered \cup refused \cup skipped
  BY <1>1, <1>3, <1>4 DEF Conservation
<1> QED
  BY <1>5 DEF Typed

\* The writer commits only a complete stream, and nothing is taken back.
LEMMA CommitStep ==
  ASSUME Typed, FailureAccounted, Conservation, CompletionCarriesNoUnits, CommitIsComplete, Typed',
         NEW t \in Stages, StageStep(t)
  PROVE  CommitIsComplete'
<1> SUFFICES ASSUME disposition' = "Committed", NoPanic'
             PROVE  Units = delivered' \cup refused' \cup skipped'
  BY DEF CommitIsComplete
<1>1. NoPanic
  BY FlagsStay DEF NoPanic
<1>2. CASE Finalizes
  <2>1. pc[Writer] = "final" /\ ~errored[Writer] /\ ~cancel
    BY <1>2 DEF Finalizes, Failed
  <2>2. Units = delivered \cup refused \cup skipped
    BY <1>1, <2>1, CleanEndIsComplete DEF FailureAccounted
  <2> QED
    BY <1>2, <2>2 DEF Finalizes
<1>3. CASE Progresses
  BY <1>1, <1>3 DEF Progresses, CommitIsComplete, Typed
<1> QED
  BY <1>2, <1>3, OutcomeOfStep

\* What the writer's thread does to its own queues carries no unit.
LEMMA WriterUnits ==
  ASSUME Typed, StageStep(Writer)
  PROVE  /\ held'[Writer] = held[Writer] \/ held'[Writer] = {}
         /\ \/ Sends(Writer)
            \/ /\ chan'[Writer] = chan[Writer]
               /\ \/ out'[Writer] = out[Writer]
                  \/ out'[Writer] \in {<<>>, <<Error>>, <<Stop>>, <<Error, Stop>>}
<1> USE Neighbours, WriterStage, TypedFns DEF FnTyped
<1>1. CASE SendSignal(Writer)
  BY <1>1 DEF SendSignal, Sends
<1>2. CASE SendFails(Writer)
  BY <1>2 DEF SendFails
<1>3. CASE RecvCancelled(Writer) \/ RecvStart(Writer) \/ RecvStop(Writer) \/ RecvError(Writer)
             \/ RecvDisconnected(Writer)
  BY <1>3 DEF RecvCancelled, RecvStart, RecvStop, RecvError, RecvDisconnected, Receive
<1>4. CASE ProcessBatch(Writer)
  BY <1>4 DEF ProcessBatch, Convert, Abort, Fold, Validate, Write, WriteFails, Receive
<1>5. CASE Panic(Writer)
  BY <1>5 DEF Panic
<1>6. CASE EndStep(Writer)
  BY <1>6 DEF EndStep, Finalize, FinalizeWriter, Close
<1> QED
  BY <1>1, <1>2, <1>3, <1>4, <1>5, <1>6 DEF StageStep, LoopStep

\* The completion channel goes on carrying no units.
LEMMA NoUnitsStep ==
  ASSUME Typed, CompletionCarriesNoUnits, NEW t \in Stages, StageStep(t)
  PROVE  CompletionCarriesNoUnits'
<1>1. CASE t # Writer
  BY <1>1, Shape, OthersAreQuiet, Neighbours DEF SameStage, Quiet, CompletionCarriesNoUnits
<1>2. CASE t = Writer
  <2>1. held'[Writer] = {}
    BY <1>2, WriterUnits DEF CompletionCarriesNoUnits
  <2>2. CASE Sends(Writer)
    <3>1. chan[Writer] \in Seq(Signal) /\ out[Writer] \in Seq(Signal) /\ out[Writer] # <<>>
      BY <2>2, Neighbours DEF Typed, Sends
    <3>2. /\ Head(out[Writer]) \in Signal
          /\ UnitsIn(out[Writer]) = Head(out[Writer]).units \cup UnitsIn(Tail(out[Writer]))
      BY <3>1, HeadTailFacts
    <3>3. UnitsIn(Append(chan[Writer], Head(out[Writer]))) = UnitsIn(chan[Writer]) \cup Head(out[Writer]).units
      BY <3>1, <3>2, AppendFacts
    <3> QED
      BY <2>1, <2>2, <3>2, <3>3 DEF Sends, CompletionCarriesNoUnits
  <2>3. CASE chan'[Writer] = chan[Writer] /\ out'[Writer] = out[Writer]
    BY <2>1, <2>3 DEF CompletionCarriesNoUnits
  <2>4. CASE chan'[Writer] = chan[Writer] /\ out'[Writer] \in {<<>>, <<Error>>, <<Stop>>, <<Error, Stop>>}
    <3>1. UnitsIn(out'[Writer]) = {}
      BY <2>4, ControlFacts, EmptyFacts
    <3> QED
      BY <2>1, <2>4, <3>1 DEF CompletionCarriesNoUnits
  <2> QED
    BY <1>2, <2>2, <2>3, <2>4, WriterUnits
<1> QED
  BY <1>1, <1>2

\* While drain_completion runs, the writer's Stop waits in the completion channel.
StopWaits ==
  pc[Writer] \in {"closing", "done"} /\ out[Writer] = <<>> /\ result = "running" => Holds(chan[Writer], "Stop")

\* No thread takes it away.
LEMMA StopWaitsStep ==
  ASSUME Typed, StopClosesStream, StopWaits, NEW t \in Stages, StageStep(t)
  PROVE  StopWaits'
<1>1. /\ result' = result /\ StopCloses(Writer)
      /\ chan[Writer] \in Seq(Signal) /\ out[Writer] \in Seq(Signal)
  BY OutcomeOfStep, Neighbours DEF StopClosesStream, StopCloses, Typed
<1>2. CASE t # Writer
  BY <1>2, OthersAreQuiet DEF Quiet, StopWaits
<1>3. CASE t = Writer
  <2>1. CASE Sends(t)
    <3>1. /\ Head(out[t]) \in Signal
          /\ \A k : Holds(out[t], k) <=> Head(out[t]).kind = k \/ Holds(Tail(out[t]), k)
      BY <1>1, <1>3, <2>1, HeadTailFacts DEF Sends
    <3>2. \A k : Holds(Append(chan[t], Head(out[t])), k) <=> Holds(chan[t], k) \/ Head(out[t]).kind = k
      BY <1>1, <1>3, <3>1, AppendFacts
    <3> QED
      BY <1>1, <1>3, <2>1, <3>1, <3>2, EmptyFacts DEF Sends, StopCloses, StopWaits
  <2>2. CASE Drops(t)
    BY <1>1, <1>3, <2>2 DEF Drops, Closed, StopWaits
  <2>3. CASE Operates(t)
    BY <1>3, <2>3, EmptyFacts DEF Operates, StopWaits
  <2>4. CASE Panics(t) \/ Closes(t)
    BY <1>1, <1>3, <2>4 DEF Panics, Closes, StopWaits
  <2> QED
    BY <2>1, <2>2, <2>3, <2>4, OwnShape
<1> QED
  BY <1>2, <1>3

\* FailureReported is the writer's reports and its waiting Stop, where no thread panicked.
LEMMA ReportedParts ==
  ASSUME Reports, NoPanic => StopWaits
  PROVE  FailureReported
<1>1. NoPanic => pc[Writer] # "panicked"
  BY Neighbours DEF NoPanic
<1> QED
  BY <1>1 DEF Reports, ReportUnderWay, Failing, WriterFailed, StopWaits, FailureReported

-----------------------------------------------------------------------------
\* The invariant is inductive.

Inv == IInv /\ Reports

\* A thread keeps it.
LEMMA InvStageStep ==
  ASSUME Inv, Typed', Bounded', Reports', NEW t \in Stages, StageStep(t)
  PROVE  Inv'
<1>1. /\ Typed /\ StopClosesStream /\ StopArrives /\ FailureAccounted /\ Conservation
      /\ CompletionCarriesNoUnits /\ DispositionKnown /\ FailureReported /\ CommitIsComplete
  BY DEF Inv, IInv, TypeOK
<1>2. StopClosesStream' /\ StopArrives'
  BY <1>1, StopClosesStep, StopArrivesStep
<1>3. Conservation'
  BY <1>1, StepFlows, FlowKeeps
<1>4. CompletionCarriesNoUnits' /\ DispositionKnown' /\ CommitIsComplete'
  BY <1>1, NoUnitsStep, DispositionStep, CommitStep
<1>5. NoPanic' => NoPanic
  BY <1>1, FlagsStay DEF NoPanic
<1>6. FailureAccounted'
  <2> SUFFICES ASSUME ~cancel', NoPanic' PROVE FailureTravels' /\ CleanEnd' /\ LossIsFailure'
    BY DEF FailureAccounted
  <2>1. ~cancel /\ NoPanic /\ pc'[t] # "panicked"
    BY <1>1, <1>5, OutcomeOfStep DEF NoPanic
  <2>2. FailureTravels /\ CleanEnd /\ LossIsFailure
    BY <1>1, <2>1 DEF FailureAccounted
  <2> QED
    BY <1>1, <2>1, <2>2, TravelsStep, CleanStep, LossStep
<1>7. FailureReported'
  <2>1. NoPanic => StopWaits
    BY <1>1 DEF FailureReported, StopWaits
  <2>2. NoPanic' => StopWaits'
    BY <1>1, <1>5, <2>1, StopWaitsStep
  <2>3. NoPanic' => pc'[Writer] # "panicked"
    BY Neighbours DEF NoPanic
  <2> QED
    BY <2>2, <2>3 DEF Reports, ReportUnderWay, Failing, WriterFailed, StopWaits, FailureReported
<1> QED
  BY <1>2, <1>3, <1>4, <1>6, <1>7 DEF Inv, IInv, TypeOK

\* drain_completion keeps it: it takes from the completion channel alone.
LEMMA InvDrainStep ==
  ASSUME Inv, Typed', Bounded', Reports', DrainStep
  PROVE  Inv'
<1>1. /\ Typed /\ StopClosesStream /\ StopArrives /\ FailureAccounted /\ Conservation
      /\ CompletionCarriesNoUnits /\ DispositionKnown /\ FailureReported /\ CommitIsComplete
  BY DEF Inv, IInv, TypeOK
<1>2. /\ UNCHANGED <<cancel, pc, errored, held, out, todo, disposition, delivered, refused, skipped, lost,
                     unfinished>>
      /\ \A s \in Stages : s # Writer => chan'[s] = chan[s]
      /\ Took(Writer)
      /\ result' = "running" => chan[Writer] # <<>> /\ chan'[Writer] = Tail(chan[Writer])
                                /\ Head(chan[Writer]).kind # "Stop"
      /\ result = "running"
  <2>1. chan \in [Stages -> Seq(Signal)] /\ Writer \in Stages
    BY <1>1, Neighbours DEF Typed
  <2> QED
    BY <2>1 DEF DrainStep, DrainSignal, DrainDisconnected, stageVars, history, Took
<1>3. chan[Writer] \in Seq(Signal) /\ Writer \in Stages
  BY <1>1, Neighbours DEF Typed
<1>4. /\ UnitsIn(chan'[Writer]) = {}
      /\ chan[Writer] # <<>> => \A k : Holds(chan[Writer], k) <=> Head(chan[Writer]).kind = k \/ Holds(Tail(chan[Writer]), k)
  <2>1. chan[Writer] # <<>> =>
          /\ UnitsIn(chan[Writer]) = Head(chan[Writer]).units \cup UnitsIn(Tail(chan[Writer]))
          /\ \A k : Holds(chan[Writer], k) <=> Head(chan[Writer]).kind = k \/ Holds(Tail(chan[Writer]), k)
    BY <1>3, HeadTailFacts
  <2> QED
    BY <1>1, <1>2, <2>1, EmptyFacts DEF Took, CompletionCarriesNoUnits
<1>5. StopClosesStream'
  <2>1. ASSUME NEW s \in Stages PROVE StopCloses(s)'
    <3>1. StopCloses(s)
      BY <1>1 DEF StopClosesStream, StopCloses
    <3>2. CASE s = Writer
      BY <1>1, <1>2, <3>1, <3>2, TookFacts DEF StopCloses
    <3>3. CASE s # Writer
      BY <1>2, <3>1, <3>3 DEF StopCloses
    <3> QED
      BY <3>2, <3>3
  <2> QED
    BY <2>1 DEF StopClosesStream, StopCloses
<1>6. StopArrives'
  BY <1>1, <1>2 DEF StopArrives
<1>7. FailureAccounted'
  <2> SUFFICES ASSUME ~cancel', NoPanic' PROVE FailureTravels' /\ CleanEnd' /\ LossIsFailure'
    BY DEF FailureAccounted
  <2>1. FailureTravels /\ CleanEnd /\ LossIsFailure
    BY <1>1, <1>2 DEF FailureAccounted, NoPanic
  <2>2. \A s, r \in Stages : r < s => r # Writer
    BY StageRange DEF Stages, Writer
  <2>3. FailureTravels' /\ LossIsFailure'
    BY <1>2, <2>1 DEF FailureTravels, LossIsFailure
  <2>4. CleanEnd'
    BY <1>2, <2>1, <2>2 DEF CleanEnd, LeftLoop, Drained
  <2> QED
    BY <2>3, <2>4
<1>8. Conservation'
  <2>1. ASSUME NEW u, InFlight(u) PROVE InFlight(u)'
    <3>1. PICK s \in Stages : u \in held[s] \/ u \in UnitsIn(out[s]) \/ u \in UnitsIn(chan[s])
      BY <2>1 DEF InFlight
    <3>2. CASE s = Writer
      BY <1>1, <3>1, <3>2 DEF CompletionCarriesNoUnits
    <3>3. CASE s # Writer
      BY <1>2, <3>1, <3>3 DEF InFlight
    <3> QED
      BY <3>2, <3>3
  <2> QED
    BY <1>1, <1>2, <2>1 DEF Conservation
<1>9. CompletionCarriesNoUnits' /\ DispositionKnown' /\ CommitIsComplete'
  BY <1>1, <1>2, <1>4 DEF CompletionCarriesNoUnits, DispositionKnown, CommitIsComplete, NoPanic
<1>10. FailureReported'
  <2>1. (NoPanic' => NoPanic) /\ (NoPanic => StopWaits)
    BY <1>1, <1>2 DEF NoPanic, FailureReported, StopWaits
  <2>2. NoPanic' => StopWaits'
    BY <1>2, <1>4, <2>1 DEF StopWaits
  <2>3. NoPanic' => pc'[Writer] # "panicked"
    BY Neighbours DEF NoPanic
  <2> QED
    BY <2>2, <2>3 DEF Reports, ReportUnderWay, Failing, WriterFailed, StopWaits, FailureReported
<1> QED
  BY <1>5, <1>6, <1>7, <1>8, <1>9, <1>10 DEF Inv, IInv, TypeOK

\* So do the shutdown flag and a step that changes nothing.
LEMMA InvStillStep ==
  ASSUME Inv, Typed', Bounded', Reports', Cancel \/ UNCHANGED vars
  PROVE  Inv'
<1>1. /\ Typed /\ StopClosesStream /\ StopArrives /\ FailureAccounted /\ Conservation
      /\ CompletionCarriesNoUnits /\ DispositionKnown /\ FailureReported /\ CommitIsComplete
  BY DEF Inv, IInv, TypeOK
<1>2. /\ UNCHANGED <<pc, errored, held, out, chan, todo, disposition, result, delivered, refused, skipped,
                     lost, unfinished>>
      /\ cancel => cancel'
  BY DEF Cancel, vars, stageVars, history
<1>3. StopClosesStream' /\ StopArrives'
  BY <1>1, <1>2 DEF StopClosesStream, StopArrives
<1>4. FailureAccounted'
  BY <1>1, <1>2 DEF FailureAccounted, NoPanic, FailureTravels, CleanEnd, LeftLoop, Drained, LossIsFailure
<1>5. Conservation'
  BY <1>1, <1>2 DEF Conservation, InFlight
<1>6. CompletionCarriesNoUnits' /\ DispositionKnown' /\ CommitIsComplete'
  BY <1>1, <1>2 DEF CompletionCarriesNoUnits, DispositionKnown, CommitIsComplete, NoPanic
<1>7. FailureReported'
  BY <1>1, <1>2 DEF FailureReported, WriterFailed, NoPanic
<1> QED
  BY <1>3, <1>4, <1>5, <1>6, <1>7 DEF Inv, IInv, TypeOK

\* It holds in the first state.
LEMMA InvInit ==
  ASSUME Init
  PROVE  Inv
<1> USE Neighbours, ControlFacts, EmptyFacts
<1>1. Typed /\ Bounded
  <2>1. Typed
    BY DEF Init, Typed
  <2>2. Bounded
    BY SizeAssumption DEF Init, Bounded
  <2> QED
    BY <2>1, <2>2
<1>2. Reports
  BY DEF Init, Reports, StreamEnds, ReportUnderWay, Failing
<1>3. StopClosesStream /\ StopArrives
  BY DEF Init, StopClosesStream, StopArrives
<1>4. FailureAccounted
  BY DEF Init, FailureAccounted, FailureTravels, CleanEnd, LeftLoop, LossIsFailure
<1>5. Conservation /\ CompletionCarriesNoUnits
  BY DEF Init, Conservation, CompletionCarriesNoUnits
<1>6. DispositionKnown /\ CommitIsComplete
  BY DEF Init, DispositionKnown, CommitIsComplete
<1>7. FailureReported
  BY <1>2, ReportedParts DEF Init, StopWaits
<1> QED
  BY <1>1, <1>2, <1>3, <1>4, <1>5, <1>6, <1>7 DEF Inv, IInv, TypeOK

\* Stop closes every stream and waits for its receiver, failures travel down the chain
\* unless the run is cancelled or a thread panics, and every unit of the store is
\* somewhere, in every reachable state of a chain of any length.
THEOREM CommitInvariant == Spec => []IInv
<1>1. Init => Inv
  BY InvInit
<1>2. Inv /\ [Next]_vars => Inv'
  <2> SUFFICES ASSUME Inv, [Next]_vars PROVE Inv'
    OBVIOUS
  <2>1. Typed' /\ Bounded' /\ Reports'
    BY TypedStep, BoundedStep, ReportsStep DEF Inv, IInv, TypeOK
  <2> QED
    BY <2>1, InvStageStep, InvDrainStep, InvStillStep DEF Next
<1>3. Inv => IInv
  BY DEF Inv
<1> QED
  BY <1>1, <1>2, <1>3, PTL DEF Spec

\* A committed output is complete: however the run is cancelled, a unit aborts or a
\* channel closes, a stream the writer did not receive whole is not committed.
THEOREM CommitComplete == Spec => []CommitIsComplete
<1>1. IInv => CommitIsComplete
  BY DEF IInv
<1> QED
  BY <1>1, CommitInvariant, PTL

\* An output phase that returns Ok, was not cancelled and in which no thread panicked
\* has committed, and the writer has accepted every unit that was not skipped.
THEOREM OkDelivered == Spec => []OkIsDelivered
<1>1. IInv => OkIsDelivered
  <2> SUFFICES ASSUME IInv, result = "Ok", ~cancel, NoPanic
               PROVE  disposition = "Committed" /\ Units = delivered \cup skipped /\ ~unfinished
    BY DEF OkIsDelivered
  <2>1. ~WriterFailed /\ pc[Writer] \in {"closing", "done"}
    BY DEF IInv, FailureReported
  <2>2. disposition = "Committed"
    BY <2>1 DEF IInv, TypeOK, Typed, DispositionKnown, WriterFailed
  <2>3. Units = delivered \cup refused \cup skipped
    BY <2>2 DEF IInv, CommitIsComplete
  <2> QED
    BY <2>1, <2>2, <2>3 DEF WriterFailed
<1> QED
  BY <1>1, CommitInvariant, PTL

-----------------------------------------------------------------------------
\* The chain never jams.

\* Numbers have a least one.
LEMMA LeastNumber ==
  ASSUME NEW T, T \subseteq Nat, T # {}
  PROVE  \E x \in T : \A y \in T : x <= y
<1> DEFINE R == OpToRel(<, Nat)
<1>1. PICK x \in T : \A y \in T : ~(<<y, x>> \in R)
  <2>1. IsWellFoundedOn(R, Nat)
    BY NatLessThanWellFounded
  <2> HIDE DEF R
  <2> QED
    BY <2>1, WFMin
<1>2. ASSUME NEW y \in T PROVE x <= y
  <2>1. ~(<<y, x>> \in {ss \in Nat \X Nat : ss[1] < ss[2]})
    BY <1>1, <1>2 DEF OpToRel
  <2>2. x \in Nat /\ y \in Nat /\ ~(y < x)
    BY <1>2, <2>1
  <2> QED
    BY <2>2
<1> QED
  BY <1>2

\* Of some stages one is the last.
LEMMA GreatestStage ==
  ASSUME NEW T, T \subseteq Stages, T # {}
  PROVE  \E x \in T : \A y \in T : y <= x
<1> DEFINE D == {Writer - x : x \in T}
<1>1. \A x \in T : Writer - x \in Nat /\ x \in Nat
  BY StageRange
<1>2. D \subseteq Nat /\ D # {}
  BY <1>1
<1>3. PICK d \in D : \A e \in D : d <= e
  <2> HIDE DEF D
  <2> QED
    BY <1>2, LeastNumber
<1>4. PICK x \in T : d = Writer - x
  OBVIOUS
<1>5. ASSUME NEW y \in T PROVE y <= x
  <2>1. Writer - x <= Writer - y
    BY <1>3, <1>4
  <2> QED
    BY <1>1, <2>1, StageRange
<1> QED
  BY <1>5

\* No thread is handed an empty batch.
Filled(q) == \A i \in 1..Len(q) : q[i].kind = "Data" => q[i].units # {}

\* Queues stay filled as signals are taken and added.
LEMMA FilledFacts ==
  /\ Filled(<<>>)
  /\ \A q \in Seq(Signal) : q # <<>> /\ Filled(q) =>
       Filled(Tail(q)) /\ (Head(q).kind = "Data" => Head(q).units # {})
  /\ \A q \in Seq(Signal) : \A m \in Signal :
       Filled(q) /\ (m.kind = "Data" => m.units # {}) => Filled(Append(q, m))
<1>1. Filled(<<>>)
  BY DEF Filled
<1>2. ASSUME NEW q \in Seq(Signal), q # <<>>, Filled(q)
      PROVE  Filled(Tail(q)) /\ (Head(q).kind = "Data" => Head(q).units # {})
  <2> DEFINE r == Tail(q)
  <2>1. /\ Len(r) = Len(q) - 1 /\ Len(q) \in Nat /\ Len(q) >= 1 /\ Head(q) = q[1]
        /\ \A i \in 1..Len(r) : r[i] = q[i + 1]
    BY <1>2
  <2> HIDE DEF r
  <2>2. 1 \in 1..Len(q) /\ \A i \in 1..Len(r) : i + 1 \in 1..Len(q)
    BY <2>1
  <2>3. Filled(r)
    BY <1>2, <2>1, <2>2 DEF Filled
  <2> QED
    BY <1>2, <2>1, <2>2, <2>3 DEF Filled, r
<1>3. ASSUME NEW q \in Seq(Signal), NEW m \in Signal, Filled(q), m.kind = "Data" => m.units # {}
      PROVE  Filled(Append(q, m))
  <2> DEFINE r == Append(q, m)
  <2>1. /\ Len(r) = Len(q) + 1 /\ Len(q) \in Nat /\ r[Len(q) + 1] = m
        /\ \A i \in 1..Len(q) : r[i] = q[i]
    OBVIOUS
  <2> HIDE DEF r
  <2>2. \A i \in 1..Len(r) : i \in 1..Len(q) \/ i = Len(q) + 1
    BY <2>1
  <2>3. Filled(r)
    BY <1>3, <2>1, <2>2 DEF Filled
  <2> QED
    BY <2>3 DEF r
<1> QED
  BY <1>1, <1>2, <1>3

\* The sequences of signals an operation may have to send.
LEMMA FilledWords ==
  /\ Filled(<<Start>>) /\ Filled(<<Stop>>) /\ Filled(<<Error>>) /\ Filled(<<Error, Stop>>)
  /\ \A U \in SUBSET Units : /\ Filled(Batch(U)) /\ Filled(Batch(U) \o <<Error>>)
                             /\ Filled(Batch(U) \o <<Stop>>)
<1> DEFINE D(U) == [kind |-> "Data", units |-> U]
<1>1. ASSUME NEW m, m.kind = "Data" => m.units # {} PROVE Filled(<<m>>)
  BY <1>1 DEF Filled
<1>2. ASSUME NEW m, NEW n, m.kind = "Data" => m.units # {}, n.kind = "Data" => n.units # {}
      PROVE  Filled(<<m, n>>)
  <2>1. \A i \in 1..2 : i = 1 \/ i = 2
    OBVIOUS
  <2>2. Len(<<m, n>>) = 2 /\ <<m, n>>[1] = m /\ <<m, n>>[2] = n
    OBVIOUS
  <2> QED
    BY <1>2, <2>1, <2>2 DEF Filled
<1>3. Start.kind # "Data" /\ Stop.kind # "Data" /\ Error.kind # "Data"
  BY SignalFacts
<1>4. ASSUME NEW U \in SUBSET Units, NEW m \in Signal, m.kind # "Data"
      PROVE  Filled(Batch(U)) /\ Filled(Batch(U) \o <<m>>)
  <2>1. CASE U = {}
    <3>1. Batch(U) = <<>> /\ Batch(U) \o <<m>> = <<m>>
      BY <2>1 DEF Batch
    <3> QED
      BY <1>1, <1>4, <3>1, FilledFacts
  <2>2. CASE U # {}
    <3>1. D(U).kind = "Data" /\ D(U).units = U /\ D(U) \in Signal
      BY DEF Signal
    <3>2. Batch(U) = <<D(U)>>
      BY <2>2 DEF Batch
    <3> HIDE DEF D
    <3>3. <<D(U)>> \o <<m>> = <<D(U), m>>
      <4>1. <<D(U)>> \in Seq(Signal)
        BY <3>1, SingletonFacts
      <4>2. <<D(U)>> \o <<m>> = Append(<<D(U)>>, m)
        BY <1>4, <4>1, AppendIsConcat
      <4>3. Append(<<D(U)>>, m) = <<D(U), m>>
        BY PairIsAppend
      <4> QED
        BY <4>2, <4>3
    <3> QED
      BY <1>1, <1>2, <1>4, <2>2, <3>1, <3>2, <3>3
  <2> QED
    BY <2>1, <2>2
<1> QED
  BY <1>1, <1>2, <1>3, <1>4, SignalFacts

AllFilled == \A s \in Stages : Filled(chan[s]) /\ Filled(out[s])

\* What a thread has to send after a step of its own.
LEMMA OutFilled ==
  ASSUME Typed, AllFilled, NEW t \in Stages, StageStep(t)
  PROVE  Filled(out'[t])
<1> USE TypedFns DEF FnTyped
<1>0. Filled(out[t]) /\ out[t] \in Seq(Signal)
  BY DEF AllFilled
<1>1. CASE SendSignal(t)
  <2>1. out[t] # <<>> /\ out'[t] = Tail(out[t])
    BY <1>1 DEF SendSignal
  <2> QED
    BY <1>0, <2>1, FilledFacts
<1>2. CASE SendFails(t)
  <2>1. out'[t] = <<>>
    BY <1>2 DEF SendFails
  <2> QED
    BY <2>1, FilledFacts
<1>3. CASE t = 1 /\ AssemblerStep
  <2>1. ASSUME NEW u \in Units, AssembleUnit(u) PROVE Filled(out'[t])
    <3>1. held[1] \cup {u} \in SUBSET Units
      BY <1>3, <2>1 DEF Typed
    <3>2. out'[1] = Batch(held[1] \cup {u}) \/ out' = out
      BY <1>3, <2>1 DEF AssembleUnit
    <3> QED
      BY <1>0, <1>3, <3>1, <3>2, FilledWords
  <2>2. ASSUME NEW u \in Units, AssembleFails(u) PROVE Filled(out'[t])
    BY <1>3, <2>2, FilledWords DEF AssembleFails
  <2>3. CASE AssembleCancelled \/ ScanEnds
    BY <1>0, <2>3 DEF AssembleCancelled, ScanEnds
  <2>4. CASE ScanFails
    <3>1. held[1] \in SUBSET Units
      BY <1>3 DEF Typed
    <3>2. out'[1] = Batch(held[1]) \o <<Error>>
      BY <1>3, <2>4 DEF ScanFails
    <3> QED
      BY <1>3, <3>1, <3>2, FilledWords
  <2> QED
    BY <1>3, <2>1, <2>2, <2>3, <2>4 DEF AssemblerStep
<1>4. CASE RecvCancelled(t) \/ RecvStart(t) \/ RecvStop(t) \/ RecvDisconnected(t)
  <2>1. out' = out
    BY <1>4 DEF RecvCancelled, RecvStart, RecvStop, RecvDisconnected
  <2> QED
    BY <1>0, <2>1
<1>5. CASE RecvError(t)
  BY <1>5, FilledWords DEF RecvError
<1>6. CASE ProcessBatch(t)
  <2>1. ASSUME NEW k PROVE Receive(t, k) => Received(t) \in SUBSET Units
    <3>1. ASSUME Receive(t, k) PROVE chan[t - 1] \in Seq(Signal) /\ chan[t - 1] # <<>>
      <4>1. t # 1 /\ chan[t - 1] # <<>>
        BY <3>1, StageRange DEF Receive
      <4> QED
        BY <4>1, Neighbours DEF Typed
    <3> QED
      BY <3>1, HeadTailFacts DEF Received
  <2>2. ASSUME NEW U \in SUBSET Units, Convert(t, U) PROVE Filled(out'[t])
    BY <2>2, FilledWords DEF Convert
  <2>3. ASSUME NEW U \in SUBSET Units, Abort(t, U) PROVE Filled(out'[t])
    BY <2>3, FilledWords DEF Abort
  <2>4. ASSUME NEW U \in SUBSET Units, Fold(t, U) PROVE Filled(out'[t])
    <3>1. Receive(t, "Data") /\ out'[t] = Batch((held[t] \cup Received(t)) \ U)
      BY <2>4 DEF Fold
    <3>2. held[t] \in SUBSET Units
      BY DEF Typed
    <3>3. (held[t] \cup Received(t)) \ U \in SUBSET Units
      BY <2>1, <3>1, <3>2
    <3> QED
      BY <3>1, <3>3, FilledWords
  <2>5. CASE Validate(t)
    <3>1. Receive(t, "Data") /\ out'[t] = Batch(Received(t))
      BY <2>5 DEF Validate
    <3> QED
      BY <2>1, <3>1, FilledWords
  <2>6. CASE t = Writer /\ Write
    BY <1>0, <2>6 DEF Write
  <2>7. CASE t = Writer /\ WriteFails
    BY <2>7, FilledWords DEF WriteFails
  <2> QED
    BY <1>6, <2>2, <2>3, <2>4, <2>5, <2>6, <2>7 DEF ProcessBatch
<1>7. CASE Panic(t)
  BY <1>0, <1>7 DEF Panic
<1>8. CASE EndStep(t)
  <2>1. CASE Finalize(t)
    <3>1. held[t] \in SUBSET Units /\ out'[t] = Batch(held[t]) \o <<Stop>>
      BY <2>1 DEF Finalize, Typed
    <3> QED
      BY <3>1, FilledWords
  <2>2. ASSUME NEW ok \in BOOLEAN, t = Writer, FinalizeWriter(ok) PROVE Filled(out'[t])
    <3>1. out'[t] = <<Stop>> \/ out'[t] = <<Error, Stop>>
      BY <2>2 DEF FinalizeWriter
    <3> QED
      BY <3>1, FilledWords
  <2>3. CASE Close(t)
    BY <1>0, <2>3 DEF Close
  <2> QED
    BY <1>8, <2>1, <2>2, <2>3 DEF EndStep
<1> QED
  BY <1>1, <1>2, <1>3, <1>4, <1>5, <1>6, <1>7, <1>8 DEF StageStep, LoopStep

\* Neither does a step of anybody put an empty batch into a channel.
LEMMA FilledStep ==
  ASSUME Typed, AllFilled, [Next]_vars
  PROVE  AllFilled'
<1>1. ASSUME NEW t \in Stages, StageStep(t) PROVE AllFilled'
  <2> SUFFICES ASSUME NEW s \in Stages PROVE Filled(chan'[s]) /\ Filled(out'[s])
    BY DEF AllFilled
  <2>0. /\ Filled(chan[s]) /\ Filled(out[s])
        /\ chan[s] \in Seq(Signal) /\ out[s] \in Seq(Signal)
    BY DEF AllFilled, Typed
  <2>1. CASE s = t
    <3>1. CASE Sends(t)
      <4>1. Head(out[t]) \in Signal /\ (Head(out[t]).kind = "Data" => Head(out[t]).units # {})
        BY <2>0, <2>1, <3>1, HeadTailFacts, FilledFacts DEF Sends
      <4>2. Filled(Append(chan[t], Head(out[t])))
        BY <2>0, <2>1, <4>1, FilledFacts
      <4> QED
        BY <1>1, <2>1, <3>1, <4>2, OutFilled DEF Sends
    <3>2. CASE chan'[t] = chan[t]
      BY <1>1, <2>0, <2>1, <3>2, OutFilled
    <3> QED
      BY <1>1, <3>1, <3>2, OwnShape DEF Drops, Operates, Panics, Closes
  <2>2. CASE s # t
    <3>1. out'[s] = out[s]
      BY <1>1, <2>2, Shape DEF SameStage
    <3>2. Took(s)
      <4>1. CASE s = t - 1
        <5>1. t # 1
          BY <4>1, StageRange
        <5> QED
          BY <1>1, <4>1, <5>1, Shape
      <4>2. CASE s # t - 1
        BY <1>1, <2>2, <4>2, Shape DEF Took
      <4> QED
        BY <4>1, <4>2
    <3> QED
      BY <2>0, <3>1, <3>2, FilledFacts DEF Took
  <2> QED
    BY <2>1, <2>2
<1>2. CASE DrainStep
  <2>1. out' = out
    BY <1>2 DEF DrainStep, DrainSignal, DrainDisconnected, stageVars
  <2>2. chan' = chan \/ (chan[Writer] # <<>> /\ chan' = [chan EXCEPT ![Writer] = Tail(@)])
    BY <1>2 DEF DrainStep, DrainSignal, DrainDisconnected, stageVars
  <2>3. ASSUME NEW s \in Stages PROVE Filled(chan'[s])
    <3>1. Filled(chan[s]) /\ chan[s] \in Seq(Signal)
      BY DEF AllFilled, Typed
    <3>2. chan'[s] = chan[s] \/ (chan[s] # <<>> /\ chan'[s] = Tail(chan[s]))
      BY <2>2 DEF Typed
    <3> QED
      BY <3>1, <3>2, FilledFacts
  <2> QED
    BY <2>1, <2>3 DEF AllFilled
<1>3. CASE Cancel \/ UNCHANGED vars
  BY <1>3 DEF Cancel, vars, stageVars, AllFilled
<1> QED
  BY <1>1, <1>2, <1>3 DEF Next

\* Above a thread that has room to send, or nobody to send to, some thread can step:
\* else each thread would wait for an empty channel, up to the assembler, which never
\* waits for one.
LEMMA UpstreamSteps ==
  ASSUME Typed, AllFilled, NEW s \in Stages, ~Ended(s), chan[s] = <<>> \/ Closed(s)
  PROVE  \E t \in Stages : CanStep(t)
<1> DEFINE T == {t \in Stages : ~Ended(t) /\ (chan[t] = <<>> \/ Closed(t))}
<1>1. T \subseteq Nat /\ T # {}
  BY StageRange
<1>2. PICK t \in T : \A u \in T : t <= u
  <2> HIDE DEF T
  <2> QED
    BY <1>1, LeastNumber
<1>3. t \in Stages /\ ~Ended(t) /\ (chan[t] = <<>> \/ Closed(t))
  OBVIOUS
<1>4. CASE out[t] # <<>>
  <2>1. Closed(t) \/ HasRoom(t)
    BY <1>3, SizeAssumption DEF HasRoom
  <2> QED
    BY <1>3, <1>4, <2>1 DEF CanStep, CanSend
<1>5. CASE out[t] = <<>> /\ pc[t] # "run"
  <2>1. pc[t] \in {"final", "closing"}
    BY <1>3, <1>5 DEF Ended, Typed
  <2> QED
    BY <1>3, <1>5, <2>1 DEF CanStep, CanEnd
<1>6. CASE Ready(t)
  <2>1. CASE t = 1
    BY <1>3, <1>6, <2>1 DEF CanStep
  <2>2. CASE t # 1
    <3>1. t - 1 \in Stages /\ t > 1 /\ t - 1 # Writer /\ ~(t <= t - 1)
      <4>1. t \in Nat
        BY <1>3, StageRange
      <4>2. ~(t <= t - 1)
        BY <4>1
      <4> QED
        BY <1>3, <2>2, <4>2, Neighbours
    <3>2. CASE chan[t - 1] = <<>> /\ ~Ended(t - 1)
      <4>1. t - 1 \in T
        BY <3>1, <3>2
      <4> QED
        BY <1>2, <3>1, <4>1
    <3>3. CASE chan[t - 1] = <<>> /\ Ended(t - 1)
      BY <1>3, <1>6, <3>1, <3>3 DEF CanStep, CanReceive
    <3>4. CASE chan[t - 1] # <<>>
      <4>1. chan[t - 1] \in Seq(Signal) /\ Filled(chan[t - 1])
        BY <3>1 DEF Typed, AllFilled
      <4>2. Head(chan[t - 1]).kind = "Data" => Received(t) # {}
        BY <3>4, <4>1, FilledFacts DEF Received
      <4> QED
        BY <1>3, <1>6, <3>1, <3>4, <4>2 DEF CanStep, CanReceive
    <3> QED
      BY <3>2, <3>3, <3>4
  <2> QED
    BY <2>1, <2>2
<1> QED
  BY <1>4, <1>5, <1>6 DEF Ready

\* Whatever fails, and for every chain and every capacity, the threads of the phase
\* and drain_completion never all wait for one another.
THEOREM NeverJams == Spec => []ChainNeverJams
<1>1. Init => AllFilled
  <2> SUFFICES ASSUME Init, NEW s \in Stages PROVE Filled(chan[s]) /\ Filled(out[s])
    BY DEF AllFilled
  <2>1. chan[s] = <<>> /\ out[s] = <<Start>>
    BY DEF Init
  <2> QED
    BY <2>1, FilledFacts, FilledWords
<1>2. TypeOK /\ AllFilled /\ [Next]_vars => AllFilled'
  BY FilledStep DEF TypeOK
<1>3. TypeOK /\ AllFilled => ChainNeverJams
  <2> SUFFICES ASSUME Typed, AllFilled, ~Terminated, ~CanDrain
               PROVE  \E t \in Stages : CanStep(t)
    BY DEF TypeOK, ChainNeverJams
  <2>1. CASE result = "running"
    <3>1. chan[Writer] = <<>> /\ ~Ended(Writer) /\ Writer \in Stages
      BY <2>1, StageFacts DEF CanDrain
    <3> QED
      BY <3>1, UpstreamSteps
  <2>2. CASE result # "running"
    <3> DEFINE T == {s \in Stages : ~Ended(s)}
    <3>1. T # {} /\ T \subseteq Stages
      BY <2>2 DEF Terminated
    <3>2. PICK s \in T : \A u \in T : u <= s
      <4> HIDE DEF T
      <4> QED
        BY <3>1, GreatestStage
    <3>3. s \in Stages /\ ~Ended(s)
      OBVIOUS
    <3>4. Closed(s)
      <4>1. CASE s = Writer
        BY <2>2, <4>1 DEF Closed
      <4>2. CASE s # Writer
        <5>1. s + 1 \in Stages /\ ~(s + 1 <= s)
          BY <3>3, <4>2, StageRange
        <5>2. Ended(s + 1)
          BY <3>2, <5>1
        <5> QED
          BY <4>2, <5>2 DEF Closed
      <4> QED
        BY <4>1, <4>2
    <3> QED
      BY <3>3, <3>4, UpstreamSteps
  <2> QED
    BY <2>1, <2>2
<1> QED
  BY <1>1, <1>2, <1>3, TypeCorrect, PTL DEF Spec

=============================================================================
