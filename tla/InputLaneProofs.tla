-------------------------- MODULE InputLaneProofs --------------------------
(***************************************************************************)
(* Every lane keeps the contract its resolver relies on, whatever it       *)
(* reads, however many formats it knows and however small its channels     *)
(* are: InputLane implements InputLaneSpec.                                *)
(***************************************************************************)
EXTENDS InputLane, SequenceTheorems, TLAPS

-----------------------------------------------------------------------------
\* Queues of signals.

\* The payloads a queue completes.
UnitsIn(q) == UNION {q[i].units : i \in DOMAIN q}

Holds(q, k) == \E i \in DOMAIN q : q[i].kind = k

\* Nothing follows a Stop.
StopLast(q) == \A i \in DOMAIN q : q[i].kind = "Stop" => i = Len(q)

\* Payloads come with Data, and Data brings payloads.
Proper(q) == \A i \in DOMAIN q : q[i].units = {} <=> q[i].kind # "Data"

\* No payload is in a queue twice.
Tidy(q) == \A i, j \in DOMAIN q : i # j => q[i].units \cap q[j].units = {}

\* The signals of the model (signal.rs).
LEMMA SignalFacts ==
  /\ Error \in Signal /\ Error.kind = "Error" /\ Error.units = {}
  /\ Stop \in Signal /\ Stop.kind = "Stop" /\ Stop.units = {}
  /\ \A U : Data(U).kind = "Data" /\ Data(U).units = U
  /\ \A U \in SUBSET Payloads : Data(U) \in Signal
  /\ \A t, m : Send(t, m).to = t /\ Send(t, m).signal = m
BY DEF Signal, Error, Stop, Data, Send

\* An empty queue.
LEMMA EmptyFacts ==
  /\ <<>> \in Seq(Signal) /\ Len(<<>>) = 0
  /\ UnitsIn(<<>>) = {}
  /\ \A k : ~Holds(<<>>, k)
  /\ StopLast(<<>>) /\ Proper(<<>>) /\ Tidy(<<>>)
BY DEF UnitsIn, Holds, StopLast, Proper, Tidy

\* What one more signal adds to a queue.
LEMMA AppendFacts ==
  ASSUME NEW q \in Seq(Signal), NEW m \in Signal
  PROVE  /\ Append(q, m) \in Seq(Signal)
         /\ Len(Append(q, m)) = Len(q) + 1
         /\ Append(q, m) # <<>>
         /\ UnitsIn(Append(q, m)) = UnitsIn(q) \cup m.units
         /\ \A k : Holds(Append(q, m), k) <=> Holds(q, k) \/ m.kind = k
         /\ ~Holds(q, "Stop") => StopLast(Append(q, m))
         /\ Proper(q) /\ (m.units = {} <=> m.kind # "Data") => Proper(Append(q, m))
         /\ Tidy(q) /\ m.units \cap UnitsIn(q) = {} => Tidy(Append(q, m))
<1> DEFINE r == Append(q, m)
<1>1. r \in Seq(Signal) /\ Len(r) = Len(q) + 1 /\ r[Len(q) + 1] = m /\ Len(q) \in Nat
  OBVIOUS
<1>2. \A i \in 1..Len(q) : r[i] = q[i]
  OBVIOUS
<1>2a. DOMAIN r = 1..Len(r) /\ DOMAIN q = 1..Len(q)
  BY <1>1
<1> HIDE DEF r
<1>3. /\ \A i \in 1..Len(r) : i \in 1..Len(q) \/ i = Len(q) + 1
      /\ Len(q) + 1 \in 1..Len(r) /\ \A i \in 1..Len(q) : i \in 1..Len(r)
  BY <1>1
<1>4. ASSUME NEW u PROVE /\ u \in UnitsIn(r) <=> \E i \in 1..Len(r) : u \in r[i].units
                         /\ u \in UnitsIn(q) <=> \E i \in 1..Len(q) : u \in q[i].units
  BY <1>2a DEF UnitsIn
<1>5. UnitsIn(r) = UnitsIn(q) \cup m.units
  <2>1. ASSUME NEW u, u \in UnitsIn(r) PROVE u \in UnitsIn(q) \cup m.units
    <3>1. PICK i \in 1..Len(r) : u \in r[i].units
      BY <2>1, <1>4
    <3>2. CASE i \in 1..Len(q)
      BY <3>1, <3>2, <1>2, <1>4
    <3>3. CASE i = Len(q) + 1
      BY <3>1, <3>3, <1>1
    <3> QED
      BY <3>2, <3>3, <1>3
  <2>2. ASSUME NEW u, u \in UnitsIn(q) \cup m.units PROVE u \in UnitsIn(r)
    BY <2>2, <1>1, <1>2, <1>3, <1>4
  <2> QED
    BY <2>1, <2>2
<1>6. ASSUME NEW k PROVE Holds(r, k) <=> Holds(q, k) \/ m.kind = k
  BY <1>1, <1>2, <1>2a, <1>3 DEF Holds
<1>7. ~Holds(q, "Stop") => StopLast(r)
  BY <1>1, <1>2, <1>2a, <1>3 DEF Holds, StopLast
<1>8. Proper(q) /\ (m.units = {} <=> m.kind # "Data") => Proper(r)
  BY <1>1, <1>2, <1>2a, <1>3 DEF Proper
<1>9. ASSUME Tidy(q), m.units \cap UnitsIn(q) = {} PROVE Tidy(r)
  <2> SUFFICES ASSUME NEW i \in DOMAIN r, NEW j \in DOMAIN r, i # j,
                      NEW u, u \in r[i].units, u \in r[j].units
               PROVE  FALSE
    BY DEF Tidy
  <2>1. CASE i \in 1..Len(q) /\ j \in 1..Len(q)
    BY <2>1, <1>9, <1>2, <1>2a DEF Tidy
  <2>2. CASE i \in 1..Len(q) /\ j = Len(q) + 1
    <3>1. u \in UnitsIn(q) /\ u \in m.units
      BY <2>2, <1>1, <1>2, <1>4
    <3> QED
      BY <3>1, <1>9
  <2>3. CASE i = Len(q) + 1 /\ j \in 1..Len(q)
    <3>1. u \in UnitsIn(q) /\ u \in m.units
      BY <2>3, <1>1, <1>2, <1>4
    <3> QED
      BY <3>1, <1>9
  <2> QED
    BY <2>1, <2>2, <2>3, <1>2a, <1>3
<1>10. r # <<>>
  BY <1>1
<1> QED
  BY <1>1, <1>5, <1>6, <1>7, <1>8, <1>9, <1>10 DEF r

\* What a receive takes from a queue.
LEMMA HeadTailFacts ==
  ASSUME NEW q \in Seq(Signal), q # <<>>
  PROVE  /\ Head(q) \in Signal /\ Tail(q) \in Seq(Signal)
         /\ Len(Tail(q)) = Len(q) - 1 /\ Len(q) \in Nat
         /\ Head(q).units \in SUBSET Payloads
         /\ UnitsIn(q) = Head(q).units \cup UnitsIn(Tail(q))
         /\ \A k : Holds(q, k) <=> Head(q).kind = k \/ Holds(Tail(q), k)
         /\ StopLast(q) => StopLast(Tail(q))
         /\ StopLast(q) /\ Head(q).kind = "Stop" => Tail(q) = <<>>
         /\ Proper(q) => Proper(Tail(q)) /\ (Head(q).units = {} <=> Head(q).kind # "Data")
         /\ Tidy(q) => Tidy(Tail(q)) /\ Head(q).units \cap UnitsIn(Tail(q)) = {}
<1> DEFINE r == Tail(q)
<1>1. /\ r \in Seq(Signal) /\ Len(r) = Len(q) - 1 /\ Len(q) \in Nat /\ Len(q) >= 1
      /\ Head(q) = q[1] /\ q[1] \in Signal
  OBVIOUS
<1>2. \A i \in 1..Len(r) : r[i] = q[i + 1]
  OBVIOUS
<1>2a. Len(r) = 0 => r = <<>>
  BY <1>1, EmptySeq
<1>2b. DOMAIN r = 1..Len(r) /\ DOMAIN q = 1..Len(q)
  BY <1>1
<1> HIDE DEF r
<1>3. /\ \A i \in 1..Len(q) : i = 1 \/ (i - 1 \in 1..Len(r) /\ q[i] = r[i - 1])
      /\ \A i \in 1..Len(r) : i + 1 \in 1..Len(q)
      /\ 1 \in 1..Len(q)
  BY <1>1, <1>2
<1>4. ASSUME NEW u PROVE /\ u \in UnitsIn(r) <=> \E i \in 1..Len(r) : u \in r[i].units
                         /\ u \in UnitsIn(q) <=> \E i \in 1..Len(q) : u \in q[i].units
  BY <1>2b DEF UnitsIn
<1>5. UnitsIn(q) = q[1].units \cup UnitsIn(r)
  <2>1. ASSUME NEW u, u \in UnitsIn(q) PROVE u \in q[1].units \cup UnitsIn(r)
    BY <2>1, <1>3, <1>4
  <2>2. ASSUME NEW u, u \in q[1].units \cup UnitsIn(r) PROVE u \in UnitsIn(q)
    BY <2>2, <1>2, <1>3, <1>4
  <2> QED
    BY <2>1, <2>2
<1>6. ASSUME NEW k PROVE Holds(q, k) <=> q[1].kind = k \/ Holds(r, k)
  <2>1. Holds(q, k) => q[1].kind = k \/ Holds(r, k)
    BY <1>2b, <1>3 DEF Holds
  <2>2. q[1].kind = k => Holds(q, k)
    BY <1>2b, <1>3 DEF Holds
  <2>3. Holds(r, k) => Holds(q, k)
    BY <1>2, <1>2b, <1>3 DEF Holds
  <2> QED
    BY <2>1, <2>2, <2>3
<1>7. ASSUME StopLast(q) PROVE StopLast(r)
  <2> SUFFICES ASSUME NEW i \in 1..Len(r), r[i].kind = "Stop"
               PROVE  i = Len(r)
    BY <1>2b DEF StopLast
  <2>1. i + 1 \in DOMAIN q /\ q[i + 1].kind = "Stop"
    BY <1>2, <1>2b, <1>3
  <2>2. i + 1 = Len(q)
    BY <2>1, <1>7 DEF StopLast
  <2> QED
    BY <2>2, <1>1
<1>8. ASSUME StopLast(q), q[1].kind = "Stop" PROVE r = <<>>
  <2>1. 1 = Len(q)
    BY <1>8, <1>2b, <1>3 DEF StopLast
  <2> QED
    BY <2>1, <1>1, <1>2a
<1>9. Proper(q) => Proper(r) /\ (q[1].units = {} <=> q[1].kind # "Data")
  BY <1>1, <1>2, <1>2b, <1>3 DEF Proper
<1>10. ASSUME Tidy(q) PROVE Tidy(r) /\ q[1].units \cap UnitsIn(r) = {}
  <2>1. Tidy(r)
    <3> SUFFICES ASSUME NEW i \in 1..Len(r), NEW j \in 1..Len(r), i # j
                 PROVE  r[i].units \cap r[j].units = {}
      BY <1>2b DEF Tidy
    <3>1. i + 1 \in DOMAIN q /\ j + 1 \in DOMAIN q /\ i + 1 # j + 1
      BY <1>2b, <1>3
    <3> QED
      BY <3>1, <1>2, <1>10 DEF Tidy
  <2>2. ASSUME NEW u, u \in q[1].units, u \in UnitsIn(r) PROVE FALSE
    <3>1. PICK i \in 1..Len(r) : u \in r[i].units
      BY <2>2, <1>4
    <3>2. i + 1 \in DOMAIN q /\ 1 \in DOMAIN q /\ i + 1 # 1
      BY <1>2b, <1>3
    <3>3. u \in q[i + 1].units
      BY <3>1, <1>2
    <3> QED
      BY <2>2, <3>2, <3>3, <1>10 DEF Tidy
  <2> QED
    BY <2>1, <2>2
<1>11. q[1].units \in SUBSET Payloads
  BY <1>1 DEF Signal
<1> QED
  BY <1>1, <1>5, <1>6, <1>7, <1>8, <1>9, <1>10, <1>11 DEF r

-----------------------------------------------------------------------------
\* Threads, and what they still have to send.

\* The payloads that signals on their way out complete.
Carried(o) == UNION {o[i].signal.units : i \in DOMAIN o}

Outgoing == [to : Threads \cup {"intake"}, signal : Signal]

\* The threads have names of their own.
LEMMA Names ==
  /\ "collector" \in Threads /\ "splitter" \in Threads /\ "profiler" \in Threads
  /\ "expander" \in Threads /\ "intake" \notin Threads
  /\ \A f \in Formats : /\ f \in Threads /\ f # "collector" /\ f # "splitter"
                         /\ f # "profiler" /\ f # "expander" /\ f # "intake"
  /\ \A t \in Threads : \/ t = "collector" \/ t = "splitter" \/ t = "profiler"
                        \/ t = "expander" \/ t \in Formats
BY LaneAssumption DEF Threads

\* Two elements in a row, as an append.
LEMMA PairIsAppend ==
  ASSUME NEW x, NEW y
  PROVE  <<x, y>> = Append(<<x>>, y)
OBVIOUS

\* One or two signals to be sent.
LEMMA ShortFacts ==
  ASSUME NEW x, NEW y
  PROVE  /\ Carried(<<>>) = {}
         /\ <<x>> # <<>> /\ Head(<<x>>) = x /\ Tail(<<x>>) = <<>> /\ Carried(<<x>>) = x.signal.units
         /\ <<x, y>> # <<>> /\ Head(<<x, y>>) = x /\ Tail(<<x, y>>) = <<y>>
         /\ Carried(<<x, y>>) = x.signal.units \cup y.signal.units
         /\ <<>> \o <<y>> = <<y>> /\ <<x>> \o <<y>> = <<x, y>>
         /\ \A z : <<x, y>> # <<z>>
<1>1. Carried(<<>>) = {}
  BY DEF Carried
<1>2. DOMAIN <<x>> = {1} /\ <<x>>[1] = x
  OBVIOUS
<1>3. Carried(<<x>>) = x.signal.units
  BY <1>2 DEF Carried
<1>4. DOMAIN <<x, y>> = {1, 2} /\ <<x, y>>[1] = x /\ <<x, y>>[2] = y
  OBVIOUS
<1>5. Carried(<<x, y>>) = x.signal.units \cup y.signal.units
  BY <1>4 DEF Carried
<1>6. <<x>> # <<>> /\ Head(<<x>>) = x /\ Tail(<<x>>) = <<>>
  OBVIOUS
<1>7. <<x, y>> # <<>> /\ Head(<<x, y>>) = x /\ Tail(<<x, y>>) = <<y>>
  OBVIOUS
<1>8. <<>> \o <<y>> = <<y>> /\ <<x>> \o <<y>> = <<x, y>>
  <2>1. <<x>> \in Seq({x, y}) /\ <<y>> \in Seq({x, y}) /\ y \in {x, y}
    OBVIOUS
  <2>2. <<x>> \o <<y>> = Append(<<x>>, y)
    BY <2>1, AppendIsConcat
  <2>3. Append(<<x>>, y) = <<x, y>>
    BY PairIsAppend
  <2>4. <<>> \o <<y>> = <<y>>
    BY <2>1, ConcatEmptySeq
  <2> QED
    BY <2>2, <2>3, <2>4
<1>9. ASSUME NEW z PROVE <<x, y>> # <<z>>
  OBVIOUS
<1> QED
  BY <1>1, <1>3, <1>5, <1>6, <1>7, <1>8, <1>9

\* What may be sent.
LEMMA OutgoingFacts ==
  ASSUME NEW to \in Threads \cup {"intake"}
  PROVE  /\ <<>> \in Seq(Outgoing)
         /\ <<Send(to, Stop)>> \in Seq(Outgoing) /\ <<Send(to, Error)>> \in Seq(Outgoing)
         /\ <<Send(to, Error), Send(to, Stop)>> \in Seq(Outgoing)
         /\ \A U \in SUBSET Payloads : /\ <<Send(to, Data(U))>> \in Seq(Outgoing)
                                       /\ <<Send(to, Data(U)), Send(to, Stop)>> \in Seq(Outgoing)
                                       /\ <<Send(to, Data(U)), Send(to, Error)>> \in Seq(Outgoing)
<1>1. Send(to, Stop) \in Outgoing /\ Send(to, Error) \in Outgoing
  BY SignalFacts DEF Outgoing, Send
<1>2. ASSUME NEW U \in SUBSET Payloads PROVE Send(to, Data(U)) \in Outgoing
  BY SignalFacts DEF Outgoing, Send
<1>3. \A x, y \in Outgoing : <<x>> \in Seq(Outgoing) /\ <<x, y>> \in Seq(Outgoing)
  OBVIOUS
<1> QED
  BY <1>1, <1>2, <1>3

\* What a failing ingestor and an ending expander send.
LEMMA LastWords ==
  ASSUME NEW to \in Threads \cup {"intake"}
  PROVE  /\ \A some \in BOOLEAN :
              (IF some THEN <<Send(to, Data({}))>> ELSE <<>>) \o <<Send(to, Error)>>
                = IF some THEN <<Send(to, Data({})), Send(to, Error)>> ELSE <<Send(to, Error)>>
         /\ \A U \in SUBSET Payloads :
              Flush(U) \o <<Send("intake", Stop)>>
                = IF U = {} THEN <<Send("intake", Stop)>>
                            ELSE <<Send("intake", Data(U)), Send("intake", Stop)>>
<1>1. ASSUME NEW x, NEW y PROVE <<>> \o <<y>> = <<y>> /\ <<x>> \o <<y>> = <<x, y>>
  BY ShortFacts
<1>2. ASSUME NEW some \in BOOLEAN
      PROVE  (IF some THEN <<Send(to, Data({}))>> ELSE <<>>) \o <<Send(to, Error)>>
               = IF some THEN <<Send(to, Data({})), Send(to, Error)>> ELSE <<Send(to, Error)>>
  BY <1>1
<1>3. ASSUME NEW U \in SUBSET Payloads
      PROVE  Flush(U) \o <<Send("intake", Stop)>>
               = IF U = {} THEN <<Send("intake", Stop)>>
                           ELSE <<Send("intake", Data(U)), Send("intake", Stop)>>
  BY <1>1 DEF Flush
<1> QED
  BY <1>2, <1>3

-----------------------------------------------------------------------------
\* Types.

\* Steps that leave the channels alone.
LEMMA TypeSettings ==
  ASSUME TypeOK, Cancel \/ CloseIntake
  PROVE  TypeOK'
BY DEF TypeOK, Cancel, CloseIntake, history

\* A send fills a channel that has room, or reaches the intake.
LEMMA TypeSend ==
  ASSUME TypeOK, NEW t \in Threads, SendSignal(t)
  PROVE  TypeOK'
<1> DEFINE to == Head(out[t]).to
           m == Head(out[t]).signal
<1>1. out[t] \in Seq(Outgoing) /\ out[t] # <<>> /\ out \in [Threads -> Seq(Outgoing)]
  BY DEF TypeOK, SendSignal, Outgoing
<1>2. Head(out[t]) \in Outgoing /\ Tail(out[t]) \in Seq(Outgoing)
  BY <1>1
<1>3. to \in Threads \cup {"intake"} /\ m \in Signal /\ m.units \in SUBSET Payloads
  BY <1>2 DEF Outgoing, Signal
<1> HIDE DEF to, m
<1>4. out' \in [Threads -> Seq(Outgoing)]
  BY <1>1, <1>2 DEF SendSignal
<1>5. CASE to = "intake"
  <2>1. inbox' = inbox /\ sent' \subseteq Payloads /\ errorSent' \in BOOLEAN /\ stopSent' \in BOOLEAN
    BY <1>3, <1>5 DEF SendSignal, TypeOK, to, m
  <2> QED
    BY <2>1, <1>4 DEF TypeOK, SendSignal, Outgoing
<1>6. CASE to # "intake"
  <2>1. /\ to \in Threads /\ inbox' = [inbox EXCEPT ![to] = Append(@, m)] /\ Len(inbox[to]) < Capacity
        /\ UNCHANGED <<sent, errorSent, stopSent>>
    BY <1>3, <1>6 DEF SendSignal, HasRoom, to, m
  <2>2. /\ inbox \in [Threads -> Seq(Signal)] /\ inbox[to] \in Seq(Signal)
        /\ \A s \in Threads : Len(inbox[s]) <= Capacity
    BY <2>1 DEF TypeOK
  <2>3. Append(inbox[to], m) \in Seq(Signal) /\ Len(Append(inbox[to], m)) = Len(inbox[to]) + 1
    BY <2>2, <1>3, AppendFacts
  <2>4. Len(Append(inbox[to], m)) <= Capacity
    BY <2>1, <2>2, <2>3, LaneAssumption
  <2>5. inbox' \in [Threads -> Seq(Signal)]
    BY <2>1, <2>2, <2>3
  <2>6. ASSUME NEW s \in Threads PROVE Len(inbox'[s]) <= Capacity
    BY <2>1, <2>2, <2>4
  <2> QED
    BY <2>1, <2>5, <2>6, <1>4 DEF TypeOK, SendSignal, Outgoing
<1> QED
  BY <1>5, <1>6

\* Steps that send nothing and receive nothing.
LEMMA TypeLeave ==
  ASSUME TypeOK, NEW t \in Threads, SendFails(t) \/ RecvDisconnected(t) \/ Close(t)
  PROVE  TypeOK'
<1>1. out \in [Threads -> Seq(Outgoing)] /\ <<>> \in Seq(Outgoing) /\ <<>> \in Seq(Signal) /\ Len(<<>>) <= Capacity
  <2>1. Len(<<>>) <= Capacity
    BY LaneAssumption, EmptyFacts
  <2> QED
    BY <2>1, EmptyFacts, OutgoingFacts DEF TypeOK, Outgoing
<1>2. CASE SendFails(t)
  <2>1. out' \in [Threads -> Seq(Outgoing)]
    BY <1>1, <1>2 DEF SendFails
  <2>2. pc' \in [Threads -> {"run", "closing", "done"}]
    BY <1>2 DEF SendFails, TypeOK
  <2> QED
    BY <2>1, <2>2, <1>2 DEF TypeOK, SendFails, Outgoing, history
<1>3. CASE RecvDisconnected(t)
  BY <1>1, <1>3 DEF TypeOK, RecvDisconnected, Leave, Outgoing, history
<1>4. CASE Close(t)
  BY <1>1, <1>4 DEF TypeOK, Close, Outgoing, history
<1> QED
  BY <1>2, <1>3, <1>4

\* A receive shortens a channel.
LEMMA TypeReceive ==
  ASSUME TypeOK, NEW t \in Threads, NEW k, Receive(t, k)
  PROVE  /\ inbox' \in [Threads -> Seq(Signal)] /\ \A s \in Threads : Len(inbox'[s]) <= Capacity
         /\ Received(t) \in SUBSET Payloads
<1>1. /\ inbox \in [Threads -> Seq(Signal)] /\ inbox[t] \in Seq(Signal) /\ inbox[t] # <<>>
      /\ \A s \in Threads : Len(inbox[s]) <= Capacity
      /\ inbox' = [inbox EXCEPT ![t] = Tail(inbox[t])]
  BY DEF TypeOK, Receive
<1>2. /\ Tail(inbox[t]) \in Seq(Signal) /\ Len(Tail(inbox[t])) = Len(inbox[t]) - 1 /\ Len(inbox[t]) \in Nat
      /\ Head(inbox[t]).units \in SUBSET Payloads
  BY <1>1, HeadTailFacts
<1>3. Len(Tail(inbox[t])) <= Capacity
  BY <1>1, <1>2, LaneAssumption
<1> QED
  BY <1>1, <1>2, <1>3 DEF Received

\* Steps of a thread's own loop keep the types.
LEMMA TypeLoops ==
  ASSUME TypeOK
  PROVE  /\ CollectorStep => TypeOK'
         /\ SplitterStep => TypeOK'
         /\ ProfilerStep => TypeOK'
         /\ \A f \in Formats : IngestorStep(f) => TypeOK'
         /\ ExpanderStep => TypeOK'
<1>1. out \in [Threads -> Seq(Outgoing)] /\ pc \in [Threads -> {"run", "closing", "done"}]
  BY DEF TypeOK, Outgoing
<1>2. ASSUME NEW t \in Threads, NEW o \in Seq(Outgoing)
      PROVE  /\ [out EXCEPT ![t] = o] \in [Threads -> Seq(Outgoing)]
             /\ [pc EXCEPT ![t] = "closing"] \in [Threads -> {"run", "closing", "done"}]
  BY <1>1
<1>3. CASE CollectorStep
  <2>1. CASE \E p \in Payloads : Collect(p)
    <3>1. PICK p \in Payloads : Collect(p)
      BY <2>1
    <3>2. <<Send("splitter", Data({p}))>> \in Seq(Outgoing)
      BY Names, OutgoingFacts
    <3>3. out' \in [Threads -> Seq(Outgoing)]
      BY <3>1, <3>2, <1>2, Names DEF Collect
    <3> QED
      BY <3>1, <3>3 DEF TypeOK, Outgoing, Collect, history
  <2>2. CASE CollectFails \/ CollectEnds
    <3>1. /\ <<Send("splitter", Error), Send("splitter", Stop)>> \in Seq(Outgoing)
          /\ <<Send("splitter", Stop)>> \in Seq(Outgoing)
      BY Names, OutgoingFacts
    <3>2. out' \in [Threads -> Seq(Outgoing)] /\ pc' \in [Threads -> {"run", "closing", "done"}]
      <4>1. CASE CollectFails
        BY <4>1, <3>1, <1>2, Names DEF CollectFails, Leave
      <4>2. CASE CollectEnds
        BY <4>2, <3>1, <1>2, Names DEF CollectEnds, Leave
      <4> QED
        BY <2>2, <4>1, <4>2
    <3> QED
      BY <2>2, <3>2 DEF TypeOK, Outgoing, CollectFails, CollectEnds, history
  <2> QED
    BY <1>3, <2>1, <2>2 DEF CollectorStep
<1>4. CASE SplitterStep
  <2>1. CASE SplitData
    <3>1. Receive("splitter", "Data")
      BY <2>1 DEF SplitData
    <3>2. /\ inbox' \in [Threads -> Seq(Signal)] /\ \A s \in Threads : Len(inbox'[s]) <= Capacity
          /\ Received("splitter") \in SUBSET Payloads
      BY <3>1, TypeReceive, Names
    <3>3. <<Send("profiler", Data(Received("splitter")))>> \in Seq(Outgoing)
      BY <3>2, Names, OutgoingFacts
    <3>4. out' \in [Threads -> Seq(Outgoing)]
      BY <2>1, <3>3, <1>2, Names DEF SplitData
    <3> QED
      BY <2>1, <3>2, <3>4 DEF TypeOK, Outgoing, SplitData, history
  <2>2. CASE SplitError \/ SplitStop
    <3>1. Receive("splitter", "Error") \/ Receive("splitter", "Stop")
      BY <2>2 DEF SplitError, SplitStop
    <3>2. inbox' \in [Threads -> Seq(Signal)] /\ \A s \in Threads : Len(inbox'[s]) <= Capacity
      BY <3>1, TypeReceive, Names
    <3>3. <<Send("intake", Error)>> \in Seq(Outgoing) /\ <<Send("profiler", Stop)>> \in Seq(Outgoing)
      BY Names, OutgoingFacts
    <3>4. out' \in [Threads -> Seq(Outgoing)] /\ pc' \in [Threads -> {"run", "closing", "done"}]
      <4>1. CASE SplitError
        BY <4>1, <3>3, <1>2, Names DEF SplitError, Leave
      <4>2. CASE SplitStop
        BY <4>2, <3>3, <1>2, Names DEF SplitStop, Leave
      <4> QED
        BY <2>2, <4>1, <4>2
    <3> QED
      BY <2>2, <3>2, <3>4 DEF TypeOK, Outgoing, SplitError, SplitStop, history
  <2> QED
    BY <1>4, <2>1, <2>2 DEF SplitterStep
<1>5. CASE ProfilerStep
  <2>1. ASSUME NEW f \in Formats, Profile(f) PROVE TypeOK'
    <3>1. Receive("profiler", "Data")
      BY <2>1 DEF Profile
    <3>2. /\ inbox' \in [Threads -> Seq(Signal)] /\ \A s \in Threads : Len(inbox'[s]) <= Capacity
          /\ Received("profiler") \in SUBSET Payloads
      BY <3>1, TypeReceive, Names
    <3>3. <<Send(f, Data(Received("profiler")))>> \in Seq(Outgoing)
      BY <3>2, Names, OutgoingFacts
    <3>4. out' \in [Threads -> Seq(Outgoing)]
      BY <2>1, <3>3, <1>2, Names DEF Profile
    <3> QED
      BY <2>1, <3>2, <3>4 DEF TypeOK, Outgoing, Profile, history
  <2>2. CASE ProfileFails
    <3>1. inbox \in [Threads -> Seq(Signal)] /\ inbox["profiler"] \in Seq(Signal) /\ inbox["profiler"] # <<>>
      BY <2>2, Names DEF TypeOK, ProfileFails
    <3>2. Received("profiler") \in SUBSET Payloads
      BY <3>1, HeadTailFacts DEF Received
    <3>3. Len(<<>>) <= Capacity /\ <<>> \in Seq(Signal)
      BY EmptyFacts, LaneAssumption
    <3>4. inbox' \in [Threads -> Seq(Signal)] /\ \A s \in Threads : Len(inbox'[s]) <= Capacity
      <4>1. inbox' = [inbox EXCEPT !["profiler"] = <<>>] /\ \A s \in Threads : Len(inbox[s]) <= Capacity
        BY <2>2 DEF ProfileFails, TypeOK
      <4> QED
        BY <4>1, <3>1, <3>3
    <3>5. <<Send("intake", Error)>> \in Seq(Outgoing)
      BY OutgoingFacts
    <3>6. out' \in [Threads -> Seq(Outgoing)] /\ pc' \in [Threads -> {"run", "closing", "done"}]
      BY <2>2, <3>5, <1>2, Names DEF ProfileFails, Leave
    <3> QED
      BY <2>2, <3>2, <3>4, <3>6 DEF TypeOK, Outgoing, ProfileFails
  <2>3. CASE ProfileStop
    <3>1. Receive("profiler", "Stop")
      BY <2>3 DEF ProfileStop
    <3>2. inbox' \in [Threads -> Seq(Signal)] /\ \A s \in Threads : Len(inbox'[s]) <= Capacity
      BY <3>1, TypeReceive, Names
    <3>3. <<>> \in Seq(Outgoing)
      BY Names, OutgoingFacts
    <3>4. out' \in [Threads -> Seq(Outgoing)] /\ pc' \in [Threads -> {"run", "closing", "done"}]
      BY <2>3, <3>3, <1>2, Names DEF ProfileStop, Leave
    <3> QED
      BY <2>3, <3>2, <3>4 DEF TypeOK, Outgoing, ProfileStop, history
  <2> QED
    BY <1>5, <2>1, <2>2, <2>3 DEF ProfilerStep
<1>6. ASSUME NEW f \in Formats, IngestorStep(f) PROVE TypeOK'
  <2>1. Receive(f, "Data")
    BY <1>6 DEF IngestorStep, Ingest, IngestFails
  <2>2. /\ inbox' \in [Threads -> Seq(Signal)] /\ \A s \in Threads : Len(inbox'[s]) <= Capacity
        /\ Received(f) \in SUBSET Payloads
    BY <2>1, TypeReceive, Names
  <2>3. out' \in [Threads -> Seq(Outgoing)]
    <3>1. CASE Ingest(f)
      <4>1. <<Send("expander", Data(Received(f)))>> \in Seq(Outgoing)
        BY <2>2, Names, OutgoingFacts
      <4> QED
        BY <3>1, <4>1, <1>2, Names DEF Ingest
    <3>2. ASSUME NEW some \in BOOLEAN, IngestFails(f, some) PROVE out' \in [Threads -> Seq(Outgoing)]
      <4>1. /\ <<Send("expander", Error)>> \in Seq(Outgoing)
            /\ <<Send("expander", Data({})), Send("expander", Error)>> \in Seq(Outgoing)
        BY Names, OutgoingFacts
      <4>2. (IF some THEN <<Send("expander", Data({}))>> ELSE <<>>) \o <<Send("expander", Error)>> \in Seq(Outgoing)
        BY <4>1, LastWords, Names
      <4> QED
        BY <3>2, <4>2, <1>2, Names DEF IngestFails
    <3> QED
      BY <1>6, <3>1, <3>2 DEF IngestorStep
  <2> QED
    BY <1>6, <2>2, <2>3 DEF TypeOK, Outgoing, IngestorStep, Ingest, IngestFails, history
<1>7. CASE ExpanderStep
  <2>1. ASSUME NEW bad \in SUBSET Payloads, NEW full \in SUBSET Payloads, Expand(bad, full) PROVE TypeOK'
    <3>1. Receive("expander", "Data")
      BY <2>1 DEF Expand
    <3>2. /\ inbox' \in [Threads -> Seq(Signal)] /\ \A s \in Threads : Len(inbox'[s]) <= Capacity
          /\ Received("expander") \in SUBSET Payloads
      BY <3>1, TypeReceive, Names
    <3>3. Flush(full) \in Seq(Outgoing)
      BY OutgoingFacts DEF Flush
    <3>4. out' \in [Threads -> Seq(Outgoing)]
      BY <2>1, <3>3, <1>2, Names DEF Expand
    <3>5. pending' \subseteq Payloads /\ skipped' \subseteq Payloads
      BY <2>1, <3>2 DEF TypeOK, Expand
    <3> QED
      BY <2>1, <3>2, <3>4, <3>5 DEF TypeOK, Outgoing, Expand
  <2>2. CASE ExpandError
    <3>1. Receive("expander", "Error")
      BY <2>2 DEF ExpandError
    <3>2. inbox' \in [Threads -> Seq(Signal)] /\ \A s \in Threads : Len(inbox'[s]) <= Capacity
      BY <3>1, TypeReceive, Names
    <3>3. <<Send("intake", Error)>> \in Seq(Outgoing)
      BY OutgoingFacts
    <3>4. out' \in [Threads -> Seq(Outgoing)]
      BY <2>2, <3>3, <1>2, Names DEF ExpandError
    <3> QED
      BY <2>2, <3>2, <3>4 DEF TypeOK, Outgoing, ExpandError, history
  <2>3. CASE ExpandCancelled \/ ExpandDisconnected
    <3>1. (\E k : Receive("expander", k)) \/ inbox' = inbox
      BY <2>3 DEF ExpandCancelled, ExpandDisconnected
    <3>2. inbox' \in [Threads -> Seq(Signal)] /\ \A s \in Threads : Len(inbox'[s]) <= Capacity
      <4>1. CASE \E k : Receive("expander", k)
        BY <4>1, TypeReceive, Names
      <4>2. CASE inbox' = inbox
        BY <4>2 DEF TypeOK
      <4> QED
        BY <3>1, <4>1, <4>2
    <3>3. pending \in SUBSET Payloads
      BY DEF TypeOK
    <3>4. Flush(pending) \o <<Send("intake", Stop)>> \in Seq(Outgoing)
      BY <3>3, LastWords, OutgoingFacts
    <3>5. /\ ExpandEnds
          /\ pc' = [pc EXCEPT !["expander"] = "closing"]
          /\ out' = [out EXCEPT !["expander"] = Flush(pending) \o <<Send("intake", Stop)>>]
      BY <2>3 DEF ExpandCancelled, ExpandDisconnected, ExpandEnds, Leave
    <3>6. out' \in [Threads -> Seq(Outgoing)] /\ pc' \in [Threads -> {"run", "closing", "done"}]
      BY <3>4, <3>5, <1>2, Names
    <3> QED
      BY <3>2, <3>5, <3>6 DEF TypeOK, Outgoing, ExpandEnds, history
  <2> QED
    BY <1>7, <2>1, <2>2, <2>3 DEF ExpanderStep
<1> QED
  BY <1>3, <1>4, <1>5, <1>6, <1>7

\* The type invariant is inductive.
LEMMA TypeStep ==
  ASSUME TypeOK, [Next]_vars
  PROVE  TypeOK'
<1>1. ASSUME NEW t \in Threads, ThreadStep(t) PROVE TypeOK'
  BY <1>1, TypeSend, TypeLeave, TypeLoops DEF ThreadStep
<1>2. CASE UNCHANGED vars
  BY <1>2 DEF TypeOK, vars, history
<1> QED
  BY <1>1, <1>2, TypeSettings DEF Next

\* A lane starts well typed.
LEMMA TypeInit ==
  ASSUME Init
  PROVE  TypeOK
<1>1. out \in [Threads -> Seq(Outgoing)] /\ inbox \in [Threads -> Seq(Signal)]
  BY EmptyFacts, OutgoingFacts, Names DEF Init
<1>2. \A t \in Threads : Len(inbox[t]) <= Capacity
  BY EmptyFacts, LaneAssumption DEF Init
<1> QED
  BY <1>1, <1>2 DEF Init, TypeOK, Outgoing

\* Every channel of the lane stays within its capacity and carries signals of the
\* input, whatever fails (channel.rs, signal.rs).
THEOREM LaneTyped == Spec => []TypeOK
BY TypeInit, TypeStep, PTL DEF Spec

-----------------------------------------------------------------------------
\* The inductive invariant.

Running(t) == pc[t] = "run"
Idle(t) == out[t] = <<>>
Sends(t, to, m) == out[t] = <<Send(to, m)>>
SendsTwo(t, to, m, n) == out[t] = <<Send(to, m), Send(to, n)>>

Batches == (SUBSET Payloads) \ {{}}

\* What each thread may have left to send.
CollectorOut ==
  \/ Idle("collector")
  \/ Running("collector") /\ \E U \in Batches : Sends("collector", "splitter", Data(U))
  \/ ~Running("collector") /\ Sends("collector", "splitter", Stop)
  \/ ~Running("collector") /\ SendsTwo("collector", "splitter", Error, Stop)

SplitterOut ==
  \/ Idle("splitter")
  \/ Running("splitter") /\ \E U \in Batches : Sends("splitter", "profiler", Data(U))
  \/ ~Running("splitter") /\ Sends("splitter", "intake", Error)
  \/ ~Running("splitter") /\ Sends("splitter", "profiler", Stop)

ProfilerOut ==
  /\ Running("profiler") => unprofiled = {}
  /\ \/ Idle("profiler")
     \/ Running("profiler") /\ \E f \in Formats, U \in Batches : Sends("profiler", f, Data(U))
     \/ ~Running("profiler") /\ unprofiled # {} /\ Sends("profiler", "intake", Error)

FormatOut(f) ==
  \/ Idle(f)
  \/ Running(f) /\ \/ \E U \in SUBSET Payloads : Sends(f, "expander", Data(U))
                   \/ Sends(f, "expander", Error)
                   \/ SendsTwo(f, "expander", Data({}), Error)

ExpanderOut ==
  /\ stopSent => ~Running("expander") /\ Idle("expander")
  /\ \/ Idle("expander")
     \/ Running("expander") /\ \E U \in SUBSET Payloads : Sends("expander", "intake", Data(U))
     \/ Running("expander") /\ Sends("expander", "intake", Error)
     \/ ~Running("expander") /\ Sends("expander", "intake", Stop)
     \/ ~Running("expander") /\ \E U \in SUBSET Payloads : SendsTwo("expander", "intake", Data(U), Stop)

Control ==
  /\ CollectorOut /\ SplitterOut /\ ProfilerOut /\ ExpanderOut
  /\ \A f \in Formats : FormatOut(f)
  /\ \A t \in Threads : pc[t] = "done" => Idle(t)

\* A Stop in a channel is the last signal and its sender is past its loop.
Streams ==
  /\ inbox["collector"] = <<>>
  /\ Proper(inbox["splitter"]) /\ StopLast(inbox["splitter"])
  /\ Holds(inbox["splitter"], "Stop") => ~Running("collector") /\ Idle("collector")
  /\ Proper(inbox["profiler"]) /\ StopLast(inbox["profiler"])
  /\ Holds(inbox["profiler"], "Stop") => ~Running("splitter") /\ Idle("splitter")

\* Where payloads are, seen from the profiler down the lane, and behind each step before it.
Queued == UNION {UnitsIn(inbox[t]) : t \in Formats \cup {"expander"}}
Leaving == UNION {Carried(out[t]) : t \in Formats \cup {"expander", "profiler"}}
Down == Queued \cup Leaving \cup pending \cup sent \cup skipped
FromProfiler == Down \cup UnitsIn(inbox["profiler"])
PastSplitter == FromProfiler \cup Carried(out["splitter"])
FromSplitter == PastSplitter \cup UnitsIn(inbox["splitter"])
Collected == FromSplitter \cup Carried(out["collector"])

\* A payload is in one place: what the profiler has still to see is nowhere else.
Unique ==
  /\ Tidy(inbox["splitter"]) /\ Tidy(inbox["profiler"])
  /\ UnitsIn(inbox["profiler"]) \cap Down = {}
  /\ Carried(out["splitter"]) \cap FromProfiler = {}
  /\ UnitsIn(inbox["splitter"]) \cap PastSplitter = {}
  /\ Carried(out["collector"]) \cap FromSplitter = {}
  /\ uncollected \cap Collected = {}

\* What relieves the lane of its duty to answer for every payload.
Owes == unprofiled # {} /\ ~Idle("profiler")
Excused == cancel \/ ~open \/ errorSent \/ Owes

\* A thread that is past its loop has nothing more to expect from above it.
SplitterFailed == Sends("splitter", "intake", Error)
CollectorOver ==
  ~Running("collector") => \/ uncollected = {} \/ SplitterFailed
                          \/ Holds(inbox["splitter"], "Error")
                          \/ SendsTwo("collector", "splitter", Error, Stop)
SplitterOver ==
  ~Running("splitter") => \/ SplitterFailed
                         \/ /\ ~Running("collector") /\ Idle("collector")
                            /\ uncollected = {} /\ inbox["splitter"] = <<>>
ProfilerOver ==
  ~Running("profiler") => /\ ~Running("splitter") /\ Idle("splitter") /\ Idle("profiler")
                         /\ inbox["profiler"] = <<>>
FormatOver(f) == ~Running(f) => ~Running("profiler") /\ inbox[f] = <<>>
ExpanderOver ==
  ~Running("expander") => /\ pending = {} /\ inbox["expander"] = <<>>
                         /\ \A f \in Formats : pc[f] = "done"

\* An ingestor's error is on its way to the intake.
IngestorFailed(f) == Sends(f, "expander", Error) \/ SendsTwo(f, "expander", Data({}), Error)
ErrorComing ==
  \/ \E f \in Formats : IngestorFailed(f)
  \/ Holds(inbox["expander"], "Error")
  \/ Sends("expander", "intake", Error)

\* Nothing is lost in silence.
Answerable ==
  /\ unprofiled = {}
  /\ CollectorOver /\ SplitterOver /\ ProfilerOver /\ ExpanderOver
  /\ \A f \in Formats : FormatOver(f)
  /\ ErrorComing \/ Payloads \subseteq uncollected \cup Collected

LaneInv == TypeOK /\ Control /\ Streams /\ Unique /\ (Excused \/ Answerable)

-----------------------------------------------------------------------------
\* What each kind of step does to the threads and channels.

\* The functions of a well-typed state.
LEMMA Fns ==
  ASSUME TypeOK
  PROVE  /\ pc \in [Threads -> {"run", "closing", "done"}]
         /\ inbox \in [Threads -> Seq(Signal)]
         /\ out \in [Threads -> Seq(Outgoing)]
BY DEF TypeOK, Outgoing

\* A send.
LEMMA SendEffect ==
  ASSUME TypeOK, NEW t \in Threads, SendSignal(t),
         NEW to, NEW m, Head(out[t]).to = to, Head(out[t]).signal = m
  PROVE  /\ ~Idle(t) /\ pc' = pc
         /\ out'[t] = Tail(out[t]) /\ \A s \in Threads : s # t => out'[s] = out[s]
         /\ UNCHANGED <<cancel, open, uncollected, pending, skipped, unprofiled>>
         /\ ~Closed(to) /\ to \in Threads \cup {"intake"} /\ m \in Signal
         /\ to = "intake" => /\ inbox' = inbox /\ sent' = sent \cup m.units
                             /\ errorSent' = (errorSent \/ m.kind = "Error")
                             /\ stopSent' = (stopSent \/ m.kind = "Stop")
         /\ to # "intake" => /\ inbox'[to] = Append(inbox[to], m)
                             /\ \A s \in Threads : s # to => inbox'[s] = inbox[s]
                             /\ UNCHANGED <<sent, errorSent, stopSent>>
<1>1. out[t] \in Seq(Outgoing) /\ out[t] # <<>>
  BY Fns DEF SendSignal
<1>2. Head(out[t]) \in Outgoing
  BY <1>1
<1>3. to \in Threads \cup {"intake"} /\ m \in Signal
  BY <1>2 DEF Outgoing
<1>4. out' = [out EXCEPT ![t] = Tail(out[t])]
  BY DEF SendSignal
<1>5. to # "intake" => inbox' = [inbox EXCEPT ![to] = Append(inbox[to], m)]
  BY DEF SendSignal
<1>6. to # "intake" => /\ inbox'[to] = Append(inbox[to], m)
                       /\ \A s \in Threads : s # to => inbox'[s] = inbox[s]
  BY <1>3, <1>5, Fns
<1>7. out'[t] = Tail(out[t]) /\ \A s \in Threads : s # t => out'[s] = out[s]
  BY <1>4, Fns
<1> QED
  BY <1>1, <1>3, <1>6, <1>7 DEF SendSignal, Idle

\* A send whose receiver is gone.
LEMMA SendFailsEffect ==
  ASSUME TypeOK, NEW t \in Threads, SendFails(t)
  PROVE  /\ ~Idle(t) /\ Closed(Head(out[t]).to)
         /\ out'[t] = <<>> /\ \A s \in Threads : s # t => out'[s] = out[s] /\ pc'[s] = pc[s]
         /\ t \in Formats => pc'[t] = pc[t]
         /\ t \notin Formats => pc'[t] = "closing"
         /\ UNCHANGED <<cancel, open, inbox, uncollected, pending, sent, skipped, unprofiled, errorSent, stopSent>>
BY Fns DEF SendFails, Idle, history

\* A receive on a channel without senders.
LEMMA DisconnectEffect ==
  ASSUME TypeOK, NEW t \in Threads, RecvDisconnected(t)
  PROVE  /\ t # "collector" /\ t # "expander"
         /\ Running(t) /\ Idle(t) /\ inbox[t] = <<>> /\ \A s \in Senders(t) : Released(s)
         /\ pc'[t] = "closing" /\ out'[t] = <<>>
         /\ \A s \in Threads : s # t => out'[s] = out[s] /\ pc'[s] = pc[s]
         /\ UNCHANGED <<cancel, open, inbox, uncollected, pending, sent, skipped, unprofiled, errorSent, stopSent>>
BY Fns DEF RecvDisconnected, Leave, Ready, Running, Idle, history

\* The end of a thread.
LEMMA CloseEffect ==
  ASSUME TypeOK, NEW t \in Threads, Close(t)
  PROVE  /\ ~Running(t) /\ Idle(t)
         /\ pc'[t] = "done" /\ out' = out /\ inbox'[t] = <<>>
         /\ \A s \in Threads : s # t => inbox'[s] = inbox[s] /\ pc'[s] = pc[s]
         /\ UNCHANGED <<cancel, open, uncollected, pending, sent, skipped, unprofiled, errorSent, stopSent>>
BY Fns DEF Close, Running, Idle, history

\* A receive.
LEMMA ReceiveEffect ==
  ASSUME TypeOK, NEW t \in Threads, NEW k, Receive(t, k)
  PROVE  /\ Running(t) /\ Idle(t) /\ inbox[t] # <<>> /\ inbox[t] \in Seq(Signal)
         /\ Head(inbox[t]).kind = k /\ inbox'[t] = Tail(inbox[t])
         /\ \A s \in Threads : s # t => inbox'[s] = inbox[s]
         /\ Received(t) = Head(inbox[t]).units /\ Received(t) \in SUBSET Payloads
         /\ UnitsIn(inbox[t]) = Received(t) \cup UnitsIn(inbox'[t])
         /\ \A j : Holds(inbox[t], j) <=> k = j \/ Holds(inbox'[t], j)
         /\ StopLast(inbox[t]) => StopLast(inbox'[t]) /\ (k = "Stop" => inbox'[t] = <<>>)
         /\ Proper(inbox[t]) => Proper(inbox'[t]) /\ (Received(t) = {} <=> k # "Data")
         /\ Tidy(inbox[t]) => Tidy(inbox'[t]) /\ Received(t) \cap UnitsIn(inbox'[t]) = {}
<1>1. inbox[t] # <<>> /\ inbox[t] \in Seq(Signal) /\ Running(t) /\ Idle(t) /\ Head(inbox[t]).kind = k
  BY Fns DEF Receive, Ready, Running, Idle
<1>2. inbox'[t] = Tail(inbox[t]) /\ \A s \in Threads : s # t => inbox'[s] = inbox[s]
  BY Fns DEF Receive
<1>3. Received(t) = Head(inbox[t]).units
  BY DEF Received
<1> DEFINE q == inbox[t]
<1>4. q \in Seq(Signal) /\ q # <<>>
  BY <1>1
<1> HIDE DEF q
<1>5. /\ Head(q).units \in SUBSET Payloads
      /\ UnitsIn(q) = Head(q).units \cup UnitsIn(Tail(q))
      /\ \A j : Holds(q, j) <=> Head(q).kind = j \/ Holds(Tail(q), j)
      /\ StopLast(q) => StopLast(Tail(q))
      /\ StopLast(q) /\ Head(q).kind = "Stop" => Tail(q) = <<>>
      /\ Proper(q) => Proper(Tail(q)) /\ (Head(q).units = {} <=> Head(q).kind # "Data")
      /\ Tidy(q) => Tidy(Tail(q)) /\ Head(q).units \cap UnitsIn(Tail(q)) = {}
  BY <1>4, HeadTailFacts
<1> QED
  BY <1>1, <1>2, <1>3, <1>5 DEF q

\* A new operation of a thread.
LEMMA OutEffect ==
  ASSUME TypeOK, NEW t \in Threads, NEW o, out' = [out EXCEPT ![t] = o]
  PROVE  out'[t] = o /\ \A s \in Threads : s # t => out'[s] = out[s]
BY Fns

\* The end of a loop.
LEMMA LeaveEffect ==
  ASSUME TypeOK, NEW t \in Threads, NEW o, Leave(t, o)
  PROVE  /\ out'[t] = o /\ \A s \in Threads : s # t => out'[s] = out[s] /\ pc'[s] = pc[s]
         /\ pc'[t] = "closing"
BY Fns DEF Leave

-----------------------------------------------------------------------------
\* What the invariant says of the signal a thread sends next.

\* The head of one or two signals.
LEMMA SendsFacts ==
  ASSUME NEW t, NEW to, NEW m, NEW n
  PROVE  /\ Sends(t, to, m) => /\ Head(out[t]).to = to /\ Head(out[t]).signal = m
                               /\ Tail(out[t]) = <<>> /\ Carried(out[t]) = m.units
         /\ SendsTwo(t, to, m, n) => /\ Head(out[t]).to = to /\ Head(out[t]).signal = m
                                     /\ Tail(out[t]) = <<Send(to, n)>>
                                     /\ Carried(out[t]) = m.units \cup n.units
<1> DEFINE x == Send(to, m)
           y == Send(to, n)
<1>1. x.to = to /\ x.signal = m /\ y.signal = n
  BY SignalFacts
<1>2. Sends(t, to, m) => out[t] = <<x>>
  BY DEF Sends
<1>3. SendsTwo(t, to, m, n) => out[t] = <<x, y>>
  BY DEF SendsTwo
<1> HIDE DEF x, y
<1>4. /\ Head(<<x>>) = x /\ Tail(<<x>>) = <<>> /\ Carried(<<x>>) = x.signal.units
      /\ Head(<<x, y>>) = x /\ Tail(<<x, y>>) = <<y>> /\ Carried(<<x, y>>) = x.signal.units \cup y.signal.units
  BY ShortFacts
<1> QED
  BY <1>1, <1>2, <1>3, <1>4 DEF y

\* The head of a batch.
LEMMA SendsData ==
  ASSUME NEW t, NEW to, NEW U, NEW n
  PROVE  /\ Sends(t, to, Data(U)) =>
              /\ Head(out[t]).to = to /\ Head(out[t]).signal.kind = "Data" /\ Head(out[t]).signal.units = U
              /\ Tail(out[t]) = <<>> /\ Carried(out[t]) = U
         /\ SendsTwo(t, to, Data(U), n) =>
              /\ Head(out[t]).to = to /\ Head(out[t]).signal.kind = "Data" /\ Head(out[t]).signal.units = U
              /\ Tail(out[t]) = <<Send(to, n)>> /\ Carried(out[t]) = U \cup n.units
<1> DEFINE d == Data(U)
<1>1. d.kind = "Data" /\ d.units = U
  BY SignalFacts
<1> HIDE DEF d
<1>2. /\ Sends(t, to, d) => /\ Head(out[t]).to = to /\ Head(out[t]).signal = d
                            /\ Tail(out[t]) = <<>> /\ Carried(out[t]) = d.units
      /\ SendsTwo(t, to, d, n) => /\ Head(out[t]).to = to /\ Head(out[t]).signal = d
                                  /\ Tail(out[t]) = <<Send(to, n)>>
                                  /\ Carried(out[t]) = d.units \cup n.units
  BY SendsFacts
<1> QED
  BY <1>1, <1>2 DEF d

\* The collector sends to the splitter: Stop last, and after the error if there is one.
LEMMA CollectorSending ==
  ASSUME CollectorOut, ~Idle("collector"), NEW m, m = Head(out["collector"]).signal
  PROVE  /\ Head(out["collector"]).to = "splitter" /\ Carried(out["collector"]) = m.units
         /\ \/ /\ Running("collector") /\ Tail(out["collector"]) = <<>>
               /\ m.kind = "Data" /\ m.units # {}
            \/ /\ ~Running("collector") /\ Tail(out["collector"]) = <<>>
               /\ m = Stop /\ Sends("collector", "splitter", Stop)
            \/ /\ ~Running("collector") /\ Tail(out["collector"]) = <<Send("splitter", Stop)>>
               /\ m = Error /\ SendsTwo("collector", "splitter", Error, Stop)
<1>1. CASE \E U \in Batches : Running("collector") /\ Sends("collector", "splitter", Data(U))
  <2>1. PICK U \in Batches : Running("collector") /\ Sends("collector", "splitter", Data(U))
    BY <1>1
  <2>2. U # {}
    BY DEF Batches
  <2> QED
    BY <2>1, <2>2, SendsData
<1>2. CASE ~Running("collector") /\ Sends("collector", "splitter", Stop)
  BY <1>2, SendsFacts
<1>3. CASE ~Running("collector") /\ SendsTwo("collector", "splitter", Error, Stop)
  <2>1. Error.units \cup Stop.units = Error.units
    BY SignalFacts
  <2> QED
    BY <1>3, <2>1, SendsFacts
<1> QED
  BY <1>1, <1>2, <1>3 DEF CollectorOut

\* The splitter sends payloads and Stop to the profiler, an error to the intake.
LEMMA SplitterSending ==
  ASSUME SplitterOut, ~Idle("splitter"), NEW m, m = Head(out["splitter"]).signal
  PROVE  /\ Tail(out["splitter"]) = <<>> /\ Carried(out["splitter"]) = m.units
         /\ \/ /\ Running("splitter") /\ Head(out["splitter"]).to = "profiler"
               /\ m.kind = "Data" /\ m.units # {}
            \/ /\ ~Running("splitter") /\ Head(out["splitter"]).to = "intake"
               /\ m = Error /\ SplitterFailed
            \/ /\ ~Running("splitter") /\ Head(out["splitter"]).to = "profiler"
               /\ m = Stop /\ Sends("splitter", "profiler", Stop)
<1>1. CASE \E U \in Batches : Running("splitter") /\ Sends("splitter", "profiler", Data(U))
  <2>1. PICK U \in Batches : Running("splitter") /\ Sends("splitter", "profiler", Data(U))
    BY <1>1
  <2>2. U # {}
    BY DEF Batches
  <2> QED
    BY <2>1, <2>2, SendsData
<1>2. CASE ~Running("splitter") /\ Sends("splitter", "intake", Error)
  BY <1>2, SendsFacts DEF SplitterFailed
<1>3. CASE ~Running("splitter") /\ Sends("splitter", "profiler", Stop)
  BY <1>3, SendsFacts
<1> QED
  BY <1>1, <1>2, <1>3 DEF SplitterOut

\* The profiler sends payloads to an ingestor, its error to the intake.
LEMMA ProfilerSending ==
  ASSUME ProfilerOut, ~Idle("profiler"), NEW m, m = Head(out["profiler"]).signal
  PROVE  /\ Tail(out["profiler"]) = <<>> /\ Carried(out["profiler"]) = m.units
         /\ \/ /\ Running("profiler") /\ Head(out["profiler"]).to \in Formats
               /\ m.kind = "Data" /\ unprofiled = {}
            \/ /\ ~Running("profiler") /\ Head(out["profiler"]).to = "intake"
               /\ m = Error /\ unprofiled # {}
<1>1. CASE \E f \in Formats, U \in Batches : Running("profiler") /\ Sends("profiler", f, Data(U))
  <2>1. PICK f \in Formats, U \in Batches : Running("profiler") /\ Sends("profiler", f, Data(U))
    BY <1>1
  <2>2. unprofiled = {}
    BY <2>1 DEF ProfilerOut
  <2> QED
    BY <2>1, <2>2, SendsData
<1>2. CASE ~Running("profiler") /\ unprofiled # {} /\ Sends("profiler", "intake", Error)
  BY <1>2, SendsFacts
<1> QED
  BY <1>1, <1>2 DEF ProfilerOut

\* An ingestor sends to the expander.
LEMMA FormatSending ==
  ASSUME NEW f, FormatOut(f), ~Idle(f), NEW m, m = Head(out[f]).signal
  PROVE  /\ Running(f) /\ Head(out[f]).to = "expander" /\ Carried(out[f]) = m.units
         /\ \/ m.kind = "Data" /\ Tail(out[f]) = <<>> /\ ~IngestorFailed(f)
            \/ m = Error /\ Tail(out[f]) = <<>>
            \/ m.kind = "Data" /\ m.units = {} /\ Tail(out[f]) = <<Send("expander", Error)>>
<1>1. ASSUME NEW U \in SUBSET Payloads, Sends(f, "expander", Data(U)) PROVE ~IngestorFailed(f)
  <2>1. Head(out[f]).signal.kind = "Data" /\ Tail(out[f]) = <<>> /\ Error.kind = "Error"
    BY <1>1, SignalFacts, SendsData
  <2>2. ~Sends(f, "expander", Error)
    BY <2>1, SendsFacts
  <2>3. ~SendsTwo(f, "expander", Data({}), Error)
    <3>1. <<Send("expander", Error)>> # <<>>
      OBVIOUS
    <3> QED
      BY <2>1, <3>1, SendsData
  <2> QED
    BY <2>2, <2>3 DEF IngestorFailed
<1>2. CASE \E U \in SUBSET Payloads : Sends(f, "expander", Data(U))
  BY <1>1, <1>2, SendsData DEF FormatOut
<1>3. CASE Sends(f, "expander", Error)
  BY <1>3, SendsFacts DEF FormatOut
<1>4. CASE SendsTwo(f, "expander", Data({}), Error)
  <2>1. {} \cup Error.units = {}
    BY SignalFacts
  <2>2. /\ Head(out[f]).to = "expander" /\ Head(out[f]).signal.kind = "Data" /\ Head(out[f]).signal.units = {}
        /\ Tail(out[f]) = <<Send("expander", Error)>> /\ Carried(out[f]) = {} \cup Error.units
    BY <1>4, SendsData
  <2> QED
    BY <2>1, <2>2 DEF FormatOut
<1> QED
  BY <1>2, <1>3, <1>4 DEF FormatOut

\* The expander sends to the intake, Stop last.
LEMMA ExpanderSending ==
  ASSUME ExpanderOut, ~Idle("expander"), NEW m, m = Head(out["expander"]).signal
  PROVE  /\ ~stopSent /\ Head(out["expander"]).to = "intake" /\ Carried(out["expander"]) = m.units
         /\ \/ Running("expander") /\ m.kind = "Data" /\ Tail(out["expander"]) = <<>>
            \/ Running("expander") /\ m = Error /\ Tail(out["expander"]) = <<>>
            \/ /\ ~Running("expander") /\ m = Stop /\ Tail(out["expander"]) = <<>>
               /\ Sends("expander", "intake", Stop)
            \/ /\ ~Running("expander") /\ m.kind = "Data"
               /\ Tail(out["expander"]) = <<Send("intake", Stop)>>
<1>1. ~stopSent
  BY DEF ExpanderOut
<1>2. CASE \E U \in SUBSET Payloads : Running("expander") /\ Sends("expander", "intake", Data(U))
  BY <1>1, <1>2, SendsData
<1>3. CASE Running("expander") /\ Sends("expander", "intake", Error)
  BY <1>1, <1>3, SendsFacts
<1>4. CASE ~Running("expander") /\ Sends("expander", "intake", Stop)
  BY <1>1, <1>4, SendsFacts
<1>5. CASE \E U \in SUBSET Payloads : ~Running("expander") /\ SendsTwo("expander", "intake", Data(U), Stop)
  <2>1. PICK U \in SUBSET Payloads : ~Running("expander") /\ SendsTwo("expander", "intake", Data(U), Stop)
    BY <1>5
  <2>2. U \cup Stop.units = U
    BY SignalFacts
  <2>3. /\ Head(out["expander"]).to = "intake" /\ Head(out["expander"]).signal.kind = "Data"
        /\ Head(out["expander"]).signal.units = U /\ Carried(out["expander"]) = U \cup Stop.units
        /\ Tail(out["expander"]) = <<Send("intake", Stop)>>
    BY <2>1, SendsData
  <2> QED
    BY <1>1, <2>1, <2>2, <2>3
<1> QED
  BY <1>2, <1>3, <1>4, <1>5 DEF ExpanderOut

\* A thread's step touches its own control and its own part of the state only.
LEMMA OwnCells ==
  ASSUME TypeOK, Control, NEW t \in Threads, ThreadStep(t)
  PROVE  /\ \A s \in Threads : s # t => pc'[s] = pc[s] /\ out'[s] = out[s]
         /\ cancel' = cancel /\ open' = open
         /\ t # "collector" => uncollected' = uncollected
         /\ t # "profiler" => unprofiled' = unprofiled
         /\ t # "expander" => UNCHANGED <<pending, skipped, sent, stopSent>>
<1>1. CASE SendSignal(t)
  <2> DEFINE m == Head(out[t]).signal
             to == Head(out[t]).to
  <2>1. /\ ~Idle(t) /\ pc' = pc /\ \A s \in Threads : s # t => out'[s] = out[s]
        /\ UNCHANGED <<cancel, open, uncollected, pending, skipped, unprofiled>>
        /\ to = "intake" => sent' = sent \cup m.units /\ stopSent' = (stopSent \/ m.kind = "Stop")
        /\ to # "intake" => UNCHANGED <<sent, stopSent>>
    BY <1>1, SendEffect
  <2>2. ASSUME t # "expander" PROVE to # "intake" \/ m = Error
    <3>1. CASE t = "collector"
      BY <2>1, <3>1, CollectorSending DEF Control
    <3>2. CASE t = "splitter"
      BY <2>1, <3>2, SplitterSending DEF Control
    <3>3. CASE t = "profiler"
      BY <2>1, <3>3, ProfilerSending, Names DEF Control
    <3>4. CASE t \in Formats
      BY <2>1, <3>4, FormatSending DEF Control
    <3> QED
      BY <2>2, <3>1, <3>2, <3>3, <3>4, Names
  <2> HIDE DEF m, to
  <2>3. stopSent \in BOOLEAN /\ Error.units = {} /\ Error.kind # "Stop"
    BY SignalFacts DEF TypeOK
  <2>4. t # "expander" => UNCHANGED <<sent, stopSent>>
    BY <2>1, <2>2, <2>3
  <2> QED
    BY <2>1, <2>4
<1>2. CASE SendFails(t)
  BY <1>2, SendFailsEffect
<1>3. CASE RecvDisconnected(t)
  BY <1>3, DisconnectEffect
<1>4. CASE Close(t)
  BY <1>4, CloseEffect
<1>5. CASE t = "collector" /\ CollectorStep
  BY <1>5, Fns DEF CollectorStep, Collect, CollectFails, CollectEnds, Leave, history
<1>6. CASE t = "splitter" /\ SplitterStep
  BY <1>6, Fns DEF SplitterStep, SplitData, SplitError, SplitStop, Leave, history
<1>7. CASE t = "profiler" /\ ProfilerStep
  BY <1>7, Fns DEF ProfilerStep, Profile, ProfileFails, ProfileStop, Leave, history
<1>8. CASE t \in Formats /\ IngestorStep(t)
  BY <1>8, Fns DEF IngestorStep, Ingest, IngestFails, Leave, history
<1>9. CASE t = "expander" /\ ExpanderStep
  BY <1>9, Fns DEF ExpanderStep, Expand, ExpandError, ExpandCancelled, ExpandDisconnected, ExpandEnds, Leave, history
<1> QED
  BY <1>1, <1>2, <1>3, <1>4, <1>5, <1>6, <1>7, <1>8, <1>9 DEF ThreadStep

-----------------------------------------------------------------------------
\* Every thread keeps to what it may send.

\* The collector (spawn_collector_thread).
LEMMA CollectorControl ==
  ASSUME TypeOK, Control, ThreadStep("collector")
  PROVE  CollectorOut' /\ (pc'["collector"] = "done" => out'["collector"] = <<>>)
<1> DEFINE c == "collector"
<1>0. c \in Threads /\ c \notin Formats /\ CollectorOut /\ (pc[c] = "done" => Idle(c))
  BY Names DEF Control
<1>1. CASE SendSignal(c)
  <2>1. ~Idle(c) /\ pc' = pc /\ out'[c] = Tail(out[c])
    BY <1>0, <1>1, SendEffect
  <2>2. \/ Tail(out[c]) = <<>>
        \/ ~Running(c) /\ Tail(out[c]) = <<Send("splitter", Stop)>>
    BY <1>0, <2>1, CollectorSending
  <2> QED
    BY <1>0, <2>1, <2>2 DEF CollectorOut, Idle, Running, Sends
<1>2. CASE SendFails(c)
  BY <1>0, <1>2, SendFailsEffect DEF CollectorOut, Idle
<1>3. CASE Close(c)
  BY <1>0, <1>3, CloseEffect DEF CollectorOut, Idle
<1>4. ASSUME NEW p \in Payloads, Collect(p) PROVE CollectorOut' /\ pc'[c] # "done"
  <2>1. out'[c] = <<Send("splitter", Data({p}))>> /\ pc'[c] = "run" /\ {p} \in Batches
    BY <1>0, <1>4, OutEffect DEF Collect, Ready, Batches
  <2> QED
    BY <2>1 DEF CollectorOut, Running, Sends
<1>5. CASE CollectFails
  <2>1. out'[c] = <<Send("splitter", Error), Send("splitter", Stop)>> /\ pc'[c] = "closing"
    BY <1>0, <1>5, LeaveEffect DEF CollectFails
  <2> QED
    BY <2>1 DEF CollectorOut, Running, SendsTwo
<1>6. CASE CollectEnds
  <2>1. out'[c] = <<Send("splitter", Stop)>> /\ pc'[c] = "closing"
    BY <1>0, <1>6, LeaveEffect DEF CollectEnds
  <2> QED
    BY <2>1 DEF CollectorOut, Running, Sends
<1>7. ~RecvDisconnected(c)
  BY DEF RecvDisconnected
<1> QED
  BY <1>0, <1>1, <1>2, <1>3, <1>4, <1>5, <1>6, <1>7 DEF ThreadStep, CollectorStep

\* The splitter (create_profiler).
LEMMA SplitterControl ==
  ASSUME TypeOK, Control, Streams, ThreadStep("splitter")
  PROVE  SplitterOut' /\ (pc'["splitter"] = "done" => out'["splitter"] = <<>>)
<1> DEFINE c == "splitter"
<1>0. c \in Threads /\ c \notin Formats /\ SplitterOut /\ (pc[c] = "done" => Idle(c)) /\ Proper(inbox[c])
  BY Names DEF Control, Streams
<1>1. CASE SendSignal(c)
  <2>1. ~Idle(c) /\ out'[c] = Tail(out[c])
    BY <1>0, <1>1, SendEffect
  <2>2. Tail(out[c]) = <<>>
    BY <1>0, <2>1, SplitterSending
  <2> QED
    BY <2>1, <2>2 DEF SplitterOut, Idle
<1>2. CASE SendFails(c)
  BY <1>0, <1>2, SendFailsEffect DEF SplitterOut, Idle
<1>3. CASE Close(c)
  BY <1>0, <1>3, CloseEffect DEF SplitterOut, Idle
<1>4. CASE RecvDisconnected(c)
  BY <1>0, <1>4, DisconnectEffect DEF SplitterOut, Idle
<1>5. CASE SplitData
  <2>1. Receive(c, "Data")
    BY <1>5 DEF SplitData
  <2>2. Received(c) \in Batches /\ Running(c)
    BY <1>0, <2>1, ReceiveEffect DEF Batches
  <2>3. out'[c] = <<Send("profiler", Data(Received(c)))>> /\ pc'[c] = "run"
    BY <1>0, <1>5, <2>2, OutEffect DEF SplitData, Running
  <2> QED
    BY <2>2, <2>3 DEF SplitterOut, Running, Sends
<1>6. CASE SplitError
  <2>1. out'[c] = <<Send("intake", Error)>> /\ pc'[c] = "closing"
    BY <1>0, <1>6, LeaveEffect DEF SplitError
  <2> QED
    BY <2>1 DEF SplitterOut, Running, Sends
<1>7. CASE SplitStop
  <2>1. out'[c] = <<Send("profiler", Stop)>> /\ pc'[c] = "closing"
    BY <1>0, <1>7, LeaveEffect DEF SplitStop
  <2> QED
    BY <2>1 DEF SplitterOut, Running, Sends
<1> QED
  BY <1>0, <1>1, <1>2, <1>3, <1>4, <1>5, <1>6, <1>7 DEF ThreadStep, SplitterStep

\* The profiler (profile, route_payloads).
LEMMA ProfilerControl ==
  ASSUME TypeOK, Control, Streams, ThreadStep("profiler")
  PROVE  ProfilerOut' /\ (pc'["profiler"] = "done" => out'["profiler"] = <<>>)
<1> DEFINE c == "profiler"
<1>0. c \in Threads /\ c \notin Formats /\ ProfilerOut /\ (pc[c] = "done" => Idle(c)) /\ Proper(inbox[c])
  BY Names DEF Control, Streams
<1>1. CASE SendSignal(c)
  <2>1. ~Idle(c) /\ out'[c] = Tail(out[c]) /\ pc' = pc /\ unprofiled' = unprofiled
    BY <1>0, <1>1, SendEffect
  <2>2. Tail(out[c]) = <<>>
    BY <1>0, <2>1, ProfilerSending
  <2> QED
    BY <1>0, <2>1, <2>2 DEF ProfilerOut, Idle, Running
<1>2. CASE SendFails(c)
  BY <1>0, <1>2, SendFailsEffect DEF ProfilerOut, Idle, Running
<1>3. CASE Close(c)
  BY <1>0, <1>3, CloseEffect DEF ProfilerOut, Idle, Running
<1>4. CASE RecvDisconnected(c)
  BY <1>0, <1>4, DisconnectEffect DEF ProfilerOut, Idle, Running
<1>5. ASSUME NEW f \in Formats, Profile(f) PROVE ProfilerOut' /\ pc'[c] # "done"
  <2>1. Receive(c, "Data")
    BY <1>5 DEF Profile
  <2>2. Received(c) \in Batches /\ Running(c)
    BY <1>0, <2>1, ReceiveEffect DEF Batches
  <2>3. out'[c] = <<Send(f, Data(Received(c)))>> /\ pc'[c] = "run" /\ unprofiled' = {}
    BY <1>0, <1>5, <2>2, OutEffect DEF Profile, Running, ProfilerOut, history
  <2> QED
    BY <2>2, <2>3 DEF ProfilerOut, Running, Sends
<1>6. CASE ProfileFails
  <2>1. inbox[c] \in Seq(Signal) /\ inbox[c] # <<>> /\ Head(inbox[c]).kind = "Data"
    BY <1>0, <1>6, Fns DEF ProfileFails
  <2>2. Received(c) # {}
    BY <1>0, <2>1, HeadTailFacts DEF Received
  <2>3. out'[c] = <<Send("intake", Error)>> /\ pc'[c] = "closing" /\ unprofiled' # {}
    BY <1>0, <1>6, <2>2, LeaveEffect DEF ProfileFails
  <2> QED
    BY <2>3 DEF ProfilerOut, Running, Sends
<1>7. CASE ProfileStop
  <2>1. out'[c] = <<>> /\ pc'[c] = "closing"
    BY <1>0, <1>7, LeaveEffect DEF ProfileStop
  <2> QED
    BY <2>1 DEF ProfilerOut, Running, Idle
<1> QED
  BY <1>0, <1>1, <1>2, <1>3, <1>4, <1>5, <1>6, <1>7 DEF ThreadStep, ProfilerStep

\* An ingestor (run_ingestor_lane).
LEMMA FormatControl ==
  ASSUME TypeOK, Control, NEW f \in Formats, ThreadStep(f)
  PROVE  FormatOut(f)' /\ (pc'[f] = "done" => out'[f] = <<>>)
<1>0. f \in Threads /\ FormatOut(f) /\ (pc[f] = "done" => Idle(f)) /\ "expander" \in Threads
  BY Names DEF Control
<1>1. CASE SendSignal(f)
  <2>1. ~Idle(f) /\ out'[f] = Tail(out[f]) /\ pc' = pc
    BY <1>0, <1>1, SendEffect
  <2>2. Running(f) /\ (Tail(out[f]) = <<>> \/ Tail(out[f]) = <<Send("expander", Error)>>)
    BY <1>0, <2>1, FormatSending
  <2> QED
    BY <1>0, <2>1, <2>2 DEF FormatOut, Idle, Running, Sends
<1>2. CASE SendFails(f)
  BY <1>0, <1>2, SendFailsEffect DEF FormatOut, Idle
<1>3. CASE Close(f)
  BY <1>0, <1>3, CloseEffect DEF FormatOut, Idle
<1>4. CASE RecvDisconnected(f)
  BY <1>0, <1>4, DisconnectEffect DEF FormatOut, Idle
<1>5. CASE Ingest(f)
  <2>1. Receive(f, "Data")
    BY <1>5 DEF Ingest
  <2>2. Received(f) \in SUBSET Payloads /\ Running(f)
    BY <1>0, <2>1, ReceiveEffect
  <2>3. out'[f] = <<Send("expander", Data(Received(f)))>> /\ pc'[f] = "run"
    BY <1>0, <1>5, <2>2, OutEffect DEF Ingest, Running
  <2> QED
    BY <2>2, <2>3 DEF FormatOut, Running, Sends
<1>6. ASSUME NEW some \in BOOLEAN, IngestFails(f, some) PROVE FormatOut(f)' /\ pc'[f] # "done"
  <2>1. Receive(f, "Data")
    BY <1>6 DEF IngestFails
  <2>2. Running(f)
    BY <1>0, <2>1, ReceiveEffect
  <2>3. out'[f] = (IF some THEN <<Send("expander", Data({}))>> ELSE <<>>) \o <<Send("expander", Error)>> /\ pc'[f] = "run"
    BY <1>0, <1>6, <2>2, OutEffect DEF IngestFails, Running
  <2>4. out'[f] = IF some THEN <<Send("expander", Data({})), Send("expander", Error)>> ELSE <<Send("expander", Error)>>
    BY <1>0, <2>3, LastWords
  <2> QED
    BY <2>3, <2>4 DEF FormatOut, Running, Sends, SendsTwo
<1> QED
  BY <1>0, <1>1, <1>2, <1>3, <1>4, <1>5, <1>6, Names DEF ThreadStep, IngestorStep

\* The expander (spawn_expander_thread).
LEMMA ExpanderControl ==
  ASSUME TypeOK, Control, ThreadStep("expander")
  PROVE  ExpanderOut' /\ (pc'["expander"] = "done" => out'["expander"] = <<>>)
<1> DEFINE c == "expander"
<1>0. c \in Threads /\ c \notin Formats /\ ExpanderOut /\ (pc[c] = "done" => Idle(c))
  BY Names DEF Control
<1>0a. stopSent \in BOOLEAN
  BY DEF TypeOK
<1>1. CASE SendSignal(c)
  <2> DEFINE m == Head(out[c]).signal
  <2>1. ~Idle(c) /\ out'[c] = Tail(out[c]) /\ pc' = pc
    BY <1>0, <1>1, SendEffect
  <2>2. /\ ~stopSent /\ Head(out[c]).to = "intake"
        /\ \/ m.kind # "Stop" /\ Tail(out[c]) = <<>>
           \/ m = Stop /\ ~Running(c) /\ Tail(out[c]) = <<>>
           \/ m.kind # "Stop" /\ ~Running(c) /\ Tail(out[c]) = <<Send("intake", Stop)>>
    BY <1>0, <2>1, ExpanderSending, SignalFacts
  <2>3. stopSent' = (stopSent \/ m.kind = "Stop")
    BY <1>0, <1>1, <2>2, SendEffect
  <2> HIDE DEF m
  <2>4. CASE m.kind # "Stop" /\ Tail(out[c]) = <<>>
    BY <2>1, <2>2, <2>3, <2>4, <1>0 DEF ExpanderOut, Idle
  <2>5. CASE ~Running(c) /\ Tail(out[c]) = <<>>
    BY <2>1, <2>5, <1>0 DEF ExpanderOut, Idle, Running
  <2>6. CASE m.kind # "Stop" /\ ~Running(c) /\ Tail(out[c]) = <<Send("intake", Stop)>>
    BY <2>1, <2>2, <2>3, <2>6, <1>0 DEF ExpanderOut, Idle, Running, Sends
  <2> QED
    BY <2>2, <2>4, <2>5, <2>6
<1>2. CASE SendFails(c)
  BY <1>0, <1>2, SendFailsEffect DEF ExpanderOut, Idle, Running
<1>3. CASE Close(c)
  BY <1>0, <1>3, CloseEffect DEF ExpanderOut, Idle, Running
<1>4. ASSUME NEW bad \in SUBSET Payloads, NEW full \in SUBSET Payloads, Expand(bad, full)
      PROVE  ExpanderOut' /\ pc'[c] # "done"
  <2>1. Receive(c, "Data")
    BY <1>4 DEF Expand
  <2>2. Running(c)
    BY <1>0, <2>1, ReceiveEffect
  <2>3. out'[c] = Flush(full) /\ pc'[c] = "run" /\ ~stopSent'
    BY <1>0, <1>4, <2>2, OutEffect DEF Expand, Running, ExpanderOut
  <2> QED
    BY <2>3 DEF ExpanderOut, Running, Sends, Idle, Flush
<1>5. CASE ExpandError
  <2>1. Receive(c, "Error")
    BY <1>5 DEF ExpandError
  <2>2. Running(c)
    BY <1>0, <2>1, ReceiveEffect
  <2>3. out'[c] = <<Send("intake", Error)>> /\ pc'[c] = "run" /\ ~stopSent'
    BY <1>0, <1>5, <2>2, OutEffect DEF ExpandError, Running, ExpanderOut, history
  <2> QED
    BY <2>3 DEF ExpanderOut, Running, Sends
<1>6. CASE ExpandCancelled \/ ExpandDisconnected
  <2>1. Running(c)
    BY <1>6 DEF ExpandCancelled, ExpandDisconnected, Receive, Ready, Running
  <2>2. ExpandEnds /\ pending \in SUBSET Payloads
    BY <1>6 DEF ExpandCancelled, ExpandDisconnected, TypeOK
  <2>3. out'[c] = Flush(pending) \o <<Send("intake", Stop)>> /\ pc'[c] = "closing" /\ ~stopSent'
    BY <1>0, <2>1, <2>2, LeaveEffect DEF ExpandEnds, Running, ExpanderOut, history
  <2>4. out'[c] = IF pending = {} THEN <<Send("intake", Stop)>>
                                 ELSE <<Send("intake", Data(pending)), Send("intake", Stop)>>
    BY <2>2, <2>3, LastWords
  <2> QED
    BY <2>2, <2>3, <2>4 DEF ExpanderOut, Running, Sends, SendsTwo
<1>7. ~RecvDisconnected(c)
  BY DEF RecvDisconnected
<1> QED
  BY <1>0, <1>1, <1>2, <1>3, <1>4, <1>5, <1>6, <1>7 DEF ThreadStep, ExpanderStep

\* Every step keeps all threads to what they may send.
LEMMA ControlStep ==
  ASSUME TypeOK, Control, Streams, NEW t \in Threads, ThreadStep(t)
  PROVE  Control'
<1>1. /\ \A s \in Threads : s # t => pc'[s] = pc[s] /\ out'[s] = out[s]
      /\ t # "profiler" => unprofiled' = unprofiled
      /\ t # "expander" => stopSent' = stopSent
  BY OwnCells
<1>2. CollectorOut'
  BY <1>1, CollectorControl, Names DEF Control, CollectorOut, Idle, Running, Sends, SendsTwo
<1>3. SplitterOut'
  BY <1>1, SplitterControl, Names DEF Control, SplitterOut, Idle, Running, Sends
<1>4. ProfilerOut'
  BY <1>1, ProfilerControl, Names DEF Control, ProfilerOut, Idle, Running, Sends
<1>5. ExpanderOut'
  BY <1>1, ExpanderControl, Names DEF Control, ExpanderOut, Idle, Running, Sends, SendsTwo
<1>6. ASSUME NEW f \in Formats PROVE FormatOut(f)'
  BY <1>1, FormatControl, Names DEF Control, FormatOut, Idle, Running, Sends, SendsTwo
<1>7. ASSUME NEW s \in Threads, pc'[s] = "done" PROVE out'[s] = <<>>
  <2>1. CASE s # t
    BY <1>1, <1>7, <2>1 DEF Control, Idle
  <2>2. CASE s = t
    BY <1>7, <2>2, CollectorControl, SplitterControl, ProfilerControl, FormatControl, ExpanderControl, Names
  <2> QED
    BY <2>1, <2>2
<1> QED
  BY <1>2, <1>3, <1>4, <1>5, <1>6, <1>7 DEF Control, Idle

-----------------------------------------------------------------------------
\* Which channels a step touches.

\* What the first two threads send goes to one channel, or to the intake.
LEMMA InboxCells ==
  ASSUME TypeOK, Control, NEW t \in Threads, ThreadStep(t)
  PROVE  /\ t # "collector" => inbox'["collector"] = inbox["collector"]
         /\ t # "collector" /\ t # "splitter" => inbox'["splitter"] = inbox["splitter"]
         /\ t # "splitter" /\ t # "profiler" => inbox'["profiler"] = inbox["profiler"]
         /\ \A f \in Formats : t # "profiler" /\ t # f => inbox'[f] = inbox[f]
         /\ t \notin Formats /\ t # "expander" => inbox'["expander"] = inbox["expander"]
<1>1. CASE SendSignal(t)
  <2> DEFINE to == Head(out[t]).to
  <2>2. ~Idle(t)
    BY <1>1, SendEffect
  <2>3. /\ t = "collector" => to = "splitter"
        /\ t = "splitter" => to = "profiler" \/ to = "intake"
        /\ t = "profiler" => to \in Formats \/ to = "intake"
        /\ t = "expander" => to = "intake"
        /\ t \in Formats => to = "expander"
    BY <2>2, CollectorSending, SplitterSending, ProfilerSending, ExpanderSending, FormatSending DEF Control
  <2>4. CASE to = "intake"
    BY <1>1, <2>4, SendEffect
  <2>5. CASE to # "intake"
    <3>1. \A s \in Threads : s # to => inbox'[s] = inbox[s]
      BY <1>1, <2>5, SendEffect
    <3> HIDE DEF to
    <3> QED
      BY <2>3, <2>5, <3>1, Names
  <2> QED
    BY <2>4, <2>5
<1>2. CASE SendFails(t)
  BY <1>2, SendFailsEffect
<1>3. CASE RecvDisconnected(t)
  BY <1>3, DisconnectEffect
<1>4. CASE Close(t)
  BY <1>4, CloseEffect, Names
<1>5. CASE t = "collector" /\ CollectorStep
  BY <1>5 DEF CollectorStep, Collect, CollectFails, CollectEnds
<1>6. CASE \E k : Receive(t, k)
  BY <1>6, ReceiveEffect, Names
<1>7. CASE t = "profiler" /\ ProfileFails
  <2>1. inbox' = [inbox EXCEPT !["profiler"] = <<>>]
    BY <1>7 DEF ProfileFails
  <2> QED
    BY <1>7, <2>1, Fns, Names
<1>8. CASE t = "expander" /\ ExpandDisconnected
  BY <1>8 DEF ExpandDisconnected
<1>9. \/ SendSignal(t) \/ SendFails(t) \/ RecvDisconnected(t) \/ Close(t)
      \/ t = "collector" /\ CollectorStep
      \/ \E k : Receive(t, k)
      \/ t = "profiler" /\ ProfileFails
      \/ t = "expander" /\ ExpandDisconnected
  BY DEF ThreadStep, SplitterStep, SplitData, SplitError, SplitStop, ProfilerStep, Profile, ProfileStop,
         IngestorStep, Ingest, IngestFails, ExpanderStep, Expand, ExpandError, ExpandCancelled
<1> QED
  BY <1>1, <1>2, <1>3, <1>4, <1>5, <1>6, <1>7, <1>8, <1>9

\* A step of a thread that neither sends nor receives leaves the channels alone, but its own.
LEMMA OwnInbox ==
  ASSUME TypeOK, NEW t \in Threads, ThreadStep(t)
  PROVE  \/ SendSignal(t)
         \/ \E k : Receive(t, k)
         \/ inbox'[t] = <<>> /\ \A s \in Threads : s # t => inbox'[s] = inbox[s]
         \/ inbox' = inbox
<1>1. CASE Close(t)
  BY <1>1, CloseEffect
<1>2. CASE t = "profiler" /\ ProfileFails
  <2>1. inbox' = [inbox EXCEPT !["profiler"] = <<>>]
    BY <1>2 DEF ProfileFails
  <2> QED
    BY <1>2, <2>1, Fns
<1>3. CASE SendFails(t) \/ RecvDisconnected(t)
  BY <1>3 DEF SendFails, RecvDisconnected
<1>4. CASE t = "collector" /\ CollectorStep
  BY <1>4 DEF CollectorStep, Collect, CollectFails, CollectEnds
<1>5. CASE t = "expander" /\ ExpandDisconnected
  BY <1>5 DEF ExpandDisconnected
<1> QED
  BY <1>1, <1>2, <1>3, <1>4, <1>5
     DEF ThreadStep, SplitterStep, SplitData, SplitError, SplitStop, ProfilerStep, Profile, ProfileStop,
         IngestorStep, Ingest, IngestFails, ExpanderStep, Expand, ExpandError, ExpandCancelled

\* A thread that has ended its loop and has nothing to send can only close.
LEMMA OnlyCloses ==
  ASSUME TypeOK, NEW t \in Threads, ThreadStep(t), ~Running(t), Idle(t)
  PROVE  Close(t)
BY DEF ThreadStep, SendSignal, SendFails, RecvDisconnected, CollectorStep, Collect, CollectFails, CollectEnds,
       SplitterStep, SplitData, SplitError, SplitStop, ProfilerStep, Profile, ProfileFails, ProfileStop,
       IngestorStep, Ingest, IngestFails, ExpanderStep, Expand, ExpandError, ExpandCancelled,
       ExpandDisconnected, Receive, Ready, Running, Idle

-----------------------------------------------------------------------------
\* A Stop closes its stream.

\* The channel from the collector to the splitter.
LEMMA SplitterStream ==
  ASSUME TypeOK, Control, Streams, NEW t \in Threads, ThreadStep(t)
  PROVE  /\ Proper(inbox'["splitter"]) /\ StopLast(inbox'["splitter"])
         /\ Holds(inbox'["splitter"], "Stop") => pc'["collector"] # "run" /\ out'["collector"] = <<>>
<1> DEFINE q == inbox["splitter"]
           r == inbox'["splitter"]
<1>1. /\ q \in Seq(Signal) /\ Proper(q) /\ StopLast(q) /\ "collector" \in Threads /\ "splitter" \in Threads
      /\ Holds(q, "Stop") => ~Running("collector") /\ Idle("collector")
  BY Fns, Names DEF Streams
<1>2. ASSUME t # "collector"
      PROVE  Holds(q, "Stop") => pc'["collector"] # "run" /\ out'["collector"] = <<>>
  BY <1>1, <1>2, OwnCells DEF Running, Idle
<1>3. CASE t # "collector" /\ t # "splitter"
  <2>1. r = q
    BY <1>3, InboxCells
  <2> QED
    BY <1>1, <1>2, <1>3, <2>1
<1>4. CASE t = "splitter"
  <2>1. CASE \E k : Receive(t, k)
    <3>1. PICK k : Receive(t, k)
      BY <2>1
    <3>2. Proper(r) /\ StopLast(r) /\ (Holds(r, "Stop") => Holds(q, "Stop"))
      BY <1>1, <1>4, <3>1, ReceiveEffect
    <3> QED
      BY <1>2, <1>4, <3>2
  <2>2. CASE r = <<>>
    BY <2>2, EmptyFacts
  <2>3. CASE r = q
    BY <1>1, <1>2, <1>4, <2>3
  <2>4. CASE SendSignal(t)
    <3>1. ~Idle("splitter")
      BY <1>1, <1>4, <2>4, SendEffect
    <3>2. Head(out["splitter"]).to # "splitter" /\ Head(out["splitter"]).to \in Threads \cup {"intake"}
      BY <1>1, <1>4, <2>4, <3>1, SplitterSending, Names DEF Control
    <3>3. r = q
      BY <1>1, <1>4, <2>4, <3>2, SendEffect
    <3> QED
      BY <2>3, <3>3
  <2> QED
    BY <1>1, <1>4, <2>1, <2>2, <2>3, <2>4, OwnInbox
<1>5. CASE t = "collector"
  <2>1. CASE SendSignal(t)
    <3> DEFINE m == Head(out["collector"]).signal
    <3>1. ~Idle("collector") /\ m \in Signal /\ pc' = pc /\ out'["collector"] = Tail(out["collector"])
      BY <1>1, <1>5, <2>1, SendEffect
    <3>2. /\ Head(out["collector"]).to = "splitter"
          /\ m.units = {} <=> m.kind # "Data"
          /\ m.kind = "Stop" => ~Running("collector") /\ Tail(out["collector"]) = <<>>
      BY <3>1, CollectorSending, SignalFacts DEF Control
    <3>3. r = Append(q, m)
      BY <1>1, <1>5, <2>1, <3>2, SendEffect
    <3> HIDE DEF m, q, r
    <3>4. /\ StopLast(Append(q, m)) /\ Proper(Append(q, m))
          /\ Holds(Append(q, m), "Stop") => m.kind = "Stop"
      BY <1>1, <3>1, <3>2, AppendFacts
    <3> QED
      BY <3>1, <3>2, <3>3, <3>4 DEF Running, r
  <2>2. CASE ~SendSignal(t)
    <3>1. r = q
      <4>1. ~\E k : Receive(t, k)
        BY <1>5 DEF Streams, Receive
      <4> QED
        BY <1>1, <1>5, <2>2, <4>1, OwnInbox
    <3>2. ASSUME Holds(q, "Stop") PROVE pc'["collector"] # "run" /\ out'["collector"] = <<>>
      <4>1. ~Running("collector") /\ Idle("collector")
        BY <1>1, <3>2
      <4>2. Close("collector")
        BY <1>1, <1>5, <4>1, OnlyCloses
      <4> QED
        BY <1>1, <4>1, <4>2, CloseEffect DEF Idle
    <3> QED
      BY <1>1, <3>1, <3>2
  <2> QED
    BY <2>1, <2>2
<1> QED
  BY <1>3, <1>4, <1>5

\* The channel from the splitter to the profiler.
LEMMA ProfilerStream ==
  ASSUME TypeOK, Control, Streams, NEW t \in Threads, ThreadStep(t)
  PROVE  /\ Proper(inbox'["profiler"]) /\ StopLast(inbox'["profiler"])
         /\ Holds(inbox'["profiler"], "Stop") => pc'["splitter"] # "run" /\ out'["splitter"] = <<>>
<1> DEFINE q == inbox["profiler"]
           r == inbox'["profiler"]
<1>1. /\ q \in Seq(Signal) /\ Proper(q) /\ StopLast(q) /\ "profiler" \in Threads /\ "splitter" \in Threads
      /\ Holds(q, "Stop") => ~Running("splitter") /\ Idle("splitter")
  BY Fns, Names DEF Streams
<1>2. ASSUME t # "splitter"
      PROVE  Holds(q, "Stop") => pc'["splitter"] # "run" /\ out'["splitter"] = <<>>
  BY <1>1, <1>2, OwnCells DEF Running, Idle
<1>3. CASE t # "splitter" /\ t # "profiler"
  <2>1. r = q
    BY <1>3, InboxCells
  <2> QED
    BY <1>1, <1>2, <1>3, <2>1
<1>4. CASE t = "profiler"
  <2>1. CASE \E k : Receive(t, k)
    <3>1. PICK k : Receive(t, k)
      BY <2>1
    <3>2. Proper(r) /\ StopLast(r) /\ (Holds(r, "Stop") => Holds(q, "Stop"))
      BY <1>1, <1>4, <3>1, ReceiveEffect
    <3> QED
      BY <1>2, <1>4, <3>2
  <2>2. CASE r = <<>>
    BY <2>2, EmptyFacts
  <2>3. CASE r = q
    BY <1>1, <1>2, <1>4, <2>3
  <2>4. CASE SendSignal(t)
    <3>1. ~Idle("profiler")
      BY <1>1, <1>4, <2>4, SendEffect
    <3>2. Head(out["profiler"]).to # "profiler"
      BY <1>1, <1>4, <2>4, <3>1, ProfilerSending, Names DEF Control
    <3>3. r = q
      BY <1>1, <1>4, <2>4, <3>2, SendEffect
    <3> QED
      BY <2>3, <3>3
  <2> QED
    BY <1>1, <1>4, <2>1, <2>2, <2>3, <2>4, OwnInbox
<1>5. CASE t = "splitter"
  <2>1. CASE SendSignal(t)
    <3> DEFINE m == Head(out["splitter"]).signal
               to == Head(out["splitter"]).to
    <3>1. ~Idle("splitter") /\ m \in Signal /\ pc' = pc /\ out'["splitter"] = Tail(out["splitter"])
      BY <1>1, <1>5, <2>1, SendEffect
    <3>2. /\ to = "profiler" \/ to = "intake"
          /\ m.units = {} <=> m.kind # "Data"
          /\ m.kind = "Stop" => ~Running("splitter")
          /\ Tail(out["splitter"]) = <<>>
      BY <3>1, SplitterSending, SignalFacts DEF Control
    <3>3. CASE to = "intake"
      <4>1. r = q
        BY <1>1, <1>5, <2>1, <3>3, SendEffect
      <4> QED
        BY <1>1, <3>1, <4>1
    <3>4. CASE to = "profiler"
      <4>1. r = Append(q, m)
        BY <1>1, <1>5, <2>1, <3>4, SendEffect
      <4> HIDE DEF m, q, r, to
      <4>2. /\ StopLast(Append(q, m)) /\ Proper(Append(q, m))
            /\ Holds(Append(q, m), "Stop") => m.kind = "Stop"
        BY <1>1, <3>1, <3>2, AppendFacts
      <4> QED
        BY <3>1, <3>2, <4>1, <4>2 DEF Running, r
    <3> QED
      BY <3>2, <3>3, <3>4
  <2>2. CASE ~SendSignal(t)
    <3>1. r = q
      BY <1>1, <1>5, <2>2, OwnInbox, ReceiveEffect
    <3>2. ASSUME Holds(q, "Stop") PROVE pc'["splitter"] # "run" /\ out'["splitter"] = <<>>
      <4>1. ~Running("splitter") /\ Idle("splitter")
        BY <1>1, <3>2
      <4>2. Close("splitter")
        BY <1>1, <1>5, <4>1, OnlyCloses
      <4> QED
        BY <1>1, <4>1, <4>2, CloseEffect DEF Idle
    <3> QED
      BY <1>1, <3>1, <3>2
  <2> QED
    BY <2>1, <2>2
<1> QED
  BY <1>3, <1>4, <1>5

\* Every step leaves the streams in order.
LEMMA StreamsStep ==
  ASSUME TypeOK, Control, Streams, NEW t \in Threads, ThreadStep(t)
  PROVE  Streams'
<1>1. inbox'["collector"] = <<>>
  <2>1. CASE t # "collector"
    BY <2>1, InboxCells DEF Streams
  <2>2. CASE t = "collector"
    <3>1. ~\E k : Receive(t, k)
      BY <2>2 DEF Streams, Receive
    <3>2. ASSUME SendSignal(t) PROVE inbox'["collector"] = inbox["collector"]
      <4>1. ~Idle("collector")
        BY <2>2, <3>2, Names, SendEffect
      <4>2. Head(out["collector"]).to = "splitter"
        BY <4>1, CollectorSending DEF Control
      <4> QED
        BY <2>2, <3>2, <4>2, Names, SendEffect
    <3> QED
      BY <2>2, <3>1, <3>2, OwnInbox DEF Streams
  <2> QED
    BY <2>1, <2>2
<1> QED
  BY <1>1, SplitterStream, ProfilerStream DEF Streams, Running, Idle

-----------------------------------------------------------------------------
\* A payload is in one place.

\* What a thread carries.
LEMMA CarriedFacts ==
  ASSUME NEW to, NEW U
  PROVE  /\ Carried(<<>>) = {}
         /\ Carried(<<Send(to, Error)>>) = {} /\ Carried(<<Send(to, Stop)>>) = {}
         /\ Carried(<<Send(to, Error), Send(to, Stop)>>) = {}
         /\ Carried(<<Send(to, Data(U))>>) = U
         /\ Carried(<<Send(to, Data(U)), Send(to, Stop)>>) = U
         /\ Carried(<<Send(to, Data(U)), Send(to, Error)>>) = U
<1> DEFINE e == Send(to, Error)
           z == Send(to, Stop)
           d == Send(to, Data(U))
<1>1. e.signal.units = {} /\ z.signal.units = {} /\ d.signal.units = U
  BY SignalFacts
<1> HIDE DEF e, z, d
<1>2. /\ Carried(<<>>) = {} /\ Carried(<<e>>) = {} /\ Carried(<<z>>) = {} /\ Carried(<<d>>) = U
  BY <1>1, ShortFacts
<1>3. /\ Carried(<<e, z>>) = e.signal.units \cup z.signal.units
      /\ Carried(<<d, z>>) = d.signal.units \cup z.signal.units
      /\ Carried(<<d, e>>) = d.signal.units \cup e.signal.units
  BY ShortFacts
<1> QED
  BY <1>1, <1>2, <1>3 DEF e, z, d

\* What one batch carries.
LEMMA CarriedData ==
  ASSUME NEW to, NEW U
  PROVE  Carried(<<Send(to, Data(U))>>) = U
BY CarriedFacts

\* What is down the lane, payload by payload.
InDown(u) ==
  \/ \E s \in Formats \cup {"expander"} : u \in UnitsIn(inbox[s])
  \/ \E s \in Formats \cup {"expander", "profiler"} : u \in Carried(out[s])
  \/ u \in pending \/ u \in sent \/ u \in skipped

\* Down as a set.
LEMMA DownElements ==
  /\ \A u : u \in Down <=> InDown(u)
  /\ \A u : u \in Down' <=> InDown(u)'
BY DEF Down, Queued, Leaving, InDown

\* The collector and the splitter reach nothing below the profiler.
LEMMA DownAbove ==
  ASSUME TypeOK, Control, NEW t \in {"collector", "splitter"}, ThreadStep(t)
  PROVE  Down' = Down
<1>1. /\ \A s \in Formats \cup {"expander"} : inbox'[s] = inbox[s]
      /\ \A s \in Formats \cup {"expander", "profiler"} : out'[s] = out[s]
      /\ UNCHANGED <<pending, sent, skipped>>
  BY OwnCells, InboxCells, Names
<1>2. ASSUME NEW u PROVE InDown(u)' <=> InDown(u)
  BY <1>1 DEF InDown
<1> QED
  BY <1>2, DownElements

\* A send moves a batch by one place.
LEMMA DownSend ==
  ASSUME TypeOK, Control, NEW t \in Formats \cup {"profiler", "expander"}, SendSignal(t)
  PROVE  Down' \subseteq Down
<1> DEFINE m == Head(out[t]).signal
           to == Head(out[t]).to
<1>0. t \in Threads
  BY Names
<1>1. ~Idle(t)
  BY <1>0, SendEffect
<1>2. /\ m.units = Carried(out[t]) /\ Carried(Tail(out[t])) \subseteq Carried(out[t])
      /\ to = "intake" \/ to \in Formats \cup {"expander"}
  <2>1. CASE t = "profiler"
    BY <1>1, <2>1, ProfilerSending, CarriedFacts DEF Control
  <2>2. CASE t \in Formats
    BY <1>1, <2>2, FormatSending, CarriedFacts DEF Control
  <2>3. CASE t = "expander"
    BY <1>1, <2>3, ExpanderSending, CarriedFacts DEF Control
  <2> QED
    BY <2>1, <2>2, <2>3
<1>3. ASSUME NEW u, InDown(u)' PROVE InDown(u)
  <2>1. /\ out'[t] = Tail(out[t]) /\ \A s \in Threads : s # t => out'[s] = out[s]
        /\ pending' = pending /\ skipped' = skipped /\ m \in Signal
    BY <1>0, SendEffect
  <2>2. ASSUME NEW s \in Formats \cup {"expander", "profiler"} PROVE Carried(out'[s]) \subseteq Carried(out[s])
    BY <1>2, <2>1, Names
  <2>3. CASE to = "intake"
    <3>1. inbox' = inbox /\ sent' = sent \cup m.units
      BY <1>0, <2>3, SendEffect
    <3> HIDE DEF m, to
    <3> QED
      BY <1>2, <1>3, <2>1, <2>2, <3>1 DEF InDown
  <2>4. CASE to \in Formats \cup {"expander"}
    <3>1. to # "intake" /\ to \in Threads
      BY <2>4, Names
    <3>2. inbox'[to] = Append(inbox[to], m) /\ (\A s \in Threads : s # to => inbox'[s] = inbox[s]) /\ sent' = sent
      BY <1>0, <3>1, SendEffect
    <3>3. inbox[to] \in Seq(Signal)
      BY <3>1, Fns
    <3> HIDE DEF m, to
    <3>4. UnitsIn(inbox'[to]) = UnitsIn(inbox[to]) \cup m.units
      <4>1. UnitsIn(Append(inbox[to], m)) = UnitsIn(inbox[to]) \cup m.units
        BY <2>1, <3>3, AppendFacts
      <4> QED
        BY <3>2, <4>1
    <3>5. ASSUME NEW s \in Formats \cup {"expander"}, u \in UnitsIn(inbox'[s])
          PROVE  u \in UnitsIn(inbox[s]) \/ u \in Carried(out[t])
      BY <1>2, <3>2, <3>4, <3>5, Names
    <3> QED
      BY <1>3, <2>1, <2>2, <3>2, <3>5 DEF InDown
  <2> QED
    BY <1>2, <2>3, <2>4
<1> QED
  BY <1>3, DownElements

\* What a thread below the splitter does otherwise stays within what it holds.
LEMMA DownLocal ==
  ASSUME TypeOK, NEW t \in Formats \cup {"profiler", "expander"}, NEW X,
         \A s \in Threads : s # t => inbox'[s] = inbox[s] /\ out'[s] = out[s],
         sent' = sent,
         t # "profiler" => UnitsIn(inbox'[t]) \subseteq UnitsIn(inbox[t]),
         t # "profiler" => X \subseteq UnitsIn(inbox[t]),
         Carried(out'[t]) \cup pending' \cup skipped' \subseteq X \cup Carried(out[t]) \cup pending \cup skipped
  PROVE  Down' \subseteq Down \cup X
<1>1. ASSUME NEW u, InDown(u)', u \notin X PROVE InDown(u)
  <2>1. ASSUME NEW s \in Formats \cup {"expander"}, u \in UnitsIn(inbox'[s]) PROVE u \in UnitsIn(inbox[s])
    BY <2>1, Names
  <2>2. ASSUME NEW s \in Formats \cup {"expander", "profiler"}, u \in Carried(out'[s])
        PROVE  u \in Carried(out[s]) \/ u \in pending \/ u \in skipped
    <3>1. CASE s # t
      BY <2>2, <3>1, Names
    <3>2. CASE s = t
      BY <1>1, <2>2, <3>2
    <3> QED
      BY <3>1, <3>2
  <2>3. ASSUME u \in pending' \/ u \in skipped' PROVE u \in Carried(out[t]) \/ u \in pending \/ u \in skipped
    BY <1>1, <2>3
  <2> QED
    BY <1>1, <2>1, <2>2, <2>3 DEF InDown
<1> QED
  BY <1>1, DownElements

\* An ingestor adds nothing to what is below the profiler.
LEMMA DownFormat ==
  ASSUME TypeOK, Control, NEW f \in Formats, ThreadStep(f)
  PROVE  Down' \subseteq Down
<1>0. /\ f \in Threads /\ f # "expander" /\ f # "profiler" /\ f # "splitter" /\ f # "collector"
      /\ inbox[f] \in Seq(Signal)
  BY Names, Fns
<1>1. CASE SendSignal(f)
  BY <1>1, DownSend
<1>2. ASSUME Carried(out'[f]) \subseteq UnitsIn(inbox[f]) \cup Carried(out[f]),
             UnitsIn(inbox'[f]) \subseteq UnitsIn(inbox[f]),
             \A s \in Threads : s # f => inbox'[s] = inbox[s]
      PROVE  Down' \subseteq Down
  <2>1. (\A s \in Threads : s # f => out'[s] = out[s]) /\ UNCHANGED <<pending, skipped, sent>>
    BY <1>0, OwnCells
  <2>2. Down' \subseteq Down \cup UnitsIn(inbox[f])
    BY <1>0, <1>2, <2>1, DownLocal
  <2>3. UnitsIn(inbox[f]) \subseteq Down
    BY DEF Down, Queued
  <2> QED
    BY <2>2, <2>3
<1>3. CASE SendFails(f) \/ RecvDisconnected(f)
  <2>1. out'[f] = <<>> /\ inbox' = inbox
    BY <1>0, <1>3, SendFailsEffect, DisconnectEffect
  <2> QED
    BY <1>2, <2>1, CarriedFacts
<1>4. CASE Close(f)
  <2>1. out' = out /\ inbox'[f] = <<>> /\ \A s \in Threads : s # f => inbox'[s] = inbox[s]
    BY <1>0, <1>4, CloseEffect
  <2> QED
    BY <1>2, <2>1, EmptyFacts
<1>5. CASE IngestorStep(f)
  <2>1. Receive(f, "Data")
    BY <1>5 DEF IngestorStep, Ingest, IngestFails
  <2>2. /\ \A s \in Threads : s # f => inbox'[s] = inbox[s]
        /\ UnitsIn(inbox[f]) = Received(f) \cup UnitsIn(inbox'[f])
    BY <1>0, <2>1, ReceiveEffect
  <2>3. Carried(out'[f]) \subseteq Received(f)
    <3>1. CASE Ingest(f)
      <4>1. out'[f] = <<Send("expander", Data(Received(f)))>>
        BY <1>0, <3>1, OutEffect DEF Ingest
      <4>2. Carried(<<Send("expander", Data(Received(f)))>>) = Received(f)
        BY CarriedData
      <4> QED
        BY <4>1, <4>2
    <3>2. ASSUME NEW some \in BOOLEAN, IngestFails(f, some) PROVE Carried(out'[f]) \subseteq Received(f)
      <4>1. out'[f] = (IF some THEN <<Send("expander", Data({}))>> ELSE <<>>) \o <<Send("expander", Error)>>
        BY <1>0, <3>2, OutEffect DEF IngestFails
      <4>2. out'[f] = IF some THEN <<Send("expander", Data({})), Send("expander", Error)>> ELSE <<Send("expander", Error)>>
        BY <4>1, LastWords, Names
      <4>3. /\ Carried(<<Send("expander", Data({})), Send("expander", Error)>>) = {}
            /\ Carried(<<Send("expander", Error)>>) = {}
        BY CarriedFacts
      <4> QED
        BY <4>2, <4>3
    <3> QED
      BY <1>5, <3>1, <3>2 DEF IngestorStep
  <2> QED
    BY <1>2, <2>2, <2>3
<1> QED
  BY <1>0, <1>1, <1>3, <1>4, <1>5 DEF ThreadStep

\* The expander adds nothing to what is below the profiler.
LEMMA DownExpander ==
  ASSUME TypeOK, Control, ThreadStep("expander")
  PROVE  Down' \subseteq Down
<1> DEFINE c == "expander"
<1>0. c \in Threads /\ c # "profiler" /\ c \notin Formats /\ inbox[c] \in Seq(Signal)
  BY Names, Fns
<1>1. CASE SendSignal(c)
  BY <1>1, DownSend
<1>2. ASSUME Carried(out'[c]) \cup pending' \cup skipped'
               \subseteq UnitsIn(inbox[c]) \cup Carried(out[c]) \cup pending \cup skipped,
             UnitsIn(inbox'[c]) \subseteq UnitsIn(inbox[c]), sent' = sent,
             \A s \in Threads : s # c => inbox'[s] = inbox[s]
      PROVE  Down' \subseteq Down
  <2>1. \A s \in Threads : s # c => out'[s] = out[s]
    BY <1>0, OwnCells
  <2>2. Down' \subseteq Down \cup UnitsIn(inbox[c])
    BY <1>0, <1>2, <2>1, DownLocal
  <2>3. UnitsIn(inbox[c]) \subseteq Down
    BY DEF Down, Queued
  <2> QED
    BY <2>2, <2>3
<1>3. CASE SendFails(c)
  <2>1. out'[c] = <<>> /\ inbox' = inbox /\ UNCHANGED <<pending, skipped, sent>>
    BY <1>0, <1>3, SendFailsEffect
  <2> QED
    BY <1>2, <2>1, CarriedFacts
<1>4. CASE Close(c)
  <2>1. /\ out' = out /\ inbox'[c] = <<>> /\ \A s \in Threads : s # c => inbox'[s] = inbox[s]
        /\ UNCHANGED <<pending, skipped, sent>>
    BY <1>0, <1>4, CloseEffect
  <2> QED
    BY <1>2, <2>1, EmptyFacts
<1>5. ASSUME NEW bad \in SUBSET Payloads, NEW full \in SUBSET Payloads, Expand(bad, full)
      PROVE  Down' \subseteq Down
  <2>1. Receive(c, "Data")
    BY <1>5 DEF Expand
  <2>2. /\ \A s \in Threads : s # c => inbox'[s] = inbox[s]
        /\ UnitsIn(inbox[c]) = Received(c) \cup UnitsIn(inbox'[c])
    BY <1>0, <2>1, ReceiveEffect
  <2>3. out'[c] = Flush(full)
    BY <1>0, <1>5, OutEffect DEF Expand
  <2>4. Carried(out'[c]) = full
    <3>1. Carried(<<Send("intake", Data(full))>>) = full /\ Carried(<<>>) = {}
      BY CarriedData, CarriedFacts
    <3> QED
      BY <2>3, <3>1 DEF Flush
  <2>5. /\ bad \subseteq Received(c) /\ full \subseteq pending \cup (Received(c) \ bad)
        /\ pending' = (pending \cup (Received(c) \ bad)) \ full /\ skipped' = skipped \cup bad /\ sent' = sent
    BY <1>5 DEF Expand
  <2> QED
    BY <1>2, <2>2, <2>4, <2>5
<1>6. CASE ExpandError
  <2>1. Receive(c, "Error")
    BY <1>6 DEF ExpandError
  <2>2. /\ \A s \in Threads : s # c => inbox'[s] = inbox[s]
        /\ UnitsIn(inbox[c]) = Received(c) \cup UnitsIn(inbox'[c])
    BY <1>0, <2>1, ReceiveEffect
  <2>3. out'[c] = <<Send("intake", Error)>> /\ UNCHANGED <<pending, skipped, sent>>
    BY <1>0, <1>6, OutEffect DEF ExpandError, history
  <2> QED
    BY <1>2, <2>2, <2>3, CarriedFacts
<1>7. CASE ExpandCancelled \/ ExpandDisconnected
  <2>1. /\ \A s \in Threads : s # c => inbox'[s] = inbox[s]
        /\ UnitsIn(inbox'[c]) \subseteq UnitsIn(inbox[c])
    <3>1. CASE \E k : Receive(c, k)
      BY <1>0, <3>1, ReceiveEffect
    <3> QED
      BY <1>7, <3>1 DEF ExpandCancelled, ExpandDisconnected
  <2>2. ExpandEnds /\ pending \in SUBSET Payloads
    BY <1>7 DEF ExpandCancelled, ExpandDisconnected, TypeOK
  <2>3. /\ out'[c] = Flush(pending) \o <<Send("intake", Stop)>>
        /\ pending' = {} /\ skipped' = skipped /\ sent' = sent
    BY <1>0, <2>2, LeaveEffect DEF ExpandEnds, history
  <2>4. out'[c] = IF pending = {} THEN <<Send("intake", Stop)>>
                                 ELSE <<Send("intake", Data(pending)), Send("intake", Stop)>>
    BY <2>2, <2>3, LastWords
  <2>5. Carried(out'[c]) = pending
    <3>1. Carried(<<Send("intake", Stop)>>) = {}
      BY CarriedFacts
    <3>2. Carried(<<Send("intake", Data(pending)), Send("intake", Stop)>>) = pending
      BY CarriedFacts
    <3> QED
      BY <2>4, <3>1, <3>2
  <2> QED
    BY <1>2, <2>1, <2>3, <2>5
<1>8. ~RecvDisconnected(c)
  BY DEF RecvDisconnected
<1> QED
  BY <1>0, <1>1, <1>3, <1>4, <1>5, <1>6, <1>7, <1>8 DEF ThreadStep, ExpanderStep

\* The profiler passes payloads on, once each.
LEMMA ProfilerFlow ==
  ASSUME TypeOK, Control, Streams, Unique, ThreadStep("profiler")
  PROVE  /\ Down' \cup UnitsIn(inbox'["profiler"]) \subseteq FromProfiler
         /\ Down' \cap UnitsIn(inbox'["profiler"]) = {}
         /\ Tidy(inbox'["profiler"])
<1> DEFINE c == "profiler"
<1>0. c \in Threads /\ c \notin Formats /\ inbox[c] \in Seq(Signal)
  BY Names, Fns
<1>1. /\ Tidy(inbox[c]) /\ UnitsIn(inbox[c]) \cap Down = {}
      /\ FromProfiler = Down \cup UnitsIn(inbox[c])
  BY DEF Unique, FromProfiler
<1>2. ASSUME Down' \subseteq Down, inbox'[c] = inbox[c] \/ inbox'[c] = <<>> \/ \E k : Receive(c, k)
      PROVE  /\ Down' \cup UnitsIn(inbox'[c]) \subseteq FromProfiler
             /\ Down' \cap UnitsIn(inbox'[c]) = {}
             /\ Tidy(inbox'[c])
  <2>1. UnitsIn(inbox'[c]) \subseteq UnitsIn(inbox[c]) /\ Tidy(inbox'[c])
    BY <1>0, <1>1, <1>2, EmptyFacts, ReceiveEffect
  <2> QED
    BY <1>1, <1>2, <2>1
<1>3. ASSUME out'[c] = <<>> \/ out'[c] = out[c] \/ out'[c] = <<Send("intake", Error)>>,
             \A s \in Threads : s # c => inbox'[s] = inbox[s]
      PROVE  Down' \subseteq Down
  <2>1. (\A s \in Threads : s # c => out'[s] = out[s]) /\ UNCHANGED <<pending, skipped, sent>>
    BY <1>0, OwnCells
  <2>2. Carried(out'[c]) \subseteq Carried(out[c])
    BY <1>3, CarriedFacts
  <2>3. Down' \subseteq Down \cup {}
    BY <1>0, <1>3, <2>1, <2>2, DownLocal
  <2> QED
    BY <2>3
<1>4. CASE SendSignal(c)
  <2>1. Down' \subseteq Down
    BY <1>4, DownSend
  <2>2. ~Idle(c)
    BY <1>0, <1>4, SendEffect
  <2>3. Head(out[c]).to # c
    BY <2>2, ProfilerSending, Names DEF Control
  <2>4. inbox'[c] = inbox[c]
    BY <1>0, <1>4, <2>3, SendEffect
  <2> QED
    BY <1>2, <2>1, <2>4
<1>5. CASE SendFails(c) \/ RecvDisconnected(c)
  <2>1. out'[c] = <<>> /\ inbox' = inbox
    BY <1>0, <1>5, SendFailsEffect, DisconnectEffect
  <2> QED
    BY <1>2, <1>3, <2>1
<1>6. CASE Close(c)
  <2>1. out' = out /\ inbox'[c] = <<>> /\ \A s \in Threads : s # c => inbox'[s] = inbox[s]
    BY <1>0, <1>6, CloseEffect
  <2> QED
    BY <1>2, <1>3, <2>1
<1>7. ASSUME NEW f \in Formats, Profile(f)
      PROVE  /\ Down' \cup UnitsIn(inbox'[c]) \subseteq FromProfiler
             /\ Down' \cap UnitsIn(inbox'[c]) = {}
             /\ Tidy(inbox'[c])
  <2>1. Receive(c, "Data")
    BY <1>7 DEF Profile
  <2>2. /\ \A s \in Threads : s # c => inbox'[s] = inbox[s]
        /\ UnitsIn(inbox[c]) = Received(c) \cup UnitsIn(inbox'[c])
        /\ Tidy(inbox'[c]) /\ Received(c) \cap UnitsIn(inbox'[c]) = {}
    BY <1>0, <1>1, <2>1, ReceiveEffect
  <2>3. out'[c] = <<Send(f, Data(Received(c)))>>
    BY <1>0, <1>7, OutEffect DEF Profile
  <2>4. Carried(out'[c]) = Received(c)
    <3>1. Carried(<<Send(f, Data(Received(c)))>>) = Received(c)
      BY CarriedData
    <3> QED
      BY <2>3, <3>1
  <2>5. (\A s \in Threads : s # c => out'[s] = out[s]) /\ UNCHANGED <<pending, skipped, sent>>
    BY <1>0, OwnCells
  <2>6. Down' \subseteq Down \cup Received(c)
    BY <1>0, <2>2, <2>4, <2>5, DownLocal
  <2> QED
    BY <1>1, <2>2, <2>6
<1>8. CASE ProfileFails
  <2>1. inbox' = [inbox EXCEPT ![c] = <<>>]
    BY <1>8 DEF ProfileFails
  <2>2. inbox'[c] = <<>> /\ \A s \in Threads : s # c => inbox'[s] = inbox[s]
    BY <1>0, <2>1, Fns
  <2>3. out'[c] = <<Send("intake", Error)>>
    BY <1>0, <1>8, LeaveEffect DEF ProfileFails
  <2> QED
    BY <1>2, <1>3, <2>2, <2>3
<1>9. CASE ProfileStop
  <2>1. Receive(c, "Stop")
    BY <1>9 DEF ProfileStop
  <2>2. \A s \in Threads : s # c => inbox'[s] = inbox[s]
    BY <1>0, <2>1, ReceiveEffect
  <2>3. out'[c] = <<>>
    BY <1>0, <1>9, LeaveEffect DEF ProfileStop
  <2> QED
    BY <1>2, <1>3, <2>1, <2>2, <2>3
<1> QED
  BY <1>0, <1>4, <1>5, <1>6, <1>7, <1>8, <1>9 DEF ThreadStep, ProfilerStep

\* The collector takes a payload once.
LEMMA CollectorFlow ==
  ASSUME TypeOK, Control, Streams, Unique, ThreadStep("collector")
  PROVE  Unique'
<1> DEFINE c == "collector"
           q == UnitsIn(inbox["splitter"])
           qn == UnitsIn(inbox'["splitter"])
           o == Carried(out[c])
           on == Carried(out'[c])
<1>0. c \in Threads /\ c \notin Formats /\ "splitter" \in Threads /\ inbox["splitter"] \in Seq(Signal)
  BY Names, Fns
<1>1. /\ PastSplitter' = PastSplitter
      /\ inbox'["profiler"] = inbox["profiler"] /\ out'["splitter"] = out["splitter"]
      /\ Down' = Down /\ FromProfiler' = FromProfiler
  <2>1. inbox'["profiler"] = inbox["profiler"] /\ out'["splitter"] = out["splitter"] /\ Down' = Down
    BY <1>0, OwnCells, InboxCells, DownAbove
  <2> QED
    BY <2>1 DEF PastSplitter, FromProfiler
<1>2. /\ FromSplitter = PastSplitter \cup q /\ FromSplitter' = PastSplitter \cup qn
      /\ Collected = PastSplitter \cup q \cup o /\ Collected' = PastSplitter \cup qn \cup on
  BY <1>1 DEF FromSplitter, Collected
<1>3. /\ Tidy(inbox["splitter"]) /\ q \cap PastSplitter = {} /\ o \cap (PastSplitter \cup q) = {}
      /\ uncollected \cap (PastSplitter \cup q \cup o) = {}
  BY <1>2 DEF Unique
<1>4. SUFFICES /\ Tidy(inbox'["splitter"]) /\ qn \cap PastSplitter = {} /\ on \cap (PastSplitter \cup qn) = {}
               /\ uncollected' \cap (PastSplitter \cup qn \cup on) = {}
  BY <1>1, <1>2 DEF Unique
<1>5. CASE SendSignal(c)
  <2> DEFINE m == Head(out[c]).signal
  <2>1. ~Idle(c) /\ m \in Signal /\ out'[c] = Tail(out[c]) /\ uncollected' = uncollected
    BY <1>0, <1>5, SendEffect
  <2>2. Head(out[c]).to = "splitter" /\ m.units = o
    BY <2>1, CollectorSending DEF Control
  <2>3. on = {}
    BY <2>1, CollectorSending, CarriedFacts DEF Control
  <2>4. inbox'["splitter"] = Append(inbox["splitter"], m)
    BY <1>0, <1>5, <2>2, SendEffect
  <2> HIDE DEF m, o
  <2>5. Tidy(inbox'["splitter"]) /\ qn = q \cup o
    BY <1>0, <1>3, <2>1, <2>2, <2>4, AppendFacts
  <2> HIDE DEF q, qn, on
  <2> QED
    BY <1>3, <2>1, <2>3, <2>5
<1>6. ASSUME inbox'["splitter"] = inbox["splitter"],
             \/ uncollected' = uncollected /\ on \subseteq o
             \/ \E p \in uncollected : uncollected' = uncollected \ {p} /\ on = {p} /\ o = {}
      PROVE  /\ Tidy(inbox'["splitter"]) /\ qn \cap PastSplitter = {} /\ on \cap (PastSplitter \cup qn) = {}
             /\ uncollected' \cap (PastSplitter \cup qn \cup on) = {}
  <2>1. qn = q /\ Tidy(inbox'["splitter"])
    BY <1>3, <1>6
  <2> HIDE DEF q, qn, o, on
  <2> QED
    BY <1>3, <1>6, <2>1
<1>7. CASE SendFails(c)
  BY <1>0, <1>6, <1>7, SendFailsEffect, CarriedFacts
<1>8. CASE Close(c)
  BY <1>0, <1>6, <1>8, CloseEffect, Names
<1>9. ASSUME NEW p \in Payloads, Collect(p)
      PROVE  /\ Tidy(inbox'["splitter"]) /\ qn \cap PastSplitter = {} /\ on \cap (PastSplitter \cup qn) = {}
             /\ uncollected' \cap (PastSplitter \cup qn \cup on) = {}
  <2>1. /\ p \in uncollected /\ uncollected' = uncollected \ {p} /\ inbox' = inbox /\ out[c] = <<>>
        /\ out'[c] = <<Send("splitter", Data({p}))>>
    BY <1>0, <1>9, OutEffect DEF Collect, Ready
  <2>2. on = {p} /\ o = {}
    <3>1. Carried(<<Send("splitter", Data({p}))>>) = {p} /\ Carried(<<>>) = {}
      BY CarriedData, CarriedFacts
    <3> QED
      BY <2>1, <3>1
  <2> QED
    BY <1>6, <2>1, <2>2
<1>10. CASE CollectFails \/ CollectEnds
  <2>1. /\ uncollected' = uncollected /\ inbox' = inbox
        /\ \/ out'[c] = <<Send("splitter", Error), Send("splitter", Stop)>>
           \/ out'[c] = <<Send("splitter", Stop)>>
    BY <1>0, <1>10, LeaveEffect DEF CollectFails, CollectEnds
  <2>2. on = {}
    BY <2>1, CarriedFacts
  <2> QED
    BY <1>6, <2>1, <2>2
<1>11. ~RecvDisconnected(c)
  BY DEF RecvDisconnected
<1> QED
  BY <1>0, <1>5, <1>7, <1>8, <1>9, <1>10, <1>11 DEF ThreadStep, CollectorStep

\* The splitter passes payloads on, once each.
LEMMA SplitterFlow ==
  ASSUME TypeOK, Control, Streams, Unique, ThreadStep("splitter")
  PROVE  Unique'
<1> DEFINE c == "splitter"
           q == UnitsIn(inbox[c])
           qn == UnitsIn(inbox'[c])
           o == Carried(out[c])
           on == Carried(out'[c])
           r == UnitsIn(inbox["profiler"])
           rn == UnitsIn(inbox'["profiler"])
           k == Carried(out["collector"])
<1>0. /\ c \in Threads /\ c \notin Formats /\ "profiler" \in Threads /\ inbox["profiler"] \in Seq(Signal)
      /\ inbox[c] \in Seq(Signal)
  BY Names, Fns
<1>1. out'["collector"] = out["collector"] /\ uncollected' = uncollected /\ Down' = Down
  BY <1>0, OwnCells, DownAbove, Names
<1>2. /\ FromProfiler = Down \cup r /\ FromProfiler' = Down \cup rn
      /\ PastSplitter = Down \cup r \cup o /\ PastSplitter' = Down \cup rn \cup on
      /\ FromSplitter = Down \cup r \cup o \cup q /\ FromSplitter' = Down \cup rn \cup on \cup qn
      /\ Collected = Down \cup r \cup o \cup q \cup k /\ Collected' = Down \cup rn \cup on \cup qn \cup k
  BY <1>1 DEF FromProfiler, PastSplitter, FromSplitter, Collected
<1>3. /\ Tidy(inbox[c]) /\ Tidy(inbox["profiler"]) /\ r \cap Down = {} /\ o \cap (Down \cup r) = {}
      /\ q \cap (Down \cup r \cup o) = {} /\ k \cap (Down \cup r \cup o \cup q) = {}
      /\ uncollected \cap (Down \cup r \cup o \cup q \cup k) = {}
  BY <1>2 DEF Unique
<1>4. SUFFICES /\ Tidy(inbox'[c]) /\ Tidy(inbox'["profiler"]) /\ rn \cap Down = {} /\ on \cap (Down \cup rn) = {}
               /\ qn \cap (Down \cup rn \cup on) = {}
               /\ rn \cup on \cup qn \subseteq r \cup o \cup q
  <2> HIDE DEF q, qn, o, on, r, rn, k
  <2>1. /\ k \cap (Down \cup rn \cup on \cup qn) = {}
        /\ uncollected \cap (Down \cup rn \cup on \cup qn \cup k) = {}
    BY <1>3, <1>4
  <2> QED
    BY <1>1, <1>2, <1>4, <2>1 DEF Unique, q, qn, o, on, r, rn, k
<1>5. CASE SendSignal(c)
  <2> DEFINE m == Head(out[c]).signal
             to == Head(out[c]).to
  <2>1. ~Idle(c) /\ m \in Signal /\ out'[c] = Tail(out[c])
    BY <1>0, <1>5, SendEffect
  <2>2. (to = "profiler" \/ to = "intake") /\ m.units = o /\ Tail(out[c]) = <<>>
    BY <2>1, SplitterSending DEF Control
  <2>3. on = {}
    BY <2>1, <2>2, CarriedFacts
  <2>4. inbox'[c] = inbox[c]
    BY <1>0, <1>5, <2>2, SendEffect
  <2>5. CASE to = "intake"
    <3>1. inbox' = inbox
      BY <1>0, <1>5, <2>5, SendEffect
    <3>2. rn = r /\ qn = q /\ Tidy(inbox'[c]) /\ Tidy(inbox'["profiler"])
      BY <1>3, <3>1
    <3> HIDE DEF q, qn, o, on, r, rn
    <3> QED
      BY <1>3, <2>3, <3>2
  <2>6. CASE to = "profiler"
    <3>1. inbox'["profiler"] = Append(inbox["profiler"], m)
      BY <1>0, <1>5, <2>6, SendEffect
    <3>2. qn = q /\ Tidy(inbox'[c])
      BY <1>3, <2>4
    <3> HIDE DEF m, o, on, q, qn, to
    <3>3. Tidy(inbox'["profiler"]) /\ rn = r \cup o
      BY <1>0, <1>3, <2>1, <2>2, <3>1, AppendFacts
    <3> HIDE DEF r, rn
    <3> QED
      BY <1>3, <2>3, <3>2, <3>3
  <2> QED
    BY <2>2, <2>5, <2>6
<1>6. ASSUME inbox'["profiler"] = inbox["profiler"], on \subseteq o,
             inbox'[c] = inbox[c] \/ inbox'[c] = <<>> \/ \E j : Receive(c, j)
      PROVE  /\ Tidy(inbox'[c]) /\ Tidy(inbox'["profiler"]) /\ rn \cap Down = {} /\ on \cap (Down \cup rn) = {}
             /\ qn \cap (Down \cup rn \cup on) = {}
             /\ rn \cup on \cup qn \subseteq r \cup o \cup q
  <2>1. rn = r /\ Tidy(inbox'["profiler"])
    BY <1>3, <1>6
  <2>2. qn \subseteq q /\ Tidy(inbox'[c])
    BY <1>0, <1>3, <1>6, EmptyFacts, ReceiveEffect
  <2> HIDE DEF q, qn, o, on, r, rn
  <2> QED
    BY <1>3, <1>6, <2>1, <2>2
<1>7. CASE SendFails(c) \/ RecvDisconnected(c)
  <2>1. out'[c] = <<>> /\ inbox' = inbox
    BY <1>0, <1>7, SendFailsEffect, DisconnectEffect
  <2> QED
    BY <1>6, <2>1, CarriedFacts
<1>8. CASE Close(c)
  BY <1>0, <1>6, <1>8, CloseEffect, Names
<1>9. CASE SplitData
  <2>1. Receive(c, "Data")
    BY <1>9 DEF SplitData
  <2>2. /\ Idle(c) /\ inbox'["profiler"] = inbox["profiler"] /\ q = Received(c) \cup qn
        /\ Tidy(inbox'[c]) /\ Received(c) \cap qn = {}
    BY <1>0, <1>3, <2>1, ReceiveEffect
  <2>3. out'[c] = <<Send("profiler", Data(Received(c)))>>
    BY <1>0, <1>9, OutEffect DEF SplitData
  <2>4. on = Received(c) /\ rn = r /\ Tidy(inbox'["profiler"])
    <3>1. Carried(<<Send("profiler", Data(Received(c)))>>) = Received(c)
      BY CarriedData
    <3> QED
      BY <1>3, <2>2, <2>3, <3>1
  <2> HIDE DEF q, qn, o, on, r, rn
  <2> QED
    BY <1>3, <2>2, <2>4
<1>10. CASE SplitError \/ SplitStop
  <2>1. Receive(c, "Error") \/ Receive(c, "Stop")
    BY <1>10 DEF SplitError, SplitStop
  <2>2. inbox'["profiler"] = inbox["profiler"]
    BY <1>0, <2>1, ReceiveEffect
  <2>3. out'[c] = <<Send("intake", Error)>> \/ out'[c] = <<Send("profiler", Stop)>>
    BY <1>0, <1>10, LeaveEffect DEF SplitError, SplitStop
  <2>4. on = {}
    BY <2>3, CarriedFacts
  <2> QED
    BY <1>6, <2>1, <2>2, <2>4
<1> QED
  BY <1>0, <1>5, <1>7, <1>8, <1>9, <1>10 DEF ThreadStep, SplitterStep

\* No step puts a payload in a second place.
LEMMA UniqueStep ==
  ASSUME TypeOK, Control, Streams, Unique, NEW t \in Threads, ThreadStep(t)
  PROVE  Unique'
<1>1. CASE t = "collector"
  BY <1>1, CollectorFlow
<1>2. CASE t = "splitter"
  BY <1>2, SplitterFlow
<1>3. CASE t # "collector" /\ t # "splitter"
  <2> DEFINE r == UnitsIn(inbox["profiler"])
             rn == UnitsIn(inbox'["profiler"])
             o == Carried(out["splitter"])
             q == UnitsIn(inbox["splitter"])
             k == Carried(out["collector"])
  <2>1. /\ out'["splitter"] = out["splitter"] /\ out'["collector"] = out["collector"]
        /\ uncollected' = uncollected /\ inbox'["splitter"] = inbox["splitter"]
    BY <1>3, OwnCells, InboxCells, Names
  <2>2. Down' \cup rn \subseteq Down \cup r /\ Down' \cap rn = {} /\ Tidy(inbox'["profiler"])
    <3>1. CASE t = "profiler"
      BY <3>1, ProfilerFlow DEF FromProfiler
    <3>2. CASE t # "profiler"
      <4>1. inbox'["profiler"] = inbox["profiler"] /\ Down' \subseteq Down
        BY <1>3, <3>2, InboxCells, DownFormat, DownExpander, Names
      <4>2. r \cap Down = {} /\ Tidy(inbox["profiler"])
        BY DEF Unique
      <4> QED
        BY <4>1, <4>2
    <3> QED
      BY <3>1, <3>2
  <2>3. /\ FromProfiler = Down \cup r /\ FromProfiler' = Down' \cup rn
        /\ PastSplitter = Down \cup r \cup o /\ PastSplitter' = Down' \cup rn \cup o
        /\ FromSplitter = Down \cup r \cup o \cup q /\ FromSplitter' = Down' \cup rn \cup o \cup q
        /\ Collected = Down \cup r \cup o \cup q \cup k /\ Collected' = Down' \cup rn \cup o \cup q \cup k
    BY <2>1 DEF FromProfiler, PastSplitter, FromSplitter, Collected
  <2>4. /\ Tidy(inbox["splitter"]) /\ o \cap (Down \cup r) = {}
        /\ q \cap (Down \cup r \cup o) = {} /\ k \cap (Down \cup r \cup o \cup q) = {}
        /\ uncollected \cap (Down \cup r \cup o \cup q \cup k) = {}
    BY <2>3 DEF Unique
  <2> HIDE DEF r, rn, o, q, k
  <2>5. /\ o \cap (Down' \cup rn) = {}
        /\ q \cap (Down' \cup rn \cup o) = {} /\ k \cap (Down' \cup rn \cup o \cup q) = {}
        /\ uncollected \cap (Down' \cup rn \cup o \cup q \cup k) = {}
    BY <2>2, <2>4
  <2> QED
    BY <2>1, <2>2, <2>3, <2>4, <2>5 DEF Unique, r, rn, o, q, k
<1> QED
  BY <1>1, <1>2, <1>3

-----------------------------------------------------------------------------
\* Nothing is lost in silence.

\* An excuse lasts.
LEMMA ExcusedStep ==
  ASSUME TypeOK, Control, Excused, NEW t \in Threads, ThreadStep(t)
  PROVE  Excused'
<1>1. cancel' = cancel /\ open' = open
  BY OwnCells
<1>2. errorSent => errorSent'
  <2>1. CASE SendSignal(t)
    BY <2>1 DEF SendSignal
  <2>2. CASE SendFails(t) \/ RecvDisconnected(t) \/ Close(t)
    BY <2>2, SendFailsEffect, DisconnectEffect, CloseEffect
  <2> QED
    BY <2>1, <2>2 DEF ThreadStep, CollectorStep, Collect, CollectFails, CollectEnds,
       SplitterStep, SplitData, SplitError, SplitStop, ProfilerStep, Profile, ProfileFails, ProfileStop,
       IngestorStep, Ingest, IngestFails, ExpanderStep, Expand, ExpandError, ExpandCancelled,
       ExpandDisconnected, ExpandEnds, history
<1>3. ASSUME Owes PROVE Excused'
  <2> DEFINE c == "profiler"
  <2>0. c \in Threads /\ ~Idle(c) /\ unprofiled # {}
    BY <1>3, Names DEF Owes
  <2>1. CASE t # c
    BY <2>0, <2>1, OwnCells DEF Excused, Owes, Idle
  <2>2. CASE t = c
    <3>1. Head(out[c]).to = "intake" /\ Head(out[c]).signal = Error
      BY <2>0, ProfilerSending DEF Control
    <3>2. CASE SendSignal(c)
      <4>1. errorSent' = (errorSent \/ Error.kind = "Error")
        BY <2>0, <3>1, <3>2, SendEffect
      <4> QED
        BY <4>1, SignalFacts DEF Excused
    <3>3. CASE SendFails(c)
      <4>1. ~open
        BY <2>0, <3>1, <3>3, SendFailsEffect DEF Closed
      <4> QED
        BY <4>1, <1>1 DEF Excused
    <3>4. ~Ready(c) /\ ~Close(c) /\ c \notin Formats
      BY <2>0, Names DEF Ready, Close, Idle
    <3> QED
      BY <2>2, <3>2, <3>3, <3>4 DEF ThreadStep, RecvDisconnected, ProfilerStep, Profile, ProfileFails, ProfileStop, Receive
  <2> QED
    BY <2>1, <2>2
<1> QED
  BY <1>1, <1>2, <1>3 DEF Excused

\* Who sends to whom.
LEMMA SenderFacts ==
  /\ Senders("splitter") = {"collector"} /\ Senders("profiler") = {"splitter"}
  /\ \A f \in Formats : Senders(f) = {"profiler"}
BY Names DEF Senders

\* While the lane has to answer, no receiver is gone before its sender is through.
LEMMA NoSendFails ==
  ASSUME TypeOK, Control, Answerable, ~Excused, NEW t \in Threads
  PROVE  ~SendFails(t)
<1> SUFFICES ASSUME SendFails(t) PROVE FALSE
  OBVIOUS
<1>1. ~Idle(t) /\ Closed(Head(out[t]).to) /\ open
  BY SendFailsEffect DEF Excused
<1>2. \A f \in Formats : Closed(f) <=> pc[f] = "done"
  BY Names DEF Closed, Released
<1>3. /\ Closed("splitter") <=> pc["splitter"] = "done"
      /\ Closed("expander") <=> pc["expander"] = "done"
      /\ Closed("profiler") => ~Running("profiler")
      /\ ~Closed("intake")
  BY <1>1 DEF Closed, Released, Running
<1>4. CASE t = "collector"
  <2>1. pc["splitter"] = "done"
    BY <1>1, <1>3, <1>4, CollectorSending DEF Control
  <2>2. Idle("splitter") /\ ~Running("splitter")
    BY <2>1, Names DEF Control, Running
  <2>3. ~SplitterFailed
    BY <2>2, ShortFacts DEF SplitterFailed, Sends, Idle
  <2> QED
    BY <1>1, <1>4, <2>2, <2>3 DEF Answerable, SplitterOver
<1>5. CASE t = "splitter"
  <2>1. ~Running("profiler")
    BY <1>1, <1>3, <1>5, SplitterSending DEF Control
  <2> QED
    BY <1>1, <1>5, <2>1 DEF Answerable, ProfilerOver
<1>6. CASE t = "profiler"
  <2>1. ~Idle("profiler") /\ Closed(Head(out["profiler"]).to)
    BY <1>1, <1>6
  <2>2. Head(out["profiler"]).to \in Formats
    BY <2>1, <1>3, ProfilerSending DEF Control
  <2>3. PICK f \in Formats : f = Head(out["profiler"]).to
    BY <2>2
  <2>4. pc[f] = "done"
    BY <2>1, <2>3, <1>2
  <2>5. ~Running("profiler")
    BY <2>4 DEF Answerable, FormatOver, Running
  <2> QED
    BY <2>1, <2>5 DEF Answerable, ProfilerOver
<1>7. CASE t \in Formats
  <2>1. pc["expander"] = "done"
    BY <1>1, <1>3, <1>7, FormatSending DEF Control
  <2>2. pc[t] = "done"
    BY <1>7, <2>1 DEF Answerable, ExpanderOver, Running
  <2> QED
    BY <1>1, <2>2 DEF Control
<1>8. CASE t = "expander"
  BY <1>1, <1>3, <1>8, ExpanderSending DEF Control
<1> QED
  BY <1>4, <1>5, <1>6, <1>7, <1>8, Names

\* While the lane has to answer, a thread that ends leaves nothing in its channel.
LEMMA CloseEmpty ==
  ASSUME TypeOK, Control, Streams, Answerable, ~Excused, NEW t \in Threads, Close(t)
  PROVE  inbox' = inbox
<1>1. ~Running(t) /\ Idle(t)
  BY CloseEffect
<1>2. inbox[t] = <<>>
  <2>1. CASE t = "splitter"
    <3>1. ~SplitterFailed
      BY <1>1, <2>1, ShortFacts DEF SplitterFailed, Sends, Idle
    <3> QED
      BY <1>1, <2>1, <3>1 DEF Answerable, SplitterOver
  <2>2. CASE t # "splitter"
    BY <1>1, <2>2, Names DEF Answerable, ProfilerOver, FormatOver, ExpanderOver, Streams
  <2> QED
    BY <2>1, <2>2
<1>3. inbox' = [inbox EXCEPT ![t] = <<>>]
  BY DEF Close
<1> QED
  BY <1>2, <1>3, Fns

\* While the lane has to answer, these are its steps.
LEMMA AnswerableSteps ==
  ASSUME TypeOK, Control, Streams, Answerable, ~Excused, NEW t \in Threads, ThreadStep(t)
  PROVE  \/ SendSignal(t)
         \/ RecvDisconnected(t)
         \/ Close(t) /\ inbox' = inbox /\ out' = out
         \/ t = "collector" /\ CollectorStep
         \/ t = "splitter" /\ SplitterStep
         \/ t = "profiler" /\ ((\E f \in Formats : Profile(f)) \/ ProfileStop)
         \/ Excused'
         \/ t \in Formats /\ IngestorStep(t)
         \/ t = "expander" /\ \E bad, full \in SUBSET Payloads : Expand(bad, full)
         \/ t = "expander" /\ ExpandError
         \/ t = "expander" /\ ExpandDisconnected
<1>1. ~SendFails(t)
  BY NoSendFails
<1>2. Close(t) => inbox' = inbox /\ out' = out
  BY CloseEmpty, CloseEffect
<1>3. ~ExpandCancelled
  BY DEF ExpandCancelled, Excused
<1>4. ASSUME t = "profiler", ProfileFails PROVE Excused'
  <2>1. inbox[t] \in Seq(Signal) /\ inbox[t] # <<>> /\ Head(inbox[t]).kind = "Data" /\ Proper(inbox[t])
    BY <1>4, Fns DEF ProfileFails, Streams
  <2>2. Received(t) # {}
    BY <2>1, HeadTailFacts DEF Received
  <2>3. out'[t] = <<Send("intake", Error)>> /\ unprofiled' # {}
    BY <1>4, <2>2, LeaveEffect DEF ProfileFails
  <2> QED
    BY <1>4, <2>3, ShortFacts DEF Excused, Owes, Idle
<1> QED
  BY <1>1, <1>2, <1>3, <1>4 DEF ThreadStep, ProfilerStep, ExpanderStep

\* What two shapes of what is to be sent exclude.
LEMMA ShapeFacts ==
  ASSUME NEW t
  PROVE  /\ Idle(t) => ~Sends(t, "intake", Error) /\ ~SendsTwo(t, "splitter", Error, Stop)
         /\ Idle(t) => ~IngestorFailed(t)
         /\ Sends(t, "splitter", Stop) => ~SendsTwo(t, "splitter", Error, Stop)
<1>1. /\ <<Send("intake", Error)>> # <<>> /\ <<Send("splitter", Error), Send("splitter", Stop)>> # <<>>
      /\ <<Send("expander", Error)>> # <<>> /\ <<Send("expander", Data({})), Send("expander", Error)>> # <<>>
      /\ <<Send("splitter", Error), Send("splitter", Stop)>> # <<Send("splitter", Stop)>>
  BY ShortFacts
<1> QED
  BY <1>1 DEF Idle, Sends, SendsTwo, IngestorFailed

\* The splitter's error leaves it for the intake only.
LEMMA SplitterErrorKept ==
  ASSUME TypeOK, Control, ~Excused, Answerable, SplitterFailed, NEW t \in Threads, ThreadStep(t)
  PROVE  Excused' \/ SplitterFailed'
<1>1. CASE t # "splitter"
  BY <1>1, OwnCells, Names DEF SplitterFailed, Sends
<1>2. CASE t = "splitter"
  <2>1. ~Idle("splitter") /\ Head(out["splitter"]).to = "intake" /\ Head(out["splitter"]).signal = Error
    BY ShapeFacts, SendsFacts DEF SplitterFailed
  <2>2. CASE SendSignal(t)
    <3>1. errorSent' = (errorSent \/ Error.kind = "Error")
      BY <1>2, <2>1, <2>2, SendEffect
    <3> QED
      BY <3>1, SignalFacts DEF Excused
  <2>3. ~SendFails(t)
    BY NoSendFails
  <2>4. ~Ready(t) /\ ~Close(t) /\ t \notin Formats
    BY <1>2, <2>1, Names DEF Ready, Close, Idle
  <2> QED
    BY <1>2, <2>2, <2>3, <2>4 DEF ThreadStep, RecvDisconnected, SplitterStep, SplitData, SplitError, SplitStop, Receive
<1> QED
  BY <1>1, <1>2

\* A failed collector's error stays on its way.
LEMMA CollectorOverStep ==
  ASSUME TypeOK, Control, Streams, Answerable, ~Excused, NEW t \in Threads, ThreadStep(t)
  PROVE  Excused' \/ CollectorOver'
<1> DEFINE c == "collector"
           q == inbox["splitter"]
<1>0. c \in Threads /\ "splitter" \in Threads /\ q \in Seq(Signal)
  BY Names, Fns
<1>1. CASE t # c /\ t # "splitter"
  <2>1. /\ pc'[c] = pc[c] /\ out'[c] = out[c] /\ out'["splitter"] = out["splitter"]
        /\ uncollected' = uncollected /\ inbox'["splitter"] = q
    BY <1>0, <1>1, OwnCells, InboxCells
  <2> QED
    BY <2>1 DEF Answerable, CollectorOver, Running, SplitterFailed, Sends, SendsTwo
<1>2. CASE t = c
  <2>1. out'["splitter"] = out["splitter"]
    BY <1>0, <1>2, OwnCells
  <2>2. CASE SendSignal(c)
    <3> DEFINE m == Head(out[c]).signal
    <3>1. ~Idle(c) /\ m \in Signal /\ pc' = pc /\ uncollected' = uncollected
      BY <1>0, <2>2, SendEffect
    <3>2. /\ Head(out[c]).to = "splitter"
          /\ Running(c) \/ m = Error \/ Sends(c, "splitter", Stop)
      BY <3>1, CollectorSending DEF Control
    <3>3. inbox'["splitter"] = Append(q, m)
      BY <1>0, <2>2, <3>2, SendEffect
    <3>4. Holds(inbox'["splitter"], "Error") <=> Holds(q, "Error") \/ m.kind = "Error"
      BY <1>0, <3>1, <3>3, AppendFacts
    <3>5. Error.kind = "Error" /\ (Sends(c, "splitter", Stop) => ~SendsTwo(c, "splitter", Error, Stop))
      BY SignalFacts, ShapeFacts
    <3> HIDE DEF m
    <3>6. CASE Running(c)
      BY <3>1, <3>6 DEF CollectorOver, Running
    <3>7. CASE m = Error
      BY <3>4, <3>5, <3>7 DEF CollectorOver
    <3>8. CASE ~Running(c) /\ Sends(c, "splitter", Stop)
      <4>1. uncollected = {} \/ SplitterFailed \/ Holds(q, "Error")
        BY <3>5, <3>8 DEF Answerable, CollectorOver
      <4>2. SplitterFailed => SplitterFailed'
        BY <2>1 DEF SplitterFailed, Sends
      <4> QED
        BY <3>1, <3>4, <4>1, <4>2 DEF CollectorOver
    <3> QED
      BY <3>2, <3>6, <3>7, <3>8
  <2>3. CASE Close(c)
    <3>1. pc[c] # "run" /\ inbox' = inbox /\ out' = out /\ uncollected' = uncollected
      BY <1>0, <2>3, CloseEffect, CloseEmpty DEF Running
    <3> QED
      BY <3>1 DEF Answerable, CollectorOver, Running, SplitterFailed, Sends, SendsTwo
  <2>4. ASSUME NEW p \in Payloads, Collect(p) PROVE pc'[c] = "run"
    BY <1>0, <2>4 DEF Collect, Ready
  <2>5. CASE CollectFails
    <3>1. out'[c] = <<Send("splitter", Error), Send("splitter", Stop)>>
      BY <1>0, <2>5, LeaveEffect DEF CollectFails
    <3> QED
      BY <3>1 DEF CollectorOver, SendsTwo
  <2>6. CASE CollectEnds
    BY <2>6 DEF CollectEnds, CollectorOver
  <2>7. ~RecvDisconnected(c) /\ c \notin Formats
    BY Names DEF RecvDisconnected
  <2> QED
    BY <1>2, <2>2, <2>3, <2>4, <2>5, <2>6, <2>7, AnswerableSteps DEF CollectorStep, CollectorOver, Running
<1>3. CASE t = "splitter"
  <2>1. pc'[c] = pc[c] /\ out'[c] = out[c] /\ uncollected' = uncollected
    BY <1>0, <1>3, OwnCells
  <2>2. ASSUME Holds(q, "Error") PROVE Holds(inbox'["splitter"], "Error") \/ SplitterFailed'
    <3>1. CASE Receive(t, "Data")
      BY <1>0, <1>3, <2>2, <3>1, ReceiveEffect
    <3>2. CASE SplitError
      <4>1. out'["splitter"] = <<Send("intake", Error)>>
        BY <1>0, <3>2, LeaveEffect DEF SplitError
      <4> QED
        BY <4>1 DEF SplitterFailed, Sends
    <3>3. ~Receive(t, "Stop")
      <4> SUFFICES ASSUME Receive(t, "Stop") PROVE FALSE
        OBVIOUS
      <4>1. inbox'["splitter"] = <<>> /\ Holds(inbox'["splitter"], "Error")
        BY <1>0, <1>3, <2>2, ReceiveEffect DEF Streams
      <4> QED
        BY <4>1, EmptyFacts
    <3>4. CASE inbox'["splitter"] = q
      BY <2>2, <3>4
    <3>5. ASSUME SendSignal(t) PROVE inbox'["splitter"] = q
      <4>1. ~Idle(t)
        BY <3>5, SendEffect
      <4>2. Head(out[t]).to # "splitter"
        BY <1>3, <4>1, SplitterSending DEF Control
      <4> QED
        BY <1>0, <3>5, <4>2, SendEffect
    <3>6. ~SendFails(t) /\ (Close(t) => inbox' = inbox) /\ t \notin Formats
      BY <1>3, NoSendFails, CloseEmpty, Names
    <3> QED
      BY <1>0, <1>3, <3>1, <3>2, <3>3, <3>4, <3>5, <3>6
         DEF ThreadStep, RecvDisconnected, SplitterStep, SplitData, SplitStop
  <2> QED
    BY <2>1, <2>2, SplitterErrorKept DEF Answerable, CollectorOver, Running, SendsTwo
<1> QED
  BY <1>1, <1>2, <1>3

\* A splitter ends after its collector, or with an error.
LEMMA SplitterOverStep ==
  ASSUME TypeOK, Control, Streams, Answerable, ~Excused, NEW t \in Threads, ThreadStep(t)
  PROVE  Excused' \/ SplitterOver'
<1> DEFINE c == "splitter"
           k == "collector"
<1>0. c \in Threads /\ k \in Threads /\ c \notin Formats
  BY Names
<1>1. CASE t # c /\ t # k
  <2>1. /\ pc'[c] = pc[c] /\ out'[c] = out[c] /\ pc'[k] = pc[k] /\ out'[k] = out[k]
        /\ uncollected' = uncollected /\ inbox'[c] = inbox[c]
    BY <1>0, <1>1, OwnCells, InboxCells
  <2> QED
    BY <2>1 DEF Answerable, SplitterOver, Running, Idle, SplitterFailed, Sends
<1>2. CASE t = k
  <2>1. pc'[c] = pc[c] /\ out'[c] = out[c]
    BY <1>0, <1>2, OwnCells
  <2>2. ASSUME ~Running(k), Idle(k), inbox[c] = <<>>, uncollected = {}
        PROVE  pc'[k] # "run" /\ out'[k] = <<>> /\ inbox'[c] = <<>> /\ uncollected' = {}
    <3>1. Close(k)
      BY <1>0, <1>2, <2>2, OnlyCloses
    <3>2. pc'[k] = "done" /\ out' = out /\ inbox'[c] = inbox[c] /\ uncollected' = uncollected
      BY <1>0, <3>1, CloseEffect
    <3> QED
      BY <2>2, <3>2 DEF Idle
  <2> QED
    BY <2>1, <2>2 DEF Answerable, SplitterOver, Running, Idle, SplitterFailed, Sends
<1>3. CASE t = c
  <2>1. pc'[k] = pc[k] /\ out'[k] = out[k] /\ uncollected' = uncollected
    BY <1>0, <1>3, OwnCells
  <2>2. ASSUME ~Running(k), Idle(k), Idle(c), ~Holds(inbox[c], "Error") PROVE uncollected = {}
    BY <2>2, ShapeFacts DEF Answerable, CollectorOver, SplitterFailed
  <2>3. CASE Running(c)
    <3>1. CASE pc'[c] = "run"
      BY <3>1 DEF SplitterOver, Running
    <3>2. CASE SplitError
      <4>1. out'[c] = <<Send("intake", Error)>>
        BY <1>0, <3>2, LeaveEffect DEF SplitError
      <4> QED
        BY <4>1 DEF SplitterOver, SplitterFailed, Sends
    <3>3. CASE SplitStop
      <4>1. Receive(c, "Stop")
        BY <3>3 DEF SplitStop
      <4>2. /\ Holds(inbox[c], "Stop") /\ inbox'[c] = <<>> /\ Idle(c)
            /\ Holds(inbox[c], "Error") => Holds(inbox'[c], "Error")
        BY <1>0, <4>1, ReceiveEffect DEF Streams
      <4>3. ~Running(k) /\ Idle(k) /\ ~Holds(inbox[c], "Error")
        BY <4>2, EmptyFacts DEF Streams
      <4> QED
        BY <2>1, <2>2, <4>2, <4>3 DEF SplitterOver, Running, Idle
    <3>4. CASE RecvDisconnected(c)
      <4>1. inbox[c] = <<>> /\ Idle(c) /\ Released(k) /\ inbox' = inbox
        BY <1>0, <3>4, DisconnectEffect, SenderFacts
      <4>2. ~Running(k) /\ Idle(k)
        BY <1>0, <4>1 DEF Released, Running, Control
      <4>3. ~Holds(inbox[c], "Error")
        BY <4>1, EmptyFacts
      <4> QED
        BY <2>1, <2>2, <4>1, <4>2, <4>3 DEF SplitterOver, Running, Idle
    <3>5. CASE SendSignal(c)
      BY <1>0, <2>3, <3>1, <3>5, SendEffect DEF Running
    <3>6. CASE SplitData
      BY <2>3, <3>1, <3>6 DEF SplitData, Running
    <3>7. ~Close(c)
      BY <2>3 DEF Close, Running
    <3> QED
      BY <1>0, <1>3, <3>2, <3>3, <3>4, <3>5, <3>6, <3>7, AnswerableSteps DEF SplitterStep
  <2>4. CASE ~Running(c)
    <3>1. CASE SplitterFailed
      BY <3>1, SplitterErrorKept DEF SplitterOver
    <3>2. CASE ~Running(k) /\ Idle(k) /\ uncollected = {} /\ inbox[c] = <<>>
      <4>1. inbox'[c] = <<>>
        <5>1. CASE SendSignal(c)
          <6>1. ~Idle(c)
            BY <1>0, <5>1, SendEffect
          <6>2. Head(out[c]).to # c
            BY <6>1, SplitterSending DEF Control
          <6> QED
            BY <1>0, <3>2, <5>1, <6>2, SendEffect
        <5>2. ~Ready(c)
          BY <2>4 DEF Ready, Running
        <5> QED
          BY <1>0, <1>3, <3>2, <5>1, <5>2, OwnInbox DEF Receive
      <4> QED
        BY <2>1, <3>2, <4>1 DEF SplitterOver, Running, Idle
    <3> QED
      BY <2>4, <3>1, <3>2 DEF Answerable, SplitterOver
  <2> QED
    BY <2>3, <2>4
<1> QED
  BY <1>1, <1>2, <1>3

\* A profiler ends after its splitter.
LEMMA ProfilerOverStep ==
  ASSUME TypeOK, Control, Streams, Answerable, ~Excused, NEW t \in Threads, ThreadStep(t)
  PROVE  Excused' \/ ProfilerOver'
<1> DEFINE c == "profiler"
           k == "splitter"
<1>0. c \in Threads /\ k \in Threads /\ c \notin Formats
  BY Names
<1>1. CASE t # c /\ t # k
  <2>1. /\ pc'[c] = pc[c] /\ out'[c] = out[c] /\ pc'[k] = pc[k] /\ out'[k] = out[k] /\ inbox'[c] = inbox[c]
    BY <1>0, <1>1, OwnCells, InboxCells
  <2> QED
    BY <2>1 DEF Answerable, ProfilerOver, Running, Idle
<1>2. CASE t = k
  <2>1. pc'[c] = pc[c] /\ out'[c] = out[c]
    BY <1>0, <1>2, OwnCells
  <2>2. ASSUME ~Running(k), Idle(k), inbox[c] = <<>>
        PROVE  pc'[k] # "run" /\ out'[k] = <<>> /\ inbox'[c] = <<>>
    <3>1. Close(k)
      BY <1>0, <1>2, <2>2, OnlyCloses
    <3>2. pc'[k] = "done" /\ out' = out /\ inbox'[c] = inbox[c]
      BY <1>0, <3>1, CloseEffect
    <3> QED
      BY <2>2, <3>2 DEF Idle
  <2> QED
    BY <2>1, <2>2 DEF Answerable, ProfilerOver, Running, Idle
<1>3. CASE t = c
  <2>1. pc'[k] = pc[k] /\ out'[k] = out[k]
    BY <1>0, <1>3, OwnCells
  <2>2. CASE ~Running(c)
    <3>1. Idle(c) /\ ~Running(k) /\ Idle(k) /\ inbox[c] = <<>>
      BY <2>2 DEF Answerable, ProfilerOver
    <3>2. Close(c)
      BY <1>0, <1>3, <2>2, <3>1, OnlyCloses
    <3>3. out' = out /\ inbox'[c] = <<>>
      BY <1>0, <3>2, CloseEffect
    <3> QED
      BY <2>1, <3>1, <3>3 DEF ProfilerOver, Running, Idle
  <2>3. CASE Running(c)
    <3>1. CASE SendSignal(c) \/ \E f \in Formats : Profile(f)
      <4>1. pc'[c] = "run"
        BY <1>0, <2>3, <3>1, SendEffect DEF Profile, Running
      <4> QED
        BY <4>1 DEF ProfilerOver, Running
    <3>2. CASE ProfileStop
      <4>1. Receive(c, "Stop")
        BY <3>2 DEF ProfileStop
      <4>2. Holds(inbox[c], "Stop") /\ inbox'[c] = <<>>
        BY <1>0, <4>1, ReceiveEffect DEF Streams
      <4>3. out'[c] = <<>>
        BY <1>0, <3>2, LeaveEffect DEF ProfileStop
      <4>4. ~Running(k) /\ Idle(k)
        BY <4>2 DEF Streams
      <4> QED
        BY <2>1, <4>2, <4>3, <4>4 DEF ProfilerOver, Running, Idle
    <3>3. CASE RecvDisconnected(c)
      <4>1. inbox[c] = <<>> /\ out'[c] = <<>> /\ Released(k) /\ inbox' = inbox
        BY <1>0, <3>3, DisconnectEffect, SenderFacts
      <4>2. ~Running(k) /\ Idle(k)
        BY <1>0, <4>1 DEF Released, Running, Control
      <4> QED
        BY <2>1, <4>1, <4>2 DEF ProfilerOver, Running, Idle
    <3>4. ~Close(c)
      BY <2>3 DEF Close, Running
    <3> QED
      BY <1>0, <1>3, <3>1, <3>2, <3>3, <3>4, AnswerableSteps
  <2> QED
    BY <2>2, <2>3
<1> QED
  BY <1>1, <1>2, <1>3

\* An ingestor ends after the profiler.
LEMMA FormatOverStep ==
  ASSUME TypeOK, Control, Streams, Answerable, ~Excused, NEW t \in Threads, ThreadStep(t),
         NEW f \in Formats
  PROVE  FormatOver(f)'
<1> DEFINE k == "profiler"
<1>0. f \in Threads /\ k \in Threads /\ f # k /\ FormatOver(f) /\ FormatOut(f)
  BY Names DEF Answerable, Control
<1>1. CASE t # f /\ t # k
  <2>1. pc'[f] = pc[f] /\ pc'[k] = pc[k] /\ inbox'[f] = inbox[f]
    BY <1>0, <1>1, OwnCells, InboxCells
  <2> QED
    BY <1>0, <2>1 DEF FormatOver, Running
<1>2. CASE t = k
  <2>1. pc'[f] = pc[f]
    BY <1>0, <1>2, OwnCells
  <2>2. ASSUME ~Running(k), inbox[f] = <<>> PROVE pc'[k] # "run" /\ inbox'[f] = <<>>
    <3>1. Close(k)
      BY <1>0, <1>2, <2>2, OnlyCloses DEF Answerable, ProfilerOver
    <3> QED
      BY <1>0, <2>2, <3>1, CloseEffect
  <2> QED
    BY <1>0, <2>1, <2>2 DEF FormatOver, Running
<1>3. CASE t = f
  <2>1. pc'[k] = pc[k]
    BY <1>0, <1>3, OwnCells
  <2>2. CASE ~Running(f)
    <3>1. Idle(f)
      BY <2>2, <1>0 DEF FormatOut
    <3>2. Close(f)
      BY <1>0, <1>3, <2>2, <3>1, OnlyCloses
    <3>3. inbox'[f] = <<>>
      BY <1>0, <3>2, CloseEffect
    <3> QED
      BY <1>0, <2>1, <2>2, <3>3 DEF FormatOver, Running
  <2>3. CASE Running(f)
    <3>1. CASE RecvDisconnected(f)
      <4>1. inbox[f] = <<>> /\ Released(k) /\ inbox' = inbox
        BY <1>0, <3>1, DisconnectEffect, SenderFacts
      <4> QED
        BY <2>1, <4>1 DEF FormatOver, Released, Running
    <3>2. CASE SendSignal(f) \/ IngestorStep(f)
      <4>1. pc' = pc
        BY <1>0, <3>2, SendEffect DEF IngestorStep, Ingest, IngestFails
      <4> QED
        BY <2>3, <4>1 DEF FormatOver, Running
    <3>3. ~Close(f) /\ ~SendFails(f)
      BY <1>0, <2>3, NoSendFails DEF Close, Running
    <3> QED
      BY <1>3, <3>1, <3>2, <3>3, Names DEF ThreadStep
  <2> QED
    BY <2>2, <2>3
<1> QED
  BY <1>1, <1>2, <1>3

\* The expander ends after every ingestor.
LEMMA ExpanderOverStep ==
  ASSUME TypeOK, Control, Streams, Answerable, ~Excused, NEW t \in Threads, ThreadStep(t)
  PROVE  ExpanderOver'
<1> DEFINE c == "expander"
<1>0. c \in Threads /\ c \notin Formats /\ ExpanderOver
  BY Names DEF Answerable
<1>1. CASE t # c /\ t \notin Formats
  <2>1. /\ pc'[c] = pc[c] /\ inbox'[c] = inbox[c] /\ pending' = pending /\ \A f \in Formats : pc'[f] = pc[f]
    BY <1>0, <1>1, OwnCells, InboxCells, Names
  <2> QED
    BY <1>0, <2>1 DEF ExpanderOver, Running
<1>2. CASE t \in Formats
  <2>1. pc'[c] = pc[c]
    BY <1>0, <1>2, OwnCells
  <2>2. ASSUME pc[t] = "done" PROVE FALSE
    <3>1. ~Running(t) /\ Idle(t)
      BY <2>2 DEF Running, Control
    <3>2. Close(t)
      BY <3>1, OnlyCloses
    <3> QED
      BY <2>2, <3>2 DEF Close
  <2> QED
    BY <1>0, <1>2, <2>1, <2>2 DEF ExpanderOver, Running
<1>3. CASE t = c
  <2>1. \A f \in Formats : pc'[f] = pc[f]
    BY <1>0, <1>3, OwnCells, Names
  <2>2. CASE ~Running(c)
    <3>1. pending' = pending /\ inbox'[c] = inbox[c]
      <4>1. CASE SendSignal(c)
        <5>1. ~Idle(c)
          BY <1>0, <4>1, SendEffect
        <5>2. Head(out[c]).to = "intake"
          BY <5>1, ExpanderSending DEF Control
        <5> QED
          BY <1>0, <4>1, <5>2, SendEffect
      <4>2. CASE Close(c)
        BY <1>0, <4>2, CloseEffect, CloseEmpty
      <4>3. ~SendFails(c) /\ ~Ready(c)
        BY <1>0, <2>2, NoSendFails DEF Ready, Running
      <4> QED
        BY <1>0, <1>3, <4>1, <4>2, <4>3 DEF ThreadStep, RecvDisconnected, ExpanderStep, Expand, ExpandError,
           ExpandCancelled, ExpandDisconnected, Receive
    <3> QED
      BY <1>0, <2>1, <2>2, <3>1 DEF ExpanderOver, Running
  <2>3. CASE Running(c)
    <3>1. CASE ExpandDisconnected
      <4>1. /\ inbox[c] = <<>> /\ inbox' = inbox /\ pending' = {} /\ \A f \in Formats : Released(f)
        BY <3>1 DEF ExpandDisconnected, ExpandEnds
      <4>2. \A f \in Formats : pc[f] = "done"
        BY <4>1, Names DEF Released
      <4> QED
        BY <2>1, <4>1, <4>2 DEF ExpanderOver, Running
    <3>2. CASE SendSignal(c) \/ ExpandError \/ \E bad, full \in SUBSET Payloads : Expand(bad, full)
      <4>1. pc' = pc
        BY <1>0, <3>2, SendEffect DEF ExpandError, Expand
      <4> QED
        BY <2>3, <4>1 DEF ExpanderOver, Running
    <3>3. ~Close(c) /\ ~SendFails(c) /\ ~RecvDisconnected(c) /\ ~ExpandCancelled
      BY <1>0, <2>3, NoSendFails DEF Close, Running, RecvDisconnected, ExpandCancelled, Excused
    <3> QED
      BY <1>0, <1>3, <3>1, <3>2, <3>3 DEF ThreadStep, ExpanderStep
  <2> QED
    BY <2>2, <2>3
<1> QED
  BY <1>1, <1>2, <1>3

\* A thread that has something to send does nothing else.
LEMMA BusyThread ==
  ASSUME TypeOK, Control, Answerable, ~Excused, NEW t \in Threads, ThreadStep(t), ~Idle(t)
  PROVE  SendSignal(t)
<1>1. ~Ready(t) /\ ~Close(t) /\ ~SendFails(t)
  BY NoSendFails DEF Ready, Close, Idle
<1> QED
  BY <1>1 DEF ThreadStep, RecvDisconnected, CollectorStep, Collect, CollectFails, CollectEnds,
     SplitterStep, SplitData, SplitError, SplitStop, ProfilerStep, Profile, ProfileFails, ProfileStop,
     IngestorStep, Ingest, IngestFails, ExpanderStep, Expand, ExpandError, ExpandCancelled,
     ExpandDisconnected, Receive

\* An ingestor's error reaches the intake (ingest_one, expander.rs).
LEMMA ErrorComingStep ==
  ASSUME TypeOK, Control, Streams, Answerable, ~Excused, ErrorComing, NEW t \in Threads, ThreadStep(t)
  PROVE  Excused' \/ ErrorComing'
<1> DEFINE e == "expander"
<1>0. e \in Threads /\ e \notin Formats /\ inbox[e] \in Seq(Signal)
  BY Names, Fns
<1>1. ASSUME NEW f \in Formats, IngestorFailed(f) PROVE ErrorComing'
  <2>0. f \in Threads /\ ~Idle(f) /\ FormatOut(f)
    BY <1>1, ShapeFacts, Names DEF Control
  <2>1. CASE t # f
    <3>1. out'[f] = out[f]
      BY <2>0, <2>1, OwnCells
    <3> QED
      BY <1>1, <3>1 DEF ErrorComing, IngestorFailed, Sends, SendsTwo
  <2>2. CASE t = f
    <3> DEFINE m == Head(out[f]).signal
    <3>1. SendSignal(f)
      BY <2>0, <2>2, BusyThread
    <3>2. Head(out[f]).to = e
      BY <2>0, FormatSending
    <3>3. \/ m = Error
          \/ Tail(out[f]) = <<Send(e, Error)>>
      BY <1>1, <2>0, FormatSending
    <3>4. out'[f] = Tail(out[f]) /\ inbox'[e] = Append(inbox[e], m) /\ m \in Signal
      BY <1>0, <2>0, <3>1, <3>2, SendEffect
    <3>5. CASE m = Error
      <4>1. Holds(inbox'[e], "Error")
        BY <1>0, <3>4, <3>5, AppendFacts, SignalFacts
      <4> QED
        BY <4>1 DEF ErrorComing
    <3>6. CASE Tail(out[f]) = <<Send(e, Error)>>
      BY <3>4, <3>6 DEF ErrorComing, IngestorFailed, Sends
    <3> QED
      BY <3>3, <3>5, <3>6
  <2> QED
    BY <2>1, <2>2
<1>2. ASSUME Holds(inbox[e], "Error") PROVE Excused' \/ ErrorComing'
  <2>0. inbox[e] # <<>> /\ Running(e)
    BY <1>2, EmptyFacts DEF Answerable, ExpanderOver
  <2>1. ASSUME inbox'[e] = inbox[e] PROVE ErrorComing'
    BY <1>2, <2>1 DEF ErrorComing
  <2>2. CASE t # e /\ t \notin Formats
    BY <1>0, <2>1, <2>2, InboxCells
  <2>3. CASE t \in Formats
    <3>1. CASE SendSignal(t)
      <4> DEFINE m == Head(out[t]).signal
      <4>1. ~Idle(t) /\ FormatOut(t)
        BY <2>3, <3>1, SendEffect DEF Control
      <4>2. Head(out[t]).to = e
        BY <4>1, FormatSending
      <4>3. inbox'[e] = Append(inbox[e], m) /\ m \in Signal
        BY <1>0, <3>1, <4>2, SendEffect
      <4>4. Holds(inbox'[e], "Error")
        BY <1>0, <1>2, <4>3, AppendFacts
      <4> QED
        BY <4>4 DEF ErrorComing
    <3>2. CASE \E k : Receive(t, k)
      BY <1>0, <2>1, <2>3, <3>2, ReceiveEffect
    <3> QED
      BY <1>0, <2>1, <2>3, <3>1, <3>2, OwnInbox
  <2>4. CASE t = e
    <3>1. CASE SendSignal(e)
      <4>1. ~Idle(e)
        BY <1>0, <3>1, SendEffect
      <4>2. Head(out[e]).to = "intake"
        BY <4>1, ExpanderSending DEF Control
      <4>3. inbox' = inbox
        BY <1>0, <3>1, <4>2, SendEffect
      <4> QED
        BY <4>3, <2>1
    <3>2. ASSUME NEW bad \in SUBSET Payloads, NEW full \in SUBSET Payloads, Expand(bad, full)
          PROVE  ErrorComing'
      <4>1. Receive(e, "Data")
        BY <3>2 DEF Expand
      <4>2. Holds(inbox'[e], "Error")
        BY <1>0, <1>2, <4>1, ReceiveEffect
      <4> QED
        BY <4>2 DEF ErrorComing
    <3>3. CASE ExpandError
      <4>1. out'[e] = <<Send("intake", Error)>>
        BY <1>0, <3>3, OutEffect DEF ExpandError
      <4> QED
        BY <4>1 DEF ErrorComing, Sends
    <3>4. ~ExpandDisconnected /\ ~RecvDisconnected(e)
      BY <2>0 DEF ExpandDisconnected, RecvDisconnected
    <3> QED
      BY <1>0, <2>1, <2>4, <3>1, <3>2, <3>3, <3>4, AnswerableSteps
  <2> QED
    BY <2>2, <2>3, <2>4
<1>3. ASSUME Sends(e, "intake", Error) PROVE Excused' \/ ErrorComing'
  <2>1. CASE t # e
    BY <1>0, <1>3, <2>1, OwnCells DEF ErrorComing, Sends
  <2>2. CASE t = e
    <3>1. ~Idle(e) /\ Head(out[e]).to = "intake" /\ Head(out[e]).signal = Error
      BY <1>3, ShapeFacts, SendsFacts
    <3>2. SendSignal(e)
      BY <1>0, <2>2, <3>1, BusyThread
    <3>3. errorSent' = (errorSent \/ Error.kind = "Error")
      BY <1>0, <3>1, <3>2, SendEffect
    <3> QED
      BY <3>3, SignalFacts DEF Excused
  <2> QED
    BY <2>1, <2>2
<1> QED
  BY <1>1, <1>2, <1>3 DEF ErrorComing

\* Where a payload is, until it is accounted for.
InLane(u) ==
  \/ u \in uncollected
  \/ \E s \in Threads : u \in UnitsIn(inbox[s]) \/ u \in Carried(out[s])
  \/ u \in pending \/ u \in sent \/ u \in skipped

\* The payloads that are collected, or still to be.
LEMMA LaneElements ==
  /\ Streams => \A u : u \in uncollected \cup Collected <=> InLane(u)
  /\ Streams' => \A u : u \in (uncollected \cup Collected)' <=> InLane(u)'
<1>1. UnitsIn(<<>>) = {}
  BY EmptyFacts
<1>2. ASSUME NEW u PROVE u \in Collected <=> \/ u \in Down \/ u \in UnitsIn(inbox["profiler"]) \/ u \in Carried(out["splitter"])
                                            \/ u \in UnitsIn(inbox["splitter"]) \/ u \in Carried(out["collector"])
  BY DEF Collected, FromSplitter, PastSplitter, FromProfiler
<1>3. ASSUME NEW u PROVE u \in Collected' <=> \/ u \in Down' \/ u \in UnitsIn(inbox'["profiler"]) \/ u \in Carried(out'["splitter"])
                                             \/ u \in UnitsIn(inbox'["splitter"]) \/ u \in Carried(out'["collector"])
  BY DEF Collected, FromSplitter, PastSplitter, FromProfiler
<1>4. Threads = {"collector", "splitter", "profiler", "expander"} \cup Formats
  BY DEF Threads
<1>5. ASSUME Streams, NEW u PROVE u \in uncollected \cup Collected <=> InLane(u)
  <2>1. u \in Down <=> InDown(u)
    BY DownElements
  <2>2. u \notin UnitsIn(inbox["collector"])
    BY <1>1, <1>5 DEF Streams
  <2> QED
    BY <1>2, <1>4, <2>1, <2>2 DEF InLane, InDown
<1>6. ASSUME Streams', NEW u PROVE u \in (uncollected \cup Collected)' <=> InLane(u)'
  <2>1. u \in Down' <=> InDown(u)'
    BY DownElements
  <2>2. u \notin UnitsIn(inbox'["collector"])
    BY <1>1, <1>6 DEF Streams
  <2> QED
    BY <1>3, <1>4, <2>1, <2>2 DEF InLane, InDown
<1> QED
  BY <1>5, <1>6

\* A step that keeps a payload within its thread loses none.
LEMMA KeptLocal ==
  ASSUME NEW t \in Threads, NEW u, InLane(u),
         \A s \in Threads : s # t => inbox'[s] = inbox[s] /\ out'[s] = out[s],
         sent' = sent,
         UnitsIn(inbox[t]) \cup Carried(out[t]) \cup pending \cup skipped \cup uncollected
           \subseteq UnitsIn(inbox'[t]) \cup Carried(out'[t]) \cup pending' \cup skipped' \cup uncollected'
  PROVE  InLane(u)'
<1>1. CASE \E s \in Threads : s # t /\ (u \in UnitsIn(inbox[s]) \/ u \in Carried(out[s]))
  BY <1>1 DEF InLane
<1>2. CASE u \in sent
  BY <1>2 DEF InLane
<1>3. CASE u \in UnitsIn(inbox[t]) \cup Carried(out[t]) \cup pending \cup skipped \cup uncollected
  BY <1>3 DEF InLane
<1> QED
  BY <1>1, <1>2, <1>3 DEF InLane

\* A send loses no payload.
LEMMA KeptBySend ==
  ASSUME TypeOK, Control, NEW t \in Threads, SendSignal(t), NEW u, InLane(u)
  PROVE  InLane(u)'
<1> DEFINE m == Head(out[t]).signal
           to == Head(out[t]).to
<1>1. ~Idle(t)
  BY SendEffect
<1>2. m.units = Carried(out[t])
  BY <1>1, Names, CollectorSending, SplitterSending, ProfilerSending, FormatSending, ExpanderSending DEF Control
<1>3. /\ \A s \in Threads : s # t => out'[s] = out[s]
      /\ UNCHANGED <<uncollected, pending, skipped>>
      /\ to \in Threads \cup {"intake"} /\ m \in Signal
  BY SendEffect
<1>4. CASE to = "intake"
  <2>1. inbox' = inbox /\ sent' = sent \cup m.units
    BY <1>4, SendEffect
  <2> HIDE DEF m, to
  <2> QED
    BY <1>2, <1>3, <2>1 DEF InLane
<1>5. CASE to # "intake"
  <2>1. /\ inbox'[to] = Append(inbox[to], m) /\ sent' = sent
        /\ \A s \in Threads : s # to => inbox'[s] = inbox[s]
    BY <1>5, SendEffect
  <2>2. to \in Threads /\ inbox[to] \in Seq(Signal)
    BY <1>3, <1>5, Fns
  <2> HIDE DEF m, to
  <2>3. UnitsIn(inbox'[to]) = UnitsIn(inbox[to]) \cup m.units
    <3>1. UnitsIn(Append(inbox[to], m)) = UnitsIn(inbox[to]) \cup m.units
      BY <1>3, <2>2, AppendFacts
    <3> QED
      BY <2>1, <3>1
  <2>4. ASSUME NEW s \in Threads, u \in UnitsIn(inbox[s]) PROVE u \in UnitsIn(inbox'[s])
    <3>1. CASE s = to
      BY <2>3, <2>4, <3>1
    <3>2. CASE s # to
      BY <2>1, <2>4, <3>2
    <3> QED
      BY <3>1, <3>2
  <2>5. ASSUME u \in Carried(out[t]) PROVE u \in UnitsIn(inbox'[to])
    BY <1>2, <2>3, <2>5
  <2> QED
    BY <1>3, <2>1, <2>2, <2>4, <2>5 DEF InLane
<1> QED
  BY <1>4, <1>5

\* A receive whose batch is passed on loses no payload.
LEMMA KeptByReceive ==
  ASSUME TypeOK, NEW t \in Threads, NEW k, Receive(t, k), NEW u, InLane(u),
         \A s \in Threads : s # t => out'[s] = out[s],
         sent' = sent, uncollected' = uncollected,
         Received(t) \cup pending \cup skipped \subseteq Carried(out'[t]) \cup pending' \cup skipped'
  PROVE  InLane(u)'
<1>1. /\ \A s \in Threads : s # t => inbox'[s] = inbox[s]
      /\ UnitsIn(inbox[t]) = Received(t) \cup UnitsIn(inbox'[t])
      /\ out[t] = <<>>
  BY ReceiveEffect DEF Idle
<1>2. Carried(out[t]) = {}
  BY <1>1, CarriedFacts
<1> DEFINE a == UnitsIn(inbox[t])
           b == UnitsIn(inbox'[t])
           c == Carried(out'[t])
<1>3. a \cup Carried(out[t]) \cup pending \cup skipped \cup uncollected
        \subseteq b \cup c \cup pending' \cup skipped' \cup uncollected'
  BY <1>1, <1>2
<1> QED
  BY <1>1, <1>3, KeptLocal

\* Up to the profiler, and in the profiler, no payload is lost.
LEMMA KeptAbove ==
  ASSUME TypeOK, Control, Streams, NEW t \in Threads, ThreadStep(t), NEW u, InLane(u),
         \/ t = "collector" /\ CollectorStep
         \/ t = "splitter" /\ SplitterStep
         \/ t = "profiler" /\ ((\E f \in Formats : Profile(f)) \/ ProfileStop)
  PROVE  InLane(u)'
<1>0. /\ \A s \in Threads : s # t => out'[s] = out[s]
      /\ UNCHANGED <<pending, skipped, sent>>
      /\ t # "collector" => uncollected' = uncollected
  BY OwnCells
<1>1. CASE t = "collector" /\ CollectorStep
  <2>1. inbox' = inbox /\ out[t] = <<>>
    BY <1>1 DEF CollectorStep, Collect, CollectFails, CollectEnds, Ready
  <2>2. Carried(out[t]) = {}
    BY <2>1, CarriedFacts
  <2>3. uncollected \subseteq Carried(out'[t]) \cup uncollected'
    <3>1. ASSUME NEW p \in Payloads, Collect(p) PROVE uncollected \subseteq Carried(out'[t]) \cup uncollected'
      <4>1. out'[t] = <<Send("splitter", Data({p}))>> /\ uncollected' = uncollected \ {p}
        BY <1>1, <3>1, OutEffect DEF Collect
      <4>2. Carried(<<Send("splitter", Data({p}))>>) = {p}
        BY CarriedData
      <4> QED
        BY <4>1, <4>2
    <3> QED
      BY <1>1, <3>1 DEF CollectorStep, CollectFails, CollectEnds
  <2> QED
    BY <1>0, <2>1, <2>2, <2>3, KeptLocal
<1>2. CASE t = "splitter" /\ SplitData
  <2>1. Receive(t, "Data") /\ out'[t] = <<Send("profiler", Data(Received(t)))>>
    BY <1>2, OutEffect DEF SplitData
  <2>2. Carried(<<Send("profiler", Data(Received(t)))>>) = Received(t)
    BY CarriedData
  <2> QED
    BY <1>0, <1>2, <2>1, <2>2, KeptByReceive
<1>3. CASE t = "profiler" /\ \E f \in Formats : Profile(f)
  <2>1. PICK f \in Formats : Profile(f)
    BY <1>3
  <2>2. Receive(t, "Data") /\ out'[t] = <<Send(f, Data(Received(t)))>>
    BY <1>3, <2>1, OutEffect DEF Profile
  <2>3. Carried(<<Send(f, Data(Received(t)))>>) = Received(t)
    BY CarriedData
  <2> QED
    BY <1>0, <1>3, <2>2, <2>3, KeptByReceive
<1>4. CASE \/ t = "splitter" /\ (SplitError \/ SplitStop)
           \/ t = "profiler" /\ ProfileStop
  <2>1. PICK k \in {"Error", "Stop"} : Receive(t, k)
    BY <1>4 DEF SplitError, SplitStop, ProfileStop
  <2>2. Proper(inbox[t])
    BY <1>4 DEF Streams
  <2>3. Received(t) = {}
    BY <2>1, <2>2, ReceiveEffect
  <2> QED
    BY <1>0, <1>4, <2>1, <2>3, KeptByReceive
<1> QED
  BY <1>1, <1>2, <1>3, <1>4 DEF SplitterStep

\* Below the profiler, a payload that is lost is answered by an error.
LEMMA KeptBelow ==
  ASSUME TypeOK, Control, NEW t \in Threads, ThreadStep(t), NEW u, InLane(u),
         \/ t \in Formats /\ IngestorStep(t)
         \/ t = "expander" /\ \E bad, full \in SUBSET Payloads : Expand(bad, full)
         \/ t = "expander" /\ ExpandError
         \/ t = "expander" /\ ExpandDisconnected
  PROVE  ErrorComing' \/ InLane(u)'
<1>0. /\ \A s \in Threads : s # t => out'[s] = out[s]
      /\ t # "expander" => UNCHANGED <<pending, skipped, sent>>
      /\ uncollected' = uncollected
  BY OwnCells, Names
<1>1. CASE t \in Formats /\ Ingest(t)
  <2>1. Receive(t, "Data") /\ out'[t] = <<Send("expander", Data(Received(t)))>>
    BY <1>1, OutEffect DEF Ingest
  <2>2. Carried(<<Send("expander", Data(Received(t)))>>) = Received(t)
    BY CarriedData
  <2> QED
    BY <1>0, <1>1, <2>1, <2>2, KeptByReceive, Names
<1>2. ASSUME t \in Formats, NEW some \in BOOLEAN, IngestFails(t, some) PROVE ErrorComing'
  <2>1. out'[t] = (IF some THEN <<Send("expander", Data({}))>> ELSE <<>>) \o <<Send("expander", Error)>>
    BY <1>2, OutEffect DEF IngestFails
  <2>2. out'[t] = IF some THEN <<Send("expander", Data({})), Send("expander", Error)>> ELSE <<Send("expander", Error)>>
    BY <2>1, LastWords, Names
  <2>3. IngestorFailed(t)'
    BY <2>2 DEF IngestorFailed, Sends, SendsTwo
  <2> QED
    BY <1>2, <2>3 DEF ErrorComing
<1>3. ASSUME t = "expander", NEW bad \in SUBSET Payloads, NEW full \in SUBSET Payloads, Expand(bad, full)
      PROVE  InLane(u)'
  <2>1. Receive(t, "Data") /\ out'[t] = Flush(full)
    BY <1>3, OutEffect DEF Expand
  <2>2. Carried(out'[t]) = full
    <3>1. Carried(<<Send("intake", Data(full))>>) = full /\ Carried(<<>>) = {}
      BY CarriedData, CarriedFacts
    <3> QED
      BY <2>1, <3>1 DEF Flush
  <2>3. /\ pending' = (pending \cup (Received(t) \ bad)) \ full /\ skipped' = skipped \cup bad /\ sent' = sent
    BY <1>3 DEF Expand
  <2>4. Received(t) \cup pending \cup skipped \subseteq Carried(out'[t]) \cup pending' \cup skipped'
    BY <2>2, <2>3
  <2> QED
    BY <1>0, <2>1, <2>3, <2>4, KeptByReceive
<1>4. ASSUME t = "expander", ExpandError PROVE ErrorComing'
  <2>1. out'[t] = <<Send("intake", Error)>>
    BY <1>4, OutEffect DEF ExpandError
  <2> QED
    BY <1>4, <2>1 DEF ErrorComing, Sends
<1>5. CASE t = "expander" /\ ExpandDisconnected
  <2>1. /\ ExpandEnds /\ pending \in SUBSET Payloads /\ inbox' = inbox /\ out[t] = <<>>
    BY <1>5 DEF ExpandDisconnected, TypeOK, Ready
  <2>2. /\ out'[t] = Flush(pending) \o <<Send("intake", Stop)>>
        /\ skipped' = skipped /\ sent' = sent
    BY <1>5, <2>1, LeaveEffect DEF ExpandEnds, history
  <2>3. out'[t] = IF pending = {} THEN <<Send("intake", Stop)>>
                                 ELSE <<Send("intake", Data(pending)), Send("intake", Stop)>>
    BY <2>1, <2>2, LastWords
  <2>4. Carried(out'[t]) = pending /\ Carried(out[t]) = {}
    <3>1. /\ Carried(<<>>) = {} /\ Carried(<<Send("intake", Stop)>>) = {}
          /\ Carried(<<Send("intake", Data(pending)), Send("intake", Stop)>>) = pending
      BY CarriedFacts
    <3> QED
      BY <2>1, <2>3, <3>1
  <2> QED
    BY <1>0, <2>1, <2>2, <2>4, KeptLocal
<1> QED
  BY <1>1, <1>2, <1>3, <1>4, <1>5 DEF IngestorStep

\* No payload disappears but for an error that is on its way, or was handed over.
LEMMA PayloadKept ==
  ASSUME TypeOK, Control, Streams, Answerable, ~Excused, NEW t \in Threads, ThreadStep(t),
         NEW u, InLane(u)
  PROVE  Excused' \/ ErrorComing' \/ InLane(u)'
<1>1. CASE SendSignal(t)
  BY <1>1, KeptBySend
<1>2. CASE RecvDisconnected(t)
  <2>1. /\ out'[t] = out[t] /\ \A s \in Threads : s # t => out'[s] = out[s]
        /\ UNCHANGED <<inbox, uncollected, pending, sent, skipped>>
    BY <1>2, DisconnectEffect DEF Idle
  <2> QED
    BY <2>1, KeptLocal
<1>3. CASE Close(t) /\ inbox' = inbox /\ out' = out
  <2>1. UNCHANGED <<uncollected, pending, sent, skipped>>
    BY <1>3, CloseEffect
  <2> QED
    BY <1>3, <2>1, KeptLocal
<1> QED
  BY <1>1, <1>2, <1>3, AnswerableSteps, KeptAbove, KeptBelow

\* What the lane has to answer for stays answered for.
LEMMA AnswerableStep ==
  ASSUME TypeOK, Control, Streams, Answerable, ~Excused, NEW t \in Threads, ThreadStep(t)
  PROVE  Excused' \/ Answerable'
<1> SUFFICES ASSUME ~Excused' PROVE Answerable'
  OBVIOUS
<1>1. unprofiled' = {}
  <2>1. CASE t # "profiler"
    BY <2>1, OwnCells DEF Answerable
  <2>2. CASE t = "profiler"
    <3>1. CASE SendSignal(t) \/ RecvDisconnected(t) \/ Close(t)
      BY <3>1, SendEffect, DisconnectEffect, CloseEffect DEF Answerable
    <3>2. CASE (\E f \in Formats : Profile(f)) \/ ProfileStop
      BY <3>2 DEF Profile, ProfileStop, history, Answerable
    <3> QED
      BY <2>2, <3>1, <3>2, AnswerableSteps, Names
  <2> QED
    BY <2>1, <2>2
<1>2. ErrorComing' \/ (Payloads \subseteq uncollected \cup Collected)'
  <2>1. CASE ErrorComing
    BY <2>1, ErrorComingStep
  <2>2. ASSUME Payloads \subseteq uncollected \cup Collected, ~ErrorComing'
        PROVE  (Payloads \subseteq uncollected \cup Collected)'
    <3>1. Streams'
      BY StreamsStep
    <3>2. ASSUME NEW u \in Payloads PROVE u \in (uncollected \cup Collected)'
      <4>1. InLane(u)
        BY <2>2, LaneElements
      <4>2. InLane(u)'
        BY <2>2, <4>1, PayloadKept
      <4> QED
        BY <3>1, <4>2, LaneElements
    <3> QED
      BY <3>2
  <2> QED
    BY <2>1, <2>2 DEF Answerable
<1>3. CollectorOver' /\ SplitterOver' /\ ProfilerOver' /\ ExpanderOver'
  BY CollectorOverStep, SplitterOverStep, ProfilerOverStep, ExpanderOverStep
<1>4. ASSUME NEW f \in Formats PROVE FormatOver(f)'
  BY FormatOverStep
<1> QED
  BY <1>1, <1>2, <1>3, <1>4 DEF Answerable

-----------------------------------------------------------------------------
\* The invariant.

\* Every step of the lane and of its surroundings keeps the invariant.
LEMMA LaneInvStep ==
  ASSUME LaneInv, [Next]_vars
  PROVE  LaneInv'
<1>0. TypeOK /\ Control /\ Streams /\ Unique /\ (Excused \/ Answerable)
  BY DEF LaneInv
<1>1. ASSUME NEW t \in Threads, ThreadStep(t) PROVE LaneInv'
  <2>1. TypeOK' /\ Control' /\ Streams' /\ Unique'
    BY <1>0, <1>1, TypeStep, ControlStep, StreamsStep, UniqueStep DEF Next
  <2>2. Excused' \/ Answerable'
    BY <1>0, <1>1, ExcusedStep, AnswerableStep
  <2> QED
    BY <2>1, <2>2 DEF LaneInv
<1>2. ASSUME UNCHANGED <<pc, inbox, out, uncollected, pending, history>>, TypeOK',
             (Excused \/ Answerable) => (Excused' \/ Answerable')
      PROVE  LaneInv'
  <2>1. UNCHANGED <<pc, inbox, out, uncollected, pending, sent, skipped, unprofiled, errorSent, stopSent>>
    BY <1>2 DEF history
  <2>2. Control'
    BY <1>0, <2>1 DEF Control, CollectorOut, SplitterOut, ProfilerOut, ExpanderOut, FormatOut, Idle, Running,
       Sends, SendsTwo
  <2>3. Streams'
    BY <1>0, <2>1 DEF Streams, Running, Idle
  <2>4. Unique'
    BY <1>0, <2>1 DEF Unique, Collected, FromSplitter, PastSplitter, FromProfiler, Down, Queued, Leaving
  <2> QED
    BY <1>0, <1>2, <2>2, <2>3, <2>4 DEF LaneInv
<1>3. CASE Cancel \/ CloseIntake
  <2>1. TypeOK' /\ Excused' /\ UNCHANGED <<pc, inbox, out, uncollected, pending, history>>
    BY <1>0, <1>3, TypeSettings DEF Cancel, CloseIntake, Excused
  <2> QED
    BY <1>2, <2>1
<1>4. CASE UNCHANGED vars
  <2>1. /\ UNCHANGED <<cancel, open, pc, inbox, out, uncollected, pending, history>>
        /\ UNCHANGED <<cancel, open, pc, inbox, out, uncollected, pending, sent, skipped, unprofiled, errorSent, stopSent>>
    BY <1>4 DEF vars, history
  <2>2. TypeOK'
    BY <1>0, <1>4, TypeStep
  <2>3. Excused => Excused'
    BY <2>1 DEF Excused, Owes, Idle
  <2>4. Answerable => Answerable'
    BY <2>1 DEF Answerable, CollectorOver, SplitterOver, ProfilerOver, ExpanderOver, FormatOver, ErrorComing,
       IngestorFailed, SplitterFailed, Idle, Running, Sends, SendsTwo, Collected, FromSplitter, PastSplitter,
       FromProfiler, Down, Queued, Leaving
  <2> QED
    BY <1>2, <2>1, <2>2, <2>3, <2>4
<1> QED
  BY <1>1, <1>3, <1>4 DEF Next

\* A lane starts with every payload still to be collected.
LEMMA LaneInvInit ==
  ASSUME Init
  PROVE  LaneInv
<1>1. TypeOK
  BY TypeInit
<1>2. /\ \A t \in Threads : Running(t) /\ Idle(t) /\ inbox[t] = <<>>
      /\ uncollected = Payloads /\ pending = {} /\ sent = {} /\ skipped = {} /\ unprofiled = {} /\ ~stopSent
  BY DEF Init, Running, Idle
<1>3. Control
  <2>1. \A t \in Threads : pc[t] # "done"
    BY DEF Init
  <2> QED
    BY <1>2, <2>1, Names DEF Control, CollectorOut, SplitterOut, ProfilerOut, ExpanderOut, FormatOut
<1>4. Streams
  BY <1>2, EmptyFacts, Names DEF Streams
<1>5. \A t \in Threads : UnitsIn(inbox[t]) = {} /\ Carried(out[t]) = {}
  BY <1>2, EmptyFacts, CarriedFacts DEF Idle
<1>6. Collected = {}
  <2>1. ASSUME NEW u PROVE u \notin Down
    BY <1>2, <1>5, DownElements, Names DEF InDown
  <2> QED
    BY <2>1, <1>5, Names DEF Collected, FromSplitter, PastSplitter, FromProfiler
<1>7. Unique
  BY <1>2, <1>5, <1>6, EmptyFacts, Names DEF Unique, Collected, FromSplitter, PastSplitter, FromProfiler
<1>8. Answerable
  BY <1>2, Names DEF Answerable, CollectorOver, SplitterOver, ProfilerOver, ExpanderOver, FormatOver
<1> QED
  BY <1>1, <1>3, <1>4, <1>7, <1>8 DEF LaneInv

\* Unless the run was cancelled, the intake closed, an error handed over or a profiling
\* error is owed, every payload of the input is still in the lane, handed over or
\* skipped, or an ingestor's error is on its way; and no payload reaches the profiler
\* twice (phase1.rs, profiler.rs, ingestor.rs, expander.rs).
THEOREM LaneInvariant == Spec => []LaneInv
BY LaneInvInit, LaneInvStep, PTL DEF Spec

-----------------------------------------------------------------------------
\* The contract.

\* What the contract sees of a lane.
Status == IF stopSent THEN "stopped"
          ELSE IF ~Running("expander") /\ Idle("expander") THEN "gone"
          ELSE "open"
Complete == Payloads = sent \cup skipped
LaneView(s, c, f, o) == [status |-> s, complete |-> c, failed |-> f, owes |-> o]

ContractStep == [Contract!Surroundings \/ Contract!LaneStep]_(Contract!laneVars)

\* How each step the contract allows changes the parts of a lane's view.
StepsByParts(s, c, f, o, sn, cn, fn, on, z, l, m) ==
  /\ s = "open" /\ sn = s /\ (c => cn) /\ fn = f /\ on = o => Contract!HandsOverData(l, m)
  /\ s = "open" /\ sn = s /\ cn /\ fn = f /\ on = o => Contract!SkipsRest(l, m)
  /\ (s = "open" \/ z \/ f \/ o) /\ sn = s /\ cn = c /\ fn /\ on = o => Contract!HandsOverError(l, m, z)
  /\ ~c /\ sn = s /\ cn = c /\ fn = f /\ on => Contract!FailsProfiling(l, m)
  /\ o /\ sn = s /\ cn = c /\ fn /\ ~on => Contract!HandsOverOwed(l, m)
  /\ s = "open" /\ (c \/ f \/ o \/ z) /\ sn = "stopped" /\ cn = c /\ fn = f /\ on = o
       => Contract!HandsOverStop(l, m, z)
  /\ s = "open" /\ sn = "gone" /\ cn = c /\ fn = f /\ on = o => Contract!GivesUp(l, m)
  /\ o /\ sn = s /\ cn = c /\ fn = f /\ ~on => Contract!GivesUp(l, m)

\* The steps of the contract, by what they do to a lane's state.
LEMMA ViewSteps ==
  ASSUME NEW s, NEW c \in BOOLEAN, NEW f \in BOOLEAN, NEW o \in BOOLEAN,
         NEW sn, NEW cn \in BOOLEAN, NEW fn \in BOOLEAN, NEW on \in BOOLEAN, NEW z \in BOOLEAN,
         NEW l, l = LaneView(s, c, f, o), NEW m, m = LaneView(sn, cn, fn, on)
  PROVE  StepsByParts(s, c, f, o, sn, cn, fn, on, z, l, m)
<1>0. /\ l.status = s /\ l.complete = c /\ l.failed = f /\ l.owes = o
      /\ \A x : [l EXCEPT !.status = x] = LaneView(x, c, f, o)
      /\ \A x : [l EXCEPT !.complete = x] = LaneView(s, x, f, o)
      /\ \A x : [l EXCEPT !.failed = x] = LaneView(s, c, x, o)
      /\ \A x : [l EXCEPT !.owes = x] = LaneView(s, c, f, x)
      /\ \A x, y : [l EXCEPT !.owes = x, !.failed = y] = LaneView(s, c, y, x)
  <2>1. l.status = s /\ l.complete = c /\ l.failed = f /\ l.owes = o
    BY DEF LaneView
  <2>2. ASSUME NEW x PROVE [l EXCEPT !.status = x] = LaneView(x, c, f, o)
    BY DEF LaneView
  <2>3. ASSUME NEW x PROVE [l EXCEPT !.complete = x] = LaneView(s, x, f, o)
    BY DEF LaneView
  <2>4. ASSUME NEW x PROVE [l EXCEPT !.failed = x] = LaneView(s, c, x, o)
    BY DEF LaneView
  <2>5. ASSUME NEW x PROVE [l EXCEPT !.owes = x] = LaneView(s, c, f, x)
    BY DEF LaneView
  <2>6. ASSUME NEW x, NEW y PROVE [l EXCEPT !.owes = x, !.failed = y] = LaneView(s, c, y, x)
    <3> DEFINE k == LaneView(s, c, f, x)
    <3>1. [k EXCEPT !.failed = y] = LaneView(s, c, y, x)
      BY DEF LaneView
    <3>2. [l EXCEPT !.owes = x, !.failed = y] = [[l EXCEPT !.owes = x] EXCEPT !.failed = y]
      OBVIOUS
    <3> QED
      BY <2>5, <3>1, <3>2
  <2> QED
    BY <2>1, <2>2, <2>3, <2>4, <2>5, <2>6
<1>1. ASSUME s = "open", sn = s, c => cn, fn = f, on = o PROVE Contract!HandsOverData(l, m)
  <2>1. cn = c \/ cn = TRUE
    BY <1>1
  <2>2. CASE cn = c
    <3>1. m = l
      BY <1>1, <2>2
    <3> QED
      BY <1>0, <1>1, <3>1 DEF Contract!HandsOverData
  <2>3. CASE cn = TRUE
    <3>1. m = [l EXCEPT !.complete = TRUE]
      BY <1>1, <2>3, <1>0
    <3> QED
      BY <1>0, <1>1, <3>1 DEF Contract!HandsOverData
  <2> QED
    BY <2>1, <2>2, <2>3
<1>2. ASSUME s = "open", sn = s, cn, fn = f, on = o PROVE Contract!SkipsRest(l, m)
  <2>1. cn = TRUE
    BY <1>2
  <2>2. m = [l EXCEPT !.complete = TRUE]
    BY <1>2, <2>1, <1>0
  <2> QED
    BY <1>0, <1>2, <2>2 DEF Contract!SkipsRest
<1>3. ASSUME s = "open" \/ z \/ f \/ o, sn = s, cn = c, fn, on = o PROVE Contract!HandsOverError(l, m, z)
  <2>1. fn = TRUE
    BY <1>3
  <2>2. m = [l EXCEPT !.failed = TRUE]
    BY <1>3, <2>1, <1>0
  <2> QED
    BY <1>0, <1>3, <2>2 DEF Contract!HandsOverError
<1>4. ASSUME ~c, sn = s, cn = c, fn = f, on PROVE Contract!FailsProfiling(l, m)
  <2>1. on = TRUE
    BY <1>4
  <2>2. m = [l EXCEPT !.owes = TRUE]
    BY <1>4, <2>1, <1>0
  <2> QED
    BY <1>0, <1>4, <2>2 DEF Contract!FailsProfiling
<1>5. ASSUME o, sn = s, cn = c, fn, ~on PROVE Contract!HandsOverOwed(l, m)
  <2>1. fn = TRUE /\ on = FALSE
    BY <1>5
  <2>2. [l EXCEPT !.owes = FALSE, !.failed = TRUE] = LaneView(s, c, TRUE, FALSE)
    BY <1>0, Zenon
  <2>3. m = [l EXCEPT !.owes = FALSE, !.failed = TRUE]
    BY <1>5, <2>1, <2>2
  <2> QED
    BY <1>0, <1>5, <2>3 DEF Contract!HandsOverOwed
<1>6. ASSUME s = "open", c \/ f \/ o \/ z, sn = "stopped", cn = c, fn = f, on = o
      PROVE  Contract!HandsOverStop(l, m, z)
  <2>1. m = [l EXCEPT !.status = "stopped"]
    BY <1>6, <1>0
  <2> QED
    BY <1>0, <1>6, <2>1 DEF Contract!HandsOverStop
<1>7. ASSUME s = "open", sn = "gone", cn = c, fn = f, on = o PROVE Contract!GivesUp(l, m)
  <2>1. m = [l EXCEPT !.status = "gone"]
    BY <1>7, <1>0
  <2> QED
    BY <1>0, <1>7, <2>1 DEF Contract!GivesUp
<1>8. ASSUME o, sn = s, cn = c, fn = f, ~on PROVE Contract!GivesUp(l, m)
  <2>1. on = FALSE
    BY <1>8
  <2>2. m = [l EXCEPT !.owes = FALSE]
    BY <1>8, <2>1, <1>0
  <2> QED
    BY <1>0, <1>8, <2>2 DEF Contract!GivesUp
<1> QED
  BY <1>1, <1>2, <1>3, <1>4, <1>5, <1>6, <1>7, <1>8 DEF StepsByParts

\* The steps the contract allows, in terms of the lane.
LEMMA ContractSteps ==
  ASSUME TypeOK, TypeOK', UNCHANGED <<cancel, open>>,
         \/ UNCHANGED <<Status, Complete, errorSent, Owes>>
         \/ /\ open /\ Status = "open" /\ (Complete => Complete') /\ UNCHANGED <<Status, errorSent, Owes>>
         \/ /\ open /\ (Status = "open" \/ cancel \/ errorSent \/ Owes)
            /\ errorSent' /\ UNCHANGED <<Status, Complete, Owes>>
         \/ /\ open /\ Owes /\ errorSent' /\ ~Owes' /\ UNCHANGED <<Status, Complete>>
         \/ /\ open /\ Status = "open" /\ (Complete \/ errorSent \/ Owes \/ cancel)
            /\ Status' = "stopped" /\ UNCHANGED <<Complete, errorSent, Owes>>
         \/ /\ Status = "open" /\ Complete' /\ UNCHANGED <<Status, errorSent, Owes>>
         \/ /\ ~Complete /\ Owes' /\ UNCHANGED <<Status, Complete, errorSent>>
         \/ /\ ~open /\ Status = "open" /\ Status' = "gone" /\ UNCHANGED <<Complete, errorSent, Owes>>
         \/ /\ ~open /\ Owes /\ ~Owes' /\ UNCHANGED <<Status, Complete, errorSent>>
  PROVE  ContractStep
<1> DEFINE l == LaneView(Status, Complete, errorSent, Owes)
           m == LaneView(Status', Complete', errorSent', Owes')
<1>1. l = [status   |-> IF stopSent THEN "stopped"
                        ELSE IF pc["expander"] # "run" /\ out["expander"] = <<>> THEN "gone"
                        ELSE "open",
           complete |-> Payloads = sent \cup skipped,
           failed   |-> errorSent,
           owes     |-> unprofiled # {} /\ out["profiler"] # <<>>]
  BY DEF LaneView, Status, Complete, Owes, Idle, Running
<1>2. m = [status   |-> IF stopSent THEN "stopped"
                        ELSE IF pc["expander"] # "run" /\ out["expander"] = <<>> THEN "gone"
                        ELSE "open",
           complete |-> Payloads = sent \cup skipped,
           failed   |-> errorSent,
           owes     |-> unprofiled # {} /\ out["profiler"] # <<>>]'
  BY DEF LaneView, Status, Complete, Owes, Idle, Running
<1>3. /\ Complete \in BOOLEAN /\ errorSent \in BOOLEAN /\ Owes \in BOOLEAN
      /\ Complete' \in BOOLEAN /\ errorSent' \in BOOLEAN /\ Owes' \in BOOLEAN
  BY DEF Complete, Owes, TypeOK
<1> SUFFICES \/ l = m
             \/ open /\ Contract!HandsOverData(l, m)
             \/ open /\ Contract!HandsOverError(l, m, cancel)
             \/ open /\ Contract!HandsOverOwed(l, m)
             \/ open /\ Contract!HandsOverStop(l, m, cancel)
             \/ Contract!SkipsRest(l, m)
             \/ Contract!FailsProfiling(l, m)
             \/ ~open /\ Contract!GivesUp(l, m)
  BY <1>1, <1>2 DEF ContractStep, Contract!LaneStep, Contract!laneVars
<1> HIDE DEF l, m
<1>4a. PICK s : s = Status
  OBVIOUS
<1>4b. PICK sn : sn = Status'
  OBVIOUS
<1>4c. PICK c \in BOOLEAN : c = Complete
  BY <1>3
<1>4d. PICK cn \in BOOLEAN : cn = Complete'
  BY <1>3
<1>4e. PICK f \in BOOLEAN : f = errorSent
  BY <1>3
<1>4f. PICK fn \in BOOLEAN : fn = errorSent'
  BY <1>3
<1>4g. PICK o \in BOOLEAN : o = Owes
  BY <1>3
<1>4h. PICK on \in BOOLEAN : on = Owes'
  BY <1>3
<1>4i. PICK z \in BOOLEAN : z = cancel
  BY DEF TypeOK
<1>4. /\ s = Status /\ c = Complete /\ f = errorSent /\ o = Owes
      /\ sn = Status' /\ cn = Complete' /\ fn = errorSent' /\ on = Owes' /\ z = cancel
  BY <1>4a, <1>4b, <1>4c, <1>4d, <1>4e, <1>4f, <1>4g, <1>4h, <1>4i
<1>5. l = LaneView(s, c, f, o) /\ m = LaneView(sn, cn, fn, on)
  BY <1>4 DEF l, m
<1>6. \/ sn = s /\ cn = c /\ fn = f /\ on = o
      \/ open /\ s = "open" /\ (c => cn) /\ sn = s /\ fn = f /\ on = o
      \/ open /\ (s = "open" \/ z \/ f \/ o) /\ fn /\ sn = s /\ cn = c /\ on = o
      \/ open /\ o /\ fn /\ ~on /\ sn = s /\ cn = c
      \/ open /\ s = "open" /\ (c \/ f \/ o \/ z) /\ sn = "stopped" /\ cn = c /\ fn = f /\ on = o
      \/ s = "open" /\ cn /\ sn = s /\ fn = f /\ on = o
      \/ ~c /\ on /\ sn = s /\ cn = c /\ fn = f
      \/ ~open /\ s = "open" /\ sn = "gone" /\ cn = c /\ fn = f /\ on = o
      \/ ~open /\ o /\ ~on /\ sn = s /\ cn = c /\ fn = f
  BY <1>4
<1>7. z = cancel
  BY <1>4
<1>8. /\ s = "open" /\ sn = s /\ (c => cn) /\ fn = f /\ on = o => Contract!HandsOverData(l, m)
      /\ s = "open" /\ sn = s /\ cn /\ fn = f /\ on = o => Contract!SkipsRest(l, m)
      /\ (s = "open" \/ z \/ f \/ o) /\ sn = s /\ cn = c /\ fn /\ on = o => Contract!HandsOverError(l, m, z)
      /\ ~c /\ sn = s /\ cn = c /\ fn = f /\ on => Contract!FailsProfiling(l, m)
      /\ o /\ sn = s /\ cn = c /\ fn /\ ~on => Contract!HandsOverOwed(l, m)
      /\ s = "open" /\ (c \/ f \/ o \/ z) /\ sn = "stopped" /\ cn = c /\ fn = f /\ on = o
           => Contract!HandsOverStop(l, m, z)
      /\ s = "open" /\ sn = "gone" /\ cn = c /\ fn = f /\ on = o => Contract!GivesUp(l, m)
      /\ o /\ sn = s /\ cn = c /\ fn = f /\ ~on => Contract!GivesUp(l, m)
  <2>1. StepsByParts(s, c, f, o, sn, cn, fn, on, z, l, m)
    BY <1>5, ViewSteps
  <2> QED
    BY <2>1 DEF StepsByParts
<1>9. sn = s /\ cn = c /\ fn = f /\ on = o => l = m
  BY <1>5
<1> QED
  BY <1>6, <1>7, <1>8, <1>9

\* What of the contract's view a thread cannot touch.
LEMMA ViewCells ==
  ASSUME TypeOK, Control, NEW t \in Threads, ThreadStep(t)
  PROVE  /\ UNCHANGED <<cancel, open>>
         /\ t # "expander" => UNCHANGED <<Status, Complete>>
         /\ t # "profiler" => UNCHANGED Owes
         /\ ~SendSignal(t) => UNCHANGED errorSent
<1>1. CASE SendFails(t) \/ RecvDisconnected(t) \/ Close(t)
  BY <1>1, SendFailsEffect, DisconnectEffect, CloseEffect, OwnCells, Names DEF Status, Complete, Owes, Running, Idle
<1>2. ~SendSignal(t) => UNCHANGED errorSent
  BY <1>1 DEF ThreadStep, CollectorStep, Collect, CollectFails, CollectEnds,
     SplitterStep, SplitData, SplitError, SplitStop, ProfilerStep, Profile, ProfileFails, ProfileStop,
     IngestorStep, Ingest, IngestFails, ExpanderStep, Expand, ExpandError, ExpandCancelled,
     ExpandDisconnected, ExpandEnds, history
<1>3. t # "expander" => UNCHANGED <<Status, Complete>>
  BY OwnCells, Names DEF Status, Complete, Running, Idle
<1>4. t # "profiler" => UNCHANGED Owes
  BY OwnCells, Names DEF Owes, Idle
<1> QED
  BY <1>2, <1>3, <1>4, OwnCells

\* The splitter hands over the collector's error before the lane's Stop.
LEMMA SplitterContract ==
  ASSUME LaneInv, TypeOK', ThreadStep("splitter")
  PROVE  ContractStep
<1> DEFINE c == "splitter"
<1>0. c \in Threads /\ c # "expander" /\ c # "profiler" /\ TypeOK /\ Control /\ (Excused \/ Answerable)
  BY Names DEF LaneInv
<1>1. UNCHANGED <<cancel, open, Status, Complete, Owes>> /\ (~SendSignal(c) => UNCHANGED errorSent)
  BY <1>0, ViewCells
<1>2. CASE UNCHANGED errorSent
  BY <1>0, <1>1, <1>2, ContractSteps
<1>3. CASE SendSignal(c) /\ ~UNCHANGED errorSent
  <2>1. ~Idle(c)
    BY <1>0, <1>3, SendEffect
  <2>2. Head(out[c]).to = "intake"
    BY <1>0, <1>3, SendEffect
  <2>3. Head(out[c]).signal = Error
    BY <1>0, <2>1, <2>2, SplitterSending DEF Control
  <2>4. errorSent' = (errorSent \/ Error.kind = "Error") /\ ~Closed("intake")
    BY <1>0, <1>3, <2>2, <2>3, SendEffect
  <2>5. errorSent' /\ open
    BY <2>4, SignalFacts DEF Closed
  <2>6. Status = "open" \/ cancel \/ errorSent \/ Owes
    <3>1. CASE Excused
      BY <2>5, <3>1 DEF Excused
    <3>2. CASE Answerable
      <4>1. Running("profiler")
        BY <2>1, <3>2 DEF Answerable, ProfilerOver
      <4>2. PICK f \in Formats : TRUE
        BY LaneAssumption
      <4>3. pc[f] = "run"
        BY <3>2, <4>1, <4>2 DEF Answerable, FormatOver, Running
      <4>4. Running("expander")
        BY <3>2, <4>3 DEF Answerable, ExpanderOver
      <4>5. ~stopSent
        BY <1>0, <4>4 DEF Control, ExpanderOut
      <4> QED
        BY <4>4, <4>5 DEF Status
    <3> QED
      BY <1>0, <3>1, <3>2
  <2> QED
    BY <1>0, <1>1, <2>5, <2>6, ContractSteps
<1> QED
  BY <1>1, <1>2, <1>3

\* The profiler owes an error for the payloads it cannot profile, and hands it over.
LEMMA ProfilerContract ==
  ASSUME LaneInv, TypeOK', ThreadStep("profiler")
  PROVE  ContractStep
<1> DEFINE c == "profiler"
<1>0. c \in Threads /\ c # "expander" /\ c \notin Formats /\ TypeOK /\ Control /\ Streams /\ Unique
  BY Names DEF LaneInv
<1>1. UNCHANGED <<cancel, open, Status, Complete>> /\ (~SendSignal(c) => UNCHANGED errorSent)
  BY <1>0, ViewCells
<1>2. ASSUME UNCHANGED errorSent, ~Owes, ~Owes' PROVE ContractStep
  <2>1. Owes' = Owes
    BY <1>2 DEF Owes
  <2> QED
    BY <1>0, <1>1, <1>2, <2>1, ContractSteps
<1>3. ASSUME ~Idle(c), Head(out[c]).to # "intake" PROVE unprofiled = {}
  BY <1>0, <1>3, ProfilerSending DEF Control
<1>4. ASSUME ~Idle(c), Head(out[c]).to = "intake"
      PROVE  Owes /\ Head(out[c]).signal = Error /\ Tail(out[c]) = <<>>
  BY <1>0, <1>4, ProfilerSending, Names DEF Control, Owes
<1>5. CASE SendSignal(c)
  <2>1. ~Idle(c) /\ unprofiled' = unprofiled
    BY <1>0, <1>5, SendEffect
  <2>2. CASE Head(out[c]).to # "intake"
    <3>1. errorSent' = errorSent
      BY <1>0, <1>5, <2>2, SendEffect
    <3> QED
      BY <1>2, <1>3, <2>1, <2>2, <3>1 DEF Owes
  <2>3. CASE Head(out[c]).to = "intake"
    <3>1. Owes /\ Head(out[c]).signal = Error /\ Tail(out[c]) = <<>>
      BY <1>4, <2>1, <2>3
    <3> DEFINE m == Head(out[c]).signal
    <3>1a. out'[c] = Tail(out[c]) /\ errorSent' = (errorSent \/ m.kind = "Error") /\ ~Closed("intake")
      BY <1>0, <1>5, <2>3, SendEffect
    <3>2. out'[c] = <<>> /\ errorSent' = (errorSent \/ Error.kind = "Error") /\ ~Closed("intake")
      BY <3>1, <3>1a
    <3>3. ~Owes' /\ errorSent' /\ open
      BY <3>2, SignalFacts DEF Owes, Idle, Closed
    <3> QED
      BY <1>0, <1>1, <3>1, <3>3, ContractSteps
  <2> QED
    BY <2>2, <2>3
<1>6. CASE SendFails(c)
  <2>1. ~Idle(c) /\ Closed(Head(out[c]).to) /\ out'[c] = <<>> /\ errorSent' = errorSent
    BY <1>0, <1>6, SendFailsEffect
  <2>2. ~Owes'
    BY <2>1 DEF Owes, Idle
  <2>3. CASE Head(out[c]).to # "intake"
    BY <1>2, <1>3, <2>1, <2>2, <2>3 DEF Owes
  <2>4. CASE Head(out[c]).to = "intake"
    <3>1. Owes /\ ~open
      BY <1>4, <2>1, <2>4 DEF Closed
    <3> QED
      BY <1>0, <1>1, <2>1, <2>2, <3>1, ContractSteps
  <2> QED
    BY <2>3, <2>4
<1>7. CASE RecvDisconnected(c) \/ Close(c) \/ ProfileStop
  <2>1. out[c] = <<>> /\ out'[c] = <<>> /\ errorSent' = errorSent
    <3>1. CASE RecvDisconnected(c)
      BY <1>0, <3>1, DisconnectEffect DEF Idle
    <3>2. CASE Close(c)
      BY <1>0, <3>2, CloseEffect DEF Idle
    <3>3. CASE ProfileStop
      BY <1>0, <3>3, LeaveEffect DEF ProfileStop, Receive, Ready, history
    <3> QED
      BY <1>7, <3>1, <3>2, <3>3
  <2> QED
    BY <1>2, <2>1 DEF Owes, Idle
<1>8. ASSUME NEW f \in Formats, Profile(f) PROVE ContractStep
  <2>1. unprofiled = {} /\ unprofiled' = unprofiled /\ errorSent' = errorSent
    BY <1>0, <1>8 DEF Profile, Receive, Ready, history, Control, ProfilerOut, Running
  <2> QED
    BY <1>2, <2>1 DEF Owes
<1>9. CASE ProfileFails
  <2>1. inbox[c] \in Seq(Signal) /\ inbox[c] # <<>> /\ Head(inbox[c]).kind = "Data" /\ Proper(inbox[c])
    BY <1>0, <1>9, Fns DEF ProfileFails, Streams
  <2>2. /\ Received(c) # {} /\ Received(c) \subseteq UnitsIn(inbox[c]) /\ Received(c) \subseteq Payloads
    BY <2>1, HeadTailFacts DEF Received
  <2>3. out'[c] = <<Send("intake", Error)>> /\ unprofiled' # {} /\ errorSent' = errorSent
    BY <1>0, <1>9, <2>2, LeaveEffect DEF ProfileFails
  <2>4. Owes'
    BY <2>3, ShortFacts DEF Owes, Idle
  <2>5. UnitsIn(inbox[c]) \cap (sent \cup skipped) = {}
    BY <1>0 DEF Unique, Down
  <2>6. ~Complete
    BY <2>2, <2>5 DEF Complete
  <2> QED
    BY <1>0, <1>1, <2>3, <2>4, <2>6, ContractSteps
<1> QED
  BY <1>0, <1>5, <1>6, <1>7, <1>8, <1>9 DEF ThreadStep, ProfilerStep

\* A Stop that answers for every payload: everything was handed over or skipped.
LEMMA StopIsComplete ==
  ASSUME LaneInv, Answerable, Sends("expander", "intake", Stop), ~Running("expander")
  PROVE  Complete
<1>0. TypeOK /\ Control /\ Streams
  BY DEF LaneInv
<1>1. pending = {} /\ inbox["expander"] = <<>> /\ \A f \in Formats : pc[f] = "done"
  BY DEF Answerable, ExpanderOver
<1>2. \A f \in Formats : ~Running(f) /\ Idle(f) /\ inbox[f] = <<>>
  BY <1>0, <1>1, Names DEF Control, Answerable, FormatOver, Running
<1>3. ~Running("profiler")
  BY <1>2, LaneAssumption DEF Answerable, FormatOver
<1>4. ~Running("splitter") /\ Idle("splitter") /\ Idle("profiler") /\ inbox["profiler"] = <<>>
  BY <1>3 DEF Answerable, ProfilerOver
<1>5. Idle("collector") /\ uncollected = {} /\ inbox["splitter"] = <<>>
  BY <1>4, ShapeFacts DEF Answerable, SplitterOver, SplitterFailed
<1>6a. Head(out["expander"]).signal = Stop /\ Carried(out["expander"]) = Stop.units
  BY SendsFacts
<1>6. ~ErrorComing
  <2>1. \A f \in Formats : ~IngestorFailed(f)
    BY <1>2, ShapeFacts
  <2>2. ~Holds(inbox["expander"], "Error")
    BY <1>1, EmptyFacts
  <2>3. ~Sends("expander", "intake", Error)
    <3>1. Head(out["expander"]).signal = Stop /\ Stop.kind = "Stop" /\ Error.kind = "Error"
      BY <1>6a, SignalFacts
    <3> QED
      BY <3>1, SendsFacts
  <2> QED
    BY <2>1, <2>2, <2>3 DEF ErrorComing
<1>7. Carried(out["expander"]) = {}
  BY <1>6a, SignalFacts
<1>8. \A s \in Threads : inbox[s] = <<>> /\ (s # "expander" => out[s] = <<>>)
  BY <1>0, <1>1, <1>2, <1>4, <1>5, Names DEF Idle, Streams
<1>9. \A s \in Threads : UnitsIn(inbox[s]) = {} /\ Carried(out[s]) = {}
  BY <1>7, <1>8, EmptyFacts, CarriedFacts
<1>10. ASSUME NEW u \in Payloads PROVE u \in sent \cup skipped
  <2>1. InLane(u)
    BY <1>0, <1>6, LaneElements DEF Answerable
  <2> QED
    BY <1>1, <1>5, <1>9, <2>1 DEF InLane
<1>11. sent \subseteq Payloads /\ skipped \subseteq Payloads
  BY <1>0 DEF TypeOK
<1> QED
  BY <1>10, <1>11 DEF Complete

\* What the expander hands over.
LEMMA ExpanderSends ==
  ASSUME LaneInv, TypeOK', SendSignal("expander")
  PROVE  ContractStep
<1> DEFINE c == "expander"
           m == Head(out[c]).signal
<1>0. c \in Threads /\ TypeOK /\ Control /\ ThreadStep(c) /\ (Excused \/ Answerable)
  BY Names DEF LaneInv, ThreadStep
<1>1. ~Idle(c)
  BY <1>0, SendEffect
<1>2. ~stopSent /\ Head(out[c]).to = "intake"
  BY <1>0, <1>1, ExpanderSending DEF Control
<1>3. /\ UNCHANGED <<cancel, open, Owes, pc, skipped>> /\ out'[c] = Tail(out[c])
      /\ ~Closed("intake") /\ sent' = sent \cup m.units
      /\ errorSent' = (errorSent \/ m.kind = "Error") /\ stopSent' = (stopSent \/ m.kind = "Stop")
  BY <1>0, <1>2, ViewCells, SendEffect
<1>4. open /\ Status = "open"
  BY <1>1, <1>2, <1>3 DEF Closed, Status
<1>5. \/ Running(c) /\ m.kind = "Data"
      \/ Running(c) /\ m = Error
      \/ ~Running(c) /\ m = Stop /\ Sends(c, "intake", Stop)
      \/ ~Running(c) /\ m.kind = "Data" /\ Tail(out[c]) = <<Send("intake", Stop)>>
  BY <1>0, <1>1, ExpanderSending DEF Control
<1> HIDE DEF m
<1>6. CASE m.kind = "Data"
  <2>1. errorSent' = errorSent /\ stopSent' = stopSent
    BY <1>0, <1>3, <1>6 DEF TypeOK
  <2>2. Running(c) \/ out'[c] = <<Send("intake", Stop)>>
    BY <1>3, <1>5, <1>6, SignalFacts
  <2>3. Running(c)' \/ ~Idle(c)'
    BY <1>3, <2>2, ShortFacts DEF Running, Idle
  <2>4. Status' = "open"
    BY <1>2, <2>1, <2>3 DEF Status
  <2>5. sent' \subseteq Payloads /\ skipped' \subseteq Payloads
    BY DEF TypeOK
  <2>6. Complete => Complete'
    BY <1>3, <2>5 DEF Complete
  <2> QED
    BY <1>0, <1>3, <1>4, <2>1, <2>4, <2>6, ContractSteps
<1>7. CASE Running(c) /\ m = Error
  <2>1. errorSent' /\ stopSent' = stopSent /\ sent' = sent
    BY <1>0, <1>3, <1>7, SignalFacts DEF TypeOK
  <2>2. Status' = "open" /\ Complete' = Complete
    BY <1>2, <1>3, <1>7, <2>1 DEF Status, Complete, Running
  <2> QED
    BY <1>0, <1>3, <1>4, <2>1, <2>2, ContractSteps
<1>8. CASE ~Running(c) /\ m = Stop /\ Sends(c, "intake", Stop)
  <2>1. errorSent' = errorSent /\ stopSent' /\ sent' = sent
    BY <1>0, <1>3, <1>8, SignalFacts DEF TypeOK
  <2>2. Status' = "stopped" /\ Complete' = Complete
    BY <1>3, <2>1 DEF Status, Complete
  <2>3. Complete \/ errorSent \/ Owes \/ cancel
    BY <1>0, <1>4, <1>8, StopIsComplete DEF Excused
  <2> QED
    BY <1>0, <1>3, <1>4, <2>1, <2>2, <2>3, ContractSteps
<1> QED
  BY <1>5, <1>6, <1>7, <1>8

\* The expander ends with a Stop, or without one when the intake is gone.
LEMMA ExpanderContract ==
  ASSUME LaneInv, TypeOK', ThreadStep("expander")
  PROVE  ContractStep
<1> DEFINE c == "expander"
<1>0. c \in Threads /\ c \notin Formats /\ c # "profiler" /\ TypeOK /\ Control
  BY Names DEF LaneInv
<1>1. UNCHANGED <<cancel, open, Owes>> /\ (~SendSignal(c) => UNCHANGED errorSent)
  BY <1>0, ViewCells
<1>2. stopSent => ~Running(c) /\ Idle(c)
  BY <1>0 DEF Control, ExpanderOut
<1>3. CASE SendSignal(c)
  BY <1>3, ExpanderSends
<1>4. ASSUME UNCHANGED <<errorSent, Status, Complete>> PROVE ContractStep
  BY <1>0, <1>1, <1>4, ContractSteps
<1>5. CASE SendFails(c)
  <2>1. /\ ~Idle(c) /\ Closed(Head(out[c]).to) /\ out'[c] = <<>> /\ pc'[c] = "closing"
        /\ UNCHANGED <<errorSent, stopSent, sent, skipped>>
    BY <1>0, <1>5, SendFailsEffect
  <2>2. Head(out[c]).to = "intake"
    BY <1>0, <2>1, ExpanderSending DEF Control
  <2>3. ~open /\ Status = "open" /\ Status' = "gone" /\ Complete' = Complete
    BY <1>2, <2>1, <2>2 DEF Closed, Status, Complete, Running, Idle
  <2> QED
    BY <1>0, <1>1, <2>1, <2>3, ContractSteps
<1>6. CASE Close(c)
  <2>1. ~Running(c) /\ Idle(c) /\ pc'[c] = "done" /\ out' = out /\ UNCHANGED <<errorSent, stopSent, sent, skipped>>
    BY <1>0, <1>6, CloseEffect
  <2> QED
    BY <1>4, <2>1 DEF Status, Complete, Running, Idle
<1>7. ASSUME NEW bad \in SUBSET Payloads, NEW full \in SUBSET Payloads, Expand(bad, full)
      PROVE  ContractStep
  <2>1. Running(c) /\ pc' = pc /\ UNCHANGED <<errorSent, stopSent, sent>> /\ skipped' = skipped \cup bad
    BY <1>7 DEF Expand, Receive, Ready, Running
  <2>2. Status = "open" /\ Status' = "open"
    BY <1>2, <2>1 DEF Status, Running
  <2>3. sent' \subseteq Payloads /\ skipped' \subseteq Payloads
    BY DEF TypeOK
  <2>4. Complete => Complete'
    BY <2>1, <2>3 DEF Complete
  <2>5. CASE Complete'
    BY <1>0, <1>1, <2>1, <2>2, <2>5, ContractSteps
  <2>6. CASE ~Complete'
    <3>1. Complete' = Complete
      BY <2>4, <2>6 DEF Complete
    <3> QED
      BY <1>4, <2>1, <2>2, <3>1
  <2> QED
    BY <2>5, <2>6
<1>8. CASE ExpandError
  <2>1. Running(c) /\ pc' = pc /\ UNCHANGED <<errorSent, stopSent, sent, skipped>>
    BY <1>8 DEF ExpandError, Receive, Ready, Running, history
  <2>2. Status = "open" /\ Status' = "open" /\ Complete' = Complete
    BY <1>2, <2>1 DEF Status, Running, Complete
  <2> QED
    BY <1>4, <2>1, <2>2
<1>9. CASE ExpandCancelled \/ ExpandDisconnected
  <2>1. Running(c) /\ ExpandEnds /\ pending \in SUBSET Payloads
    BY <1>0, <1>9 DEF ExpandCancelled, ExpandDisconnected, Receive, Ready, Running, TypeOK
  <2>2. out'[c] = Flush(pending) \o <<Send("intake", Stop)>> /\ UNCHANGED <<errorSent, stopSent, sent, skipped>>
    BY <1>0, <2>1, LeaveEffect DEF ExpandEnds, history
  <2>3. out'[c] = IF pending = {} THEN <<Send("intake", Stop)>>
                                 ELSE <<Send("intake", Data(pending)), Send("intake", Stop)>>
    BY <2>1, <2>2, LastWords
  <2>4. out'[c] # <<>>
    BY <2>3, ShortFacts
  <2>5. Status = "open" /\ Status' = "open" /\ Complete' = Complete
    BY <1>2, <2>1, <2>2, <2>4 DEF Status, Idle, Complete
  <2> QED
    BY <1>4, <2>2, <2>5
<1>10. ~RecvDisconnected(c)
  BY DEF RecvDisconnected
<1> QED
  BY <1>0, <1>3, <1>5, <1>6, <1>7, <1>8, <1>9, <1>10 DEF ThreadStep, ExpanderStep

\* Every thread keeps to the contract.
LEMMA ThreadContract ==
  ASSUME LaneInv, TypeOK', NEW t \in Threads, ThreadStep(t)
  PROVE  ContractStep
<1>0. TypeOK /\ Control
  BY DEF LaneInv
<1>1. CASE t = "collector" \/ t \in Formats
  <2>1. t # "expander" /\ t # "profiler" /\ t # "intake" /\ "expander" # "intake"
    BY <1>1, Names
  <2>2. UNCHANGED <<cancel, open, Status, Complete, Owes>> /\ (~SendSignal(t) => UNCHANGED errorSent)
    BY <1>0, <2>1, ViewCells
  <2>3. ASSUME SendSignal(t) PROVE UNCHANGED errorSent
    <3>1. ~Idle(t)
      BY <1>0, <2>3, SendEffect
    <3>2. Head(out[t]).to # "intake"
      BY <1>0, <1>1, <3>1, CollectorSending, FormatSending DEF Control
    <3> QED
      BY <1>0, <2>3, <3>2, SendEffect
  <2> QED
    BY <1>0, <2>2, <2>3, ContractSteps
<1> QED
  BY <1>1, SplitterContract, ProfilerContract, ExpanderContract, Names

\* A lane keeps the contract that its resolver relies on, for every set of payloads and
\* formats and every channel capacity: no payload is lost without an error that comes
\* before the Stop, but for a profiling error, which is owed and may come after it; and
\* a lane ends without a Stop only when the intake is gone (collector.rs, profiler.rs,
\* ingestor.rs, expander.rs).
THEOREM LaneKeepsContract == Spec => KeepsContract
<1>1. ASSUME Init PROVE Contract!LaneInit
  <2>1. /\ cancel = FALSE /\ open = TRUE /\ pc["expander"] = "run" /\ unprofiled = {}
        /\ sent = {} /\ skipped = {} /\ errorSent = FALSE /\ stopSent = FALSE
    BY <1>1, Names DEF Init
  <2>2. (Payloads = sent \cup skipped) = FALSE
    BY <2>1, LaneAssumption
  <2>3. (unprofiled # {} /\ out["profiler"] # <<>>) = FALSE
    BY <2>1
  <2> QED
    BY <2>1, <2>2, <2>3 DEF Contract!LaneInit, Contract!NewLane
<1>2. ASSUME LaneInv, [Next]_vars PROVE ContractStep
  <2>1. TypeOK /\ TypeOK'
    BY <1>2, TypeStep DEF LaneInv
  <2>2. ASSUME NEW t \in Threads, ThreadStep(t) PROVE ContractStep
    BY <1>2, <2>1, <2>2, ThreadContract
  <2>3. CASE Cancel
    BY <2>3 DEF Cancel, history, ContractStep, Contract!Surroundings
  <2>4. CASE CloseIntake
    BY <2>4 DEF CloseIntake, history, ContractStep, Contract!Surroundings
  <2>5. CASE UNCHANGED vars
    BY <2>5 DEF vars, history, ContractStep, Contract!laneVars
  <2> QED
    BY <1>2, <2>2, <2>3, <2>4, <2>5 DEF Next
<1> QED
  BY <1>1, <1>2, LaneInvariant, PTL DEF Spec, KeepsContract, Contract!LaneSpec, ContractStep

-----------------------------------------------------------------------------
\* The lane never jams.

\* No thread is sent a signal it has no answer to.
Served == \A t \in Threads : \A k : Holds(inbox[t], k) => k \in Answers(t)

\* What is sent to a thread is what it has an answer to.
LEMMA SendsAnswered ==
  ASSUME TypeOK, Control, NEW t \in Threads, ~Idle(t), Head(out[t]).to # "intake"
  PROVE  Head(out[t]).signal.kind \in Answers(Head(out[t]).to)
<1> DEFINE m == Head(out[t]).signal
           to == Head(out[t]).to
<1>1. Error.kind = "Error" /\ Stop.kind = "Stop"
  BY SignalFacts
<1>2. CASE t = "collector"
  <2>1. to = "splitter" /\ (m.kind = "Data" \/ m = Stop \/ m = Error)
    BY <1>2, CollectorSending DEF Control
  <2> HIDE DEF m, to
  <2>2. Answers(to) = {"Data", "Error", "Stop"}
    BY <2>1 DEF Answers
  <2>3. m.kind \in Answers(to)
    BY <1>1, <2>1, <2>2
  <2> QED
    BY <2>3 DEF m, to
<1>3. CASE t = "splitter"
  <2>1. to = "profiler" /\ (m.kind = "Data" \/ m = Stop)
    BY <1>3, SplitterSending DEF Control
  <2> HIDE DEF m, to
  <2>2. Answers(to) = {"Data", "Stop"}
    BY <2>1 DEF Answers
  <2>3. m.kind \in Answers(to)
    BY <1>1, <2>1, <2>2
  <2> QED
    BY <2>3 DEF m, to
<1>4. CASE t = "profiler"
  <2>1. to \in Formats /\ m.kind = "Data"
    BY <1>4, ProfilerSending DEF Control
  <2> HIDE DEF m, to
  <2>2. Answers(to) = {"Data"}
    BY <2>1, Names DEF Answers
  <2>3. m.kind \in Answers(to)
    BY <2>1, <2>2
  <2> QED
    BY <2>3 DEF m, to
<1>5. CASE t \in Formats
  <2>1. to = "expander" /\ (m.kind = "Data" \/ m = Error)
    BY <1>5, FormatSending DEF Control
  <2> HIDE DEF m, to
  <2>2. Answers(to) = {"Data", "Error"}
    BY <2>1 DEF Answers
  <2>3. m.kind \in Answers(to)
    BY <1>1, <2>1, <2>2
  <2> QED
    BY <2>3 DEF m, to
<1>6. t # "expander"
  BY ExpanderSending DEF Control
<1> QED
  BY <1>2, <1>3, <1>4, <1>5, <1>6, Names

\* Every step leaves the threads with signals they answer to.
LEMMA ServedStep ==
  ASSUME TypeOK, Control, Served, NEW t \in Threads, ThreadStep(t)
  PROVE  Served'
<1> SUFFICES ASSUME NEW s \in Threads, NEW k, Holds(inbox'[s], k) PROVE k \in Answers(s)
  BY DEF Served, Answers
<1>1. Holds(inbox[s], k) => k \in Answers(s)
  BY DEF Served
<1>2. CASE SendSignal(t)
  <2> DEFINE m == Head(out[t]).signal
             to == Head(out[t]).to
  <2>1. ~Idle(t) /\ m \in Signal
    BY <1>2, SendEffect
  <2>2. CASE to # "intake" /\ s = to
    <3>1. inbox'[s] = Append(inbox[s], m) /\ m.kind \in Answers(s)
      BY <1>2, <2>1, <2>2, SendEffect, SendsAnswered
    <3> HIDE DEF m, to
    <3>2. Holds(Append(inbox[s], m), k) => Holds(inbox[s], k) \/ m.kind = k
      BY <2>1, Fns, AppendFacts
    <3> QED
      BY <1>1, <3>1, <3>2
  <2>3. CASE to = "intake" \/ s # to
    <3>1. inbox'[s] = inbox[s]
      BY <1>2, <2>3, SendEffect
    <3> QED
      BY <1>1, <3>1
  <2> QED
    BY <2>2, <2>3
<1>3. CASE \E j : Receive(t, j)
  <2>1. CASE s = t
    BY <1>1, <1>3, <2>1, ReceiveEffect
  <2>2. CASE s # t
    <3>1. inbox'[s] = inbox[s]
      BY <1>3, <2>2, ReceiveEffect
    <3> QED
      BY <1>1, <3>1
  <2> QED
    BY <2>1, <2>2
<1>4. CASE inbox'[t] = <<>> /\ \A u \in Threads : u # t => inbox'[u] = inbox[u]
  <2>1. s # t
    BY <1>4, EmptyFacts
  <2> QED
    BY <1>1, <1>4, <2>1
<1>5. CASE inbox' = inbox
  BY <1>1, <1>5
<1> QED
  BY <1>2, <1>3, <1>4, <1>5, OwnInbox

\* What a thread that cannot go on waits for.
LEMMA Waits ==
  ASSUME TypeOK, Served, NEW t \in Threads, ~CanStep(t)
  PROVE  /\ ~Idle(t) => LET to == Head(out[t]).to IN
                        to \in Threads /\ ~Closed(to) /\ inbox[to] # <<>>
         /\ Idle(t) /\ pc[t] # "done" => /\ pc[t] = "run" /\ inbox[t] = <<>>
                                         /\ \E s \in Senders(t) : ~Released(s)
<1>1. ASSUME ~Idle(t)
      PROVE  LET to == Head(out[t]).to IN to \in Threads /\ ~Closed(to) /\ inbox[to] # <<>>
  <2> DEFINE to == Head(out[t]).to
  <2>1. ~Closed(to) /\ to # "intake" /\ ~HasRoom(to)
    BY <1>1 DEF CanStep, CanSend, Idle
  <2>2. to \in Threads \cup {"intake"}
    <3>1. out[t] \in Seq(Outgoing) /\ out[t] # <<>>
      BY <1>1, Fns DEF Idle
    <3>2. Head(out[t]) \in Outgoing
      BY <3>1
    <3> QED
      BY <3>2 DEF Outgoing
  <2> HIDE DEF to
  <2>3. inbox[to] # <<>>
    BY <2>1, EmptyFacts, LaneAssumption DEF HasRoom
  <2> QED
    BY <2>1, <2>2, <2>3 DEF to
<1>2. ASSUME Idle(t), pc[t] # "done"
      PROVE  pc[t] = "run" /\ inbox[t] = <<>> /\ \E s \in Senders(t) : ~Released(s)
  <2>1. pc[t] = "run"
    BY <1>2, Fns DEF CanStep, CanEnd, Idle
  <2>2. Ready(t)
    BY <1>2, <2>1 DEF Ready, Idle
  <2>3. inbox[t] = <<>>
    <3>1. SUFFICES ASSUME inbox[t] # <<>> PROVE Head(inbox[t]).kind \in Answers(t)
      BY <2>2 DEF CanStep, CanReceive
    <3>2. Holds(inbox[t], Head(inbox[t]).kind)
      BY <3>1, Fns, HeadTailFacts
    <3> QED
      BY <3>2 DEF Served
  <2>4. \E s \in Senders(t) : ~Released(s)
    BY <2>2, <2>3 DEF CanStep, CanReceive
  <2> QED
    BY <2>1, <2>3, <2>4
<1> QED
  BY <1>1, <1>2

\* Seen from the expander upwards nobody has anything to send, and then from the
\* collector downwards everybody has ended.
LEMMA LaneGoesOn ==
  ASSUME TypeOK, Control, Served
  PROVE  LaneNeverJams
<1> SUFFICES ASSUME \A t \in Threads : ~CanStep(t) PROVE \A t \in Threads : pc[t] = "done"
  BY DEF LaneNeverJams, Terminated
<1>1. \A t \in Threads :
        ~Idle(t) => /\ Head(out[t]).to \in Threads /\ ~Closed(Head(out[t]).to)
                    /\ inbox[Head(out[t]).to] # <<>>
  BY Waits
<1>2. \A t \in Threads :
        Idle(t) /\ pc[t] # "done" => inbox[t] = <<>> /\ \E s \in Senders(t) : ~Released(s)
  BY Waits
<1>3. \A t \in Threads : Idle(t) /\ ~Closed(t) => inbox[t] = <<>>
  <2>1. \A t \in Threads : pc[t] = "done" => Closed(t)
    BY Names DEF Closed, Released
  <2> QED
    BY <1>2, <2>1
<1>4. Idle("expander")
  <2>1. Head(out["expander"]).to # "intake" \/ Idle("expander")
    BY <1>1, Names
  <2> QED
    BY <2>1, ExpanderSending DEF Control
<1>5. \A f \in Formats : Idle(f)
  <2>1. \A f \in Formats : ~Idle(f) => Head(out[f]).to = "expander"
    BY FormatSending DEF Control
  <2> QED
    BY <1>1, <1>3, <1>4, <2>1, Names
<1>6. Idle("profiler")
  <2>1. ~Idle("profiler") => Head(out["profiler"]).to \in Formats \cup {"intake"}
    BY ProfilerSending DEF Control
  <2> QED
    BY <1>1, <1>3, <1>5, <2>1, Names
<1>7. Idle("splitter")
  <2>1. ~Idle("splitter") => Head(out["splitter"]).to \in {"profiler", "intake"}
    BY SplitterSending DEF Control
  <2> QED
    BY <1>1, <1>3, <1>6, <2>1, Names
<1>8. Idle("collector")
  <2>1. ~Idle("collector") => Head(out["collector"]).to = "splitter"
    BY CollectorSending DEF Control
  <2> QED
    BY <1>1, <1>3, <1>7, <2>1, Names
<1>9. \A t \in Threads : (\A s \in Senders(t) : pc[s] = "done") /\ Idle(t) => pc[t] = "done"
  BY <1>2 DEF Released
<1>10. pc["collector"] = "done"
  BY <1>8, <1>9, Names DEF Senders
<1>11. pc["splitter"] = "done"
  BY <1>7, <1>9, <1>10, Names DEF Senders
<1>12. pc["profiler"] = "done"
  BY <1>6, <1>9, <1>11, Names DEF Senders
<1>13. \A f \in Formats : pc[f] = "done"
  <2>1. \A f \in Formats : Senders(f) = {"profiler"}
    BY Names DEF Senders
  <2> QED
    BY <1>5, <1>9, <1>12, <2>1, Names
<1>14. pc["expander"] = "done"
  BY <1>4, <1>9, <1>13, Names DEF Senders
<1> QED
  BY <1>10, <1>11, <1>12, <1>13, <1>14, Names

\* Whatever fails, whenever the run is cancelled and whether or not the resolver still
\* listens, the threads of a lane never all wait for one another (channel.rs, phase1.rs).
THEOREM LaneNeverStuck == Spec => []LaneNeverJams
<1>1. Init => Served
  <2> SUFFICES ASSUME Init, NEW t \in Threads, NEW k PROVE ~Holds(inbox[t], k)
    BY DEF Served
  <2>1. inbox[t] = <<>>
    BY DEF Init
  <2> QED
    BY <2>1, EmptyFacts
<1>2. TypeOK /\ Control /\ Served /\ [Next]_vars => Served'
  <2> SUFFICES ASSUME TypeOK, Control, Served, [Next]_vars PROVE Served'
    OBVIOUS
  <2>1. ASSUME NEW t \in Threads, ThreadStep(t) PROVE Served'
    BY <2>1, ServedStep
  <2>2. CASE UNCHANGED inbox
    BY <2>2 DEF Served, Holds, Answers
  <2> QED
    BY <2>1, <2>2 DEF Next, Cancel, CloseIntake, vars
<1>3. TypeOK /\ Control /\ Served => LaneNeverJams
  BY LaneGoesOn
<1>4. LaneInv => TypeOK /\ Control
  BY DEF LaneInv
<1> QED
  BY <1>1, <1>2, <1>3, <1>4, LaneInvariant, PTL DEF Spec

=============================================================================
