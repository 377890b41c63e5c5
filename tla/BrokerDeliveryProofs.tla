------------------------ MODULE BrokerDeliveryProofs ------------------------
(***************************************************************************)
(* The accounts of broker delivery, for any number of entities and         *)
(* workers, any batch sizes and any number of retries.                     *)
(***************************************************************************)
EXTENDS BrokerDelivery, FiniteSetTheorems, SequenceTheorems, TLAPS

-----------------------------------------------------------------------------
\* Batches of entities.

\* The entities of a batch.
LEMMA ToSetIs ==
  ASSUME NEW b \in Batches
  PROVE  /\ ToSet(b) = {b[k] : k \in 1..Len(b)}
         /\ ToSet(b) \subseteq Entities
         /\ b = <<>> <=> Len(b) = 0
         /\ Len(b) \in Nat
<1>1. b \in Seq(Entities) /\ DOMAIN b = 1..Len(b) /\ Len(b) \in Nat
  BY DEF Batches
<1>2. ToSet(b) = {b[k] : k \in 1..Len(b)}
  BY <1>1 DEF ToSet
<1>3. b = <<>> <=> Len(b) = 0
  BY <1>1, EmptySeq
<1> QED
  BY <1>1, <1>2, <1>3

\* The empty batch.
LEMMA EmptyBatch ==
  <<>> \in Batches /\ ToSet(<<>>) = {} /\ Distinct(<<>>) /\ Len(<<>>) = 0
BY DEF Batches, ToSet, Distinct

\* A batch without repetition has as many entities as its length.
LEMMA BatchSize ==
  ASSUME NEW b \in Batches, Distinct(b)
  PROVE  IsFiniteSet(ToSet(b)) /\ Cardinality(ToSet(b)) = Len(b)
<1>1. Len(b) \in Nat /\ ToSet(b) = {b[k] : k \in 1..Len(b)}
  BY ToSetIs
<1> DEFINE f == [k \in 1..Len(b) |-> b[k]]
<1>2. f \in Bijection(1..Len(b), ToSet(b))
  BY <1>1 DEF Bijection, Injection, Surjection, IsInjective, Distinct
<1>3. ExistsBijection(1..Len(b), ToSet(b))
  BY <1>2 DEF ExistsBijection
<1>4. IsFiniteSet(1..Len(b)) /\ Cardinality(1..Len(b)) = Len(b)
  <2>1. 1 \in Int /\ Len(b) \in Int
    BY <1>1
  <2>2. IsFiniteSet(1..Len(b)) /\ Cardinality(1..Len(b)) = IF 1 > Len(b) THEN 0 ELSE Len(b) - 1 + 1
    BY <2>1, FS_Interval
  <2> QED
    BY <1>1, <2>2
<1> QED
  BY <1>3, <1>4, FS_Bijection

\* One more entity in the buffer.
LEMMA AppendEntity ==
  ASSUME NEW b \in Batches, NEW e \in Entities
  PROVE  /\ Append(b, e) \in Batches /\ Append(b, e) # <<>>
         /\ ToSet(Append(b, e)) = ToSet(b) \cup {e}
         /\ Distinct(b) /\ e \notin ToSet(b) => Distinct(Append(b, e))
<1> DEFINE r == Append(b, e)
<1>1. r \in Batches /\ Len(r) = Len(b) + 1 /\ r[Len(b) + 1] = e /\ Len(b) \in Nat
  BY DEF Batches
<1>2. \A k \in 1..Len(b) : r[k] = b[k]
  BY DEF Batches
<1> HIDE DEF r
<1>3. r # <<>>
  BY <1>1
<1>4. /\ \A k \in 1..Len(r) : k \in 1..Len(b) \/ k = Len(b) + 1
      /\ Len(b) + 1 \in 1..Len(r) /\ \A k \in 1..Len(b) : k \in 1..Len(r) /\ k # Len(b) + 1
  BY <1>1
<1>5. ToSet(r) = {r[k] : k \in 1..Len(r)} /\ ToSet(b) = {b[k] : k \in 1..Len(b)}
  BY <1>1, ToSetIs
<1>6. ToSet(r) = ToSet(b) \cup {e}
  BY <1>1, <1>2, <1>4, <1>5
<1>7. ASSUME Distinct(b), e \notin ToSet(b) PROVE Distinct(r)
  <2>1. \A k \in 1..Len(b) : b[k] # e
    BY <1>5, <1>7
  <2> QED
    BY <1>1, <1>2, <1>4, <1>7, <2>1 DEF Distinct
<1> QED
  BY <1>1, <1>3, <1>6, <1>7 DEF r

\* A batch and its two halves.
LEMMA Halves ==
  ASSUME NEW b \in Batches, Len(b) > 1
  PROVE  LET n == Len(b)
             head == SubSeq(b, 1, n \div 2)
             tail == SubSeq(b, (n \div 2) + 1, n)
         IN /\ head \in Batches /\ tail \in Batches /\ ToSet(b) = ToSet(tail) \cup ToSet(head)
            /\ Distinct(b) => Distinct(head) /\ Distinct(tail) /\ ToSet(tail) \cap ToSet(head) = {}
<1> DEFINE n == Len(b)
           h == n \div 2
           head == SubSeq(b, 1, h)
           tail == SubSeq(b, h + 1, n)
<1>1. n \in Nat /\ n > 1 /\ b \in Seq(Entities)
  BY DEF Batches
<1>2. h \in Nat /\ h >= 1 /\ h < n
  BY <1>1
<1> HIDE DEF h
<1>3. head \in Seq(Entities) /\ Len(head) = h /\ \A k \in 1..h : head[k] = b[k]
  BY <1>1, <1>2
<1>4. tail \in Seq(Entities) /\ Len(tail) = n - h /\ \A k \in 1..(n - h) : tail[k] = b[h + k]
  BY <1>1, <1>2
<1> HIDE DEF head, tail
<1>5. head \in Batches /\ tail \in Batches
  BY <1>3, <1>4 DEF Batches
<1>6. /\ ToSet(b) = {b[k] : k \in 1..n} /\ ToSet(head) = {head[k] : k \in 1..h}
      /\ ToSet(tail) = {tail[k] : k \in 1..(n - h)}
  BY <1>3, <1>4, <1>5, ToSetIs
<1>7. /\ \A k \in 1..n : k \in 1..h \/ (k - h \in 1..(n - h) /\ h + (k - h) = k)
      /\ \A k \in 1..h : k \in 1..n
      /\ \A k \in 1..(n - h) : h + k \in 1..n /\ h + k \notin 1..h
  BY <1>1, <1>2
<1>8. ToSet(b) = ToSet(tail) \cup ToSet(head)
  <2>1. ASSUME NEW x \in ToSet(b) PROVE x \in ToSet(tail) \cup ToSet(head)
    <3>1. PICK k \in 1..n : x = b[k]
      BY <1>6, <2>1
    <3>2. CASE k \in 1..h
      BY <1>3, <1>6, <3>1, <3>2
    <3>3. CASE k - h \in 1..(n - h) /\ h + (k - h) = k
      BY <1>4, <1>6, <3>1, <3>3
    <3> QED
      BY <1>7, <3>2, <3>3
  <2>2. ToSet(head) \subseteq ToSet(b)
    BY <1>3, <1>6, <1>7
  <2>3. ToSet(tail) \subseteq ToSet(b)
    BY <1>4, <1>6, <1>7
  <2> QED
    BY <2>1, <2>2, <2>3
<1>9. ASSUME Distinct(b) PROVE Distinct(head) /\ Distinct(tail) /\ ToSet(tail) \cap ToSet(head) = {}
  <2>1. Distinct(head)
    BY <1>3, <1>7, <1>9 DEF Distinct
  <2>2. Distinct(tail)
    <3> SUFFICES ASSUME NEW j \in 1..(n - h), NEW k \in 1..(n - h), tail[j] = tail[k] PROVE j = k
      BY <1>4 DEF Distinct
    <3>1. h + j \in 1..n /\ h + k \in 1..n /\ b[h + j] = b[h + k]
      BY <1>4, <1>7
    <3>2. h + j = h + k
      BY <1>9, <3>1 DEF Distinct
    <3> QED
      BY <1>2, <3>2
  <2>3. ASSUME NEW j \in 1..(n - h), NEW k \in 1..h PROVE tail[j] # head[k]
    <3>1. h + j \in 1..n /\ k \in 1..n /\ h + j # k
      BY <1>7
    <3>2. b[h + j] # b[k]
      BY <1>9, <3>1 DEF Distinct
    <3> QED
      BY <1>3, <1>4, <3>2
  <2> QED
    BY <1>6, <2>1, <2>2, <2>3
<1> QED
  BY <1>5, <1>8, <1>9 DEF head, tail, h

-----------------------------------------------------------------------------
\* Queues and stacks of batches.

\* Nothing is in an empty queue.
LEMMA EmptyQueue == <<>> \in Seq(Batches) /\ Contents(<<>>) = {} /\ Tidy(<<>>)
BY DEF Contents, Tidy

\* Membership.
LEMMA ContentsIs ==
  ASSUME NEW q, NEW x
  PROVE  x \in Contents(q) <=> \E n \in 1..Len(q) : x \in ToSet(q[n])
BY DEF Contents

\* The contents are entities.
LEMMA ContentsType ==
  ASSUME NEW q \in Seq(Batches)
  PROVE  Contents(q) \subseteq Entities
<1>1. ASSUME NEW n \in 1..Len(q) PROVE ToSet(q[n]) \subseteq Entities
  <2>1. q[n] \in Batches
    OBVIOUS
  <2> QED
    BY <2>1, ToSetIs
<1> QED
  BY <1>1, ContentsIs

\* One more batch at the end.
LEMMA AppendBatch ==
  ASSUME NEW q \in Seq(Batches), NEW b \in Batches
  PROVE  /\ Append(q, b) \in Seq(Batches) /\ Len(Append(q, b)) = Len(q) + 1
         /\ Contents(Append(q, b)) = Contents(q) \cup ToSet(b)
         /\ Tidy(q) /\ Distinct(b) /\ Contents(q) \cap ToSet(b) = {} => Tidy(Append(q, b))
<1> DEFINE r == Append(q, b)
<1>1. r \in Seq(Batches) /\ Len(r) = Len(q) + 1 /\ r[Len(q) + 1] = b /\ Len(q) \in Nat
  OBVIOUS
<1>2. \A k \in 1..Len(q) : r[k] = q[k]
  OBVIOUS
<1> HIDE DEF r
<1>3. /\ \A k \in 1..Len(r) : k \in 1..Len(q) \/ k = Len(q) + 1
      /\ Len(q) + 1 \in 1..Len(r) /\ \A k \in 1..Len(q) : k \in 1..Len(r) /\ k # Len(q) + 1
  BY <1>1
<1>4. ASSUME NEW x PROVE x \in Contents(r) <=> x \in Contents(q) \/ x \in ToSet(b)
  BY <1>1, <1>2, <1>3, ContentsIs
<1>5. ASSUME Tidy(q), Distinct(b), Contents(q) \cap ToSet(b) = {} PROVE Tidy(r)
  <2>1. \A k \in 1..Len(q) : ToSet(q[k]) \cap ToSet(b) = {}
    BY <1>5 DEF Contents
  <2>2. \A n \in 1..Len(r) : Distinct(r[n])
    BY <1>1, <1>2, <1>3, <1>5 DEF Tidy
  <2>3. ASSUME NEW m \in 1..Len(r), NEW n \in 1..Len(r), m # n PROVE ToSet(r[m]) \cap ToSet(r[n]) = {}
    <3>1. CASE m \in 1..Len(q) /\ n \in 1..Len(q)
      BY <1>2, <1>5, <2>3, <3>1 DEF Tidy
    <3>2. CASE m \in 1..Len(q) /\ n = Len(q) + 1
      BY <1>1, <1>2, <2>1, <3>2
    <3>3. CASE m = Len(q) + 1 /\ n \in 1..Len(q)
      BY <1>1, <1>2, <2>1, <3>3
    <3> QED
      BY <1>3, <2>3, <3>1, <3>2, <3>3
  <2> QED
    BY <2>2, <2>3 DEF Tidy
<1> QED
  BY <1>1, <1>4, <1>5 DEF r

\* Taking the first batch.
LEMMA TakeFirst ==
  ASSUME NEW q \in Seq(Batches), q # <<>>
  PROVE  /\ Head(q) \in Batches /\ Tail(q) \in Seq(Batches) /\ Len(Tail(q)) = Len(q) - 1 /\ Len(q) \in Nat
         /\ Contents(q) = ToSet(Head(q)) \cup Contents(Tail(q))
         /\ Tidy(q) => Distinct(Head(q)) /\ Tidy(Tail(q)) /\ ToSet(Head(q)) \cap Contents(Tail(q)) = {}
<1> DEFINE r == Tail(q)
<1>1. /\ r \in Seq(Batches) /\ Len(r) = Len(q) - 1 /\ Len(q) \in Nat /\ Len(q) >= 1
      /\ Head(q) = q[1] /\ q[1] \in Batches
  OBVIOUS
<1>2. \A k \in 1..Len(r) : r[k] = q[k + 1]
  OBVIOUS
<1> HIDE DEF r
<1>3. /\ \A k \in 1..Len(q) : k = 1 \/ (k - 1 \in 1..Len(r) /\ q[k] = r[k - 1])
      /\ \A k \in 1..Len(r) : k + 1 \in 1..Len(q) /\ k + 1 # 1
      /\ 1 \in 1..Len(q)
      /\ \A j, k \in 1..Len(r) : j # k => j + 1 # k + 1
  BY <1>1, <1>2
<1>4. ASSUME NEW x PROVE x \in Contents(q) <=> x \in ToSet(q[1]) \/ x \in Contents(r)
  BY <1>2, <1>3, ContentsIs
<1>5. ASSUME Tidy(q) PROVE Distinct(q[1]) /\ Tidy(r) /\ ToSet(q[1]) \cap Contents(r) = {}
  <2>1. Distinct(q[1]) /\ \A n \in 1..Len(r) : Distinct(r[n])
    BY <1>2, <1>3, <1>5 DEF Tidy
  <2>2. \A m, n \in 1..Len(r) : m # n => ToSet(r[m]) \cap ToSet(r[n]) = {}
    BY <1>2, <1>3, <1>5 DEF Tidy
  <2>3. \A n \in 1..Len(r) : ToSet(q[1]) \cap ToSet(r[n]) = {}
    BY <1>2, <1>3, <1>5 DEF Tidy
  <2> QED
    BY <2>1, <2>2, <2>3, ContentsIs DEF Tidy
<1> QED
  BY <1>1, <1>4, <1>5 DEF r

\* Taking the last batch.
LEMMA TakeLast ==
  ASSUME NEW q \in Seq(Batches), q # <<>>
  PROVE  /\ Last(q) \in Batches /\ Front(q) \in Seq(Batches)
         /\ Contents(q) = ToSet(Last(q)) \cup Contents(Front(q))
         /\ Tidy(q) => Distinct(Last(q)) /\ Tidy(Front(q)) /\ ToSet(Last(q)) \cap Contents(Front(q)) = {}
<1> DEFINE r == Front(q)
           z == Len(q)
<1>1. z \in Nat /\ z >= 1 /\ Last(q) = q[z] /\ q[z] \in Batches
  BY DEF Last
<1>2. r \in Seq(Batches) /\ Len(r) = z - 1 /\ \A k \in 1..(z - 1) : r[k] = q[k]
  <2>1. r = SubSeq(q, 1, z - 1)
    BY DEF Front
  <2>2. z - 1 \in Nat /\ z - 1 <= Len(q)
    BY <1>1
  <2>3. \A i \in 1..(z - 1) : q[i] \in Batches
    BY <1>1
  <2>4. SubSeq(q, 1, z - 1) \in Seq(Batches) /\ Len(SubSeq(q, 1, z - 1)) = z - 1
    <3>1. 1 \in Int /\ z - 1 \in Int
      BY <1>1
    <3> HIDE DEF z
    <3>2. SubSeq(q, 1, z - 1) \in Seq(Batches)
      BY <2>3, <3>1, SubSeqProperties, Zenon
    <3>3. Len(SubSeq(q, 1, z - 1)) = z - 1
      BY <1>1
    <3> QED
      BY <3>2, <3>3
  <2>5. \A k \in 1..(z - 1) : SubSeq(q, 1, z - 1)[k] = q[k]
    BY <2>2
  <2> HIDE DEF r
  <2> QED
    BY <2>1, <2>4, <2>5
<1> HIDE DEF r
<1>3. /\ \A k \in 1..z : k = z \/ k \in 1..(z - 1)
      /\ \A k \in 1..(z - 1) : k \in 1..z /\ k # z
      /\ z \in 1..z
  BY <1>1
<1>4. ASSUME NEW x PROVE x \in Contents(q) <=> x \in ToSet(q[z]) \/ x \in Contents(r)
  BY <1>2, <1>3, ContentsIs
<1>5. ASSUME Tidy(q) PROVE Distinct(q[z]) /\ Tidy(r) /\ ToSet(q[z]) \cap Contents(r) = {}
  <2>1. Distinct(q[z]) /\ \A n \in 1..Len(r) : Distinct(r[n])
    BY <1>2, <1>3, <1>5 DEF Tidy
  <2>2. \A m, n \in 1..Len(r) : m # n => ToSet(r[m]) \cap ToSet(r[n]) = {}
    <3> SUFFICES ASSUME NEW m \in 1..(z - 1), NEW n \in 1..(z - 1), m # n
                 PROVE  ToSet(r[m]) \cap ToSet(r[n]) = {}
      BY <1>2
    <3>1. m \in 1..Len(q) /\ n \in 1..Len(q) /\ r[m] = q[m] /\ r[n] = q[n]
      BY <1>2, <1>3
    <3> QED
      BY <1>5, <3>1 DEF Tidy
  <2>3. \A n \in 1..Len(r) : ToSet(q[z]) \cap ToSet(r[n]) = {}
    BY <1>2, <1>3, <1>5 DEF Tidy
  <2> QED
    BY <2>1, <2>2, <2>3, ContentsIs DEF Tidy
<1> QED
  BY <1>1, <1>2, <1>4, <1>5 DEF r

\* The two halves of a batch on top of a stack.
LEMMA PushHalves ==
  ASSUME NEW q \in Seq(Batches), NEW b \in Batches, Len(b) > 1
  PROVE  LET n == Len(b)
             r == q \o <<SubSeq(b, (n \div 2) + 1, n), SubSeq(b, 1, n \div 2)>>
         IN /\ r \in Seq(Batches)
            /\ Contents(r) = Contents(q) \cup ToSet(b)
            /\ Tidy(q) /\ Distinct(b) /\ Contents(q) \cap ToSet(b) = {} => Tidy(r)
<1> DEFINE n == Len(b)
           head == SubSeq(b, 1, n \div 2)
           tail == SubSeq(b, (n \div 2) + 1, n)
<1>1. /\ head \in Batches /\ tail \in Batches /\ ToSet(b) = ToSet(tail) \cup ToSet(head)
      /\ Distinct(b) => Distinct(head) /\ Distinct(tail) /\ ToSet(tail) \cap ToSet(head) = {}
  BY Halves
<1> HIDE DEF head, tail
<1>2. q \o <<tail, head>> = Append(Append(q, tail), head)
  BY <1>1
<1>3. /\ Append(q, tail) \in Seq(Batches) /\ Contents(Append(q, tail)) = Contents(q) \cup ToSet(tail)
      /\ Tidy(q) /\ Distinct(tail) /\ Contents(q) \cap ToSet(tail) = {} => Tidy(Append(q, tail))
  BY <1>1, AppendBatch
<1> DEFINE p == Append(q, tail)
<1> HIDE DEF p
<1>4. /\ Append(p, head) \in Seq(Batches) /\ Contents(Append(p, head)) = Contents(p) \cup ToSet(head)
      /\ Tidy(p) /\ Distinct(head) /\ Contents(p) \cap ToSet(head) = {} => Tidy(Append(p, head))
  <2>1. p \in Seq(Batches)
    BY <1>3 DEF p
  <2> QED
    BY <1>1, <2>1, AppendBatch
<1>5. ASSUME Tidy(q), Distinct(b), Contents(q) \cap ToSet(b) = {} PROVE Tidy(Append(p, head))
  BY <1>1, <1>3, <1>4, <1>5 DEF p
<1> QED
  BY <1>1, <1>2, <1>3, <1>4, <1>5 DEF head, tail, p

-----------------------------------------------------------------------------
\* The inductive invariant.

\* What a thread can hold where it is; a pool that is gone has emptied the channel.
Phases ==
  /\ writer \notin {"send", "flush"} => job = <<>>
  /\ writer # "write" => front = <<>>
  /\ writer = "done" => PoolGone
  /\ PoolGone => queue = <<>>
  /\ \A w \in Workers :
       /\ worker[w] \in {"recv", "done", "panicked"} => stack[w] = <<>>
       /\ worker[w] \in {"recv", "pop", "done", "panicked"} => batch[w] = <<>>

\* Nothing in hand has been counted or accepted; everything given is in hand, counted
\* or, after a shutdown or a panic, dropped.
Accounts ==
  /\ InHand \subseteq given /\ InHand \cap accepted = {}
  /\ written + failed + uncounted + Cardinality(InHand) = Cardinality(given)
  /\ uncounted > 0 => shutdown \/ ~NoPanic

\* A failure that was counted is on record, and finalize saw it.
Noted ==
  /\ ~shutdown /\ failed > 0 => recorded
  /\ writer = "done" /\ ~shutdown /\ written = 0 /\ failed > 0 => result = "Err"

IInv == TypeOK /\ Phases /\ OneHolder /\ Accounts /\ Noted

-----------------------------------------------------------------------------
\* What is in hand.

\* Membership.
LEMMA InHandIs ==
  ASSUME NEW x
  PROVE  x \in InHand <=> \/ x \in WriterHand \/ x \in Contents(queue)
                          \/ \E w \in Workers : x \in WorkerHand(w)
BY DEF InHand

\* The same after a step.
LEMMA InHandAfter ==
  ASSUME NEW x
  PROVE  x \in InHand' <=> \/ x \in WriterHand' \/ x \in Contents(queue')
                           \/ \E w \in Workers : x \in WorkerHand(w)'
BY DEF InHand

\* What is in hand, given and accepted is finite.
LEMMA FiniteHand ==
  ASSUME TypeOK, InHand \subseteq given
  PROVE  /\ IsFiniteSet(given) /\ Cardinality(given) \in Nat
         /\ IsFiniteSet(InHand) /\ Cardinality(InHand) \in Nat
         /\ IsFiniteSet(accepted) /\ Cardinality(accepted) \in Nat
<1>1. IsFiniteSet(Entities) /\ given \subseteq Entities /\ accepted \subseteq given
  BY DeliveryAssumption DEF TypeOK
<1>2. IsFiniteSet(given)
  BY <1>1, FS_Subset
<1>3. IsFiniteSet(InHand) /\ IsFiniteSet(accepted)
  BY <1>1, <1>2, FS_Subset
<1> QED
  BY <1>2, <1>3, FS_CardinalityType

\* A step of one worker: what it holds afterwards it held before, or took from the
\* channel.
LEMMA WorkerHolds ==
  ASSUME OneHolder, NEW w \in Workers, UNCHANGED <<front, job>>,
         \A v \in Workers : v # w => batch'[v] = batch[v] /\ stack'[v] = stack[v],
         Tidy(queue'), Distinct(batch'[w]), Tidy(stack'[w]),
         ToSet(batch'[w]) \cap Contents(stack'[w]) = {},
         Contents(queue') \subseteq Contents(queue),
         WorkerHand(w)' \subseteq WorkerHand(w) \cup Contents(queue),
         WorkerHand(w)' \cap Contents(queue') = {}
  PROVE  /\ OneHolder'
         /\ InHand' = (InHand \ (Contents(queue) \cup WorkerHand(w)))
                        \cup Contents(queue') \cup WorkerHand(w)'
<1>1. WriterHand' = WriterHand
  BY DEF WriterHand
<1>2. \A v \in Workers : v # w => WorkerHand(v)' = WorkerHand(v)
  BY DEF WorkerHand
<1>3. /\ Distinct(front) /\ Distinct(job) /\ ToSet(front) \cap ToSet(job) = {}
      /\ Contents(queue) \cap WriterHand = {}
      /\ \A v \in Workers : /\ Distinct(batch[v]) /\ Tidy(stack[v])
                            /\ ToSet(batch[v]) \cap Contents(stack[v]) = {}
                            /\ WorkerHand(v) \cap (WriterHand \cup Contents(queue)) = {}
      /\ \A u, v \in Workers : u # v => WorkerHand(u) \cap WorkerHand(v) = {}
  BY DEF OneHolder
<1>4. Contents(queue') \cap WriterHand' = {}
  BY <1>1, <1>3
<1>5. ASSUME NEW v \in Workers
      PROVE  /\ Distinct(batch'[v]) /\ Tidy(stack'[v]) /\ ToSet(batch'[v]) \cap Contents(stack'[v]) = {}
             /\ WorkerHand(v)' \cap (WriterHand' \cup Contents(queue')) = {}
  <2>1. CASE v = w
    BY <1>1, <1>3, <2>1
  <2>2. CASE v # w
    <3>1. batch'[v] = batch[v] /\ stack'[v] = stack[v] /\ WorkerHand(v)' = WorkerHand(v)
      BY <1>2, <2>2
    <3> QED
      BY <1>1, <1>3, <3>1
  <2> QED
    BY <2>1, <2>2
<1>6. ASSUME NEW u \in Workers, NEW v \in Workers, u # v PROVE WorkerHand(u)' \cap WorkerHand(v)' = {}
  <2>1. CASE u = w
    BY <1>2, <1>3, <1>6, <2>1
  <2>2. CASE v = w
    BY <1>2, <1>3, <1>6, <2>2
  <2>3. CASE u # w /\ v # w
    BY <1>2, <1>3, <1>6, <2>3
  <2> QED
    BY <2>1, <2>2, <2>3
<1>7. OneHolder'
  BY <1>3, <1>4, <1>5, <1>6 DEF OneHolder
<1>8. ASSUME NEW x
      PROVE  x \in InHand' <=> x \in (InHand \ (Contents(queue) \cup WorkerHand(w)))
                                       \cup Contents(queue') \cup WorkerHand(w)'
  BY <1>1, <1>2, <1>3, InHandIs, InHandAfter
<1> QED
  BY <1>7, <1>8

\* The size of a set of two parts.
LEMMA TwoParts ==
  ASSUME NEW A, NEW B, IsFiniteSet(A), IsFiniteSet(B), A \cap B = {}
  PROVE  /\ Cardinality(A) \in Nat /\ Cardinality(B) \in Nat
         /\ Cardinality(A \cup B) = Cardinality(A) + Cardinality(B)
<1>1. Cardinality(A) \in Nat /\ Cardinality(B) \in Nat
  BY FS_CardinalityType
<1>2. Cardinality(A \cup B) = Cardinality(A) + Cardinality(B) - Cardinality(A \cap B)
  BY FS_Union
<1>3. Cardinality(A \cap B) = 0
  <2>1. Cardinality({}) = 0
    BY FS_EmptySet
  <2> QED
    BY <2>1
<1>4. Cardinality(A \cup B) = Cardinality(A) + Cardinality(B) - 0
  BY <1>2, <1>3, Zenon
<1> QED
  BY <1>1, <1>4

\* The accounts after the entities in S have left every hand, n of them counted and m
\* of them dropped, after a shutdown or with a panic.
LEMMA Counting ==
  ASSUME TypeOK, Accounts, NEW S, NEW n \in Nat, NEW m \in Nat,
         S \subseteq InHand, InHand' = InHand \ S, n + m = Cardinality(S),
         m > 0 => shutdown' \/ ~NoPanic',
         written' \in Nat, failed' \in Nat, written' + failed' = written + failed + n,
         uncounted' = uncounted + m,
         given' = given, accepted' \subseteq accepted \cup S,
         ~shutdown' /\ NoPanic' => ~shutdown /\ NoPanic
  PROVE  Accounts' /\ accepted' \subseteq given' /\ uncounted' \in Nat
<1>1. InHand \subseteq given /\ InHand \cap accepted = {} /\ accepted \subseteq given
  BY DEF Accounts, TypeOK
<1>2. IsFiniteSet(InHand) /\ Cardinality(InHand) \in Nat /\ Cardinality(given) \in Nat
  BY <1>1, FiniteHand
<1>3. IsFiniteSet(S) /\ IsFiniteSet(InHand \ S)
  BY <1>2, FS_Subset
<1>4. /\ Cardinality(S) \in Nat /\ Cardinality(InHand \ S) \in Nat
      /\ Cardinality(InHand) = Cardinality(S) + Cardinality(InHand \ S)
  <2>1. InHand = S \cup (InHand \ S) /\ S \cap (InHand \ S) = {}
    OBVIOUS
  <2> QED
    BY <1>3, <2>1, TwoParts
<1> DEFINE h == Cardinality(InHand)
           r == Cardinality(InHand \ S)
           g == Cardinality(given)
           c == written + failed
           d == written' + failed'
<1>5. c \in Nat /\ uncounted \in Nat /\ c + uncounted + h = g /\ d = c + n
  <2>1. written \in Nat /\ failed \in Nat /\ uncounted \in Nat
    BY DEF TypeOK
  <2>2. c + uncounted + h = g
    BY DEF Accounts
  <2>3. d = c + n
    OBVIOUS
  <2>4. c \in Nat
    BY <2>1
  <2> HIDE DEF h, g, c, d
  <2> QED
    BY <2>1, <2>2, <2>3, <2>4
<1>6. h \in Nat /\ r \in Nat /\ g \in Nat /\ h = n + m + r
  BY <1>2, <1>4
<1>7. Cardinality(InHand') = r /\ Cardinality(given') = g
  OBVIOUS
<1> HIDE DEF h, r, g, c, d
<1>8. d + uncounted' + r = g /\ uncounted' \in Nat
  BY <1>5, <1>6
<1>9. uncounted' > 0 => shutdown' \/ ~NoPanic'
  <2>1. uncounted' > 0 => uncounted > 0 \/ m > 0
    BY <1>5
  <2>2. uncounted > 0 => shutdown \/ ~NoPanic
    BY DEF Accounts
  <2> QED
    BY <2>1, <2>2
<1>10. InHand' \subseteq given' /\ InHand' \cap accepted' = {} /\ accepted' \subseteq given'
  BY <1>1
<1> QED
  BY <1>7, <1>8, <1>9, <1>10 DEF Accounts, d

-----------------------------------------------------------------------------
\* Steps of a worker.

\* The assumptions on the constants that the steps need.
LEMMA Constants ==
  Capacity \in Nat /\ MaxRetries \in Nat /\ Capacity >= 1
BY DeliveryAssumption

\* Leaving a place where it is not gone, a worker meets a pool and a writer that are
\* not done, and the panics of the others stay.
LEMMA WorkerMoves ==
  ASSUME TypeOK, Phases, NEW w \in Workers, ~Gone(w), NEW where, Goto(w, where)
  PROVE  /\ writer # "done" /\ ~PoolGone
         /\ worker'[w] = where /\ \A v \in Workers : v # w => worker'[v] = worker[v]
         /\ NoPanic' => NoPanic
         /\ where # "panicked" => NoPanic' = NoPanic
         /\ PoolGone' <=> where \in {"done", "panicked"} /\ \A v \in Workers \ {w} : Gone(v)
<1>1. worker \in [Workers -> {"recv", "pop", "post", "sent", "backoff", "done", "panicked"}]
  BY DEF TypeOK
<1>2. worker'[w] = where /\ \A v \in Workers : v # w => worker'[v] = worker[v]
  BY <1>1 DEF Goto
<1>3. worker[w] # "panicked" /\ worker[w] # "done"
  BY DEF Gone
<1>4. ~PoolGone /\ writer # "done"
  BY DEF PoolGone, Phases
<1>5. NoPanic' => NoPanic
  BY <1>2, <1>3 DEF NoPanic
<1>6. where # "panicked" => (NoPanic' <=> NoPanic)
  BY <1>2, <1>3 DEF NoPanic
<1>7. PoolGone' <=> where \in {"done", "panicked"} /\ \A v \in Workers \ {w} : Gone(v)
  BY <1>2 DEF PoolGone, Gone
<1> QED
  BY <1>2, <1>4, <1>5, <1>6, <1>7 DEF NoPanic

\* The places where a worker is at work.
LEMMA AtWork ==
  ASSUME NEW w \in Workers, worker[w] \in {"recv", "pop", "post", "sent", "backoff"}
  PROVE  ~Gone(w)
BY DEF Gone

\* A batch is settled: every entity of it is counted, what failed is on record.
LEMMA Settling ==
  ASSUME IInv, NEW w \in Workers, worker[w] \in {"post", "sent", "backoff"},
         NEW n \in Nat, NEW k \in Nat, NEW note \in BOOLEAN, Settle(w, n, k, note),
         n + k = Len(batch[w]), k > 0 => note \/ shutdown,
         UNCHANGED <<stack, uncounted>>, accepted' \subseteq accepted \cup ToSet(batch[w]), excess' \in Nat
  PROVE  IInv'
<1>1. TypeOK /\ Phases /\ OneHolder /\ Accounts /\ Noted
  BY DEF IInv
<1>2. /\ written' = written + n /\ failed' = failed + k /\ recorded' = (recorded \/ note)
      /\ batch' = [batch EXCEPT ![w] = <<>>] /\ Goto(w, "pop")
      /\ UNCHANGED <<shutdown, writer, given, front, batchSize, job, result, queue, attempt>>
  BY DEF Settle, writerVars
<1>3. /\ batch \in [Workers -> Batches] /\ stack \in [Workers -> Seq(Batches)] /\ queue \in Seq(Batches)
      /\ worker \in [Workers -> {"recv", "pop", "post", "sent", "backoff", "done", "panicked"}]
      /\ written \in Nat /\ failed \in Nat
  BY <1>1 DEF TypeOK
<1>4. batch'[w] = <<>> /\ \A v \in Workers : v # w => batch'[v] = batch[v] /\ stack'[v] = stack[v]
  BY <1>2, <1>3
<1>5. /\ Distinct(batch[w]) /\ Tidy(stack[w]) /\ Tidy(queue)
      /\ ToSet(batch[w]) \cap Contents(stack[w]) = {} /\ WorkerHand(w) \cap Contents(queue) = {}
  BY <1>1 DEF OneHolder
<1>6. ToSet(batch'[w]) = {} /\ Distinct(batch'[w])
  BY <1>4, EmptyBatch
<1>7. WorkerHand(w)' = Contents(stack[w]) /\ WorkerHand(w) = ToSet(batch[w]) \cup Contents(stack[w])
  BY <1>6 DEF WorkerHand
<1>8. /\ OneHolder'
      /\ InHand' = (InHand \ (Contents(queue) \cup WorkerHand(w))) \cup Contents(queue') \cup WorkerHand(w)'
  BY <1>1, <1>2, <1>4, <1>5, <1>6, <1>7, WorkerHolds
<1>9. ToSet(batch[w]) \subseteq InHand /\ InHand' = InHand \ ToSet(batch[w])
  BY <1>2, <1>5, <1>7, <1>8, InHandIs
<1>10. Cardinality(ToSet(batch[w])) = Len(batch[w]) /\ Len(batch[w]) \in Nat
  BY <1>3, <1>5, BatchSize, ToSetIs
<1>11. /\ writer # "done" /\ worker'[w] = "pop" /\ (NoPanic' => NoPanic) /\ ~PoolGone'
       /\ \A v \in Workers : v # w => worker'[v] = worker[v]
  BY <1>1, <1>2, AtWork, WorkerMoves
<1>12. written' \in Nat /\ failed' \in Nat /\ written' + failed' = written + failed + (n + k)
  BY <1>2, <1>3
<1>13. Accounts' /\ accepted' \subseteq given' /\ uncounted' \in Nat
  <2>1. /\ n + k \in Nat /\ 0 \in Nat /\ n + k + 0 = Cardinality(ToSet(batch[w])) /\ ~(0 > 0)
        /\ uncounted' = uncounted + 0
    BY <1>1, <1>10 DEF TypeOK
  <2>2. ~shutdown' /\ NoPanic' => ~shutdown /\ NoPanic
    BY <1>2, <1>11
  <2>3. given' = given
    BY <1>2
  <2> DEFINE m == n + k
             S == ToSet(batch[w])
  <2>4. /\ m \in Nat /\ m + 0 = Cardinality(S) /\ S \subseteq InHand /\ InHand' = InHand \ S
        /\ written' + failed' = written + failed + m /\ accepted' \subseteq accepted \cup S
    BY <1>9, <1>12, <2>1
  <2> HIDE DEF m, S
  <2> QED
    BY <1>1, <1>12, <2>1, <2>2, <2>3, <2>4, Counting
<1>14. Phases'
  <2>1. \A v \in Workers : stack'[v] = stack[v]
    OBVIOUS
  <2>2. ASSUME NEW v \in Workers
        PROVE  /\ worker'[v] \in {"recv", "done", "panicked"} => stack'[v] = <<>>
               /\ worker'[v] \in {"recv", "pop", "done", "panicked"} => batch'[v] = <<>>
    BY <1>1, <1>4, <1>11, <2>1 DEF Phases
  <2> QED
    BY <1>1, <1>2, <1>11, <2>2 DEF Phases
<1>15. Noted'
  <2>1. failed' > 0 => failed > 0 \/ k > 0
    BY <1>2, <1>3
  <2>2. writer' # "done" /\ shutdown' = shutdown
    BY <1>2, <1>11
  <2>3. ~shutdown /\ failed > 0 => recorded
    BY <1>1 DEF Noted
  <2>4. ~shutdown /\ failed' > 0 => recorded'
    BY <1>2, <2>1, <2>3
  <2> QED
    BY <2>2, <2>4 DEF Noted
<1>16. TypeOK'
  <2>1. batch' \in [Workers -> Batches]
    BY <1>2, <1>3, EmptyBatch
  <2>2. worker' \in [Workers -> {"recv", "pop", "post", "sent", "backoff", "done", "panicked"}]
    BY <1>2, <1>3 DEF Goto
  <2>3. recorded' \in BOOLEAN
    BY <1>1, <1>2 DEF TypeOK
  <2> QED
    BY <1>1, <1>2, <1>12, <1>13, <2>1, <2>2, <2>3 DEF TypeOK
<1> QED
  BY <1>8, <1>13, <1>14, <1>15, <1>16 DEF IInv

\* Where a worker goes, it holds no more than Phases allows there.
LEMMA PhasesAfter ==
  ASSUME TypeOK, Phases, NEW w \in Workers, ~Gone(w), NEW where, Goto(w, where),
         UNCHANGED <<writer, front, job>>,
         \A v \in Workers : v # w => batch'[v] = batch[v] /\ stack'[v] = stack[v],
         where \in {"recv", "done", "panicked"} => stack'[w] = <<>>,
         where \in {"recv", "pop", "done", "panicked"} => batch'[w] = <<>>,
         where \in {"done", "panicked"} /\ (\A v \in Workers \ {w} : Gone(v)) => queue' = <<>>
  PROVE  Phases'
<1>1. /\ writer # "done" /\ worker'[w] = where
      /\ \A v \in Workers : v # w => worker'[v] = worker[v]
      /\ PoolGone' <=> where \in {"done", "panicked"} /\ \A v \in Workers \ {w} : Gone(v)
  BY WorkerMoves
<1>2. ASSUME NEW v \in Workers
      PROVE  /\ worker'[v] \in {"recv", "done", "panicked"} => stack'[v] = <<>>
             /\ worker'[v] \in {"recv", "pop", "done", "panicked"} => batch'[v] = <<>>
  BY <1>1 DEF Phases
<1>3. PoolGone' => queue' = <<>>
  BY <1>1
<1>4. /\ writer' \notin {"send", "flush"} => job' = <<>>
      /\ writer' # "write" => front' = <<>>
      /\ writer' # "done"
  BY <1>1 DEF Phases
<1> QED
  BY <1>2, <1>3, <1>4 DEF Phases

\* A step of a worker that moves it, and no entity.
LEMMA Moving ==
  ASSUME IInv, NEW w \in Workers, ~Gone(w),
         NEW where \in {"recv", "pop", "post", "sent", "backoff", "done"}, Goto(w, where),
         UNCHANGED <<shutdown, writerVars, queue, stack, batch, counters, history>>,
         attempt' \in [Workers -> Nat], \A v \in Workers : attempt'[v] = 0 \/ attempt'[v] < MaxRetries,
         where \in {"recv", "done"} => stack[w] = <<>>,
         where \in {"recv", "pop", "done"} => batch[w] = <<>>,
         where = "done" => queue = <<>>
  PROVE  IInv'
<1>1. TypeOK /\ Phases /\ OneHolder /\ Accounts /\ Noted
  BY DEF IInv
<1>2. /\ UNCHANGED <<shutdown, writer, given, front, batchSize, job, result, queue, stack, batch>>
      /\ UNCHANGED <<written, failed, recorded, accepted, excess, uncounted>>
  BY DEF writerVars, counters, history
<1>3. WriterHand' = WriterHand /\ InHand' = InHand /\ OneHolder' = OneHolder
  BY <1>2 DEF WriterHand, InHand, WorkerHand, OneHolder
<1>4. NoPanic' = NoPanic /\ writer # "done"
  BY <1>1, WorkerMoves
<1>5. Phases'
  BY <1>1, <1>2, PhasesAfter
<1>6. worker' \in [Workers -> {"recv", "pop", "post", "sent", "backoff", "done", "panicked"}]
  BY <1>1 DEF TypeOK, Goto
<1>7. TypeOK'
  BY <1>1, <1>2, <1>6 DEF TypeOK
<1>8. Accounts'
  BY <1>1, <1>2, <1>3, <1>4 DEF Accounts
<1>9. Noted'
  BY <1>1, <1>2 DEF Noted
<1> QED
  BY <1>1, <1>3, <1>5, <1>7, <1>8, <1>9 DEF IInv

\* A batch goes back on the stack in two halves.
LEMMA Splitting ==
  ASSUME IInv, NEW w \in Workers, worker[w] = "sent", Split(w), UNCHANGED history
  PROVE  IInv'
<1> DEFINE n == Len(batch[w])
<1>1. TypeOK /\ Phases /\ OneHolder /\ Accounts /\ Noted
  BY DEF IInv
<1>2. /\ batch \in [Workers -> Batches] /\ stack \in [Workers -> Seq(Batches)] /\ queue \in Seq(Batches)
      /\ written \in Nat /\ failed \in Nat /\ batch[w] \in Batches /\ stack[w] \in Seq(Batches)
  BY <1>1 DEF TypeOK
<1>3. n \in Nat
  BY <1>2, ToSetIs
<1>4. CASE ~(n > 1)
  <2>1. Settle(w, 0, n, TRUE) /\ UNCHANGED <<stack, accepted, excess, uncounted>>
    BY <1>4 DEF Split, history
  <2>2. 0 \in Nat /\ TRUE \in BOOLEAN /\ 0 + n = Len(batch[w]) /\ excess' \in Nat
    BY <1>1, <1>3, <2>1 DEF TypeOK
  <2> HIDE DEF n
  <2> QED
    BY <1>3, <2>1, <2>2, Settling
<1>5. CASE n > 1
  <2> DEFINE r == stack[w] \o <<SubSeq(batch[w], (n \div 2) + 1, n), SubSeq(batch[w], 1, n \div 2)>>
  <2>1. Settle(w, 0, 0, TRUE) /\ stack' = [stack EXCEPT ![w] = r]
    BY <1>5 DEF Split
  <2>2. /\ r \in Seq(Batches) /\ Contents(r) = Contents(stack[w]) \cup ToSet(batch[w])
        /\ Tidy(stack[w]) /\ Distinct(batch[w]) /\ Contents(stack[w]) \cap ToSet(batch[w]) = {} => Tidy(r)
    BY <1>2, <1>5, PushHalves
  <2> HIDE DEF r, n
  <2>3. /\ written' = written + 0 /\ failed' = failed + 0 /\ recorded' = TRUE
        /\ batch' = [batch EXCEPT ![w] = <<>>] /\ Goto(w, "pop")
        /\ UNCHANGED <<shutdown, writer, given, front, batchSize, job, result, queue, attempt>>
    BY <2>1 DEF Settle, writerVars
  <2>4. written' = written /\ failed' = failed /\ UNCHANGED <<accepted, excess, uncounted>>
    BY <1>2, <2>3 DEF history
  <2>5. /\ batch'[w] = <<>> /\ stack'[w] = r
        /\ \A v \in Workers : v # w => batch'[v] = batch[v] /\ stack'[v] = stack[v]
    BY <1>2, <2>1, <2>3
  <2>6. /\ Distinct(batch[w]) /\ Tidy(stack[w]) /\ Tidy(queue)
        /\ ToSet(batch[w]) \cap Contents(stack[w]) = {} /\ WorkerHand(w) \cap Contents(queue) = {}
    BY <1>1 DEF OneHolder
  <2>7. ToSet(batch'[w]) = {} /\ Distinct(batch'[w]) /\ Tidy(stack'[w])
    BY <2>2, <2>5, <2>6, EmptyBatch
  <2>8. WorkerHand(w)' = WorkerHand(w)
    BY <2>2, <2>5, <2>7 DEF WorkerHand
  <2>9. /\ OneHolder'
        /\ InHand' = (InHand \ (Contents(queue) \cup WorkerHand(w))) \cup Contents(queue') \cup WorkerHand(w)'
    BY <1>1, <2>3, <2>5, <2>6, <2>7, <2>8, WorkerHolds
  <2>10. InHand' = InHand
    BY <2>3, <2>8, <2>9, InHandIs
  <2>11. writer # "done" /\ NoPanic' = NoPanic
    BY <1>1, <2>3, AtWork, WorkerMoves
  <2>12. Phases'
    BY <1>1, <2>3, <2>5, AtWork, PhasesAfter
  <2>13. TypeOK'
    <3>1. batch' \in [Workers -> Batches]
      BY <1>2, <2>3, EmptyBatch
    <3>2. worker' \in [Workers -> {"recv", "pop", "post", "sent", "backoff", "done", "panicked"}]
      BY <1>1, <2>3 DEF Goto, TypeOK
    <3>3. stack' \in [Workers -> Seq(Batches)]
      BY <1>2, <2>1, <2>2
    <3> QED
      BY <1>1, <2>3, <2>4, <3>1, <3>2, <3>3 DEF TypeOK
  <2>14. Accounts'
    BY <1>1, <2>3, <2>4, <2>10, <2>11 DEF Accounts
  <2>15. Noted'
    BY <2>3, <2>11 DEF Noted
  <2> QED
    BY <2>9, <2>12, <2>13, <2>14, <2>15 DEF IInv
<1> QED
  BY <1>4, <1>5

\* The entries of a list are at least its ids, and none when it names nothing.
LEMMA ListSize ==
  ASSUME NEW T, IsFiniteSet(T), NEW l \in Lists(T)
  PROVE  /\ IsFiniteSet(l.ids) /\ Cardinality(l.ids) \in Nat /\ Entries(l) \in Nat
         /\ Cardinality(l.ids) <= Entries(l)
         /\ Entries(l) > 0 => l.ids # {}
<1>1. l.ids \subseteq T /\ l.repeats \in Nat /\ (l.ids = {} => l.repeats = 0)
  BY DeliveryAssumption DEF Lists
<1>2. IsFiniteSet(l.ids) /\ Cardinality(l.ids) \in Nat
  BY <1>1, FS_Subset, FS_CardinalityType
<1>3. l.ids = {} => Cardinality(l.ids) = 0
  BY FS_EmptySet
<1> QED
  BY <1>1, <1>2, <1>3 DEF Entries

\* What reconcile counts adds up to the batch, whatever the two lists of the answer
\* hold; a failure it counts is one it can name; and it counts no more entities as
\* written than the answer accepts, but for what a balanced body overstates.
LEMMA ReconcileAddsUp ==
  ASSUME NEW b \in Batches, Distinct(b), NEW T, IsFiniteSet(T),
         NEW success \in Lists(T), NEW errors \in Lists(T)
  PROVE  LET counted == Reconcile(b, success, errors)
         IN /\ counted.written \in Nat /\ counted.failed \in Nat
            /\ Overstated(b, success, errors) \in Nat
            /\ counted.written + counted.failed = Len(b)
            /\ counted.failed > 0 => errors.ids # {} \/ counted.unaccounted # {}
            /\ counted.written <= Cardinality(success.ids \cap ToSet(b)) + Overstated(b, success, errors)
<1> DEFINE total == Len(b)
           u == ToSet(b) \ (success.ids \cup errors.ids)
           a == success.ids \cap ToSet(b)
           cs == Entries(success)
           ce == Entries(errors)
           ca == Cardinality(a)
           cu == Cardinality(u)
           bad == AtMost(ce + cu, total)
<1>1. total \in Nat /\ IsFiniteSet(ToSet(b)) /\ Cardinality(ToSet(b)) = total
  BY ToSetIs, BatchSize
<1>2. /\ IsFiniteSet(success.ids) /\ Cardinality(success.ids) \in Nat /\ Cardinality(success.ids) <= cs
      /\ IsFiniteSet(errors.ids) /\ Cardinality(errors.ids) \in Nat /\ Cardinality(errors.ids) <= ce
      /\ cs \in Nat /\ ce \in Nat /\ (ce > 0 => errors.ids # {})
  BY ListSize
<1>3. IsFiniteSet(u) /\ IsFiniteSet(a) /\ ca \in Nat /\ cu \in Nat /\ ca <= cs
  <2>1. IsFiniteSet(u) /\ IsFiniteSet(a) /\ ca <= Cardinality(success.ids)
    BY <1>1, <1>2, FS_Subset
  <2>2. ca \in Nat /\ cu \in Nat
    BY <2>1, FS_CardinalityType
  <2> HIDE DEF ca, cs, cu
  <2> QED
    BY <1>2, <2>1, <2>2
<1>4. total <= ca + ce + cu
  <2> DEFINE se == a \cup errors.ids
             all == u \cup se
  <2>1. IsFiniteSet(se) /\ Cardinality(se) <= ca + ce
    <3>1. IsFiniteSet(se) /\ Cardinality(se) = ca + Cardinality(errors.ids) - Cardinality(a \cap errors.ids)
      BY <1>2, <1>3, FS_Union
    <3>2. Cardinality(a \cap errors.ids) \in Nat
      BY <1>2, <1>3, FS_Intersection, FS_CardinalityType
    <3> HIDE DEF ca, ce, se, a
    <3> QED
      BY <1>2, <1>3, <3>1, <3>2
  <2>2. Cardinality(se) \in Nat
    BY <2>1, FS_CardinalityType
  <2>3. IsFiniteSet(all) /\ Cardinality(all) = cu + Cardinality(se) - Cardinality(u \cap se)
    BY <1>3, <2>1, FS_Union
  <2>4. Cardinality(u \cap se) \in Nat
    BY <1>3, FS_Intersection, FS_CardinalityType
  <2>5. ToSet(b) \subseteq all
    OBVIOUS
  <2>6. Cardinality(ToSet(b)) <= Cardinality(all)
    BY <2>3, <2>5, FS_Subset
  <2>7. Cardinality(all) \in Nat
    BY <2>3, FS_CardinalityType
  <2> HIDE DEF se, all, cs, ce, ca, cu, u, a
  <2> QED
    BY <1>1, <1>2, <1>3, <2>1, <2>2, <2>3, <2>4, <2>6, <2>7
<1>5. ce + cu > 0 => errors.ids # {} \/ u # {}
  <2>1. Cardinality({}) = 0
    BY FS_EmptySet
  <2> HIDE DEF ce
  <2> QED
    BY <1>2, <1>3, <2>1
<1> DEFINE counted == Reconcile(b, success, errors)
           k == Overstated(b, success, errors)
<1>6. CASE cs + ce = total
  <2>1. counted.written = cs /\ counted.failed = ce /\ k = cs - ca
    BY <1>6 DEF Reconcile, Balanced, Overstated
  <2> HIDE DEF counted, k, cs, ce, ca, total
  <2>2. /\ counted.written \in Nat /\ counted.failed \in Nat /\ k \in Nat
        /\ counted.written + counted.failed = total /\ counted.written <= ca + k
        /\ counted.failed > 0 => errors.ids # {}
    BY <1>2, <1>3, <1>6, <2>1
  <2> QED
    BY <2>2 DEF total, ca, k, counted
<1>7. CASE cs + ce # total
  <2>1. /\ counted.written = AtMost(cs, total - bad) /\ counted.failed = bad /\ counted.unaccounted = u
        /\ k = 0
    BY <1>7 DEF Reconcile, Balanced, Overstated
  <2> HIDE DEF counted, k, total, u, a, cs, ce, ca, cu
  <2>2. /\ bad \in Nat /\ bad <= total /\ bad <= ce + cu /\ total - bad <= ca
        /\ total - bad \in Nat /\ AtMost(cs, total - bad) = total - bad
    BY <1>1, <1>2, <1>3, <1>4 DEF AtMost
  <2> HIDE DEF bad
  <2>3. /\ counted.written \in Nat /\ counted.failed \in Nat /\ k \in Nat
        /\ counted.written + counted.failed = total /\ counted.written <= ca + k
    BY <1>1, <1>3, <2>1, <2>2
  <2>4. counted.failed > 0 => errors.ids # {} \/ counted.unaccounted # {}
    BY <1>2, <1>3, <1>5, <2>1, <2>2
  <2> QED
    BY <2>3, <2>4 DEF total, ca, a, k, counted
<1> QED
  BY <1>6, <1>7

\* The top batch of the stack becomes the current one.
LEMMA PopKeeps ==
  ASSUME IInv, NEW w \in Workers, Pop(w)
  PROVE  IInv'
<1>1. TypeOK /\ Phases /\ OneHolder /\ Accounts /\ Noted
  BY DEF IInv
<1>2. /\ batch \in [Workers -> Batches] /\ stack \in [Workers -> Seq(Batches)]
      /\ attempt \in [Workers -> Nat] /\ stack[w] \in Seq(Batches)
  BY <1>1 DEF TypeOK
<1>3. /\ worker[w] = "pop" /\ stack[w] # <<>> /\ Goto(w, "post")
      /\ batch' = [batch EXCEPT ![w] = Last(stack[w])] /\ stack' = [stack EXCEPT ![w] = Front(stack[w])]
      /\ attempt' = [attempt EXCEPT ![w] = 0]
      /\ UNCHANGED <<shutdown, writer, given, front, batchSize, job, result, queue>>
      /\ UNCHANGED <<written, failed, recorded, accepted, excess, uncounted>>
  BY DEF Pop, writerVars, counters, history
<1>4. /\ batch'[w] = Last(stack[w]) /\ stack'[w] = Front(stack[w])
      /\ \A v \in Workers : v # w => batch'[v] = batch[v] /\ stack'[v] = stack[v]
  BY <1>2, <1>3
<1>5. Tidy(stack[w]) /\ Tidy(queue) /\ WorkerHand(w) \cap Contents(queue) = {}
  BY <1>1 DEF OneHolder
<1>6. /\ batch'[w] \in Batches /\ stack'[w] \in Seq(Batches)
      /\ Contents(stack[w]) = ToSet(batch'[w]) \cup Contents(stack'[w])
      /\ Distinct(batch'[w]) /\ Tidy(stack'[w]) /\ ToSet(batch'[w]) \cap Contents(stack'[w]) = {}
  BY <1>2, <1>3, <1>4, <1>5, TakeLast
<1>7. ToSet(batch[w]) = {}
  BY <1>1, <1>3, EmptyBatch DEF Phases
<1>8. WorkerHand(w)' = WorkerHand(w)
  BY <1>6, <1>7 DEF WorkerHand
<1>9. /\ OneHolder'
      /\ InHand' = (InHand \ (Contents(queue) \cup WorkerHand(w))) \cup Contents(queue') \cup WorkerHand(w)'
  BY <1>1, <1>3, <1>4, <1>5, <1>6, <1>8, WorkerHolds
<1>10. InHand' = InHand
  BY <1>3, <1>8, <1>9, InHandIs
<1>11. NoPanic' = NoPanic
  BY <1>1, <1>3, AtWork, WorkerMoves
<1>12. Phases'
  BY <1>1, <1>3, <1>4, AtWork, PhasesAfter
<1>13. TypeOK'
  <2>1. batch' \in [Workers -> Batches] /\ stack' \in [Workers -> Seq(Batches)]
    BY <1>2, <1>3, <1>4, <1>6
  <2>2. worker' \in [Workers -> {"recv", "pop", "post", "sent", "backoff", "done", "panicked"}]
    BY <1>1, <1>3 DEF Goto, TypeOK
  <2>3. attempt' \in [Workers -> Nat] /\ \A v \in Workers : attempt'[v] = 0 \/ attempt'[v] < MaxRetries
    BY <1>1, <1>2, <1>3 DEF TypeOK
  <2> QED
    BY <1>1, <1>3, <2>1, <2>2, <2>3 DEF TypeOK
<1>14. Accounts'
  BY <1>1, <1>3, <1>10, <1>11 DEF Accounts
<1>15. Noted'
  BY <1>1, <1>3 DEF Noted
<1> QED
  BY <1>9, <1>12, <1>13, <1>14, <1>15 DEF IInv

\* The top batch of the stack is given up and counted.
LEMMA PopFailsKeeps ==
  ASSUME IInv, NEW w \in Workers, PopFails(w)
  PROVE  IInv'
<1> DEFINE top == Last(stack[w])
<1>1. TypeOK /\ Phases /\ OneHolder /\ Accounts /\ Noted
  BY DEF IInv
<1>2. /\ batch \in [Workers -> Batches] /\ stack \in [Workers -> Seq(Batches)]
      /\ stack[w] \in Seq(Batches) /\ written \in Nat /\ failed \in Nat
      /\ worker \in [Workers -> {"recv", "pop", "post", "sent", "backoff", "done", "panicked"}]
  BY <1>1 DEF TypeOK
<1>3. /\ worker[w] = "pop" /\ stack[w] # <<>>
      /\ failed' = failed + Len(top) /\ recorded' \in {recorded \/ ~shutdown, TRUE}
      /\ stack' = [stack EXCEPT ![w] = Front(stack[w])]
      /\ UNCHANGED <<shutdown, writer, given, front, batchSize, job, result, queue>>
      /\ UNCHANGED <<worker, batch, attempt, written, accepted, excess, uncounted>>
  BY DEF PopFails, writerVars, history
<1>4. /\ stack'[w] = Front(stack[w])
      /\ \A v \in Workers : v # w => batch'[v] = batch[v] /\ stack'[v] = stack[v]
  BY <1>2, <1>3
<1>5. Tidy(stack[w]) /\ Tidy(queue) /\ WorkerHand(w) \cap Contents(queue) = {}
  BY <1>1 DEF OneHolder
<1>6. /\ top \in Batches /\ stack'[w] \in Seq(Batches)
      /\ Contents(stack[w]) = ToSet(top) \cup Contents(stack'[w])
      /\ Distinct(top) /\ Tidy(stack'[w]) /\ ToSet(top) \cap Contents(stack'[w]) = {}
  BY <1>2, <1>3, <1>4, <1>5, TakeLast
<1> HIDE DEF top
<1>7. batch[w] = <<>> /\ ToSet(batch'[w]) = {} /\ ToSet(batch[w]) = {} /\ Distinct(batch'[w])
  BY <1>1, <1>3, EmptyBatch DEF Phases
<1>8. WorkerHand(w)' = Contents(stack'[w]) /\ WorkerHand(w) = ToSet(top) \cup Contents(stack'[w])
  BY <1>6, <1>7 DEF WorkerHand
<1>9. /\ OneHolder'
      /\ InHand' = (InHand \ (Contents(queue) \cup WorkerHand(w))) \cup Contents(queue') \cup WorkerHand(w)'
  BY <1>1, <1>3, <1>4, <1>5, <1>6, <1>7, <1>8, WorkerHolds
<1>10. ToSet(top) \subseteq InHand /\ InHand' = InHand \ ToSet(top)
  BY <1>3, <1>5, <1>6, <1>8, <1>9, InHandIs
<1>11. Cardinality(ToSet(top)) = Len(top) /\ Len(top) \in Nat
  BY <1>6, BatchSize, ToSetIs
<1>12. ~Gone(w) /\ Goto(w, "pop")
  BY <1>2, <1>3 DEF Gone, Goto
<1>13. writer # "done" /\ NoPanic' = NoPanic
  BY <1>1, <1>12, WorkerMoves
<1>14. written' \in Nat /\ failed' \in Nat /\ written' + failed' = written + failed + Len(top)
  BY <1>2, <1>3, <1>11
<1>15. Accounts' /\ accepted' \subseteq given' /\ uncounted' \in Nat
  <2>1. /\ Len(top) + 0 = Cardinality(ToSet(top)) /\ 0 \in Nat /\ ~(0 > 0) /\ uncounted' = uncounted + 0
        /\ given' = given /\ accepted' \subseteq accepted \cup ToSet(top)
    BY <1>1, <1>3, <1>11 DEF TypeOK
  <2>2. ~shutdown' /\ NoPanic' => ~shutdown /\ NoPanic
    BY <1>3, <1>13
  <2> QED
    BY <1>1, <1>10, <1>11, <1>14, <2>1, <2>2, Counting
<1>16. Phases'
  BY <1>1, <1>3, <1>4, <1>7, <1>12, PhasesAfter
<1>17. TypeOK'
  <2>1. stack' \in [Workers -> Seq(Batches)]
    BY <1>2, <1>3, <1>4, <1>6
  <2>2. recorded' \in BOOLEAN
    BY <1>1, <1>3 DEF TypeOK
  <2> QED
    BY <1>1, <1>3, <1>14, <2>1, <2>2 DEF TypeOK
<1>18. Noted'
  BY <1>3, <1>13 DEF Noted
<1> QED
  BY <1>9, <1>15, <1>16, <1>17, <1>18 DEF IInv

\* A queue of one batch.
LEMMA Single ==
  ASSUME NEW b \in Batches
  PROVE  /\ <<b>> \in Seq(Batches) /\ Contents(<<b>>) = ToSet(b)
         /\ Distinct(b) => Tidy(<<b>>)
<1>1. <<b>> = Append(<<>>, b)
  OBVIOUS
<1> QED
  BY <1>1, EmptyQueue, AppendBatch

\* A worker takes a batch off the channel.
LEMMA RecvJobKeeps ==
  ASSUME IInv, NEW w \in Workers, RecvJob(w)
  PROVE  IInv'
<1> DEFINE first == Head(queue)
<1>1. TypeOK /\ Phases /\ OneHolder /\ Accounts /\ Noted
  BY DEF IInv
<1>2. /\ batch \in [Workers -> Batches] /\ stack \in [Workers -> Seq(Batches)]
      /\ queue \in Seq(Batches) /\ Len(queue) <= Capacity
  BY <1>1 DEF TypeOK
<1>3. /\ worker[w] = "recv" /\ queue # <<>> /\ queue' = Tail(queue) /\ Goto(w, "pop")
      /\ stack' = [stack EXCEPT ![w] = <<first>>]
      /\ UNCHANGED <<shutdown, writer, given, front, batchSize, job, result>>
      /\ UNCHANGED <<batch, attempt, written, failed, recorded, accepted, excess, uncounted>>
  BY DEF RecvJob, writerVars, counters, history
<1>4. stack'[w] = <<first>> /\ \A v \in Workers : v # w => batch'[v] = batch[v] /\ stack'[v] = stack[v]
  BY <1>2, <1>3
<1>5. Tidy(queue) /\ WorkerHand(w) \cap Contents(queue) = {}
  BY <1>1 DEF OneHolder
<1>6. /\ first \in Batches /\ queue' \in Seq(Batches) /\ Len(queue') = Len(queue) - 1 /\ Len(queue) \in Nat
      /\ Contents(queue) = ToSet(first) \cup Contents(queue')
      /\ Distinct(first) /\ Tidy(queue') /\ ToSet(first) \cap Contents(queue') = {}
  BY <1>2, <1>3, <1>5, TakeFirst
<1> HIDE DEF first
<1>7. /\ ToSet(batch'[w]) = {} /\ ToSet(batch[w]) = {} /\ Distinct(batch'[w])
      /\ stack[w] = <<>> /\ Contents(stack[w]) = {} /\ batch'[w] = <<>>
  BY <1>1, <1>3, EmptyBatch, EmptyQueue DEF Phases
<1>8. <<first>> \in Seq(Batches) /\ Contents(<<first>>) = ToSet(first) /\ Tidy(<<first>>)
  BY <1>6, Single
<1>9. WorkerHand(w)' = ToSet(first) /\ WorkerHand(w) = {}
  BY <1>4, <1>7, <1>8 DEF WorkerHand
<1>10. /\ OneHolder'
       /\ InHand' = (InHand \ (Contents(queue) \cup WorkerHand(w))) \cup Contents(queue') \cup WorkerHand(w)'
  <2>1. Tidy(stack'[w]) /\ ToSet(batch'[w]) \cap Contents(stack'[w]) = {}
    BY <1>4, <1>7, <1>8
  <2>2. /\ Contents(queue') \subseteq Contents(queue)
        /\ WorkerHand(w)' \subseteq WorkerHand(w) \cup Contents(queue)
        /\ WorkerHand(w)' \cap Contents(queue') = {}
    BY <1>6, <1>9
  <2>3. UNCHANGED <<front, job>>
    BY <1>3
  <2> QED
    BY <1>1, <1>4, <1>6, <1>7, <2>1, <2>2, <2>3, WorkerHolds
<1>11. InHand' = InHand
  BY <1>6, <1>9, <1>10, InHandIs
<1>12. NoPanic' = NoPanic
  BY <1>1, <1>3, AtWork, WorkerMoves
<1>13. Phases'
  BY <1>1, <1>3, <1>4, <1>7, AtWork, PhasesAfter
<1>14. TypeOK'
  <2>1. stack' \in [Workers -> Seq(Batches)]
    BY <1>2, <1>3, <1>8
  <2>2. worker' \in [Workers -> {"recv", "pop", "post", "sent", "backoff", "done", "panicked"}]
    BY <1>1, <1>3 DEF Goto, TypeOK
  <2>3. queue' \in Seq(Batches) /\ Len(queue') <= Capacity
    BY <1>2, <1>6, Constants
  <2> QED
    BY <1>1, <1>3, <2>1, <2>2, <2>3 DEF TypeOK
<1>15. Accounts'
  BY <1>1, <1>3, <1>11, <1>12 DEF Accounts
<1>16. Noted'
  BY <1>1, <1>3 DEF Noted
<1> QED
  BY <1>10, <1>13, <1>14, <1>15, <1>16 DEF IInv

\* What the channel still holds after a receiver has gone.
LEMMA QueueLeft ==
  ASSUME NEW w \in Workers, NEW rest \in Seq(Batches), Tidy(rest)
  PROVE  /\ QueueAfter(w, rest) \in Seq(Batches) /\ Tidy(QueueAfter(w, rest))
         /\ Contents(QueueAfter(w, rest)) \subseteq Contents(rest)
         /\ QueueAfter(w, rest) = <<>> \/ QueueAfter(w, rest) = rest
         /\ (\A v \in Workers \ {w} : Gone(v)) => QueueAfter(w, rest) = <<>>
         /\ Contents(rest) = Contents(QueueAfter(w, rest)) \cup DroppedWith(w, rest)
         /\ Contents(QueueAfter(w, rest)) \cap DroppedWith(w, rest) = {}
<1>1. CASE LastToGo(w)
  BY <1>1, EmptyQueue DEF QueueAfter, DroppedWith
<1>2. CASE ~LastToGo(w)
  BY <1>2 DEF QueueAfter, DroppedWith, LastToGo
<1> QED
  BY <1>1, <1>2

\* A worker that sees the shutdown counts the batch it took and goes.
LEMMA RecvShutdownKeeps ==
  ASSUME IInv, NEW w \in Workers, RecvShutdown(w)
  PROVE  IInv'
<1> DEFINE first == Head(queue)
           rest == Tail(queue)
           dropped == DroppedWith(w, rest)
           S == ToSet(first) \cup dropped
<1>1. TypeOK /\ Phases /\ OneHolder /\ Accounts /\ Noted
  BY DEF IInv
<1>2. /\ batch \in [Workers -> Batches] /\ stack \in [Workers -> Seq(Batches)]
      /\ queue \in Seq(Batches) /\ Len(queue) <= Capacity /\ written \in Nat /\ failed \in Nat
  BY <1>1 DEF TypeOK
<1>3. /\ worker[w] = "recv" /\ shutdown /\ queue # <<>> /\ queue' = QueueAfter(w, rest)
      /\ failed' = failed + Len(first) /\ Goto(w, "done")
      /\ uncounted' = uncounted + Cardinality(dropped)
      /\ UNCHANGED <<shutdown, writer, given, front, batchSize, job, result>>
      /\ UNCHANGED <<stack, batch, attempt, written, recorded, accepted, excess>>
  BY DEF RecvShutdown, writerVars
<1>4. Tidy(queue) /\ WorkerHand(w) \cap Contents(queue) = {}
  BY <1>1 DEF OneHolder
<1>5. /\ first \in Batches /\ rest \in Seq(Batches) /\ Len(rest) = Len(queue) - 1 /\ Len(queue) \in Nat
      /\ Contents(queue) = ToSet(first) \cup Contents(rest)
      /\ Distinct(first) /\ Tidy(rest) /\ ToSet(first) \cap Contents(rest) = {}
  BY <1>2, <1>3, <1>4, TakeFirst
<1> HIDE DEF first, rest
<1>6. /\ queue' \in Seq(Batches) /\ Tidy(queue') /\ Contents(queue') \subseteq Contents(rest)
      /\ queue' = <<>> \/ queue' = rest
      /\ (\A v \in Workers \ {w} : Gone(v)) => queue' = <<>>
      /\ Contents(rest) = Contents(queue') \cup dropped /\ Contents(queue') \cap dropped = {}
  BY <1>3, <1>5, QueueLeft
<1> HIDE DEF dropped
<1>7. /\ batch'[w] = <<>> /\ stack'[w] = <<>> /\ batch[w] = <<>> /\ stack[w] = <<>>
  BY <1>1, <1>3 DEF Phases
<1>8. WorkerHand(w)' = {} /\ WorkerHand(w) = {} /\ Distinct(batch'[w]) /\ Tidy(stack'[w])
  BY <1>7, EmptyBatch, EmptyQueue DEF WorkerHand
<1>9. ToSet(batch'[w]) \cap Contents(stack'[w]) = {}
  BY <1>7, EmptyBatch
<1>10. /\ OneHolder'
       /\ InHand' = (InHand \ (Contents(queue) \cup WorkerHand(w))) \cup Contents(queue') \cup WorkerHand(w)'
  BY <1>1, <1>3, <1>5, <1>6, <1>8, <1>9, WorkerHolds
<1>11. S \subseteq InHand /\ InHand' = InHand \ S
  BY <1>5, <1>6, <1>8, <1>10, InHandIs
<1>12. Cardinality(ToSet(first)) = Len(first) /\ Len(first) \in Nat
  BY <1>5, BatchSize, ToSetIs
<1>13. Cardinality(dropped) \in Nat /\ Len(first) + Cardinality(dropped) = Cardinality(S)
  <2>1. IsFiniteSet(InHand)
    BY <1>1, FiniteHand DEF Accounts
  <2>2. IsFiniteSet(ToSet(first)) /\ IsFiniteSet(dropped)
    BY <1>11, <2>1, FS_Subset
  <2>3. ToSet(first) \cap dropped = {}
    BY <1>5, <1>6
  <2> QED
    BY <1>12, <2>2, <2>3, TwoParts
<1>14. written' \in Nat /\ failed' \in Nat /\ written' + failed' = written + failed + Len(first)
  BY <1>2, <1>3, <1>12
<1>15. Accounts' /\ accepted' \subseteq given' /\ uncounted' \in Nat
  <2>1. given' = given /\ accepted' \subseteq accepted \cup S /\ shutdown'
    BY <1>3
  <2> DEFINE m == Cardinality(dropped)
             n == Len(first)
  <2>2. m \in Nat /\ n \in Nat /\ n + m = Cardinality(S) /\ uncounted' = uncounted + m
    BY <1>3, <1>12, <1>13
  <2>3. written' + failed' = written + failed + n
    BY <1>14
  <2> HIDE DEF S, m, n
  <2>4. m > 0 => shutdown' \/ ~NoPanic'
    BY <2>1
  <2>5. ~shutdown' /\ NoPanic' => ~shutdown /\ NoPanic
    BY <2>1
  <2> QED
    BY <1>1, <1>11, <1>14, <2>1, <2>2, <2>3, <2>4, <2>5, Counting
<1>16. writer # "done"
  BY <1>1, <1>3, AtWork, WorkerMoves
<1>17. Phases'
  BY <1>1, <1>3, <1>6, <1>7, AtWork, PhasesAfter
<1>18. TypeOK'
  <2>1. worker' \in [Workers -> {"recv", "pop", "post", "sent", "backoff", "done", "panicked"}]
    BY <1>1, <1>3 DEF Goto, TypeOK
  <2>2. Len(queue') <= Capacity
    BY <1>2, <1>5, <1>6, Constants, EmptyBatch
  <2> QED
    BY <1>1, <1>3, <1>6, <1>14, <1>15, <2>1, <2>2 DEF TypeOK
<1>19. Noted'
  BY <1>3, <1>16 DEF Noted
<1> QED
  BY <1>10, <1>15, <1>17, <1>18, <1>19 DEF IInv

\* A worker that unwinds loses what it holds, and the last one what is queued.
LEMMA PanicKeeps ==
  ASSUME IInv, NEW w \in Workers, Panic(w)
  PROVE  IInv'
<1> DEFINE dropped == DroppedWith(w, queue)
           S == ToSet(batch[w]) \cup Contents(stack[w]) \cup dropped
<1>1. TypeOK /\ Phases /\ OneHolder /\ Accounts /\ Noted
  BY DEF IInv
<1>2. /\ batch \in [Workers -> Batches] /\ stack \in [Workers -> Seq(Batches)]
      /\ queue \in Seq(Batches) /\ Len(queue) <= Capacity /\ written \in Nat /\ failed \in Nat
  BY <1>1 DEF TypeOK
<1>3. /\ worker[w] = "sent" /\ queue' = QueueAfter(w, queue) /\ Goto(w, "panicked")
      /\ batch' = [batch EXCEPT ![w] = <<>>] /\ stack' = [stack EXCEPT ![w] = <<>>]
      /\ UNCHANGED <<shutdown, writer, given, front, batchSize, job, result>>
      /\ uncounted' = uncounted + Cardinality(S)
      /\ UNCHANGED <<attempt, written, failed, recorded, accepted, excess>>
  BY DEF Panic, writerVars, counters, history
<1>4. Tidy(queue) /\ WorkerHand(w) \cap Contents(queue) = {}
  BY <1>1 DEF OneHolder
<1>5. /\ batch'[w] = <<>> /\ stack'[w] = <<>>
      /\ \A v \in Workers : v # w => batch'[v] = batch[v] /\ stack'[v] = stack[v]
  BY <1>2, <1>3
<1>6. /\ queue' \in Seq(Batches) /\ Tidy(queue') /\ Contents(queue') \subseteq Contents(queue)
      /\ queue' = <<>> \/ queue' = queue
      /\ (\A v \in Workers \ {w} : Gone(v)) => queue' = <<>>
      /\ Contents(queue) = Contents(queue') \cup dropped /\ Contents(queue') \cap dropped = {}
  BY <1>2, <1>3, <1>4, QueueLeft
<1> HIDE DEF dropped
<1>7. WorkerHand(w)' = {} /\ Distinct(batch'[w]) /\ Tidy(stack'[w])
  BY <1>5, EmptyBatch, EmptyQueue DEF WorkerHand
<1>8. ToSet(batch'[w]) \cap Contents(stack'[w]) = {}
  BY <1>5, EmptyBatch
<1>9. /\ OneHolder'
      /\ InHand' = (InHand \ (Contents(queue) \cup WorkerHand(w))) \cup Contents(queue') \cup WorkerHand(w)'
  BY <1>1, <1>3, <1>5, <1>6, <1>7, <1>8, WorkerHolds
<1>10. S \subseteq InHand /\ InHand' = InHand \ S
  <2>1. S = WorkerHand(w) \cup dropped
    BY DEF WorkerHand
  <2> HIDE DEF S
  <2> QED
    BY <1>4, <1>6, <1>7, <1>9, <2>1, InHandIs
<1>11. writer # "done" /\ worker'[w] = "panicked"
  BY <1>1, <1>3, AtWork, WorkerMoves
<1>12. ~NoPanic'
  BY <1>11 DEF NoPanic
<1>13. Cardinality(S) \in Nat
  <2>1. IsFiniteSet(InHand)
    BY <1>1, FiniteHand DEF Accounts
  <2>2. IsFiniteSet(S)
    BY <1>10, <2>1, FS_Subset
  <2> QED
    BY <2>2, FS_CardinalityType
<1>14. written' \in Nat /\ failed' \in Nat /\ written' + failed' = written + failed + 0 /\ 0 \in Nat
  BY <1>2, <1>3
<1>15. Accounts' /\ accepted' \subseteq given' /\ uncounted' \in Nat
  <2> DEFINE m == Cardinality(S)
  <2>1. /\ given' = given /\ accepted' \subseteq accepted \cup S
        /\ m \in Nat /\ 0 + m = Cardinality(S) /\ uncounted' = uncounted + m
    BY <1>3, <1>13
  <2> HIDE DEF S, m
  <2>2. m > 0 => shutdown' \/ ~NoPanic'
    BY <1>12
  <2>3. ~shutdown' /\ NoPanic' => ~shutdown /\ NoPanic
    BY <1>12
  <2> QED
    BY <1>1, <1>10, <1>14, <2>1, <2>2, <2>3, Counting
<1>16. Phases'
  BY <1>1, <1>3, <1>5, <1>6, AtWork, PhasesAfter
<1>17. TypeOK'
  <2>1. worker' \in [Workers -> {"recv", "pop", "post", "sent", "backoff", "done", "panicked"}]
    BY <1>1, <1>3 DEF Goto, TypeOK
  <2>2. Len(queue') <= Capacity
    BY <1>2, <1>6, Constants, EmptyBatch
  <2>3. batch' \in [Workers -> Batches] /\ stack' \in [Workers -> Seq(Batches)]
    BY <1>2, <1>3, EmptyBatch, EmptyQueue
  <2> QED
    BY <1>1, <1>3, <1>6, <1>14, <1>15, <2>1, <2>2, <2>3 DEF TypeOK
<1>18. Noted'
  BY <1>1, <1>3 DEF Noted
<1> QED
  BY <1>9, <1>15, <1>16, <1>17, <1>18 DEF IInv

\* The lists a 207 answer to a worker may hold.
Named(w) == Lists(ToSet(batch[w]) \cup Strangers)

\* The ids they are made of are finitely many.
LEMMA FiniteAnswer ==
  ASSUME NEW b \in Batches, Distinct(b)
  PROVE  IsFiniteSet(ToSet(b) \cup Strangers)
BY DeliveryAssumption, BatchSize, FS_Union

\* Every answer of the broker.
LEMMA AnswerKeeps ==
  ASSUME IInv, NEW w \in Workers, Answer(w)
  PROVE  IInv'
<1>1. TypeOK /\ Phases /\ OneHolder
  BY DEF IInv
<1>2. batch[w] \in Batches /\ Distinct(batch[w]) /\ Len(batch[w]) \in Nat
  BY <1>1, ToSetIs DEF TypeOK, OneHolder
<1>3. worker[w] = "sent"
  BY DEF Answer, AnswerWritten, AnswerRejected, AnswerTooLarge, AnswerTransient, AnswerPartial
<1>4. CASE AnswerWritten(w)
  <2>1. /\ Settle(w, Len(batch[w]), 0, FALSE) /\ UNCHANGED <<stack, uncounted>>
        /\ accepted' \subseteq accepted \cup ToSet(batch[w]) /\ excess' \in Nat
    BY <1>1, <1>4 DEF AnswerWritten, TypeOK
  <2>2. 0 \in Nat /\ FALSE \in BOOLEAN /\ Len(batch[w]) + 0 = Len(batch[w]) /\ ~(0 > 0)
    BY <1>2
  <2> QED
    BY <1>2, <1>3, <2>1, <2>2, Settling
<1>5. CASE AnswerRejected(w)
  <2>1. Settle(w, 0, Len(batch[w]), TRUE) /\ UNCHANGED <<stack, accepted, uncounted>> /\ excess' \in Nat
    BY <1>1, <1>5 DEF AnswerRejected, history, TypeOK
  <2>2. 0 \in Nat /\ TRUE \in BOOLEAN /\ 0 + Len(batch[w]) = Len(batch[w])
    BY <1>2
  <2> QED
    BY <1>2, <1>3, <2>1, <2>2, Settling
<1>6. CASE AnswerTooLarge(w)
  BY <1>3, <1>6, Splitting DEF AnswerTooLarge
<1>7. CASE AnswerTransient(w)
  <2>1. CASE RetriesSpent(w)
    BY <1>3, <1>7, <2>1, Splitting DEF AnswerTransient
  <2>2. CASE ~RetriesSpent(w)
    <3>1. /\ attempt' = [attempt EXCEPT ![w] = attempt[w] + 1] /\ Goto(w, "backoff")
          /\ UNCHANGED <<shutdown, writerVars, queue, stack, batch, counters, history>>
      BY <1>7, <2>2 DEF AnswerTransient
    <3>2. attempt \in [Workers -> Nat] /\ \A v \in Workers : attempt[v] = 0 \/ attempt[v] < MaxRetries
      BY <1>1 DEF TypeOK
    <3>3. attempt' \in [Workers -> Nat] /\ \A v \in Workers : attempt'[v] = 0 \/ attempt'[v] < MaxRetries
      BY <2>2, <3>1, <3>2, Constants DEF RetriesSpent
    <3> QED
      BY <1>3, <3>1, <3>3, AtWork, Moving
  <2> QED
    BY <2>1, <2>2
<1>8. ASSUME NEW success \in Named(w), NEW errors \in Named(w), AnswerPartial(w, success, errors)
      PROVE  IInv'
  <2> DEFINE counted == Reconcile(batch[w], success, errors)
             note == errors.ids # {} \/ counted.unaccounted # {}
             k == Overstated(batch[w], success, errors)
  <2>1. /\ Settle(w, counted.written, counted.failed, note) /\ UNCHANGED <<stack, uncounted>>
        /\ accepted' \subseteq accepted \cup ToSet(batch[w]) /\ excess' = excess + k
    BY <1>8 DEF AnswerPartial
  <2>2. IsFiniteSet(ToSet(batch[w]) \cup Strangers)
    BY <1>1, <1>2, FiniteAnswer
  <2>3. /\ counted.written \in Nat /\ counted.failed \in Nat /\ k \in Nat
        /\ counted.written + counted.failed = Len(batch[w])
        /\ counted.failed > 0 => note
    BY <1>2, <2>2, ReconcileAddsUp DEF Named
  <2>4. note \in BOOLEAN
    OBVIOUS
  <2> HIDE DEF counted, note, k
  <2>5. excess' \in Nat
    BY <1>1, <2>1, <2>3 DEF TypeOK
  <2> QED
    BY <1>3, <2>1, <2>3, <2>4, <2>5, Settling
<1> QED
  BY <1>4, <1>5, <1>6, <1>7, <1>8 DEF Answer, Named

\* Every step of a worker.
LEMMA WorkerKeeps ==
  ASSUME IInv, NEW w \in Workers, WorkerStep(w)
  PROVE  IInv'
<1>1. TypeOK /\ Phases
  BY DEF IInv
<1>2. Len(batch[w]) \in Nat /\ excess \in Nat
  BY <1>1, ToSetIs DEF TypeOK
<1>3. attempt \in [Workers -> Nat] /\ \A v \in Workers : attempt[v] = 0 \/ attempt[v] < MaxRetries
  BY <1>1 DEF TypeOK
<1>4. 0 \in Nat /\ FALSE \in BOOLEAN /\ 0 + Len(batch[w]) = Len(batch[w])
  BY <1>2
<1>5. CASE RecvDisconnected(w)
  <2>1. stack[w] = <<>> /\ batch[w] = <<>>
    BY <1>1, <1>5 DEF Phases, RecvDisconnected
  <2> QED
    BY <1>3, <1>5, <2>1, AtWork, Moving DEF RecvDisconnected
<1>6. CASE StackEmpty(w)
  <2>1. batch[w] = <<>>
    BY <1>1, <1>6 DEF Phases, StackEmpty
  <2> QED
    BY <1>3, <1>6, <2>1, AtWork, Moving DEF StackEmpty
<1>7. CASE Post(w)
  BY <1>3, <1>7, AtWork, Moving DEF Post
<1>8. CASE BackoffElapses(w)
  BY <1>3, <1>8, AtWork, Moving DEF BackoffElapses
<1>9. CASE PostShutdown(w)
  BY <1>2, <1>4, <1>9, Settling DEF PostShutdown, history
<1>10. CASE BackoffInterrupted(w)
  BY <1>2, <1>4, <1>10, Settling DEF BackoffInterrupted, history
<1> QED
  BY <1>5, <1>6, <1>7, <1>8, <1>9, <1>10, AnswerKeeps, PopKeeps, PopFailsKeeps, RecvJobKeeps,
     RecvShutdownKeeps, PanicKeeps DEF WorkerStep

-----------------------------------------------------------------------------
\* Steps of the writer thread.

\* The workers hold what they held.
LEMMA WriterHolds ==
  ASSUME OneHolder, UNCHANGED <<batch, stack>>,
         Distinct(front'), Distinct(job'), ToSet(front') \cap ToSet(job') = {},
         Tidy(queue'), Contents(queue') \cap WriterHand' = {},
         \A w \in Workers : WorkerHand(w) \cap (WriterHand' \cup Contents(queue')) = {}
  PROVE  /\ OneHolder'
         /\ \A w \in Workers : WorkerHand(w)' = WorkerHand(w)
<1>1. \A w \in Workers : WorkerHand(w)' = WorkerHand(w)
  BY DEF WorkerHand
<1> QED
  BY <1>1 DEF OneHolder

\* The variables of the workers and the history stay, and so do the panics.
LEMMA PoolStays ==
  ASSUME UNCHANGED <<workerVars, history>>
  PROVE  /\ UNCHANGED <<worker, stack, batch, attempt, accepted, excess, uncounted>>
         /\ NoPanic' = NoPanic /\ PoolGone' = PoolGone
<1>1. UNCHANGED <<worker, stack, batch, attempt, accepted, excess, uncounted>>
  BY DEF workerVars, history
<1> QED
  BY <1>1 DEF NoPanic, PoolGone, Gone

\* An entity enters the buffer, and the buffer may become a job.
LEMMA WriteEntityKeeps ==
  ASSUME IInv, NEW e \in Entities, WriteEntity(e)
  PROVE  IInv'
<1> DEFINE buffer == Append(front, e)
<1>1. TypeOK /\ Phases /\ OneHolder /\ Accounts /\ Noted
  BY DEF IInv
<1>2. /\ writer = "write" /\ e \notin given /\ given' = given \cup {e}
      /\ \/ job' = buffer /\ front' = <<>> /\ batchSize' \in BatchSizes /\ writer' = "send"
         \/ front' = buffer /\ UNCHANGED <<writer, job, batchSize>>
      /\ UNCHANGED <<shutdown, queue, written, failed, recorded, result, history>>
      /\ UNCHANGED <<workerVars>>
  BY DEF WriteEntity, TakeFront, counters
<1>3. /\ UNCHANGED <<worker, stack, batch, attempt, accepted, excess, uncounted>>
      /\ NoPanic' = NoPanic /\ PoolGone' = PoolGone
  BY <1>2, PoolStays
<1>4. front \in Batches /\ queue \in Seq(Batches) /\ job = <<>> /\ written \in Nat /\ failed \in Nat
  BY <1>1, <1>2 DEF TypeOK, Phases
<1>5. InHand \subseteq given /\ e \notin InHand
  BY <1>1, <1>2 DEF Accounts
<1>6. ToSet(job) = {} /\ Distinct(job) /\ ToSet(<<>>) = {} /\ Distinct(<<>>) /\ <<>> \in Batches
  BY <1>4, EmptyBatch
<1>7. e \notin ToSet(front) /\ Distinct(front)
  BY <1>1, <1>5, InHandIs DEF WriterHand, OneHolder
<1>8. buffer \in Batches /\ ToSet(buffer) = ToSet(front) \cup {e} /\ Distinct(buffer)
  BY <1>4, <1>7, AppendEntity
<1> HIDE DEF buffer
<1>9. /\ Distinct(front') /\ Distinct(job') /\ ToSet(front') \cap ToSet(job') = {}
      /\ WriterHand' = WriterHand \cup {e}
  BY <1>2, <1>4, <1>6, <1>8 DEF WriterHand
<1>10. Tidy(queue) /\ Contents(queue) \cap WriterHand = {} /\ e \notin Contents(queue)
  BY <1>1, <1>5, InHandIs DEF OneHolder
<1>11. \A w \in Workers : WorkerHand(w) \cap (WriterHand \cup Contents(queue)) = {} /\ e \notin WorkerHand(w)
  BY <1>1, <1>5, InHandIs DEF OneHolder
<1>12. OneHolder' /\ \A w \in Workers : WorkerHand(w)' = WorkerHand(w)
  BY <1>1, <1>2, <1>3, <1>9, <1>10, <1>11, WriterHolds
<1>13. InHand' = InHand \cup {e}
  BY <1>2, <1>9, <1>12, InHandIs, InHandAfter
<1>14. /\ Cardinality(InHand') = Cardinality(InHand) + 1 /\ Cardinality(given') = Cardinality(given) + 1
       /\ Cardinality(InHand) \in Nat /\ Cardinality(given) \in Nat
  BY <1>1, <1>2, <1>5, <1>13, FiniteHand, FS_AddElement
<1>15. Accounts'
  <2> DEFINE c == written + failed
             h == Cardinality(InHand)
             g == Cardinality(given)
  <2>1. c \in Nat /\ uncounted \in Nat /\ c + uncounted + h = g
    BY <1>1, <1>4 DEF Accounts, TypeOK
  <2>2. h \in Nat /\ g \in Nat /\ Cardinality(InHand') = h + 1 /\ Cardinality(given') = g + 1
    BY <1>14
  <2>3. written' + failed' = c /\ shutdown' = shutdown
    BY <1>2
  <2> HIDE DEF c, h, g
  <2>4. c + uncounted + (h + 1) = g + 1
    BY <2>1, <2>2
  <2>5. InHand' \subseteq given' /\ InHand' \cap accepted' = {}
    BY <1>1, <1>2, <1>3, <1>5, <1>13 DEF Accounts, TypeOK
  <2>6. uncounted' > 0 => shutdown' \/ ~NoPanic'
    BY <1>1, <1>2, <1>3 DEF Accounts
  <2> QED
    BY <1>3, <2>2, <2>3, <2>4, <2>5, <2>6 DEF Accounts
<1>16. TypeOK'
  BY <1>1, <1>2, <1>3, <1>6, <1>8 DEF TypeOK
<1>17. Phases'
  <2>1. writer' # "done" /\ (writer' \notin {"send", "flush"} => job' = <<>>) /\ (writer' # "write" => front' = <<>>)
    BY <1>2, <1>4
  <2> QED
    BY <1>1, <1>2, <1>3, <2>1 DEF Phases
<1>18. Noted'
  BY <1>1, <1>2 DEF Noted
<1> QED
  BY <1>12, <1>15, <1>16, <1>17, <1>18 DEF IInv

\* The rest of the buffer becomes the last job.
LEMMA FinalizeKeeps ==
  ASSUME IInv, Finalize
  PROVE  IInv'
<1>1. TypeOK /\ Phases /\ OneHolder /\ Accounts /\ Noted
  BY DEF IInv
<1>2. /\ writer = "write"
      /\ \/ front = <<>> /\ writer' = "join" /\ UNCHANGED <<job, front, batchSize>>
         \/ job' = front /\ front' = <<>> /\ batchSize' \in BatchSizes /\ writer' = "flush"
      /\ UNCHANGED <<shutdown, queue, written, failed, recorded, given, result, history>>
      /\ UNCHANGED <<workerVars>>
  BY DEF Finalize, TakeFront, counters
<1>3. /\ UNCHANGED <<worker, stack, batch, attempt, accepted, excess, uncounted>>
      /\ NoPanic' = NoPanic /\ PoolGone' = PoolGone
  BY <1>2, PoolStays
<1>4. job = <<>> /\ ToSet(<<>>) = {} /\ Distinct(<<>>) /\ <<>> \in Batches /\ Distinct(front)
  BY <1>1, <1>2, EmptyBatch DEF Phases, OneHolder
<1>5. /\ Distinct(front') /\ Distinct(job') /\ ToSet(front') \cap ToSet(job') = {}
      /\ WriterHand' = WriterHand
  BY <1>2, <1>4 DEF WriterHand
<1>6. OneHolder' /\ \A w \in Workers : WorkerHand(w)' = WorkerHand(w)
  BY <1>1, <1>2, <1>3, <1>5, WriterHolds DEF OneHolder
<1>7. InHand' = InHand
  BY <1>2, <1>5, <1>6, InHandIs, InHandAfter
<1>8. Accounts'
  BY <1>1, <1>2, <1>3, <1>7 DEF Accounts
<1>9. TypeOK'
  BY <1>1, <1>2, <1>3, <1>4 DEF TypeOK
<1>10. Phases'
  <2>1. writer' # "done" /\ (writer' \notin {"send", "flush"} => job' = <<>>) /\ (writer' # "write" => front' = <<>>)
    BY <1>2, <1>4
  <2> QED
    BY <1>1, <1>2, <1>3, <2>1 DEF Phases
<1>11. Noted'
  BY <1>1, <1>2 DEF Noted
<1> QED
  BY <1>6, <1>8, <1>9, <1>10, <1>11 DEF IInv

\* The job goes to the channel.
LEMMA SendJobKeeps ==
  ASSUME IInv, SendJob
  PROVE  IInv'
<1>1. TypeOK /\ Phases /\ OneHolder /\ Accounts /\ Noted
  BY DEF IInv
<1>2. /\ writer \in {"send", "flush"} /\ ~PoolGone /\ Len(queue) < Capacity
      /\ queue' = Append(queue, job) /\ job' = <<>> /\ writer' \in {"join", "write"}
      /\ UNCHANGED <<shutdown, given, front, batchSize, result, written, failed, recorded, history>>
      /\ UNCHANGED <<workerVars>>
  BY DEF SendJob, AfterSend, counters
<1>3. /\ UNCHANGED <<worker, stack, batch, attempt, accepted, excess, uncounted>>
      /\ NoPanic' = NoPanic /\ PoolGone' = PoolGone
  BY <1>2, PoolStays
<1>4. /\ job \in Batches /\ queue \in Seq(Batches) /\ front = <<>> /\ ToSet(<<>>) = {}
      /\ Distinct(<<>>) /\ <<>> \in Batches /\ Len(queue) \in Nat
  BY <1>1, <1>2, EmptyBatch DEF TypeOK, Phases
<1>5. /\ Distinct(job) /\ Tidy(queue) /\ Contents(queue) \cap WriterHand = {}
      /\ \A w \in Workers : WorkerHand(w) \cap (WriterHand \cup Contents(queue)) = {}
  BY <1>1 DEF OneHolder
<1>6. WriterHand = ToSet(job) /\ WriterHand' = {} /\ Distinct(front') /\ Distinct(job')
  BY <1>2, <1>4 DEF WriterHand
<1>7. /\ queue' \in Seq(Batches) /\ Len(queue') = Len(queue) + 1
      /\ Contents(queue') = Contents(queue) \cup ToSet(job) /\ Tidy(queue')
  BY <1>2, <1>4, <1>5, <1>6, AppendBatch
<1>8. OneHolder' /\ \A w \in Workers : WorkerHand(w)' = WorkerHand(w)
  BY <1>1, <1>2, <1>3, <1>4, <1>5, <1>6, <1>7, WriterHolds
<1>9. InHand' = InHand
  BY <1>6, <1>7, <1>8, InHandIs, InHandAfter
<1>10. Accounts'
  BY <1>1, <1>2, <1>3, <1>9 DEF Accounts
<1>11. TypeOK'
  <2>1. Len(queue') <= Capacity
    BY <1>2, <1>4, <1>7, Constants
  <2> QED
    BY <1>1, <1>2, <1>3, <1>4, <1>7, <2>1 DEF TypeOK
<1>12. Phases'
  <2>1. writer' # "done" /\ job' = <<>> /\ front' = <<>> /\ ~PoolGone'
    BY <1>2, <1>3, <1>4
  <2> QED
    BY <1>1, <1>3, <2>1 DEF Phases
<1>13. Noted'
  BY <1>1, <1>2 DEF Noted
<1> QED
  BY <1>8, <1>10, <1>11, <1>12, <1>13 DEF IInv

\* The pool is gone: the job is counted as failed.
LEMMA SendFailsKeeps ==
  ASSUME IInv, SendFails
  PROVE  IInv'
<1>1. TypeOK /\ Phases /\ OneHolder /\ Accounts /\ Noted
  BY DEF IInv
<1>2. /\ writer \in {"send", "flush"} /\ failed' = failed + Len(job) /\ recorded' = TRUE
      /\ job' = <<>> /\ writer' \in {"join", "write"}
      /\ UNCHANGED <<shutdown, given, front, batchSize, result, queue, written, history>>
      /\ UNCHANGED <<workerVars>>
  BY DEF SendFails, AfterSend
<1>3. /\ UNCHANGED <<worker, stack, batch, attempt, accepted, excess, uncounted>>
      /\ NoPanic' = NoPanic /\ PoolGone' = PoolGone
  BY <1>2, PoolStays
<1>4. /\ job \in Batches /\ front = <<>> /\ ToSet(<<>>) = {} /\ Distinct(<<>>) /\ <<>> \in Batches
      /\ written \in Nat /\ failed \in Nat
  BY <1>1, <1>2, EmptyBatch DEF TypeOK, Phases
<1>5. /\ Distinct(job) /\ Tidy(queue) /\ Contents(queue) \cap WriterHand = {}
      /\ \A w \in Workers : WorkerHand(w) \cap (WriterHand \cup Contents(queue)) = {}
  BY <1>1 DEF OneHolder
<1>6. WriterHand = ToSet(job) /\ WriterHand' = {} /\ Distinct(front') /\ Distinct(job')
  BY <1>2, <1>4 DEF WriterHand
<1>7. OneHolder' /\ \A w \in Workers : WorkerHand(w)' = WorkerHand(w)
  BY <1>1, <1>2, <1>3, <1>4, <1>5, <1>6, WriterHolds
<1>8. ToSet(job) \subseteq InHand /\ InHand' = InHand \ ToSet(job)
  BY <1>2, <1>5, <1>6, <1>7, InHandIs, InHandAfter
<1>9. Cardinality(ToSet(job)) = Len(job) /\ Len(job) \in Nat
  BY <1>4, <1>5, BatchSize, ToSetIs
<1>10. written' \in Nat /\ failed' \in Nat /\ written' + failed' = written + failed + Len(job)
  BY <1>2, <1>4, <1>9
<1>11. Accounts' /\ accepted' \subseteq given' /\ uncounted' \in Nat
  <2>1. /\ Len(job) + 0 = Cardinality(ToSet(job)) /\ 0 \in Nat /\ ~(0 > 0) /\ uncounted' = uncounted + 0
        /\ given' = given /\ accepted' \subseteq accepted \cup ToSet(job)
    BY <1>1, <1>2, <1>3, <1>9 DEF TypeOK
  <2>2. ~shutdown' /\ NoPanic' => ~shutdown /\ NoPanic
    BY <1>2, <1>3
  <2> QED
    BY <1>1, <1>8, <1>9, <1>10, <2>1, <2>2, Counting
<1>12. TypeOK'
  BY <1>1, <1>2, <1>3, <1>4, <1>10 DEF TypeOK
<1>13. Phases'
  <2>1. writer' # "done" /\ job' = <<>> /\ front' = <<>>
    BY <1>2, <1>4
  <2> QED
    BY <1>1, <1>2, <1>3, <2>1 DEF Phases
<1>14. Noted'
  BY <1>2 DEF Noted
<1> QED
  BY <1>7, <1>11, <1>12, <1>13, <1>14 DEF IInv

\* The pool is joined and the result is known.
LEMMA JoinKeeps ==
  ASSUME IInv, Join
  PROVE  IInv'
<1>1. TypeOK /\ Phases /\ OneHolder /\ Accounts /\ Noted
  BY DEF IInv
<1>2. /\ writer = "join" /\ PoolGone /\ writer' = "done"
      /\ recorded' = (recorded \/ \E w \in Workers : worker[w] = "panicked")
      /\ result' = IF written = 0 /\ failed > 0 /\ recorded' THEN "Err" ELSE "Ok"
      /\ UNCHANGED <<shutdown, given, front, batchSize, job, queue, written, failed, history>>
      /\ UNCHANGED <<workerVars>>
  BY DEF Join, DeliveredNothing
<1>3. /\ UNCHANGED <<worker, stack, batch, attempt, accepted, excess, uncounted>>
      /\ NoPanic' = NoPanic /\ PoolGone' = PoolGone
  BY <1>2, PoolStays
<1>4. InHand' = InHand /\ OneHolder' = OneHolder
  BY <1>2, <1>3 DEF InHand, WriterHand, WorkerHand, OneHolder
<1>5. recorded' \in BOOLEAN /\ (recorded => recorded')
  BY <1>1, <1>2 DEF TypeOK
<1>6. TypeOK'
  BY <1>1, <1>2, <1>3, <1>5 DEF TypeOK
<1>7. Phases'
  BY <1>1, <1>2, <1>3 DEF Phases
<1>8. Accounts'
  BY <1>1, <1>2, <1>3, <1>4 DEF Accounts
<1>9. Noted'
  BY <1>1, <1>2, <1>5 DEF Noted
<1> QED
  BY <1>1, <1>4, <1>6, <1>7, <1>8, <1>9 DEF IInv

\* The signal handler.
LEMMA ShutdownKeeps ==
  ASSUME IInv, Shutdown
  PROVE  IInv'
<1>1. TypeOK /\ Phases /\ OneHolder /\ Accounts /\ Noted
  BY DEF IInv
<1>2. /\ shutdown' = TRUE /\ UNCHANGED <<writer, given, front, batchSize, job, result, queue>>
      /\ UNCHANGED <<worker, stack, batch, attempt, written, failed, recorded, accepted, excess, uncounted>>
  BY DEF Shutdown, writerVars, workerVars, counters, history
<1>3. InHand' = InHand /\ OneHolder' = OneHolder /\ PoolGone' = PoolGone
  BY <1>2 DEF InHand, WriterHand, WorkerHand, OneHolder, PoolGone, Gone
<1>4. TypeOK'
  BY <1>1, <1>2 DEF TypeOK
<1>5. Phases'
  BY <1>1, <1>2, <1>3 DEF Phases
<1>6. Accounts' /\ Noted'
  BY <1>1, <1>2, <1>3 DEF Accounts, Noted
<1> QED
  BY <1>1, <1>3, <1>4, <1>5, <1>6 DEF IInv

\* No step.
LEMMA StutterKeeps ==
  ASSUME IInv, UNCHANGED vars
  PROVE  IInv'
<1>1. /\ UNCHANGED <<shutdown, writer, given, front, batchSize, job, result, queue>>
      /\ UNCHANGED <<worker, stack, batch, attempt, written, failed, recorded, accepted, excess, uncounted>>
  BY DEF vars, writerVars, workerVars, counters, history
<1>2. InHand' = InHand /\ OneHolder' = OneHolder /\ PoolGone' = PoolGone /\ NoPanic' = NoPanic
  BY <1>1 DEF InHand, WriterHand, WorkerHand, OneHolder, PoolGone, Gone, NoPanic
<1> QED
  BY <1>1, <1>2 DEF IInv, TypeOK, Phases, Accounts, Noted

-----------------------------------------------------------------------------
\* At the start nobody holds anything.
LEMMA InitHolds == Init => IInv
<1> SUFFICES ASSUME Init PROVE IInv
  OBVIOUS
<1>1. /\ front = <<>> /\ job = <<>> /\ queue = <<>> /\ given = {} /\ accepted = {} /\ excess = 0 /\ uncounted = 0
      /\ written = 0 /\ failed = 0 /\ writer = "write"
      /\ \A w \in Workers : stack[w] = <<>> /\ batch[w] = <<>> /\ worker[w] = "recv"
  BY DEF Init
<1>2. /\ ToSet(<<>>) = {} /\ Distinct(<<>>) /\ <<>> \in Batches /\ Len(<<>>) = 0
      /\ <<>> \in Seq(Batches) /\ Contents(<<>>) = {} /\ Tidy(<<>>)
  BY EmptyBatch, EmptyQueue
<1>3. WriterHand = {} /\ (\A w \in Workers : WorkerHand(w) = {}) /\ InHand = {}
  <2>1. WriterHand = {} /\ Contents(queue) = {}
    BY <1>1, <1>2 DEF WriterHand
  <2>2. \A w \in Workers : WorkerHand(w) = {}
    BY <1>1, <1>2 DEF WorkerHand
  <2>3. \A x : x \notin InHand
    BY <2>1, <2>2, InHandIs
  <2> QED
    BY <2>1, <2>2, <2>3
<1>4. OneHolder
  BY <1>1, <1>2, <1>3 DEF OneHolder
<1>5. Accounts
  <2>1. Cardinality({}) = 0
    BY FS_EmptySet
  <2> QED
    BY <1>1, <1>3, <2>1 DEF Accounts
<1>6. ~PoolGone
  BY <1>1, DeliveryAssumption DEF PoolGone, Gone
<1>7. Phases /\ Noted
  BY <1>1, <1>6 DEF Phases, Noted
<1>8. TypeOK
  <2>1. /\ queue \in Seq(Batches) /\ Len(queue) <= Capacity /\ front \in Batches /\ job \in Batches
        /\ given \subseteq Entities /\ accepted \subseteq given /\ written \in Nat /\ failed \in Nat
        /\ excess \in Nat /\ uncounted \in Nat
    BY <1>1, <1>2, Constants
  <2>2. stack \in [Workers -> Seq(Batches)] /\ batch \in [Workers -> Batches]
    BY <1>2 DEF Init
  <2>3. attempt \in [Workers -> Nat] /\ \A w \in Workers : attempt[w] = 0
    BY DEF Init
  <2>4. worker \in [Workers -> {"recv", "pop", "post", "sent", "backoff", "done", "panicked"}]
    BY DEF Init
  <2>5. /\ shutdown \in BOOLEAN /\ recorded \in BOOLEAN /\ batchSize \in BatchSizes
        /\ writer \in {"write", "send", "flush", "join", "done"} /\ result \in {"running", "Ok", "Err"}
    BY DEF Init
  <2> QED
    BY <2>1, <2>2, <2>3, <2>4, <2>5 DEF TypeOK
<1> QED
  BY <1>4, <1>5, <1>7, <1>8 DEF IInv

\* Every step keeps the invariant.
LEMMA NextKeeps == IInv /\ [Next]_vars => IInv'
<1> SUFFICES ASSUME IInv, [Next]_vars PROVE IInv'
  OBVIOUS
<1>1. CASE WriterStep
  BY <1>1, WriteEntityKeeps, FinalizeKeeps, SendJobKeeps, SendFailsKeeps, JoinKeeps DEF WriterStep
<1>2. CASE \E w \in Workers : WorkerStep(w)
  BY <1>2, WorkerKeeps
<1>3. CASE Shutdown
  BY <1>3, ShutdownKeeps
<1>4. CASE UNCHANGED vars
  BY <1>4, StutterKeeps
<1> QED
  BY <1>1, <1>2, <1>3, <1>4 DEF Next

\* Broker delivery keeps its books: whatever the broker answers, and however writer,
\* workers and shutdown interleave, no entity is in two hands, and all that is given is
\* counted or in hand unless a shutdown or a panic lost it (flush_to_sender, sender_loop,
\* post_batch, settle).
THEOREM DeliveryInvariant == Spec => []IInv
BY InitHolds, NextKeeps, PTL DEF Spec

\* When finalize has returned nobody holds anything.
LEMMA DoneIsEmpty ==
  ASSUME IInv, writer = "done"
  PROVE  InHand = {}
<1>1. /\ front = <<>> /\ job = <<>> /\ PoolGone /\ queue = <<>>
      /\ \A w \in Workers : worker[w] \in {"done", "panicked"}
  BY DEF IInv, Phases, PoolGone, Gone
<1>2. \A w \in Workers : stack[w] = <<>> /\ batch[w] = <<>>
  BY <1>1 DEF IInv, Phases
<1>3. ToSet(<<>>) = {} /\ Contents(<<>>) = {}
  BY EmptyBatch, EmptyQueue
<1>4. WriterHand = {} /\ Contents(queue) = {} /\ \A w \in Workers : WorkerHand(w) = {}
  BY <1>1, <1>2, <1>3 DEF WriterHand, WorkerHand
<1> QED
  BY <1>4, InHandIs

\* When finalize has returned, what was counted and what was dropped add up to the
\* entities given to the writer.
LEMMA DoneIsCounted ==
  ASSUME IInv, writer = "done"
  PROVE  written + failed + uncounted = Cardinality(given)
<1>1. InHand = {} /\ Cardinality({}) = 0
  BY DoneIsEmpty, FS_EmptySet
<1>2. /\ written + failed + uncounted + Cardinality(InHand) = Cardinality(given)
      /\ written \in Nat /\ failed \in Nat /\ uncounted \in Nat
  BY DEF IInv, Accounts, TypeOK
<1>3. Cardinality(InHand) = 0
  BY <1>1
<1> QED
  BY <1>2, <1>3

\* Every entity is counted once or dropped, and dropped only after a shutdown or a panic,
\* when finalize returns (written_count, failed_count).
THEOREM AllCounted == Spec => []EveryEntityCounted
<1>1. IInv => EveryEntityCounted
  BY DoneIsCounted DEF EveryEntityCounted, IInv, Accounts
<1> QED
  BY <1>1, DeliveryInvariant, PTL

\* No entity is posted again once its batch is settled (sender_loop's stack).
THEOREM SettledOnce == Spec => []DeliveredOnce
<1>1. IInv => DeliveredOnce
  BY DEF DeliveredOnce, IInv, Accounts
<1> QED
  BY <1>1, DeliveryInvariant, PTL

\* A run that delivered nothing is an error (finalize).
THEOREM NothingIsAnError == Spec => []NothingDeliveredFails
<1>1. ASSUME IInv PROVE NothingDeliveredFails
  <2> SUFFICES ASSUME writer = "done", ~shutdown, uncounted < Cardinality(given), written = 0
               PROVE  result = "Err"
    BY DEF NothingDeliveredFails
  <2>1. written + failed + uncounted = Cardinality(given) /\ failed \in Nat /\ uncounted \in Nat
    BY <1>1, DoneIsCounted DEF IInv, TypeOK
  <2>2. failed > 0
    BY <2>1
  <2> QED
    BY <1>1, <2>2 DEF IInv, Noted
<1>2. IInv => NothingDeliveredFails
  BY <1>1
<1> QED
  BY <1>2, DeliveryInvariant, PTL

\* One answer's worth of entities more, counted and accepted, and k in excess of them.
LEMMA AcceptMore ==
  ASSUME IInv, NeverOverReports, NEW w \in Workers, NEW A, A \subseteq ToSet(batch[w]),
         NEW n \in Nat, NEW k \in Nat, n <= Cardinality(A) + k,
         written' = written + n, accepted' = accepted \cup A, excess' = excess + k
  PROVE  NeverOverReports'
<1>1. /\ TypeOK /\ InHand \subseteq given /\ InHand \cap accepted = {}
      /\ written \in Nat /\ excess \in Nat
  BY DEF IInv, Accounts, TypeOK
<1>2. A \subseteq InHand
  BY InHandIs DEF WorkerHand
<1>3. IsFiniteSet(accepted) /\ IsFiniteSet(A) /\ accepted \cap A = {}
  BY <1>1, <1>2, FiniteHand, FS_Subset
<1>4. /\ Cardinality(accepted) \in Nat /\ Cardinality(A) \in Nat
      /\ Cardinality(accepted') = Cardinality(accepted) + Cardinality(A)
  BY <1>3, TwoParts
<1>5. written <= Cardinality(accepted) + excess
  BY DEF NeverOverReports
<1> DEFINE c == Cardinality(accepted)
           d == Cardinality(A)
<1>6. written <= c + excess /\ n <= d + k /\ c \in Nat /\ d \in Nat /\ Cardinality(accepted') = c + d
  BY <1>4, <1>5
<1> HIDE DEF c, d
<1>7. written' <= c + d + excess'
  BY <1>1, <1>6
<1> QED
  BY <1>6, <1>7 DEF NeverOverReports

\* Whatever a broker answers, ids it was not sent and repeated ids included, the writer
\* counts no more entities as written than the broker said it accepted, but for what the
\* bodies that reconcile takes as they stand overstate.
THEOREM ReportsAreBacked == Spec => []NeverOverReports
<1>1. Init => NeverOverReports
  BY FS_EmptySet DEF Init, NeverOverReports
<1>2. ASSUME IInv, NeverOverReports, [Next]_vars PROVE NeverOverReports'
  <2>1. CASE UNCHANGED <<written, accepted, excess>>
    BY <1>2, <2>1 DEF NeverOverReports
  <2>2. ASSUME NEW w \in Workers, Answer(w) PROVE NeverOverReports'
    <3>1. /\ TypeOK /\ OneHolder /\ batch[w] \in Batches /\ Distinct(batch[w])
          /\ written \in Nat /\ excess \in Nat
      BY <1>2 DEF IInv, TypeOK, OneHolder
    <3>2. Len(batch[w]) \in Nat /\ Cardinality(ToSet(batch[w])) = Len(batch[w])
      BY <3>1, ToSetIs, BatchSize
    <3>3. CASE AnswerWritten(w)
      <4>1. written' = written + Len(batch[w]) /\ accepted' = accepted \cup ToSet(batch[w]) /\ excess' = excess + 0
        BY <3>1, <3>3 DEF AnswerWritten, Settle
      <4>2. /\ Len(batch[w]) <= Cardinality(ToSet(batch[w])) + 0 /\ 0 \in Nat
            /\ ToSet(batch[w]) \subseteq ToSet(batch[w])
        BY <3>2
      <4> QED
        BY <1>2, <3>2, <4>1, <4>2, AcceptMore
    <3>4. ASSUME NEW success \in Named(w), NEW errors \in Named(w), AnswerPartial(w, success, errors)
          PROVE  NeverOverReports'
      <4> DEFINE counted == Reconcile(batch[w], success, errors)
                 A == success.ids \cap ToSet(batch[w])
                 k == Overstated(batch[w], success, errors)
      <4>1. /\ written' = written + counted.written /\ accepted' = accepted \cup A
            /\ excess' = excess + k /\ A \subseteq ToSet(batch[w])
        BY <3>4 DEF AnswerPartial, Settle
      <4>2. IsFiniteSet(ToSet(batch[w]) \cup Strangers)
        BY <3>1, FiniteAnswer
      <4>3. counted.written \in Nat /\ k \in Nat /\ counted.written <= Cardinality(A) + k
        BY <3>1, <4>2, ReconcileAddsUp DEF Named
      <4> HIDE DEF counted, A, k
      <4> QED
        BY <1>2, <4>1, <4>3, AcceptMore
    <3>5. CASE AnswerRejected(w) \/ AnswerTooLarge(w) \/ AnswerTransient(w)
      <4>1. UNCHANGED <<written, accepted, excess>>
        BY <3>1, <3>5 DEF AnswerRejected, AnswerTooLarge, AnswerTransient, Split, Settle, counters, history
      <4> QED
        BY <2>1, <4>1
    <3> QED
      BY <2>2, <3>3, <3>4, <3>5 DEF Answer, Named
  <2>3. ASSUME NEW w \in Workers, WorkerStep(w), ~Answer(w) PROVE UNCHANGED <<written, accepted, excess>>
    <3>1. written \in Nat
      BY <1>2 DEF IInv, TypeOK
    <3>2. CASE PostShutdown(w) \/ BackoffInterrupted(w)
      BY <3>1, <3>2 DEF PostShutdown, BackoffInterrupted, Settle, history
    <3>3. CASE ~(PostShutdown(w) \/ BackoffInterrupted(w))
      BY <2>3, <3>3 DEF WorkerStep, RecvJob, RecvShutdown, RecvDisconnected, StackEmpty, Pop, PopFails,
         Post, BackoffElapses, Panic, counters, history
    <3> QED
      BY <3>2, <3>3
  <2>4. CASE WriterStep
    BY <2>1, <2>4 DEF WriterStep, WriteEntity, Finalize, SendJob, SendFails, Join, counters, history
  <2>5. CASE Shutdown \/ UNCHANGED vars
    BY <2>1, <2>5 DEF Shutdown, vars, counters, history
  <2> QED
    BY <1>2, <2>1, <2>2, <2>3, <2>4, <2>5 DEF Next
<1>3. IInv /\ NeverOverReports /\ [Next]_vars => NeverOverReports'
  BY <1>2
<1> QED
  BY <1>1, <1>3, DeliveryInvariant, PTL DEF Spec
=============================================================================
