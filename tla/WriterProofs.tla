----------------------------- MODULE WriterProofs -----------------------------
(***************************************************************************)
(* The safety properties of the writers.  FileOutput: any stream, number   *)
(* of types, batch sizes and attempts, an errored or cancelled attempt,    *)
(* and threads of earlier attempts that are still alive.  SizeControl: any *)
(* number of workers, any measurements and any bounds.                     *)
(***************************************************************************)
EXTENDS FileOutput, SizeControl, FiniteSetTheorems, SequenceTheorems, TLAPS

-----------------------------------------------------------------------------
\* The inductive invariant.

Tokens == {Opening, Separator, Closing, Hole, Torn} \cup {Line(a, e) : a \in Attempts, e \in Entities}
Sinks == [open : BOOLEAN, first : BOOLEAN, buffer : Seq(Tokens), offset : Nat]
States == {"idle", "running", "flushing", "closing", "dropping", "done"}

TypedControl ==
  /\ destination \in Destinations /\ framing \in Framings
  /\ driver \in {"draining", "backoff", "ok", "failed"} /\ attempt \in Attempts
  /\ contested \subseteq Attempts /\ shutdown \in BOOLEAN
  /\ thread \in [Attempts -> States] /\ next \in [Attempts -> 1..(EntityCount + 1)]
  /\ reported \in [Attempts -> {"none", "Error", "Stop"}]
  /\ errored \in [Attempts -> BOOLEAN] /\ aborted \in [Attempts -> BOOLEAN]
  /\ closeFailed \in [Attempts -> BOOLEAN]

TypedQueues ==
  /\ batch \in [Attempts -> Seq(Entities)] /\ pending \in [Attempts -> Seq(Entities)]
  /\ ready \in [Attempts -> Seq(Entities)]
  /\ spool \in [Attempts -> Seq(Tokens)] /\ inner \in [Attempts -> Seq(Tokens)]

TypedFiles == sinks \in [Attempts -> [Types -> Sinks]] /\ files \in [Types -> Seq(Tokens)]

Typed == TypedControl /\ TypedQueues /\ TypedFiles

\* No more than one batch is retained.
Retained ==
  \A a \in Attempts :
    /\ Len(pending[a]) < BatchSize /\ Len(ready[a]) <= BatchSize
    /\ ready[a] = <<>> \/ pending[a] = <<>>

\* An attempt that has not begun.
Fresh(a) ==
  /\ thread[a] = "idle" /\ next[a] = 1 /\ reported[a] = "none"
  /\ ~errored[a] /\ ~aborted[a] /\ ~closeFailed[a]
  /\ batch[a] = <<>> /\ pending[a] = <<>> /\ ready[a] = <<>>
  /\ \A t \in Types : sinks[a][t] = NoSink
  /\ spool[a] = <<>> /\ inner[a] = <<>>

\* Where the driver is.
Attempted ==
  /\ \A a \in Attempts : a > attempt => Fresh(a)
  /\ attempt \notin contested => \A a \in Attempts : a < attempt => thread[a] = "done"
  /\ driver = "backoff" => attempt < MaxAttempts
  /\ driver = "ok" => reported[attempt] = "Stop"

\* What a thread has reported.
Reporting ==
  \A a \in Attempts :
    /\ reported[a] = "Stop" => thread[a] = "done" /\ ~closeFailed[a]
    /\ closeFailed[a] => thread[a] \in {"closing", "done"}
    /\ errored[a] => reported[a] = "Error"
    /\ thread[a] = "dropping" => reported[a] = "Error"
    /\ thread[a] # "running" => batch[a] = <<>>

\* The entities from + 1 to upto of the stream, in order.
Stretch(q, from, upto) == q = [i \in 1..(upto - from) |-> from + i]
LineStretch(q, a, from, upto) == q = [i \in 1..(upto - from) |-> Line(a, from + i)]

\* Of the entities taken, those up to p are in the files or the buffers of the sinks, then
\* come those that are prepared, retained, and still in the batch.
InHand(a, p, r, m) ==
  /\ p <= r /\ r <= m /\ m <= next[a] - 1
  /\ Stretch(ready[a], p, r) /\ Stretch(pending[a], r, m) /\ Stretch(batch[a], m, next[a] - 1)

\* A sink and its file together hold the first p entities of the type.
SinkHolds(a, t, p) ==
  LET sink == sinks[a][t]
      lines == Lines(a, t, p)
  IN /\ sink.open =>
          /\ lines # <<>> /\ sink.first /\ sink.offset = Len(files[t])
          /\ files[t] \o sink.buffer = Joined(lines)
     /\ ~sink.open =>
          IF thread[a] \in {"closing", "done"} THEN files[t] = Framed(lines) \/ (lines = <<>> /\ a > 1)
          ELSE lines = <<>> /\ (files[t] = <<>> \/ a > 1)

SinksHold(a, p) == \A t \in Types : SinkHolds(a, t, p)

\* How far the thread is.
Stage(a, p) ==
  /\ thread[a] # "running" => shutdown \/ next[a] = EntityCount + 1
  /\ thread[a] \in {"closing", "done"} => p = next[a] - 1
  /\ thread[a] = "done" => \A t \in Types : ~sinks[a][t].open
  /\ thread[a] \in {"running", "flushing", "closing", "done"}

Held(a, p, r, m) == InHand(a, p, r, m) /\ SinksHold(a, p) /\ Stage(a, p)

\* The attempt that nobody disturbs, until it reports an error.
Undisturbed(a) ==
  /\ destination = "File" /\ a = attempt /\ a \notin contested
  /\ reported[a] # "Error" /\ ~closeFailed[a]

FileInv ==
  \A a \in Attempts : Undisturbed(a) => \E p, r, m \in 0..EntityCount : Held(a, p, r, m)

\* k lines of the stream were replayed, those up to m are in the spool.
Spooled(a, k, m) ==
  /\ k <= m /\ m <= next[a] - 1
  /\ LineStretch(inner[a], a, 0, k) /\ Stretch(batch[a], m, next[a] - 1)
  /\ ~aborted[a] /\ thread[a] # "done" => LineStretch(spool[a], a, k, m)
  /\ thread[a] # "running" => aborted[a] \/ next[a] = EntityCount + 1
  /\ thread[a] = "done" => aborted[a] \/ k = EntityCount

SpoolHolds(a) ==
  /\ thread[a] \in {"idle", "running"} => ~aborted[a] /\ inner[a] = <<>>
  /\ aborted[a] => inner[a] = <<>> /\ (reported[a] = "Error" \/ shutdown)
  /\ thread[a] \in {"idle", "running", "flushing", "done"}
  /\ thread[a] # "idle" /\ reported[a] # "Error" =>
       \E k, m \in 0..EntityCount : Spooled(a, k, m)

\* The lines of s that are whole come in the order of the stream, none twice, up to the
\* n-th entity.
Rising(s, a, n) ==
  \A i \in 1..Len(s) :
    \/ s[i] = Torn
    \/ \E e \in 1..n :
         /\ s[i] = Line(a, e)
         /\ \A j \in 1..(i - 1), d \in Entities : s[j] = Line(a, d) => d < e

\* So come the lines replayed and then those in the spool, whatever was reported; what is
\* left of the batch comes after them.
Ordered(a) ==
  /\ \A i \in 1..Len(inner[a]) : inner[a][i] # Torn
  /\ \E n \in 0..EntityCount :
       /\ n <= next[a] - 1 /\ Stretch(batch[a], n, next[a] - 1)
       /\ Rising(inner[a] \o spool[a], a, n)

SpoolInv == destination = "Atomic" => \A a \in Attempts : SpoolHolds(a) /\ Ordered(a)

Basics == Typed /\ Retained /\ Attempted /\ Reporting

IInv == Basics /\ FileInv /\ SpoolInv

-----------------------------------------------------------------------------
\* Sequences and counting.

\* The halves of an even number.
LEMMA Parity ==
  ASSUME NEW n \in Nat, NEW i \in 1..(2 * n + 2)
  PROVE  /\ i = 2 * n + 1 => i % 2 # 0
         /\ i = 2 * n + 2 => i % 2 = 0 /\ i \div 2 = n + 1
         /\ i <= 2 * n /\ i % 2 = 0 => i \div 2 \in 1..n
OBVIOUS

\* A function that continues one sequence with another is their concatenation.
LEMMA Glue ==
  ASSUME NEW T, NEW s \in Seq(T), NEW u \in Seq(T), NEW q \in Seq(T),
         Len(q) = Len(s) + Len(u),
         \A i \in 1..Len(s) : q[i] = s[i],
         \A i \in 1..Len(u) : q[Len(s) + i] = u[i]
  PROVE  q = s \o u
<1> DEFINE n == Len(s) + Len(u)
<1>2. \A i \in 1..n : q[i] = IF i <= Len(s) THEN s[i] ELSE u[i - Len(s)]
  <2> SUFFICES ASSUME NEW i \in 1..n PROVE q[i] = IF i <= Len(s) THEN s[i] ELSE u[i - Len(s)]
    OBVIOUS
  <2>1. CASE i <= Len(s)
    <3>1. i \in 1..Len(s)
      BY <2>1
    <3> QED BY <2>1, <3>1
  <2>2. CASE i > Len(s)
    <3>1. i - Len(s) \in 1..Len(u) /\ Len(s) + (i - Len(s)) = i
      BY <2>2
    <3> QED BY <3>1, <2>2
  <2> QED BY <2>1, <2>2
<1>5. /\ s \o u \in Seq(T) /\ Len(s \o u) = n
      /\ \A i \in 1..n : (s \o u)[i] = IF i <= Len(s) THEN s[i] ELSE u[i - Len(s)]
  BY ConcatProperties
<1> QED
  BY <1>2, <1>5, SeqEqual

\* One more line of a file.
LEMMA JoinedAppend ==
  ASSUME NEW T, NEW lines \in Seq(T), NEW l \in T, framing \in {"Array", "LineDelimited"}
  PROVE  /\ Joined(lines) \in Seq(T \cup {Opening, Separator})
         /\ Joined(Append(lines, l)) =
              Joined(lines) \o (IF framing = "Array"
                                  THEN <<IF lines # <<>> THEN Separator ELSE Opening, l>> ELSE <<l>>)
<1> DEFINE n == Len(lines)
           more == Append(lines, l)
           U == T \cup {Opening, Separator}
<1>0. /\ n \in Nat /\ Len(more) = n + 1 /\ more \in Seq(T) /\ more[n + 1] = l
      /\ \A i \in 1..n : more[i] = lines[i]
      /\ Seq(T) \subseteq Seq(U)
  OBVIOUS
<1>1. CASE framing = "LineDelimited"
  <2>1. more = lines \o <<l>>
    BY Glue, <1>0
  <2> QED BY <1>0, <1>1, <2>1 DEF Joined
<1>2. CASE framing # "LineDelimited"
  <2> DEFINE first == IF lines # <<>> THEN Separator ELSE Opening
             J == Joined(lines)
             K == Joined(more)
  <2>1. J = [i \in 1..(2 * n) |->
          IF i = 1 THEN Opening ELSE IF i % 2 = 0 THEN lines[i \div 2] ELSE Separator]
    BY <1>2 DEF Joined
  <2>2. K = [i \in 1..(2 * n + 2) |->
          IF i = 1 THEN Opening ELSE IF i % 2 = 0 THEN more[i \div 2] ELSE Separator]
    <3>1. 2 * (n + 1) = 2 * n + 2
      BY <1>0
    <3> QED BY <1>0, <1>2, <3>1 DEF Joined
  <2> HIDE DEF J, K
  <2>3. J \in Seq(U) /\ Len(J) = 2 * n
    <3>1. \A i \in 1..(2 * n) : J[i] \in U
      BY <1>0, <2>1, Parity
    <3> QED BY <1>0, <2>1, <3>1
  <2>4. <<first, l>> \in Seq(U) /\ Len(<<first, l>>) = 2
    OBVIOUS
  <2>5. \A i \in 1..(2 * n) : K[i] = J[i]
    BY <1>0, <2>1, <2>2, Parity
  <2>6. K[2 * n + 1] = first /\ K[2 * n + 2] = l
    <3>1. 2 * n + 1 \in 1..(2 * n + 2) /\ 2 * n + 2 \in 1..(2 * n + 2) /\ 2 * n + 2 # 1
      BY <1>0
    <3>2. K[2 * n + 2] = l
      BY <1>0, <2>2, <3>1, Parity
    <3>3. K[2 * n + 1] = IF 2 * n + 1 = 1 THEN Opening ELSE Separator
      BY <1>0, <2>2, <3>1, Parity
    <3>4. 2 * n + 1 = 1 <=> lines = <<>>
      BY <1>0
    <3> QED BY <3>2, <3>3, <3>4
  <2>7. K = J \o <<first, l>>
    <3>1. 2 * n + 2 = Len(J) + Len(<<first, l>>)
      BY <1>0, <2>3, <2>4
    <3>2. K \in Seq(U) /\ Len(K) = 2 * n + 2
      <4>1. \A i \in 1..(2 * n + 2) : K[i] \in U
        <5> SUFFICES ASSUME NEW i \in 1..(2 * n + 2) PROVE K[i] \in U
          OBVIOUS
        <5>1. CASE i <= 2 * n
          BY <5>1, <1>0, <2>3, <2>5
        <5>2. CASE i = 2 * n + 1 \/ i = 2 * n + 2
          BY <5>2, <2>6
        <5> QED BY <5>1, <5>2, <1>0
      <4> QED BY <1>0, <2>2, <4>1
    <3>3. \A i \in 1..Len(<<first, l>>) : K[Len(J) + i] = <<first, l>>[i]
      <4>1. Len(<<first, l>>) = 2 /\ <<first, l>>[1] = first /\ <<first, l>>[2] = l
        OBVIOUS
      <4>2. K[Len(J) + 1] = first /\ K[Len(J) + 2] = l
        BY <2>3, <2>6
      <4>3. ASSUME NEW i \in 1..2 PROVE i = 1 \/ i = 2
        OBVIOUS
      <4> QED BY <4>1, <4>2, <4>3
    <3> DEFINE end == <<first, l>>
    <3>4. /\ end \in Seq(U) /\ Len(K) = Len(J) + Len(end)
          /\ \A i \in 1..Len(J) : K[i] = J[i]
          /\ \A i \in 1..Len(end) : K[Len(J) + i] = end[i]
      BY <3>1, <3>2, <3>3, <2>3, <2>4, <2>5
    <3> HIDE DEF end, U, n
    <3>5. K = J \o end
      BY <2>3, <3>2, <3>4, Glue
    <3> QED BY <3>5 DEF end
  <2> QED BY <1>2, <2>3, <2>7 DEF J, K
<1> QED BY <1>1, <1>2

\* Counting the entities of a type.
LEMMA OfTypeFinite ==
  ASSUME NEW t, NEW n \in Nat
  PROVE  /\ IsFiniteSet(OfType(t, n)) /\ Cardinality(OfType(t, n)) \in Nat
         /\ OfType(t, 0) = {} /\ Cardinality(OfType(t, 0)) = 0
         /\ OfType(t, n) \subseteq 1..n
         /\ OfType(t, n + 1) = IF TypeOf[n + 1] = t THEN OfType(t, n) \cup {n + 1} ELSE OfType(t, n)
         /\ Cardinality(OfType(t, n + 1)) = Cardinality(OfType(t, n)) + (IF TypeOf[n + 1] = t THEN 1 ELSE 0)
<1>1. OfType(t, n) \subseteq 1..n /\ n + 1 \notin OfType(t, n)
  BY DEF OfType
<1>2. IsFiniteSet(OfType(t, n))
  <2>1. IsFiniteSet(1..n)
    BY FS_Interval
  <2> QED BY <1>1, <2>1, FS_Subset
<1>3. Cardinality(OfType(t, n)) \in Nat
  BY <1>2, FS_CardinalityType
<1>4. OfType(t, 0) = {}
  BY DEF OfType
<1>5. OfType(t, n + 1) = IF TypeOf[n + 1] = t THEN OfType(t, n) \cup {n + 1} ELSE OfType(t, n)
  <2>1. 1..(n + 1) = (1..n) \cup {n + 1}
    OBVIOUS
  <2> QED BY <2>1 DEF OfType
<1>6. Cardinality(OfType(t, n + 1)) = Cardinality(OfType(t, n)) + (IF TypeOf[n + 1] = t THEN 1 ELSE 0)
  <2>1. Cardinality(OfType(t, n) \cup {n + 1}) = Cardinality(OfType(t, n)) + 1
    BY <1>1, <1>2, FS_AddElement
  <2> QED BY <1>3, <1>5, <2>1
<1> QED BY <1>1, <1>2, <1>3, <1>4, <1>5, <1>6, FS_EmptySet

\* What Nth is told by.
LEMMA NthIs ==
  ASSUME NEW S, NEW R, NEW k,
         {x \in S : Cardinality({y \in S : y <= x}) = k} = {x \in R : Cardinality({y \in R : y <= x}) = k}
  PROVE  Nth(S, k) = Nth(R, k)
<1>1. \A x : (x \in S /\ Cardinality({y \in S : y <= x}) = k)
               <=> (x \in R /\ Cardinality({y \in R : y <= x}) = k)
  BY Zenon
<1> QED BY <1>1, Zenon DEF Nth

\* The element with a rank is the only one.
LEMMA NthUnique ==
  ASSUME NEW S, NEW k, NEW x \in S,
         {z \in S : Cardinality({y \in S : y <= z}) = k} = {x}
  PROVE  Nth(S, k) = x
<1>1. \A z : (z \in S /\ Cardinality({y \in S : y <= z}) = k) <=> z = x
  BY Zenon
<1> QED BY <1>1, Zenon DEF Nth

\* The next entity of the stream is the last of its type so far.
LEMMA NthLater ==
  ASSUME NEW t, NEW n \in Nat, TypeOf[n + 1] = t
  PROVE  /\ \A k \in 1..Cardinality(OfType(t, n)) : Nth(OfType(t, n + 1), k) = Nth(OfType(t, n), k)
         /\ Nth(OfType(t, n + 1), Cardinality(OfType(t, n)) + 1) = n + 1
<1> DEFINE S == OfType(t, n)
           R == OfType(t, n + 1)
           c == Cardinality(S)
<1>1. /\ S \subseteq 1..n /\ R = S \cup {n + 1} /\ Cardinality(R) = c + 1 /\ c \in Nat
      /\ IsFiniteSet(S)
  BY OfTypeFinite
<1> HIDE DEF S, R, c
<1>2. ASSUME NEW x \in S PROVE {y \in R : y <= x} = {y \in S : y <= x} /\ x \in R
  BY <1>1
<1>3. {y \in R : y <= n + 1} = R
  <2>1. \A y \in R : y <= n + 1
    BY <1>1
  <2> QED BY <2>1, Zenon
<1>4. ASSUME NEW x \in S PROVE Cardinality({y \in S : y <= x}) <= c
  BY <1>1, FS_Subset DEF c
<1>5. ASSUME NEW k \in 1..c PROVE Nth(R, k) = Nth(S, k)
  <2>1. c + 1 # k
    BY <1>1
  <2>2. {x \in R : Cardinality({y \in R : y <= x}) = k} = {x \in S : Cardinality({y \in S : y <= x}) = k}
    <3>1. \A x \in R : Cardinality({y \in R : y <= x}) = k => x \in S
      <4> SUFFICES ASSUME NEW x \in R, Cardinality({y \in R : y <= x}) = k, x \notin S PROVE FALSE
        OBVIOUS
      <4>1. x = n + 1
        BY <1>1
      <4> QED BY <1>1, <1>3, <2>1, <4>1
    <3>2. \A x \in S : x \in R /\ Cardinality({y \in R : y <= x}) = Cardinality({y \in S : y <= x})
      BY <1>2
    <3> QED BY <3>1, <3>2, Zenon
  <2> QED BY <2>2, NthIs
<1>6. Nth(R, c + 1) = n + 1
  <2>1. ASSUME NEW x \in S PROVE Cardinality({y \in R : y <= x}) # c + 1
    <3>1. Cardinality({y \in S : y <= x}) \in Nat
      BY <1>1, FS_Subset, FS_CardinalityType
    <3> QED BY <1>1, <1>2, <1>4, <3>1
  <2>2. {z \in R : Cardinality({y \in R : y <= z}) = c + 1} = {n + 1}
    BY <1>1, <1>3, <2>1
  <2> QED BY <1>1, <2>2, NthUnique
<1> QED BY <1>5, <1>6 DEF S, R, c

\* The next entity of the stream adds a line to the file of its type only.
LEMMA LinesAppend ==
  ASSUME NEW a, NEW t, NEW n \in Nat
  PROVE  /\ Len(Lines(a, t, n)) = Cardinality(OfType(t, n))
         /\ Lines(a, t, 0) = <<>>
         /\ TypeOf[n + 1] # t => Lines(a, t, n + 1) = Lines(a, t, n)
         /\ TypeOf[n + 1] = t => Lines(a, t, n + 1) = Append(Lines(a, t, n), Line(a, n + 1))
<1> DEFINE c == Cardinality(OfType(t, n))
<1>1. c \in Nat /\ Cardinality(OfType(t, 0)) = 0
  BY OfTypeFinite
<1>2. Len(Lines(a, t, n)) = c /\ Lines(a, t, 0) = <<>>
  BY <1>1 DEF Lines
<1>3. TypeOf[n + 1] # t => Lines(a, t, n + 1) = Lines(a, t, n)
  BY OfTypeFinite DEF Lines
<1>4. ASSUME TypeOf[n + 1] = t PROVE Lines(a, t, n + 1) = Append(Lines(a, t, n), Line(a, n + 1))
  <2> DEFINE new(k) == Line(a, Nth(OfType(t, n + 1), k))
             old(k) == Line(a, Nth(OfType(t, n), k))
  <2>1. Cardinality(OfType(t, n + 1)) = c + 1
    BY <1>4, OfTypeFinite
  <2>2. Lines(a, t, n + 1) = [k \in 1..(c + 1) |-> new(k)] /\ Lines(a, t, n) = [k \in 1..c |-> old(k)]
    BY <2>1 DEF Lines
  <2>3. (\A k \in 1..c : new(k) = old(k)) /\ new(c + 1) = Line(a, n + 1)
    BY <1>4, NthLater
  <2> HIDE DEF new, old, c
  <2> QED BY <1>1, <2>2, <2>3 DEF Line
<1> QED BY <1>2, <1>3, <1>4

\* A write at the end of a file.
LEMMA WriteAtEnd ==
  ASSUME NEW T, NEW file \in Seq(T), NEW tokens \in Seq(T)
  PROVE  WriteAt(file, Len(file), tokens) = file \o tokens
<1> DEFINE n == Len(file)
           m == Len(tokens)
           q == WriteAt(file, n, tokens)
<1>1. n \in Nat /\ m \in Nat
  OBVIOUS
<1>2. (IF n + m > n THEN n + m ELSE n) = n + m
  BY <1>1
<1>3. q = [i \in 1..(n + m) |->
             IF i > n /\ i <= n + m THEN tokens[i - n] ELSE IF i <= n THEN file[i] ELSE Hole]
  BY <1>2 DEF WriteAt
<1> HIDE DEF q
<1>4. \A i \in 1..n : q[i] = file[i]
  BY <1>1, <1>3
<1>5. \A i \in 1..m : q[n + i] = tokens[i]
  <2> SUFFICES ASSUME NEW i \in 1..m PROVE q[n + i] = tokens[i]
    OBVIOUS
  <2>1. n + i \in 1..(n + m) /\ n + i > n /\ n + i - n = i
    BY <1>1
  <2> QED BY <1>3, <2>1
<1>6. q \in Seq(T) /\ Len(q) = n + m
  <2>1. \A i \in 1..(n + m) : q[i] \in T
    <3> SUFFICES ASSUME NEW i \in 1..(n + m) PROVE q[i] \in T
      OBVIOUS
    <3>1. CASE i <= n
      BY <1>1, <1>4, <3>1
    <3>2. CASE i > n
      <4>1. i - n \in 1..m /\ n + (i - n) = i
        BY <1>1, <3>2
      <4>2. q[n + (i - n)] = tokens[i - n]
        BY <1>5, <4>1
      <4> QED BY <4>1, <4>2
    <3> QED BY <1>1, <3>1, <3>2
  <2> QED BY <1>1, <1>3, <2>1
<1> QED BY <1>4, <1>5, <1>6, Glue DEF q

\* Stretches of the stream.
LEMMA StretchOf ==
  ASSUME NEW from \in Nat, NEW upto \in Nat, from <= upto, NEW q, Stretch(q, from, upto)
  PROVE  /\ q \in Seq(Nat) /\ Len(q) = upto - from
         /\ q = <<>> <=> from = upto
         /\ Stretch(Append(q, upto + 1), from, upto + 1)
         /\ q # <<>> => Head(q) = from + 1 /\ Stretch(Tail(q), from + 1, upto) /\ from + 1 <= upto
<1>1. q = [i \in 1..(upto - from) |-> from + i] /\ upto - from \in Nat
  BY DEF Stretch
<1>2. q \in Seq(Nat) /\ Len(q) = upto - from
  BY <1>1
<1>3. q = <<>> <=> from = upto
  BY <1>2
<1>4. Stretch(Append(q, upto + 1), from, upto + 1)
  <2>1. (upto + 1) - from = Len(q) + 1 /\ from + (Len(q) + 1) = upto + 1
    BY <1>2
  <2>2. Append(q, upto + 1) = [i \in 1..(Len(q) + 1) |-> from + i]
    BY <1>1, <1>2, <2>1
  <2> QED BY <2>1, <2>2 DEF Stretch
<1>5. ASSUME q # <<>> PROVE Head(q) = from + 1 /\ Stretch(Tail(q), from + 1, upto) /\ from + 1 <= upto
  <2>1. from + 1 <= upto /\ upto - (from + 1) = Len(q) - 1 /\ Len(q) - 1 \in Nat
    BY <1>2, <1>3, <1>5
  <2>2. Head(q) = from + 1
    BY <1>1, <2>1
  <2>3. Tail(q) = [i \in 1..(Len(q) - 1) |-> (from + 1) + i]
    <3>1. Tail(q) \in Seq(Nat) /\ Len(Tail(q)) = Len(q) - 1 /\ \A i \in 1..(Len(q) - 1) : Tail(q)[i] = q[i + 1]
      BY <1>2, <1>5, HeadTailProperties
    <3>2. \A i \in 1..(Len(q) - 1) : q[i + 1] = (from + 1) + i
      BY <1>1, <1>2, <2>1
    <3> DEFINE k == Len(q) - 1
               rest == Tail(q)
    <3>3. rest \in Seq(Nat) /\ Len(rest) = k /\ \A i \in 1..k : rest[i] = (from + 1) + i
      BY <3>1, <3>2
    <3> HIDE DEF rest, k
    <3>4. rest = [i \in 1..k |-> (from + 1) + i]
      BY <3>3
    <3> QED BY <3>4 DEF rest, k
  <2> QED BY <2>1, <2>2, <2>3 DEF Stretch
<1> QED BY <1>2, <1>3, <1>4, <1>5

\* Nothing of the stream.
LEMMA EmptyStretch ==
  ASSUME NEW n \in Nat
  PROVE  Stretch(<<>>, n, n) /\ \A a : LineStretch(<<>>, a, n, n)
<1>1. 1..(n - n) = {}
  OBVIOUS
<1>2. \A a : <<>> = [i \in 1..(n - n) |-> Line(a, n + i)]
  BY <1>1
<1>3. <<>> = [i \in 1..(n - n) |-> n + i]
  BY <1>1
<1> QED BY <1>2, <1>3 DEF Stretch, LineStretch

\* The same of lines.
LEMMA LineStretchOf ==
  ASSUME NEW T, NEW a, NEW from \in Nat, NEW upto \in Nat, from <= upto,
         NEW q \in Seq(T), Line(a, upto + 1) \in T, LineStretch(q, a, from, upto)
  PROVE  /\ q = <<>> <=> from = upto
         /\ LineStretch(Append(q, Line(a, upto + 1)), a, from, upto + 1)
         /\ q # <<>> => /\ Head(q) = Line(a, from + 1) /\ LineStretch(Tail(q), a, from + 1, upto)
                        /\ from + 1 <= upto
<1> DEFINE l(e) == Line(a, e)
<1>1. q = [i \in 1..(upto - from) |-> l(from + i)] /\ upto - from \in Nat
  BY DEF LineStretch
<1>2. Len(q) = upto - from
  BY <1>1
<1>3. q = <<>> <=> from = upto
  BY <1>2
<1> HIDE DEF l
<1>4. LineStretch(Append(q, l(upto + 1)), a, from, upto + 1)
  <2>1. (upto + 1) - from = Len(q) + 1 /\ from + (Len(q) + 1) = upto + 1
    BY <1>2
  <2>2. Append(q, l(upto + 1)) = [i \in 1..(Len(q) + 1) |-> l(from + i)]
    BY <1>1, <1>2, <2>1
  <2> QED BY <2>1, <2>2 DEF LineStretch, l
<1>5. ASSUME q # <<>> PROVE Head(q) = l(from + 1) /\ LineStretch(Tail(q), a, from + 1, upto) /\ from + 1 <= upto
  <2>1. from + 1 <= upto /\ upto - (from + 1) = Len(q) - 1 /\ Len(q) - 1 \in Nat
    BY <1>2, <1>3, <1>5
  <2>2. Head(q) = l(from + 1)
    BY <1>1, <2>1
  <2>3. Tail(q) = [i \in 1..(Len(q) - 1) |-> l((from + 1) + i)]
    <3>1. Tail(q) \in Seq(T) /\ Len(Tail(q)) = Len(q) - 1 /\ \A i \in 1..(Len(q) - 1) : Tail(q)[i] = q[i + 1]
      BY <1>2, <1>5, HeadTailProperties
    <3>2. \A i \in 1..(Len(q) - 1) : q[i + 1] = l((from + 1) + i)
      <4> SUFFICES ASSUME NEW i \in 1..(Len(q) - 1) PROVE q[i + 1] = l((from + 1) + i)
        OBVIOUS
      <4>1. i + 1 \in 1..(upto - from) /\ from + (i + 1) = (from + 1) + i
        BY <1>2, <2>1
      <4> QED BY <1>1, <4>1
    <3> DEFINE k == Len(q) - 1
               rest == Tail(q)
    <3>3. rest \in Seq(T) /\ Len(rest) = k /\ \A i \in 1..k : rest[i] = l((from + 1) + i)
      BY <3>1, <3>2
    <3> HIDE DEF rest, k
    <3>4. rest = [i \in 1..k |-> l((from + 1) + i)]
      BY <3>3
    <3> QED BY <3>4 DEF rest, k
  <2> QED BY <2>1, <2>2, <2>3 DEF LineStretch, l
<1> QED BY <1>3, <1>4, <1>5 DEF l


-----------------------------------------------------------------------------
\* Types, retention and the driver.

\* A thread that does something is of an attempt that has begun, and the only one if
\* nothing contests it.
LEMMA ActiveThread ==
  ASSUME Basics, NEW a \in Attempts, thread[a] \notin {"idle", "done"}
  PROVE  a <= attempt /\ (attempt \notin contested => a = attempt)
<1>1. attempt \in 1..MaxAttempts /\ a \in 1..MaxAttempts /\ MaxAttempts \in Nat
  BY FileOutputAssumption DEF Basics, Typed, TypedControl, Attempts
<1>2. a <= attempt
  BY <1>1 DEF Basics, Attempted, Fresh
<1>3. attempt \notin contested => ~(a < attempt)
  BY DEF Basics, Attempted
<1> QED BY <1>1, <1>2, <1>3

\* A step of one thread concerns its own writer, and no other's.
Elsewhere(a) ==
  /\ UNCHANGED <<destination, framing, driver, attempt, contested, shutdown>>
  /\ reported[a] = "Error" => reported'[a] = "Error"
  /\ closeFailed[a] => closeFailed'[a]
  /\ \A b \in Attempts :
       b # a => /\ thread'[b] = thread[b] /\ next'[b] = next[b] /\ errored'[b] = errored[b]
                /\ aborted'[b] = aborted[b] /\ reported'[b] = reported[b] /\ batch'[b] = batch[b]
                /\ pending'[b] = pending[b] /\ ready'[b] = ready[b]
                /\ closeFailed'[b] = closeFailed[b] /\ sinks'[b] = sinks[b]
                /\ spool'[b] = spool[b] /\ inner'[b] = inner[b]

\* Such a step leaves the driver and the other attempts where they were.
LEMMA AttemptedKept ==
  ASSUME Basics, NEW a \in Attempts, thread[a] \notin {"idle", "done"}, Elsewhere(a)
  PROVE  Attempted'
<1>1. a <= attempt /\ (attempt \notin contested => a = attempt)
  BY ActiveThread
<1>2. \A b \in Attempts : b > attempt => Fresh(b)'
  <2> SUFFICES ASSUME NEW b \in Attempts, b > attempt PROVE Fresh(b)'
    OBVIOUS
  <2>1. b # a
    BY <1>1, FileOutputAssumption DEF Basics, Typed, TypedControl, Attempts
  <2>2. Fresh(b)
    BY DEF Basics, Attempted
  <2> QED BY <2>1, <2>2 DEF Elsewhere, Fresh
<1>3. attempt \notin contested => \A b \in Attempts : b < attempt => thread'[b] = "done"
  BY <1>1, FileOutputAssumption DEF Basics, Typed, TypedControl, Attempted, Elsewhere, Attempts
<1>4. driver = "ok" => reported'[attempt] = "Stop"
  BY DEF Basics, Attempted, Reporting, Elsewhere, Typed, TypedControl
<1> QED BY <1>2, <1>3, <1>4 DEF Basics, Attempted, Elsewhere

\* Types of the sinks and the files.
LEMMA TokensAre ==
  /\ Opening \in Tokens /\ Separator \in Tokens /\ Closing \in Tokens /\ Hole \in Tokens
  /\ Torn \in Tokens /\ \A a \in Attempts, e \in Entities : Line(a, e) \in Tokens
BY DEF Tokens

\* A sink that is not open, and one that was just opened.
LEMMA NewSinkTyped == NoSink \in Sinks /\ NewSink \in Sinks /\ <<>> \in Seq(Tokens)
<1>1. <<>> \in Seq(Tokens)
  OBVIOUS
<1>2. NoSink \in Sinks
  BY <1>1 DEF NoSink, Sinks
<1>3. NewSink \in Sinks
  BY <1>2 DEF NewSink, Sinks
<1> QED BY <1>1, <1>2, <1>3

\* What is written for an entity.
LEMMA SerializedTyped ==
  ASSUME NEW s, NEW a \in Attempts, NEW e \in Entities
  PROVE  Serialized(s, a, e) \in Seq(Tokens)
<1> DEFINE l == Line(a, e)
           first == IF s.first THEN Separator ELSE Opening
<1>1. l \in Tokens /\ first \in Tokens
  BY TokensAre
<1> HIDE DEF l, first
<1>2. <<first, l>> \in Seq(Tokens) /\ <<l>> \in Seq(Tokens)
  BY <1>1
<1> QED BY <1>2 DEF Serialized, l, first

\* The sink once more tokens are in its buffer.
Written(sink, tokens) == [sink EXCEPT !.first = TRUE, !.buffer = @ \o tokens]

\* A sink with more in its buffer is a sink.
LEMMA WrittenTyped ==
  ASSUME NEW s \in Sinks, NEW q \in Seq(Tokens)
  PROVE  Written(s, q) \in Sinks
<1>1. s.buffer \o q \in Seq(Tokens)
  BY DEF Sinks
<1> QED BY <1>1 DEF Written, Sinks

\* A sink whose buffer has been written out, and the file it was written to.
LEMMA FlushedTyped ==
  ASSUME NEW s \in Sinks, NEW f \in Seq(Tokens)
  PROVE  Flushed(s) \in Sinks /\ FlushedFile(f, s) \in Seq(Tokens)
<1>1. Flushed(s) \in Sinks
  <2>1. s.buffer \in Seq(Tokens) /\ s.offset + Len(s.buffer) \in Nat
    BY DEF Sinks
  <2> QED BY <2>1, NewSinkTyped DEF Flushed, Sinks
<1>2. FlushedFile(f, s) \in Seq(Tokens)
  <2> DEFINE q == s.buffer
             n == s.offset
             m == IF n + Len(q) > Len(f) THEN n + Len(q) ELSE Len(f)
  <2>1. q \in Seq(Tokens) /\ n \in Nat /\ m \in Nat
    BY DEF Sinks
  <2>2. ASSUME NEW i \in 1..m
        PROVE  (IF i > n /\ i <= n + Len(q) THEN q[i - n] ELSE IF i <= Len(f) THEN f[i] ELSE Hole) \in Tokens
    <3>1. CASE i > n /\ i <= n + Len(q)
      <4>1. i - n \in 1..Len(q)
        BY <2>1, <3>1
      <4>2. q[i - n] \in Tokens
        BY <2>1, <4>1, ElementOfSeq
      <4> QED BY <3>1, <4>2
    <3>2. CASE ~(i > n /\ i <= n + Len(q)) /\ i <= Len(f)
      <4>1. i \in 1..Len(f)
        BY <3>2, <2>1
      <4> QED BY <3>2, <4>1
    <3>3. CASE ~(i > n /\ i <= n + Len(q)) /\ ~(i <= Len(f))
      BY <3>3 DEF Tokens
    <3> QED BY <3>1, <3>2, <3>3
  <2>3. FlushedFile(f, s) =
          [i \in 1..m |-> IF i > n /\ i <= n + Len(q) THEN q[i - n]
                          ELSE IF i <= Len(f) THEN f[i] ELSE Hole]
    BY DEF FlushedFile, WriteAt
  <2> HIDE DEF m, n, q
  <2> QED BY <2>1, <2>2, <2>3
<1> QED BY <1>1, <1>2

\* A batch of the stream is taken.
LEMMA TakeBatchBasics ==
  ASSUME Basics, NEW a \in Attempts, TakeBatch(a)
  PROVE  Basics' /\ Elsewhere(a)
<1>0. Typed /\ Retained /\ Attempted /\ Reporting
  BY DEF Basics
<1>1. TypedControl'
  BY <1>0, FileOutputAssumption
     DEF Typed, TypedControl, States, TakeBatch, Waiting, config, control
<1>2. TypedQueues'
  <2> DEFINE last == IF next[a] + HandOff - 1 < EntityCount THEN next[a] + HandOff - 1 ELSE EntityCount
             taken == [i \in 1..(last - next[a] + 1) |-> next[a] + i - 1]
  <2>1. taken \in Seq(Entities)
    <3>1. next[a] \in Nat \ {0} /\ next[a] <= EntityCount /\ last \in Nat /\ last - next[a] + 1 \in Nat
          /\ last <= EntityCount
      BY <1>0, FileOutputAssumption DEF Typed, TypedControl, TakeBatch
    <3> HIDE DEF last
    <3>2. \A i \in 1..(last - next[a] + 1) : next[a] + i - 1 \in Entities
      BY <3>1, FileOutputAssumption DEF Entities
    <3> QED BY <3>1, <3>2
  <2>2. batch' = [batch EXCEPT ![a] = taken]
    BY DEF TakeBatch
  <2> HIDE DEF taken
  <2> QED BY <1>0, <2>1, <2>2 DEF Typed, TypedQueues, TakeBatch, config, control, atomic
<1>3. TypedFiles'
  BY <1>0 DEF Typed, TypedFiles, TakeBatch
<1>4. Retained'
  BY <1>0, FileOutputAssumption DEF Typed, TypedQueues, Retained, TakeBatch, Waiting
<1>5. Elsewhere(a)
  BY <1>0
     DEF Typed, TypedControl, TypedQueues, TypedFiles, Elsewhere, TakeBatch, Waiting, config,
         control, atomic
<1>6. Attempted'
  <2>1. thread[a] \notin {"idle", "done"}
    BY DEF TakeBatch, Waiting
  <2> QED BY <1>5, <2>1, AttemptedKept
<1>7. Reporting'
  BY <1>0 DEF Typed, TypedControl, TypedQueues, Reporting, States, TakeBatch, Waiting
<1> QED BY <1>1, <1>2, <1>3, <1>4, <1>5, <1>6, <1>7 DEF Basics, Typed

\* An error of an earlier stage is reported.
LEMMA ForwardErrorBasics ==
  ASSUME Basics, NEW a \in Attempts, ForwardError(a)
  PROVE  Basics' /\ Elsewhere(a)
<1>0. Typed /\ Retained /\ Attempted /\ Reporting
  BY DEF Basics
<1>1. TypedControl'
  BY <1>0, FileOutputAssumption
     DEF Typed, TypedControl, States, ForwardError, Waiting, Report, config, control
<1>2. TypedQueues'
  BY <1>0 DEF Typed, TypedQueues, ForwardError, config, control, atomic
<1>3. TypedFiles'
  BY <1>0 DEF Typed, TypedFiles, ForwardError
<1>4. Retained'
  BY <1>0, FileOutputAssumption DEF Typed, TypedQueues, Retained, ForwardError, Waiting, Report
<1>5. Elsewhere(a)
  BY <1>0
     DEF Typed, TypedControl, TypedQueues, TypedFiles, Elsewhere, ForwardError, Waiting, Report,
         config, control, atomic
<1>6. Attempted'
  <2>1. thread[a] \notin {"idle", "done"}
    BY DEF ForwardError, Waiting, Report
  <2> QED BY <1>5, <2>1, AttemptedKept
<1>7. Reporting'
  BY <1>0 DEF Typed, TypedControl, TypedQueues, Reporting, States, ForwardError, Waiting, Report
<1> QED BY <1>1, <1>2, <1>3, <1>4, <1>5, <1>6, <1>7 DEF Basics, Typed

\* The stream ends.
LEMMA EndStreamBasics ==
  ASSUME Basics, NEW a \in Attempts, EndStream(a)
  PROVE  Basics' /\ Elsewhere(a)
<1>0. Typed /\ Retained /\ Attempted /\ Reporting
  BY DEF Basics
<1>1. TypedControl'
  BY <1>0, FileOutputAssumption
     DEF Typed, TypedControl, States, EndStream, Waiting, config, control
<1>2. TypedQueues'
  BY <1>0 DEF Typed, TypedQueues, EndStream, config, control, atomic
<1>3. TypedFiles'
  BY <1>0 DEF Typed, TypedFiles, EndStream
<1>4. Retained'
  BY <1>0, FileOutputAssumption DEF Typed, TypedQueues, Retained, EndStream, Waiting
<1>5. Elsewhere(a)
  BY <1>0
     DEF Typed, TypedControl, TypedQueues, TypedFiles, Elsewhere, EndStream, Waiting, config,
         control, atomic
<1>6. Attempted'
  <2>1. thread[a] \notin {"idle", "done"}
    BY DEF EndStream, Waiting
  <2> QED BY <1>5, <2>1, AttemptedKept
<1>7. Reporting'
  BY <1>0 DEF Typed, TypedControl, TypedQueues, Reporting, States, EndStream, Waiting
<1> QED BY <1>1, <1>2, <1>3, <1>4, <1>5, <1>6, <1>7 DEF Basics, Typed

\* An entity is retained, and a full batch prepared.
LEMMA PushBasics == ASSUME Basics, NEW a \in Attempts, Push(a) PROVE Basics' /\ Elsewhere(a)
<1>0. Typed /\ Retained /\ Attempted /\ Reporting
  BY DEF Basics
<1>1. TypedControl'
  BY <1>0, FileOutputAssumption DEF Typed, TypedControl, States, Push, OnFile, config, control
<1>2. TypedQueues'
  <2> DEFINE held == Append(pending[a], Head(batch[a]))
  <2>1. held \in Seq(Entities) /\ Tail(batch[a]) \in Seq(Entities) /\ <<>> \in Seq(Entities)
    BY <1>0, HeadTailProperties DEF Typed, TypedQueues, Push
  <2>2. /\ batch' = [batch EXCEPT ![a] = Tail(@)]
        /\ pending' = [pending EXCEPT ![a] = IF Len(held) >= BatchSize THEN <<>> ELSE held]
        /\ ready' = [ready EXCEPT ![a] = IF Len(held) >= BatchSize THEN held ELSE <<>>]
        /\ UNCHANGED <<spool, inner>>
    BY DEF Push, atomic
  <2> HIDE DEF held
  <2> QED BY <1>0, <2>1, <2>2 DEF Typed, TypedQueues
<1>3. TypedFiles'
  BY <1>0 DEF Typed, TypedFiles, Push
<1>4. Retained'
  BY <1>0, FileOutputAssumption DEF Typed, TypedQueues, Retained, Push, OnFile
<1>5. Elsewhere(a)
  BY <1>0
     DEF Typed, TypedControl, TypedQueues, TypedFiles, Elsewhere, Push, OnFile, config, control,
         atomic
<1>6. Attempted'
  <2>1. thread[a] \notin {"idle", "done"}
    BY DEF Push, OnFile
  <2> QED BY <1>5, <2>1, AttemptedKept
<1>7. Reporting'
  BY <1>0 DEF Typed, TypedControl, TypedQueues, Reporting, States, Push, OnFile
<1> QED BY <1>1, <1>2, <1>3, <1>4, <1>5, <1>6, <1>7 DEF Basics, Typed

\* What is retained is prepared when the stream has ended.
LEMMA FlushPendingBasics ==
  ASSUME Basics, NEW a \in Attempts, FlushPending(a)
  PROVE  Basics' /\ Elsewhere(a)
<1>0. Typed /\ Retained /\ Attempted /\ Reporting
  BY DEF Basics
<1>1. TypedControl'
  BY <1>0, FileOutputAssumption
     DEF Typed, TypedControl, States, FlushPending, OnFile, config, control
<1>2. TypedQueues'
  BY <1>0 DEF Typed, TypedQueues, FlushPending, config, control, atomic
<1>3. TypedFiles'
  BY <1>0 DEF Typed, TypedFiles, FlushPending
<1>4. Retained'
  BY <1>0, FileOutputAssumption DEF Typed, TypedQueues, Retained, FlushPending, OnFile
<1>5. Elsewhere(a)
  BY <1>0
     DEF Typed, TypedControl, TypedQueues, TypedFiles, Elsewhere, FlushPending, OnFile, config,
         control, atomic
<1>6. Attempted'
  <2>1. thread[a] \notin {"idle", "done"}
    BY DEF FlushPending, OnFile
  <2> QED BY <1>5, <2>1, AttemptedKept
<1>7. Reporting'
  BY <1>0 DEF Typed, TypedControl, TypedQueues, Reporting, States, FlushPending, OnFile
<1> QED BY <1>1, <1>2, <1>3, <1>4, <1>5, <1>6, <1>7 DEF Basics, Typed

\* A batch cannot be prepared.
LEMMA PrepareFailsBasics ==
  ASSUME Basics, NEW a \in Attempts, PrepareFails(a)
  PROVE  Basics' /\ Elsewhere(a)
<1>0. Typed /\ Retained /\ Attempted /\ Reporting
  BY DEF Basics
<1>1. TypedControl'
  BY <1>0, FileOutputAssumption
     DEF Typed, TypedControl, States, PrepareFails, OnFile, GiveUp, Report, config, control
<1>2. TypedQueues'
  BY <1>0 DEF Typed, TypedQueues, PrepareFails, GiveUp, config, control, atomic
<1>3. TypedFiles'
  BY <1>0 DEF Typed, TypedFiles, PrepareFails
<1>4. Retained'
  BY <1>0, FileOutputAssumption
     DEF Typed, TypedQueues, Retained, PrepareFails, OnFile, GiveUp, Report
<1>5. Elsewhere(a)
  BY <1>0
     DEF Typed, TypedControl, TypedQueues, TypedFiles, Elsewhere, PrepareFails, OnFile, GiveUp,
         Report, config, control, atomic
<1>6. Attempted'
  <2>1. thread[a] \notin {"idle", "done"}
    BY DEF PrepareFails, OnFile, GiveUp, Report
  <2> QED BY <1>5, <2>1, AttemptedKept
<1>7. Reporting'
  BY <1>0
     DEF Typed, TypedControl, TypedQueues, Reporting, States, PrepareFails, OnFile, GiveUp, Report
<1> QED BY <1>1, <1>2, <1>3, <1>4, <1>5, <1>6, <1>7 DEF Basics, Typed

\* A prepared entity reaches the sink of its type.
LEMMA WritePreparedBasics ==
  ASSUME Basics, NEW a \in Attempts, WritePrepared(a)
  PROVE  Basics' /\ Elsewhere(a)
<1>0. Typed /\ Retained /\ Attempted /\ Reporting
  BY DEF Basics
<1>1. TypedControl'
  BY <1>0, FileOutputAssumption
     DEF Typed, TypedControl, States, WritePrepared, OnFile, config, control
<1>2. TypedQueues'
  <2>1. Tail(ready[a]) \in Seq(Entities)
    BY <1>0, HeadTailProperties DEF Typed, TypedQueues, WritePrepared
  <2>2. ready' = [ready EXCEPT ![a] = Tail(@)] /\ UNCHANGED <<batch, pending, spool, inner>>
    BY DEF WritePrepared, atomic
  <2> QED BY <1>0, <2>1, <2>2 DEF Typed, TypedQueues
<1>3. TypedFiles'
  <2> DEFINE e == Head(ready[a])
             t == TypeOf[e]
             sink == SinkFor(a, t)
  <2>1. e \in Entities /\ t \in Types
    BY <1>0, HeadTailProperties DEF Typed, TypedQueues, WritePrepared, Types
  <2>2. sink \in Sinks /\ FileFor(a, t) \in Seq(Tokens) /\ files[t] \in Seq(Tokens)
    BY <1>0, <2>1, NewSinkTyped DEF Typed, TypedFiles, SinkFor, FileFor
  <2>3. Serialized(sink, a, e) \in Seq(Tokens)
    BY <2>1, SerializedTyped
  <2> HIDE DEF sink, t, e
  <2>4. CASE /\ sinks' = [sinks EXCEPT ![a][t] = Written(sink, Serialized(sink, a, e))]
             /\ files' = [files EXCEPT ![t] = FileFor(a, t)]
    BY <1>0, <2>1, <2>2, <2>3, <2>4, WrittenTyped DEF Typed, TypedFiles
  <2>5. CASE /\ sinks' = [sinks EXCEPT ![a][t] = Written(Flushed(sink), Serialized(sink, a, e))]
             /\ files' = [files EXCEPT ![t] = FlushedFile(files[t], sink)]
    BY <1>0, <2>1, <2>2, <2>3, <2>5, WrittenTyped, FlushedTyped DEF Typed, TypedFiles
  <2> QED BY <2>4, <2>5 DEF WritePrepared, Written, e, t, sink
<1>4. Retained'
  <2>1. pending' = pending /\ ready' = [ready EXCEPT ![a] = Tail(@)] /\ ready[a] # <<>>
    BY DEF WritePrepared
  <2>2. /\ ready[a] \in Seq(Entities) /\ Len(ready[a]) <= BatchSize
        /\ ready[a] = <<>> \/ pending[a] = <<>>
    BY <1>0 DEF Typed, TypedQueues, Retained
  <2>3. Len(Tail(ready[a])) = Len(ready[a]) - 1 /\ Len(ready[a]) \in Nat
    BY <2>1, <2>2, HeadTailProperties
  <2>4. Len(Tail(ready[a])) <= BatchSize
    BY <2>2, <2>3, FileOutputAssumption
  <2>5. ready'[a] = Tail(ready[a]) /\ pending'[a] = <<>>
    BY <1>0, <2>1, <2>2 DEF Typed, TypedQueues
  <2>6. \A b \in Attempts : pending'[b] = pending[b] /\ (b # a => ready'[b] = ready[b])
    BY <1>0, <2>1 DEF Typed, TypedQueues
  <2> QED BY <1>0, <2>4, <2>5, <2>6 DEF Retained
<1>5. Elsewhere(a)
  <2>1. \E t \in Types : \E s : sinks' = [sinks EXCEPT ![a][t] = s]
    <3>1. TypeOf[Head(ready[a])] \in Types
      BY <1>0, HeadTailProperties DEF Typed, TypedQueues, WritePrepared, Types
    <3>2. CASE sinks' = [sinks EXCEPT ![a][TypeOf[Head(ready[a])]] =
                           [SinkFor(a, TypeOf[Head(ready[a])]) EXCEPT !.first = TRUE, !.buffer =
                             @ \o Serialized(SinkFor(a, TypeOf[Head(ready[a])]), a, Head(ready[a]))]]
      BY <3>1, <3>2, Zenon DEF WritePrepared
    <3>3. CASE sinks' = [sinks EXCEPT ![a][TypeOf[Head(ready[a])]] =
                           [Flushed(SinkFor(a, TypeOf[Head(ready[a])])) EXCEPT !.first = TRUE, !.buffer =
                             @ \o Serialized(SinkFor(a, TypeOf[Head(ready[a])]), a, Head(ready[a]))]]
      BY <3>1, <3>3, Zenon DEF WritePrepared
    <3> QED BY <3>2, <3>3, Zenon DEF WritePrepared
  <2>2. /\ ready' = [ready EXCEPT ![a] = Tail(@)]
        /\ UNCHANGED <<config, control, shutdown, thread, next, errored, aborted, reported, batch,
                       pending, closeFailed, atomic>>
    BY DEF WritePrepared
  <2> QED BY <1>0, <2>1, <2>2
     DEF Typed, TypedQueues, TypedFiles, Elsewhere, config, control, atomic
<1>6. Attempted'
  <2>1. thread[a] \notin {"idle", "done"}
    BY DEF WritePrepared, OnFile
  <2> QED BY <1>5, <2>1, AttemptedKept
<1>7. Reporting'
  BY <1>0 DEF Typed, TypedControl, TypedQueues, Reporting, States, WritePrepared, OnFile
<1> QED BY <1>1, <1>2, <1>3, <1>4, <1>5, <1>6, <1>7 DEF Basics, Typed

\* A prepared entity cannot be written.
LEMMA WritePreparedFailsBasics ==
  ASSUME Basics, NEW a \in Attempts, WritePreparedFails(a)
  PROVE  Basics' /\ Elsewhere(a)
<1>0. Typed /\ Retained /\ Attempted /\ Reporting
  BY DEF Basics
<1>1. TypedControl'
  BY <1>0, FileOutputAssumption
     DEF Typed, TypedControl, States, WritePreparedFails, OnFile, GiveUp, Report, config, control
<1>2. TypedQueues'
  <2>1. /\ batch' = [batch EXCEPT ![a] = <<>>] /\ ready' = [ready EXCEPT ![a] = <<>>]
        /\ UNCHANGED <<pending, spool, inner>>
    BY DEF WritePreparedFails, GiveUp, atomic
  <2> QED BY <1>0, <2>1 DEF Typed, TypedQueues
<1>3. TypedFiles'
  <2> DEFINE e == Head(ready[a])
             t == TypeOf[e]
             line == Serialized(SinkFor(a, t), a, e)
  <2>1. e \in Entities /\ t \in Types
    BY <1>0, HeadTailProperties DEF Typed, TypedQueues, WritePreparedFails, Types
  <2>2. line \in Seq(Tokens)
    BY <2>1, SerializedTyped
  <2> HIDE DEF t, e, line
  <2>3. PICK n \in 0..(Len(line) - 1) :
          IF sinks[a][t].open
            THEN /\ sinks' = [sinks EXCEPT ![a][t].buffer = @ \o SubSeq(line, 1, n)]
                 /\ UNCHANGED files
            ELSE /\ UNCHANGED sinks
                 /\ \/ files' = [files EXCEPT ![t] = SubSeq(line, 1, n)]
                    \/ n = 0 /\ UNCHANGED files
    BY DEF WritePreparedFails, e, t, line
  <2> DEFINE part == SubSeq(line, 1, n)
  <2>4. part \in Seq(Tokens)
    BY <2>2
  <2> HIDE DEF part
  <2>5. sinks[a][t] \in Sinks
    BY <1>0, <2>1 DEF Typed, TypedFiles
  <2>6. [sinks[a][t] EXCEPT !.buffer = @ \o part] \in Sinks
    <3>1. sinks[a][t].buffer \o part \in Seq(Tokens)
      BY <2>4, <2>5 DEF Sinks
    <3> QED BY <2>5, <3>1 DEF Sinks
  <2>7. CASE sinks[a][t].open
    <3>1. sinks' = [sinks EXCEPT ![a][t] = [sinks[a][t] EXCEPT !.buffer = @ \o part]] /\ UNCHANGED files
      BY <1>0, <2>1, <2>3, <2>7 DEF part, Typed, TypedFiles
    <3> QED BY <1>0, <2>1, <2>6, <3>1 DEF Typed, TypedFiles
  <2>8. CASE ~sinks[a][t].open
    <3>1. UNCHANGED sinks /\ (files' = [files EXCEPT ![t] = part] \/ UNCHANGED files)
      BY <2>3, <2>8 DEF part
    <3> QED BY <1>0, <2>1, <2>4, <3>1 DEF Typed, TypedFiles
  <2> QED BY <2>7, <2>8
<1>4. Retained'
  <2>1. pending' = pending /\ ready' = [ready EXCEPT ![a] = <<>>]
    BY DEF WritePreparedFails, GiveUp
  <2> QED BY <1>0, <2>1, FileOutputAssumption DEF Typed, TypedQueues, Retained
<1>5. Elsewhere(a)
  BY <1>0
     DEF Typed, TypedControl, TypedQueues, TypedFiles, Elsewhere, WritePreparedFails, OnFile,
         GiveUp, Report, config, control, atomic
<1>6. Attempted'
  <2>1. thread[a] \notin {"idle", "done"}
    BY DEF WritePreparedFails, OnFile, GiveUp, Report
  <2> QED BY <1>5, <2>1, AttemptedKept
<1>7. Reporting'
  BY <1>0
     DEF Typed, TypedControl, TypedQueues, Reporting, States, WritePreparedFails, OnFile, GiveUp,
         Report
<1> QED BY <1>1, <1>2, <1>3, <1>4, <1>5, <1>6, <1>7 DEF Basics, Typed

\* finalize takes the sinks.
LEMMA TakeSinksBasics ==
  ASSUME Basics, NEW a \in Attempts, TakeSinks(a)
  PROVE  Basics' /\ Elsewhere(a)
<1>0. Typed /\ Retained /\ Attempted /\ Reporting
  BY DEF Basics
<1>1. TypedControl'
  BY <1>0, FileOutputAssumption
     DEF Typed, TypedControl, States, TakeSinks, OnFile, config, control
<1>2. TypedQueues'
  BY <1>0 DEF Typed, TypedQueues, TakeSinks, config, control, atomic
<1>3. TypedFiles'
  BY <1>0 DEF Typed, TypedFiles, TakeSinks
<1>4. Retained'
  BY <1>0, FileOutputAssumption DEF Typed, TypedQueues, Retained, TakeSinks, OnFile
<1>5. Elsewhere(a)
  BY <1>0
     DEF Typed, TypedControl, TypedQueues, TypedFiles, Elsewhere, TakeSinks, OnFile, config,
         control, atomic
<1>6. Attempted'
  <2>1. thread[a] \notin {"idle", "done"}
    BY DEF TakeSinks, OnFile
  <2> QED BY <1>5, <2>1, AttemptedKept
<1>7. Reporting'
  BY <1>0 DEF Typed, TypedControl, TypedQueues, Reporting, States, TakeSinks, OnFile
<1> QED BY <1>1, <1>2, <1>3, <1>4, <1>5, <1>6, <1>7 DEF Basics, Typed

\* finalize reports its end.
LEMMA EndFinalizeBasics ==
  ASSUME Basics, NEW a \in Attempts, EndFinalize(a)
  PROVE  Basics' /\ Elsewhere(a)
<1>0. Typed /\ Retained /\ Attempted /\ Reporting
  BY DEF Basics
<1>1. TypedControl'
  BY <1>0, FileOutputAssumption
     DEF Typed, TypedControl, States, EndFinalize, Report, config, control
<1>2. TypedQueues'
  BY <1>0 DEF Typed, TypedQueues, EndFinalize, config, control, atomic
<1>3. TypedFiles'
  BY <1>0 DEF Typed, TypedFiles, EndFinalize
<1>4. Retained'
  BY <1>0, FileOutputAssumption DEF Typed, TypedQueues, Retained, EndFinalize, Report
<1>5. Elsewhere(a)
  BY <1>0
     DEF Typed, TypedControl, TypedQueues, TypedFiles, Elsewhere, EndFinalize, Report, config,
         control, atomic
<1>6. Attempted'
  <2>1. thread[a] \notin {"idle", "done"}
    BY DEF EndFinalize, Report
  <2> QED BY <1>5, <2>1, AttemptedKept
<1>7. Reporting'
  BY <1>0 DEF Typed, TypedControl, TypedQueues, Reporting, States, EndFinalize, Report
<1> QED BY <1>1, <1>2, <1>3, <1>4, <1>5, <1>6, <1>7 DEF Basics, Typed

\* The writer is dropped.
LEMMA DroppedBasics == ASSUME Basics, NEW a \in Attempts, Dropped(a) PROVE Basics' /\ Elsewhere(a)
<1>0. Typed /\ Retained /\ Attempted /\ Reporting
  BY DEF Basics
<1>1. TypedControl'
  BY <1>0, FileOutputAssumption DEF Typed, TypedControl, States, Dropped, config, control
<1>2. TypedQueues'
  BY <1>0 DEF Typed, TypedQueues, Dropped, config, control, atomic
<1>3. TypedFiles'
  BY <1>0 DEF Typed, TypedFiles, Dropped
<1>4. Retained'
  BY <1>0, FileOutputAssumption DEF Typed, TypedQueues, Retained, Dropped
<1>5. Elsewhere(a)
  BY <1>0
     DEF Typed, TypedControl, TypedQueues, TypedFiles, Elsewhere, Dropped, config, control, atomic
<1>6. Attempted'
  <2>1. thread[a] \notin {"idle", "done"}
    BY DEF Dropped
  <2> QED BY <1>5, <2>1, AttemptedKept
<1>7. Reporting'
  BY <1>0 DEF Typed, TypedControl, TypedQueues, Reporting, States, Dropped
<1> QED BY <1>1, <1>2, <1>3, <1>4, <1>5, <1>6, <1>7 DEF Basics, Typed

\* An entity is spooled.
LEMMA SpoolBasics == ASSUME Basics, NEW a \in Attempts, Spool(a) PROVE Basics' /\ Elsewhere(a)
<1>0. Typed /\ Retained /\ Attempted /\ Reporting
  BY DEF Basics
<1>1. TypedControl'
  BY <1>0, FileOutputAssumption DEF Typed, TypedControl, States, Spool, OnSpool, config, control
<1>2. TypedQueues'
  <2>1. Tail(batch[a]) \in Seq(Entities) /\ Line(a, Head(batch[a])) \in Tokens
    BY <1>0, HeadTailProperties, TokensAre DEF Typed, TypedQueues, Spool
  <2>2. Append(spool[a], Line(a, Head(batch[a]))) \in Seq(Tokens)
    BY <1>0, <2>1 DEF Typed, TypedQueues
  <2>3. /\ batch' = [batch EXCEPT ![a] = Tail(@)] /\ UNCHANGED <<pending, ready, inner>>
        /\ spool' = [spool EXCEPT ![a] = Append(spool[a], Line(a, Head(batch[a])))]
    BY DEF Spool
  <2> QED BY <1>0, <2>1, <2>2, <2>3 DEF Typed, TypedQueues
<1>3. TypedFiles'
  BY <1>0 DEF Typed, TypedFiles, Spool
<1>4. Retained'
  BY <1>0, FileOutputAssumption DEF Typed, TypedQueues, Retained, Spool, OnSpool
<1>5. Elsewhere(a)
  BY <1>0
     DEF Typed, TypedControl, TypedQueues, TypedFiles, Elsewhere, Spool, OnSpool, config,
         control, atomic
<1>6. Attempted'
  <2>1. thread[a] \notin {"idle", "done"}
    BY DEF Spool, OnSpool
  <2> QED BY <1>5, <2>1, AttemptedKept
<1>7. Reporting'
  BY <1>0 DEF Typed, TypedControl, TypedQueues, Reporting, States, Spool, OnSpool
<1> QED BY <1>1, <1>2, <1>3, <1>4, <1>5, <1>6, <1>7 DEF Basics, Typed

\* An entity cannot be spooled.
LEMMA SpoolFailsBasics ==
  ASSUME Basics, NEW a \in Attempts, SpoolFails(a)
  PROVE  Basics' /\ Elsewhere(a)
<1>0. Typed /\ Retained /\ Attempted /\ Reporting
  BY DEF Basics
<1>1. TypedControl'
  BY <1>0, FileOutputAssumption
     DEF Typed, TypedControl, States, SpoolFails, OnSpool, GiveUp, Report, config, control
<1>2. TypedQueues'
  <2>1. Append(spool[a], Torn) \in Seq(Tokens)
    BY <1>0, TokensAre DEF Typed, TypedQueues
  <2>2. /\ batch' = [batch EXCEPT ![a] = <<>>] /\ ready' = [ready EXCEPT ![a] = <<>>]
        /\ UNCHANGED <<pending, inner>>
        /\ spool' = spool \/ spool' = [spool EXCEPT ![a] = Append(spool[a], Torn)]
    BY DEF SpoolFails, GiveUp
  <2>3. spool' \in [Attempts -> Seq(Tokens)]
    BY <1>0, <2>1, <2>2 DEF Typed, TypedQueues
  <2>4. batch' \in [Attempts -> Seq(Entities)] /\ ready' \in [Attempts -> Seq(Entities)]
    <3>1. batch' = [batch EXCEPT ![a] = <<>>] /\ ready' = [ready EXCEPT ![a] = <<>>]
      BY <2>2
    <3> QED BY <1>0, <3>1 DEF Typed, TypedQueues
  <2>5. UNCHANGED <<pending, inner>>
    BY <2>2
  <2> QED BY <1>0, <2>3, <2>4, <2>5 DEF Typed, TypedQueues
<1>3. TypedFiles'
  BY <1>0 DEF Typed, TypedFiles, SpoolFails
<1>4. Retained'
  BY <1>0, FileOutputAssumption
     DEF Typed, TypedQueues, Retained, SpoolFails, OnSpool, GiveUp, Report
<1>5. Elsewhere(a)
  BY <1>0
     DEF Typed, TypedControl, TypedQueues, TypedFiles, Elsewhere, SpoolFails, OnSpool, GiveUp,
         Report, config, control, atomic
<1>6. Attempted'
  <2>1. thread[a] \notin {"idle", "done"}
    BY DEF SpoolFails, OnSpool, GiveUp, Report
  <2> QED BY <1>5, <2>1, AttemptedKept
<1>7. Reporting'
  BY <1>0
     DEF Typed, TypedControl, TypedQueues, Reporting, States, SpoolFails, OnSpool, GiveUp, Report
<1> QED BY <1>1, <1>2, <1>3, <1>4, <1>5, <1>6, <1>7 DEF Basics, Typed

\* A line is replayed.
LEMMA ReplayBasics == ASSUME Basics, NEW a \in Attempts, Replay(a) PROVE Basics' /\ Elsewhere(a)
<1>0. Typed /\ Retained /\ Attempted /\ Reporting
  BY DEF Basics
<1>1. TypedControl'
  BY <1>0, FileOutputAssumption
     DEF Typed, TypedControl, States, Replay, Finalizing, OnSpool, config, control
<1>2. TypedQueues'
  BY <1>0 DEF Typed, TypedQueues, Replay, config, control, atomic
<1>3. TypedFiles'
  BY <1>0 DEF Typed, TypedFiles, Replay
<1>4. Retained'
  BY <1>0, FileOutputAssumption DEF Typed, TypedQueues, Retained, Replay, Finalizing, OnSpool
<1>5. Elsewhere(a)
  BY <1>0
     DEF Typed, TypedControl, TypedQueues, TypedFiles, Elsewhere, Replay, Finalizing, OnSpool,
         config, control, atomic
<1>6. Attempted'
  <2>1. thread[a] \notin {"idle", "done"}
    BY DEF Replay, Finalizing, OnSpool
  <2> QED BY <1>5, <2>1, AttemptedKept
<1>7. Reporting'
  BY <1>0 DEF Typed, TypedControl, TypedQueues, Reporting, States, Replay, Finalizing, OnSpool
<1> QED BY <1>1, <1>2, <1>3, <1>4, <1>5, <1>6, <1>7 DEF Basics, Typed

\* The replay fails.
LEMMA ReplayFailsBasics ==
  ASSUME Basics, NEW a \in Attempts, ReplayFails(a)
  PROVE  Basics' /\ Elsewhere(a)
<1>0. Typed /\ Retained /\ Attempted /\ Reporting
  BY DEF Basics
<1>1. TypedControl'
  BY <1>0, FileOutputAssumption
     DEF Typed, TypedControl, States, ReplayFails, Finalizing, OnSpool, Report, config, control
<1>2. TypedQueues'
  BY <1>0 DEF Typed, TypedQueues, ReplayFails, config, control, atomic
<1>3. TypedFiles'
  BY <1>0 DEF Typed, TypedFiles, ReplayFails
<1>4. Retained'
  BY <1>0, FileOutputAssumption
     DEF Typed, TypedQueues, Retained, ReplayFails, Finalizing, OnSpool, Report
<1>5. Elsewhere(a)
  BY <1>0
     DEF Typed, TypedControl, TypedQueues, TypedFiles, Elsewhere, ReplayFails, Finalizing,
         OnSpool, Report, config, control, atomic
<1>6. Attempted'
  <2>1. thread[a] \notin {"idle", "done"}
    BY DEF ReplayFails, Finalizing, OnSpool, Report
  <2> QED BY <1>5, <2>1, AttemptedKept
<1>7. Reporting'
  BY <1>0
     DEF Typed, TypedControl, TypedQueues, Reporting, States, ReplayFails, Finalizing, OnSpool,
         Report
<1> QED BY <1>1, <1>2, <1>3, <1>4, <1>5, <1>6, <1>7 DEF Basics, Typed

\* The wrapped writer is finalized.
LEMMA FinalizeInnerBasics ==
  ASSUME Basics, NEW a \in Attempts, FinalizeInner(a)
  PROVE  Basics' /\ Elsewhere(a)
<1>0. Typed /\ Retained /\ Attempted /\ Reporting
  BY DEF Basics
<1>1. TypedControl'
  BY <1>0, FileOutputAssumption
     DEF Typed, TypedControl, States, FinalizeInner, Finalizing, OnSpool, Report, config, control
<1>2. TypedQueues'
  BY <1>0 DEF Typed, TypedQueues, FinalizeInner, config, control, atomic
<1>3. TypedFiles'
  BY <1>0 DEF Typed, TypedFiles, FinalizeInner
<1>4. Retained'
  BY <1>0, FileOutputAssumption
     DEF Typed, TypedQueues, Retained, FinalizeInner, Finalizing, OnSpool, Report
<1>5. Elsewhere(a)
  BY <1>0
     DEF Typed, TypedControl, TypedQueues, TypedFiles, Elsewhere, FinalizeInner, Finalizing,
         OnSpool, Report, config, control, atomic
<1>6. Attempted'
  <2>1. thread[a] \notin {"idle", "done"}
    BY DEF FinalizeInner, Finalizing, OnSpool, Report
  <2> QED BY <1>5, <2>1, AttemptedKept
<1>7. Reporting'
  BY <1>0
     DEF Typed, TypedControl, TypedQueues, Reporting, States, FinalizeInner, Finalizing, OnSpool,
         Report
<1> QED BY <1>1, <1>2, <1>3, <1>4, <1>5, <1>6, <1>7 DEF Basics, Typed

\* A sink is closed.
LEMMA CloseSinkBasics ==
  ASSUME Basics, NEW a \in Attempts, NEW t \in Types, CloseSink(a, t)
  PROVE  Basics' /\ Elsewhere(a)
<1>0. Typed /\ Retained /\ Attempted /\ Reporting
  BY DEF Basics
<1>1. TypedControl'
  BY <1>0, FileOutputAssumption
     DEF Typed, TypedControl, States, CloseSink, Unclosed, config, control
<1>2. TypedQueues'
  BY <1>0 DEF Typed, TypedQueues, CloseSink, config, control, atomic
<1>3. TypedFiles'
  <2> DEFINE end == IF framing = "Array" THEN <<Closing>> ELSE <<>>
             ended == [sinks[a][t] EXCEPT !.buffer = @ \o end]
  <2>1. sinks[a][t] \in Sinks /\ files[t] \in Seq(Tokens)
    BY <1>0 DEF Typed, TypedFiles
  <2>2. end \in Seq(Tokens)
    BY TokensAre
  <2> HIDE DEF end
  <2>3. ended \in Sinks
    <3>1. sinks[a][t].buffer \o end \in Seq(Tokens)
      BY <2>1, <2>2 DEF Sinks
    <3> QED BY <2>1, <3>1 DEF Sinks
  <2>4. sinks' = [sinks EXCEPT ![a][t] = NoSink] /\ files' = [files EXCEPT ![t] = FlushedFile(@, ended)]
    BY DEF CloseSink, end
  <2> HIDE DEF ended
  <2> QED BY <1>0, <2>1, <2>3, <2>4, NewSinkTyped, FlushedTyped DEF Typed, TypedFiles
<1>4. Retained'
  BY <1>0, FileOutputAssumption DEF Typed, TypedQueues, Retained, CloseSink, Unclosed
<1>5. Elsewhere(a)
  BY <1>0
     DEF Typed, TypedControl, TypedQueues, TypedFiles, Elsewhere, CloseSink, Unclosed, config,
         control, atomic
<1>6. Attempted'
  <2>1. thread[a] \notin {"idle", "done"}
    BY DEF CloseSink, Unclosed
  <2> QED BY <1>5, <2>1, AttemptedKept
<1>7. Reporting'
  BY <1>0 DEF Typed, TypedControl, TypedQueues, Reporting, States, CloseSink, Unclosed
<1> QED BY <1>1, <1>2, <1>3, <1>4, <1>5, <1>6, <1>7 DEF Basics, Typed

\* A sink cannot be closed.
LEMMA CloseSinkFailsBasics ==
  ASSUME Basics, NEW a \in Attempts, NEW t \in Types, CloseSinkFails(a, t)
  PROVE  Basics' /\ Elsewhere(a)
<1>0. Typed /\ Retained /\ Attempted /\ Reporting
  BY DEF Basics
<1>1. TypedControl'
  BY <1>0, FileOutputAssumption
     DEF Typed, TypedControl, States, CloseSinkFails, Unclosed, config, control
<1>2. TypedQueues'
  BY <1>0 DEF Typed, TypedQueues, CloseSinkFails, config, control, atomic
<1>3. TypedFiles'
  <2>1. sinks' = [sinks EXCEPT ![a][t] = NoSink] /\ UNCHANGED files
    BY DEF CloseSinkFails
  <2> QED BY <1>0, <2>1, NewSinkTyped DEF Typed, TypedFiles
<1>4. Retained'
  BY <1>0, FileOutputAssumption DEF Typed, TypedQueues, Retained, CloseSinkFails, Unclosed
<1>5. Elsewhere(a)
  BY <1>0
     DEF Typed, TypedControl, TypedQueues, TypedFiles, Elsewhere, CloseSinkFails, Unclosed,
         config, control, atomic
<1>6. Attempted'
  <2>1. thread[a] \notin {"idle", "done"}
    BY DEF CloseSinkFails, Unclosed
  <2> QED BY <1>5, <2>1, AttemptedKept
<1>7. Reporting'
  BY <1>0 DEF Typed, TypedControl, TypedQueues, Reporting, States, CloseSinkFails, Unclosed
<1> QED BY <1>1, <1>2, <1>3, <1>4, <1>5, <1>6, <1>7 DEF Basics, Typed

\* A sink is dropped.
LEMMA DropSinkBasics ==
  ASSUME Basics, NEW a \in Attempts, NEW t \in Types, DropSink(a, t)
  PROVE  Basics' /\ Elsewhere(a)
<1>0. Typed /\ Retained /\ Attempted /\ Reporting
  BY DEF Basics
<1>1. TypedControl'
  BY <1>0, FileOutputAssumption
     DEF Typed, TypedControl, States, DropSink, Unclosed, config, control
<1>2. TypedQueues'
  BY <1>0 DEF Typed, TypedQueues, DropSink, config, control, atomic
<1>3. TypedFiles'
  <2>1. sinks[a][t] \in Sinks /\ files[t] \in Seq(Tokens)
    BY <1>0 DEF Typed, TypedFiles
  <2>2. /\ sinks' = [sinks EXCEPT ![a][t] = NoSink]
        /\ files' = [files EXCEPT ![t] = FlushedFile(@, sinks[a][t])]
    BY DEF DropSink
  <2> QED BY <1>0, <2>1, <2>2, NewSinkTyped, FlushedTyped DEF Typed, TypedFiles
<1>4. Retained'
  BY <1>0, FileOutputAssumption DEF Typed, TypedQueues, Retained, DropSink, Unclosed
<1>5. Elsewhere(a)
  BY <1>0
     DEF Typed, TypedControl, TypedQueues, TypedFiles, Elsewhere, DropSink, Unclosed, config,
         control, atomic
<1>6. Attempted'
  <2>1. thread[a] \notin {"idle", "done"}
    BY DEF DropSink, Unclosed
  <2> QED BY <1>5, <2>1, AttemptedKept
<1>7. Reporting'
  BY <1>0 DEF Typed, TypedControl, TypedQueues, Reporting, States, DropSink, Unclosed
<1> QED BY <1>1, <1>2, <1>3, <1>4, <1>5, <1>6, <1>7 DEF Basics, Typed

-----------------------------------------------------------------------------
\* The files of an attempt that nobody disturbs.

\* A step of the thread of that attempt.
LEMMA FileKept ==
  ASSUME Basics, FileInv, NEW a \in Attempts, thread[a] \notin {"idle", "done"}, Elsewhere(a),
         \A p, r, m \in 0..EntityCount :
           Held(a, p, r, m) /\ Undisturbed(a) /\ Undisturbed(a)' =>
             \E q, s, n \in 0..EntityCount : Held(a, q, s, n)'
  PROVE  FileInv'
<1> SUFFICES ASSUME NEW b \in Attempts, Undisturbed(b)'
             PROVE  \E p, r, m \in 0..EntityCount : Held(b, p, r, m)'
  BY DEF FileInv
<1>1. attempt \notin contested => a = attempt
  BY ActiveThread
<1>2. a = b
  BY <1>1 DEF Undisturbed, Elsewhere
<1>3. Undisturbed(a) /\ Undisturbed(a)'
  BY <1>2 DEF Undisturbed, Elsewhere
<1>4. PICK p, r, m \in 0..EntityCount : Held(a, p, r, m)
  BY <1>3 DEF FileInv
<1>5. \E q, s, n \in 0..EntityCount : Held(a, q, s, n)'
  BY <1>3, <1>4
<1> QED BY <1>2, <1>5

\* The framing does not change.
LEMMA FramingKept ==
  ASSUME UNCHANGED framing, NEW l
  PROVE  Joined(l)' = Joined(l) /\ Framed(l)' = Framed(l)
BY DEF Joined, Framed

\* A sink that nothing touches.
LEMMA SinkKept ==
  ASSUME NEW a, NEW t, NEW p, UNCHANGED framing, SinkHolds(a, t, p),
         sinks'[a][t] = sinks[a][t], files'[t] = files[t],
         thread'[a] \in {"closing", "done"} <=> thread[a] \in {"closing", "done"}
  PROVE  SinkHolds(a, t, p)'
<1> DEFINE lines == Lines(a, t, p)
<1>1. Joined(lines)' = Joined(lines) /\ Framed(lines)' = Framed(lines)
  BY FramingKept
<1> HIDE DEF lines
<1> QED BY <1>1 DEF SinkHolds, lines

\* Sinks that nothing touches.
LEMMA SinksKept ==
  ASSUME NEW a, NEW p, UNCHANGED <<framing, files>>, SinksHold(a, p), sinks'[a] = sinks[a],
         thread'[a] \in {"closing", "done"} <=> thread[a] \in {"closing", "done"}
  PROVE  SinksHold(a, p)'
BY SinkKept DEF SinksHold

\* What is in hand of the stream.
LEMMA HandOf ==
  ASSUME Basics, NEW a \in Attempts, NEW p \in 0..EntityCount, NEW r \in 0..EntityCount,
         NEW m \in 0..EntityCount, InHand(a, p, r, m)
  PROVE  /\ p \in Nat /\ r \in Nat /\ m \in Nat /\ next[a] - 1 \in 0..EntityCount /\ next[a] \in Nat
         /\ ready[a] = <<>> <=> p = r
         /\ pending[a] = <<>> <=> r = m
         /\ batch[a] = <<>> <=> m = next[a] - 1
<1>1. p \in Nat /\ r \in Nat /\ m \in Nat /\ next[a] - 1 \in 0..EntityCount /\ next[a] \in Nat
  BY FileOutputAssumption DEF Basics, Typed, TypedControl
<1> DEFINE n == next[a] - 1
<1>2. n \in Nat
  BY <1>1, FileOutputAssumption
<1>3. /\ p <= r /\ r <= m /\ m <= n
      /\ Stretch(ready[a], p, r) /\ Stretch(pending[a], r, m) /\ Stretch(batch[a], m, n)
  BY DEF InHand
<1> HIDE DEF n
<1>4. /\ ready[a] = <<>> <=> p = r
      /\ pending[a] = <<>> <=> r = m
      /\ batch[a] = <<>> <=> m = n
  BY <1>1, <1>2, <1>3, StretchOf
<1> QED BY <1>1, <1>4 DEF n

\* The batch that is taken continues what was taken before.
LEMMA BatchTaken ==
  ASSUME Typed, NEW a \in Attempts, TakeBatch(a), NEW m \in Nat, m <= next[a] - 1,
         Stretch(batch[a], m, next[a] - 1)
  PROVE  m <= next'[a] - 1 /\ Stretch(batch'[a], m, next'[a] - 1)
<1> DEFINE last == IF next[a] + HandOff - 1 < EntityCount THEN next[a] + HandOff - 1 ELSE EntityCount
<1>1. next[a] \in Nat /\ next[a] - 1 \in Nat /\ next[a] <= EntityCount
  BY FileOutputAssumption DEF Typed, TypedControl, TakeBatch
<1>2. m = next[a] - 1
  BY <1>1, StretchOf DEF TakeBatch, Waiting
<1>3. last \in Nat /\ m <= last
  BY <1>1, <1>2, FileOutputAssumption
<1>4. batch'[a] = [i \in 1..(last - next[a] + 1) |-> next[a] + i - 1] /\ next'[a] = last + 1
  BY DEF TakeBatch, Typed, TypedControl, TypedQueues
<1> HIDE DEF last
<1>5. next'[a] - 1 = last /\ last - next[a] + 1 = last - m
  <2>1. next'[a] = last + 1
    BY <1>4
  <2> QED BY <1>1, <1>2, <1>3, <2>1
<1>6. \A i \in 1..(last - m) : next[a] + i - 1 = m + i
  BY <1>1, <1>2, <1>3
<1>7. Stretch(batch'[a], m, last)
  BY <1>4, <1>5, <1>6 DEF Stretch
<1> QED BY <1>3, <1>5, <1>7

\* A batch of the stream is taken: all of it is in hand.
LEMMA TakeBatchFile ==
  ASSUME Basics, NEW a \in Attempts, TakeBatch(a), NEW p \in 0..EntityCount,
         NEW r \in 0..EntityCount, NEW m \in 0..EntityCount, Held(a, p, r, m)
  PROVE  Held(a, p, r, m)'
<1>0. Typed /\ InHand(a, p, r, m) /\ SinksHold(a, p) /\ Stage(a, p)
  BY DEF Basics, Held
<1>1. UNCHANGED <<ready, pending, sinks, files, framing, thread>>
  BY DEF TakeBatch, config
<1>2. m <= next'[a] - 1 /\ Stretch(batch'[a], m, next'[a] - 1)
  BY <1>0, HandOf, BatchTaken DEF InHand
<1>3. InHand(a, p, r, m)'
  BY <1>0, <1>1, <1>2 DEF InHand, Stretch
<1>4. SinksHold(a, p)'
  BY <1>0, <1>1, SinksKept
<1>5. Stage(a, p)'
  BY <1>0, <1>1 DEF Stage, TakeBatch, Waiting
<1> QED BY <1>3, <1>4, <1>5 DEF Held

\* The stream ends: without an error only when it is complete, or cancelled.
LEMMA EndStreamFile ==
  ASSUME Basics, NEW a \in Attempts, EndStream(a), NEW p \in 0..EntityCount,
         NEW r \in 0..EntityCount, NEW m \in 0..EntityCount, Held(a, p, r, m), Undisturbed(a)'
  PROVE  Held(a, p, r, m)'
<1>0. Typed /\ Reporting /\ InHand(a, p, r, m) /\ SinksHold(a, p) /\ Stage(a, p)
  BY DEF Basics, Held
<1>1. /\ thread[a] = "running" /\ thread'[a] = "flushing" /\ (shutdown \/ next[a] > EntityCount)
      /\ UNCHANGED <<ready, pending, batch, next, sinks, files, framing, shutdown>>
  BY <1>0 DEF EndStream, Waiting, Typed, TypedControl, config, Reporting, Undisturbed
<1>2. InHand(a, p, r, m)'
  BY <1>0, <1>1 DEF InHand, Stretch
<1>3. SinksHold(a, p)'
  BY <1>0, <1>1, SinksKept
<1>4. next[a] > EntityCount => next[a] = EntityCount + 1
  BY <1>0, FileOutputAssumption DEF Typed, TypedControl
<1>5. Stage(a, p)'
  BY <1>1, <1>4 DEF Stage
<1> QED BY <1>2, <1>3, <1>5 DEF Held

\* An entity goes from the batch to those retained, or a full batch is prepared.
LEMMA PushFile ==
  ASSUME Basics, NEW a \in Attempts, Push(a), NEW p \in 0..EntityCount,
         NEW r \in 0..EntityCount, NEW m \in 0..EntityCount, Held(a, p, r, m)
  PROVE  \E q, s, n \in 0..EntityCount : Held(a, q, s, n)'
<1> DEFINE held == Append(pending[a], Head(batch[a]))
<1>0. Typed /\ InHand(a, p, r, m) /\ SinksHold(a, p) /\ Stage(a, p)
  BY DEF Basics, Held
<1>1. /\ p \in Nat /\ r \in Nat /\ m \in Nat /\ next[a] - 1 \in Nat /\ p = r
      /\ batch[a] # <<>> /\ p <= r /\ r <= m /\ m <= next[a] - 1 /\ next[a] - 1 <= EntityCount
  BY <1>0, HandOf, FileOutputAssumption DEF Push, InHand
<1>2. /\ Head(batch[a]) = m + 1 /\ Stretch(Tail(batch[a]), m + 1, next[a] - 1)
      /\ m + 1 <= next[a] - 1
  <2> DEFINE n == next[a] - 1
  <2>1. n \in Nat /\ m <= n /\ Stretch(batch[a], m, n)
    BY <1>0, <1>1 DEF InHand
  <2> HIDE DEF n
  <2>2. Head(batch[a]) = m + 1 /\ Stretch(Tail(batch[a]), m + 1, n) /\ m + 1 <= n
    BY <1>1, <2>1, StretchOf
  <2> QED BY <2>2 DEF n
<1>3. Stretch(held, r, m + 1)
  BY <1>0, <1>1, <1>2, StretchOf DEF InHand
<1>4. m + 1 \in 0..EntityCount /\ r <= m + 1 /\ p <= m + 1
  BY <1>1, <1>2, FileOutputAssumption
<1>5. /\ batch'[a] = Tail(batch[a])
      /\ pending'[a] = IF Len(held) >= BatchSize THEN <<>> ELSE held
      /\ ready'[a] = IF Len(held) >= BatchSize THEN held ELSE <<>>
      /\ UNCHANGED <<thread, next, sinks, files, framing, shutdown>>
  BY <1>0 DEF Push, Typed, TypedQueues, config
<1> HIDE DEF held
<1>6. SinksHold(a, p)' /\ Stage(a, p)'
  BY <1>0, <1>5, SinksKept DEF Stage
<1>7. CASE Len(held) >= BatchSize
  <2>1. Stretch(<<>>, m + 1, m + 1)
    BY <1>1, EmptyStretch
  <2>2. InHand(a, p, m + 1, m + 1)'
    <3>1. ready'[a] = held /\ pending'[a] = <<>> /\ batch'[a] = Tail(batch[a]) /\ next' = next
      BY <1>5, <1>7
    <3>2. Stretch(held, p, m + 1)
      BY <1>1, <1>3
    <3>3. /\ Stretch(ready[a], p, m + 1)' /\ Stretch(pending[a], m + 1, m + 1)'
          /\ Stretch(batch[a], m + 1, next[a] - 1)'
      BY <1>2, <2>1, <3>1, <3>2 DEF Stretch
    <3> QED BY <1>1, <1>2, <1>4, <3>1, <3>3 DEF InHand
  <2> QED BY <1>4, <1>6, <2>2 DEF Held
<1>8. CASE ~(Len(held) >= BatchSize)
  <2>1. Stretch(<<>>, p, r)
    BY <1>1, EmptyStretch
  <2>2. InHand(a, p, r, m + 1)'
    BY <1>1, <1>2, <1>3, <1>4, <1>5, <1>8, <2>1 DEF InHand, Stretch
  <2> QED BY <1>4, <1>6, <2>2 DEF Held
<1> QED BY <1>7, <1>8

\* What was retained is prepared.
LEMMA FlushPendingFile ==
  ASSUME Basics, NEW a \in Attempts, FlushPending(a), NEW p \in 0..EntityCount,
         NEW r \in 0..EntityCount, NEW m \in 0..EntityCount, Held(a, p, r, m)
  PROVE  \E q, s, n \in 0..EntityCount : Held(a, q, s, n)'
<1>0. Typed /\ InHand(a, p, r, m) /\ SinksHold(a, p) /\ Stage(a, p)
  BY DEF Basics, Held
<1>1. p = r /\ p \in Nat /\ m \in Nat
  BY <1>0, HandOf DEF FlushPending
<1>2. /\ ready'[a] = pending[a] /\ pending'[a] = <<>>
      /\ UNCHANGED <<thread, batch, next, sinks, files, framing, shutdown>>
  BY <1>0 DEF FlushPending, Typed, TypedQueues, config
<1>3. SinksHold(a, p)' /\ Stage(a, p)'
  BY <1>0, <1>2, SinksKept DEF Stage
<1>4. Stretch(<<>>, m, m)
  BY <1>1, EmptyStretch
<1>5. InHand(a, p, m, m)'
  BY <1>0, <1>1, <1>2, <1>4 DEF InHand, Stretch
<1> QED BY <1>3, <1>5 DEF Held

\* When finalize takes the sinks nothing is in hand any more.
LEMMA TakeSinksFile ==
  ASSUME Basics, NEW a \in Attempts, TakeSinks(a), NEW p \in 0..EntityCount,
         NEW r \in 0..EntityCount, NEW m \in 0..EntityCount, Held(a, p, r, m)
  PROVE  Held(a, p, r, m)'
<1>0. Typed /\ Reporting /\ InHand(a, p, r, m) /\ SinksHold(a, p) /\ Stage(a, p)
  BY DEF Basics, Held
<1>1. /\ thread[a] = "flushing" /\ thread'[a] = "closing"
      /\ UNCHANGED <<ready, pending, batch, next, sinks, files, framing, shutdown>>
  BY <1>0 DEF TakeSinks, Typed, TypedControl, config
<1>2. p = next[a] - 1
  BY <1>0, <1>1, HandOf DEF TakeSinks, Reporting
<1>3. InHand(a, p, r, m)' /\ Stage(a, p)'
  BY <1>0, <1>1, <1>2 DEF InHand, Stretch, Stage
<1>4. SinksHold(a, p)'
  <2> SUFFICES ASSUME NEW t \in Types PROVE SinkHolds(a, t, p)'
    BY DEF SinksHold
  <2> DEFINE lines == Lines(a, t, p)
  <2>1. SinkHolds(a, t, p)
    BY <1>0 DEF SinksHold
  <2>2. Joined(lines)' = Joined(lines) /\ Framed(lines)' = Framed(lines)
    BY <1>1, FramingKept
  <2>3. lines = <<>> => Framed(lines) = <<>>
    BY DEF Framed
  <2> HIDE DEF lines
  <2> QED BY <1>1, <2>1, <2>2, <2>3 DEF SinkHolds, lines
<1> QED BY <1>3, <1>4 DEF Held

\* finalize ends when the last sink was closed.
LEMMA EndFinalizeFile ==
  ASSUME Basics, NEW a \in Attempts, EndFinalize(a), NEW p \in 0..EntityCount,
         NEW r \in 0..EntityCount, NEW m \in 0..EntityCount, Held(a, p, r, m)
  PROVE  Held(a, p, r, m)'
<1>0. Typed /\ InHand(a, p, r, m) /\ SinksHold(a, p) /\ Stage(a, p)
  BY DEF Basics, Held
<1>1. /\ thread[a] = "closing" /\ thread'[a] = "done" /\ (\A t \in Types : ~sinks[a][t].open)
      /\ UNCHANGED <<ready, pending, batch, next, sinks, files, framing, shutdown>>
  BY <1>0 DEF EndFinalize, Unclosed, Typed, TypedControl, config
<1>2. InHand(a, p, r, m)' /\ Stage(a, p)'
  BY <1>0, <1>1 DEF InHand, Stretch, Stage
<1>3. SinksHold(a, p)'
  BY <1>0, <1>1, SinksKept
<1> QED BY <1>2, <1>3 DEF Held

\* The sink of a type, which may have to be opened, and its file.
LEMMA SinkForHolds ==
  ASSUME Typed, NEW a \in Attempts, NEW t \in Types, NEW p \in Nat, SinkHolds(a, t, p),
         thread[a] \in {"running", "flushing"}
  PROVE  LET sink == SinkFor(a, t)
             file == FileFor(a, t)
             lines == Lines(a, t, p)
         IN /\ sink \in Sinks /\ file \in Seq(Tokens) /\ sink.open /\ sink.offset = Len(file)
            /\ file \o sink.buffer = Joined(lines)
            /\ sink.first <=> lines # <<>>
            /\ sink.buffer # <<>> => file = files[t]
<1> DEFINE lines == Lines(a, t, p)
<1>1. sinks[a][t] \in Sinks /\ files[t] \in Seq(Tokens)
  BY DEF Typed, TypedFiles
<1>2. CASE sinks[a][t].open
  <2>1. SinkFor(a, t) = sinks[a][t] /\ FileFor(a, t) = files[t]
    BY <1>2 DEF SinkFor, FileFor
  <2>2. /\ lines # <<>> /\ sinks[a][t].first /\ sinks[a][t].offset = Len(files[t])
        /\ files[t] \o sinks[a][t].buffer = Joined(lines)
    BY <1>2 DEF SinkHolds
  <2> HIDE DEF lines
  <2> QED BY <1>1, <1>2, <2>1, <2>2 DEF lines
<1>3. CASE ~sinks[a][t].open
  <2>1. SinkFor(a, t) = NewSink /\ FileFor(a, t) = <<>>
    BY <1>3 DEF SinkFor, FileFor
  <2>2. lines = <<>>
    BY <1>3 DEF SinkHolds
  <2>3. Joined(<<>>) = <<>>
    BY DEF Joined
  <2>4. NewSink \in Sinks /\ NewSink.open /\ ~NewSink.first /\ NewSink.buffer = <<>> /\ NewSink.offset = 0
    BY NewSinkTyped DEF NewSink, NoSink
  <2>5. <<>> \o <<>> = <<>> /\ <<>> \in Seq(Tokens) /\ Len(<<>>) = 0
    OBVIOUS
  <2> HIDE DEF lines
  <2> QED BY <2>1, <2>2, <2>3, <2>4, <2>5 DEF lines
<1> QED BY <1>2, <1>3

\* Concatenation of tokens.
LEMMA Associative ==
  ASSUME NEW s \in Seq(Tokens), NEW u \in Seq(Tokens), NEW v \in Seq(Tokens)
  PROVE  (s \o u) \o v = s \o (u \o v) /\ Len(s \o u) = Len(s) + Len(u)
BY ConcatAssociative, ConcatProperties

\* One more entity of its type in a sink; what was in the buffer may go to the file.
LEMMA SinkGrows ==
  ASSUME NEW a \in Attempts, NEW e \in Entities, NEW file \in Seq(Tokens), NEW sink \in Sinks,
         NEW T, NEW lines \in Seq(T), Line(a, e) \in T, framing \in {"Array", "LineDelimited"},
         sink.offset = Len(file), file \o sink.buffer = Joined(lines),
         sink.first <=> lines # <<>>
  PROVE  LET q == Serialized(sink, a, e)
             l == Append(lines, Line(a, e))
             held == Written(sink, q)
             out == Written(Flushed(sink), q)
             gone == FlushedFile(file, sink)
         IN /\ held.first /\ held.open = sink.open /\ held.offset = Len(file)
            /\ file \o held.buffer = Joined(l)
            /\ out.first /\ out.open = sink.open /\ out.offset = Len(gone)
            /\ gone \o out.buffer = Joined(l)
<1> DEFINE q == Serialized(sink, a, e)
           l == Append(lines, Line(a, e))
           b == sink.buffer
<1>1. q \in Seq(Tokens) /\ b \in Seq(Tokens) /\ sink.offset \in Nat
  BY SerializedTyped DEF Sinks
<1>2. Joined(l) = Joined(lines) \o q
  <2>2. q = IF framing = "Array" THEN <<IF lines # <<>> THEN Separator ELSE Opening, Line(a, e)>>
            ELSE <<Line(a, e)>>
    BY DEF Serialized
  <2> HIDE DEF q
  <2> QED BY <2>2, JoinedAppend
<1>3. FlushedFile(file, sink) = file \o b
  BY <1>1, WriteAtEnd DEF FlushedFile
<1> HIDE DEF q, l
<1>4. /\ Written(sink, q).first /\ Written(sink, q).open = sink.open
      /\ Written(sink, q).offset = sink.offset /\ Written(sink, q).buffer = b \o q
  BY DEF Written, Sinks
<1>5. /\ Flushed(sink) \in Sinks /\ Flushed(sink).buffer = <<>> /\ Flushed(sink).open = sink.open
      /\ Flushed(sink).offset = Len(file) + Len(b)
  BY FlushedTyped DEF Flushed, Sinks
<1>6. LET out == Written(Flushed(sink), q) IN
        /\ out.first /\ out.open = sink.open /\ out.offset = Len(file) + Len(b) /\ out.buffer = q
  <2>1. <<>> \o q = q
    BY <1>1
  <2> QED BY <1>5, <2>1 DEF Written, Sinks
<1>7. file \o (b \o q) = (file \o b) \o q /\ Len(file \o b) = Len(file) + Len(b)
  BY <1>1, Associative
<1> QED BY <1>2, <1>3, <1>4, <1>6, <1>7 DEF q, l

\* The lines of an entity type, and one more, make a set.
LineSet(a, t, n) ==
  {Line(a, Nth(OfType(t, n), k)) : k \in 1..Cardinality(OfType(t, n))} \cup {Line(a, n + 1)}

\* The lines are a sequence of them.
LEMMA LinesTyped ==
  ASSUME NEW a, NEW t, NEW n \in Nat
  PROVE  Lines(a, t, n) \in Seq(LineSet(a, t, n)) /\ Line(a, n + 1) \in LineSet(a, t, n)
<1> DEFINE c == Cardinality(OfType(t, n))
           l(k) == Line(a, Nth(OfType(t, n), k))
<1>1. c \in Nat
  BY OfTypeFinite
<1>2. /\ Lines(a, t, n) = [k \in 1..c |-> l(k)]
      /\ LineSet(a, t, n) = {l(k) : k \in 1..c} \cup {Line(a, n + 1)}
  BY DEF Lines, LineSet
<1> HIDE DEF c, l
<1> QED BY <1>1, <1>2

\* A prepared entity adds a line to the file of its type, in the file or the buffer.
LEMMA WritePreparedFile ==
  ASSUME Basics, NEW a \in Attempts, WritePrepared(a), NEW p \in 0..EntityCount,
         NEW r \in 0..EntityCount, NEW m \in 0..EntityCount, Held(a, p, r, m)
  PROVE  p + 1 \in 0..EntityCount /\ Held(a, p + 1, r, m)'
<1> DEFINE e == p + 1
           t == TypeOf[e]
           sink == SinkFor(a, t)
           q == Serialized(sink, a, e)
<1>0. Typed /\ InHand(a, p, r, m) /\ SinksHold(a, p) /\ Stage(a, p)
  BY DEF Basics, Held
<1>1. p \in Nat /\ r \in Nat /\ m \in Nat /\ ready[a] # <<>> /\ p <= r
  BY <1>0, HandOf DEF WritePrepared, InHand
<1>2. Head(ready[a]) = e /\ Stretch(Tail(ready[a]), e, r) /\ e <= r
  <2>1. Stretch(ready[a], p, r)
    BY <1>0 DEF InHand
  <2> QED BY <1>1, <2>1, StretchOf
<1>3. e \in 0..EntityCount /\ e \in Entities /\ t \in Types
  BY <1>1, <1>2, FileOutputAssumption DEF Entities, Types
<1>4. SinkHolds(a, t, p) /\ thread[a] \in {"running", "flushing"}
  BY <1>0, <1>3 DEF SinksHold, WritePrepared, OnFile
<1>5. /\ sink \in Sinks /\ FileFor(a, t) \in Seq(Tokens) /\ sink.open
      /\ sink.offset = Len(FileFor(a, t)) /\ FileFor(a, t) \o sink.buffer = Joined(Lines(a, t, p))
      /\ sink.first <=> Lines(a, t, p) # <<>>
      /\ sink.buffer # <<>> => FileFor(a, t) = files[t]
  <2> HIDE DEF t
  <2> QED BY <1>0, <1>1, <1>3, <1>4, SinkForHolds
<1>6. /\ ready' = [ready EXCEPT ![a] = Tail(@)]
      /\ UNCHANGED <<pending, batch, next, thread, framing, shutdown>>
      /\ \/ /\ sinks' = [sinks EXCEPT ![a][t] = Written(sink, q)]
            /\ files' = [files EXCEPT ![t] = FileFor(a, t)]
         \/ /\ sink.buffer # <<>>
            /\ sinks' = [sinks EXCEPT ![a][t] = Written(Flushed(sink), q)]
            /\ files' = [files EXCEPT ![t] = FlushedFile(files[t], sink)]
  BY <1>2 DEF WritePrepared, Written, config
<1>7. /\ Lines(a, t, e) = Append(Lines(a, t, p), Line(a, e))
      /\ Lines(a, t, p) \in Seq(LineSet(a, t, p)) /\ Line(a, e) \in LineSet(a, t, p)
  BY <1>1, LinesAppend, LinesTyped
<1> HIDE DEF sink, q, t, e
<1>8. framing \in {"Array", "LineDelimited"}
  BY <1>0, FileOutputAssumption DEF Typed, TypedControl
<1>9. LET held == Written(sink, q)
          out == Written(Flushed(sink), q)
          gone == FlushedFile(FileFor(a, t), sink)
      IN /\ held.first /\ held.open /\ held.offset = Len(FileFor(a, t))
         /\ FileFor(a, t) \o held.buffer = Joined(Lines(a, t, e))
         /\ out.first /\ out.open /\ out.offset = Len(gone)
         /\ gone \o out.buffer = Joined(Lines(a, t, e))
  <2> DEFINE file == FileFor(a, t)
             lines == Lines(a, t, p)
             more == Lines(a, t, e)
             T == LineSet(a, t, p)
  <2>1. /\ sink \in Sinks /\ file \in Seq(Tokens) /\ sink.offset = Len(file) /\ lines \in Seq(T)
        /\ file \o sink.buffer = Joined(lines) /\ Line(a, e) \in T /\ e \in Entities
        /\ sink.first <=> lines # <<>>
    BY <1>3, <1>5, <1>7
  <2>2. more = Append(lines, Line(a, e)) /\ sink.open
    BY <1>5, <1>7
  <2> HIDE DEF file, lines, more, T
  <2>3. LET held == Written(sink, q)
            out == Written(Flushed(sink), q)
            gone == FlushedFile(file, sink)
            l == Append(lines, Line(a, e))
        IN /\ held.first /\ held.open = sink.open /\ held.offset = Len(file)
           /\ file \o held.buffer = Joined(l)
           /\ out.first /\ out.open = sink.open /\ out.offset = Len(gone)
           /\ gone \o out.buffer = Joined(l)
    BY <1>8, <2>1, SinkGrows DEF q
  <2> QED BY <2>2, <2>3 DEF file, more
<1>10. Lines(a, t, e) # <<>>
  BY <1>7, AppendProperties
<1>11. SinkHolds(a, t, e)'
  <2> DEFINE s == sinks'[a][t]
             f == files'[t]
             l == Lines(a, t, e)
  <2>1. s.first /\ s.open /\ s.offset = Len(f) /\ f \o s.buffer = Joined(l)
    <3>1. CASE /\ sinks' = [sinks EXCEPT ![a][t] = Written(sink, q)]
               /\ files' = [files EXCEPT ![t] = FileFor(a, t)]
      <4>1. s = Written(sink, q) /\ f = FileFor(a, t)
        BY <1>0, <1>3, <3>1 DEF Typed, TypedFiles
      <4> QED BY <1>9, <4>1
    <3>2. CASE /\ sink.buffer # <<>>
               /\ sinks' = [sinks EXCEPT ![a][t] = Written(Flushed(sink), q)]
               /\ files' = [files EXCEPT ![t] = FlushedFile(files[t], sink)]
      <4>1. s = Written(Flushed(sink), q) /\ f = FlushedFile(FileFor(a, t), sink)
        BY <1>0, <1>3, <1>5, <3>2 DEF Typed, TypedFiles
      <4> QED BY <1>9, <4>1
    <3> QED BY <1>6, <3>1, <3>2
  <2>2. Joined(l)' = Joined(l)
    BY <1>6, FramingKept
  <2> HIDE DEF l
  <2> QED BY <1>10, <2>1, <2>2 DEF SinkHolds, l
<1>12. ASSUME NEW u \in Types, u # t PROVE SinkHolds(a, u, e)'
  <2>1. Lines(a, u, e) = Lines(a, u, p)
    BY <1>1, <1>12, LinesAppend DEF e, t
  <2>2. SinkHolds(a, u, e)
    BY <1>0, <2>1 DEF SinksHold, SinkHolds
  <2>3. sinks'[a][u] = sinks[a][u] /\ files'[u] = files[u]
    BY <1>0, <1>3, <1>6, <1>12 DEF Typed, TypedFiles
  <2> QED BY <1>6, <2>2, <2>3, SinkKept
<1>13. SinksHold(a, e)'
  BY <1>11, <1>12 DEF SinksHold
<1>14. InHand(a, e, r, m)' /\ Stage(a, e)'
  <2>1. ready'[a] = Tail(ready[a])
    BY <1>0, <1>6 DEF Typed, TypedQueues
  <2> QED BY <1>0, <1>2, <1>4, <1>6, <2>1 DEF InHand, Stretch, Stage
<1> QED BY <1>3, <1>13, <1>14 DEF Held, e

\* A sink that is closed leaves the framed lines of its type.
LEMMA CloseSinkFile ==
  ASSUME Basics, NEW a \in Attempts, NEW t \in Types, CloseSink(a, t), NEW p \in 0..EntityCount,
         NEW r \in 0..EntityCount, NEW m \in 0..EntityCount, Held(a, p, r, m)
  PROVE  Held(a, p, r, m)'
<1> DEFINE end == IF framing = "Array" THEN <<Closing>> ELSE <<>>
           sink == sinks[a][t]
           ended == [sink EXCEPT !.buffer = @ \o end]
           lines == Lines(a, t, p)
<1>0. Typed /\ InHand(a, p, r, m) /\ SinksHold(a, p) /\ Stage(a, p)
  BY DEF Basics, Held
<1>1. /\ thread[a] = "closing" /\ sink.open
      /\ sinks' = [sinks EXCEPT ![a][t] = NoSink]
      /\ files' = [files EXCEPT ![t] = FlushedFile(@, ended)]
      /\ UNCHANGED <<ready, pending, batch, next, thread, framing, shutdown>>
  BY DEF CloseSink, Unclosed, config
<1>2. /\ lines # <<>> /\ sink.offset = Len(files[t]) /\ files[t] \o sink.buffer = Joined(lines)
  BY <1>0, <1>1 DEF SinksHold, SinkHolds
<1>3. /\ sink \in Sinks /\ files[t] \in Seq(Tokens) /\ end \in Seq(Tokens)
      /\ sink.buffer \in Seq(Tokens) /\ framing \in {"Array", "LineDelimited"}
  BY <1>0, TokensAre, FileOutputAssumption DEF Typed, TypedControl, TypedFiles, Sinks
<1>4. FlushedFile(files[t], ended) = files[t] \o (sink.buffer \o end)
  <2>1. ended.offset = Len(files[t]) /\ ended.buffer = sink.buffer \o end
    BY <1>2, <1>3 DEF Sinks
  <2>2. sink.buffer \o end \in Seq(Tokens)
    BY <1>3
  <2> HIDE DEF ended, end, sink
  <2> QED BY <1>3, <2>1, <2>2, WriteAtEnd DEF FlushedFile
<1>5. files[t] \o (sink.buffer \o end) = Joined(lines) \o end
  <2> DEFINE f == files[t]
             b == sink.buffer
             joined == Joined(lines)
  <2>1. f \in Seq(Tokens) /\ b \in Seq(Tokens) /\ end \in Seq(Tokens) /\ f \o b = joined
    BY <1>2, <1>3
  <2> HIDE DEF f, b, joined, end, sink, lines
  <2>2. f \o (b \o end) = joined \o end
    BY <2>1, Associative
  <2> QED BY <2>2 DEF f, b, joined
<1>6. Joined(lines) \o end = Framed(lines)
  <2>1. Joined(lines) \in Seq(Tokens)
    <3>1. files[t] \o sink.buffer \in Seq(Tokens)
      BY <1>3
    <3> QED BY <1>2, <3>1
  <2>2. Joined(lines) \o <<Closing>> = Append(Joined(lines), Closing) /\ Joined(lines) \o <<>> = Joined(lines)
    BY <2>1, TokensAre, AppendIsConcat
  <2>3. framing = "LineDelimited" => Joined(lines) = lines
    BY DEF Joined
  <2> HIDE DEF lines
  <2> QED BY <1>2, <1>3, <2>2, <2>3 DEF Framed
<1> HIDE DEF ended, end, sink
<1>7. files'[t] = Framed(lines) /\ ~sinks'[a][t].open
  BY <1>0, <1>1, <1>4, <1>5, <1>6 DEF Typed, TypedFiles, NoSink
<1>8. SinkHolds(a, t, p)'
  <2>1. Framed(lines)' = Framed(lines)
    BY <1>1, FramingKept
  <2> HIDE DEF lines
  <2> QED BY <1>1, <1>7, <2>1 DEF SinkHolds, lines
<1>9. ASSUME NEW u \in Types, u # t PROVE SinkHolds(a, u, p)'
  <2>1. SinkHolds(a, u, p)
    BY <1>0 DEF SinksHold
  <2>2. sinks'[a][u] = sinks[a][u] /\ files'[u] = files[u]
    BY <1>0, <1>1, <1>9 DEF Typed, TypedFiles
  <2> QED BY <1>1, <2>1, <2>2, SinkKept
<1>10. SinksHold(a, p)'
  BY <1>8, <1>9 DEF SinksHold
<1>11. InHand(a, p, r, m)' /\ Stage(a, p)'
  BY <1>0, <1>1 DEF InHand, Stretch, Stage
<1> QED BY <1>10, <1>11 DEF Held

\* A step of a thread keeps what its files hold.
LEMMA ThreadFile ==
  ASSUME Basics, FileInv, destination = "File", NEW a \in Attempts, StageStep(a) \/ FileStep(a)
  PROVE  FileInv'
<1>1. CASE TakeBatch(a)
  <2>1. thread[a] \notin {"idle", "done"} /\ Elsewhere(a)
    BY <1>1, TakeBatchBasics DEF TakeBatch, Waiting
  <2>2. ASSUME NEW p \in 0..EntityCount, NEW r \in 0..EntityCount, NEW m \in 0..EntityCount,
               Held(a, p, r, m), Undisturbed(a)'
        PROVE  \E q, s, n \in 0..EntityCount : Held(a, q, s, n)'
    BY <1>1, <2>2, TakeBatchFile
  <2> QED BY <2>1, <2>2, FileKept
<1>2. CASE ForwardError(a)
  <2>1. reported'[a] = "Error"
    BY <1>2 DEF ForwardError, Waiting, Report, Basics, Typed, TypedControl, Reporting
  <2> QED BY <1>2, <2>1, ForwardErrorBasics, FileKept DEF ForwardError, Waiting, Undisturbed
<1>3. CASE EndStream(a)
  <2>1. thread[a] \notin {"idle", "done"} /\ Elsewhere(a)
    BY <1>3, EndStreamBasics DEF EndStream, Waiting
  <2>2. ASSUME NEW p \in 0..EntityCount, NEW r \in 0..EntityCount, NEW m \in 0..EntityCount,
               Held(a, p, r, m), Undisturbed(a)'
        PROVE  \E q, s, n \in 0..EntityCount : Held(a, q, s, n)'
    BY <1>3, <2>2, EndStreamFile
  <2> QED BY <2>1, <2>2, FileKept
<1>4. CASE Push(a)
  <2>1. thread[a] \notin {"idle", "done"} /\ Elsewhere(a)
    BY <1>4, PushBasics DEF Push, OnFile
  <2>2. ASSUME NEW p \in 0..EntityCount, NEW r \in 0..EntityCount, NEW m \in 0..EntityCount,
               Held(a, p, r, m), Undisturbed(a)'
        PROVE  \E q, s, n \in 0..EntityCount : Held(a, q, s, n)'
    BY <1>4, <2>2, PushFile
  <2> QED BY <2>1, <2>2, FileKept
<1>5. CASE FlushPending(a)
  <2>1. thread[a] \notin {"idle", "done"} /\ Elsewhere(a)
    BY <1>5, FlushPendingBasics DEF FlushPending, OnFile
  <2>2. ASSUME NEW p \in 0..EntityCount, NEW r \in 0..EntityCount, NEW m \in 0..EntityCount,
               Held(a, p, r, m), Undisturbed(a)'
        PROVE  \E q, s, n \in 0..EntityCount : Held(a, q, s, n)'
    BY <1>5, <2>2, FlushPendingFile
  <2> QED BY <2>1, <2>2, FileKept
<1>6. CASE PrepareFails(a)
  <2>1. reported'[a] = "Error"
    BY <1>6 DEF PrepareFails, OnFile, GiveUp, Report, Basics, Typed, TypedControl, Reporting
  <2> QED BY <1>6, <2>1, PrepareFailsBasics, FileKept DEF PrepareFails, OnFile, Undisturbed
<1>7. CASE WritePrepared(a)
  <2>1. thread[a] \notin {"idle", "done"} /\ Elsewhere(a)
    BY <1>7, WritePreparedBasics DEF WritePrepared, OnFile
  <2>2. ASSUME NEW p \in 0..EntityCount, NEW r \in 0..EntityCount, NEW m \in 0..EntityCount,
               Held(a, p, r, m), Undisturbed(a)'
        PROVE  \E q, s, n \in 0..EntityCount : Held(a, q, s, n)'
    BY <1>7, <2>2, WritePreparedFile
  <2> QED BY <2>1, <2>2, FileKept
<1>8. CASE WritePreparedFails(a)
  <2>1. reported'[a] = "Error"
    BY <1>8 DEF WritePreparedFails, OnFile, GiveUp, Report, Basics, Typed, TypedControl, Reporting
  <2> QED BY <1>8, <2>1, WritePreparedFailsBasics, FileKept
     DEF WritePreparedFails, OnFile, Undisturbed
<1>9. CASE TakeSinks(a)
  <2>1. thread[a] \notin {"idle", "done"} /\ Elsewhere(a)
    BY <1>9, TakeSinksBasics DEF TakeSinks, OnFile
  <2>2. ASSUME NEW p \in 0..EntityCount, NEW r \in 0..EntityCount, NEW m \in 0..EntityCount, Held(a, p, r, m)
        PROVE  \E q, s, n \in 0..EntityCount : Held(a, q, s, n)'
    BY <1>9, <2>2, TakeSinksFile
  <2> QED BY <2>1, <2>2, FileKept
<1>10. CASE EndFinalize(a)
  <2>1. thread[a] \notin {"idle", "done"} /\ Elsewhere(a)
    BY <1>10, EndFinalizeBasics DEF EndFinalize
  <2>2. ASSUME NEW p \in 0..EntityCount, NEW r \in 0..EntityCount, NEW m \in 0..EntityCount, Held(a, p, r, m)
        PROVE  \E q, s, n \in 0..EntityCount : Held(a, q, s, n)'
    BY <1>10, <2>2, EndFinalizeFile
  <2> QED BY <2>1, <2>2, FileKept
<1>11. CASE Dropped(a)
  <2>1. thread[a] = "dropping" /\ ~Undisturbed(a)
    BY <1>11 DEF Dropped, Basics, Reporting, Undisturbed
  <2> QED BY <1>11, <2>1, DroppedBasics, FileKept
<1>12. ASSUME NEW t \in Types, CloseSink(a, t) PROVE FileInv'
  <2>1. thread[a] \notin {"idle", "done"} /\ Elsewhere(a)
    BY <1>12, CloseSinkBasics DEF CloseSink
  <2>2. ASSUME NEW p \in 0..EntityCount, NEW r \in 0..EntityCount, NEW m \in 0..EntityCount, Held(a, p, r, m)
        PROVE  \E q, s, n \in 0..EntityCount : Held(a, q, s, n)'
    BY <1>12, <2>2, CloseSinkFile
  <2> QED BY <2>1, <2>2, FileKept
<1>13. ASSUME NEW t \in Types, CloseSinkFails(a, t) PROVE FileInv'
  <2>1. closeFailed'[a]
    BY <1>13 DEF CloseSinkFails, Basics, Typed, TypedControl
  <2> QED BY <1>13, <2>1, CloseSinkFailsBasics, FileKept DEF CloseSinkFails, Undisturbed
<1>14. ASSUME NEW t \in Types, DropSink(a, t) PROVE FileInv'
  <2>1. thread[a] = "dropping" /\ ~Undisturbed(a)
    BY <1>14 DEF DropSink, Basics, Reporting, Undisturbed
  <2> QED BY <1>14, <2>1, DropSinkBasics, FileKept
<1> QED
  BY <1>1, <1>2, <1>3, <1>4, <1>5, <1>6, <1>7, <1>8, <1>9, <1>10, <1>11, <1>12, <1>13, <1>14
  DEF StageStep, FileStep

-----------------------------------------------------------------------------
\* The spool.

\* A step of one thread leaves the other spools alone.
LEMMA SpoolKept ==
  ASSUME SpoolInv, destination = "Atomic", NEW a \in Attempts, Elsewhere(a), SpoolHolds(a)',
         Ordered(a)'
  PROVE  SpoolInv'
<1> SUFFICES ASSUME NEW b \in Attempts, b # a PROVE SpoolHolds(b)' /\ Ordered(b)'
  BY DEF SpoolInv
<1>1. SpoolHolds(b) /\ Ordered(b)
  BY DEF SpoolInv
<1>2. /\ thread'[b] = thread[b] /\ next'[b] = next[b] /\ aborted'[b] = aborted[b]
      /\ reported'[b] = reported[b] /\ batch'[b] = batch[b] /\ spool'[b] = spool[b]
      /\ inner'[b] = inner[b] /\ UNCHANGED shutdown
  BY DEF Elsewhere
<1>3. ASSUME NEW k, NEW m, Spooled(b, k, m) PROVE Spooled(b, k, m)'
  BY <1>2, <1>3 DEF Spooled, Stretch, LineStretch
<1>4. Ordered(b)'
  BY <1>1, <1>2 DEF Ordered, Stretch
<1> QED BY <1>1, <1>2, <1>3, <1>4 DEF SpoolHolds

\* Moving the end of one sequence to the next leaves the two together as they were.
LEMMA Moved ==
  ASSUME NEW q \in Seq(Tokens), NEW s \in Seq(Tokens)
  PROVE  /\ \A x \in Tokens : q \o Append(s, x) = Append(q \o s, x)
         /\ s # <<>> => /\ Head(s) \in Tokens /\ Tail(s) \in Seq(Tokens)
                        /\ Append(q, Head(s)) \o Tail(s) = q \o s
<1>1. ASSUME NEW x \in Tokens PROVE q \o Append(s, x) = Append(q \o s, x)
  <2>1. <<x>> \in Seq(Tokens) /\ q \o s \in Seq(Tokens)
    OBVIOUS
  <2>2. (q \o s) \o <<x>> = q \o (s \o <<x>>)
    BY <2>1, ConcatAssociative
  <2> QED BY <2>1, <2>2, AppendIsConcat
<1>2. ASSUME s # <<>>
      PROVE  /\ Head(s) \in Tokens /\ Tail(s) \in Seq(Tokens)
             /\ Append(q, Head(s)) \o Tail(s) = q \o s
  <2> DEFINE h == Head(s)
             rest == Tail(s)
  <2>1. h \in Tokens /\ rest \in Seq(Tokens) /\ s = <<h>> \o rest /\ <<h>> \in Seq(Tokens)
    BY <1>2
  <2> HIDE DEF h, rest
  <2>2. (q \o <<h>>) \o rest = q \o (<<h>> \o rest) /\ Append(q, h) = q \o <<h>>
    BY <2>1, ConcatAssociative, AppendIsConcat
  <2> QED BY <2>1, <2>2 DEF h, rest
<1> QED BY <1>1, <1>2

\* A line, and a torn one, at the end of lines that come in order.
LEMMA RisingAppend ==
  ASSUME NEW s \in Seq(Tokens), NEW a \in Attempts, NEW n \in 0..EntityCount, Rising(s, a, n)
  PROVE  /\ \A m \in n..EntityCount : Rising(s, a, m)
         /\ Rising(Append(s, Torn), a, n)
         /\ \A e \in Entities : n < e => Rising(Append(s, Line(a, e)), a, e)
<1>0. EntityCount \in Nat /\ Entities = 1..EntityCount /\ Len(s) \in Nat
  BY FileOutputAssumption DEF Entities
<1> DEFINE In(q, i, m) ==
             \/ q[i] = Torn
             \/ \E e \in 1..m :
                  /\ q[i] = Line(a, e)
                  /\ \A j \in 1..(i - 1), d \in Entities : q[j] = Line(a, d) => d < e
<1>1. \A i \in 1..Len(s), m \in n..EntityCount : In(s, i, m)
  BY <1>0 DEF Rising
<1>2. ASSUME NEW x \in Tokens, NEW m \in n..EntityCount, NEW i \in 1..Len(s)
      PROVE  In(Append(s, x), i, m)
  <2> DEFINE q == Append(s, x)
  <2>1. \A j \in 1..i : q[j] = s[j]
    BY <1>0
  <2> HIDE DEF q
  <2>2. In(s, i, m)
    BY <1>1
  <2>3. In(q, i, m)
    BY <1>0, <2>1, <2>2
  <2> QED BY <2>3 DEF q
<1>3. \A x \in Tokens : Len(Append(s, x)) = Len(s) + 1 /\ Append(s, x)[Len(s) + 1] = x
  OBVIOUS
<1>4. Rising(Append(s, Torn), a, n)
  <2>1. \A i \in 1..(Len(s) + 1) : i \in 1..Len(s) \/ i = Len(s) + 1
    BY <1>0
  <2>2. Torn \in Tokens /\ n \in n..EntityCount
    BY <1>0, TokensAre
  <2> QED BY <1>2, <1>3, <2>1, <2>2 DEF Rising
<1>5. ASSUME NEW e \in Entities, n < e PROVE Rising(Append(s, Line(a, e)), a, e)
  <2> DEFINE q == Append(s, Line(a, e))
  <2>1. Line(a, e) \in Tokens /\ e \in n..EntityCount /\ e \in 1..e
    BY <1>0, <1>5, TokensAre
  <2>2. \A i \in 1..Len(s) : In(q, i, e)
    BY <1>2, <2>1
  <2>3. Len(q) = Len(s) + 1 /\ q[Len(s) + 1] = Line(a, e) /\ \A j \in 1..Len(s) : q[j] = s[j]
    BY <2>1, AppendProperties
  <2>4. ASSUME NEW j \in 1..Len(s), NEW d \in Entities, s[j] = Line(a, d) PROVE d < e
    <3>1. In(s, j, n)
      BY DEF Rising
    <3>2. Line(a, d) # Torn /\ \A c : Line(a, c) = Line(a, d) => c = d
      BY DEF Line, Torn
    <3>3. d \in 1..n
      BY <2>4, <3>1, <3>2
    <3> QED BY <1>0, <1>5, <3>3
  <2> HIDE DEF q
  <2>5. In(q, Len(s) + 1, e)
    <3>1. (Len(s) + 1) - 1 = Len(s)
      BY <1>0
    <3>2. \A j \in 1..((Len(s) + 1) - 1), d \in Entities : q[j] = Line(a, d) => d < e
      BY <2>3, <2>4, <3>1
    <3> QED BY <2>1, <2>3, <3>2
  <2>6. \A i \in 1..(Len(s) + 1) : i \in 1..Len(s) \/ i = Len(s) + 1
    BY <1>0
  <2> QED BY <2>2, <2>3, <2>5, <2>6 DEF Rising, q
<1>6. \A m \in n..EntityCount : Rising(s, a, m)
  BY <1>1 DEF Rising
<1> QED BY <1>4, <1>5, <1>6

\* Nothing of the stream is in order.
LEMMA EmptyOrdered ==
  ASSUME NEW a, inner[a] = <<>>, spool[a] = <<>>, batch[a] = <<>>, next[a] = 1
  PROVE  Ordered(a)
<1>1. Stretch(<<>>, 0, 0) /\ 0 \in 0..EntityCount
  BY EmptyStretch, FileOutputAssumption
<1>2. Rising(<<>> \o <<>>, a, 0)
  BY DEF Rising
<1>3. next[a] - 1 = 0
  OBVIOUS
<1> QED BY <1>1, <1>2, <1>3 DEF Ordered

\* A step of the thread keeps the lines in order, also one that reports an error.
LEMMA OrderedStep ==
  ASSUME Basics, NEW a \in Attempts, SpoolHolds(a), Ordered(a), StageStep(a) \/ SpoolStep(a)
  PROVE  Ordered(a)'
<1> DEFINE was == inner[a] \o spool[a]
           taken == next[a] - 1
<1>1. /\ inner[a] \in Seq(Tokens) /\ spool[a] \in Seq(Tokens) /\ was \in Seq(Tokens)
      /\ taken \in 0..EntityCount /\ EntityCount \in Nat
  BY FileOutputAssumption DEF Basics, Typed, TypedControl, TypedQueues
<1>2. PICK n \in 0..EntityCount : n <= taken /\ Stretch(batch[a], n, taken) /\ Rising(was, a, n)
  BY DEF Ordered
<1>3. \A i \in 1..Len(inner[a]) : inner[a][i] # Torn
  BY DEF Ordered
<1>4. CASE UNCHANGED <<inner[a], spool[a], batch[a], next[a]>>
  BY <1>4 DEF Ordered, Stretch
<1>5. CASE TakeBatch(a)
  <2>1. UNCHANGED <<inner, spool>>
    BY <1>5 DEF TakeBatch, atomic
  <2>2. n <= next'[a] - 1 /\ Stretch(batch'[a], n, next'[a] - 1)
    BY <1>1, <1>2, <1>5, BatchTaken DEF Basics
  <2>3. Rising(was, a, n)'
    BY <1>2, <2>1
  <2> QED BY <1>3, <2>1, <2>2, <2>3 DEF Ordered
<1>6. CASE Spool(a)
  <2> DEFINE e == Head(batch[a])
  <2>1. /\ inner' = inner /\ next' = next /\ batch[a] # <<>> /\ batch'[a] = Tail(batch[a])
        /\ spool'[a] = Append(spool[a], Line(a, e))
    BY <1>6 DEF Spool, Basics, Typed, TypedQueues
  <2>2. e = n + 1 /\ Stretch(Tail(batch[a]), n + 1, taken) /\ n + 1 <= taken
    <3> HIDE DEF taken
    <3> QED BY <1>1, <1>2, <2>1, StretchOf
  <2>3. n + 1 \in 0..EntityCount /\ e \in Entities /\ n < e
    BY <1>1, <2>2 DEF Entities
  <2> HIDE DEF e
  <2>4. inner[a] \o Append(spool[a], Line(a, e)) = Append(was, Line(a, e))
    <3>1. Line(a, e) \in Tokens
      BY <2>3, TokensAre
    <3> QED BY <1>1, <3>1, Moved
  <2>5. Rising(Append(was, Line(a, e)), a, e)
    <3> HIDE DEF was
    <3> QED BY <1>1, <1>2, <2>3, RisingAppend
  <2>6. Rising(inner[a] \o spool[a], a, n + 1)'
    BY <2>1, <2>2, <2>4, <2>5
  <2>7. n + 1 <= next'[a] - 1 /\ Stretch(batch'[a], n + 1, next'[a] - 1)
    BY <2>1, <2>2
  <2> QED BY <1>3, <2>1, <2>3, <2>6, <2>7 DEF Ordered
<1>7. CASE SpoolFails(a)
  <2>1. /\ inner' = inner /\ next' = next /\ batch'[a] = <<>>
        /\ spool'[a] = spool[a] \/ spool'[a] = Append(spool[a], Torn)
    BY <1>7 DEF SpoolFails, GiveUp, Basics, Typed, TypedQueues
  <2>2. Stretch(<<>>, taken, taken) /\ taken <= taken
    BY <1>1, EmptyStretch
  <2>3. taken \in n..EntityCount
    BY <1>1, <1>2
  <2>4. inner[a] \o Append(spool[a], Torn) = Append(was, Torn)
    <3>1. Torn \in Tokens
      BY TokensAre
    <3> QED BY <1>1, <3>1, Moved
  <2> HIDE DEF taken
  <2>5. Rising(was, a, taken) /\ Rising(Append(was, Torn), a, taken)
    <3>1. Rising(was, a, taken)
      BY <1>1, <1>2, <2>3, RisingAppend
    <3> HIDE DEF was
    <3> QED BY <1>1, <3>1, RisingAppend
  <2>6. Rising(inner[a] \o spool[a], a, taken)'
    <3>1. inner'[a] \o spool'[a] = was \/ inner'[a] \o spool'[a] = Append(was, Torn)
      BY <2>1, <2>4
    <3>2. taken' = taken
      BY <2>1 DEF taken
    <3> QED BY <2>5, <3>1, <3>2
  <2> QED BY <1>1, <1>3, <2>1, <2>2, <2>6 DEF Ordered, taken
<1>8. CASE Replay(a)
  <2>1. /\ spool[a] # <<>> /\ Head(spool[a]) # Torn /\ UNCHANGED <<next, batch>>
        /\ inner'[a] = Append(inner[a], Head(spool[a])) /\ spool'[a] = Tail(spool[a])
    BY <1>8 DEF Replay, Basics, Typed, TypedQueues
  <2>2. Head(spool[a]) \in Tokens /\ Append(inner[a], Head(spool[a])) \o Tail(spool[a]) = was
    BY <1>1, <2>1, Moved
  <2>3. \A i \in 1..Len(inner'[a]) : inner'[a][i] # Torn
    <3> DEFINE h == Head(spool[a])
    <3>1. h \in Tokens /\ h # Torn /\ inner'[a] = Append(inner[a], h)
      BY <2>1, <2>2
    <3> HIDE DEF h
    <3> QED BY <1>1, <1>3, <3>1
  <2>4. Rising(inner[a] \o spool[a], a, n)'
    BY <1>2, <2>1, <2>2
  <2> QED BY <1>2, <2>1, <2>3, <2>4 DEF Ordered, Stretch
<1>9. CASE ForwardError(a) \/ EndStream(a) \/ ReplayFails(a) \/ FinalizeInner(a)
  BY <1>4, <1>9 DEF ForwardError, EndStream, ReplayFails, FinalizeInner, atomic
<1> QED BY <1>5, <1>6, <1>7, <1>8, <1>9 DEF StageStep, SpoolStep

\* A batch of the stream is taken.
LEMMA TakeBatchSpool ==
  ASSUME Basics, NEW a \in Attempts, TakeBatch(a), SpoolHolds(a)
  PROVE  SpoolHolds(a)'
<1>1. UNCHANGED <<thread, aborted, inner, spool, reported, shutdown>> /\ thread[a] = "running"
  BY DEF TakeBatch, Waiting, atomic
<1>2. ASSUME reported[a] # "Error" PROVE \E k, m \in 0..EntityCount : Spooled(a, k, m)'
  <2>1. PICK k, m \in 0..EntityCount : Spooled(a, k, m)
    BY <1>1, <1>2 DEF SpoolHolds
  <2>2. m <= next'[a] - 1 /\ Stretch(batch'[a], m, next'[a] - 1)
    BY <2>1, BatchTaken, FileOutputAssumption DEF Spooled, Basics
  <2>3. Spooled(a, k, m)'
    BY <1>1, <2>1, <2>2 DEF Spooled, Stretch, LineStretch
  <2> QED BY <2>3
<1> QED BY <1>1, <1>2 DEF SpoolHolds

\* The stream ends.
LEMMA EndStreamSpool ==
  ASSUME Basics, NEW a \in Attempts, EndStream(a), SpoolHolds(a)
  PROVE  SpoolHolds(a)'
<1>1. /\ thread[a] = "running" /\ thread'[a] = "flushing"
      /\ UNCHANGED <<inner, spool, reported, shutdown, batch, next>>
      /\ aborted'[a] = (errored[a] \/ shutdown)
      /\ shutdown \/ errored[a] \/ next[a] > EntityCount
  BY DEF EndStream, Waiting, atomic, Basics, Typed, TypedControl
<1>2. ~aborted[a] /\ inner[a] = <<>> /\ (errored[a] => reported[a] = "Error")
  BY <1>1 DEF SpoolHolds, Basics, Reporting
<1>3. ASSUME reported[a] # "Error" PROVE \E k, m \in 0..EntityCount : Spooled(a, k, m)'
  <2>1. PICK k, m \in 0..EntityCount : Spooled(a, k, m)
    BY <1>1, <1>3 DEF SpoolHolds
  <2>2. next[a] > EntityCount => next[a] = EntityCount + 1
    BY FileOutputAssumption DEF Basics, Typed, TypedControl
  <2>3. Spooled(a, k, m)'
    BY <1>1, <1>2, <1>3, <2>1, <2>2 DEF Spooled, Stretch, LineStretch
  <2> QED BY <2>3
<1> QED BY <1>1, <1>2, <1>3 DEF SpoolHolds

\* The next entity goes to the spool.
LEMMA SpoolSpool ==
  ASSUME Basics, NEW a \in Attempts, Spool(a), SpoolHolds(a)
  PROVE  SpoolHolds(a)'
<1>1. /\ batch[a] # <<>> /\ thread[a] = "running"
      /\ batch'[a] = Tail(batch[a]) /\ spool'[a] = Append(spool[a], Line(a, Head(batch[a])))
      /\ UNCHANGED <<thread, next, aborted, inner, reported, shutdown>>
  BY DEF Spool, Basics, Typed, TypedQueues, Reporting
<1>2. ~aborted[a] /\ inner[a] = <<>>
  BY <1>1 DEF SpoolHolds
<1>3. ASSUME reported[a] # "Error" PROVE \E k, m \in 0..EntityCount : Spooled(a, k, m)'
  <2>1. PICK k, m \in 0..EntityCount : Spooled(a, k, m)
    BY <1>1, <1>3 DEF SpoolHolds
  <2> DEFINE n == next[a] - 1
  <2>2. k \in Nat /\ m \in Nat /\ n \in Nat /\ n <= EntityCount
    BY FileOutputAssumption DEF Basics, Typed, TypedControl
  <2>3. k <= m /\ m <= n /\ Stretch(batch[a], m, n) /\ LineStretch(spool[a], a, k, m)
    BY <1>1, <1>2, <2>1 DEF Spooled
  <2> HIDE DEF n
  <2>4. Head(batch[a]) = m + 1 /\ Stretch(Tail(batch[a]), m + 1, n) /\ m + 1 <= n
    BY <1>1, <2>2, <2>3, StretchOf
  <2>5. m + 1 \in 0..EntityCount /\ m + 1 \in Entities
    BY <2>2, <2>4, FileOutputAssumption DEF Entities
  <2>6. LineStretch(Append(spool[a], Line(a, m + 1)), a, k, m + 1)
    <3>1. spool[a] \in Seq(Tokens) /\ Line(a, m + 1) \in Tokens
      BY <2>5, TokensAre DEF Basics, Typed, TypedQueues
    <3> QED BY <2>2, <2>3, <3>1, LineStretchOf
  <2>7. Spooled(a, k, m + 1)'
    <3>1. LineStretch(inner[a], a, 0, k) /\ k <= m + 1
      BY <2>1, <2>2, <2>3 DEF Spooled
    <3>2. LineStretch(spool'[a], a, k, m + 1) /\ Stretch(batch'[a], m + 1, next'[a] - 1)
      BY <1>1, <2>4, <2>6 DEF n
    <3>3. m + 1 <= next'[a] - 1 /\ thread'[a] = "running"
      BY <1>1, <2>4 DEF n
    <3> QED BY <1>1, <3>1, <3>2, <3>3 DEF Spooled, Stretch, LineStretch
  <2> QED BY <2>5, <2>7
<1> QED BY <1>1, <1>2, <1>3 DEF SpoolHolds

\* The next line of the spool goes to the wrapped writer.
LEMMA ReplaySpool ==
  ASSUME Basics, NEW a \in Attempts, Replay(a), SpoolHolds(a)
  PROVE  SpoolHolds(a)'
<1>1. /\ thread[a] = "flushing" /\ ~aborted[a] /\ spool[a] # <<>>
      /\ inner'[a] = Append(inner[a], Head(spool[a])) /\ spool'[a] = Tail(spool[a])
      /\ UNCHANGED <<thread, next, aborted, batch, reported, shutdown>>
  BY DEF Replay, Finalizing, Basics, Typed, TypedQueues
<1>2. ASSUME reported[a] # "Error" PROVE \E k, m \in 0..EntityCount : Spooled(a, k, m)'
  <2>1. PICK k, m \in 0..EntityCount : Spooled(a, k, m)
    BY <1>1, <1>2 DEF SpoolHolds
  <2>2. k \in Nat /\ m \in Nat /\ k <= m /\ m <= EntityCount /\ 0 \in Nat /\ 0 <= k
    BY <2>1, FileOutputAssumption DEF Spooled
  <2>3. LineStretch(spool[a], a, k, m) /\ LineStretch(inner[a], a, 0, k)
    BY <1>1, <2>1 DEF Spooled
  <2>4. spool[a] \in Seq(Tokens) /\ inner[a] \in Seq(Tokens)
    BY DEF Basics, Typed, TypedQueues
  <2>5. Head(spool[a]) = Line(a, k + 1) /\ LineStretch(Tail(spool[a]), a, k + 1, m) /\ k + 1 <= m
    <3> DEFINE T == Tokens \cup {Line(a, m + 1)}
    <3>1. spool[a] \in Seq(T) /\ Line(a, m + 1) \in T
      BY <2>4
    <3> HIDE DEF T
    <3> QED BY <1>1, <2>2, <2>3, <3>1, LineStretchOf
  <2>6. k + 1 \in 0..EntityCount /\ k + 1 \in Entities
    BY <2>2, <2>5, FileOutputAssumption DEF Entities
  <2>7. LineStretch(Append(inner[a], Line(a, k + 1)), a, 0, k + 1)
    BY <2>2, <2>3, <2>4, <2>6, TokensAre, LineStretchOf
  <2>8. Spooled(a, k + 1, m)'
    BY <1>1, <2>1, <2>5, <2>7 DEF Spooled, Stretch, LineStretch
  <2> QED BY <2>6, <2>8
<1> QED BY <1>1, <1>2 DEF SpoolHolds

\* When the wrapped writer is finalized all was replayed, or nothing.
LEMMA FinalizeInnerSpool ==
  ASSUME Basics, NEW a \in Attempts, FinalizeInner(a), SpoolHolds(a)
  PROVE  SpoolHolds(a)'
<1>1. /\ thread[a] = "flushing" /\ thread'[a] = "done" /\ (aborted[a] \/ spool[a] = <<>>)
      /\ UNCHANGED <<next, aborted, batch, inner, spool, shutdown>>
      /\ reported[a] = "Error" => reported'[a] = "Error"
  BY DEF FinalizeInner, Finalizing, OnSpool, Report, atomic, Basics, Typed, TypedControl
<1>2. ASSUME reported[a] # "Error" PROVE \E k, m \in 0..EntityCount : Spooled(a, k, m)'
  <2>1. PICK k, m \in 0..EntityCount : Spooled(a, k, m)
    BY <1>1, <1>2 DEF SpoolHolds
  <2> DEFINE n == next[a] - 1
  <2>2. k \in Nat /\ m \in Nat /\ n \in Nat /\ k <= m /\ m <= n /\ Stretch(batch[a], m, n)
    BY <2>1, FileOutputAssumption DEF Spooled, Basics, Typed, TypedControl
  <2>3. batch[a] = <<>>
    BY <1>1 DEF Basics, Reporting
  <2>4. m = n
    <3> HIDE DEF n
    <3> QED BY <2>2, <2>3, StretchOf
  <2>5. ASSUME ~aborted[a] PROVE k = EntityCount
    <3>1. LineStretch(spool[a], a, k, m) /\ spool[a] = <<>> /\ next[a] = EntityCount + 1
      BY <1>1, <2>1, <2>5 DEF Spooled
    <3>2. k = m
      BY <2>2, <3>1 DEF LineStretch
    <3> QED BY <2>4, <3>1, <3>2, FileOutputAssumption
  <2>6. Spooled(a, k, m)'
    BY <1>1, <2>1, <2>5 DEF Spooled, Stretch, LineStretch
  <2> QED BY <2>6
<1> QED BY <1>1, <1>2 DEF SpoolHolds

\* A step that reports an error.
LEMMA ErrorSpool ==
  ASSUME Basics, NEW a \in Attempts, SpoolHolds(a),
         ForwardError(a) \/ SpoolFails(a) \/ ReplayFails(a)
  PROVE  SpoolHolds(a)'
<1>1. CASE ForwardError(a)
  <2>1. reported'[a] = "Error" /\ UNCHANGED <<thread, aborted, inner, shutdown>>
    BY <1>1 DEF ForwardError, Waiting, Report, atomic, Basics, Typed, TypedControl, Reporting
  <2> QED BY <2>1 DEF SpoolHolds
<1>2. CASE SpoolFails(a)
  <2>1. /\ reported'[a] = "Error" /\ thread[a] = "running" /\ thread'[a] = "running"
        /\ UNCHANGED <<aborted, inner, shutdown>>
    BY <1>2 DEF SpoolFails, GiveUp, Report, Basics, Typed, TypedControl, Reporting
  <2> QED BY <2>1 DEF SpoolHolds
<1>3. CASE ReplayFails(a)
  <2>1. /\ reported'[a] = "Error" /\ thread'[a] = "done" /\ thread[a] = "flushing" /\ ~aborted[a]
        /\ UNCHANGED <<aborted, inner, shutdown>>
    BY <1>3 DEF ReplayFails, Finalizing, Report, atomic, Basics, Typed, TypedControl, Reporting
  <2> QED BY <2>1 DEF SpoolHolds
<1> QED BY <1>1, <1>2, <1>3

\* A step of a thread keeps what its spool holds.
LEMMA ThreadSpool ==
  ASSUME Basics, SpoolInv, destination = "Atomic", NEW a \in Attempts, StageStep(a) \/ SpoolStep(a)
  PROVE  SpoolInv'
<1>0. SpoolHolds(a) /\ Ordered(a)'
  BY OrderedStep DEF SpoolInv
<1>1. CASE TakeBatch(a)
  BY <1>0, <1>1, TakeBatchBasics, TakeBatchSpool, SpoolKept
<1>2. CASE ForwardError(a)
  BY <1>0, <1>2, ForwardErrorBasics, ErrorSpool, SpoolKept
<1>3. CASE EndStream(a)
  BY <1>0, <1>3, EndStreamBasics, EndStreamSpool, SpoolKept
<1>4. CASE Spool(a)
  BY <1>0, <1>4, SpoolBasics, SpoolSpool, SpoolKept
<1>5. CASE SpoolFails(a)
  BY <1>0, <1>5, SpoolFailsBasics, ErrorSpool, SpoolKept
<1>6. CASE Replay(a)
  BY <1>0, <1>6, ReplayBasics, ReplaySpool, SpoolKept
<1>7. CASE ReplayFails(a)
  BY <1>0, <1>7, ReplayFailsBasics, ErrorSpool, SpoolKept
<1>8. CASE FinalizeInner(a)
  BY <1>0, <1>8, FinalizeInnerBasics, FinalizeInnerSpool, SpoolKept
<1> QED BY <1>1, <1>2, <1>3, <1>4, <1>5, <1>6, <1>7, <1>8 DEF StageStep, SpoolStep

-----------------------------------------------------------------------------
\* Every step.

\* Before the first step.
LEMMA InitIInv == Init => IInv
<1> SUFFICES ASSUME Init PROVE IInv
  OBVIOUS
<1>1. 1 \in Attempts /\ EntityCount \in Nat /\ 1 \in 1..(EntityCount + 1) /\ MaxAttempts \in Nat
  BY FileOutputAssumption DEF Attempts
<1>2. <<>> \in Seq(Entities) /\ <<>> \in Seq(Tokens) /\ NoSink \in Sinks
  BY NewSinkTyped
<1>3. Typed
  BY <1>1, <1>2 DEF Init, Typed, TypedControl, TypedQueues, TypedFiles, States
<1>4. Retained /\ Reporting
  BY FileOutputAssumption DEF Init, Retained, Reporting
<1>5. Attempted
  BY <1>1 DEF Init, Attempted, Fresh, Attempts
<1>6. Stretch(<<>>, 0, 0) /\ \A a : LineStretch(<<>>, a, 0, 0)
  BY EmptyStretch
<1>7. FileInv
  <2> SUFFICES ASSUME NEW a \in Attempts, Undisturbed(a) PROVE Held(a, 0, 0, 0)
    BY <1>1 DEF FileInv
  <2>1. a = 1 /\ thread[a] = "running" /\ next[a] = 1
    BY DEF Init, Undisturbed
  <2>2. InHand(a, 0, 0, 0) /\ Stage(a, 0)
    BY <1>6, <2>1 DEF Init, InHand, Stage
  <2>3. \A t \in Types : Lines(a, t, 0) = <<>> /\ files[t] = <<>> /\ ~sinks[a][t].open
    BY LinesAppend DEF Init, NoSink
  <2>4. SinksHold(a, 0)
    BY <2>1, <2>3 DEF SinksHold, SinkHolds
  <2> QED BY <2>2, <2>4 DEF Held
<1>8. SpoolInv
  <2>1. ASSUME NEW a \in Attempts, thread[a] = "running" PROVE Spooled(a, 0, 0)
    <3>1. next[a] - 1 = 0 /\ batch[a] = <<>> /\ inner[a] = <<>> /\ spool[a] = <<>>
      BY DEF Init
    <3> QED BY <1>6, <2>1, <3>1 DEF Spooled
  <2>2. ASSUME NEW a \in Attempts PROVE Ordered(a)
    BY EmptyOrdered DEF Init
  <2> QED BY <1>1, <2>1, <2>2 DEF Init, SpoolInv, SpoolHolds
<1> QED BY <1>3, <1>4, <1>5, <1>7, <1>8 DEF IInv, Basics

\* Another attempt begins.
LEMMA RetryStep == ASSUME IInv, Retry PROVE IInv'
<1> DEFINE b == attempt + 1
<1>0. Typed /\ Retained /\ Attempted /\ Reporting /\ FileInv /\ SpoolInv
  BY DEF IInv, Basics
<1>1. /\ attempt \in Nat /\ attempt >= 1 /\ b \in Attempts /\ b > 1 /\ MaxAttempts \in Nat
      /\ Attempts = 1..MaxAttempts
  BY <1>0, FileOutputAssumption DEF Typed, TypedControl, Attempted, Retry, Attempts
<1>2. Fresh(b)
  BY <1>0, <1>1 DEF Attempted
<1>3. /\ attempt' = b /\ driver' = "draining" /\ thread' = [thread EXCEPT ![b] = "running"]
      /\ contested' \in {contested, contested \cup {b}}
      /\ b \notin contested' => \A a \in 1..attempt : thread[a] = "done"
  BY <1>0, <1>1 DEF Retry
<1>4. UNCHANGED <<destination, framing, shutdown, next, errored, aborted, reported, batch, pending,
                  ready, closeFailed, sinks, files, spool, inner>>
  BY DEF Retry, config, atomic
<1> HIDE DEF b
<1>5. Typed'
  BY <1>0, <1>1, <1>3, <1>4 DEF Typed, TypedControl, TypedQueues, TypedFiles, States
<1>6. Retained' /\ Reporting'
  BY <1>0, <1>1, <1>2, <1>3, <1>4 DEF Typed, TypedControl, Retained, Reporting, Fresh
<1>7. Attempted'
  <2>1. ASSUME NEW a \in Attempts, a > b PROVE Fresh(a)'
    <3>1. a > attempt /\ a # b
      BY <1>1, <2>1 DEF b
    <3>2. Fresh(a) /\ thread'[a] = thread[a]
      BY <1>0, <1>3, <3>1 DEF Attempted, Typed, TypedControl
    <3> QED BY <1>4, <3>2 DEF Fresh
  <2>2. ASSUME b \notin contested', NEW a \in Attempts, a < b PROVE thread'[a] = "done"
    <3>1. a \in 1..attempt /\ a # b
      BY <1>1, <2>2 DEF b
    <3> QED BY <1>0, <1>3, <2>2, <3>1 DEF Typed, TypedControl
  <2> QED BY <1>3, <2>1, <2>2 DEF Attempted
<1>8. Stretch(<<>>, 0, 0) /\ LineStretch(<<>>, b, 0, 0) /\ 0 \in 0..EntityCount
  BY EmptyStretch, FileOutputAssumption
<1>9. FileInv'
  <2> SUFFICES ASSUME NEW a \in Attempts, Undisturbed(a)' PROVE Held(a, 0, 0, 0)'
    BY <1>8 DEF FileInv
  <2>1. a = b /\ thread'[a] = "running"
    BY <1>0, <1>1, <1>3 DEF Undisturbed, Typed, TypedControl
  <2>2. InHand(a, 0, 0, 0)' /\ Stage(a, 0)'
    BY <1>2, <1>4, <1>8, <2>1 DEF Fresh, InHand, Stretch, Stage
  <2>3. \A t \in Types : Lines(a, t, 0) = <<>> /\ ~sinks'[a][t].open
    BY <1>2, <1>4, <2>1, LinesAppend DEF Fresh, NoSink
  <2>4. SinksHold(a, 0)'
    <3> SUFFICES ASSUME NEW t \in Types PROVE SinkHolds(a, t, 0)'
      BY DEF SinksHold
    <3> QED BY <1>1, <2>1, <2>3 DEF SinkHolds
  <2> QED BY <2>2, <2>4 DEF Held
<1>10. SpoolInv'
  <2> SUFFICES ASSUME destination = "Atomic", NEW a \in Attempts PROVE SpoolHolds(a)' /\ Ordered(a)'
    BY <1>4 DEF SpoolInv
  <2>1. SpoolHolds(a) /\ Ordered(a)
    BY <1>0 DEF SpoolInv
  <2>4. Ordered(a)'
    BY <1>4, <2>1 DEF Ordered, Stretch
  <2>2. CASE a = b
    <3>1. /\ thread'[a] = "running" /\ ~aborted'[a] /\ inner'[a] = <<>> /\ spool'[a] = <<>>
          /\ batch'[a] = <<>> /\ next'[a] - 1 = 0 /\ LineStretch(<<>>, a, 0, 0)
      BY <1>0, <1>1, <1>2, <1>3, <1>4, <1>8, <2>2 DEF Fresh, Typed, TypedControl
    <3>2. Spooled(a, 0, 0)'
      BY <1>8, <3>1 DEF Spooled, Stretch, LineStretch
    <3> QED BY <1>8, <2>4, <3>1, <3>2 DEF SpoolHolds
  <2>3. CASE a # b
    <3>1. thread'[a] = thread[a]
      BY <1>0, <1>3, <2>3 DEF Typed, TypedControl
    <3>2. ASSUME NEW k, NEW m, Spooled(a, k, m) PROVE Spooled(a, k, m)'
      BY <1>4, <3>1, <3>2 DEF Spooled, Stretch, LineStretch
    <3> QED BY <1>4, <2>1, <2>4, <3>1, <3>2 DEF SpoolHolds
  <2> QED BY <2>2, <2>3
<1> QED BY <1>5, <1>6, <1>7, <1>9, <1>10 DEF IInv, Basics

\* The rest of run_with_retry and the flag.
LEMMA DriverStep ==
  ASSUME IInv, Shutdown \/ Drain \/ BackoffInterrupted \/ UNCHANGED vars
  PROVE  IInv'
<1>0. Typed /\ Retained /\ Attempted /\ Reporting /\ FileInv /\ SpoolInv
  BY DEF IInv, Basics
<1>1. /\ UNCHANGED <<destination, framing, attempt, contested, thread, next, errored, aborted,
                     reported, batch, pending, ready, closeFailed, sinks, files, spool, inner>>
      /\ shutdown' \in BOOLEAN /\ (shutdown => shutdown')
      /\ driver' \in {"draining", "backoff", "ok", "failed"}
      /\ driver' = "backoff" => attempt < MaxAttempts
      /\ driver' = "ok" => reported[attempt] = "Stop"
  BY <1>0
     DEF Shutdown, Drain, BackoffInterrupted, vars, config, control, atomic, Typed, TypedControl,
              Attempted
<1>2. Typed' /\ Retained' /\ Reporting'
  BY <1>0, <1>1 DEF Typed, TypedControl, TypedQueues, TypedFiles, Retained, Reporting
<1>3. Attempted'
  BY <1>0, <1>1 DEF Attempted, Fresh
<1>4. FileInv'
  <2> SUFFICES ASSUME NEW a \in Attempts, Undisturbed(a)'
               PROVE  \E p, r, m \in 0..EntityCount : Held(a, p, r, m)'
    BY DEF FileInv
  <2>1. PICK p, r, m \in 0..EntityCount : Held(a, p, r, m)
    BY <1>0, <1>1 DEF FileInv, Undisturbed
  <2>2. SinksHold(a, p)'
    BY <1>1, <2>1, SinksKept DEF Held
  <2>3. InHand(a, p, r, m)' /\ Stage(a, p)'
    BY <1>1, <2>1 DEF Held, InHand, Stretch, Stage
  <2> QED BY <2>2, <2>3 DEF Held
<1>5. SpoolInv'
  <2> SUFFICES ASSUME destination = "Atomic", NEW a \in Attempts PROVE SpoolHolds(a)' /\ Ordered(a)'
    BY <1>1 DEF SpoolInv
  <2>1. SpoolHolds(a) /\ Ordered(a)
    BY <1>0 DEF SpoolInv
  <2>2. ASSUME NEW k, NEW m, Spooled(a, k, m) PROVE Spooled(a, k, m)'
    BY <1>1, <2>2 DEF Spooled, Stretch, LineStretch
  <2>3. Ordered(a)'
    BY <1>1, <2>1 DEF Ordered, Stretch
  <2> QED BY <1>1, <2>1, <2>2, <2>3 DEF SpoolHolds
<1> QED BY <1>2, <1>3, <1>4, <1>5 DEF IInv, Basics

\* A step of a thread.
LEMMA ThreadBasics ==
  ASSUME Basics, NEW a \in Attempts, StageStep(a) \/ FileStep(a) \/ SpoolStep(a)
  PROVE  Basics' /\ Elsewhere(a)
<1>1. CASE StageStep(a)
  BY <1>1, TakeBatchBasics, ForwardErrorBasics, EndStreamBasics DEF StageStep
<1>2. CASE FileStep(a)
  BY <1>2, PushBasics, FlushPendingBasics, PrepareFailsBasics, WritePreparedBasics,
     WritePreparedFailsBasics, TakeSinksBasics, EndFinalizeBasics, DroppedBasics, CloseSinkBasics,
     CloseSinkFailsBasics, DropSinkBasics
  DEF FileStep
<1>3. CASE SpoolStep(a)
  BY <1>3, SpoolBasics, SpoolFailsBasics, ReplayBasics, ReplayFailsBasics, FinalizeInnerBasics
  DEF SpoolStep
<1> QED BY <1>1, <1>2, <1>3

\* The file writer and the staging writer do not run for the same destination.
LEMMA OneWriter ==
  ASSUME IInv, NEW a \in Attempts
  PROVE  (SpoolStep(a) => destination = "Atomic") /\ (FileStep(a) => destination = "File")
<1>1. SpoolStep(a) => destination = "Atomic"
  BY DEF SpoolStep, Spool, SpoolFails, Replay, ReplayFails, FinalizeInner, Finalizing, OnSpool
<1>2. ASSUME FileStep(a) PROVE destination = "File"
  <2>1. destination = "File" \/ destination = "Atomic"
    BY FileOutputAssumption DEF IInv, Basics, Typed, TypedControl
  <2>2. destination = "Atomic" => thread[a] \notin {"closing", "dropping"}
    BY DEF IInv, SpoolInv, SpoolHolds
  <2>3. destination = "File" \/ thread[a] \in {"closing", "dropping"}
    BY <1>2
       DEF FileStep, Push, FlushPending, PrepareFails, WritePrepared, WritePreparedFails,
           TakeSinks,
                OnFile, EndFinalize, Dropped, CloseSink, CloseSinkFails, DropSink
  <2> QED BY <2>1, <2>2, <2>3
<1> QED BY <1>1, <1>2

\* A step of a thread keeps the invariant.
LEMMA ThreadStep ==
  ASSUME IInv, NEW a \in Attempts, StageStep(a) \/ FileStep(a) \/ SpoolStep(a)
  PROVE  IInv'
<1>1. Basics' /\ Elsewhere(a)
  BY ThreadBasics DEF IInv
<1>2. destination = "File" \/ destination = "Atomic"
  BY FileOutputAssumption DEF IInv, Basics, Typed, TypedControl
<1>3. CASE destination = "File"
  <2>1. FileInv'
    BY <1>3, OneWriter, ThreadFile DEF IInv
  <2>2. SpoolInv'
    BY <1>1, <1>3 DEF Elsewhere, SpoolInv
  <2> QED BY <1>1, <2>1, <2>2 DEF IInv
<1>4. CASE destination = "Atomic"
  <2>1. SpoolInv'
    BY <1>4, OneWriter, ThreadSpool DEF IInv
  <2>2. FileInv'
    BY <1>1, <1>4 DEF Elsewhere, FileInv, Undisturbed
  <2> QED BY <1>1, <2>1, <2>2 DEF IInv
<1> QED BY <1>2, <1>3, <1>4

\* Every step keeps the invariant.
LEMMA NextIInv == IInv /\ [Next]_vars => IInv'
<1> SUFFICES ASSUME IInv, [Next]_vars PROVE IInv'
  OBVIOUS
<1>1. CASE Retry
  BY <1>1, RetryStep
<1>2. CASE Shutdown \/ Drain \/ BackoffInterrupted \/ UNCHANGED vars
  BY <1>2, DriverStep
<1>3. CASE \E a \in Attempts : StageStep(a) \/ FileStep(a) \/ SpoolStep(a)
  BY <1>3, ThreadStep
<1> QED BY <1>1, <1>2, <1>3 DEF Next

\* The files and the spools hold what was taken of the stream, whatever fails when
\* and although threads of earlier attempts are alive (FileWriter, AtomicWriter).
THEOREM FilesInvariant == Spec => []IInv
BY InitIInv, NextIInv, PTL DEF Spec

-----------------------------------------------------------------------------
\* What the invariant says of a cycle that has returned.

\* The types.
LEMMA IInvTypeOK == IInv => TypeOK
<1> SUFFICES ASSUME IInv PROVE TypeOK
  OBVIOUS
<1>0. Typed /\ Retained
  BY DEF IInv, Basics
<1>1. ASSUME NEW a \in Attempts
      PROVE  /\ Len(pending[a]) < BatchSize /\ Len(ready[a]) <= BatchSize
             /\ Len(pending[a]) + Len(ready[a]) <= BatchSize
  <2>1. /\ Len(pending[a]) < BatchSize /\ Len(ready[a]) <= BatchSize
        /\ ready[a] = <<>> \/ pending[a] = <<>>
    BY <1>0 DEF Retained
  <2>2. Len(pending[a]) \in Nat /\ Len(ready[a]) \in Nat /\ Len(<<>>) = 0 /\ BatchSize \in Nat
    BY <1>0, FileOutputAssumption DEF Typed, TypedQueues
  <2>3. Len(ready[a]) = 0 \/ Len(pending[a]) = 0
    BY <2>1, <2>2
  <2> DEFINE held == Len(pending[a])
             prepared == Len(ready[a])
  <2>4. /\ held \in Nat /\ prepared \in Nat /\ BatchSize \in Nat /\ held < BatchSize
        /\ prepared <= BatchSize /\ (held = 0 \/ prepared = 0)
    BY <2>1, <2>2, <2>3
  <2> HIDE DEF held, prepared
  <2>5. held + prepared <= BatchSize
    BY <2>4
  <2> QED BY <2>1, <2>5 DEF held, prepared
<1>2. ASSUME NEW a \in Attempts, NEW t \in Types PROVE DOMAIN sinks[a][t] = DOMAIN NoSink
  <2>1. sinks[a][t] \in Sinks
    BY <1>0 DEF Typed, TypedFiles
  <2> QED BY <2>1 DEF Sinks, NoSink
<1> QED BY <1>0, <1>1, <1>2 DEF TypeOK, Typed, TypedControl, States

\* The files of a cycle that returned Ok.
LEMMA IInvExact == IInv => OkFileIsExact
<1> SUFFICES ASSUME IInv PROVE OkFileIsExact
  OBVIOUS
<1>1. ASSUME destination = "File", driver = "ok", attempt \notin contested PROVE Exact(attempt)
  <2>1. attempt \in Attempts /\ reported[attempt] = "Stop"
    BY <1>1 DEF IInv, Basics, Typed, TypedControl, Attempted
  <2>2. thread[attempt] = "done" /\ ~closeFailed[attempt]
    BY <2>1 DEF IInv, Basics, Reporting
  <2>3. Undisturbed(attempt)
    BY <1>1, <2>1, <2>2 DEF Undisturbed
  <2>4. PICK p, r, m \in 0..EntityCount : Held(attempt, p, r, m)
    BY <2>1, <2>3 DEF IInv, FileInv
  <2>5. /\ p = next[attempt] - 1 /\ (shutdown \/ next[attempt] = EntityCount + 1)
        /\ \A t \in Types : ~sinks[attempt][t].open
    BY <2>2, <2>4 DEF Held, Stage
  <2>6. ASSUME NEW t \in Types
        PROVE  LET lines == Lines(attempt, t, p)
               IN files[t] = Framed(lines) \/ (lines = <<>> /\ attempt > 1)
    BY <2>2, <2>4, <2>5 DEF Held, SinksHold, SinkHolds
  <2>7. shutdown \/ p = EntityCount
    BY <2>5, FileOutputAssumption
  <2> QED BY <2>6, <2>7 DEF Exact
<1> QED BY <1>1, IInvTypeOK DEF OkFileIsExact

\* What the wrapped writer was given.
LEMMA IInvAtomic == IInv => WrappedInOrder
<1> SUFFICES ASSUME IInv, destination = "Atomic" PROVE WrappedInOrder
  BY DEF WrappedInOrder
<1>1. \A a \in Attempts : SpoolHolds(a) /\ Ordered(a)
  BY DEF IInv, SpoolInv
<1>2. ASSUME driver = "ok"
      PROVE  \/ inner[attempt] = [e \in Entities |-> Line(attempt, e)]
             \/ inner[attempt] = <<>> /\ shutdown
  <2>1. attempt \in Attempts /\ reported[attempt] = "Stop"
    BY <1>2 DEF IInv, Basics, Typed, TypedControl, Attempted
  <2>2. thread[attempt] = "done"
    BY <2>1 DEF IInv, Basics, Reporting
  <2>3. SpoolHolds(attempt)
    BY <1>1, <2>1
  <2>4. PICK k, m \in 0..EntityCount : Spooled(attempt, k, m)
    BY <2>1, <2>2, <2>3 DEF SpoolHolds
  <2>5. CASE aborted[attempt]
    BY <2>1, <2>3, <2>5 DEF SpoolHolds
  <2>6. CASE ~aborted[attempt]
    <3>1. LineStretch(inner[attempt], attempt, 0, EntityCount)
      BY <2>2, <2>4, <2>6 DEF Spooled
    <3>2. EntityCount - 0 = EntityCount /\ \A i \in 1..EntityCount : 0 + i = i
      BY FileOutputAssumption
    <3> QED BY <3>1, <3>2 DEF LineStretch, Entities
  <2> QED BY <2>5, <2>6
<1>3. ASSUME NEW a \in Attempts, NEW k \in 1..Len(inner[a]) PROVE Follows(inner[a], a, k)
  <2> DEFINE s == inner[a] \o spool[a]
  <2>1. inner[a] \in Seq(Tokens) /\ spool[a] \in Seq(Tokens)
    BY DEF IInv, Basics, Typed, TypedQueues
  <2>2. k \in 1..Len(s) /\ \A j \in 1..k : s[j] = inner[a][j]
    <3> DEFINE given == inner[a]
               rest == spool[a]
    <3>1. given \in Seq(Tokens) /\ rest \in Seq(Tokens) /\ k \in 1..Len(given)
      BY <2>1
    <3> HIDE DEF given, rest
    <3>2. /\ Len(given \o rest) = Len(given) + Len(rest) /\ Len(given) \in Nat /\ Len(rest) \in Nat
          /\ \A j \in 1..(Len(given) + Len(rest)) :
               (given \o rest)[j] = IF j <= Len(given) THEN given[j] ELSE rest[j - Len(given)]
      BY <3>1, ConcatProperties
    <3>3. k \in 1..Len(given \o rest)
      BY <3>1, <3>2
    <3>4. \A j \in 1..k : j \in 1..(Len(given) + Len(rest)) /\ j <= Len(given)
      BY <3>1, <3>2
    <3>5. \A j \in 1..k : (given \o rest)[j] = given[j]
      BY <3>2, <3>4
    <3> QED BY <3>3, <3>5 DEF given, rest
  <2>3. inner[a][k] # Torn
    BY <1>1 DEF Ordered
  <2>4. PICK n \in 0..EntityCount : Rising(s, a, n)
    BY <1>1 DEF Ordered
  <2> HIDE DEF s
  <2>5. PICK e \in 1..n : /\ s[k] = Line(a, e)
                         /\ \A j \in 1..(k - 1), d \in Entities : s[j] = Line(a, d) => d < e
    BY <2>2, <2>3, <2>4 DEF Rising
  <2>6. e \in Entities /\ k \in 1..k /\ \A j \in 1..(k - 1) : j \in 1..k
    BY <2>1, FileOutputAssumption DEF Entities
  <2> QED BY <2>2, <2>5, <2>6 DEF Follows
<1> QED BY <1>1, <1>2, <1>3 DEF WrappedInOrder, SpoolHolds

\* A cycle that returned Ok has no thread left that writes.
LEMMA IInvFinal ==
  IInv /\ [Next]_vars =>
    [destination = "File" /\ driver = "ok" /\ attempt \notin contested => UNCHANGED files]_vars
<1> SUFFICES ASSUME IInv, Next, destination = "File", driver = "ok", attempt \notin contested
             PROVE  UNCHANGED files
  OBVIOUS
<1>1. \A a \in Attempts : thread[a] \in {"idle", "done"}
  <2>1. attempt \in Attempts /\ reported[attempt] = "Stop"
    BY DEF IInv, Basics, Typed, TypedControl, Attempted
  <2>2. thread[attempt] = "done"
    BY <2>1 DEF IInv, Basics, Reporting
  <2> QED BY <2>2, ActiveThread DEF IInv
<1>2. ASSUME NEW a \in Attempts PROVE ~StageStep(a) /\ ~FileStep(a) /\ ~SpoolStep(a)
  <2>1. thread[a] \notin {"running", "flushing", "closing", "dropping"}
    BY <1>1
  <2>2. ~StageStep(a)
    BY <2>1 DEF StageStep, TakeBatch, ForwardError, EndStream, Waiting
  <2>3. ~FileStep(a)
    BY <2>1
       DEF FileStep, Push, FlushPending, PrepareFails, WritePrepared, WritePreparedFails,
           TakeSinks,
                OnFile, EndFinalize, Dropped, CloseSink, CloseSinkFails, DropSink
  <2>4. ~SpoolStep(a)
    BY <2>1
       DEF SpoolStep, Spool, SpoolFails, Replay, ReplayFails, FinalizeInner, Finalizing, OnSpool
  <2> QED BY <2>2, <2>3, <2>4
<1>3. CASE Shutdown \/ Drain \/ Retry \/ BackoffInterrupted \/ UNCHANGED vars
  BY <1>3 DEF Shutdown, Drain, Retry, BackoffInterrupted, vars
<1> QED BY <1>2, <1>3 DEF Next

\* A cycle that returned Ok left, per entity type, one well-framed file with every entity
\* of the stream once and in order (FileWriter::finalize, EntityTypeSink::open).
THEOREM OkFilesExact == Spec => []OkFileIsExact
BY FilesInvariant, IInvExact, PTL

\* Nothing is written once Stop has been drained (WriterProcessor::finalize).
THEOREM OkFilesFinal == Spec => OkIsFinal
<1>1. IInv /\ [Next]_vars =>
        [destination = "File" /\ driver = "ok" /\ attempt \notin contested => UNCHANGED files]_vars
  BY IInvFinal
<1> QED BY <1>1, FilesInvariant, PTL DEF Spec, OkIsFinal

\* The wrapped writer gets whole entities in the order of the stream and none twice, after
\* any failure of the spool or the replay; nothing when the run is aborted, and all or, if
\* cancelled, nothing when a cycle ends in Ok (AtomicWriter::finalize, replay).
THEOREM ReplayInOrder == Spec => []WrappedInOrder
BY FilesInvariant, IInvAtomic, PTL

-----------------------------------------------------------------------------
\* The controller of the payload size: its inductive invariant.

\* What a worker carries between a load and the store that follows it.
Carried ==
  \A w \in Workers :
    /\ pc[w] = "storeSize" => sample[w] \in Sizes /\ Between(seen[w], Sizes)
    /\ pc[w] = "storeLatency" => sample[w] \in Latencies /\ Between(seen[w], Latencies)
    /\ pc[w] = "storeLimit" => sample[w] \in Payloads /\ (seen[w] # 0 => limit # 0)

\* The limit is the last refusal stored, and there is one once a payload was refused.
LimitIsRefused ==
  /\ limit # 0 => limit \in rejected
  /\ rejected # {} => limit # 0

ControlIInv == AveragesAreObserved /\ Carried /\ LimitIsRefused

-----------------------------------------------------------------------------
\* Arithmetic.

\* A clamped number is within its bounds.
LEMMA ClampBetween ==
  ASSUME NEW n \in Nat, NEW low \in Nat, NEW high \in Nat, low <= high
  PROVE  Clamp(n, low, high) \in low..high
BY DEF Clamp

\* Dividing numbers gives a number.
LEMMA Quotient ==
  ASSUME NEW a \in Nat, NEW b \in Nat, b # 0
  PROVE  a \div b \in Nat
<1>1. a \div b \in Int
  OBVIOUS
<1>2. a \div b >= 0
  BY SMTT(60)
<1> QED
  BY <1>1, <1>2

\* The smaller and the larger of two numbers.
LEMMA TwoNumbers ==
  ASSUME NEW a \in Nat, NEW b \in Nat
  PROVE  /\ Min({a, b}) = IF a <= b THEN a ELSE b
         /\ Max({a, b}) = IF a >= b THEN a ELSE b
BY DEF Min, Max

\* A smoothed average of numbers between two measurements lies between two of them.
LEMMA SmoothedBetween ==
  ASSUME NEW S \in SUBSET Nat, NEW p \in Nat, NEW o \in S, Between(p, S)
  PROVE  Smoothed(p, o) \in Nat /\ Between(Smoothed(p, o), S)
<1>1. CASE p = 0
  BY <1>1 DEF Smoothed, Between
<1>2. CASE p # 0
  <2>1. PICK low \in S, high \in S : low <= p /\ p <= high
    BY <1>2 DEF Between
  <2>2. Smoothed(p, o) = (3 * p + o) \div 4
    BY <1>2 DEF Smoothed
  <2>3. (3 * p + o) \div 4 \in Nat
    OBVIOUS
  <2>4. \/ low <= (3 * p + o) \div 4
        \/ o <= (3 * p + o) \div 4
    BY <2>1
  <2>5. \/ (3 * p + o) \div 4 <= high
        \/ (3 * p + o) \div 4 <= o
    BY <2>1
  <2> QED
    BY <2>1, <2>2, <2>3, <2>4, <2>5 DEF Between
<1> QED
  BY <1>1, <1>2

\* The upper bound of the target.
LEMMA UpperBounds ==
  ASSUME ControlTypeOK
  PROVE  /\ Upper \in MinBytes..MaxBytes
         /\ limit # 0 => Upper <= MinBytes \/ Upper <= (limit * 4) \div 5
<1>1. limit \in Nat /\ MinBytes \in Nat /\ MaxBytes \in Nat /\ MinBytes <= MaxBytes
  BY SizeControlAssumption DEF ControlTypeOK
<1>2. (limit * 4) \div 5 \in Nat
  BY <1>1
<1>3. Min({MaxBytes, (limit * 4) \div 5}) =
        IF MaxBytes <= (limit * 4) \div 5 THEN MaxBytes ELSE (limit * 4) \div 5
  BY <1>1, <1>2, TwoNumbers
<1> DEFINE ceiling == IF limit > 0 THEN Min({MaxBytes, (limit * 4) \div 5}) ELSE MaxBytes
<1>4. /\ ceiling \in Nat /\ ceiling <= MaxBytes
      /\ limit # 0 => ceiling <= (limit * 4) \div 5
  BY <1>1, <1>2, <1>3
<1>5. Upper = Max({ceiling, MinBytes})
  BY DEF Upper
<1> HIDE DEF ceiling
<1>6. Upper = IF ceiling >= MinBytes THEN ceiling ELSE MinBytes
  BY <1>1, <1>4, <1>5, TwoNumbers
<1> QED
  BY <1>1, <1>4, <1>6

-----------------------------------------------------------------------------
\* Before anything is measured.
LEMMA InitControl == ControlInit => ControlIInv
<1> SUFFICES ASSUME ControlInit PROVE ControlIInv
  OBVIOUS
<1>1. ControlTypeOK
  <2>1. target \in MinBytes..MaxBytes
    BY ClampBetween, SizeControlAssumption DEF ControlInit
  <2> QED
    BY <2>1, SizeControlAssumption DEF ControlInit, ControlTypeOK
<1> QED
  BY <1>1 DEF ControlInit, ControlIInv, AveragesAreObserved, Between, Carried, LimitIsRefused

\* A worker measures and loads what it is going to update.
LEMMA LoadStep ==
  ASSUME ControlIInv, NEW w \in Workers, LoadSize(w) \/ LoadLatency(w) \/ LoadLimit(w)
  PROVE  ControlIInv'
<1> USE SizeControlAssumption DEF ControlIInv, AveragesAreObserved, ControlTypeOK, Carried, LimitIsRefused, metrics, sizing
<1>1. CASE LoadSize(w)
  BY <1>1 DEF LoadSize
<1>2. CASE LoadLatency(w)
  BY <1>2 DEF LoadLatency
<1>3. CASE LoadLimit(w)
  BY <1>3 DEF LoadLimit
<1> QED
  BY <1>1, <1>2, <1>3

\* Where a worker may be.
Places == {"idle", "storeSize", "loadLatency", "storeLatency", "addSuccess", "clearFailures",
           "addFailure", "addTooLarge", "clear", "clearThenLimit", "loadLimit", "storeLimit"}

\* A worker stores an average computed from what it loaded, however old that is.
LEMMA StoreStep ==
  ASSUME ControlIInv, NEW w \in Workers, StoreSize(w) \/ StoreLatency(w)
  PROVE  ControlIInv'
<1>1. Sizes \in SUBSET Nat /\ Latencies \in SUBSET Nat
  BY SizeControlAssumption
<1> USE DEF ControlIInv, AveragesAreObserved, ControlTypeOK, Carried, LimitIsRefused, metrics, sizing
<1>2. CASE StoreSize(w)
  <2>1. Smoothed(seen[w], sample[w]) \in Nat /\ Between(Smoothed(seen[w], sample[w]), Sizes)
    BY <1>1, <1>2, SmoothedBetween DEF StoreSize
  <2>2. PICK answer \in Answers : pc' = [pc EXCEPT ![w] = answer]
    BY <1>2 DEF StoreSize
  <2>3. answer \notin {"storeSize", "storeLatency", "storeLimit"} /\ pc' \in [Workers -> Places]
    BY <2>2 DEF Answers, Places
  <2> QED
    BY <1>2, <2>1, <2>2, <2>3 DEF StoreSize, Forget, Places
<1>3. CASE StoreLatency(w)
  <2>1. Smoothed(seen[w], sample[w]) \in Nat /\ Between(Smoothed(seen[w], sample[w]), Latencies)
    BY <1>1, <1>3, SmoothedBetween DEF StoreLatency
  <2> QED
    BY <1>3, <2>1 DEF StoreLatency, Forget
<1> QED
  BY <1>2, <1>3

\* A worker stores a refused payload, or leaves a limit that is already there.
LEMMA StoreLimitStep ==
  ASSUME ControlIInv, NEW w \in Workers, StoreLimit(w)
  PROVE  ControlIInv' /\ (limit' # limit => limit' \in rejected')
<1> USE SizeControlAssumption DEF ControlIInv, AveragesAreObserved, ControlTypeOK, Carried, LimitIsRefused, StoreLimit, Forget, sizing
<1>1. sample[w] \in Payloads /\ sample[w] # 0 /\ (seen[w] # 0 => limit # 0)
  OBVIOUS
<1>2. /\ limit' \in Payloads /\ limit' \in rejected' /\ limit' # 0
      /\ rejected' \subseteq Payloads
  BY <1>1
<1> QED
  BY <1>1, <1>2

\* The streaks.
LEMMA StreakStep ==
  ASSUME ControlIInv, NEW w \in Workers,
         AddSuccess(w) \/ ClearFailures(w) \/ AddFailure(w) \/ ClearSuccesses(w)
  PROVE  ControlIInv'
<1> USE SizeControlAssumption DEF ControlIInv, AveragesAreObserved, ControlTypeOK, Carried, LimitIsRefused, sizing
<1>1. CASE AddSuccess(w)
  BY <1>1 DEF AddSuccess, Count
<1>2. CASE ClearFailures(w)
  BY <1>2 DEF ClearFailures
<1>3. CASE AddFailure(w)
  BY <1>3 DEF AddFailure, Count
<1>4. CASE ClearSuccesses(w)
  <2>1. PICK after \in Answers \cup {"loadLimit"} : pc' = [pc EXCEPT ![w] = after]
    BY <1>4 DEF ClearSuccesses
  <2>2. after \notin {"storeSize", "storeLatency", "storeLimit"} /\ pc' \in [Workers -> Places]
    BY <2>1 DEF Answers, Places
  <2> QED
    BY <1>4, <2>1, <2>2 DEF ClearSuccesses, Places
<1> QED
  BY <1>1, <1>2, <1>3, <1>4

\* The writer's thread: the target it sets is within its bounds and under the limit.
LEMMA AdjustStep ==
  ASSUME ControlIInv, Adjust
  PROVE  /\ ControlIInv' /\ limit' = limit
         /\ rejected # {} =>
              target' <= MinBytes \/ \E r \in rejected : target' <= (r * 4) \div 5
<1>1. Adjusted \in Nat
  <2>1. target \in Nat
    BY SizeControlAssumption DEF ControlIInv, AveragesAreObserved, ControlTypeOK
  <2> QED
    BY <2>1 DEF Adjusted
<1>2. Upper \in MinBytes..MaxBytes /\ (limit # 0 => Upper <= MinBytes \/ Upper <= (limit * 4) \div 5)
  BY UpperBounds DEF ControlIInv, AveragesAreObserved
<1>3. target' \in MinBytes..Upper
  <2>1. target' = Clamp(Adjusted, MinBytes, Upper)
    BY DEF Adjust
  <2>2. MinBytes \in Nat /\ Upper \in Nat /\ MinBytes <= Upper
    BY <1>2, SizeControlAssumption
  <2> QED
    BY <1>1, <2>1, <2>2, ClampBetween
<1>4. batchSize' \in (MinBatch..MaxBatch) \cup {InitialBatch}
  <2>1. CASE avgSize = 0
    BY <2>1 DEF Adjust, BatchSizeFor, ControlIInv, AveragesAreObserved, ControlTypeOK
  <2>2. CASE avgSize # 0
    <3>1. target' \div avgSize \in Nat
      <4>1. target' \in Nat
        BY <1>2, <1>3, SizeControlAssumption
      <4>2. avgSize \in Nat
        BY DEF ControlIInv, AveragesAreObserved, ControlTypeOK
      <4> QED
        BY <2>2, <4>1, <4>2, Quotient
    <3>2. batchSize' = Clamp(target' \div avgSize, MinBatch, MaxBatch)
      BY <2>2 DEF Adjust, BatchSizeFor
    <3> QED
      BY <3>1, <3>2, ClampBetween, SizeControlAssumption
  <2> QED
    BY <2>1, <2>2
<1>5. ControlIInv'
  BY <1>2, <1>3, <1>4, SizeControlAssumption
     DEF Adjust, ControlIInv, AveragesAreObserved, ControlTypeOK, Carried, LimitIsRefused
<1>6. ASSUME rejected # {}
      PROVE  target' <= MinBytes \/ \E r \in rejected : target' <= (r * 4) \div 5
  <2>1. limit \in rejected /\ limit # 0 /\ limit \in Nat
    BY <1>6, SizeControlAssumption
       DEF ControlIInv, LimitIsRefused, AveragesAreObserved, ControlTypeOK
  <2>2. (limit * 4) \div 5 \in Nat
    BY <2>1
  <2>3. target' <= MinBytes \/ target' <= (limit * 4) \div 5
    BY <1>2, <1>3, <2>1, <2>2, SizeControlAssumption
  <2> QED
    BY <2>1, <2>3
<1> QED
  BY <1>5, <1>6 DEF Adjust

\* Reading the metrics changes none of them.
LEMMA LoadMetricsStep ==
  ASSUME ControlIInv, LoadMetrics
  PROVE  ControlIInv'
BY
   DEF LoadMetrics, Asked, ControlIInv, AveragesAreObserved, ControlTypeOK, Carried,
       LimitIsRefused, metrics, sizing

\* What a step of the specification does to the invariant and to the limit.
Bounding ==
  /\ limit' # limit => limit' \in rejected'
  /\ verdict # "none" /\ verdict' = "none" /\ rejected # {} =>
       target' <= MinBytes \/ \E r \in rejected : target' <= (r * 4) \div 5

\* Every step of the specification keeps the invariant and bounds the target.
LEMMA ControlStep == ControlIInv /\ [ControlNext]_controlVars => ControlIInv' /\ [Bounding]_controlVars
<1> SUFFICES ASSUME ControlIInv, [ControlNext]_controlVars PROVE ControlIInv' /\ [Bounding]_controlVars
  OBVIOUS
<1>1. CASE Adjust
  BY <1>1, AdjustStep DEF Bounding
<1>2. CASE LoadMetrics
  BY <1>2, LoadMetricsStep DEF Bounding, LoadMetrics, metrics, Asked
<1>3. ASSUME NEW w \in Workers, WorkerStep(w) PROVE ControlIInv' /\ Bounding
  <2>1. ControlIInv' /\ (StoreLimit(w) => (limit' # limit => limit' \in rejected'))
    BY <1>3, LoadStep, StoreStep, StoreLimitStep, StreakStep DEF WorkerStep
  <2>2. verdict' = verdict /\ (~StoreLimit(w) => limit' = limit)
    BY <1>3 DEF WorkerStep, LoadSize, StoreSize, LoadLatency, StoreLatency, AddSuccess,
       ClearFailures, AddFailure, ClearSuccesses, LoadLimit, StoreLimit, metrics
  <2> QED
    BY <2>1, <2>2 DEF Bounding
<1>4. CASE UNCHANGED controlVars
  BY <1>4
     DEF controlVars, metrics, sizing, ControlIInv, AveragesAreObserved, ControlTypeOK, Carried,
         LimitIsRefused
<1> QED
  BY <1>1, <1>2, <1>3, <1>4 DEF ControlNext

-----------------------------------------------------------------------------
\* However the updates of any number of workers race, the averages stay within what
\* was measured and the target and the batch size within their bounds
\* (record_success, record_entity_size, adjust_target_bytes, update_batch_size).
THEOREM AveragesObserved == ControlSpec => []AveragesAreObserved
<1>1. ControlIInv => AveragesAreObserved
  BY DEF ControlIInv
<1> QED
  BY InitControl, ControlStep, <1>1, PTL DEF ControlSpec

\* The target is held under 80% of a payload that was refused, whichever of racing
\* refusals was stored last (observe_payload_limit, adjust_target_bytes).
THEOREM CeilingRefused == ControlSpec => CeilingIsARejection
<1>1. ControlSpec => [][Bounding]_controlVars
  BY InitControl, ControlStep, PTL DEF ControlSpec
<1> QED
  BY <1>1 DEF CeilingIsARejection, Bounding
=============================================================================
