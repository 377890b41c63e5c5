------------------------- MODULE EntityStoreProofs -------------------------
(***************************************************************************)
(* The safety of EntityStore for any fragments, ids and mappings, batches  *)
(* of any size, both stores and both modes.                                *)
(***************************************************************************)
EXTENDS EntityStore, Integers, FiniteSetTheorems, SequenceTheorems, WellFoundedInduction, TLAPS

-----------------------------------------------------------------------------
\* What merged records are.

Paths == Seq(Nat) \ {NoPath}

\* One path is before another at the place where it ends or has the lower key.
BeforeAt(p, q, i) ==
  /\ i \in 1..Len(q) /\ i <= Len(p) + 1
  /\ \A j \in 1..(i - 1) : p[j] = q[j]
  /\ i <= Len(p) => p[i] < q[i]

IsEarliest(e, P) ==
  /\ P = {} => e = NoPath
  /\ P # {} => e \in P /\ \A q \in P \ {e} : Before(e, q)

\* No path of a record continues another.
IsRecord(d) ==
  /\ IsFiniteSet(d) /\ \A leaf \in d : leaf.path \in Paths
  /\ \A a \in d, b \in d : Meet(a, b) => a = b

\* The disagreements of a set of records, two by two.
Disputes(R, reads) == UNION {Conflicts(p[1], p[2], reads) : p \in R \X R}

\* The kept record D and conflict c after the records R were merged.
Merges(D, c, R, reads) ==
  /\ IsFiniteSet(D)
  /\ \A k \in D : \E r \in R : k \in r
  /\ \A r \in R : \A leaf \in r : leaf \in D \/ \E k \in D : Differ(k, leaf)
  /\ IsEarliest(c, Disputes(R, reads))

-----------------------------------------------------------------------------
\* What a slot stands for.

IsSlot(s) ==
  /\ s = [data |-> s.data, timestamp |-> s.timestamp, discards |-> s.discards,
          records |-> s.records, conflict |-> s.conflict, expires |-> s.expires]
  /\ s.discards \in Nat /\ s.records \in Nat /\ s.expires \in Nat
  /\ RankingText(s.timestamp) \in Nat

Failing(W) == {f \in W : Unresolvable(Content[f].timestamp)}
Whole(s, f) ==
  /\ Content[f].data = s.data /\ Content[f].timestamp = s.timestamp
  /\ Content[f].expires = s.expires

LatestOf(s, W) ==
  W # {} => /\ \A f \in W : RankingText(Content[f].timestamp) <= RankingText(s.timestamp)
            /\ \E f \in W : Whole(s, f)
DiscardsOf(s, W) ==
  s.discards + (IF Unresolvable(s.timestamp) THEN 1 ELSE 0) = Cardinality(Failing(W))
RecordsIn(W) == {Content[f].data : f \in W}
MergedFrom(s, W, m) == W # {} => Merges(s.data, s.conflict, RecordsIn(W), Reads[m])

\* The slot of mapping m once the fragments W of m have been placed in it.
StandsFor(s, W, m) ==
  /\ IsSlot(s) /\ s.records = Cardinality(W) /\ (s.records = 0 => s = Vacant)
  /\ m \in TemporalMappings => LatestOf(s, W) /\ DiscardsOf(s, W)
  /\ m \notin TemporalMappings => MergedFrom(s, W, m) /\ s.discards = 0

-----------------------------------------------------------------------------
\* What the tables hold.

In(P, i) == {f \in P : Content[f].id = i}
Of(P, i, m) == {f \in P : Content[f].id = i /\ Content[f].mapping = m}
Empty == [m \in Mappings |-> Vacant]

SlotsHold(row, i, P) ==
  DOMAIN row = Mappings /\ \A m \in Mappings : StandsFor(row[m], Of(P, i, m), m)
SeriesHolds(q, i, P) ==
  q \in Seq(Fragments) /\ ToSet(q) = In(P, i) /\ Len(q) = Cardinality(In(P, i))

\* The records of id i are those of the fragments in P.
Holds(row, q, i, P) ==
  /\ mode = "latest" => SlotsHold(row, i, P) /\ q = <<>>
  /\ mode = "series" => SeriesHolds(q, i, P) /\ row = Empty

ScopesOf(P, i) == UNION {Content[f].scope : f \in In(P, i)}
EdgesOf(P) == UNION {Content[f].edges : f \in P}

-----------------------------------------------------------------------------
\* The inductive invariant.

InPlace == {f \in input : task[f] \in {"scope", "done"}}
Scoped == {f \in input : task[f] = "done"}
Pending == {f \in input : task[f] = "stored"}
Open == \E f \in input : task[f] \in {"related", "stored"}

States == {"idle", "build", "edges", "lookup", "insert", "scope", "done",
           "prepared", "related", "stored", "refused"}

Shapes ==
  /\ input \in Workloads /\ entityStore \in Kinds /\ relationshipStore \in Kinds /\ mode \in Modes
  /\ phase \in {"resolve", "failed", "assemble", "done"}
  /\ task \in [Fragments -> States]
  /\ DOMAIN unsent = Fragments /\ \A f \in input : unsent[f] \subseteq Content[f].edges
  /\ DOMAIN slots = Ids /\ DOMAIN series = Ids /\ DOMAIN scopes = Ids
  /\ \A i \in Ids : DOMAIN slots[i] = Mappings /\ series[i] \in Seq(Fragments)
  /\ failures \subseteq Mappings /\ edgesFailed \in BOOLEAN /\ broken \in BOOLEAN
  /\ DOMAIN emitted = Ids
  /\ DOMAIN merged = EntityTypes
  /\ discarded \in [Mappings -> [entities : Nat, records : Nat]]

\* Which states go together.
Staged ==
  /\ (\E f \in input : task[f] \in {"build", "edges", "lookup", "insert", "scope"}) => Concurrent
  /\ (\E f \in input : task[f] \in {"prepared", "related", "stored", "refused"}) => ~Concurrent
  /\ InBatch("prepared") # {} => ~Open /\ ~edgesFailed
  /\ phase = "resolve" /\ edgesFailed => Open
  /\ phase \in {"assemble", "done"} => ~edgesFailed /\ \A f \in input : task[f] = "done"
  /\ phase \in {"resolve", "failed"} => ~broken /\ \A i \in Ids : emitted[i].outcome = "none"

\* The tables hold what has been placed.
TablesKept ==
  \A i \in Ids :
    emitted[i].outcome = "none" /\ phase # "done" =>
      Holds(slots[i], series[i], i, InPlace) /\ scopes[i] = ScopesOf(Scoped, i)

\* The transaction also has the fragments it has folded in.
TransactionKept ==
  Open =>
    /\ DOMAIN txn.slots = Ids /\ DOMAIN txn.series = Ids /\ DOMAIN txn.scopes = Ids
    /\ \A i \in Ids :
         /\ Holds(txn.slots[i], txn.series[i], i, InPlace \cup Pending)
         /\ txn.scopes[i] = ScopesOf(Scoped \cup Pending, i)

\* The edges that are written, and those that some task is about to write.
Covered == edges \cup UNION {unsent[f] : f \in {g \in input : task[g] \in {"edges", "prepared"}}}
EdgesKept ==
  phase # "done" /\ ~edgesFailed =>
    /\ edges \subseteq EdgesOf(input) /\ seen \subseteq Covered
    /\ \A f \in input : task[f] \notin {"idle", "build"} => Content[f].edges \subseteq Covered
    /\ \A f \in input : task[f] = "build" => unsent[f] = Content[f].edges

\* The error of a mapping is kept until a discard of it has been recorded.
FailuresKept ==
  \A f \in input :
    task[f] \notin {"idle", "prepared"} /\ Unresolvable(Content[f].timestamp) =>
      Content[f].mapping \in failures \/ discarded[Content[f].mapping].entities # 0

\* What has been handed on of an id.
Handed(i) ==
  /\ emitted[i] = [outcome |-> emitted[i].outcome, units |-> emitted[i].units, slots |-> emitted[i].slots,
                   scope |-> emitted[i].scope, expires |-> emitted[i].expires, edges |-> emitted[i].edges]
  /\ emitted[i].outcome \in {"none", "units", "error"} /\ emitted[i].units \in Nat
  /\ emitted[i].outcome # "units" => emitted[i].slots = Empty
  /\ emitted[i].outcome = "units" =>
       /\ IF mode = "latest" THEN SlotsHold(emitted[i].slots, i, input) ELSE emitted[i].slots = Empty
       /\ emitted[i].scope = ScopesOf(input, i)
       /\ emitted[i].edges = {e \in EdgesOf(input) : e.parent = i}
       /\ broken \/ emitted[i].units = IF mode = "latest" THEN 1 ELSE Cardinality(In(input, i))
AllHanded == phase = "done" /\ ~broken =>
               \A i \in Ids : In(input, i) # {} => emitted[i].outcome # "none"

\* The failing records of a mapping that were handed on are discards or kept their slot.
HandedFailing(m) ==
  {f \in input : /\ Content[f].mapping = m /\ Unresolvable(Content[f].timestamp)
                 /\ emitted[Content[f].id].outcome = "units"}
KeptFailing(m) == {i \in Ids : Unresolvable(emitted[i].slots[m].timestamp)}
DiscardsCounted ==
  mode = "latest" =>
    \A m \in TemporalMappings :
      discarded[m].records + Cardinality(KeptFailing(m)) = Cardinality(HandedFailing(m))

IInv ==
  /\ Shapes /\ Staged /\ TablesKept /\ TransactionKept /\ EdgesKept /\ FailuresKept
  /\ (\A i \in Ids : Handed(i)) /\ AllHanded /\ ExpiryCoversMappings /\ DiscardsCounted

-----------------------------------------------------------------------------
\* Counting.

\* One more element.
LEMMA OneMore ==
  ASSUME NEW W, IsFiniteSet(W), NEW f, f \notin W
  PROVE  /\ IsFiniteSet(W \cup {f}) /\ Cardinality(W) \in Nat
         /\ Cardinality(W \cup {f}) = Cardinality(W) + 1
         /\ (Cardinality(W) = 0 <=> W = {})
BY FS_AddElement, FS_CardinalityType, FS_EmptySet

\* One more failing fragment, or none.
LEMMA OneMoreFailing ==
  ASSUME NEW W, IsFiniteSet(W), NEW f, f \notin W
  PROVE  /\ Cardinality(Failing(W)) \in Nat
         /\ Cardinality(Failing(W \cup {f})) =
              Cardinality(Failing(W)) + IF Unresolvable(Content[f].timestamp) THEN 1 ELSE 0
<1>1. IsFiniteSet(Failing(W)) /\ f \notin Failing(W)
  BY FS_Subset DEF Failing
<1>2. CASE Unresolvable(Content[f].timestamp)
  <2>1. Failing(W \cup {f}) = Failing(W) \cup {f}
    BY <1>2 DEF Failing
  <2> QED
    BY <1>1, <1>2, <2>1, OneMore
<1>3. CASE ~Unresolvable(Content[f].timestamp)
  <2>1. Failing(W \cup {f}) = Failing(W)
    BY <1>3 DEF Failing
  <2> QED
    BY <1>1, <1>3, <2>1, FS_CardinalityType
<1> QED
  BY <1>2, <1>3

\* A finite set of numbers has a greatest: no smallest subset is without one.
LEMMA MaxOfFinite ==
  ASSUME NEW E, E \subseteq Nat, E # {}, IsFiniteSet(E)
  PROVE  Max(E) \in E /\ \A e \in E : e <= Max(E)
<1> DEFINE Topped(T) == \E x \in T : \A y \in T : x >= y
           C == {T \in SUBSET E : T # {} /\ ~Topped(T)}
<1>1. ASSUME NEW T \in SUBSET E, T # {}, \A U \in SUBSET E : U \subseteq T /\ U # T /\ U # {} => Topped(U)
      PROVE  Topped(T)
  <2>1. PICK x \in T : TRUE
    BY <1>1
  <2> DEFINE U == T \ {x}
  <2>2. CASE U = {}
    BY <2>1, <2>2
  <2>3. CASE U # {}
    <3>1. U \in SUBSET E /\ U \subseteq T /\ U # T
      BY <2>1
    <3>2. PICK z \in U : \A y \in U : z >= y
      BY <1>1, <2>3, <3>1
    <3>3. CASE x >= z
      BY <2>1, <3>2, <3>3
    <3>4. CASE ~(x >= z)
      BY <2>1, <3>2, <3>4
    <3> QED
      BY <3>3, <3>4
  <2> QED
    BY <2>2, <2>3
<1>2. C = {}
  <2> SUFFICES ASSUME C # {}
               PROVE  FALSE
    OBVIOUS
  <2>1. IsWellFoundedOn(StrictSubsetOrdering(E), SUBSET E)
    BY FS_StrictSubsetOrderingWellFounded, FS_FiniteSubsetsOfFinite
  <2>2. PICK T \in C : \A U \in C : <<U, T>> \notin StrictSubsetOrdering(E)
    <3>1. C \subseteq SUBSET E
      OBVIOUS
    <3> HIDE DEF C
    <3> QED
      BY <2>1, <3>1, WFMin
  <2>3. \A U \in SUBSET E : U \subseteq T /\ U # T /\ U # {} => Topped(U)
    BY <2>2 DEF StrictSubsetOrdering
  <2> QED
    BY <1>1, <2>2, <2>3
<1>3. Topped(E)
  BY <1>2
<1> QED
  BY <1>3 DEF Max

\* The values of a function on a finite set.
LEMMA FiniteValues ==
  ASSUME NEW S, IsFiniteSet(S), NEW f, DOMAIN f = S, f = [x \in S |-> f[x]]
  PROVE  IsFiniteSet({f[x] : x \in S})
<1> DEFINE T == {f[x] : x \in S}
<1>1. f \in Surjection(S, T)
  BY DEF Surjection
<1> QED
  BY <1>1, FS_Surjection

-----------------------------------------------------------------------------
\* The order of paths (FieldPath).

\* Numbers have a least one: the form of induction that the proofs below use.
LEMMA LeastNumber ==
  ASSUME NEW T, T \subseteq Nat, T # {}
  PROVE  \E x \in T : \A y \in T : x <= y
<1> DEFINE R == OpToRel(<, Nat)
<1>1. PICK x \in T : \A y \in T : ~(<<y, x>> \in R)
  <2>1. IsWellFoundedOn(R, Nat)
    BY NatLessThanWellFounded
  <2> HIDE DEF R
  <2> QED
    BY <2>1, WFMin
<1>2. ASSUME NEW y \in T PROVE x <= y
  <2>1. ~(<<y, x>> \in {ss \in Nat \X Nat : ss[1] < ss[2]})
    BY <1>1, <1>2 DEF OpToRel
  <2>2. x \in Nat /\ y \in Nat /\ ~(y < x)
    BY <1>2, <2>1
  <2> QED
    BY <2>2
<1> QED
  BY <1>2

\* Two paths that agree wherever both have a key, and have as many, are one.
LEMMA SamePath ==
  ASSUME NEW p \in Seq(Nat), NEW q \in Seq(Nat), Len(p) = Len(q), \A j \in 1..Len(p) : p[j] = q[j]
  PROVE  p = q
OBVIOUS

\* A prefix agrees wherever it has a key.
LEMMA PrefixByKeys ==
  ASSUME NEW p \in Seq(Nat), NEW q \in Seq(Nat)
  PROVE  IsPrefix(p, q) <=> Len(p) <= Len(q) /\ \A j \in 1..Len(p) : p[j] = q[j]
<1>1. SubSeq(p, 1, Len(p)) = p
  OBVIOUS
<1>2. ASSUME Len(p) <= Len(q)
      PROVE  LET r == SubSeq(q, 1, Len(p)) IN
             r \in Seq(Nat) /\ Len(r) = Len(p) /\ \A j \in 1..Len(p) : r[j] = q[j]
  BY <1>2
<1>3. ASSUME IsPrefix(p, q), NEW j \in 1..Len(p) PROVE p[j] = q[j]
  BY <1>1, <1>2, <1>3 DEF IsPrefix
<1>4. ASSUME Len(p) <= Len(q), \A j \in 1..Len(p) : p[j] = q[j] PROVE IsPrefix(p, q)
  <2> DEFINE r == SubSeq(q, 1, Len(p))
  <2>1. r \in Seq(Nat) /\ Len(r) = Len(p) /\ \A j \in 1..Len(p) : r[j] = p[j]
    BY <1>2, <1>4
  <2> HIDE DEF r
  <2>2. r = p
    BY <2>1, SamePath
  <2> QED
    BY <1>1, <1>4, <2>2 DEF IsPrefix, r
<1> QED
  BY <1>3, <1>4 DEF IsPrefix

\* Both forms of the order.
LEMMA BeforeSomewhere ==
  ASSUME NEW p \in Seq(Nat), NEW q \in Seq(Nat)
  PROVE  Before(p, q) <=> \E i \in Nat : BeforeAt(p, q, i)
<1>1. ASSUME IsStrictPrefix(p, q) PROVE BeforeAt(p, q, Len(p) + 1)
  <2>1. Len(p) <= Len(q) /\ \A j \in 1..Len(p) : p[j] = q[j]
    BY <1>1, PrefixByKeys DEF IsStrictPrefix
  <2>2. Len(p) # Len(q)
    BY <1>1, <2>1, SamePath DEF IsStrictPrefix
  <2> QED
    BY <2>1, <2>2 DEF BeforeAt
<1>2. ASSUME NEW i \in 1..Len(p), i <= Len(q), p[i] < q[i], \A j \in 1..(i - 1) : p[j] = q[j]
      PROVE  BeforeAt(p, q, i)
  BY <1>2 DEF BeforeAt
<1>3. ASSUME NEW i \in Nat, BeforeAt(p, q, i), i = Len(p) + 1 PROVE IsStrictPrefix(p, q)
  BY <1>3, PrefixByKeys DEF IsStrictPrefix, BeforeAt
<1>4. ASSUME NEW i \in Nat, BeforeAt(p, q, i), i # Len(p) + 1 PROVE Before(p, q)
  BY <1>4 DEF Before, BeforeAt
<1>5. Len(p) + 1 \in Nat
  OBVIOUS
<1> QED
  BY <1>1, <1>2, <1>3, <1>4, <1>5 DEF Before

\* The order is transitive.
LEMMA BeforeChains ==
  ASSUME NEW p \in Seq(Nat), NEW q \in Seq(Nat), NEW r \in Seq(Nat), Before(p, q), Before(q, r)
  PROVE  Before(p, r)
<1>1. PICK i \in Nat : BeforeAt(p, q, i)
  BY BeforeSomewhere
<1>2. PICK j \in Nat : BeforeAt(q, r, j)
  BY BeforeSomewhere
<1>3. CASE i <= j
  <2>1. i \in 1..Len(q) /\ j \in 1..Len(r) /\ i \in 1..Len(r) /\ i <= Len(p) + 1
    BY <1>1, <1>2, <1>3 DEF BeforeAt
  <2>2. ASSUME NEW k \in 1..(i - 1) PROVE p[k] = r[k]
    <3>1. k \in 1..(j - 1)
      BY <1>3, <2>1
    <3> QED
      BY <1>1, <1>2, <3>1 DEF BeforeAt
  <2>3. ASSUME i <= Len(p) PROVE p[i] < r[i]
    <3>1. p[i] < q[i] /\ p[i] \in Nat /\ q[i] \in Nat /\ r[i] \in Nat
      <4>1. p[i] < q[i]
        BY <1>1, <2>3 DEF BeforeAt
      <4>2. i \in 1..Len(p)
        BY <2>1, <2>3
      <4>3. p[i] \in Nat
        BY <4>2
      <4>4. q[i] \in Nat /\ r[i] \in Nat
        BY <2>1
      <4> QED
        BY <4>1, <4>3, <4>4
    <3>2. CASE i = j
      BY <1>2, <2>1, <3>1, <3>2 DEF BeforeAt
    <3>3. CASE i < j
      <4>1. i \in 1..(j - 1)
        BY <2>1, <3>3
      <4> QED
        BY <1>2, <3>1, <4>1 DEF BeforeAt
    <3> QED
      BY <1>3, <3>2, <3>3
  <2>4. BeforeAt(p, r, i)
    BY <2>1, <2>2, <2>3 DEF BeforeAt
  <2> QED
    BY <2>4, BeforeSomewhere
<1>4. CASE j < i
  <2>1. j \in 1..(i - 1) /\ j \in 1..Len(r) /\ j <= Len(p) /\ j <= Len(q)
    BY <1>1, <1>2, <1>4 DEF BeforeAt
  <2>2. p[j] = q[j] /\ q[j] < r[j]
    BY <1>1, <1>2, <2>1 DEF BeforeAt
  <2>3. ASSUME NEW k \in 1..(j - 1) PROVE p[k] = r[k]
    <3>1. k \in 1..(i - 1)
      BY <1>4, <2>1
    <3> QED
      BY <1>1, <1>2, <3>1 DEF BeforeAt
  <2>4. BeforeAt(p, r, j)
    BY <2>1, <2>2, <2>3 DEF BeforeAt
  <2> QED
    BY <2>4, BeforeSomewhere
<1> QED
  BY <1>3, <1>4

\* No path is before one that is before it.
LEMMA BeforeOneWay ==
  ASSUME NEW p \in Seq(Nat), NEW q \in Seq(Nat), Before(p, q)
  PROVE  ~Before(q, p) /\ p # q
<1>1. ASSUME Before(p, p) PROVE FALSE
  <2>1. PICK i \in Nat : BeforeAt(p, p, i)
    BY <1>1, BeforeSomewhere
  <2> QED
    BY <2>1 DEF BeforeAt
<1> QED
  BY <1>1, BeforeChains

\* Of two paths one is before the other.
LEMMA BeforeEitherWay ==
  ASSUME NEW p \in Seq(Nat), NEW q \in Seq(Nat), p # q
  PROVE  Before(p, q) \/ Before(q, p)
<1> DEFINE D == {i \in Nat : i \in 1..Len(p) /\ i \in 1..Len(q) /\ p[i] # q[i]}
<1>1. CASE D # {}
  <2>1. PICK d \in D : \A i \in D : d <= i
    <3>1. D \subseteq Nat
      OBVIOUS
    <3> HIDE DEF D
    <3> QED
      BY <1>1, <3>1, LeastNumber
  <2>2. /\ d \in 1..Len(p) /\ d \in 1..Len(q) /\ p[d] # q[d] /\ p[d] \in Nat /\ q[d] \in Nat
        /\ \A j \in 1..(d - 1) : p[j] = q[j]
    <3>1. d \in 1..Len(p) /\ d \in 1..Len(q) /\ p[d] # q[d]
      OBVIOUS
    <3>2. ASSUME NEW j \in 1..(d - 1) PROVE p[j] = q[j]
      <4>1. j \in 1..Len(p) /\ j \in 1..Len(q) /\ j \in Nat /\ ~(d <= j)
        BY <3>1
      <4> QED
        BY <2>1, <4>1
    <3> QED
      BY <3>1, <3>2
  <2>3. BeforeAt(p, q, d) \/ BeforeAt(q, p, d)
    BY <2>2 DEF BeforeAt
  <2> QED
    BY <2>2, <2>3, BeforeSomewhere
<1>2. CASE D = {}
  <2>1. \A j \in Nat : j \in 1..Len(p) /\ j \in 1..Len(q) => p[j] = q[j]
    BY <1>2
  <2>2. Len(p) \in Nat /\ Len(q) \in Nat
    OBVIOUS
  <2>3. Len(p) # Len(q)
    BY <2>1, SamePath
  <2>4. CASE Len(p) < Len(q)
    <3>1. BeforeAt(p, q, Len(p) + 1)
      BY <2>1, <2>2, <2>4 DEF BeforeAt
    <3> QED
      BY <2>2, <3>1, BeforeSomewhere
  <2>5. CASE Len(q) < Len(p)
    <3>1. BeforeAt(q, p, Len(q) + 1)
      BY <2>1, <2>2, <2>5 DEF BeforeAt
    <3> QED
      BY <2>2, <3>1, BeforeSomewhere
  <2> QED
    BY <2>2, <2>3, <2>4, <2>5
<1> QED
  BY <1>1, <1>2

-----------------------------------------------------------------------------
\* The earliest of a set of paths.

\* A finite set of paths has an earliest: no smallest subset is without one.
LEMMA EarliestExists ==
  ASSUME NEW P, P \subseteq Paths, P # {}, IsFiniteSet(P)
  PROVE  \E p \in P : \A q \in P \ {p} : Before(p, q)
<1> DEFINE Led(T) == \E x \in T : \A y \in T \ {x} : Before(x, y)
           C == {T \in SUBSET P : T # {} /\ ~Led(T)}
<1>1. ASSUME NEW T \in SUBSET P, T # {}, \A U \in SUBSET P : U \subseteq T /\ U # T /\ U # {} => Led(U)
      PROVE  Led(T)
  <2>1. PICK x \in T : TRUE
    BY <1>1
  <2> DEFINE U == T \ {x}
  <2>2. CASE U = {}
    BY <2>1, <2>2
  <2>3. CASE U # {}
    <3>1. U \in SUBSET P /\ U \subseteq T /\ U # T
      BY <2>1
    <3>2. PICK z \in U : \A y \in U \ {z} : Before(z, y)
      BY <1>1, <2>3, <3>1
    <3>3. T \subseteq Seq(Nat) /\ x # z
      BY <3>2 DEF Paths
    <3>4. CASE Before(z, x)
      BY <2>1, <3>2, <3>4
    <3>5. CASE Before(x, z)
      <4>1. \A y \in U : Before(x, y)
        BY <2>1, <3>2, <3>3, <3>5, BeforeChains
      <4> QED
        BY <2>1, <4>1
    <3> QED
      BY <2>1, <3>2, <3>3, <3>4, <3>5, BeforeEitherWay
  <2> QED
    BY <2>2, <2>3
<1>2. C = {}
  <2> SUFFICES ASSUME C # {}
               PROVE  FALSE
    OBVIOUS
  <2>1. IsWellFoundedOn(StrictSubsetOrdering(P), SUBSET P)
    BY FS_StrictSubsetOrderingWellFounded, FS_FiniteSubsetsOfFinite
  <2>2. PICK T \in C : \A U \in C : <<U, T>> \notin StrictSubsetOrdering(P)
    <3>1. C \subseteq SUBSET P
      OBVIOUS
    <3> HIDE DEF C
    <3> QED
      BY <2>1, <3>1, WFMin
  <2>3. \A U \in SUBSET P : U \subseteq T /\ U # T /\ U # {} => Led(U)
    BY <2>2 DEF StrictSubsetOrdering
  <2> QED
    BY <1>1, <2>2, <2>3
<1> QED
  BY <1>2

\* EarliestOf is the one earliest path.
LEMMA EarliestOfFinite ==
  ASSUME NEW P, P \subseteq Paths, IsFiniteSet(P)
  PROVE  IsEarliest(EarliestOf(P), P)
<1>1. CASE P = {}
  BY <1>1 DEF EarliestOf, IsEarliest
<1>2. CASE P # {}
  BY <1>2, EarliestExists DEF EarliestOf, IsEarliest
<1> QED
  BY <1>1, <1>2

\* No other path is the earliest.
LEMMA EarliestIsOne ==
  ASSUME NEW P, P \subseteq Paths, NEW e, IsEarliest(e, P)
  PROVE  EarliestOf(P) = e
<1>1. CASE P = {}
  BY <1>1 DEF EarliestOf, IsEarliest
<1>2. CASE P # {}
  <2>1. \A p \in P : (\A q \in P \ {p} : Before(p, q)) => p = e
    BY <1>2, BeforeOneWay DEF IsEarliest, Paths
  <2>2. e = CHOOSE p \in P : \A q \in P \ {p} : Before(p, q)
    BY <1>2, <2>1 DEF IsEarliest
  <2> QED
    BY <1>2, <2>2 DEF EarliestOf
<1> QED
  BY <1>1, <1>2

\* The earlier of two is the earliest of both sets.
LEMMA EarliestOfBoth ==
  ASSUME NEW P, P \subseteq Paths, NEW Q, Q \subseteq Paths, NEW p, NEW q,
         IsEarliest(p, P), IsEarliest(q, Q)
  PROVE  IsEarliest(Earliest(p, q), P \cup Q)
<1>1. (P = {} <=> p = NoPath) /\ (Q = {} <=> q = NoPath)
  BY DEF IsEarliest, Paths
<1>2. CASE P = {} \/ Q = {}
  BY <1>1, <1>2 DEF IsEarliest, Earliest
<1>3. CASE P # {} /\ Q # {}
  <2>1. p \in P /\ q \in Q /\ p \in Seq(Nat) /\ q \in Seq(Nat) /\ p # NoPath /\ q # NoPath
    BY <1>1, <1>3 DEF IsEarliest, Paths
  <2>2. CASE Before(q, p)
    <3>1. Earliest(p, q) = q
      BY <2>1, <2>2 DEF Earliest
    <3>2. ASSUME NEW r \in P PROVE Before(q, r)
      BY <1>3, <2>1, <2>2, BeforeChains DEF IsEarliest, Paths
    <3> QED
      BY <1>3, <2>1, <3>1, <3>2 DEF IsEarliest
  <2>3. CASE ~Before(q, p)
    <3>1. Earliest(p, q) = p /\ (p = q \/ Before(p, q))
      BY <2>1, <2>3, BeforeEitherWay DEF Earliest
    <3>2. ASSUME NEW r \in Q, r # p PROVE Before(p, r)
      BY <1>3, <2>1, <3>1, <3>2, BeforeChains DEF IsEarliest, Paths
    <3> QED
      BY <1>3, <2>1, <3>1, <3>2 DEF IsEarliest
  <2> QED
    BY <2>2, <2>3
<1> QED
  BY <1>2, <1>3

\* Paths that are there already or later than one that is change nothing.
LEMMA EarliestOfMore ==
  ASSUME NEW P, NEW Q, Q \subseteq Paths, P \subseteq Q, NEW e, IsEarliest(e, P),
         \A q \in Q : \E p \in P : p = q \/ Before(p, q)
  PROVE  IsEarliest(e, Q)
<1>1. CASE Q = {}
  BY <1>1 DEF IsEarliest
<1>2. CASE Q # {}
  <2>1. P # {} /\ e \in P /\ \A p \in P \ {e} : Before(e, p)
    BY <1>2 DEF IsEarliest
  <2>2. ASSUME NEW q \in Q, q # e PROVE Before(e, q)
    <3>1. PICK p \in P : p = q \/ Before(p, q)
      OBVIOUS
    <3> QED
      BY <2>1, <2>2, <3>1, BeforeChains DEF Paths
  <2> QED
    BY <1>2, <2>1, <2>2 DEF IsEarliest
<1> QED
  BY <1>1, <1>2

-----------------------------------------------------------------------------
\* Merging records (deep_merge).

\* What a conflict is.
LEMMA ConflictIn ==
  ASSUME NEW K, NEW O, NEW reads, NEW c
  PROVE  c \in Conflicts(K, O, reads) <=>
           \E k \in K, o \in O : Differ(k, o) /\ k.path[1] \in reads /\ c = ShorterPath(k, o)
<1>1. ASSUME NEW k \in K, NEW o \in O, Differ(k, o), k.path[1] \in reads, c = ShorterPath(k, o)
      PROVE  c \in Conflicts(K, O, reads)
  <2>1. <<k, o>> \in {p \in K \X O : Differ(p[1], p[2]) /\ p[1].path[1] \in reads}
    BY <1>1
  <2> QED
    BY <1>1, <2>1 DEF Conflicts
<1>2. ASSUME c \in Conflicts(K, O, reads)
      PROVE  \E k \in K, o \in O : Differ(k, o) /\ k.path[1] \in reads /\ c = ShorterPath(k, o)
  BY <1>2 DEF Conflicts
<1> QED
  BY <1>1, <1>2

\* What a dispute is.
LEMMA DisputeIn ==
  ASSUME NEW R, NEW reads, NEW c
  PROVE  c \in Disputes(R, reads) <=> \E a \in R, b \in R : c \in Conflicts(a, b, reads)
<1>1. ASSUME NEW a \in R, NEW b \in R, c \in Conflicts(a, b, reads) PROVE c \in Disputes(R, reads)
  <2>1. <<a, b>> \in R \X R
    OBVIOUS
  <2> QED
    BY <1>1, <2>1 DEF Disputes
<1>2. ASSUME c \in Disputes(R, reads) PROVE \E a \in R, b \in R : c \in Conflicts(a, b, reads)
  BY <1>2 DEF Disputes
<1> QED
  BY <1>1, <1>2

\* Leaves meet both ways, in the shorter of their paths, under one key.
LEMMA MeetBothWays ==
  ASSUME NEW a, NEW b, a.path \in Paths, b.path \in Paths, Meet(a, b)
  PROVE  /\ Meet(b, a) /\ ShorterPath(a, b) = ShorterPath(b, a) /\ ShorterPath(a, b) \in Paths
         /\ a.path[1] = b.path[1]
         /\ \A j \in 1..Len(ShorterPath(a, b)) :
              ShorterPath(a, b)[j] = a.path[j] /\ ShorterPath(a, b)[j] = b.path[j]
<1>1. /\ a.path \in Seq(Nat) /\ b.path \in Seq(Nat) /\ a.path # <<>> /\ b.path # <<>>
      /\ Len(a.path) \in Nat \ {0} /\ Len(b.path) \in Nat \ {0}
  BY DEF Paths, NoPath
<1>2. \/ Len(a.path) <= Len(b.path) /\ \A j \in 1..Len(a.path) : a.path[j] = b.path[j]
      \/ Len(b.path) <= Len(a.path) /\ \A j \in 1..Len(b.path) : b.path[j] = a.path[j]
  BY <1>1, PrefixByKeys DEF Meet
<1>3. Len(a.path) = Len(b.path) => a.path = b.path
  BY <1>1, <1>2, SamePath
<1> QED
  BY <1>1, <1>2, <1>3 DEF Meet, ShorterPath, Paths

\* Finitely many leaves have finitely many conflicts.
LEMMA ConflictsFinite ==
  ASSUME NEW K, IsFiniteSet(K), NEW O, IsFiniteSet(O), NEW reads
  PROVE  IsFiniteSet(Conflicts(K, O, reads))
<1> DEFINE S == {p \in K \X O : Differ(p[1], p[2]) /\ p[1].path[1] \in reads}
           f == [p \in S |-> ShorterPath(p[1], p[2])]
<1>1. IsFiniteSet(S)
  <2>1. IsFiniteSet(K \X O) /\ S \in SUBSET (K \X O)
    BY FS_Product
  <2> QED
    BY <2>1, FS_Subset
<1>2. Conflicts(K, O, reads) = {f[p] : p \in S}
  BY DEF Conflicts
<1> HIDE DEF S
<1>3. DOMAIN f = S /\ f = [p \in S |-> f[p]]
  OBVIOUS
<1> HIDE DEF f
<1> QED
  BY <1>1, <1>2, <1>3, FiniteValues

\* Leaves of records conflict at paths.
LEMMA ConflictsArePaths ==
  ASSUME NEW K, \A k \in K : k.path \in Paths, NEW O, \A o \in O : o.path \in Paths, NEW reads
  PROVE  Conflicts(K, O, reads) \subseteq Paths
<1> SUFFICES ASSUME NEW c \in Conflicts(K, O, reads) PROVE c \in Paths
  OBVIOUS
<1>1. PICK k \in K, o \in O : Differ(k, o) /\ k.path[1] \in reads /\ c = ShorterPath(k, o)
  BY ConflictIn
<1> QED
  BY <1>1, MeetBothWays DEF Differ

\* The order of two records does not matter.
LEMMA ConflictsBothWays ==
  ASSUME NEW K, \A k \in K : k.path \in Paths, NEW O, \A o \in O : o.path \in Paths, NEW reads
  PROVE  Conflicts(K, O, reads) \subseteq Conflicts(O, K, reads)
<1> SUFFICES ASSUME NEW c \in Conflicts(K, O, reads) PROVE c \in Conflicts(O, K, reads)
  OBVIOUS
<1>1. PICK k \in K, o \in O : Differ(k, o) /\ k.path[1] \in reads /\ c = ShorterPath(k, o)
  BY ConflictIn
<1>2. Differ(o, k) /\ c = ShorterPath(o, k) /\ o.path[1] \in reads
  BY <1>1, MeetBothWays DEF Differ, BothObjects
<1> QED
  BY <1>1, <1>2, ConflictIn

\* A record does not disagree with itself.
LEMMA NoConflictWithItself ==
  ASSUME NEW d, IsRecord(d), NEW reads
  PROVE  Conflicts(d, d, reads) = {}
BY ConflictIn DEF IsRecord, Differ

\* A leaf that was dropped leaves one in its place that tells of the same
\* conflict, or of one that comes first.
LEMMA DroppedLeafTells ==
  ASSUME NEW D, NEW R, NEW reads, \A r \in R : IsRecord(r),
         \A k \in D : \E r \in R : k \in r,
         \A r \in R : \A leaf \in r : leaf \in D \/ \E k \in D : Differ(k, leaf),
         NEW d, IsRecord(d), NEW r \in R, NEW c \in Conflicts(r, d, reads)
  PROVE  \E e \in Disputes(R, reads) \cup Conflicts(D, d, reads) : e = c \/ Before(e, c)
<1>1. PICK a \in r, b \in d : Differ(a, b) /\ a.path[1] \in reads /\ c = ShorterPath(a, b)
  BY ConflictIn
<1>2. CASE a \in D
  <2>1. c \in Conflicts(D, d, reads)
    BY <1>1, <1>2, ConflictIn
  <2> QED
    BY <2>1
<1>3. CASE a \notin D
  <2>1. PICK k \in D : Differ(k, a)
    BY <1>1, <1>3
  <2>2. PICK g \in R : k \in g
    BY <2>1
  <2>3. /\ a.path \in Paths /\ b.path \in Paths /\ k.path \in Paths /\ k # a
    BY <1>1, <1>3, <2>1, <2>2 DEF IsRecord
  <2> DEFINE e == ShorterPath(k, a)
  <2>4. /\ k.path[1] = a.path[1] /\ e \in Paths /\ (e = k.path \/ e = a.path)
        /\ \A j \in 1..Len(e) : e[j] = k.path[j] /\ e[j] = a.path[j]
    BY <2>1, <2>3, MeetBothWays DEF Differ, ShorterPath
  <2>5. /\ a.path[1] = b.path[1] /\ c \in Paths /\ (c = a.path \/ c = b.path)
        /\ \A j \in 1..Len(c) : c[j] = a.path[j] /\ c[j] = b.path[j]
    BY <1>1, <2>3, MeetBothWays DEF Differ, ShorterPath
  <2>6. e \in Disputes(R, reads)
    <3>1. e \in Conflicts(g, r, reads)
      BY <1>1, <2>1, <2>2, <2>3, <2>4, ConflictIn
    <3> QED
      BY <2>2, <3>1, DisputeIn
  <2>7. /\ e \in Seq(Nat) /\ c \in Seq(Nat) /\ k.path \in Seq(Nat) /\ a.path \in Seq(Nat)
        /\ Len(e) <= Len(a.path) /\ Len(c) <= Len(a.path) /\ Len(e) <= Len(k.path)
    BY <1>1, <2>3, <2>4, <2>5 DEF Paths, ShorterPath
  <2> HIDE DEF e
  <2>8. CASE Len(e) <= Len(c)
    <3>1. \A j \in 1..Len(e) : e[j] = c[j]
      BY <2>4, <2>5, <2>7, <2>8
    <3>2. IsPrefix(e, c)
      BY <2>7, <2>8, <3>1, PrefixByKeys
    <3> QED
      BY <2>6, <3>2 DEF Before, IsStrictPrefix
  <2>9. CASE Len(c) < Len(e)
    <3>1. c = b.path /\ Len(b.path) < Len(k.path) /\ Len(b.path) < Len(a.path)
      BY <2>5, <2>7, <2>9
    <3>2. b.path \in Seq(Nat) /\ Len(b.path) \in Nat /\ Len(e) \in Nat /\ Len(k.path) \in Nat
      BY <2>3, <2>7 DEF Paths
    <3>3. ASSUME NEW j \in 1..Len(b.path) PROVE b.path[j] = k.path[j]
      <4>1. j \in 1..Len(c) /\ j \in 1..Len(e)
        BY <2>9, <3>1, <3>2
      <4> QED
        BY <2>4, <2>5, <3>1, <4>1
    <3>4. IsPrefix(b.path, k.path)
      <4> DEFINE p == b.path
                 q == k.path
      <4>1. p \in Seq(Nat) /\ q \in Seq(Nat) /\ Len(p) <= Len(q)
        BY <2>7, <3>1, <3>2
      <4>2. \A j \in 1..Len(p) : p[j] = q[j]
        BY <3>3
      <4> HIDE DEF p, q
      <4>3. IsPrefix(p, q)
        BY <4>1, <4>2, PrefixByKeys
      <4> QED
        BY <4>3 DEF p, q
    <3>5. Differ(k, b) /\ c = ShorterPath(k, b)
      <4>1. b.value # EmptyObject
        BY <1>1, <3>1 DEF Differ, BothObjects
      <4> QED
        BY <3>1, <3>2, <3>4, <4>1 DEF Differ, BothObjects, Meet, ShorterPath
    <3>6. c \in Conflicts(D, d, reads)
      BY <1>1, <2>1, <2>4, <2>5, <3>5, ConflictIn
    <3> QED
      BY <3>6
  <2> QED
    BY <2>7, <2>8, <2>9
<1> QED
  BY <1>2, <1>3

\* One record disputes nothing.
LEMMA MergesFirst ==
  ASSUME NEW d, IsRecord(d), NEW reads
  PROVE  Merges(d, NoPath, {d}, reads)
<1>1. Disputes({d}, reads) = {}
  BY DisputeIn, NoConflictWithItself
<1> QED
  BY <1>1 DEF Merges, IsRecord, IsEarliest

\* One record more: what is kept stands for it too, and the conflict is still the
\* earliest between any two.
LEMMA MergesNext ==
  ASSUME NEW D, NEW c, NEW R, \A r \in R : IsRecord(r), NEW reads, Merges(D, c, R, reads),
         NEW d, IsRecord(d)
  PROVE  Merges(DeepMerge(D, d), Earliest(c, FieldConflict(D, d, reads)), R \cup {d}, reads)
<1> DEFINE M == DeepMerge(D, d)
           old == Disputes(R, reads)
           new == Conflicts(D, d, reads)
           all == Disputes(R \cup {d}, reads)
<1>1. /\ IsFiniteSet(D) /\ IsEarliest(c, old)
      /\ \A k \in D : \E r \in R : k \in r
      /\ \A r \in R : \A leaf \in r : leaf \in D \/ \E k \in D : Differ(k, leaf)
  BY DEF Merges
<1>2. (\A k \in D : k.path \in Paths) /\ (\A o \in d : o.path \in Paths) /\ IsFiniteSet(d)
  BY <1>1 DEF IsRecord
<1>3. IsFiniteSet(M)
  <2>1. {o \in d : \A k \in D : ~Differ(k, o)} \in SUBSET d
    OBVIOUS
  <2> QED
    BY <1>1, <1>2, <2>1, FS_Subset, FS_Union DEF DeepMerge
<1>4. \A k \in M : \E r \in R \cup {d} : k \in r
  BY <1>1 DEF DeepMerge
<1>5. \A r \in R \cup {d} : \A leaf \in r : leaf \in M \/ \E k \in M : Differ(k, leaf)
  BY <1>1 DEF DeepMerge
<1>6. all \subseteq Paths /\ old \subseteq all
  <2>1. ASSUME NEW e \in all PROVE e \in Paths
    <3>1. PICK a \in R \cup {d}, b \in R \cup {d} : e \in Conflicts(a, b, reads)
      BY DisputeIn
    <3>2. (\A k \in a : k.path \in Paths) /\ (\A o \in b : o.path \in Paths)
      BY DEF IsRecord
    <3> QED
      BY <3>1, <3>2, ConflictsArePaths
  <2>2. ASSUME NEW e \in old PROVE e \in all
    BY DisputeIn
  <2> QED
    BY <2>1, <2>2
<1>7. new \subseteq all
  <2> SUFFICES ASSUME NEW e \in new PROVE e \in all
    OBVIOUS
  <2>1. PICK k \in D, o \in d : Differ(k, o) /\ k.path[1] \in reads /\ e = ShorterPath(k, o)
    BY ConflictIn
  <2>2. PICK r \in R : k \in r
    BY <1>1
  <2>3. e \in Conflicts(r, d, reads)
    BY <2>1, <2>2, ConflictIn
  <2> QED
    BY <2>2, <2>3, DisputeIn
<1>8. IsEarliest(Earliest(c, FieldConflict(D, d, reads)), old \cup new)
  <2>1. new \subseteq Paths /\ IsFiniteSet(new) /\ old \subseteq Paths
    BY <1>1, <1>2, <1>6, <1>7, ConflictsFinite
  <2>2. IsEarliest(FieldConflict(D, d, reads), new)
    BY <2>1, EarliestOfFinite DEF FieldConflict
  <2> HIDE DEF old, new
  <2> QED
    BY <1>1, <2>1, <2>2, EarliestOfBoth
<1>9. ASSUME NEW e \in all PROVE \E p \in old \cup new : p = e \/ Before(p, e)
  <2>1. PICK a \in R \cup {d}, b \in R \cup {d} : e \in Conflicts(a, b, reads)
    BY DisputeIn
  <2>2. CASE a \in R /\ b \in R
    BY <2>1, <2>2, DisputeIn
  <2>3. CASE a \in R /\ b = d
    BY <1>1, <2>1, <2>3, DroppedLeafTells
  <2>4. CASE a = d /\ b \in R
    <3>1. (\A k \in a : k.path \in Paths) /\ (\A o \in b : o.path \in Paths)
      BY DEF IsRecord
    <3>2. e \in Conflicts(b, d, reads)
      BY <2>1, <2>4, <3>1, ConflictsBothWays
    <3> QED
      BY <1>1, <2>4, <3>2, DroppedLeafTells
  <2>5. CASE a = d /\ b = d
    BY <2>1, <2>5, NoConflictWithItself
  <2> QED
    BY <2>2, <2>3, <2>4, <2>5
<1>10. IsEarliest(Earliest(c, FieldConflict(D, d, reads)), all)
  <2>1. old \cup new \subseteq all
    BY <1>6, <1>7
  <2> HIDE DEF old, new, all
  <2> QED
    BY <1>6, <1>8, <1>9, <2>1, EarliestOfMore
<1> HIDE DEF M
<1> QED
  BY <1>3, <1>4, <1>5, <1>10 DEF Merges, M

-----------------------------------------------------------------------------
\* Writing one record.

\* What is known of a fragment.
LEMMA FragmentTyped ==
  ASSUME NEW f \in Fragments
  PROVE  /\ Content[f].id \in Ids /\ Content[f].mapping \in Mappings
         /\ Content[f].expires \in Nat /\ RankingText(Content[f].timestamp) \in Nat
         /\ IsRecord(Content[f].data)
<1>1. /\ Content[f].timestamp.kind \in {"Absent", "Unresolvable", "Declared"}
      /\ Content[f].timestamp.kind = "Declared" => Content[f].timestamp.text \in Nat
  BY StoreAssumption
<1>2. RankingText(Content[f].timestamp) \in Nat
  BY <1>1 DEF RankingText
<1>3. IsRecord(Content[f].data)
  BY StoreAssumption DEF IsRecord, Paths
<1> QED
  BY <1>2, <1>3, StoreAssumption

\* An unresolvable timestamp is no declared one.
LEMMA VacantTyped == IsSlot(Vacant) /\ ~Unresolvable(Vacant.timestamp) /\ Vacant.records = 0 /\ Vacant.discards = 0
BY DEF IsSlot, Vacant, RankingText, Unresolvable

LEMMA FirstRecordFields ==
  ASSUME NEW f \in Fragments
  PROVE  LET s == FirstRecord(f) IN
         /\ IsSlot(s) /\ Whole(s, f) /\ s.records = 1 /\ s.discards = 0 /\ s.conflict = NoPath
BY FragmentTyped DEF FirstRecord, IsSlot, Whole

\* Observe, field by field.
LEMMA ObserveFields ==
  ASSUME NEW s, IsSlot(s), NEW f \in Fragments
  PROVE  LET t == Observe(s, f)
             bad(timestamp) == IF Unresolvable(timestamp) THEN 1 ELSE 0
         IN /\ IsSlot(t) /\ t.records = s.records + 1
            /\ Supersedes(s.timestamp, Content[f].timestamp)
                 => Whole(t, f) /\ t.discards = s.discards + bad(s.timestamp)
            /\ ~Supersedes(s.timestamp, Content[f].timestamp)
                 => /\ t.data = s.data /\ t.timestamp = s.timestamp /\ t.expires = s.expires
                    /\ t.discards = s.discards + bad(Content[f].timestamp)
<1> DEFINE d == s.data
           ts == s.timestamp
           n == s.discards
           r == s.records
           c == s.conflict
           e == s.expires
           F == Content[f]
<1>1. s = [data |-> d, timestamp |-> ts, discards |-> n, records |-> r, conflict |-> c, expires |-> e]
  BY DEF IsSlot
<1>2. n \in Nat /\ r \in Nat /\ e \in Nat /\ RankingText(ts) \in Nat
  BY DEF IsSlot
<1>3. F.expires \in Nat /\ RankingText(F.timestamp) \in Nat
  BY FragmentTyped
<1>4. CASE Supersedes(ts, F.timestamp)
  <2> DEFINE k == n + IF Unresolvable(ts) THEN 1 ELSE 0
  <2>1. Observe(s, f) = [data |-> F.data, timestamp |-> F.timestamp, discards |-> k,
                         records |-> r + 1, conflict |-> c, expires |-> F.expires]
    BY <1>1, <1>4 DEF Observe
  <2>2. k \in Nat /\ r + 1 \in Nat
    BY <1>2
  <2> HIDE DEF k, d, ts, n, r, c, e, F
  <2> QED
    BY <1>2, <1>3, <1>4, <2>1, <2>2 DEF IsSlot, Whole, ts, k, n, r, F
<1>5. CASE ~Supersedes(ts, F.timestamp)
  <2> DEFINE k == n + IF Unresolvable(F.timestamp) THEN 1 ELSE 0
  <2>1. Observe(s, f) = [data |-> d, timestamp |-> ts, discards |-> k,
                         records |-> r + 1, conflict |-> c, expires |-> e]
    BY <1>1, <1>5 DEF Observe
  <2>2. k \in Nat /\ r + 1 \in Nat
    BY <1>2
  <2> HIDE DEF k, d, ts, n, r, c, e, F
  <2> QED
    BY <1>2, <1>3, <1>5, <2>1, <2>2 DEF IsSlot, ts, k, n, r, F, d, e
<1> QED
  BY <1>4, <1>5

\* Refine, field by field.
LEMMA RefineFields ==
  ASSUME NEW s, IsSlot(s), NEW f \in Fragments
  PROVE  LET t == Refine(s, f) IN
         /\ IsSlot(t) /\ t.records = s.records + 1 /\ t.discards = s.discards
         /\ t.data = DeepMerge(s.data, Content[f].data)
         /\ t.conflict = Earliest(s.conflict, FieldConflict(s.data, Content[f].data,
                                                           Reads[Content[f].mapping]))
<1> DEFINE d == s.data
           ts == s.timestamp
           n == s.discards
           r == s.records
           c == s.conflict
           e == s.expires
           merged_ == DeepMerge(d, Content[f].data)
           conflict == Earliest(c, FieldConflict(d, Content[f].data, Reads[Content[f].mapping]))
           expires == IF Content[f].expires = 0 THEN e ELSE Content[f].expires
<1>1. s = [data |-> d, timestamp |-> ts, discards |-> n, records |-> r, conflict |-> c, expires |-> e]
  BY DEF IsSlot
<1>2. n \in Nat /\ r \in Nat /\ e \in Nat /\ RankingText(ts) \in Nat
  BY DEF IsSlot
<1>3. expires \in Nat
  BY <1>2, FragmentTyped
<1>4. Refine(s, f) = [data |-> merged_, timestamp |-> ts, discards |-> n, records |-> r + 1,
                      conflict |-> conflict, expires |-> expires]
  <2>1. Refine(s, f) = [s EXCEPT !.records = r + 1, !.data = merged_, !.conflict = conflict,
                                 !.expires = expires]
    BY DEF Refine
  <2> HIDE DEF d, ts, n, r, c, e, merged_, conflict, expires
  <2> QED
    BY <1>1, <2>1
<1> HIDE DEF d, ts, n, r, c, e, merged_, conflict, expires
<1> QED
  BY <1>2, <1>3, <1>4 DEF IsSlot, n, r, merged_, d, c, conflict

\* The first record.
LEMMA FirstStandsFor ==
  ASSUME NEW f \in Fragments
  PROVE  StandsFor(FirstRecord(f), {f}, Content[f].mapping)
<1> DEFINE s == FirstRecord(f)
<1>1. IsSlot(s) /\ Whole(s, f) /\ s.records = 1 /\ s.discards = 0 /\ s.conflict = NoPath
  BY FirstRecordFields
<1> HIDE DEF s
<1>2. Cardinality({f}) = 1 /\ Cardinality({}) = 0
  BY FS_Singleton, FS_EmptySet
<1>3. LatestOf(s, {f})
  BY <1>1, FragmentTyped DEF LatestOf, Whole
<1>4. DiscardsOf(s, {f})
  <2>1. Failing({f}) = IF Unresolvable(Content[f].timestamp) THEN {f} ELSE {}
    BY DEF Failing
  <2> QED
    BY <1>1, <1>2, <2>1 DEF DiscardsOf, Whole
<1>5. MergedFrom(s, {f}, Content[f].mapping)
  <2>1. RecordsIn({f}) = {Content[f].data}
    BY DEF RecordsIn
  <2>2. Merges(Content[f].data, NoPath, {Content[f].data}, Reads[Content[f].mapping])
    BY FragmentTyped, MergesFirst
  <2> QED
    BY <1>1, <2>1, <2>2 DEF MergedFrom, Whole
<1> QED
  BY <1>1, <1>2, <1>3, <1>4, <1>5 DEF StandsFor, s

\* An observation of a mapping that has records.
LEMMA ObserveStandsFor ==
  ASSUME NEW f \in Fragments, NEW W \in SUBSET Fragments, IsFiniteSet(W), f \notin W, W # {},
         NEW s, NEW m \in TemporalMappings, StandsFor(s, W, m)
  PROVE  StandsFor(Observe(s, f), W \cup {f}, m)
<1> DEFINE t == Observe(s, f)
           bad(timestamp) == IF Unresolvable(timestamp) THEN 1 ELSE 0
           wins == Supersedes(s.timestamp, Content[f].timestamp)
<1>1. IsSlot(s) /\ s.records = Cardinality(W) /\ LatestOf(s, W) /\ DiscardsOf(s, W)
  BY DEF StandsFor
<1>2. /\ IsSlot(t) /\ t.records = s.records + 1
      /\ wins => Whole(t, f) /\ t.discards = s.discards + bad(s.timestamp)
      /\ ~wins => /\ t.data = s.data /\ t.timestamp = s.timestamp /\ t.expires = s.expires
                  /\ t.discards = s.discards + bad(Content[f].timestamp)
  BY <1>1, ObserveFields
<1> HIDE DEF t
<1>3. /\ Cardinality(W) \in Nat /\ Cardinality(W \cup {f}) = Cardinality(W) + 1
      /\ Cardinality(Failing(W)) \in Nat
      /\ Cardinality(Failing(W \cup {f})) = Cardinality(Failing(W)) + bad(Content[f].timestamp)
  BY OneMore, OneMoreFailing
<1>4. /\ RankingText(s.timestamp) \in Nat /\ RankingText(Content[f].timestamp) \in Nat
      /\ \A g \in W : RankingText(Content[g].timestamp) \in Nat
      /\ s.discards \in Nat /\ s.records \in Nat
  BY <1>1, FragmentTyped DEF IsSlot
<1>5. LatestOf(t, W \cup {f}) /\ DiscardsOf(t, W \cup {f})
  <2>1. CASE wins
    <3>1. LatestOf(t, W \cup {f})
      BY <1>1, <1>2, <1>4, <2>1 DEF LatestOf, Whole, Supersedes
    <3>2. DiscardsOf(t, W \cup {f})
      BY <1>1, <1>2, <1>3, <1>4, <2>1 DEF DiscardsOf, Whole
    <3> QED
      BY <3>1, <3>2
  <2>2. CASE ~wins
    <3>1. LatestOf(t, W \cup {f})
      BY <1>1, <1>2, <1>4, <2>2 DEF LatestOf, Whole, Supersedes
    <3>2. DiscardsOf(t, W \cup {f})
      BY <1>1, <1>2, <1>3, <1>4, <2>2 DEF DiscardsOf
    <3> QED
      BY <3>1, <3>2
  <2> QED
    BY <2>1, <2>2
<1>6. t.records = Cardinality(W \cup {f}) /\ t.records # 0
  BY <1>1, <1>2, <1>3, <1>4
<1> QED
  BY <1>2, <1>5, <1>6 DEF StandsFor, t

\* A static record of a mapping that has records.
LEMMA RefineStandsFor ==
  ASSUME NEW f \in Fragments, NEW W \in SUBSET Fragments, IsFiniteSet(W), f \notin W,
         W # {}, NEW s, NEW m, m = Content[f].mapping, m \notin TemporalMappings, StandsFor(s, W, m)
  PROVE  StandsFor(Refine(s, f), W \cup {f}, m)
<1> DEFINE t == Refine(s, f)
           d == Content[f].data
<1>1. IsSlot(s) /\ s.records = Cardinality(W) /\ MergedFrom(s, W, m) /\ s.discards = 0
  BY DEF StandsFor
<1>2. /\ IsSlot(t) /\ t.records = s.records + 1 /\ t.discards = s.discards
      /\ t.data = DeepMerge(s.data, d)
      /\ t.conflict = Earliest(s.conflict, FieldConflict(s.data, d, Reads[m]))
  BY <1>1, RefineFields
<1> HIDE DEF t
<1>3. MergedFrom(t, W \cup {f}, m)
  <2>1. Merges(s.data, s.conflict, RecordsIn(W), Reads[m])
    BY <1>1 DEF MergedFrom
  <2>2. (\A r \in RecordsIn(W) : IsRecord(r)) /\ IsRecord(d)
    BY FragmentTyped DEF RecordsIn
  <2>3. RecordsIn(W \cup {f}) = RecordsIn(W) \cup {d}
    BY DEF RecordsIn
  <2> HIDE DEF d
  <2>4. Merges(t.data, t.conflict, RecordsIn(W) \cup {d}, Reads[m])
    BY <1>2, <2>1, <2>2, MergesNext
  <2> QED
    BY <2>3, <2>4 DEF MergedFrom
<1>4. Cardinality(W) \in Nat /\ Cardinality(W \cup {f}) = Cardinality(W) + 1
  BY OneMore
<1> QED
  BY <1>1, <1>2, <1>3, <1>4 DEF StandsFor, t

\* Whichever path a fragment takes into its slot, the slot stands for one fragment more.
LEMMA ApplyWriteStandsFor ==
  ASSUME NEW f \in Fragments, NEW W \in SUBSET Fragments, IsFiniteSet(W), f \notin W,
         NEW s, StandsFor(s, W, Content[f].mapping)
  PROVE  StandsFor(ApplyWrite(s, f), W \cup {f}, Content[f].mapping)
<1>1. CASE s = Vacant
  <2>1. W = {}
    BY <1>1, VacantTyped, OneMore DEF StandsFor
  <2>2. ApplyWrite(s, f) = FirstRecord(f) /\ W \cup {f} = {f}
    BY <1>1, <2>1 DEF ApplyWrite
  <2> QED
    BY <2>2, FirstStandsFor
<1>2. CASE s # Vacant
  <2>1. W # {}
    BY <1>2, OneMore DEF StandsFor
  <2>2. CASE Content[f].mapping \in TemporalMappings
    <3>1. ApplyWrite(s, f) = Observe(s, f)
      BY <1>2, <2>2 DEF ApplyWrite, MergeFragment, Temporal
    <3> QED
      BY <2>1, <2>2, <3>1, ObserveStandsFor
  <2>3. CASE Content[f].mapping \notin TemporalMappings
    <3>1. ApplyWrite(s, f) = Refine(s, f)
      BY <1>2, <2>3 DEF ApplyWrite, MergeFragment, Temporal
    <3> QED
      BY <2>1, <2>3, <3>1, RefineStandsFor
  <2> QED
    BY <2>2, <2>3
<1> QED
  BY <1>1, <1>2

-----------------------------------------------------------------------------
\* Writing one fragment to the tables.

\* The fragments of an id and a mapping, one more placed.
LEMMA OfOneMore ==
  ASSUME NEW f \in Fragments, NEW P, f \notin P, NEW i, NEW m
  PROVE  /\ i = Content[f].id /\ m = Content[f].mapping => Of(P \cup {f}, i, m) = Of(P, i, m) \cup {f}
         /\ i # Content[f].id \/ m # Content[f].mapping => Of(P \cup {f}, i, m) = Of(P, i, m)
         /\ i = Content[f].id => In(P \cup {f}, i) = In(P, i) \cup {f}
         /\ i # Content[f].id => In(P \cup {f}, i) = In(P, i)
         /\ f \notin Of(P, i, m) /\ f \notin In(P, i)
BY DEF Of, In

LEMMA OfFinite ==
  ASSUME NEW P, P \subseteq Fragments, NEW i, NEW m
  PROVE  /\ IsFiniteSet(P) /\ IsFiniteSet(Of(P, i, m)) /\ IsFiniteSet(In(P, i))
         /\ Of(P, i, m) \in SUBSET Fragments
<1>1. IsFiniteSet(Fragments)
  BY StoreAssumption
<1>2. Of(P, i, m) \in SUBSET Fragments /\ In(P, i) \in SUBSET Fragments
  BY DEF Of, In
<1> QED
  BY <1>1, <1>2, FS_Subset

\* A slot of the row of the id.
LEMMA RowOneMore ==
  ASSUME NEW f \in Fragments, NEW P, P \subseteq Fragments, f \notin P,
         NEW row, SlotsHold(row, Content[f].id, P)
  PROVE  SlotsHold([row EXCEPT ![Content[f].mapping] = ApplyWrite(@, f)], Content[f].id, P \cup {f})
<1> DEFINE i == Content[f].id
           n == Content[f].mapping
           new == [row EXCEPT ![n] = ApplyWrite(@, f)]
<1>1. n \in Mappings /\ DOMAIN row = Mappings /\ \A m \in Mappings : StandsFor(row[m], Of(P, i, m), m)
  BY FragmentTyped DEF SlotsHold
<1>2. DOMAIN new = Mappings /\ new[n] = ApplyWrite(row[n], f) /\ \A m \in Mappings \ {n} : new[m] = row[m]
  BY <1>1
<1>3. StandsFor(new[n], Of(P \cup {f}, i, n), n)
  <2>1. StandsFor(ApplyWrite(row[n], f), Of(P, i, n) \cup {f}, n)
    BY <1>1, OfFinite, OfOneMore, ApplyWriteStandsFor
  <2>2. Of(P \cup {f}, i, n) = Of(P, i, n) \cup {f}
    BY OfOneMore
  <2> QED
    BY <1>2, <2>1, <2>2
<1>4. ASSUME NEW m \in Mappings \ {n} PROVE StandsFor(new[m], Of(P \cup {f}, i, m), m)
  <2>1. Of(P \cup {f}, i, m) = Of(P, i, m)
    BY DEF Of
  <2> QED
    BY <1>1, <1>2, <2>1
<1> HIDE DEF new
<1>5. SlotsHold(new, i, P \cup {f})
  BY <1>2, <1>3, <1>4 DEF SlotsHold
<1> QED
  BY <1>5 DEF new

\* The series of the id.
LEMMA SeriesOneMore ==
  ASSUME NEW f \in Fragments, NEW P, P \subseteq Fragments, f \notin P,
         NEW q, SeriesHolds(q, Content[f].id, P)
  PROVE  SeriesHolds(Append(q, f), Content[f].id, P \cup {f})
<1> DEFINE i == Content[f].id
           r == Append(q, f)
<1>1. q \in Seq(Fragments) /\ ToSet(q) = In(P, i) /\ Len(q) = Cardinality(In(P, i))
  BY DEF SeriesHolds
<1>2. /\ r \in Seq(Fragments) /\ Len(r) = Len(q) + 1 /\ r[Len(q) + 1] = f
      /\ \A k \in 1..Len(q) : r[k] = q[k]
      /\ DOMAIN r = 1..(Len(q) + 1) /\ DOMAIN q = 1..Len(q) /\ Len(q) \in Nat
  BY <1>1
<1>3. ToSet(r) = ToSet(q) \cup {f}
  <2> HIDE DEF r
  <2>1. ASSUME NEW k \in DOMAIN r PROVE r[k] \in ToSet(q) \cup {f}
    BY <1>2, <2>1 DEF ToSet
  <2>2. ASSUME NEW k \in DOMAIN q PROVE \E l \in DOMAIN r : r[l] = q[k]
    BY <1>2, <2>2
  <2>3. \E l \in DOMAIN r : r[l] = f
    BY <1>2
  <2> QED
    BY <2>1, <2>2, <2>3 DEF ToSet
<1>4. In(P \cup {f}, i) = In(P, i) \cup {f} /\ f \notin In(P, i) /\ IsFiniteSet(In(P, i))
  BY OfOneMore, OfFinite
<1>5. Cardinality(In(P \cup {f}, i)) = Cardinality(In(P, i)) + 1
  BY <1>4, OneMore
<1> QED
  BY <1>1, <1>2, <1>3, <1>4, <1>5 DEF SeriesHolds

\* What Placed and StoreFragment do to the tables.
SlotsWith(sl, f) == IF mode = "latest" THEN PlaceLatest(sl, f) ELSE sl
SeriesWith(se, f) == IF mode = "latest" THEN se ELSE PlaceObservation(se, f)

LEMMA PlaceHolds ==
  ASSUME NEW f \in Fragments, NEW P, P \subseteq Fragments, f \notin P, mode \in {"latest", "series"},
         NEW sl, NEW se, DOMAIN sl = Ids, DOMAIN se = Ids
  PROVE  /\ DOMAIN SlotsWith(sl, f) = Ids /\ DOMAIN SeriesWith(se, f) = Ids
         /\ \A i \in Ids : Holds(sl[i], se[i], i, P)
              => Holds(SlotsWith(sl, f)[i], SeriesWith(se, f)[i], i, P \cup {f})
<1> DEFINE n == Content[f].id
<1>1. n \in Ids
  BY FragmentTyped
<1>2. CASE mode = "latest"
  <2>1. SlotsWith(sl, f) = [sl EXCEPT ![n][Content[f].mapping] = ApplyWrite(@, f)] /\ SeriesWith(se, f) = se
    BY <1>2 DEF SlotsWith, SeriesWith, PlaceLatest
  <2>2. /\ DOMAIN SlotsWith(sl, f) = Ids
        /\ SlotsWith(sl, f)[n] = [sl[n] EXCEPT ![Content[f].mapping] = ApplyWrite(@, f)]
        /\ \A i \in Ids \ {n} : SlotsWith(sl, f)[i] = sl[i]
    BY <1>1, <2>1
  <2>3. ASSUME NEW i \in Ids \ {n}, SlotsHold(sl[i], i, P)
        PROVE  SlotsHold(sl[i], i, P \cup {f})
    <3>1. \A m \in Mappings : Of(P \cup {f}, i, m) = Of(P, i, m)
      BY DEF Of
    <3> QED
      BY <2>3, <3>1 DEF SlotsHold
  <2>4. SlotsHold(sl[n], n, P) => SlotsHold(SlotsWith(sl, f)[n], n, P \cup {f})
    BY <2>2, RowOneMore
  <2> QED
    BY <1>2, <2>1, <2>2, <2>3, <2>4 DEF Holds
<1>3. CASE mode = "series"
  <2>1. SlotsWith(sl, f) = sl /\ SeriesWith(se, f) = [se EXCEPT ![n] = Append(@, f)]
    BY <1>3 DEF SlotsWith, SeriesWith, PlaceObservation
  <2>2. /\ DOMAIN SeriesWith(se, f) = Ids /\ SeriesWith(se, f)[n] = Append(se[n], f)
        /\ \A i \in Ids \ {n} : SeriesWith(se, f)[i] = se[i]
    BY <1>1, <2>1
  <2>3. ASSUME NEW i \in Ids \ {n}, SeriesHolds(se[i], i, P)
        PROVE  SeriesHolds(se[i], i, P \cup {f})
    <3>1. In(P \cup {f}, i) = In(P, i)
      BY DEF In
    <3> QED
      BY <2>3, <3>1 DEF SeriesHolds
  <2>4. SeriesHolds(se[n], n, P) => SeriesHolds(SeriesWith(se, f)[n], n, P \cup {f})
    BY <2>2, SeriesOneMore
  <2> QED
    BY <1>3, <2>1, <2>2, <2>3, <2>4 DEF Holds
<1> QED
  BY <1>2, <1>3

\* Nothing is placed at first.
LEMMA NothingHeld ==
  ASSUME NEW i
  PROVE  Holds(Empty, <<>>, i, {}) /\ ScopesOf({}, i) = {}
<1>1. Cardinality({}) = 0
  BY FS_EmptySet
<1>2. \A m \in Mappings : Of({}, i, m) = {}
  BY DEF Of
<1>3. In({}, i) = {} /\ Failing({}) = {}
  BY DEF In, Failing
<1>4. ASSUME NEW m PROVE StandsFor(Vacant, {}, m)
  BY <1>1, <1>3, VacantTyped DEF StandsFor, LatestOf, DiscardsOf, MergedFrom
<1>5. SlotsHold(Empty, i, {})
  BY <1>2, <1>4 DEF SlotsHold, Empty
<1>6. SeriesHolds(<<>>, i, {})
  BY <1>1, <1>3 DEF SeriesHolds, ToSet
<1> QED
  BY <1>3, <1>5, <1>6 DEF Holds, ScopesOf

-----------------------------------------------------------------------------
\* Folding a series.

Taken(acc, f, m) ==
  IF Content[f].mapping # m THEN acc ELSE FirstConflict(acc, Content[f].data, Reads[m])
Folded(q, m) ==
  FoldLeft(LAMBDA acc, f : IF Content[f].mapping # m THEN acc
                           ELSE FirstConflict(acc, Content[f].data, Reads[m]), NothingMerged, q)

\* One round of the fold's definition, from what it gives for fewer positions.
FoldOnce(q, m, it) ==
  [s \in SUBSET DOMAIN q |->
     IF s = {} THEN NothingMerged ELSE Taken(it[s \ {Max(s)}], q[Max(s)], m)]

\* The fold of the library is this definition's, for all positions.
LEMMA FoldedIs ==
  ASSUME NEW q, NEW m
  PROVE  Folded(q, m) = (CHOOSE it : it = FoldOnce(q, m, it))[DOMAIN q]
BY DEF Folded, FoldLeft, MapThenFoldSet, FoldOnce, Taken

\* What the definition is for the first n positions.
FoldedTo(q, m, n, it) ==
  it = [s \in SUBSET (1..n) |->
          IF s = {} THEN NothingMerged ELSE Taken(it[s \ {Max(s)}], q[Max(s)], m)]

\* The greatest of some positions.
LEMMA LastPosition ==
  ASSUME NEW n \in Nat, NEW s \in SUBSET (1..n), s # {}
  PROVE  Max(s) \in s /\ \A k \in s : k <= Max(s)
<1>1. s \subseteq Nat /\ IsFiniteSet(s)
  <2>1. IsFiniteSet(1..n)
    BY FS_Interval
  <2>2. IsFiniteSet(s)
    BY <2>1, FS_Subset
  <2> QED
    BY <2>2
<1> QED
  BY <1>1, MaxOfFinite

\* The definition is that of a function: there is one for every number of positions.
LEMMA FoldExists ==
  ASSUME NEW q, NEW m, NEW N \in Nat
  PROVE  \E it : FoldedTo(q, m, N, it)
<1> DEFINE T == {n \in Nat : ~ \E it : FoldedTo(q, m, n, it)}
<1>1. ASSUME T # {} PROVE FALSE
  <2>1. PICK n \in T : \A k \in T : n <= k
    BY <1>1, LeastNumber
  <2>2. n \in Nat /\ ~ \E it : FoldedTo(q, m, n, it)
    BY <2>1
  <2>3. CASE n = 0
    <3> DEFINE h == [s \in SUBSET (1..n) |-> NothingMerged]
    <3>1. \A s \in SUBSET (1..n) : s = {}
      BY <2>3
    <3>2. FoldedTo(q, m, n, h)
      BY <3>1 DEF FoldedTo
    <3> QED
      BY <2>2, <3>2
  <2>4. CASE n # 0
    <3>1. n - 1 \in Nat /\ ~(n <= n - 1)
      BY <2>2, <2>4
    <3>2. PICK g : FoldedTo(q, m, n - 1, g)
      BY <2>1, <3>1
    <3> DEFINE h == [s \in SUBSET (1..n) |->
                       IF n \in s THEN Taken(g[s \ {n}], q[n], m) ELSE g[s]]
    <3>3. ASSUME NEW s \in SUBSET (1..(n - 1)), s # {}
          PROVE  g[s] = Taken(g[s \ {Max(s)}], q[Max(s)], m)
      BY <3>2, <3>3 DEF FoldedTo
    <3>4. g[{}] = NothingMerged
      BY <3>2 DEF FoldedTo
    <3>5. ASSUME NEW s \in SUBSET (1..n)
          PROVE  h[s] = IF s = {} THEN NothingMerged ELSE Taken(h[s \ {Max(s)}], q[Max(s)], m)
      <4>1. CASE s = {}
        BY <3>4, <4>1
      <4>2. CASE n \in s
        <5>1. Max(s) = n
          <6>1. Max(s) \in s /\ \A k \in s : k <= Max(s)
            BY <2>2, <4>2, LastPosition
          <6>2. Max(s) \in 1..n /\ n <= Max(s)
            BY <4>2, <6>1
          <6> QED
            BY <2>2, <6>2
        <5>2. s \ {n} \in SUBSET (1..n) /\ n \notin s \ {n}
          OBVIOUS
        <5>3. h[s \ {n}] = g[s \ {n}] /\ h[s] = Taken(g[s \ {n}], q[n], m)
          BY <4>2, <5>2
        <5> HIDE DEF h
        <5> QED
          BY <4>2, <5>1, <5>3
      <4>3. CASE s # {} /\ n \notin s
        <5>1. s \in SUBSET (1..(n - 1))
          BY <2>2, <4>3
        <5>2. s \ {Max(s)} \in SUBSET (1..n) /\ n \notin s \ {Max(s)}
          BY <4>3
        <5>3. h[s] = g[s] /\ h[s \ {Max(s)}] = g[s \ {Max(s)}]
          BY <4>3, <5>2
        <5> HIDE DEF h
        <5> QED
          BY <3>3, <4>3, <5>1, <5>3
      <4> QED
        BY <4>1, <4>2, <4>3
    <3>6. DOMAIN h = SUBSET (1..n) /\ h = [s \in SUBSET (1..n) |-> h[s]]
      OBVIOUS
    <3> HIDE DEF h
    <3>7. FoldedTo(q, m, n, h)
      BY <3>5, <3>6 DEF FoldedTo
    <3> QED
      BY <2>2, <3>7
  <2> QED
    BY <2>3, <2>4
<1> QED
  BY <1>1

\* A series folds to what its records of the mapping merge to.
LEMMA FoldedMerges ==
  ASSUME NEW q \in Seq(Fragments), NEW m
  PROVE  Merges(Folded(q, m).merged, Folded(q, m).found,
                RecordsIn({f \in ToSet(q) : Content[f].mapping = m}), Reads[m])
<1> DEFINE N == Len(q)
           it == CHOOSE it : it = FoldOnce(q, m, it)
           W(k) == {q[j] : j \in {l \in 1..k : Content[q[l]].mapping = m}}
           Good(k) == Merges(it[1..k].merged, it[1..k].found, RecordsIn(W(k)), Reads[m])
           T == {k \in Nat : k <= N /\ ~Good(k)}
<1>1. N \in Nat /\ DOMAIN q = 1..N /\ \A j \in 1..N : q[j] \in Fragments
  OBVIOUS
<1>2. Folded(q, m) = it[1..N]
  BY <1>1, FoldedIs
<1>3. FoldedTo(q, m, N, it)
  <2>1. \A g : g = FoldOnce(q, m, g) <=> FoldedTo(q, m, N, g)
    BY <1>1 DEF FoldedTo, FoldOnce
  <2> HIDE DEF N
  <2>2. \E g : g = FoldOnce(q, m, g)
    BY <1>1, <2>1, FoldExists
  <2> QED
    BY <2>1, <2>2
<1> HIDE DEF it, N
<1>4. Good(0)
  <2>1. 1..0 = {} /\ W(0) = {} /\ it[1..0] = NothingMerged
    BY <1>1, <1>3 DEF FoldedTo
  <2>2. RecordsIn(W(0)) = {} /\ Disputes({}, Reads[m]) = {}
    BY <2>1 DEF RecordsIn, Disputes
  <2>3. Merges({}, NoPath, {}, Reads[m])
    BY <2>2, FS_EmptySet DEF Merges, IsEarliest
  <2>4. it[1..0].merged = {} /\ it[1..0].found = NoPath
    BY <2>1 DEF NothingMerged
  <2> HIDE DEF W
  <2> QED
    BY <2>2, <2>3, <2>4
<1>5. ASSUME NEW k \in Nat, k # 0, k <= N, Good(k - 1) PROVE Good(k)
  <2> DEFINE s == 1..k
             acc == it[1..(k - 1)]
             f == q[k]
  <2>1. s \in SUBSET (1..N) /\ k \in s /\ \A j \in s : j <= k
    BY <1>1, <1>5
  <2>2. Max(s) = k
    <3>1. Max(s) \in s /\ \A j \in s : j <= Max(s)
      BY <1>1, <2>1, LastPosition
    <3> QED
      BY <2>1, <3>1
  <2>3. s \ {k} = 1..(k - 1)
    BY <1>5
  <2>4. it[s] = Taken(acc, f, m)
    BY <1>3, <2>1, <2>2, <2>3 DEF FoldedTo
  <2>5. f \in Fragments /\ W(k - 1) \subseteq Fragments
    BY <1>1, <1>5
  <2>6. CASE Content[f].mapping # m
    <3>1. W(k) = W(k - 1)
      BY <1>5, <2>1, <2>3, <2>6
    <3>2. it[1..k] = it[1..(k - 1)]
      BY <2>4, <2>6 DEF Taken
    <3> QED
      BY <1>5, <3>1, <3>2
  <2>7. CASE Content[f].mapping = m
    <3>1. W(k) = W(k - 1) \cup {f}
      BY <1>5, <2>1, <2>3, <2>7
    <3> DEFINE d == Content[f].data
    <3>2. RecordsIn(W(k)) = RecordsIn(W(k - 1)) \cup {d}
      BY <3>1 DEF RecordsIn
    <3>3. (\A r \in RecordsIn(W(k - 1)) : IsRecord(r)) /\ IsRecord(d)
      BY <2>5, FragmentTyped DEF RecordsIn
    <3>4. /\ it[s].merged = DeepMerge(acc.merged, d)
          /\ it[s].found = Earliest(acc.found, FieldConflict(acc.merged, d, Reads[m]))
      BY <2>4, <2>7 DEF Taken, FirstConflict
    <3>5. Merges(acc.merged, acc.found, RecordsIn(W(k - 1)), Reads[m])
      BY <1>5
    <3> HIDE DEF d, acc, W
    <3>6. Merges(it[s].merged, it[s].found, RecordsIn(W(k - 1)) \cup {d}, Reads[m])
      BY <3>3, <3>4, <3>5, MergesNext
    <3> QED
      BY <3>2, <3>6
  <2> QED
    BY <2>6, <2>7
<1> HIDE DEF Good
<1>6. T = {}
  <2> SUFFICES ASSUME T # {} PROVE FALSE
    OBVIOUS
  <2>1. PICK k \in T : \A j \in T : k <= j
    BY LeastNumber
  <2>2. k \in Nat /\ k # 0 /\ k <= N /\ ~Good(k)
    BY <1>4, <2>1
  <2>3. Good(k - 1)
    BY <1>1, <2>1, <2>2
  <2> QED
    BY <1>5, <2>2, <2>3
<1>7. Good(N)
  BY <1>1, <1>6
<1>8. W(N) = {f \in ToSet(q) : Content[f].mapping = m}
  BY <1>1 DEF ToSet
<1> QED
  BY <1>2, <1>7, <1>8 DEF Good

-----------------------------------------------------------------------------
\* Summing over the mappings.

\* The greatest and the least of some numbers.
LEMMA MaxIs ==
  ASSUME NEW S, S \subseteq Nat, NEW x \in S, \A y \in S : y <= x
  PROVE  Max(S) = x
<1>1. \A z \in S : (\A y \in S : z >= y) => z = x
  OBVIOUS
<1>2. \A y \in S : x >= y
  OBVIOUS
<1> QED
  BY <1>1, <1>2 DEF Max

LEMMA MinIs ==
  ASSUME NEW S, S \subseteq Nat, NEW x \in S, \A y \in S : x <= y
  PROVE  Min(S) = x
<1>1. \A z \in S : (\A y \in S : z <= y) => z = x
  OBVIOUS
<1> QED
  BY <1>1 DEF Min

LEMMA MinOf ==
  ASSUME NEW S, S \subseteq Nat, S # {}
  PROVE  Min(S) \in S
<1>1. \E x \in S : \A y \in S : x <= y
  BY LeastNumber
<1> QED
  BY <1>1 DEF Min

\* One round of the sum's definition, for sets of up to n elements.
One(s) == CHOOSE x \in s : TRUE
SumOnce(c, s, it) == IF s = {} THEN 0 ELSE c[One(s)] + it[s \ {One(s)}]
UpTo(S, n) == {s \in SUBSET S : Cardinality(s) <= n}
SummedTo(c, S, n, it) == it = [s \in UpTo(S, n) |-> SumOnce(c, s, it)]

\* The sum of the library is this definition's, for the whole set.
LEMMA SumIs ==
  ASSUME NEW c, NEW S
  PROVE  SumFunctionOnSet(c, S) = (CHOOSE it : it = [s \in SUBSET S |-> SumOnce(c, s, it)])[S]
BY DEF SumFunctionOnSet, FoldFunctionOnSet, MapThenFoldSet, SumOnce, One

\* One element less.
LEMMA OneLess ==
  ASSUME NEW s, IsFiniteSet(s), s # {}
  PROVE  /\ One(s) \in s /\ Cardinality(s \ {One(s)}) = Cardinality(s) - 1
         /\ Cardinality(s) \in Nat /\ Cardinality(s) # 0
<1>1. One(s) \in s
  BY DEF One
<1> QED
  BY <1>1, FS_RemoveElement, FS_CardinalityType, FS_EmptySet

\* The definition is that of a function.
LEMMA SumExists ==
  ASSUME NEW c, NEW S, IsFiniteSet(S), NEW N \in Nat
  PROVE  \E it : SummedTo(c, S, N, it)
<1> DEFINE T == {n \in Nat : ~ \E it : SummedTo(c, S, n, it)}
<1>0. \A s \in SUBSET S : IsFiniteSet(s) /\ Cardinality(s) \in Nat
  BY FS_Subset, FS_CardinalityType
<1>1. ASSUME T # {} PROVE FALSE
  <2>1. PICK n \in T : \A k \in T : n <= k
    BY <1>1, LeastNumber
  <2>2. n \in Nat /\ ~ \E it : SummedTo(c, S, n, it)
    BY <2>1
  <2>3. CASE n = 0
    <3> DEFINE h == [s \in UpTo(S, n) |-> 0]
    <3>1. ASSUME NEW s \in UpTo(S, n) PROVE s = {}
      <4>1. IsFiniteSet(s) /\ Cardinality(s) \in Nat /\ Cardinality(s) <= 0
        BY <1>0, <2>3 DEF UpTo
      <4>2. Cardinality(s) = 0
        BY <4>1
      <4> QED
        BY <4>1, <4>2, OneLess
    <3>2. SummedTo(c, S, n, h)
      BY <3>1 DEF SummedTo, SumOnce
    <3> QED
      BY <2>2, <3>2
  <2>4. CASE n # 0
    <3>1. n - 1 \in Nat /\ ~(n <= n - 1)
      BY <2>2, <2>4
    <3>2. PICK g : SummedTo(c, S, n - 1, g)
      BY <2>1, <3>1
    <3> DEFINE h == [s \in UpTo(S, n) |-> SumOnce(c, s, g)]
    <3>3. ASSUME NEW s \in UpTo(S, n - 1) PROVE g[s] = h[s]
      <4>1. s \in UpTo(S, n)
        BY <1>0, <2>2, <3>1 DEF UpTo
      <4> QED
        BY <3>2, <4>1 DEF SummedTo
    <3>4. ASSUME NEW s \in UpTo(S, n) PROVE h[s] = SumOnce(c, s, h)
      <4>1. CASE s = {}
        BY <4>1 DEF SumOnce
      <4>2. CASE s # {}
        <5>1. s \ {One(s)} \in UpTo(S, n - 1)
          BY <1>0, <2>2, <4>2, OneLess DEF UpTo
        <5>2. h[s] = SumOnce(c, s, g)
          OBVIOUS
        <5> HIDE DEF h
        <5> QED
          BY <3>3, <4>2, <5>1, <5>2 DEF SumOnce
      <4> QED
        BY <4>1, <4>2
    <3>5. h = [s \in UpTo(S, n) |-> h[s]]
      OBVIOUS
    <3> HIDE DEF h
    <3>6. SummedTo(c, S, n, h)
      BY <3>4, <3>5 DEF SummedTo
    <3> QED
      BY <2>2, <3>6
  <2> QED
    BY <2>3, <2>4
<1> QED
  BY <1>1

\* Numbers sum to a number.
LEMMA SumTyped ==
  ASSUME NEW S, IsFiniteSet(S), NEW c, \A x \in S : c[x] \in Nat
  PROVE  SumFunctionOnSet(c, S) \in Nat
<1> DEFINE N == Cardinality(S)
           it == CHOOSE it : it = [s \in SUBSET S |-> SumOnce(c, s, it)]
           T == {n \in Nat : \E s \in SUBSET S : Cardinality(s) = n /\ it[s] \notin Nat}
<1>1. \A s \in SUBSET S : IsFiniteSet(s) /\ Cardinality(s) \in Nat /\ Cardinality(s) <= N
  BY FS_Subset, FS_CardinalityType
<1>2. UpTo(S, N) = SUBSET S /\ N \in Nat
  BY <1>1, FS_CardinalityType DEF UpTo
<1>3. it = [s \in SUBSET S |-> SumOnce(c, s, it)]
  <2>1. \A g : g = [s \in SUBSET S |-> SumOnce(c, s, g)] <=> SummedTo(c, S, N, g)
    BY <1>2 DEF SummedTo
  <2> HIDE DEF N
  <2>2. \E g : g = [s \in SUBSET S |-> SumOnce(c, s, g)]
    BY <1>2, <2>1, SumExists
  <2> QED
    BY <2>2
<1> HIDE DEF it, N
<1>4. ASSUME T # {} PROVE FALSE
  <2>1. PICK n \in T : \A k \in T : n <= k
    BY <1>4, LeastNumber
  <2>2. PICK s \in SUBSET S : Cardinality(s) = n /\ it[s] \notin Nat
    BY <2>1
  <2>3. it[s] = SumOnce(c, s, it)
    BY <1>3
  <2>4. s # {}
    BY <2>2, <2>3 DEF SumOnce
  <2> DEFINE u == s \ {One(s)}
  <2>5. One(s) \in s /\ Cardinality(u) = n - 1 /\ n \in Nat /\ n # 0 /\ u \in SUBSET S
    BY <1>1, <2>2, <2>4, OneLess
  <2>6. it[u] \in Nat
    BY <2>1, <2>5
  <2>7. it[s] = c[One(s)] + it[u] /\ c[One(s)] \in Nat
    BY <2>3, <2>4, <2>5 DEF SumOnce
  <2> QED
    BY <2>2, <2>6, <2>7
<1>5. it[S] \in Nat
  BY <1>1, <1>4
<1> QED
  BY <1>5, SumIs DEF it

-----------------------------------------------------------------------------
\* Moving tasks on.

LEMMA InputTyped ==
  ASSUME Shapes
  PROVE  input \subseteq Fragments /\ IsFiniteSet(input)
<1>1. input \subseteq Fragments /\ IsFiniteSet(Fragments)
  BY StoreAssumption DEF Shapes
<1> QED
  BY <1>1, FS_Subset

\* One task.
LEMMA TaskMoves ==
  ASSUME Shapes, NEW f \in input, NEW x \in States, task' = [task EXCEPT ![f] = x], input' = input
  PROVE  /\ task' \in [Fragments -> States] /\ task'[f] = x /\ f \in Fragments
         /\ \A g \in Fragments : g # f => task'[g] = task[g]
         /\ x \in {"scope", "done"} => InPlace' = InPlace \cup {f}
         /\ x \notin {"scope", "done"} => InPlace' = InPlace \ {f}
         /\ x = "done" => Scoped' = Scoped \cup {f}
         /\ x # "done" => Scoped' = Scoped \ {f}
         /\ x = "stored" => Pending' = Pending \cup {f}
         /\ x # "stored" => Pending' = Pending \ {f}
<1>1. f \in Fragments /\ input \subseteq Fragments
  BY InputTyped
<1>2. /\ task' \in [Fragments -> States] /\ task'[f] = x
      /\ \A g \in Fragments : g # f => task'[g] = task[g]
  BY <1>1 DEF Shapes
<1> QED
  BY <1>1, <1>2 DEF InPlace, Scoped, Pending

\* A batch of them.
LEMMA BatchMoves ==
  ASSUME Shapes, NEW B \in SUBSET input, NEW x \in States, input' = input,
         task' = [f \in Fragments |-> IF f \in B THEN x ELSE task[f]]
  PROVE  /\ task' \in [Fragments -> States] /\ \A f \in B : task'[f] = x
         /\ \A f \in Fragments \ B : task'[f] = task[f]
         /\ x = "done" => InPlace' = InPlace \cup B /\ Scoped' = Scoped \cup B
         /\ x \notin {"scope", "done"} => InPlace' = InPlace \ B /\ Scoped' = Scoped \ B
         /\ x # "stored" => Pending' = Pending \ B
<1>1. input \subseteq Fragments
  BY InputTyped
<1>2. task' \in [Fragments -> States] /\ (\A f \in B : task'[f] = x)
      /\ \A f \in Fragments \ B : task'[f] = task[f]
  BY <1>1 DEF Shapes
<1> QED
  BY <1>1, <1>2 DEF InPlace, Scoped, Pending

\* Until the assembler starts nothing is handed on.
LEMMA NothingHandedOn ==
  ASSUME IInv, UNCHANGED <<config, emitted, broken, losses>>, phase' # "done"
  PROVE  /\ (\A i \in Ids : Handed(i))' /\ AllHanded'
         /\ ExpiryCoversMappings' /\ DiscardsCounted'
<1> USE DEF IInv, config, losses
<1>1. (\A i \in Ids : Handed(i))'
  BY DEF Handed, In, EdgesOf, ScopesOf
<1>2. AllHanded'
  BY DEF AllHanded
<1>3. ExpiryCoversMappings'
  BY DEF ExpiryCoversMappings, FragmentsOf
<1>4. DiscardsCounted'
  BY DEF DiscardsCounted, KeptFailing, HandedFailing
<1> QED
  BY <1>1, <1>2, <1>3, <1>4

\* The tables stay as they are.
LEMMA TablesStay ==
  ASSUME TablesKept, UNCHANGED <<stored, emitted, mode>>, phase = "done" => phase' = "done",
         InPlace' = InPlace, Scoped' = Scoped
  PROVE  TablesKept'
BY DEF TablesKept, Holds, stored

\* The transaction stays as it is.
LEMMA TransactionStays ==
  ASSUME TransactionKept, UNCHANGED <<txn, mode>>, Open' => Open,
         InPlace' = InPlace, Scoped' = Scoped, Pending' = Pending
  PROVE  TransactionKept'
BY DEF TransactionKept, Holds

\* A task that runs, or waits in the batch, is one of a phase that has not ended.
LEMMA Running ==
  ASSUME IInv, NEW f \in input, task[f] # "done"
  PROVE  phase \in {"resolve", "failed"}
BY DEF IInv, Staged, Shapes

-----------------------------------------------------------------------------
\* The steps of a batch in memory.

LEMMA TakeBatchSteps ==
  ASSUME IInv, TakeBatchConcurrent
  PROVE  IInv'
<1> USE DEF IInv
<1>1. PICK B \in Batches :
        /\ task' = [f \in Fragments |-> IF f \in B THEN "build" ELSE task[f]]
        /\ unsent' = [f \in Fragments |-> IF f \in B THEN Content[f].edges ELSE unsent[f]]
        /\ failures' = FailuresWith(B)
  BY DEF TakeBatchConcurrent
<1>2. /\ UNCHANGED <<config, phase, edges, seen, stored, txn, edgesFailed, emitted, broken, losses>>
      /\ phase = "resolve" /\ Concurrent /\ \A f \in input : task[f] \in {"idle", "done"}
  BY DEF TakeBatchConcurrent, NoTask
<1>3. UNCHANGED <<input, entityStore, relationshipStore, mode>>
  BY <1>2 DEF config
<1>4. B \in SUBSET input /\ \A f \in B : task[f] = "idle"
  BY DEF Batches
<1>5. /\ task' \in [Fragments -> States] /\ (\A f \in B : task'[f] = "build")
      /\ (\A f \in Fragments \ B : task'[f] = task[f]) /\ input \subseteq Fragments
      /\ InPlace' = InPlace \ B /\ Scoped' = Scoped \ B /\ Pending' = Pending \ B
  <2>1. "build" \in States /\ "build" \notin {"scope", "done", "stored"}
    BY DEF States
  <2>2. task' = [f \in Fragments |-> IF f \in B THEN "build" ELSE task[f]] /\ input' = input /\ Shapes
    BY <1>1, <1>3
  <2> HIDE DEF IInv
  <2> QED
    BY <1>4, <2>1, <2>2, BatchMoves, InputTyped
<1>6. InPlace' = InPlace /\ Scoped' = Scoped /\ Pending' = Pending /\ ~Open'
  BY <1>2, <1>3, <1>4, <1>5 DEF InPlace, Scoped, Pending, Open
<1>7. Shapes'
  <2>1. failures' \subseteq Mappings
    BY <1>1, <1>4, <1>5, FragmentTyped DEF Shapes, FailuresWith
  <2>2. DOMAIN unsent' = Fragments /\ \A f \in input : unsent'[f] \subseteq Content[f].edges
    BY <1>1, <1>5 DEF Shapes
  <2> QED
    BY <1>2, <1>3, <1>5, <2>1, <2>2 DEF Shapes, stored, losses
<1>8. Staged'
  BY <1>2, <1>3, <1>4, <1>5, <1>6 DEF Staged, InBatch, Concurrent, Open
<1>9. TablesKept' /\ TransactionKept'
  BY <1>2, <1>3, <1>6, TablesStay, TransactionStays
<1>10. EdgesKept'
  <2>1. Covered = edges /\ Covered' = edges
    BY <1>2, <1>3, <1>4, <1>5 DEF Covered
  <2> QED
    BY <1>1, <1>2, <1>3, <1>4, <1>5, <2>1 DEF EdgesKept
<1>11. FailuresKept'
  BY <1>1, <1>2, <1>3, <1>4, <1>5 DEF FailuresKept, FailuresWith, losses
<1>12. (\A i \in Ids : Handed(i))' /\ AllHanded' /\ ExpiryCoversMappings' /\ DiscardsCounted'
  BY <1>2, NothingHandedOn
<1> QED
  BY <1>7, <1>8, <1>9, <1>10, <1>11, <1>12

LEMMA BuildEdgesSteps ==
  ASSUME IInv, NEW f \in input, BuildEdges(f)
  PROVE  IInv'
<1> USE DEF IInv
<1>1. /\ task[f] = "build" /\ task' = [task EXCEPT ![f] = "edges"]
      /\ unsent' = [unsent EXCEPT ![f] = IF Temporal(f) THEN @ \ seen ELSE @]
      /\ seen' = IF Temporal(f) THEN seen \cup Content[f].edges ELSE seen
      /\ UNCHANGED <<config, phase, edges, stored, txn, failures, edgesFailed, emitted, broken, losses>>
  BY DEF BuildEdges
<1>2. UNCHANGED <<input, entityStore, relationshipStore, mode>>
  BY <1>1 DEF config
<1>3. phase \in {"resolve", "failed"}
  BY <1>1, Running
<1>4. /\ task' \in [Fragments -> States] /\ task'[f] = "edges" /\ f \in Fragments
      /\ (\A g \in Fragments : g # f => task'[g] = task[g]) /\ input \subseteq Fragments
      /\ InPlace' = InPlace \ {f} /\ Scoped' = Scoped \ {f} /\ Pending' = Pending \ {f}
  BY <1>1, <1>2, TaskMoves, InputTyped DEF States
<1>5. InPlace' = InPlace /\ Scoped' = Scoped /\ Pending' = Pending /\ Open' = Open
  BY <1>1, <1>2, <1>4 DEF InPlace, Scoped, Pending, Open
<1>6. /\ DOMAIN unsent' = Fragments /\ unsent'[f] = IF Temporal(f) THEN unsent[f] \ seen ELSE unsent[f]
      /\ \A g \in input : g # f => unsent'[g] = unsent[g]
  BY <1>1, <1>4 DEF Shapes
<1>7. Shapes'
  <2>1. \A g \in input : unsent'[g] \subseteq Content[g].edges
    BY <1>6 DEF Shapes
  <2> QED
    BY <1>1, <1>2, <1>4, <1>6, <2>1 DEF Shapes, stored, losses
<1>8. Staged'
  BY <1>1, <1>2, <1>3, <1>4, <1>5 DEF Staged, InBatch, Concurrent
<1>9. TablesKept' /\ TransactionKept'
  BY <1>1, <1>2, <1>5, TablesStay, TransactionStays
<1>10. EdgesKept'
  <2> SUFFICES ASSUME ~edgesFailed
               PROVE  EdgesKept'
    BY <1>1 DEF EdgesKept
  <2>1. /\ edges \subseteq EdgesOf(input) /\ seen \subseteq Covered /\ unsent[f] = Content[f].edges
        /\ \A g \in input : task[g] \notin {"idle", "build"} => Content[g].edges \subseteq Covered
        /\ \A g \in input : task[g] = "build" => unsent[g] = Content[g].edges
    BY <1>1, <1>3 DEF EdgesKept
  <2>2. Covered' = Covered \cup unsent'[f]
    BY <1>1, <1>2, <1>4, <1>6 DEF Covered
  <2>3. Content[f].edges \subseteq Covered' /\ seen' \subseteq Covered'
    BY <1>1, <1>6, <2>1, <2>2
  <2>4. \A g \in input : task'[g] \notin {"idle", "build"} => Content[g].edges \subseteq Covered'
    BY <1>4, <2>1, <2>2, <2>3
  <2>5. \A g \in input : task'[g] = "build" => unsent'[g] = Content[g].edges
    BY <1>4, <1>6, <2>1
  <2> QED
    BY <1>1, <1>2, <2>1, <2>3, <2>4, <2>5 DEF EdgesKept, EdgesOf
<1>11. FailuresKept'
  BY <1>1, <1>2, <1>4 DEF FailuresKept, losses
<1>12. (\A i \in Ids : Handed(i))' /\ AllHanded' /\ ExpiryCoversMappings' /\ DiscardsCounted'
  BY <1>1, <1>3, NothingHandedOn
<1> QED
  BY <1>7, <1>8, <1>9, <1>10, <1>11, <1>12

LEMMA AddChildrenSteps ==
  ASSUME IInv, NEW f \in input, AddChildren(f)
  PROVE  IInv'
<1> USE DEF IInv
<1>1. /\ task[f] = "edges" /\ task' = [task EXCEPT ![f] = "lookup"]
      /\ edges' = edges \cup unsent[f] /\ unsent' = [unsent EXCEPT ![f] = {}]
      /\ UNCHANGED <<config, phase, seen, stored, txn, failures, edgesFailed, emitted, broken, losses>>
  BY DEF AddChildren
<1>2. UNCHANGED <<input, entityStore, relationshipStore, mode>>
  BY <1>1 DEF config
<1>3. phase \in {"resolve", "failed"}
  BY <1>1, Running
<1>4. /\ task' \in [Fragments -> States] /\ task'[f] = "lookup" /\ f \in Fragments
      /\ (\A g \in Fragments : g # f => task'[g] = task[g]) /\ input \subseteq Fragments
      /\ InPlace' = InPlace \ {f} /\ Scoped' = Scoped \ {f} /\ Pending' = Pending \ {f}
  BY <1>1, <1>2, TaskMoves, InputTyped DEF States
<1>5. InPlace' = InPlace /\ Scoped' = Scoped /\ Pending' = Pending /\ Open' = Open
  BY <1>1, <1>2, <1>4 DEF InPlace, Scoped, Pending, Open
<1>6. /\ DOMAIN unsent' = Fragments /\ unsent'[f] = {}
      /\ \A g \in input : g # f => unsent'[g] = unsent[g]
  BY <1>1, <1>4 DEF Shapes
<1>7. Shapes'
  <2>1. \A g \in input : unsent'[g] \subseteq Content[g].edges
    BY <1>6 DEF Shapes
  <2> QED
    BY <1>1, <1>2, <1>4, <1>6, <2>1 DEF Shapes, stored, losses
<1>8. Staged'
  BY <1>1, <1>2, <1>3, <1>4, <1>5 DEF Staged, InBatch, Concurrent
<1>9. TablesKept' /\ TransactionKept'
  BY <1>1, <1>2, <1>5, TablesStay, TransactionStays
<1>10. EdgesKept'
  <2>1. Covered' = Covered
    BY <1>1, <1>2, <1>4, <1>6 DEF Covered
  <2>2. unsent[f] \subseteq EdgesOf(input)
    BY DEF Shapes, EdgesOf
  <2>3. edges \subseteq EdgesOf(input) => edges' \subseteq EdgesOf(input)
    BY <1>1, <2>2
  <2>4. \A g \in input : g # f => task'[g] = task[g]
    BY <1>4
  <2> QED
    BY <1>1, <1>2, <1>3, <1>4, <1>6, <2>1, <2>3, <2>4 DEF EdgesKept, EdgesOf
<1>11. FailuresKept'
  BY <1>1, <1>2, <1>4 DEF FailuresKept, losses
<1>12. (\A i \in Ids : Handed(i))' /\ AllHanded' /\ ExpiryCoversMappings' /\ DiscardsCounted'
  BY <1>1, <1>3, NothingHandedOn
<1> QED
  BY <1>7, <1>8, <1>9, <1>10, <1>11, <1>12

LEMMA LookupMissesSteps ==
  ASSUME IInv, NEW f \in input, LookupMisses(f)
  PROVE  IInv'
<1> USE DEF IInv
<1>1. /\ task[f] = "lookup" /\ task' = [task EXCEPT ![f] = "insert"]
      /\ UNCHANGED <<config, phase, related, stored, txn, failures, edgesFailed, emitted, broken, losses>>
  BY DEF LookupMisses
<1>2. UNCHANGED <<input, entityStore, relationshipStore, mode, unsent, edges, seen>>
  BY <1>1 DEF config, related
<1>3. phase \in {"resolve", "failed"}
  BY <1>1, Running
<1>4. /\ task' \in [Fragments -> States] /\ task'[f] = "insert" /\ f \in Fragments
      /\ (\A g \in Fragments : g # f => task'[g] = task[g]) /\ input \subseteq Fragments
      /\ InPlace' = InPlace \ {f} /\ Scoped' = Scoped \ {f} /\ Pending' = Pending \ {f}
  BY <1>1, <1>2, TaskMoves, InputTyped DEF States
<1>5. InPlace' = InPlace /\ Scoped' = Scoped /\ Pending' = Pending /\ Open' = Open
  BY <1>1, <1>2, <1>4 DEF InPlace, Scoped, Pending, Open
<1>7. Shapes'
  BY <1>1, <1>2, <1>4 DEF Shapes, stored, losses
<1>8. Staged'
  BY <1>1, <1>2, <1>3, <1>4, <1>5 DEF Staged, InBatch, Concurrent
<1>9. TablesKept' /\ TransactionKept'
  BY <1>1, <1>2, <1>5, TablesStay, TransactionStays
<1>10. EdgesKept'
  <2>1. Covered' = Covered
    BY <1>1, <1>2, <1>4 DEF Covered
  <2> QED
    BY <1>1, <1>2, <1>3, <1>4, <2>1 DEF EdgesKept
<1>11. FailuresKept'
  BY <1>1, <1>2, <1>4 DEF FailuresKept, losses
<1>12. (\A i \in Ids : Handed(i))' /\ AllHanded' /\ ExpiryCoversMappings' /\ DiscardsCounted'
  BY <1>1, <1>3, NothingHandedOn
<1> QED
  BY <1>7, <1>8, <1>9, <1>10, <1>11, <1>12

\* A hit, and the insert after a miss: whichever finds what, one fragment is placed.
LEMMA PlacedSteps ==
  ASSUME IInv, NEW f \in input, LookupHits(f) \/ InsertAfterMiss(f)
  PROVE  IInv'
<1> USE DEF IInv
<1>1. /\ task[f] \in {"lookup", "insert"} /\ task' = [task EXCEPT ![f] = "scope"] /\ Placed(f)
      /\ UNCHANGED <<config, phase, related, scopes, txn, failures, edgesFailed, emitted, broken, losses>>
  BY DEF LookupHits, InsertAfterMiss
<1>2. UNCHANGED <<input, entityStore, relationshipStore, mode, unsent, edges, seen>>
  BY <1>1 DEF config, related
<1>3. phase \in {"resolve", "failed"}
  BY <1>1, Running
<1>4. /\ task' \in [Fragments -> States] /\ task'[f] = "scope" /\ f \in Fragments
      /\ (\A g \in Fragments : g # f => task'[g] = task[g]) /\ input \subseteq Fragments
      /\ InPlace' = InPlace \cup {f} /\ Scoped' = Scoped \ {f} /\ Pending' = Pending \ {f}
  BY <1>1, <1>2, TaskMoves, InputTyped DEF States
<1>5. f \notin InPlace /\ InPlace \subseteq Fragments /\ Scoped' = Scoped /\ Open' = Open
  BY <1>1, <1>2, <1>4 DEF InPlace, Scoped, Pending, Open
<1>6. slots' = SlotsWith(slots, f) /\ series' = SeriesWith(series, f)
  BY <1>1 DEF Placed, SlotsWith, SeriesWith
<1>7. TablesKept /\ mode \in {"latest", "series"} /\ DOMAIN slots = Ids /\ DOMAIN series = Ids
  BY StoreAssumption DEF Shapes
<1>8. /\ DOMAIN slots' = Ids /\ DOMAIN series' = Ids
      /\ \A i \in Ids : Holds(slots[i], series[i], i, InPlace)
                          => Holds(slots'[i], series'[i], i, InPlace \cup {f})
  BY <1>4, <1>5, <1>6, <1>7, PlaceHolds
<1>9. TablesKept'
  <2>1. ASSUME NEW i \in Ids
        PROVE  Holds(slots[i], series[i], i, InPlace) =>
                 Holds(slots[i], series[i], i, InPlace)'
    BY <1>2, <1>4, <1>8 DEF Holds
  <2>2. ASSUME NEW i \in Ids PROVE ScopesOf(Scoped, i)' = ScopesOf(Scoped, i)
    BY <1>5 DEF ScopesOf, In
  <2> QED
    BY <1>1, <1>3, <1>7, <2>1, <2>2 DEF TablesKept
<1>10. Shapes'
  <2>1. \A i \in Ids : DOMAIN slots'[i] = Mappings /\ series'[i] \in Seq(Fragments)
    BY <1>6, <1>4, <1>7, FragmentTyped DEF Shapes, SlotsWith, SeriesWith, PlaceLatest, PlaceObservation
  <2> QED
    BY <1>1, <1>2, <1>4, <1>8, <2>1 DEF Shapes, losses
<1>11. Staged'
  BY <1>1, <1>2, <1>3, <1>4, <1>5 DEF Staged, InBatch, Concurrent
<1>12. TransactionKept'
  <2>1. ~Open'
    BY <1>1, <1>5 DEF Staged, Open
  <2> QED
    BY <2>1 DEF TransactionKept
<1>13. EdgesKept'
  <2>1. Covered' = Covered
    BY <1>1, <1>2, <1>4 DEF Covered
  <2> QED
    BY <1>1, <1>2, <1>3, <1>4, <2>1 DEF EdgesKept
<1>14. FailuresKept'
  BY <1>1, <1>2, <1>4 DEF FailuresKept, losses
<1>15. (\A i \in Ids : Handed(i))' /\ AllHanded' /\ ExpiryCoversMappings' /\ DiscardsCounted'
  BY <1>1, <1>3, NothingHandedOn
<1> QED
  BY <1>9, <1>10, <1>11, <1>12, <1>13, <1>14, <1>15

LEMMA MergeScopeSteps ==
  ASSUME IInv, NEW f \in input, MergeScope(f)
  PROVE  IInv'
<1> USE DEF IInv
<1>1. /\ task[f] = "scope" /\ task' = [task EXCEPT ![f] = "done"]
      /\ scopes' = [scopes EXCEPT ![Content[f].id] = @ \cup Content[f].scope]
      /\ UNCHANGED <<config, phase, related, slots, series, txn, failures, edgesFailed, emitted, broken,
                     losses>>
  BY DEF MergeScope
<1>2. UNCHANGED <<input, entityStore, relationshipStore, mode, unsent, edges, seen>>
  BY <1>1 DEF config, related
<1>3. phase \in {"resolve", "failed"}
  BY <1>1, Running
<1>4. /\ task' \in [Fragments -> States] /\ task'[f] = "done" /\ f \in Fragments
      /\ (\A g \in Fragments : g # f => task'[g] = task[g]) /\ input \subseteq Fragments
      /\ InPlace' = InPlace \cup {f} /\ Scoped' = Scoped \cup {f} /\ Pending' = Pending \ {f}
  BY <1>1, <1>2, TaskMoves, InputTyped DEF States
<1>5. InPlace' = InPlace /\ Open' = Open
  BY <1>1, <1>2, <1>4 DEF InPlace, Open
<1>6. Content[f].id \in Ids /\ DOMAIN scopes' = Ids
  BY <1>1, <1>4, FragmentTyped DEF Shapes
<1>7. TablesKept'
  <2>1. ASSUME NEW i \in Ids, scopes[i] = ScopesOf(Scoped, i)
        PROVE  scopes'[i] = ScopesOf(Scoped, i)'
    <3>1. CASE i = Content[f].id
      <4>1. In(Scoped \cup {f}, i) = In(Scoped, i) \cup {f}
        BY <3>1 DEF In
      <4>2. ScopesOf(Scoped \cup {f}, i) = ScopesOf(Scoped, i) \cup Content[f].scope
        BY <4>1 DEF ScopesOf
      <4>3. ScopesOf(Scoped, i)' = ScopesOf(Scoped \cup {f}, i)
        BY <1>4 DEF ScopesOf, In
      <4> QED
        BY <1>1, <2>1, <3>1, <4>2, <4>3 DEF Shapes
    <3>2. CASE i # Content[f].id
      <4>1. In(Scoped \cup {f}, i) = In(Scoped, i)
        BY <3>2 DEF In
      <4>2. ScopesOf(Scoped, i)' = ScopesOf(Scoped, i)
        BY <1>4, <4>1 DEF ScopesOf, In
      <4> QED
        BY <1>1, <2>1, <3>2, <4>2 DEF Shapes
    <3> QED
      BY <3>1, <3>2
  <2> QED
    BY <1>1, <1>2, <1>3, <1>5, <2>1 DEF TablesKept, Holds
<1>8. Shapes'
  BY <1>1, <1>2, <1>4, <1>6 DEF Shapes, losses
<1>9. Staged'
  BY <1>1, <1>2, <1>3, <1>4, <1>5 DEF Staged, InBatch, Concurrent
<1>10. TransactionKept'
  <2>1. ~Open'
    BY <1>1, <1>5 DEF Staged, Open
  <2> QED
    BY <2>1 DEF TransactionKept
<1>11. EdgesKept'
  <2>1. Covered' = Covered
    BY <1>1, <1>2, <1>4 DEF Covered
  <2> QED
    BY <1>1, <1>2, <1>3, <1>4, <2>1 DEF EdgesKept
<1>12. FailuresKept'
  BY <1>1, <1>2, <1>4 DEF FailuresKept, losses
<1>13. (\A i \in Ids : Handed(i))' /\ AllHanded' /\ ExpiryCoversMappings' /\ DiscardsCounted'
  BY <1>1, <1>3, NothingHandedOn
<1> QED
  BY <1>7, <1>8, <1>9, <1>10, <1>11, <1>12, <1>13

-----------------------------------------------------------------------------
\* The steps of a batch in transactions.

LEMMA PrepareBatchSteps ==
  ASSUME IInv, PrepareBatch
  PROVE  IInv'
<1> USE DEF IInv
<1>1. PICK B \in Batches :
        /\ MoveBatch(B, "prepared")
        /\ unsent' = [f \in Fragments |->
                        IF f \notin B THEN unsent[f]
                        ELSE IF Temporal(f) THEN Content[f].edges \ seen ELSE Content[f].edges]
        /\ seen' = seen \cup UNION {Content[f].edges : f \in {g \in B : Temporal(g)}}
  BY DEF PrepareBatch
<1>2. /\ UNCHANGED <<config, phase, edges, stored, txn, failures, edgesFailed, emitted, broken, losses>>
      /\ phase = "resolve" /\ ~Concurrent /\ \A f \in input : task[f] \in {"idle", "done"}
  BY DEF PrepareBatch, NoTask
<1>3. UNCHANGED <<input, entityStore, relationshipStore, mode>>
  BY <1>2 DEF config
<1>4. B \in SUBSET input /\ \A f \in B : task[f] = "idle"
  BY DEF Batches
<1>5. /\ task' \in [Fragments -> States] /\ (\A f \in B : task'[f] = "prepared")
      /\ (\A f \in Fragments \ B : task'[f] = task[f]) /\ input \subseteq Fragments
      /\ InPlace' = InPlace \ B /\ Scoped' = Scoped \ B /\ Pending' = Pending \ B
  <2>1. "prepared" \in States /\ "prepared" \notin {"scope", "done", "stored"}
    BY DEF States
  <2>2. task' = [f \in Fragments |-> IF f \in B THEN "prepared" ELSE task[f]] /\ input' = input /\ Shapes
    BY <1>1, <1>3 DEF MoveBatch
  <2> HIDE DEF IInv
  <2> QED
    BY <1>4, <2>1, <2>2, BatchMoves, InputTyped
<1>6. InPlace' = InPlace /\ Scoped' = Scoped /\ Pending' = Pending /\ ~Open /\ ~Open'
  BY <1>2, <1>3, <1>4, <1>5 DEF InPlace, Scoped, Pending, Open
<1>7. /\ DOMAIN unsent' = Fragments /\ \A f \in input : f \notin B => unsent'[f] = unsent[f]
      /\ \A f \in B : unsent'[f] = IF Temporal(f) THEN Content[f].edges \ seen ELSE Content[f].edges
  BY <1>1, <1>4, <1>5
<1>8. Shapes'
  <2>1. \A f \in input : unsent'[f] \subseteq Content[f].edges
    BY <1>7 DEF Shapes
  <2> QED
    BY <1>2, <1>3, <1>5, <1>7, <2>1 DEF Shapes, stored, losses
<1>9. Staged'
  BY <1>2, <1>3, <1>4, <1>5, <1>6 DEF Staged, InBatch, Concurrent
<1>10. TablesKept' /\ TransactionKept'
  BY <1>2, <1>3, <1>6, TablesStay, TransactionStays
<1>11. EdgesKept'
  <2> SUFFICES ASSUME ~edgesFailed
               PROVE  EdgesKept'
    BY <1>2 DEF EdgesKept
  <2>1. /\ edges \subseteq EdgesOf(input) /\ seen \subseteq edges
        /\ \A f \in input : task[f] = "done" => Content[f].edges \subseteq edges
    <3>1. Covered = edges
      BY <1>2 DEF Covered
    <3> QED
      BY <1>2, <3>1 DEF EdgesKept
  <2>2. edges \subseteq Covered' /\ \A f \in B : unsent'[f] \subseteq Covered'
    BY <1>2, <1>3, <1>4, <1>5 DEF Covered
  <2>3. \A f \in B : Content[f].edges \subseteq Covered'
    BY <1>7, <2>1, <2>2
  <2>4. seen' \subseteq Covered'
    BY <1>1, <2>1, <2>2, <2>3
  <2> QED
    BY <1>2, <1>3, <1>4, <1>5, <2>1, <2>2, <2>3, <2>4 DEF EdgesKept, EdgesOf
<1>12. FailuresKept'
  BY <1>2, <1>3, <1>4, <1>5 DEF FailuresKept, losses
<1>13. (\A i \in Ids : Handed(i))' /\ AllHanded' /\ ExpiryCoversMappings' /\ DiscardsCounted'
  BY <1>2, NothingHandedOn
<1> QED
  BY <1>8, <1>9, <1>10, <1>11, <1>12, <1>13

LEMMA WriteEdgesSteps ==
  ASSUME IInv, NEW ok \in BOOLEAN, WriteEdges(ok)
  PROVE  IInv'
<1> USE DEF IInv
<1> DEFINE B == InBatch("prepared")
<1>1. /\ B # {} /\ edges' = IF ok THEN edges \cup UNION {unsent[f] : f \in B} ELSE edges
      /\ edgesFailed' = ~ok /\ unsent' = [f \in Fragments |-> {}] /\ MoveBatch(B, "related")
      /\ failures' = FailuresWith(B)
      /\ txn' = [slots |-> slots, series |-> series, scopes |-> scopes]
      /\ UNCHANGED <<config, phase, seen, stored, emitted, broken, losses>>
  BY DEF WriteEdges
<1>2. UNCHANGED <<input, entityStore, relationshipStore, mode, slots, series, scopes>>
  BY <1>1 DEF config, stored
<1>3. B \in SUBSET input /\ \A f \in input : f \in B <=> task[f] = "prepared"
  BY DEF InBatch
<1>4. /\ phase \in {"resolve", "failed"} /\ ~Concurrent /\ ~Open /\ ~edgesFailed
      /\ \A i \in Ids : emitted[i].outcome = "none"
  BY <1>1, <1>3, Running DEF Staged
<1>5. /\ task' \in [Fragments -> States] /\ (\A f \in B : task'[f] = "related")
      /\ (\A f \in Fragments \ B : task'[f] = task[f]) /\ input \subseteq Fragments
      /\ InPlace' = InPlace \ B /\ Scoped' = Scoped \ B /\ Pending' = Pending \ B
  <2>1. "related" \in States /\ "related" \notin {"scope", "done", "stored"}
    BY DEF States
  <2>2. task' = [f \in Fragments |-> IF f \in B THEN "related" ELSE task[f]] /\ input' = input /\ Shapes
    BY <1>1, <1>2 DEF MoveBatch
  <2> HIDE DEF IInv, B
  <2> QED
    BY <1>3, <2>1, <2>2, BatchMoves, InputTyped
<1> HIDE DEF B
<1>6. InPlace' = InPlace /\ Scoped' = Scoped /\ Pending' = {} /\ Open'
  BY <1>1, <1>2, <1>3, <1>4, <1>5 DEF InPlace, Scoped, Pending, Open
<1>7. \A f \in input : task'[f] \notin {"prepared", "build", "edges"}
  BY <1>2, <1>3, <1>4, <1>5 DEF Staged
<1>8. Shapes'
  <2>1. failures' \subseteq Mappings
    BY <1>1, <1>3, <1>5, FragmentTyped DEF Shapes, FailuresWith
  <2> QED
    BY <1>1, <1>2, <1>5, <2>1 DEF Shapes, losses
<1>9. Staged'
  BY <1>1, <1>2, <1>3, <1>4, <1>5, <1>6, <1>7 DEF Staged, InBatch, Concurrent
<1>10. TablesKept'
  BY <1>1, <1>2, <1>4, <1>6, TablesStay DEF stored
<1>11. TransactionKept'
  <2>1. /\ txn'.slots = slots /\ txn'.series = series /\ txn'.scopes = scopes
        /\ InPlace' \cup Pending' = InPlace /\ Scoped' \cup Pending' = Scoped
    BY <1>1, <1>6
  <2>2. ASSUME NEW i \in Ids
        PROVE  /\ Holds(txn.slots[i], txn.series[i], i, InPlace \cup Pending)'
               /\ txn'.scopes[i] = ScopesOf(Scoped \cup Pending, i)'
    <3>1. Holds(slots[i], series[i], i, InPlace) /\ scopes[i] = ScopesOf(Scoped, i)
      BY <1>4 DEF TablesKept
    <3>2. Holds(slots[i], series[i], i, InPlace) => Holds(txn.slots[i], txn.series[i], i, InPlace \cup Pending)'
      BY <1>2, <2>1 DEF Holds
    <3>3. ScopesOf(Scoped \cup Pending, i)' = ScopesOf(Scoped, i)
      BY <2>1 DEF ScopesOf, In
    <3> QED
      BY <2>1, <3>1, <3>2, <3>3
  <2>3. DOMAIN txn'.slots = Ids /\ DOMAIN txn'.series = Ids /\ DOMAIN txn'.scopes = Ids
    BY <2>1 DEF Shapes
  <2> QED
    BY <2>2, <2>3 DEF TransactionKept
<1>12. EdgesKept'
  <2> SUFFICES ASSUME ok
               PROVE  EdgesKept'
    BY <1>1 DEF EdgesKept
  <2>1. edges' = Covered
    BY <1>1, <1>3, <1>4 DEF Covered, Staged
  <2>2. Covered' = Covered
    BY <1>2, <1>7, <2>1 DEF Covered
  <2>3. Covered \subseteq EdgesOf(input)
    BY <1>4 DEF Covered, EdgesOf, EdgesKept, Shapes
  <2>4. \A f \in input : task'[f] \notin {"idle", "build"} => task[f] \notin {"idle", "build"}
    BY <1>3, <1>5
  <2> QED
    BY <1>1, <1>2, <1>4, <1>7, <2>1, <2>2, <2>3, <2>4 DEF EdgesKept, EdgesOf
<1>13. FailuresKept'
  BY <1>1, <1>2, <1>3, <1>5 DEF FailuresKept, FailuresWith, losses
<1>14. (\A i \in Ids : Handed(i))' /\ AllHanded' /\ ExpiryCoversMappings' /\ DiscardsCounted'
  BY <1>1, <1>4, NothingHandedOn
<1> QED
  BY <1>8, <1>9, <1>10, <1>11, <1>12, <1>13, <1>14

LEMMA StoreFragmentSteps ==
  ASSUME IInv, NEW f \in input, StoreFragment(f)
  PROVE  IInv'
<1> USE DEF IInv
<1>1. /\ task[f] = "related" /\ task' = [task EXCEPT ![f] = "stored"]
      /\ txn' = [slots |-> SlotsWith(txn.slots, f), series |-> SeriesWith(txn.series, f),
                 scopes |-> [txn.scopes EXCEPT ![Content[f].id] = @ \cup Content[f].scope]]
      /\ UNCHANGED <<config, phase, related, stored, failures, edgesFailed, emitted, broken, losses>>
  BY DEF StoreFragment, SlotsWith, SeriesWith
<1>2. UNCHANGED <<input, entityStore, relationshipStore, mode, unsent, edges, seen>>
  BY <1>1 DEF config, related
<1>3. phase \in {"resolve", "failed"} /\ Open /\ ~Concurrent
  BY <1>1, Running DEF Open, Staged
<1>4. /\ task' \in [Fragments -> States] /\ task'[f] = "stored" /\ f \in Fragments
      /\ (\A g \in Fragments : g # f => task'[g] = task[g]) /\ input \subseteq Fragments
      /\ InPlace' = InPlace \ {f} /\ Scoped' = Scoped \ {f} /\ Pending' = Pending \cup {f}
  BY <1>1, <1>2, TaskMoves, InputTyped DEF States
<1>5. /\ InPlace' = InPlace /\ Scoped' = Scoped /\ Open'
      /\ f \notin InPlace \cup Pending /\ InPlace \cup Pending \subseteq Fragments
  BY <1>1, <1>2, <1>4 DEF InPlace, Scoped, Pending, Open
<1>6. /\ DOMAIN txn.slots = Ids /\ DOMAIN txn.series = Ids /\ DOMAIN txn.scopes = Ids
      /\ mode \in {"latest", "series"}
      /\ \A i \in Ids : /\ Holds(txn.slots[i], txn.series[i], i, InPlace \cup Pending)
                        /\ txn.scopes[i] = ScopesOf(Scoped \cup Pending, i)
  BY <1>3, StoreAssumption DEF TransactionKept, Shapes
<1>7. TransactionKept'
  <2>1. /\ DOMAIN txn'.slots = Ids /\ DOMAIN txn'.series = Ids
        /\ \A i \in Ids : Holds(txn'.slots[i], txn'.series[i], i, (InPlace \cup Pending) \cup {f})
    <3>1. /\ DOMAIN SlotsWith(txn.slots, f) = Ids /\ DOMAIN SeriesWith(txn.series, f) = Ids
          /\ \A i \in Ids : Holds(txn.slots[i], txn.series[i], i, InPlace \cup Pending)
               => Holds(SlotsWith(txn.slots, f)[i], SeriesWith(txn.series, f)[i], i,
                        (InPlace \cup Pending) \cup {f})
      <4> HIDE DEF IInv
      <4> QED
        BY <1>4, <1>5, <1>6, PlaceHolds
    <3>2. txn'.slots = SlotsWith(txn.slots, f) /\ txn'.series = SeriesWith(txn.series, f)
      BY <1>1
    <3> QED
      BY <1>6, <3>1, <3>2
  <2>2. InPlace' \cup Pending' = (InPlace \cup Pending) \cup {f}
    BY <1>4, <1>5
  <2>3. ASSUME NEW i \in Ids
        PROVE  Holds(txn.slots[i], txn.series[i], i, InPlace \cup Pending)'
    BY <1>2, <2>1, <2>2 DEF Holds
  <2>4. DOMAIN txn'.scopes = Ids
    BY <1>1, <1>6
  <2>5. ASSUME NEW i \in Ids
        PROVE  txn'.scopes[i] = ScopesOf(Scoped \cup Pending, i)'
    <3>1. Scoped' \cup Pending' = (Scoped \cup Pending) \cup {f}
      BY <1>4, <1>5
    <3>2. txn'.scopes = [txn.scopes EXCEPT ![Content[f].id] = @ \cup Content[f].scope]
      BY <1>1
    <3>3. CASE i = Content[f].id
      <4>1. In((Scoped \cup Pending) \cup {f}, i) = In(Scoped \cup Pending, i) \cup {f}
        BY <3>3 DEF In
      <4>2. ScopesOf((Scoped \cup Pending) \cup {f}, i) = ScopesOf(Scoped \cup Pending, i) \cup Content[f].scope
        BY <4>1 DEF ScopesOf
      <4>3. ScopesOf(Scoped \cup Pending, i)' = ScopesOf((Scoped \cup Pending) \cup {f}, i)
        BY <3>1 DEF ScopesOf, In
      <4> QED
        BY <1>6, <3>2, <3>3, <4>2, <4>3
    <3>4. CASE i # Content[f].id
      <4>1. In((Scoped \cup Pending) \cup {f}, i) = In(Scoped \cup Pending, i)
        BY <3>4 DEF In
      <4>2. ScopesOf(Scoped \cup Pending, i)' = ScopesOf(Scoped \cup Pending, i)
        BY <3>1, <4>1 DEF ScopesOf, In
      <4> QED
        BY <1>6, <3>2, <3>4, <4>2
    <3> QED
      BY <3>3, <3>4
  <2> QED
    BY <2>1, <2>3, <2>4, <2>5 DEF TransactionKept
<1>8. Shapes'
  BY <1>1, <1>2, <1>4 DEF Shapes, stored, losses
<1>9. Staged'
  BY <1>1, <1>2, <1>3, <1>4, <1>5 DEF Staged, InBatch, Concurrent
<1>10. TablesKept'
  BY <1>1, <1>2, <1>3, <1>5, TablesStay
<1>11. EdgesKept'
  <2>1. Covered' = Covered
    BY <1>1, <1>2, <1>4 DEF Covered
  <2> QED
    BY <1>1, <1>2, <1>3, <1>4, <2>1 DEF EdgesKept
<1>12. FailuresKept'
  BY <1>1, <1>2, <1>4 DEF FailuresKept, losses
<1>13. (\A i \in Ids : Handed(i))' /\ AllHanded' /\ ExpiryCoversMappings' /\ DiscardsCounted'
  BY <1>1, <1>3, NothingHandedOn
<1> QED
  BY <1>7, <1>8, <1>9, <1>10, <1>11, <1>12, <1>13

\* The commit puts the transaction's tables in place.
LEMMA WriteFragmentsSteps ==
  ASSUME IInv, WriteFragments
  PROVE  IInv'
<1> USE DEF IInv
<1> DEFINE B == InBatch("stored")
<1>1. /\ B # {} /\ InBatch("related") = {} /\ MoveBatch(B, "done")
      /\ slots' = txn.slots /\ series' = txn.series /\ scopes' = txn.scopes
      /\ phase' = IF edgesFailed THEN "failed" ELSE phase
      /\ UNCHANGED <<config, related, failures, edgesFailed, emitted, broken, losses>>
  BY DEF WriteFragments
<1>2. UNCHANGED <<input, entityStore, relationshipStore, mode, unsent, edges, seen>>
  BY <1>1 DEF config, related
<1>3. B \in SUBSET input /\ (\A f \in input : f \in B <=> task[f] = "stored") /\ B = Pending
  BY DEF InBatch, Pending
<1>4. phase \in {"resolve", "failed"} /\ phase' \in {"resolve", "failed"} /\ Open /\ ~Concurrent
  BY <1>1, <1>3, Running DEF Open, Staged
<1>5. /\ task' \in [Fragments -> States] /\ (\A f \in B : task'[f] = "done")
      /\ (\A f \in Fragments \ B : task'[f] = task[f]) /\ input \subseteq Fragments
      /\ InPlace' = InPlace \cup B /\ Scoped' = Scoped \cup B /\ Pending' = Pending \ B
  <2>1. "done" \in States /\ "done" # "stored"
    BY DEF States
  <2>2. task' = [f \in Fragments |-> IF f \in B THEN "done" ELSE task[f]] /\ input' = input /\ Shapes
    BY <1>1, <1>2 DEF MoveBatch
  <2>3. B \in SUBSET input /\ input \subseteq Fragments
    BY <1>3, <2>2, InputTyped
  <2> HIDE DEF IInv, B
  <2> QED
    BY <2>1, <2>2, <2>3, BatchMoves
<1> HIDE DEF B
<1>6. ~Open' /\ ~\E f \in input : task'[f] = "prepared"
  BY <1>1, <1>2, <1>3, <1>4, <1>5 DEF Open, InBatch, Staged
<1>7. /\ DOMAIN txn.slots = Ids /\ DOMAIN txn.series = Ids /\ DOMAIN txn.scopes = Ids
      /\ mode \in {"latest", "series"}
      /\ \A i \in Ids : /\ Holds(txn.slots[i], txn.series[i], i, InPlace \cup Pending)
                        /\ txn.scopes[i] = ScopesOf(Scoped \cup Pending, i)
  BY <1>4, StoreAssumption DEF TransactionKept, Shapes
<1>8. TablesKept'
  <2>1. InPlace' = InPlace \cup Pending /\ Scoped' = Scoped \cup Pending
    BY <1>3, <1>5
  <2>2. ASSUME NEW i \in Ids
        PROVE  Holds(slots[i], series[i], i, InPlace)' /\ scopes'[i] = ScopesOf(Scoped, i)'
    <3>1. Holds(txn.slots[i], txn.series[i], i, InPlace \cup Pending)
            => Holds(slots[i], series[i], i, InPlace)'
      BY <1>1, <1>2, <2>1 DEF Holds
    <3>2. ScopesOf(Scoped, i)' = ScopesOf(Scoped \cup Pending, i)
      BY <2>1 DEF ScopesOf, In
    <3> QED
      BY <1>1, <1>7, <3>1, <3>2
  <2> QED
    BY <2>2 DEF TablesKept
<1>9. Shapes'
  <2>1. ASSUME NEW i \in Ids PROVE DOMAIN slots'[i] = Mappings /\ series'[i] \in Seq(Fragments)
    <3>1. <<>> \in Seq(Fragments) /\ DOMAIN Empty = Mappings
      BY DEF Empty
    <3> QED
      BY <1>1, <1>7, <3>1 DEF Holds, SlotsHold, SeriesHolds
  <2> QED
    BY <1>1, <1>2, <1>4, <1>5, <1>7, <2>1 DEF Shapes, losses
<1>10. Staged'
  BY <1>1, <1>2, <1>3, <1>4, <1>5, <1>6 DEF Staged, InBatch, Concurrent
<1>11. TransactionKept'
  BY <1>6 DEF TransactionKept
<1>12. EdgesKept'
  <2>1. Covered' = Covered
    BY <1>1, <1>2, <1>3, <1>5 DEF Covered
  <2> QED
    BY <1>1, <1>2, <1>3, <1>4, <1>5, <2>1 DEF EdgesKept
<1>13. FailuresKept'
  BY <1>1, <1>2, <1>3, <1>5 DEF FailuresKept, losses
<1>14. (\A i \in Ids : Handed(i))' /\ AllHanded' /\ ExpiryCoversMappings' /\ DiscardsCounted'
  BY <1>1, <1>4, NothingHandedOn
<1> QED
  BY <1>8, <1>9, <1>10, <1>11, <1>12, <1>13, <1>14

\* A transaction that fails leaves the tables as they were.
LEMMA WriteFragmentsFailsSteps ==
  ASSUME IInv, WriteFragmentsFails
  PROVE  IInv'
<1> USE DEF IInv
<1> DEFINE B == InBatch("related") \cup InBatch("stored")
<1>1. /\ B # {} /\ MoveBatch(B, "refused") /\ phase' = "failed"
      /\ UNCHANGED <<config, related, stored, failures, edgesFailed, emitted, broken, losses>>
  BY DEF WriteFragmentsFails
<1>2. UNCHANGED <<input, entityStore, relationshipStore, mode, unsent, edges, seen>>
  BY <1>1 DEF config, related
<1>3. B \in SUBSET input /\ \A f \in input : f \in B <=> task[f] \in {"related", "stored"}
  BY DEF InBatch
<1>4. phase \in {"resolve", "failed"} /\ Open /\ ~Concurrent
  BY <1>1, <1>3, Running DEF Open, Staged
<1>5. /\ task' \in [Fragments -> States] /\ (\A f \in B : task'[f] = "refused")
      /\ (\A f \in Fragments \ B : task'[f] = task[f]) /\ input \subseteq Fragments
      /\ InPlace' = InPlace \ B /\ Scoped' = Scoped \ B /\ Pending' = Pending \ B
  <2>1. "refused" \in States /\ "refused" \notin {"scope", "done", "stored"}
    BY DEF States
  <2>2. task' = [f \in Fragments |-> IF f \in B THEN "refused" ELSE task[f]] /\ input' = input /\ Shapes
    BY <1>1, <1>2 DEF MoveBatch
  <2> HIDE DEF IInv, B
  <2> QED
    BY <1>3, <2>1, <2>2, BatchMoves, InputTyped
<1> HIDE DEF B
<1>6. /\ ~Open' /\ InPlace' = InPlace /\ Scoped' = Scoped
      /\ ~\E f \in input : task'[f] = "prepared"
  BY <1>1, <1>2, <1>3, <1>4, <1>5 DEF Open, InBatch, Staged, InPlace, Scoped
<1>7. Shapes'
  BY <1>1, <1>2, <1>5 DEF Shapes, stored, losses
<1>8. Staged'
  BY <1>1, <1>2, <1>3, <1>4, <1>5, <1>6 DEF Staged, InBatch, Concurrent
<1>9. TablesKept' /\ TransactionKept'
  <2>1. TransactionKept'
    BY <1>6 DEF TransactionKept
  <2> QED
    BY <1>1, <1>2, <1>4, <1>6, <2>1, TablesStay
<1>10. EdgesKept'
  <2>1. Covered' = Covered
    BY <1>1, <1>2, <1>3, <1>5 DEF Covered
  <2> QED
    BY <1>1, <1>2, <1>3, <1>4, <1>5, <2>1 DEF EdgesKept
<1>11. FailuresKept'
  BY <1>1, <1>2, <1>3, <1>5 DEF FailuresKept, losses
<1>12. (\A i \in Ids : Handed(i))' /\ AllHanded' /\ ExpiryCoversMappings' /\ DiscardsCounted'
  BY <1>1, <1>4, NothingHandedOn
<1> QED
  BY <1>7, <1>8, <1>9, <1>10, <1>11, <1>12

-----------------------------------------------------------------------------
\* The steps of the scan.

LEMMA BeginAssemblySteps ==
  ASSUME IInv, BeginAssembly
  PROVE  IInv'
<1> USE DEF IInv
<1>1. /\ phase = "resolve" /\ phase' = "assemble" /\ \A f \in input : task[f] = "done"
      /\ UNCHANGED <<config, task, related, stored, txn, failures, edgesFailed, emitted, broken, losses>>
  BY DEF BeginAssembly
<1>2. UNCHANGED <<input, entityStore, relationshipStore, mode, unsent, edges, seen>>
  BY <1>1 DEF config, related
<1>3. InPlace' = InPlace /\ Scoped' = Scoped /\ ~Open /\ ~Open' /\ ~edgesFailed
  BY <1>1, <1>2 DEF InPlace, Scoped, Open, Staged
<1>4. Shapes'
  BY <1>1, <1>2 DEF Shapes, stored, losses
<1>5. Staged'
  BY <1>1, <1>2, <1>3 DEF Staged, InBatch, Concurrent
<1>6. TablesKept' /\ TransactionKept'
  <2>1. TransactionKept'
    BY <1>3 DEF TransactionKept
  <2> QED
    BY <1>1, <1>2, <1>3, <2>1, TablesStay
<1>7. EdgesKept'
  <2>1. Covered' = Covered
    BY <1>1, <1>2 DEF Covered
  <2> QED
    BY <1>1, <1>2, <2>1 DEF EdgesKept
<1>8. FailuresKept'
  BY <1>1, <1>2 DEF FailuresKept, losses
<1>9. (\A i \in Ids : Handed(i))' /\ AllHanded' /\ ExpiryCoversMappings' /\ DiscardsCounted'
  BY <1>1, NothingHandedOn
<1> QED
  BY <1>4, <1>5, <1>6, <1>7, <1>8, <1>9

\* What the scan finds: every fragment of the run in its place, and every edge.
LEMMA Assembling ==
  ASSUME IInv, phase = "assemble"
  PROVE  /\ InPlace = input /\ Scoped = input /\ ~Open /\ edges = EdgesOf(input)
         /\ \A f \in input : task[f] = "done"
<1> USE DEF IInv
<1>1. ~edgesFailed /\ \A f \in input : task[f] = "done"
  BY DEF Staged
<1>2. InPlace = input /\ Scoped = input /\ ~Open
  BY <1>1 DEF InPlace, Scoped, Open
<1>3. Covered = edges
  BY <1>1 DEF Covered
<1>4. edges = EdgesOf(input)
  BY <1>1, <1>3 DEF EdgesKept, EdgesOf
<1> QED
  BY <1>1, <1>2, <1>4

\* An id that is still in its place.
LEMMA Waiting ==
  ASSUME IInv, phase = "assemble", NEW i \in Ids, emitted[i].outcome = "none"
  PROVE  /\ Holds(slots[i], series[i], i, input) /\ scopes[i] = ScopesOf(input, i)
         /\ emitted[i].slots = Empty
         /\ mode \in {"latest", "series"}
         /\ mode = "series" => slots[i] = Empty
         /\ \A m \in Mappings : /\ slots[i][m].discards \in Nat /\ slots[i][m].expires \in Nat
                                /\ slots[i][m].records \in Nat
<1> USE DEF IInv
<1>1. Holds(slots[i], series[i], i, input) /\ scopes[i] = ScopesOf(input, i)
  BY Assembling DEF TablesKept
<1>2. mode \in {"latest", "series"}
  BY StoreAssumption DEF Shapes
<1>3. emitted[i].slots = Empty
  BY DEF Handed
<1>4. ASSUME NEW m \in Mappings
      PROVE  slots[i][m].discards \in Nat /\ slots[i][m].expires \in Nat /\ slots[i][m].records \in Nat
  <2>1. CASE mode = "latest"
    BY <1>1, <2>1 DEF Holds, SlotsHold, StandsFor, IsSlot
  <2>2. CASE mode = "series"
    BY <1>1, <2>2 DEF Holds, Empty, Vacant
  <2> QED
    BY <1>2, <2>1, <2>2
<1> QED
  BY <1>1, <1>2, <1>3, <1>4 DEF Holds

\* An id has records exactly when a fragment of the run is its own.
LEMMA PresentIds ==
  ASSUME IInv, phase = "assemble", NEW i \in Ids, emitted[i].outcome = "none"
  PROVE  In(input, i) # {} => Present(i)
<1> USE DEF IInv
<1> SUFFICES ASSUME NEW f \in In(input, i)
             PROVE  Present(i)
  OBVIOUS
<1>1. f \in input /\ Content[f].id = i /\ Content[f].mapping \in Mappings /\ input \subseteq Fragments
  BY InputTyped, FragmentTyped DEF In
<1>2. Holds(slots[i], series[i], i, input) /\ mode \in {"latest", "series"}
  BY Waiting
<1>3. CASE mode = "latest"
  <2> DEFINE m == Content[f].mapping
  <2>1. f \in Of(input, i, m)
    BY <1>1 DEF Of
  <2>2. slots[i][m].records = Cardinality(Of(input, i, m))
    BY <1>1, <1>2, <1>3 DEF Holds, SlotsHold, StandsFor
  <2>3. Cardinality(Of(input, i, m)) # 0
    BY <1>1, <2>1, OfFinite, FS_EmptySet
  <2>4. slots[i][m] # Vacant
    BY <2>2, <2>3, VacantTyped
  <2> QED
    BY <1>1, <2>4 DEF Present, Slotted
<1>4. CASE mode = "series"
  <2>1. f \in ToSet(series[i])
    BY <1>2, <1>4 DEF Holds, SeriesHolds
  <2> QED
    BY <2>1 DEF ToSet, Present
<1> QED
  BY <1>2, <1>3, <1>4

\* The expiry an id is handed on with covers every mapping that contributed to it.
LEMMA ExpiryCovers ==
  ASSUME IInv, phase = "assemble", NEW i \in Ids, emitted[i].outcome = "none", ExpiryOf(i) # 0,
         NEW m \in {Content[f].mapping : f \in FragmentsOf(i)}
  PROVE  LET declared == {Content[f].expires : f \in {g \in FragmentsOf(i) : Content[g].mapping = m}}
             kept == IF mode = "latest" THEN slots[i][m].expires ELSE Max(declared)
         IN kept # 0 /\ kept <= ExpiryOf(i)
<1> USE DEF IInv
<1> DEFINE declared == {Content[f].expires : f \in {g \in FragmentsOf(i) : Content[g].mapping = m}}
           kept == IF mode = "latest" THEN slots[i][m].expires ELSE Max(declared)
<1>1. input \subseteq Fragments /\ FragmentsOf(i) = In(input, i) /\ IsFiniteSet(Mappings)
  BY InputTyped, StoreAssumption DEF FragmentsOf, In
<1>2. PICK f \in In(input, i) : Content[f].mapping = m
  BY <1>1
<1>3. m \in Mappings /\ f \in Of(input, i, m)
  BY <1>1, <1>2, FragmentTyped DEF In, Of
<1>4. Holds(slots[i], series[i], i, input) /\ mode \in {"latest", "series"}
      /\ \A k \in Mappings : slots[i][k].expires \in Nat
  BY Waiting
<1>5. CASE mode = "latest"
  <2> DEFINE E == {slots[i][k].expires : k \in Slotted(i)}
             h == [k \in Slotted(i) |-> slots[i][k].expires]
  <2>1. slots[i][m].records = Cardinality(Of(input, i, m))
    BY <1>3, <1>4, <1>5 DEF Holds, SlotsHold, StandsFor
  <2>2. m \in Slotted(i)
    BY <1>1, <1>3, <2>1, OfFinite, OneMore, VacantTyped, FS_EmptySet DEF Slotted
  <2>3. E \subseteq Nat /\ slots[i][m].expires \in E
    BY <1>4, <2>2 DEF Slotted
  <2>4. IsFiniteSet(E)
    <3>1. IsFiniteSet(Slotted(i))
      BY <1>1, FS_Subset DEF Slotted
    <3>2. IsFiniteSet({h[k] : k \in Slotted(i)})
      <4> DEFINE S == Slotted(i)
      <4>1. DOMAIN h = S /\ h = [k \in S |-> h[k]]
        OBVIOUS
      <4> HIDE DEF h
      <4> QED
        BY <3>1, <4>1, FiniteValues
    <3>3. {h[k] : k \in Slotted(i)} = E
      OBVIOUS
    <3> QED
      BY <3>2, <3>3
  <2>5. ExpiryOf(i) = JoinExpiries(E)
    BY <1>5 DEF ExpiryOf
  <2> HIDE DEF E
  <2>6. 0 \notin E /\ ExpiryOf(i) = Max(E)
    BY <2>5 DEF JoinExpiries
  <2>7. \A e \in E : e <= Max(E)
    BY <2>3, <2>4, MaxOfFinite
  <2> QED
    BY <1>5, <2>3, <2>6, <2>7
<1>6. CASE mode = "series"
  <2> DEFINE S == {Content[g].mapping : g \in ToSet(series[i])}
             h == [k \in S |-> Max({Content[g].expires : g \in RecordedFor(i, k)})]
             E == {Max({Content[g].expires : g \in RecordedFor(i, k)}) : k \in S}
  <2>1. ToSet(series[i]) = In(input, i)
    BY <1>4, <1>6 DEF Holds, SeriesHolds
  <2>2. S \subseteq Mappings /\ m \in S
    BY <1>1, <1>2, <2>1, FragmentTyped DEF In
  <2>3. ASSUME NEW k \in S
        PROVE  Max({Content[g].expires : g \in RecordedFor(i, k)}) \in Nat
    <3> DEFINE R == RecordedFor(i, k)
               v == [g \in R |-> Content[g].expires]
               V == {Content[g].expires : g \in R}
    <3>1. R \subseteq Fragments /\ R # {} /\ IsFiniteSet(R)
      <4>1. R = Of(input, i, k) /\ R # {}
        BY <2>1, <2>3 DEF RecordedFor, Of, In
      <4> QED
        BY <1>1, <4>1, OfFinite
    <3>2. V \subseteq Nat /\ V # {}
      BY <3>1, FragmentTyped
    <3>3. IsFiniteSet(V)
      <4>1. DOMAIN v = R /\ v = [g \in R |-> v[g]] /\ {v[g] : g \in R} = V
        OBVIOUS
      <4> HIDE DEF v, R
      <4> QED
        BY <3>1, <4>1, FiniteValues
    <3> HIDE DEF V
    <3>4. Max(V) \in Nat
      BY <3>2, <3>3, MaxOfFinite
    <3> QED
      BY <3>4 DEF V
  <2>4. IsFiniteSet(E)
    <3>1. IsFiniteSet(S)
      BY <1>1, <2>2, FS_Subset
    <3>2. DOMAIN h = S /\ h = [k \in S |-> h[k]] /\ {h[k] : k \in S} = E
      OBVIOUS
    <3> HIDE DEF h, S, E
    <3> QED
      BY <3>1, <3>2, FiniteValues
  <2>5. E \subseteq Nat
    BY <2>3
  <2>6. Max(declared) \in E
    <3>1. RecordedFor(i, m) = {g \in FragmentsOf(i) : Content[g].mapping = m}
      BY <1>1, <2>1 DEF RecordedFor
    <3> QED
      BY <2>2, <3>1
  <2>7. ExpiryOf(i) = JoinExpiries(E)
    BY <1>6 DEF ExpiryOf
  <2> HIDE DEF E
  <2>8. 0 \notin E /\ ExpiryOf(i) = Max(E)
    BY <2>7 DEF JoinExpiries
  <2>9. \A e \in E : e <= Max(E)
    BY <2>4, <2>5, <2>6, MaxOfFinite
  <2> QED
    BY <1>6, <2>6, <2>8, <2>9
<1> QED
  BY <1>4, <1>5, <1>6

\* The discards of an id are the failing records that did not keep their slot.
LEMMA DiscardsOfId ==
  ASSUME IInv, phase = "assemble", NEW i \in Ids, emitted[i].outcome = "none", mode = "latest",
         NEW m \in TemporalMappings
  PROVE  /\ slots[i][m].discards + (IF Unresolvable(slots[i][m].timestamp) THEN 1 ELSE 0)
              = Cardinality(Failing(Of(input, i, m)))
         /\ slots[i][m].discards # 0 => m \in failures \/ discarded[m].entities # 0
<1> USE DEF IInv
<1>1. m \in Mappings /\ input \subseteq Fragments
  BY InputTyped, StoreAssumption
<1>2. StandsFor(slots[i][m], Of(input, i, m), m)
  BY <1>1, Waiting DEF Holds, SlotsHold
<1>3. slots[i][m].discards + (IF Unresolvable(slots[i][m].timestamp) THEN 1 ELSE 0)
        = Cardinality(Failing(Of(input, i, m)))
  <2>1. CASE Of(input, i, m) = {}
    <3>1. slots[i][m] = Vacant /\ Failing(Of(input, i, m)) = {}
      BY <1>2, <2>1, FS_EmptySet DEF StandsFor, Failing
    <3> QED
      BY <3>1, FS_EmptySet, VacantTyped
  <2>2. CASE Of(input, i, m) # {}
    BY <1>2 DEF StandsFor, DiscardsOf
  <2> QED
    BY <2>1, <2>2
<1>4. ASSUME slots[i][m].discards # 0
      PROVE  m \in failures \/ discarded[m].entities # 0
  <2>1. slots[i][m].discards \in Nat
    BY <1>1, Waiting
  <2>2. Failing(Of(input, i, m)) # {}
    BY <1>3, <1>4, <2>1, FS_EmptySet
  <2>3. PICK f \in input : Content[f].mapping = m /\ Unresolvable(Content[f].timestamp)
    BY <2>2 DEF Failing, Of
  <2> QED
    BY <2>3, Assembling DEF FailuresKept
<1> QED
  BY <1>3, <1>4

LEMMA EmitIdSteps ==
  ASSUME IInv, NEW i \in Ids, EmitId(i)
  PROVE  IInv'
<1> USE DEF IInv
<1> DEFINE all == IF mode = "latest" THEN 1 ELSE Len(series[i])
           handed(n) == [outcome |-> "units", units |-> n, slots |-> slots[i], scope |-> scopes[i],
                         expires |-> ExpiryOf(i), edges |-> {e \in edges : e.parent = i}]
<1>1. /\ phase = "assemble" /\ ~broken /\ emitted[i].outcome = "none"
      /\ merged' = RecordMerged(i) /\ discarded' = RecordDiscarded(i)
      /\ failures' = failures \ DiscardsTaken(i) /\ Drain(i)
      /\ UNCHANGED <<config, phase, task, related, scopes, txn, edgesFailed>>
  BY DEF EmitId
<1>2. PICK n \in 0..all : broken' = (n < all) /\ emitted' = [emitted EXCEPT ![i] = handed(n)]
  BY DEF EmitId
<1>3. UNCHANGED <<input, entityStore, relationshipStore, mode, unsent, edges, seen>>
  BY <1>1 DEF config, related
<1>4. /\ InPlace = input /\ Scoped = input /\ ~Open /\ edges = EdgesOf(input)
      /\ \A f \in input : task[f] = "done"
  BY <1>1, Assembling
<1>5. /\ Holds(slots[i], series[i], i, input) /\ scopes[i] = ScopesOf(input, i)
      /\ emitted[i].slots = Empty /\ mode \in {"latest", "series"}
      /\ mode = "series" => slots[i] = Empty
      /\ \A m \in Mappings : slots[i][m].discards \in Nat
  BY <1>1, Waiting
<1>6. all \in Nat /\ all = IF mode = "latest" THEN 1 ELSE Cardinality(In(input, i))
  BY <1>5 DEF Holds, SeriesHolds
<1>7. /\ DOMAIN emitted' = Ids /\ emitted'[i] = handed(n)
      /\ \A j \in Ids : j # i => emitted'[j] = emitted[j]
  BY <1>2 DEF Shapes
<1> HIDE DEF all
<1>8. InPlace' = input /\ Scoped' = input /\ ~Open' /\ input' = input /\ input \subseteq Fragments
  BY <1>1, <1>3, <1>4, InputTyped DEF InPlace, Scoped, Open
<1>9. /\ DOMAIN slots' = Ids /\ DOMAIN series' = Ids
      /\ \A j \in Ids : j # i => slots'[j] = slots[j] /\ series'[j] = series[j]
      /\ slots'[i] \in {slots[i], Empty} /\ series'[i] \in {series[i], <<>>}
  BY <1>1 DEF Drain, Shapes, Empty
<1>10. /\ discarded' \in [Mappings -> [entities : Nat, records : Nat]]
       /\ \A m \in Mappings : discarded[m].entities # 0 => discarded'[m].entities # 0
       /\ \A m \in Mappings : m \in failures /\ m \notin failures' => discarded'[m].entities # 0
       /\ \A m \in Mappings :
            (slots[i][m].discards # 0 => m \in failures \/ discarded[m].entities # 0)
              => discarded'[m].records = discarded[m].records + slots[i][m].discards
  <2>1. discarded \in [Mappings -> [entities : Nat, records : Nat]]
    BY DEF Shapes
  <2>2. discarded' = [m \in Mappings |->
          IF slots[i][m].discards = 0 \/ (discarded[m].entities = 0 /\ m \notin failures)
            THEN discarded[m]
            ELSE [entities |-> discarded[m].entities + 1,
                  records |-> discarded[m].records + slots[i][m].discards]]
    BY <1>1 DEF RecordDiscarded
  <2>3. failures' = failures \ {m \in Mappings : slots[i][m].discards > 0}
    BY <1>1 DEF DiscardsTaken
  <2>4. \A m \in Mappings : slots[i][m].discards \in Nat
    BY <1>5
  <2> HIDE DEF IInv
  <2>5. ASSUME NEW m \in Mappings
        PROVE  /\ discarded'[m] \in [entities : Nat, records : Nat]
               /\ discarded[m].entities # 0 => discarded'[m].entities # 0
               /\ m \in failures /\ m \notin failures' => discarded'[m].entities # 0
               /\ (slots[i][m].discards # 0 => m \in failures \/ discarded[m].entities # 0)
                    => discarded'[m].records = discarded[m].records + slots[i][m].discards
    <3> DEFINE d == slots[i][m].discards
               old == discarded[m]
    <3>1. d \in Nat /\ old \in [entities : Nat, records : Nat]
      BY <2>1, <2>4
    <3>2. CASE d = 0 \/ (old.entities = 0 /\ m \notin failures)
      <4>1. discarded'[m] = old
        BY <2>2, <3>2
      <4> QED
        BY <2>3, <3>1, <3>2, <4>1
    <3>3. CASE ~(d = 0 \/ (old.entities = 0 /\ m \notin failures))
      <4>1. discarded'[m] = [entities |-> old.entities + 1, records |-> old.records + d]
        BY <2>2, <3>3
      <4> HIDE DEF d, old
      <4>2. /\ old.entities \in Nat /\ old.records \in Nat
            /\ old.entities + 1 \in Nat /\ old.records + d \in Nat /\ old.entities + 1 # 0
        BY <3>1
      <4> QED
        BY <4>1, <4>2 DEF d, old
    <3> QED
      BY <3>2, <3>3
  <2>6. discarded' \in [Mappings -> [entities : Nat, records : Nat]]
    <3> DEFINE g == discarded'
    <3>1. DOMAIN g = Mappings /\ g = [m \in Mappings |-> g[m]]
      BY <2>2
    <3>2. \A m \in Mappings : g[m] \in [entities : Nat, records : Nat]
      BY <2>5
    <3> HIDE DEF g
    <3>3. g \in [Mappings -> [entities : Nat, records : Nat]]
      BY <3>1, <3>2
    <3> QED
      BY <3>3 DEF g
  <2> QED
    BY <2>5, <2>6
<1>11. Shapes'
  <2>1. \A j \in Ids : DOMAIN slots'[j] = Mappings /\ series'[j] \in Seq(Fragments)
    <3>1. <<>> \in Seq(Fragments) /\ DOMAIN Empty = Mappings
      BY DEF Empty
    <3> QED
      BY <1>9, <3>1 DEF Shapes
  <2>2. DOMAIN merged' = EntityTypes
    <3>1. DOMAIN merged = EntityTypes
      BY DEF Shapes
    <3>2. DOMAIN RecordMerged(i) = DOMAIN merged
      BY DEF RecordMerged
    <3> QED
      BY <1>1, <3>1, <3>2
  <2>3. broken' \in BOOLEAN /\ failures' \subseteq Mappings
    BY <1>1, <1>2 DEF Shapes
  <2> QED
    BY <1>1, <1>3, <1>7, <1>9, <1>10, <2>1, <2>2, <2>3 DEF Shapes
<1>12. Staged'
  BY <1>1, <1>3, <1>4, <1>8 DEF Staged, InBatch, Concurrent
<1>13. TablesKept'
  <2>1. ASSUME NEW j \in Ids, emitted'[j].outcome = "none"
        PROVE  Holds(slots[j], series[j], j, InPlace)' /\ scopes'[j] = ScopesOf(Scoped, j)'
    <3>1. j # i /\ emitted[j].outcome = "none"
      BY <1>7, <2>1
    <3>2. Holds(slots[j], series[j], j, input) /\ scopes[j] = ScopesOf(input, j)
      BY <1>1, <3>1, Waiting
    <3>3. ScopesOf(Scoped, j)' = ScopesOf(input, j)
      BY <1>8 DEF ScopesOf, In
    <3> QED
      BY <1>1, <1>3, <1>8, <1>9, <3>1, <3>2, <3>3 DEF Holds
  <2> QED
    BY <2>1 DEF TablesKept
<1>14. TransactionKept'
  BY <1>8 DEF TransactionKept
<1>15. EdgesKept'
  <2>1. Covered' = Covered
    BY <1>1, <1>3 DEF Covered
  <2> QED
    BY <1>1, <1>3, <2>1 DEF EdgesKept
<1>16. FailuresKept'
  <2>1. \A f \in input : Content[f].mapping \in Mappings
    BY <1>8, FragmentTyped
  <2> QED
    BY <1>1, <1>3, <1>10, <2>1 DEF FailuresKept
<1>17. (\A j \in Ids : Handed(j))'
  <2>1. Handed(i)'
    <3>1. (mode = "latest" => SlotsHold(slots[i], i, input)) /\ (mode = "series" => slots[i] = Empty)
      BY <1>5 DEF Holds
    <3>2. broken' \/ n = IF mode = "latest" THEN 1 ELSE Cardinality(In(input, i))
      <4>1. n \in 0..all /\ (n < all => broken')
        BY <1>2
      <4>2. n = all \/ n < all
        BY <1>6, <4>1
      <4> QED
        BY <1>6, <4>1, <4>2
    <3>3. n \in Nat
      BY <1>2, <1>6
    <3> QED
      BY <1>3, <1>4, <1>5, <1>7, <3>1, <3>2, <3>3 DEF Handed
  <2>2. ASSUME NEW j \in Ids, j # i PROVE Handed(j)'
    <3>1. Handed(j) /\ emitted'[j] = emitted[j]
      BY <1>7, <2>2
    <3> QED
      BY <1>1, <1>3, <3>1 DEF Handed
  <2> QED
    BY <1>3, <2>1, <2>2
<1>18. AllHanded'
  BY <1>1 DEF AllHanded
<1>19. ExpiryCoversMappings'
  <2>1. ASSUME NEW j \in Ids, emitted'[j].outcome = "units", emitted'[j].expires # 0,
               NEW m \in {Content[f].mapping : f \in FragmentsOf(j)}
        PROVE  LET declared == {Content[f].expires : f \in {g \in FragmentsOf(j) : Content[g].mapping = m}}
                   kept == IF mode = "latest" THEN emitted'[j].slots[m].expires ELSE Max(declared)
               IN kept # 0 /\ kept <= emitted'[j].expires
    <3>1. CASE j = i
      <4>1. emitted'[i].expires = ExpiryOf(i) /\ emitted'[i].slots = slots[i]
        BY <1>7
      <4> QED
        BY <1>1, <2>1, <3>1, <4>1, ExpiryCovers
    <3>2. CASE j # i
      BY <1>7, <2>1, <3>2 DEF ExpiryCoversMappings
    <3> QED
      BY <3>1, <3>2
  <2>2. \A j \in Ids : FragmentsOf(j)' = FragmentsOf(j)
    BY <1>3 DEF FragmentsOf
  <2> QED
    BY <1>3, <2>1, <2>2 DEF ExpiryCoversMappings, FragmentsOf
<1>20. DiscardsCounted'
  <2> SUFFICES ASSUME mode = "latest", NEW m \in TemporalMappings
               PROVE  discarded'[m].records + Cardinality(KeptFailing(m)')
                        = Cardinality(HandedFailing(m)')
    BY <1>3 DEF DiscardsCounted
  <2> DEFINE d == slots[i][m].discards
             F == Failing(Of(input, i, m))
             kept == IF Unresolvable(slots[i][m].timestamp) THEN 1 ELSE 0
  <2>1. m \in Mappings /\ d \in Nat /\ IsFiniteSet(Ids) /\ IsFiniteSet(input)
    BY <1>5, StoreAssumption, InputTyped
  <2>2. d + kept = Cardinality(F) /\ discarded'[m].records = discarded[m].records + d
    BY <1>1, <1>10, <2>1, DiscardsOfId
  <2>3. discarded[m].records + Cardinality(KeptFailing(m)) = Cardinality(HandedFailing(m))
    BY DEF DiscardsCounted
  <2>4. Cardinality(KeptFailing(m)') = Cardinality(KeptFailing(m)) + kept
    <3>1. i \notin KeptFailing(m)
      BY <1>5, <2>1, VacantTyped DEF KeptFailing, Empty
    <3>2. KeptFailing(m)' = KeptFailing(m) \cup (IF Unresolvable(slots[i][m].timestamp) THEN {i} ELSE {})
      <4>1. emitted'[i].slots = slots[i]
        BY <1>7
      <4>2. \A j \in Ids : j \in KeptFailing(m)'
                             <=> IF j = i THEN Unresolvable(slots[i][m].timestamp) ELSE j \in KeptFailing(m)
        BY <1>7, <4>1 DEF KeptFailing
      <4>3. KeptFailing(m)' \subseteq Ids /\ KeptFailing(m) \subseteq Ids
        BY DEF KeptFailing
      <4> HIDE DEF IInv
      <4> QED
        BY <3>1, <4>2, <4>3
    <3>3. IsFiniteSet(KeptFailing(m))
      BY <2>1, FS_Subset DEF KeptFailing
    <3>4. CASE Unresolvable(slots[i][m].timestamp)
      BY <3>1, <3>2, <3>3, <3>4, OneMore
    <3>5. CASE ~Unresolvable(slots[i][m].timestamp)
      BY <3>2, <3>3, <3>5, FS_CardinalityType
    <3> QED
      BY <3>4, <3>5
  <2>5. Cardinality(HandedFailing(m)') = Cardinality(HandedFailing(m)) + Cardinality(F)
    <3>1. HandedFailing(m)' = HandedFailing(m) \cup F
      <4>1. ASSUME NEW f \in input
            PROVE  f \in HandedFailing(m)' <=> f \in HandedFailing(m) \/ f \in F
        <5>1. Content[f].id \in Ids
          BY <1>8, FragmentTyped
        <5> QED
          BY <1>1, <1>3, <1>7, <5>1 DEF HandedFailing, Failing, Of
      <4>2. HandedFailing(m)' \subseteq input /\ HandedFailing(m) \cup F \subseteq input
        BY <1>3 DEF HandedFailing, Failing, Of
      <4> QED
        BY <4>1, <4>2
    <3>2. HandedFailing(m) \cap F = {}
      BY <1>1 DEF HandedFailing, Failing, Of
    <3>3. IsFiniteSet(HandedFailing(m)) /\ IsFiniteSet(F)
      <4>1. HandedFailing(m) \subseteq input /\ F \subseteq input
        BY DEF HandedFailing, Failing, Of
      <4> QED
        BY <2>1, <4>1, FS_Subset
    <3> QED
      <4> HIDE DEF F
      <4>1. Cardinality(HandedFailing(m) \cup F)
              = Cardinality(HandedFailing(m)) + Cardinality(F) - Cardinality(HandedFailing(m) \cap F)
        BY <3>3, FS_Union
      <4>2. Cardinality(HandedFailing(m) \cap F) = 0
        BY <3>2, FS_EmptySet
      <4>3. Cardinality(HandedFailing(m)) \in Nat /\ Cardinality(F) \in Nat
        BY <3>3, FS_CardinalityType
      <4> QED
        BY <3>1, <4>1, <4>2, <4>3
  <2>6. /\ Cardinality(KeptFailing(m)) \in Nat /\ Cardinality(HandedFailing(m)) \in Nat
        /\ Cardinality(F) \in Nat /\ discarded[m].records \in Nat
    <3>1. KeptFailing(m) \subseteq Ids /\ HandedFailing(m) \subseteq input /\ F \subseteq input
      BY DEF KeptFailing, HandedFailing, Failing, Of
    <3> QED
      BY <2>1, <3>1, FS_Subset, FS_CardinalityType DEF Shapes
  <2> HIDE DEF d, F
  <2> QED
    BY <2>1, <2>2, <2>3, <2>4, <2>5, <2>6
<1> QED
  BY <1>11, <1>12, <1>13, <1>14, <1>15, <1>16, <1>17, <1>18, <1>19, <1>20

LEMMA EmitIdFailsSteps ==
  ASSUME IInv, NEW i \in Ids, EmitIdFails(i)
  PROVE  IInv'
<1> USE DEF IInv
<1>1. /\ phase = "assemble" /\ ~broken /\ emitted[i].outcome = "none"
      /\ emitted' = [emitted EXCEPT ![i].outcome = "error"] /\ broken' \in BOOLEAN /\ Drain(i)
      /\ UNCHANGED <<config, phase, task, related, scopes, txn, failures, edgesFailed, losses>>
  BY DEF EmitIdFails
<1>2. UNCHANGED <<input, entityStore, relationshipStore, mode, unsent, edges, seen, merged, discarded>>
  BY <1>1 DEF config, related, losses
<1>3. InPlace' = input /\ Scoped' = input /\ ~Open /\ ~Open' /\ \A f \in input : task[f] = "done"
  BY <1>1, <1>2, Assembling DEF InPlace, Scoped, Open
<1>4. emitted[i].slots = Empty
  BY <1>1, Waiting
<1>5. /\ DOMAIN emitted' = Ids /\ \A j \in Ids : j # i => emitted'[j] = emitted[j]
      /\ emitted'[i] = [outcome |-> "error", units |-> emitted[i].units, slots |-> emitted[i].slots,
                        scope |-> emitted[i].scope, expires |-> emitted[i].expires,
                        edges |-> emitted[i].edges]
  <2>1. emitted'[i] = [emitted[i] EXCEPT !.outcome = "error"]
    BY <1>1 DEF Shapes
  <2> DEFINE u == emitted[i].units
             s == emitted[i].slots
             c == emitted[i].scope
             x == emitted[i].expires
             e == emitted[i].edges
             o == emitted[i].outcome
             r == emitted[i]
  <2>2. r = [outcome |-> o, units |-> u, slots |-> s, scope |-> c, expires |-> x, edges |-> e]
    BY DEF Handed
  <2>3. DOMAIN emitted' = Ids /\ \A j \in Ids : j # i => emitted'[j] = emitted[j]
    BY <1>1 DEF Shapes
  <2> HIDE DEF u, s, c, x, e, o, r, IInv
  <2>4. [r EXCEPT !.outcome = "error"]
          = [outcome |-> "error", units |-> u, slots |-> s, scope |-> c, expires |-> x, edges |-> e]
    BY <2>2
  <2> QED
    BY <2>1, <2>3, <2>4 DEF u, s, c, x, e, r
<1>6. /\ DOMAIN slots' = Ids /\ DOMAIN series' = Ids
      /\ \A j \in Ids : j # i => slots'[j] = slots[j] /\ series'[j] = series[j]
      /\ slots'[i] \in {slots[i], Empty} /\ series'[i] \in {series[i], <<>>}
  BY <1>1 DEF Drain, Shapes, Empty
<1>7. Shapes'
  <2>1. \A j \in Ids : DOMAIN slots'[j] = Mappings /\ series'[j] \in Seq(Fragments)
    <3>1. <<>> \in Seq(Fragments) /\ DOMAIN Empty = Mappings
      BY DEF Empty
    <3> QED
      BY <1>6, <3>1 DEF Shapes
  <2> QED
    BY <1>1, <1>2, <1>5, <1>6, <2>1 DEF Shapes
<1>8. Staged'
  BY <1>1, <1>2, <1>3 DEF Staged, InBatch, Concurrent
<1>9. TablesKept'
  <2>1. ASSUME NEW j \in Ids, emitted'[j].outcome = "none"
        PROVE  Holds(slots[j], series[j], j, InPlace)' /\ scopes'[j] = ScopesOf(Scoped, j)'
    <3>1. j # i /\ emitted[j].outcome = "none"
      BY <1>5, <2>1
    <3>2. Holds(slots[j], series[j], j, input) /\ scopes[j] = ScopesOf(input, j)
      BY <1>1, <3>1, Waiting
    <3>3. ScopesOf(Scoped, j)' = ScopesOf(input, j)
      BY <1>3 DEF ScopesOf, In
    <3> QED
      BY <1>1, <1>2, <1>3, <1>6, <3>1, <3>2, <3>3 DEF Holds
  <2> QED
    BY <2>1 DEF TablesKept
<1>10. TransactionKept'
  BY <1>3 DEF TransactionKept
<1>11. EdgesKept'
  <2>1. Covered' = Covered
    BY <1>1, <1>2 DEF Covered
  <2> QED
    BY <1>1, <1>2, <2>1 DEF EdgesKept
<1>12. FailuresKept'
  BY <1>1, <1>2 DEF FailuresKept
<1>13. (\A j \in Ids : Handed(j))'
  <2>1. Handed(i)'
    <3>1. emitted[i].units \in Nat
      BY DEF Handed
    <3> QED
      BY <1>4, <1>5, <3>1 DEF Handed
  <2>2. ASSUME NEW j \in Ids, j # i PROVE Handed(j)'
    <3>1. Handed(j) /\ emitted'[j] = emitted[j]
      BY <1>5, <2>2
    <3> QED
      BY <1>1, <1>2, <3>1 DEF Handed
  <2> QED
    BY <1>2, <2>1, <2>2
<1>14. AllHanded'
  BY <1>1 DEF AllHanded
<1>15. \A j \in Ids : /\ emitted'[j].slots = emitted[j].slots /\ emitted'[j].expires = emitted[j].expires
                      /\ emitted'[j].outcome = "units" <=> emitted[j].outcome = "units"
  BY <1>1, <1>5
<1>16. ExpiryCoversMappings'
  <2>1. ASSUME NEW j \in Ids, emitted'[j].outcome = "units", emitted'[j].expires # 0,
               NEW m \in {Content[f].mapping : f \in FragmentsOf(j)}
        PROVE  LET declared == {Content[f].expires : f \in {g \in FragmentsOf(j) : Content[g].mapping = m}}
                   kept == IF mode = "latest" THEN emitted'[j].slots[m].expires ELSE Max(declared)
               IN kept # 0 /\ kept <= emitted'[j].expires
    <3>1. /\ emitted[j].outcome = "units" /\ emitted'[j].slots = emitted[j].slots
          /\ emitted'[j].expires = emitted[j].expires /\ emitted[j].expires # 0
      BY <1>15, <2>1
    <3> QED
      BY <2>1, <3>1 DEF ExpiryCoversMappings
  <2>2. \A j \in Ids : FragmentsOf(j)' = FragmentsOf(j)
    BY <1>2 DEF FragmentsOf
  <2> QED
    BY <1>2, <2>1, <2>2 DEF ExpiryCoversMappings, FragmentsOf
<1>17. DiscardsCounted'
  <2>1. \A m \in TemporalMappings : KeptFailing(m)' = KeptFailing(m)
    BY <1>15 DEF KeptFailing
  <2>2. \A f \in input : Content[f].id \in Ids
    BY InputTyped, FragmentTyped
  <2>3. \A m \in TemporalMappings : HandedFailing(m)' = HandedFailing(m)
    BY <1>2, <1>15, <2>2 DEF HandedFailing
  <2> QED
    BY <1>2, <2>1, <2>3 DEF DiscardsCounted
<1> QED
  BY <1>7, <1>8, <1>9, <1>10, <1>11, <1>12, <1>13, <1>14, <1>16, <1>17

LEMMA DestroySteps ==
  ASSUME IInv, Destroy
  PROVE  IInv'
<1> USE DEF IInv
<1>1. /\ phase = "assemble" /\ phase' = "done"
      /\ broken \/ \A i \in Ids : Present(i) => emitted[i].outcome # "none"
      /\ slots' = [i \in Ids |-> Empty] /\ series' = [i \in Ids |-> <<>>] /\ scopes' = [i \in Ids |-> {}]
      /\ UNCHANGED <<config, task, unsent, seen, txn, failures, edgesFailed, emitted, broken, losses>>
  BY DEF Destroy, Empty
<1>2. UNCHANGED <<input, entityStore, relationshipStore, mode, merged, discarded>>
  BY <1>1 DEF config, losses
<1>3. ~Open /\ ~Open' /\ \A f \in input : task[f] = "done"
  BY <1>1, <1>2, Assembling DEF Open
<1>4. Shapes'
  <2>1. /\ DOMAIN slots' = Ids /\ DOMAIN series' = Ids /\ DOMAIN scopes' = Ids
        /\ \A i \in Ids : DOMAIN slots'[i] = Mappings /\ series'[i] \in Seq(Fragments)
    BY <1>1 DEF Empty
  <2> QED
    BY <1>1, <1>2, <2>1 DEF Shapes
<1>5. Staged'
  BY <1>1, <1>2, <1>3 DEF Staged, InBatch, Concurrent
<1>6. TablesKept' /\ TransactionKept' /\ EdgesKept'
  BY <1>1, <1>3 DEF TablesKept, TransactionKept, EdgesKept
<1>7. FailuresKept'
  BY <1>1, <1>2 DEF FailuresKept
<1>8. (\A i \in Ids : Handed(i))'
  BY <1>1, <1>2 DEF Handed
<1>9. AllHanded'
  <2>1. ASSUME ~broken, NEW i \in Ids, In(input, i) # {}
        PROVE  emitted[i].outcome # "none"
    BY <1>1, <2>1, PresentIds
  <2> QED
    BY <1>1, <1>2, <2>1 DEF AllHanded, In
<1>10. ExpiryCoversMappings'
  BY <1>1, <1>2 DEF ExpiryCoversMappings, FragmentsOf
<1>11. DiscardsCounted'
  BY <1>1, <1>2 DEF DiscardsCounted, KeptFailing, HandedFailing
<1> QED
  BY <1>4, <1>5, <1>6, <1>7, <1>8, <1>9, <1>10, <1>11

LEMMA Stutters ==
  ASSUME IInv, UNCHANGED vars
  PROVE  IInv'
<1> USE DEF IInv
<1>1. /\ UNCHANGED <<config, phase, task, related, stored, txn, failures, edgesFailed, emitted, broken, losses>>
      /\ UNCHANGED <<input, entityStore, relationshipStore, mode, unsent, edges, seen, slots, series, scopes,
                     merged, discarded>>
  BY DEF vars, config, related, stored, losses
<1>2. Shapes'
  BY <1>1 DEF Shapes
<1>3. InPlace' = InPlace /\ Scoped' = Scoped /\ Pending' = Pending /\ Open' = Open /\ Covered' = Covered
  BY <1>1 DEF InPlace, Scoped, Pending, Open, Covered
<1>4. Staged'
  BY <1>1, <1>3 DEF Staged, InBatch, Concurrent
<1>5. TablesKept' /\ TransactionKept'
  BY <1>1, <1>3, TablesStay, TransactionStays
<1>6. EdgesKept' /\ FailuresKept'
  BY <1>1, <1>3 DEF EdgesKept, FailuresKept
<1>7. (\A i \in Ids : Handed(i))' /\ AllHanded'
  BY <1>1 DEF Handed, AllHanded
<1>8. ExpiryCoversMappings' /\ DiscardsCounted'
  BY <1>1 DEF ExpiryCoversMappings, FragmentsOf, DiscardsCounted, KeptFailing, HandedFailing
<1> QED
  BY <1>2, <1>4, <1>5, <1>6, <1>7, <1>8

-----------------------------------------------------------------------------
\* The invariant.

LEMMA InitIInv ==
  ASSUME Init
  PROVE  IInv
<1> USE DEF Init
<1>1. input \subseteq Fragments /\ mode \in {"latest", "series"} /\ slots = [i \in Ids |-> Empty]
  BY StoreAssumption DEF Empty
<1>2. /\ InPlace = {} /\ Scoped = {} /\ ~Open /\ Covered = {}
      /\ \A f \in input : task[f] = "idle"
  BY <1>1 DEF InPlace, Scoped, Open, Covered
<1>3. Shapes
  <2>1. /\ DOMAIN slots = Ids /\ DOMAIN series = Ids /\ DOMAIN scopes = Ids /\ DOMAIN emitted = Ids
        /\ \A i \in Ids : DOMAIN slots[i] = Mappings /\ series[i] \in Seq(Fragments)
    BY <1>1 DEF Empty
  <2>2. task \in [Fragments -> States]
    BY DEF States
  <2>3. discarded \in [Mappings -> [entities : Nat, records : Nat]]
    OBVIOUS
  <2>4. DOMAIN unsent = Fragments /\ (\A f \in input : unsent[f] \subseteq Content[f].edges)
        /\ DOMAIN merged = EntityTypes
    BY <1>1
  <2> QED
    BY <2>1, <2>2, <2>3, <2>4 DEF Shapes
<1>4. Staged
  BY <1>2 DEF Staged, InBatch, NothingEmitted
<1>5. TablesKept
  BY <1>1, <1>2, NothingHeld DEF TablesKept
<1>6. TransactionKept /\ EdgesKept /\ FailuresKept
  BY <1>2 DEF TransactionKept, EdgesKept, FailuresKept
<1>7. \A i \in Ids : Handed(i)
  BY DEF Handed, NothingEmitted, Empty
<1>8. AllHanded
  BY DEF AllHanded
<1>9. ExpiryCoversMappings
  BY DEF ExpiryCoversMappings, NothingEmitted
<1>10. DiscardsCounted
  <2>1. ASSUME NEW m \in TemporalMappings PROVE KeptFailing(m) = {} /\ HandedFailing(m) = {}
    <3>1. m \in Mappings
      BY StoreAssumption
    <3>2. \A f \in input : Content[f].id \in Ids
      BY <1>1, FragmentTyped
    <3> QED
      BY <3>1, <3>2, VacantTyped DEF KeptFailing, HandedFailing, NothingEmitted
  <2>2. \A m \in TemporalMappings : discarded[m].records = 0
    BY StoreAssumption
  <2> QED
    <3>1. Cardinality({}) = 0
      BY FS_EmptySet
    <3> HIDE DEF Init
    <3> QED
      BY <2>1, <2>2, <3>1 DEF DiscardsCounted
<1> QED
  BY <1>3, <1>4, <1>5, <1>6, <1>7, <1>8, <1>9, <1>10 DEF IInv

\* What Next does is one of the steps above.
LEMMA NextKeepsIInv ==
  ASSUME IInv, [Next]_vars
  PROVE  IInv'
<1>1. CASE \E f \in input : TaskStep(f)
  <2>1. PICK f \in input : TaskStep(f)
    BY <1>1
  <2> QED
    BY <2>1, BuildEdgesSteps, AddChildrenSteps, PlacedSteps, LookupMissesSteps, MergeScopeSteps
    DEF TaskStep
<1>2. CASE \E ok \in BOOLEAN : WriteEdges(ok)
  BY <1>2, WriteEdgesSteps
<1>3. CASE \E f \in input : StoreFragment(f)
  BY <1>3, StoreFragmentSteps
<1>4. CASE \E i \in Ids : EmitId(i) \/ EmitIdFails(i)
  BY <1>4, EmitIdSteps, EmitIdFailsSteps
<1>5. CASE \/ TakeBatchConcurrent \/ PrepareBatch \/ WriteFragments \/ WriteFragmentsFails
           \/ BeginAssembly \/ Destroy \/ UNCHANGED vars
  BY <1>5, TakeBatchSteps, PrepareBatchSteps, WriteFragmentsSteps, WriteFragmentsFailsSteps,
     BeginAssemblySteps, DestroySteps, Stutters
<1> QED
  BY <1>1, <1>2, <1>3, <1>4, <1>5 DEF Next

\* At every state of every run the invariant holds.
THEOREM StoreInvariant == Spec => []IInv
<1>1. Init => IInv
  BY InitIInv
<1>2. IInv /\ [Next]_vars => IInv'
  BY NextKeepsIInv
<1> QED
  BY <1>1, <1>2, PTL DEF Spec

-----------------------------------------------------------------------------
\* What the invariant says of the run's properties.

\* The records of an id, in the store or as they were handed on, stand for exactly what
\* has been placed.
LEMMA SlotStands ==
  ASSUME IInv, mode = "latest", NEW i \in Ids, NEW m \in Mappings, Readable(i)
  PROVE  StandsFor(SlotOf(i, m), Written(i, m), m)
<1> USE DEF IInv
<1>1. Written(i, m) = Of(InPlace, i, m)
  BY DEF Written, Of, InPlace
<1>2. CASE emitted[i].outcome = "units"
  <2>1. phase \in {"assemble", "done"}
    BY <1>2 DEF Staged, Shapes
  <2>2. InPlace = input
    BY <2>1 DEF Staged, InPlace
  <2>3. SlotsHold(emitted[i].slots, i, input)
    BY <1>2 DEF Handed
  <2> QED
    BY <1>1, <1>2, <2>2, <2>3 DEF SlotOf, SlotsHold
<1>3. CASE emitted[i].outcome # "units"
  BY <1>1, <1>3 DEF SlotOf, Readable, TablesKept, Holds, SlotsHold
<1> QED
  BY <1>2, <1>3

LEMMA IInvTyped == IInv => TypeOK
<1> SUFFICES ASSUME IInv
             PROVE  TypeOK
  OBVIOUS
<1> USE DEF IInv
<1>1. \A i \in Ids : ToSet(series[i]) \subseteq Fragments
  BY DEF Shapes, ToSet
<1>2. \A i \in Ids : emitted[i].outcome \in {"none", "units", "error"} /\ emitted[i].units \in Nat
  BY DEF Handed
<1> QED
  BY <1>1, <1>2 DEF TypeOK, Shapes, States

\* Nothing that is placed is lost, and nothing is stored that was not placed: in both
\* stores and both modes, for any batches and any interleaving of their tasks, and
\* whether or not a transaction commits (store_fragment, store_fragment_batch).
THEOREM RecordsKept == Spec => []NoRecordLost
<1>1. IInv => NoRecordLost
  <2> SUFFICES ASSUME IInv
               PROVE  NoRecordLost
    OBVIOUS
  <2>1. ASSUME mode = "latest", NEW i \in Ids, NEW m \in Mappings, Readable(i)
        PROVE  SlotOf(i, m).records = Cardinality(Written(i, m))
    BY <2>1, SlotStands DEF StandsFor
  <2>2. ASSUME mode = "series", NEW i \in Ids, emitted[i].outcome = "none", phase # "done"
        PROVE  /\ ToSet(series[i]) = UNION {Written(i, m) : m \in Mappings}
               /\ Len(series[i]) = Cardinality(ToSet(series[i]))
    <3>1. SeriesHolds(series[i], i, InPlace)
      BY <2>2 DEF IInv, TablesKept, Holds
    <3>2. \A f \in input : Content[f].mapping \in Mappings
      BY InputTyped, FragmentTyped DEF IInv
    <3>3. In(InPlace, i) = UNION {Written(i, m) : m \in Mappings}
      BY <3>2 DEF In, InPlace, Written
    <3> QED
      BY <3>1, <3>3 DEF SeriesHolds
  <2> QED
    BY <2>1, <2>2, IInvTyped DEF NoRecordLost
<1> QED
  BY <1>1, StoreInvariant, PTL

\* A temporal slot is one placed record whole, and none placed is later (supersede); a
\* static one has kept every field of every record merged into it (deep_merge).
THEOREM SlotsFaithful == Spec => []SlotIsFaithful
<1>1. IInv => SlotIsFaithful
  <2> SUFFICES ASSUME IInv
               PROVE  SlotIsFaithful
    OBVIOUS
  <2>1. LatestRetained
    <3>1. ASSUME mode = "latest", NEW i \in Ids, NEW m \in TemporalMappings, Readable(i),
                 Written(i, m) # {}
          PROVE  LatestOf(SlotOf(i, m), Written(i, m))
      <4>1. m \in Mappings
        BY StoreAssumption
      <4> QED
        BY <3>1, <4>1, SlotStands DEF StandsFor
    <3> QED
      BY <3>1 DEF LatestRetained, LatestOf, Whole
  <2>2. EveryFieldKept
    <3>1. ASSUME mode = "latest", NEW i \in Ids, NEW m \in Mappings \ TemporalMappings, Readable(i),
                 Written(i, m) # {}
          PROVE  Merges(SlotOf(i, m).data, SlotOf(i, m).conflict, RecordsIn(Written(i, m)), Reads[m])
      BY <3>1, SlotStands DEF StandsFor, MergedFrom
    <3> QED
      BY <3>1 DEF EveryFieldKept, Merges, RecordsIn
  <2> QED
    BY <2>1, <2>2 DEF SlotIsFaithful
<1> QED
  BY <1>1, StoreInvariant, PTL

\* A scan that was not cut short has handed every id on, whole, with every scope and every
\* edge of its fragments, and never with an expiry its mappings do not all declare
\* (drive_assembly, build_edges, join).
THEOREM EmittedComplete == Spec => []EmittedIsComplete
<1>1. IInv => EmittedIsComplete
  <2> SUFFICES ASSUME IInv
               PROVE  EmittedIsComplete
    OBVIOUS
  <2> USE DEF IInv
  <2>1. ASSUME Undisturbed, NEW i \in {Content[f].id : f \in input}
        PROVE  /\ emitted[i].outcome = "units"
               /\ emitted[i].units = IF mode = "latest" THEN 1 ELSE Cardinality(FragmentsOf(i))
               /\ emitted[i].scope = UNION {Content[f].scope : f \in FragmentsOf(i)}
               /\ emitted[i].edges = {e \in UNION {Content[f].edges : f \in input} : e.parent = i}
    <3>1. i \in Ids /\ In(input, i) # {} /\ FragmentsOf(i) = In(input, i)
      BY InputTyped, FragmentTyped DEF In, FragmentsOf
    <3>2. phase = "done" /\ ~broken /\ emitted[i].outcome # "error"
      BY <2>1, <3>1 DEF Undisturbed
    <3>3. emitted[i].outcome = "units"
      BY <3>1, <3>2 DEF AllHanded, Handed
    <3> QED
      BY <3>1, <3>2, <3>3 DEF Handed, ScopesOf, EdgesOf
  <2> QED
    BY <2>1 DEF EmittedIsComplete
<1> QED
  BY <1>1, StoreInvariant, PTL

\* Each observedAt that could not be resolved is counted once, as a discarded record or as
\* the one that kept its slot (SlotRanking::rank, DiscardedObservations::record).
THEOREM DiscardsReported == Spec => []DiscardsReportedOnce
<1>1. IInv => DiscardsReportedOnce
  <2> SUFFICES ASSUME IInv, Undisturbed, mode = "latest", NEW m \in TemporalMappings
               PROVE  discarded[m].records
                        + Cardinality({i \in Ids : Unresolvable(emitted[i].slots[m].timestamp)})
                      = Cardinality({f \in input : Content[f].mapping = m
                                                     /\ Unresolvable(Content[f].timestamp)})
    BY DEF DiscardsReportedOnce
  <2> USE DEF IInv
  <2>1. ASSUME NEW f \in input
        PROVE  emitted[Content[f].id].outcome = "units"
    <3> DEFINE i == Content[f].id
    <3>1. i \in Ids /\ f \in In(input, i)
      BY InputTyped, FragmentTyped DEF In
    <3>2. phase = "done" /\ ~broken /\ emitted[i].outcome # "error"
      BY <3>1 DEF Undisturbed
    <3> QED
      BY <3>1, <3>2 DEF AllHanded, Handed
  <2>2. HandedFailing(m) = {f \in input : Content[f].mapping = m /\ Unresolvable(Content[f].timestamp)}
    BY <2>1 DEF HandedFailing
  <2> QED
    BY <2>2 DEF DiscardsCounted, KeptFailing
<1> QED
  BY <1>1, StoreInvariant, PTL

-----------------------------------------------------------------------------
\* The report of merged records.

\* The mappings of an id that was handed on whose records disagree, and how many records
\* each of its mappings had.
DisagreeingIn(i) == {m \in Mappings : CountsRecordsOf(m) /\ emitted[i].slots[m].conflict # NoPath}
CountsIn(i) == [m \in Mappings |-> emitted[i].slots[m].records]

\* The example of a type is first among the ids counted.
FirstAmong(merge, I) ==
  /\ merge.id \in I /\ merge.records = MergedRecordsOf(merge.id)
  /\ \A i \in I : \/ MergedRecordsOf(i) < merge.records
                  \/ MergedRecordsOf(i) = merge.records /\ merge.id <= i

ExemplarsKept ==
  mode = "latest" =>
    \A t \in EntityTypes :
      /\ merged[t].ids = Cardinality(MergedIds(t))
      /\ MergedIds(t) # {} => FirstAmong(merged[t], MergedIds(t))

\* The two ways to name what was handed on.
Named ==
  /\ \A i \in Ids : MergedRecordsOf(i) = SumFunctionOnSet(CountsIn(i), DisagreeingIn(i))
  /\ \A t \in EntityTypes : MergedIds(t) =
       {i \in Ids : DisagreeingIn(i) # {} /\ EntityTypeOf[Min(DisagreeingIn(i))] = t}

LEMMA MergedIn == Named
BY DEF Named, MergedRecordsOf, CountsIn, DisagreeingIn, MergedIds

\* The same in the next state.
LEMMA MergedInNext == Named'
BY MergedIn, PTL

\* A sum of records is a number.
LEMMA RecordsTyped == IInv => \A i \in Ids : MergedRecordsOf(i) \in Nat
<1> SUFFICES ASSUME IInv, NEW i \in Ids
             PROVE  MergedRecordsOf(i) \in Nat
  OBVIOUS
<1> USE DEF IInv
<1>1. ASSUME NEW m \in Mappings PROVE emitted[i].slots[m].records \in Nat
  <2>1. CASE emitted[i].slots = Empty
    BY <2>1, VacantTyped DEF Empty
  <2>2. CASE SlotsHold(emitted[i].slots, i, input)
    BY <2>2 DEF SlotsHold, StandsFor, IsSlot
  <2> QED
    BY <2>1, <2>2 DEF Handed
<1>2. IsFiniteSet(DisagreeingIn(i)) /\ DisagreeingIn(i) \subseteq Mappings
  BY StoreAssumption, FS_Subset DEF DisagreeingIn
<1>3. \A m \in DisagreeingIn(i) : CountsIn(i)[m] \in Nat
  BY <1>1, <1>2 DEF CountsIn
<1> QED
  BY <1>2, <1>3, SumTyped, MergedIn DEF Named

\* The same in the next state.
LEMMA RecordsTypedNext == (IInv => \A i \in Ids : MergedRecordsOf(i) \in Nat)'
BY RecordsTyped, PTL

\* Nothing is reported before the first id is handed on.
LEMMA InitExemplars ==
  ASSUME Init
  PROVE  ExemplarsKept
<1>1. ASSUME NEW i \in Ids PROVE DisagreeingIn(i) = {}
  BY DEF Init, DisagreeingIn, NothingEmitted, Vacant
<1>2. \A t \in EntityTypes : MergedIds(t) = {}
  BY <1>1, MergedIn DEF Named
<1>3. \A t \in EntityTypes : merged[t].ids = 0
  BY DEF Init, NoMerge
<1> QED
  BY <1>2, <1>3, FS_EmptySet DEF ExemplarsKept

\* As long as no id is handed on, the report stays.
LEMMA ReportStays ==
  ASSUME ExemplarsKept, UNCHANGED <<mode, merged>>,
         \A i \in Ids : emitted'[i].slots = emitted[i].slots
  PROVE  ExemplarsKept'
<1>1. \A i \in Ids : DisagreeingIn(i)' = DisagreeingIn(i) /\ CountsIn(i)' = CountsIn(i)
  BY DEF DisagreeingIn, CountsIn
<1>2. \A i \in Ids : MergedRecordsOf(i)' = MergedRecordsOf(i)
  BY <1>1, MergedIn, MergedInNext DEF Named
<1>3. \A t \in EntityTypes : MergedIds(t)' = MergedIds(t) /\ MergedIds(t) \subseteq Ids
  BY <1>1, MergedIn, MergedInNext DEF Named
<1> QED
  BY <1>2, <1>3 DEF ExemplarsKept, FirstAmong

\* An id that is handed on is counted once, and is the example if it ranks first.
LEMMA EmitIdReports ==
  ASSUME IInv, IInv', ExemplarsKept, NEW i \in Ids, EmitId(i)
  PROVE  ExemplarsKept'
<1>1. /\ phase = "assemble" /\ emitted[i].outcome = "none" /\ merged' = RecordMerged(i)
      /\ UNCHANGED mode /\ DOMAIN emitted = Ids /\ DOMAIN merged = EntityTypes
  BY DEF EmitId, config, IInv, Shapes
<1>2. emitted'[i].slots = slots[i] /\ \A j \in Ids : j # i => emitted'[j] = emitted[j]
  BY <1>1 DEF EmitId
<1>3. emitted[i].slots = Empty
  BY <1>1, Waiting
<1> SUFFICES ASSUME mode = "latest", NEW t \in EntityTypes
             PROVE  /\ merged'[t].ids = Cardinality(MergedIds(t)')
                    /\ MergedIds(t)' # {} => FirstAmong(merged[t], MergedIds(t))'
  BY <1>1 DEF ExemplarsKept
<1> DEFINE D == Disagreeing(i)
           I == MergedIds(t)
           new == RecordMerge(i)
           type == EntityTypeOf[Min(D)]
<1>4. DisagreeingIn(i) = {} /\ DisagreeingIn(i)' = D
  BY <1>2, <1>3 DEF DisagreeingIn, Disagreeing, ConflictOf, Empty, Vacant
<1>5. /\ CountsIn(i)' = [m \in Mappings |-> RecordsOf(i, m)]
      /\ \A j \in Ids : j # i => CountsIn(j)' = CountsIn(j) /\ DisagreeingIn(j)' = DisagreeingIn(j)
  BY <1>2 DEF CountsIn, RecordsOf, DisagreeingIn
<1>6. /\ MergedRecordsOf(i)' = new.records /\ new.id = i
      /\ \A j \in Ids : j # i => MergedRecordsOf(j)' = MergedRecordsOf(j)
  <2>1. MergedRecordsOf(i)' = SumFunctionOnSet([m \in Mappings |-> RecordsOf(i, m)], D)
    BY <1>4, <1>5, MergedInNext DEF Named
  <2> QED
    BY <1>5, <2>1, MergedIn, MergedInNext DEF Named, RecordMerge
<1>7. \A j \in Ids : MergedRecordsOf(j) \in Nat /\ MergedRecordsOf(j)' \in Nat
  BY RecordsTyped, RecordsTypedNext
<1>8. I \subseteq Ids /\ IsFiniteSet(I) /\ i \notin I /\ Ids \subseteq Nat
  BY <1>4, MergedIn, StoreAssumption, FS_Subset DEF Named
<1>9. MergedIds(t)' = IF D # {} /\ type = t THEN I \cup {i} ELSE I
  BY <1>4, <1>5, MergedIn, MergedInNext DEF Named
<1>10. /\ merged[t].ids = Cardinality(I) /\ (I # {} => FirstAmong(merged[t], I))
       /\ (merged[t].ids = 0 <=> I = {}) /\ Cardinality(I) \in Nat
  BY <1>8, FS_EmptySet, FS_CardinalityType DEF ExemplarsKept
<1> DEFINE old == merged[t]
           takes == old.ids = 0 \/ RanksFirst(new, old)
<1>11. CASE D # {} /\ type = t
  <2>1. /\ merged'[t].ids = old.ids + 1
        /\ merged'[t].id = IF takes THEN new.id ELSE old.id
        /\ merged'[t].records = IF takes THEN new.records ELSE old.records
    BY <1>1, <1>11 DEF RecordMerged
  <2>2. Cardinality(I \cup {i}) = Cardinality(I) + 1 /\ MergedIds(t)' = I \cup {i}
    BY <1>8, <1>9, <1>11, OneMore
  <2>3. \A j \in I : MergedRecordsOf(j)' = MergedRecordsOf(j) /\ j \in Nat
    BY <1>6, <1>8
  <2>4. FirstAmong(merged[t], MergedIds(t))'
    <3>1. CASE takes
      <4>1. merged'[t].id = i /\ merged'[t].records = MergedRecordsOf(i)'
        BY <1>6, <2>1, <3>1
      <4>2. ASSUME NEW j \in I
            PROVE  \/ MergedRecordsOf(j)' < MergedRecordsOf(i)'
                   \/ MergedRecordsOf(j)' = MergedRecordsOf(i)' /\ i <= j
        <5>1. FirstAmong(old, I) /\ RanksFirst(new, old)
          BY <1>10, <3>1
        <5>2. old.id \in I /\ old.id \in Nat /\ old.records = MergedRecordsOf(old.id) /\ old.records \in Nat
          BY <1>7, <1>8, <5>1 DEF FirstAmong
        <5>3. \/ MergedRecordsOf(j) < old.records
              \/ MergedRecordsOf(j) = old.records /\ old.id <= j
          BY <5>1 DEF FirstAmong
        <5>4. \/ MergedRecordsOf(i)' > old.records
              \/ MergedRecordsOf(i)' = old.records /\ old.id > i
          BY <1>6, <5>1 DEF RanksFirst
        <5>5. /\ MergedRecordsOf(j)' = MergedRecordsOf(j) /\ MergedRecordsOf(j) \in Nat
              /\ MergedRecordsOf(i)' \in Nat /\ i \in Nat /\ j \in Nat
          BY <1>7, <1>8, <2>3
        <5> QED
          BY <5>2, <5>3, <5>4, <5>5
      <4>3. i \in Nat /\ MergedRecordsOf(i)' \in Nat
        BY <1>7, <1>8
      <4> QED
        BY <2>2, <4>1, <4>2, <4>3 DEF FirstAmong
    <3>2. CASE ~takes
      <4>1. I # {} /\ FirstAmong(old, I) /\ ~RanksFirst(new, old)
        BY <1>10, <3>2
      <4>2. PICK k \in I : k = old.id /\ old.records = MergedRecordsOf(k)
        BY <4>1 DEF FirstAmong
      <4>3. /\ merged'[t].id = k /\ merged'[t].records = MergedRecordsOf(k)'
            /\ merged'[t].records = old.records /\ k \in Nat /\ old.records \in Nat
        BY <1>7, <1>8, <2>1, <2>3, <3>2, <4>2
      <4>4. /\ MergedRecordsOf(i)' \in Nat /\ i \in Nat
            /\ ~(MergedRecordsOf(i)' > old.records)
            /\ ~(MergedRecordsOf(i)' = old.records /\ old.id > i)
        BY <1>6, <1>7, <1>8, <4>1 DEF RanksFirst
      <4>5. \/ MergedRecordsOf(i)' < old.records
            \/ MergedRecordsOf(i)' = old.records /\ k <= i
        BY <4>2, <4>3, <4>4
      <4>6. \A j \in I : \/ MergedRecordsOf(j)' < old.records
                         \/ MergedRecordsOf(j)' = old.records /\ k <= j
        BY <2>3, <4>1, <4>2 DEF FirstAmong
      <4> HIDE DEF I, old
      <4> QED
        BY <2>2, <4>2, <4>3, <4>5, <4>6 DEF FirstAmong
    <3> QED
      BY <3>1, <3>2
  <2> QED
    BY <1>10, <2>1, <2>2, <2>4
<1>12. CASE ~(D # {} /\ type = t)
  <2>1. merged'[t] = merged[t]
    BY <1>1, <1>12 DEF RecordMerged
  <2>2. MergedIds(t)' = I /\ \A j \in I : MergedRecordsOf(j)' = MergedRecordsOf(j)
    BY <1>6, <1>8, <1>9, <1>12
  <2> QED
    BY <1>10, <2>1, <2>2 DEF FirstAmong
<1> QED
  BY <1>11, <1>12

\* No step but handing on an id changes the report.
LEMMA NextKeepsExemplars ==
  ASSUME IInv, IInv', ExemplarsKept, [Next]_vars
  PROVE  ExemplarsKept'
<1>1. CASE \E i \in Ids : EmitId(i)
  BY <1>1, EmitIdReports
<1>2. CASE \E i \in Ids : EmitIdFails(i)
  <2>1. PICK i \in Ids : EmitIdFails(i)
    BY <1>2
  <2>2. UNCHANGED <<mode, merged>> /\ emitted' = [emitted EXCEPT ![i].outcome = "error"]
    BY <2>1 DEF EmitIdFails, config, losses
  <2>3. \A j \in Ids : emitted'[j].slots = emitted[j].slots
    <3>1. DOMAIN emitted = Ids /\ Handed(i)
      BY DEF IInv, Shapes
    <3>2. emitted'[i].slots = emitted[i].slots /\ \A j \in Ids : j # i => emitted'[j] = emitted[j]
      BY <2>2, <3>1 DEF Handed
    <3> QED
      BY <3>2
  <2> QED
    BY <2>2, <2>3, ReportStays
<1>3. CASE UNCHANGED <<mode, merged, emitted>>
  BY <1>3, ReportStays
<1>4. CASE \E f \in input : TaskStep(f)
  BY <1>3, <1>4 DEF TaskStep, BuildEdges, AddChildren, LookupHits, LookupMisses, InsertAfterMiss,
                    MergeScope, config, losses
<1>5. CASE \/ TakeBatchConcurrent \/ PrepareBatch \/ (\E ok \in BOOLEAN : WriteEdges(ok))
           \/ (\E f \in input : StoreFragment(f)) \/ WriteFragments \/ WriteFragmentsFails
           \/ BeginAssembly \/ Destroy \/ UNCHANGED vars
  BY <1>3, <1>5 DEF TakeBatchConcurrent, PrepareBatch, WriteEdges, StoreFragment, WriteFragments,
                    WriteFragmentsFails, BeginAssembly, Destroy, vars, config, losses
<1> QED
  BY <1>1, <1>2, <1>4, <1>5 DEF Next

-----------------------------------------------------------------------------
\* The order of arrival does not matter.

\* The pairs of a mapping's records, as the property and as the lemmas name them.
LEMMA PairsDispute ==
  ASSUME IInv, NEW i \in Ids, NEW m \in Mappings
  PROVE  /\ PairConflicts(i, m) = Disputes(RecordsIn(Written(i, m)), Reads[m])
         /\ PairConflicts(i, m) \subseteq Paths
<1> DEFINE W == Written(i, m)
           R == RecordsIn(W)
<1>1. W \subseteq Fragments
  BY InputTyped DEF IInv, Written
<1>2. \A f \in W : IsRecord(Content[f].data)
  BY <1>1, FragmentTyped
<1>3. ASSUME NEW c \in PairConflicts(i, m) PROVE c \in Disputes(R, Reads[m]) /\ c \in Paths
  <2>1. PICK p \in W \X W : c \in Conflicts(Content[p[1]].data, Content[p[2]].data, Reads[m])
    BY <1>3 DEF PairConflicts
  <2>2. p[1] \in W /\ p[2] \in W
    BY <2>1
  <2> DEFINE a == Content[p[1]].data
             b == Content[p[2]].data
  <2>3. a \in R /\ b \in R /\ IsRecord(a) /\ IsRecord(b)
    BY <1>2, <2>2 DEF RecordsIn
  <2>4. c \in Conflicts(a, b, Reads[m])
    BY <2>1
  <2> HIDE DEF a, b, R
  <2> QED
    BY <2>3, <2>4, DisputeIn, ConflictsArePaths DEF IsRecord
<1>4. ASSUME NEW c \in Disputes(R, Reads[m]) PROVE c \in PairConflicts(i, m)
  <2>1. PICK a \in R, b \in R : c \in Conflicts(a, b, Reads[m])
    BY <1>4, DisputeIn
  <2>2. PICK f \in W, g \in W : a = Content[f].data /\ b = Content[g].data
    BY DEF RecordsIn
  <2>3. f # g
    <3>1. Conflicts(a, a, Reads[m]) = {}
      BY <1>2, <2>2, NoConflictWithItself
    <3> QED
      BY <2>1, <2>2, <3>1
  <2>4. <<f, g>> \in {q \in W \X W : q[1] # q[2]}
    BY <2>3
  <2> QED
    BY <2>1, <2>2, <2>4 DEF PairConflicts
<1> HIDE DEF R
<1> QED
  BY <1>3, <1>4 DEF R

\* A slot's conflict, or a series', is the earliest of its pairs of records.
LEMMA ConflictsOrderFree == IInv => ConflictIsOrderFree
<1> SUFFICES ASSUME IInv, NEW i \in Ids, NEW m \in Mappings \ TemporalMappings
             PROVE  /\ mode = "latest" /\ Readable(i) =>
                         SlotOf(i, m).conflict = EarliestOf(PairConflicts(i, m))
                    /\ mode = "series" /\ emitted[i].outcome = "none" /\ phase # "done" =>
                         ConflictOf(i, m) = EarliestOf(PairConflicts(i, m))
  BY DEF ConflictIsOrderFree
<1> DEFINE R == RecordsIn(Written(i, m))
<1>1. PairConflicts(i, m) = Disputes(R, Reads[m]) /\ PairConflicts(i, m) \subseteq Paths
  BY PairsDispute
<1>2. ASSUME NEW D, NEW c, Merges(D, c, R, Reads[m]) PROVE c = EarliestOf(PairConflicts(i, m))
  BY <1>1, <1>2, EarliestIsOne DEF Merges
<1>3. ASSUME mode = "latest", Readable(i) PROVE SlotOf(i, m).conflict = EarliestOf(PairConflicts(i, m))
  <2> DEFINE s == SlotOf(i, m)
             W == Written(i, m)
  <2>1. StandsFor(s, W, m)
    BY <1>3, SlotStands
  <2>2. CASE W # {}
    BY <1>2, <2>1, <2>2 DEF StandsFor, MergedFrom
  <2>3. CASE W = {}
    <3>1. s.conflict = NoPath
      BY <2>1, <2>3, FS_EmptySet DEF StandsFor, Vacant
    <3>2. PairConflicts(i, m) = {}
      BY <2>3 DEF PairConflicts
    <3> QED
      BY <3>1, <3>2 DEF EarliestOf
  <2> QED
    BY <2>2, <2>3
<1>4. ASSUME mode = "series", emitted[i].outcome = "none", phase # "done"
      PROVE  ConflictOf(i, m) = EarliestOf(PairConflicts(i, m))
  <2> DEFINE q == series[i]
  <2>1. q \in Seq(Fragments) /\ ToSet(q) = In(InPlace, i)
    BY <1>4 DEF IInv, TablesKept, Holds, SeriesHolds
  <2>2. {f \in ToSet(q) : Content[f].mapping = m} = Written(i, m)
    BY <2>1 DEF In, InPlace, Written
  <2>3. Merges(Folded(q, m).merged, Folded(q, m).found, R, Reads[m])
    BY <2>1, <2>2, FoldedMerges
  <2>4. ConflictOf(i, m) = Folded(q, m).found
    BY <1>4 DEF ConflictOf, Folded
  <2> QED
    BY <1>2, <2>3, <2>4
<1> QED
  BY <1>3, <1>4

\* First among the ids counted means most records, then the lowest id.
LEMMA ExemplarsOrderFree == IInv /\ ExemplarsKept => ExemplarIsOrderFree
<1> SUFFICES ASSUME IInv, ExemplarsKept, mode = "latest", NEW t \in EntityTypes
             PROVE  /\ merged[t].ids = Cardinality(MergedIds(t))
                    /\ merged[t].ids > 0 =>
                         /\ merged[t].records = Max({MergedRecordsOf(i) : i \in MergedIds(t)})
                         /\ merged[t].id =
                              Min({i \in MergedIds(t) : MergedRecordsOf(i) = merged[t].records})
  BY DEF ExemplarIsOrderFree
<1> DEFINE I == MergedIds(t)
           S == {MergedRecordsOf(i) : i \in I}
           J == {i \in I : MergedRecordsOf(i) = merged[t].records}
<1>1. I \subseteq Ids /\ Ids \subseteq Nat
  BY MergedIn, StoreAssumption DEF Named
<1>2. merged[t].ids = Cardinality(I) /\ (I # {} => FirstAmong(merged[t], I))
  BY DEF ExemplarsKept
<1>3. ASSUME merged[t].ids > 0 PROVE merged[t].records = Max(S) /\ merged[t].id = Min(J)
  <2>1. I # {}
    BY <1>2, <1>3, FS_EmptySet
  <2>2. FirstAmong(merged[t], I)
    BY <1>2, <2>1
  <2>3. \A i \in I : MergedRecordsOf(i) \in Nat /\ i \in Nat
    BY <1>1, RecordsTyped
  <2>4. S \subseteq Nat /\ merged[t].records \in S /\ \A y \in S : y <= merged[t].records
    BY <2>2, <2>3 DEF FirstAmong
  <2>5. J \subseteq Nat /\ merged[t].id \in J /\ \A j \in J : merged[t].id <= j
    BY <2>2, <2>3 DEF FirstAmong
  <2> HIDE DEF S, J
  <2> QED
    BY <2>4, <2>5, MaxIs, MinIs
<1> QED
  BY <1>2, <1>3

\* What the summary says of merged records is the same in whatever order they arrived and
\* the ids were scanned, in both stores and both modes: the earliest field any two of them
\* disagree on, however much of each was dropped when it was merged (deep_merge,
\* first_conflict), and the example with most records, the lowest id among equals
\* (MergedType::absorb).
THEOREM ReportOrderFree == Spec => []ReportIsOrderFree
<1>1. Init => IInv /\ ExemplarsKept
  BY InitIInv, InitExemplars
<1>2. (IInv /\ ExemplarsKept) /\ [Next]_vars => (IInv /\ ExemplarsKept)'
  BY NextKeepsIInv, NextKeepsExemplars
<1>3. IInv /\ ExemplarsKept => ReportIsOrderFree
  BY ConflictsOrderFree, ExemplarsOrderFree DEF ReportIsOrderFree
<1> QED
  BY <1>1, <1>2, <1>3, PTL DEF Spec
=============================================================================
