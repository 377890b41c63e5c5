--------------------------- MODULE RecordMerging ---------------------------
(***************************************************************************)
(* How several records of one mapping fold into one stored record          *)
(* (cassiopeia-resolver, entity_store/): merge.rs, supersession.rs and     *)
(* mapping_expiry.rs.                                                      *)
(*                                                                         *)
(* A JSON record is the set of its leaves, each with the path of keys that *)
(* leads to it; an object without keys is a leaf too.  Keys are numbers,   *)
(* so that FieldPath's order is theirs, and no path of a record continues  *)
(* another.                                                                *)
(***************************************************************************)
EXTENDS Naturals, Sequences, FiniteSets, SequencesExt, FiniteSetsExt

-----------------------------------------------------------------------------
\* Paths (FieldPath).

NoPath == <<>>

\* The derived order: key by key, a path before every path it is a prefix of.
Before(p, q) ==
  \/ IsStrictPrefix(p, q)
  \/ \E i \in 1..Len(p) :
       /\ i <= Len(q) /\ p[i] < q[i]
       /\ \A j \in 1..(i - 1) : p[j] = q[j]

\* FieldPath::earliest: the earlier of two optional paths.
Earliest(p, q) ==
  IF p = NoPath \/ (q # NoPath /\ Before(q, p)) THEN q ELSE p

\* The earliest of a set of paths, none for the empty set.
EarliestOf(P) == IF P = {} THEN NoPath ELSE CHOOSE p \in P : \A q \in P \ {p} : Before(p, q)

-----------------------------------------------------------------------------
\* deep_merge.

\* Two leaves meet where one's path leads to or through the other's.
Meet(a, b) == IsPrefix(a.path, b.path) \/ IsPrefix(b.path, a.path)

ShorterPath(a, b) == IF Len(a.path) <= Len(b.path) THEN a.path ELSE b.path

\* Of two leaves that meet, the longer one's path goes through an object.
EmptyObject == 0
BothObjects(a, b) ==
  \/ Len(a.path) < Len(b.path) /\ a.value = EmptyObject
  \/ Len(b.path) < Len(a.path) /\ b.value = EmptyObject

Differ(a, b) == Meet(a, b) /\ a # b /\ ~BothObjects(a, b)

\* Mutant: the first record stays as it is.
KeepFirst(kept, offered) == kept

\* The kept record gains the keys it has not.
DeepMerge(kept, offered) == kept \cup {o \in offered : \A k \in kept : ~Differ(k, o)}

\* The fields both records hold, under a key that is read, that are not both objects
\* and differ.
Conflicts(kept, offered, reads) ==
  {ShorterPath(pair[1], pair[2]) :
     pair \in {p \in kept \X offered : Differ(p[1], p[2]) /\ p[1].path[1] \in reads}}

FieldConflict(kept, offered, reads) == EarliestOf(Conflicts(kept, offered, reads))

\* first_conflict folds records in their order: what is merged so far and the earliest
\* conflict met.  The first is merged into the empty record, which disagrees with none.
NothingMerged == [merged |-> {}, found |-> NoPath]
FirstConflict(acc, record, reads) ==
  [merged |-> DeepMerge(acc.merged, record),
   found |-> Earliest(acc.found, FieldConflict(acc.merged, record, reads))]

-----------------------------------------------------------------------------
\* Supersession: a slot of a temporal mapping keeps the latest record.

\* ranking_text: an absent or unresolvable timestamp ranks below every declared one.
RankingText(timestamp) == IF timestamp.kind = "Declared" THEN timestamp.text ELSE 0

\* SlotRanking::rank: a tie goes to the record that arrives later.
Supersedes(held, incoming) == RankingText(incoming) >= RankingText(held)

-----------------------------------------------------------------------------
\* Expiry (0: none declared).

\* join: none when a mapping declares none, else the furthest.
JoinExpiries(E) == IF E = {} \/ 0 \in E THEN 0 ELSE Max(E)
=============================================================================
