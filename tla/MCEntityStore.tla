--------------------------- MODULE MCEntityStore ---------------------------
(***************************************************************************)
(* A small instance of the stores: two ids, a static, a temporal and a     *)
(* synthetic mapping.  The three static records of id 1 disagree in        *)
(* nested and in plain fields, so the order in which they meet matters,    *)
(* and one has an empty object where the others have keys; the temporal    *)
(* ones tie, fail to resolve and share an edge.                            *)
(***************************************************************************)
EXTENDS EntityStore

Leaf(path, value) == [path |-> path, value |-> value]
At(t) == [kind |-> "Declared", text |-> t]
Absent == [kind |-> "Absent"]
Unresolved == [kind |-> "Unresolvable"]

Static(id, mapping, data, scope, expires) ==
  [id |-> id, mapping |-> mapping, data |-> data, timestamp |-> Absent,
   scope |-> scope, expires |-> expires, edges |-> {}]
Observation(value, id, timestamp, scope, expires, edges_) ==
  [id |-> id, mapping |-> 2, data |-> {Leaf(<<1>>, value)}, timestamp |-> timestamp,
   scope |-> scope, expires |-> expires, edges |-> edges_]

Child == [parent |-> 2, property |-> "observes", child |-> 1]

MCFragments == 1..9
MCContent ==
  <<Static(1, 1, {Leaf(<<1>>, 1), Leaf(<<2, 1>>, 1)}, {"s"}, 4),
    Static(1, 1, {Leaf(<<2, 1>>, 2), Leaf(<<1, 1>>, 1), Leaf(<<3>>, 3)}, {}, 0),
    Static(1, 1, {Leaf(<<1, 1>>, 2), Leaf(<<2>>, EmptyObject), Leaf(<<4>>, 1)}, {}, 0),
    Static(1, 3, {Leaf(<<5>>, 1)}, {"t"}, 6),
    Static(2, 1, {Leaf(<<2>>, 1), Leaf(<<5>>, 1)}, {}, 0),
    Static(2, 1, {Leaf(<<2>>, 2), Leaf(<<5>>, 2)}, {"s"}, 0),
    Observation(7, 2, Unresolved, {}, 0, {Child}),
    Observation(8, 2, At(2), {"t"}, 5, {Child}),
    Observation(9, 2, At(1), {}, 3, {}) >>

\* Disagreeing records of one id; several mappings and ids; failing and tied observations.
MCWorkloads == {{1, 2, 3, 4}, {1, 2, 5, 6}, {5, 7, 8, 9}, {4, 6, 7, 8}}

MCReads == [m \in {1, 2, 3} |-> {1, 2, 3, 4}]
MCTypes == [m \in {1, 2, 3} |-> "Type"]
=============================================================================
