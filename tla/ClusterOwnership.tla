--------------------------- MODULE ClusterOwnership --------------------------
(***************************************************************************)
(* What a cluster allocator promises to the directories that use it: each  *)
(* has a list of clusters of its own.  A list grows, at its end and by     *)
(* clusters nobody has, or loses its tail; no step changes two lists, and  *)
(* none touches the clusters the volume keeps for itself.                  *)
(***************************************************************************)
EXTENDS Integers, Sequences

CONSTANTS
  Owner,          \* those who may hold clusters
  Heap,           \* the clusters
  System          \* the clusters that hold the volume's own tables

VARIABLE owned    \* [Owner -> Seq(Heap)]

Holds(o) == {owned[o][k] : k \in 1..Len(owned[o])}

Taken == System \union UNION {Holds(o) : o \in Owner}

Distinct(s) == \A j, k \in 1..Len(s) : s[j] = s[k] => j = k

\* No cluster is held twice, by two owners or by one, and none of the volume's own is held.
Exclusive ==
  /\ \A o \in Owner : Distinct(owned[o]) /\ Holds(o) \intersect System = {}
  /\ \A o, p \in Owner : o # p => Holds(o) \intersect Holds(p) = {}

TypeOK == owned \in [Owner -> Seq(Heap)]

Init == TypeOK /\ Exclusive

\* What the step adds at the end of o's list.
Added(o) == SubSeq(owned'[o], Len(owned[o]) + 1, Len(owned'[o]))

Extend(o) ==
  /\ owned' = [owned EXCEPT ![o] = owned[o] \o Added(o)]
  /\ Added(o) \in Seq(Heap \ Taken)
  /\ Distinct(Added(o))

Truncate(o) ==
  \E n \in 0..(Len(owned[o]) - 1) :
    owned' = [owned EXCEPT ![o] = SubSeq(owned[o], 1, n)]

Next == \E o \in Owner : Extend(o) \/ Truncate(o)

Spec == Init /\ [][Next]_owned

=============================================================================
