--------------------------- MODULE AppendOnlyDag ---------------------------
(***************************************************************************)
(* What local DAGs promise to their readers: each is a set of vertices     *)
(* that only grows.  A vertex never changes and is never removed, no two   *)
(* vertices of a graph share an id, and a vertex never appears before its  *)
(* parents: the vertices of one step can be put in an order in which every *)
(* parent comes first, that is, no part of them hangs only on itself.      *)
(***************************************************************************)
EXTENDS Naturals, FiniteSets

CONSTANT Owners
VARIABLE graph       \* graph[r]: the vertices of r

IdSet(g) == {v.id : v \in g}

Fresh(old, new) ==
  /\ IdSet(new) \cap IdSet(old) = {}
  /\ \A v, w \in new : v.id = w.id => v = w

\* new can be added to old, parents first.
Grounded(old, new) ==
  /\ \A v \in new : v.parents \subseteq IdSet(old) \cup IdSet(new)
  /\ \A S \in (SUBSET new) \ {{}} : \E v \in S : v.parents \cap IdSet(S) = {}

\* One admitted message, or what a synchronisation brings.
Grow(r) ==
  LET new == graph'[r] \ graph[r] IN
  /\ graph' = [graph EXCEPT ![r] = graph'[r]]
  /\ graph[r] \subseteq graph'[r]
  /\ Fresh(graph[r], new)
  /\ Grounded(graph[r], new)

Init == graph = [r \in Owners |-> {}]
Next == \E r \in Owners : Grow(r)
Spec == Init /\ [][Next]_graph
=============================================================================
