--------------------------- MODULE MCGraphStore ---------------------------
(* Small instances of GraphStore. *)
EXTENDS GraphStore

CONSTANTS a, b, c, t1, t2

\* a <- b, and c below both
Diamond == [n \in Node |-> IF n = a THEN {} ELSE IF n = b THEN {a} ELSE {a, b}]
TwoShards == [n \in Node |-> IF n = a THEN 1 ELSE 2]
=============================================================================
