------------------------------- MODULE MCDag -------------------------------
(***************************************************************************)
(* Small instances of Dag.                                                 *)
(***************************************************************************)
EXTENDS Dag

CONSTANTS r1, r2, t1, t2, t3, a, b, c, x, y

Msg(id, parents, body) == [id |-> id, parents |-> parents, body |-> body]

\* Two versions of a root, a child, a vertex that is its own parent, and a
\* vertex with two parents.
Equivocation ==
  {Msg(a, {}, x), Msg(a, {}, y), Msg(b, {a}, x), Msg(b, {b}, x), Msg(c, {a, b}, x)}
=============================================================================
