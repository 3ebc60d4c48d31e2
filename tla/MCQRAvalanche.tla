--------------------------- MODULE MCQRAvalanche ---------------------------
(***************************************************************************)
(* A small instance of QRAvalanche: three vertices in a chain of conflicts.*)
(***************************************************************************)
EXTENDS QRAvalanche

CONSTANTS v1, v2, v3, p1, p2

\* Who answers yes to whom: v1 has one of two, the others have both.
Answers ==
  [v \in Vertices |-> [p \in Voters |-> v = v1 => p = p1]]

Chain == {{v1, v2}, {v2, v3}}
=============================================================================
