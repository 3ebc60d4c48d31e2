-------------------------- MODULE MCConnectionManager --------------------------
(***************************************************************************)
(* Small instances of ConnectionManager.                                   *)
(***************************************************************************)
EXTENDS ConnectionManager, TLC

\* Tasks and peers are told apart by nothing but their identity.
Alike == Permutations(Tasks) \cup Permutations(Peers)
=============================================================================
