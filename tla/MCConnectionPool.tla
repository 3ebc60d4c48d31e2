-------------------------- MODULE MCConnectionPool --------------------------
(***************************************************************************)
(* Small instances of ConnectionPool.                                      *)
(***************************************************************************)
EXTENDS ConnectionPool

CONSTANTS t1, t2, t3

\* A shard for each peer.
Apart    == [p \in Peers |-> p]
=============================================================================
