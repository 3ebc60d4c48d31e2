------------------------------ MODULE MCLedger ------------------------------
(* Small instances of Ledger. *)
EXTENDS Ledger, TLC

CONSTANTS a1, a2, a3

\* a1 and a2 fall into one shard of the accounts map.
Sharded == (a1 :> 0) @@ (a2 :> 0) @@ (a3 :> 1)
=============================================================================
