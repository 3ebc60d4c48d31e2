------------------------------ MODULE MCVault ------------------------------
(***************************************************************************)
(* Small instances of Vault.                                               *)
(***************************************************************************)
EXTENDS Vault, TLC

CONSTANTS a, b, ab

\* "a", "b" and "a/b/c".
Slashes == (a :> {}) @@ (b :> {}) @@ (ab :> {a, b})
=============================================================================
