----------------------------- MODULE MCExchange -----------------------------
(* Small instance of Exchange: a pays b twice and c, b burns, c is created. *)
EXTENDS Exchange, TLC

CONSTANTS a, b, c, pay1, pay2, burn, make, grant, free, stick

Shards == (a :> 0) @@ (b :> 1) @@ (c :> 0)

Start == [balance |-> (a :> 5) @@ (b :> 1), supply |-> 6]

P(kind, from, to, amount, cost, nonce) ==
  [kind |-> kind, from |-> from, to |-> to, amount |-> amount,
   cost |-> cost, nonce |-> nonce]

\* pay2 is affordable only before pay1, burn only after a payment, make
\* never (its initial balance is past the cap unless enough was burned);
\* free offers no fee, whatever it would cost; stick is between two accounts of
\* one shard.
Catalogue ==
  (pay1 :> P("transfer", a, b, 2, 1, 1)) @@ (pay2 :> P("transfer", a, b, 3, 1, 2))
  @@ (burn :> P("burn", b, b, 1, 1, 1)) @@ (make :> P("create", c, c, 2, 1, 1))
  @@ (grant :> P("mint", c, b, 1, 1, 1))
  @@ (free :> P("transfer", b, a, 1, 1, 3)) @@ (stick :> P("transfer", a, c, 1, 1, 3))

Offer == [t \in Tx |-> Catalogue[t]]
=============================================================================
