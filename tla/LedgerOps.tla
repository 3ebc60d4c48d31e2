----------------------------- MODULE LedgerOps ------------------------------
(***************************************************************************)
(* The operations of Ledger (qudag-exchange/core/src/ledger.rs, built with *)
(* its default feature std) as functions from a ledger to an outcome: what *)
(* the caller gets and the ledger it leaves behind, which on an error is   *)
(* what the statements before the error had already written.               *)
(*                                                                         *)
(* accounts is a DashMap.  transfer keeps the write lock of the sender's   *)
(* shard while it asks for the recipient's, so two accounts of one shard   *)
(* leave the caller waiting for itself: the outcome "hung".                *)
(*                                                                         *)
(* Left out: no call of Ledger changes an account's flags, nonce or key,   *)
(* so an account is its balance; agent statuses only feed calculate_fee,   *)
(* whose result is an input here.                                          *)
(***************************************************************************)
EXTENDS Naturals, FiniteSets

CONSTANTS Account,
          Shard,      \* [Account -> shard of the accounts DashMap]
          MaxSupply,  \* LedgerConfig::max_supply
          MaxAmount   \* u64::MAX

ASSUME LedgerAssumption ==
  /\ MaxSupply \in Nat
  /\ MaxAmount \in Nat
  /\ MaxSupply <= MaxAmount

Amount == 0..MaxAmount
Balances == UNION {[A -> Amount] : A \in SUBSET Account}
Ledgers == [balance : Balances, supply : Amount]

EmptyLedger == [balance |-> [a \in {} |-> 0], supply |-> 0]
Accounts(l) == DOMAIN l.balance

\* Each unit of rUv an account holds, as a coin of its own: what
\* check_invariants adds up is the number of coins.
Coins(balance) == {c \in (DOMAIN balance) \X (1..MaxAmount) : c[2] <= balance[c[1]]}
Total(balance) == Cardinality(Coins(balance))

-----------------------------------------------------------------------------
Outcomes == {"ok", "err", "hung"}
Ok(l) == [result |-> "ok", ledger |-> l]
Err(l) == [result |-> "err", ledger |-> l]
Hung(l) == [result |-> "hung", ledger |-> l]

Put(l, a, n, supply) ==
  [balance |-> [l.balance EXCEPT ![a] = n], supply |-> supply]

CreateAccount(l, a) ==
  IF a \in Accounts(l) THEN Err(l)
  ELSE Ok([balance |-> [b \in Accounts(l) \cup {a} |->
                          IF b = a THEN 0 ELSE l.balance[b]],
           supply |-> l.supply])

MintFirst(l, a, n) ==  \* mutant: the account is credited before the cap is checked
  IF a \notin Accounts(l) \/ l.balance[a] + n > MaxAmount THEN Err(l)
  ELSE IF l.supply + n > MaxSupply
    THEN Err(Put(l, a, l.balance[a] + n, l.supply))
    ELSE Ok(Put(l, a, l.balance[a] + n, l.supply + n))

MintRefused(l, a, n) ==
  \/ l.supply + n > MaxSupply
  \/ a \notin Accounts(l)
  \/ l.balance[a] + n > MaxAmount

Mint(l, a, n) ==
  IF MintRefused(l, a, n) THEN Err(l)
  ELSE Ok(Put(l, a, l.balance[a] + n, l.supply + n))

BurnQuietly(l, a, n) ==  \* mutant: the supply is not reduced
  IF a \notin Accounts(l) \/ l.balance[a] < n THEN Err(l)
  ELSE Ok(Put(l, a, l.balance[a] - n, l.supply))

Burn(l, a, n) ==
  IF a \notin Accounts(l) \/ l.balance[a] < n THEN Err(l)
  ELSE Ok(Put(l, a, l.balance[a] - n,
              IF l.supply >= n THEN l.supply - n ELSE 0))

SelfDeadlock(l, from, to) == from \in Accounts(l) /\ Shard[from] = Shard[to]

\* The debit is written before the credit is known to succeed.
Transfer(l, from, to, n) ==
  IF from = to \/ n = 0 THEN Err(l)
  ELSE IF SelfDeadlock(l, from, to) THEN Hung(l)
  ELSE IF from \notin Accounts(l) \/ to \notin Accounts(l) THEN Err(l)
  ELSE IF l.balance[from] < n THEN Err(l)
  ELSE LET debited == Put(l, from, l.balance[from] - n, l.supply) IN
       IF debited.balance[to] + n > MaxAmount THEN Err(debited)
       ELSE Ok(Put(debited, to, debited.balance[to] + n, l.supply))

Unaffordable(l, from, n, fee) ==
  \/ n + fee > MaxAmount
  \/ from \notin Accounts(l)
  \/ l.balance[from] < n + fee

AffordAmount(l, from, to, n, fee) ==  \* mutant: the fee is not in the check
  IF Unaffordable(l, from, n, 0) THEN Err(l)
  ELSE LET moved == Transfer(l, from, to, n) IN
       IF moved.result # "ok" \/ fee = 0 THEN moved
       ELSE Burn(moved.ledger, from, fee)

TransferWithFee(l, from, to, n, fee) ==
  IF from = to \/ n = 0 \/ Unaffordable(l, from, n, fee) THEN Err(l)
  ELSE LET moved == Transfer(l, from, to, n) IN
       IF moved.result # "ok" \/ fee = 0 THEN moved
       ELSE Burn(moved.ledger, from, fee)
=============================================================================
