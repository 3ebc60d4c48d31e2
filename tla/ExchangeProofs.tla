--------------------------- MODULE ExchangeProofs ---------------------------
(***************************************************************************)
(* The ledger conserves rUv and its calls are all or nothing, for every    *)
(* set of accounts (finite or not), every amount and every cap; and the    *)
(* state manager that executes batches of transactions on it accounts for  *)
(* the money, executes what was submitted no more often than that, and     *)
(* lets validity decide.                                                   *)
(*                                                                         *)
(* A balance of n is n coins, so a sum of balances is the cardinality of a *)
(* set and adding n to one balance adds n coins.  The rest is one lemma    *)
(* per operation: it takes a Solid ledger to a Solid one, and leaves it    *)
(* alone when it fails.                                                    *)
(***************************************************************************)
EXTENDS Ledger, Exchange, FiniteSetTheorems, SequenceTheorems, TLAPS

\* lost is what no account holds of the supply: nothing, until the state
\* manager starts again from a file, in which there are no accounts.
Solid(l, lost) ==
  /\ l \in Ledgers
  /\ IsFiniteSet(Coins(l.balance))
  /\ Total(l.balance) + lost = l.supply

\* What every call owes its caller.
Keeps(l, lost, outcome) ==
  /\ outcome.result \in Outcomes
  /\ Solid(outcome.ledger, lost)
  /\ l.supply <= MaxSupply => outcome.ledger.supply <= MaxSupply
  /\ outcome.result = "err" => outcome.ledger = l

LedgerInv == Solid(books, 0) /\ books.supply <= MaxSupply /\ answer \in Outcomes

-----------------------------------------------------------------------------
(* Coins                                                                   *)

\* A credit of n adds n coins (Account::credit, account.rs).
LEMMA CreditAdds ==
  ASSUME NEW f \in Balances, NEW a \in DOMAIN f, NEW n \in Nat,
         f[a] + n <= MaxAmount, IsFiniteSet(Coins(f))
  PROVE  LET g == [f EXCEPT ![a] = f[a] + n]
         IN  /\ g \in Balances
             /\ IsFiniteSet(Coins(g))
             /\ Total(g) = Total(f) + n
<1> DEFINE g == [f EXCEPT ![a] = f[a] + n]
           Fresh == {a} \X ((f[a] + 1)..(f[a] + n))
<1>0. /\ DOMAIN f \in SUBSET Account
      /\ f \in [DOMAIN f -> Amount]
      /\ f[a] \in Amount
      /\ MaxAmount \in Nat
  BY LedgerAssumption DEF Balances
<1>1. g \in [DOMAIN f -> Amount]
  BY <1>0 DEF Amount
<1>2. g \in Balances
  BY <1>0, <1>1 DEF Balances
<1>3. Coins(g) = Coins(f) \cup Fresh
  <2>1. ASSUME NEW c \in Coins(g) PROVE c \in Coins(f) \cup Fresh
    BY <2>1, <1>0, <1>1 DEF Coins, Amount
  <2>2. ASSUME NEW c \in Coins(f) PROVE c \in Coins(g)
    BY <2>2, <1>0, <1>1 DEF Coins, Amount
  <2>3. ASSUME NEW c \in Fresh PROVE c \in Coins(g)
    BY <2>3, <1>0, <1>1 DEF Coins, Amount
  <2> QED BY <2>1, <2>2, <2>3
<1>4. Coins(f) \cap Fresh = {}
  BY <1>0 DEF Coins, Amount
<1>5. IsFiniteSet(Fresh) /\ Cardinality(Fresh) = n
  <2>1. /\ IsFiniteSet((f[a] + 1)..(f[a] + n))
        /\ Cardinality((f[a] + 1)..(f[a] + n)) = n
    <3>1. f[a] + 1 \in Int /\ f[a] + n \in Int /\ f[a] \in Nat
      BY <1>0 DEF Amount
    <3> HIDE <1>0
    <3>2. Cardinality((f[a] + 1)..(f[a] + n))
            = IF f[a] + 1 > f[a] + n THEN 0 ELSE (f[a] + n) - (f[a] + 1) + 1
      BY <3>1, FS_Interval
    <3>3. IsFiniteSet((f[a] + 1)..(f[a] + n))
      BY <3>1, FS_Interval
    <3>4. (IF f[a] + 1 > f[a] + n THEN 0 ELSE (f[a] + n) - (f[a] + 1) + 1) = n
      BY <3>1
    <3> QED BY <3>2, <3>3, <3>4
  <2>2. IsFiniteSet({a}) /\ Cardinality({a}) = 1
    BY FS_Singleton
  <2>3. /\ IsFiniteSet(Fresh)
        /\ Cardinality(Fresh)
             = Cardinality({a}) * Cardinality((f[a] + 1)..(f[a] + n))
    BY <2>1, <2>2, FS_Product
  <2> QED BY <2>1, <2>2, <2>3
<1>6. Cardinality(Coins(f)) \in Nat
  BY FS_CardinalityType
<1>7. /\ IsFiniteSet(Coins(f) \cup Fresh)
      /\ Cardinality(Coins(f) \cup Fresh) = Cardinality(Coins(f))
           + Cardinality(Fresh) - Cardinality(Coins(f) \cap Fresh)
  <2> HIDE DEF Fresh
  <2> QED BY <1>5, FS_Union
<1>8. Cardinality({}) = 0
  BY FS_EmptySet
<1>9. Total(g) = Total(f) + n
  <2>1. Cardinality(Coins(g)) = Cardinality(Coins(f)) + Cardinality(Fresh)
                                  - Cardinality(Coins(f) \cap Fresh)
    BY <1>3, <1>7, Zenon
  <2>2. Cardinality(Coins(f) \cap Fresh) = 0
    BY <1>4, <1>8, Zenon
  <2>3. Cardinality(Coins(g)) = Cardinality(Coins(f)) + n
    <3> HIDE DEF g, Fresh
    <3> QED BY <2>1, <2>2, <1>5, <1>6
  <2> HIDE DEF g
  <2> QED BY <2>3 DEF Total
<1> QED BY <1>2, <1>3, <1>7, <1>9

\* A debit of n takes n coins away (Account::debit, account.rs).
LEMMA DebitRemoves ==
  ASSUME NEW f \in Balances, NEW a \in DOMAIN f, NEW n \in Nat,
         n <= f[a], IsFiniteSet(Coins(f))
  PROVE  LET g == [f EXCEPT ![a] = f[a] - n]
         IN  /\ g \in Balances
             /\ IsFiniteSet(Coins(g))
             /\ Total(g) \in Nat
             /\ Total(f) = Total(g) + n
<1> DEFINE g == [f EXCEPT ![a] = f[a] - n]
<1>0. /\ DOMAIN f \in SUBSET Account
      /\ f \in [DOMAIN f -> Amount]
      /\ f[a] \in Amount
      /\ MaxAmount \in Nat
  BY LedgerAssumption DEF Balances
<1>1. g \in [DOMAIN f -> Amount]
  BY <1>0 DEF Amount
<1>2. g \in Balances /\ a \in DOMAIN g
  BY <1>0, <1>1 DEF Balances
<1>3. Coins(g) \subseteq Coins(f)
  BY <1>0, <1>1 DEF Coins, Amount
<1>4. IsFiniteSet(Coins(g))
  BY <1>3, FS_Subset
<1>5. f = [g EXCEPT ![a] = g[a] + n]
  <2>1. g[a] = f[a] - n /\ g[a] + n = f[a]
    BY <1>0 DEF Amount
  <2>2. [g EXCEPT ![a] = g[a] + n] = [g EXCEPT ![a] = f[a]]
    BY <2>1, Zenon
  <2> QED BY <2>2, <1>0
<1>6. g[a] + n <= MaxAmount
  BY <1>0 DEF Amount
<1>7. Total(f) = Total(g) + n
  <2> HIDE DEF g
  <2> QED BY <1>2, <1>4, <1>5, <1>6, CreditAdds
<1>8. Total(g) \in Nat
  BY <1>4, FS_CardinalityType DEF Total
<1> QED BY <1>2, <1>4, <1>7, <1>8

\* No account holds more than the whole supply.
LEMMA HoldingBelowTotal ==
  ASSUME NEW f \in Balances, NEW a \in DOMAIN f, IsFiniteSet(Coins(f))
  PROVE  f[a] <= Total(f)
<1> DEFINE g == [f EXCEPT ![a] = f[a] - f[a]]
<1>1. f[a] \in Nat
  BY LedgerAssumption DEF Balances, Amount
<1>2. Total(g) \in Nat /\ Total(f) = Total(g) + f[a]
  BY <1>1, DebitRemoves
<1> HIDE DEF g
<1> QED BY <1>1, <1>2

-----------------------------------------------------------------------------
(* Operations                                                              *)

LEMMA SolidTotal ==
  ASSUME NEW l, NEW lost \in Nat, Solid(l, lost)
  PROVE  /\ l.balance \in Balances /\ IsFiniteSet(Coins(l.balance))
         /\ Total(l.balance) \in Nat /\ l.supply \in Nat /\ l.supply <= MaxAmount
         /\ Total(l.balance) + lost = l.supply
<1>1. l.balance \in Balances /\ l.supply \in Amount
  BY DEF Solid, Ledgers
<1>2. IsFiniteSet(Coins(l.balance)) /\ Total(l.balance) + lost = l.supply
  BY DEF Solid
<1>3. Total(l.balance) \in Nat
  BY <1>2, FS_CardinalityType DEF Total
<1>4. l.supply \in Nat /\ l.supply <= MaxAmount
  BY <1>1, LedgerAssumption DEF Amount
<1> QED BY <1>1, <1>2, <1>3, <1>4

LEMMA PutSupply ==
  ASSUME NEW l, NEW a, NEW n, NEW supply
  PROVE  Put(l, a, n, supply).supply = supply
BY DEF Put

\* Crediting an account and the supply together.
LEMMA CreditSound ==
  ASSUME NEW l, NEW lost \in Nat, Solid(l, lost), NEW a \in Accounts(l), NEW n \in Nat,
         l.supply + n <= MaxAmount, l.balance[a] + n <= MaxAmount
  PROVE  Solid(Put(l, a, l.balance[a] + n, l.supply + n), lost)
<1> DEFINE g == [l.balance EXCEPT ![a] = l.balance[a] + n]
<1>1. l.balance \in Balances /\ l.supply \in Nat /\ l.supply + n \in Amount
  BY LedgerAssumption, SolidTotal DEF Solid, Ledgers, Amount
<1>2. g \in Balances /\ IsFiniteSet(Coins(g)) /\ Total(g) + lost = l.supply + n
  <2>1. /\ Total(l.balance) \in Nat /\ Total(l.balance) + lost = l.supply
        /\ IsFiniteSet(Coins(l.balance)) /\ a \in DOMAIN l.balance
    BY SolidTotal DEF Accounts
  <2>2. g \in Balances /\ IsFiniteSet(Coins(g)) /\ Total(g) = Total(l.balance) + n
    BY <1>1, <2>1, CreditAdds
  <2> HIDE DEF g
  <2> QED BY <2>1, <2>2
<1> HIDE DEF g
<1>3. Solid([balance |-> g, supply |-> l.supply + n], lost)
  BY <1>1, <1>2 DEF Solid, Ledgers
<1> QED BY <1>3 DEF Put, g

\* Debiting an account and the supply together.
LEMMA DebitSound ==
  ASSUME NEW l, NEW lost \in Nat, Solid(l, lost), NEW a \in Accounts(l), NEW n \in Nat,
         n <= l.balance[a]
  PROVE  /\ l.supply >= n
         /\ Solid(Put(l, a, l.balance[a] - n, l.supply - n), lost)
<1> DEFINE g == [l.balance EXCEPT ![a] = l.balance[a] - n]
<1>1. l.balance \in Balances /\ l.supply \in Amount
  BY DEF Solid, Ledgers
<1>2. /\ g \in Balances /\ IsFiniteSet(Coins(g))
      /\ Total(g) \in Nat /\ l.supply = Total(g) + lost + n
  <2>1. /\ Total(l.balance) + lost = l.supply
        /\ IsFiniteSet(Coins(l.balance)) /\ a \in DOMAIN l.balance
    BY SolidTotal DEF Accounts
  <2>2. /\ g \in Balances /\ IsFiniteSet(Coins(g))
        /\ Total(g) \in Nat /\ Total(l.balance) = Total(g) + n
    BY <1>1, <2>1, DebitRemoves
  <2> HIDE DEF g
  <2> QED BY <2>1, <2>2
<1> HIDE DEF g
<1>3. l.supply >= n /\ l.supply - n \in Amount /\ l.supply - n = Total(g) + lost
  BY <1>1, <1>2, LedgerAssumption DEF Amount
<1>5. Solid([balance |-> g, supply |-> l.supply - n], lost)
  BY <1>1, <1>2, <1>3 DEF Solid, Ledgers
<1> QED BY <1>3, <1>5 DEF Put, g

LEMMA CreateAccountKeeps ==
  ASSUME NEW l, NEW lost \in Nat, Solid(l, lost), NEW a \in Account
  PROVE  Keeps(l, lost, CreateAccount(l, a))
<1>1. CASE a \in Accounts(l)
  BY <1>1 DEF CreateAccount, Keeps, Err, Outcomes
<1>2. CASE a \notin Accounts(l)
  <2> DEFINE f == l.balance
             g == [b \in Accounts(l) \cup {a} |-> IF b = a THEN 0 ELSE f[b]]
  <2>1. /\ f \in [DOMAIN f -> Amount] /\ DOMAIN f \in SUBSET Account
        /\ l.supply \in Amount
    BY DEF Solid, Ledgers, Balances
  <2>2. g \in [Accounts(l) \cup {a} -> Amount]
    BY <2>1, LedgerAssumption DEF Accounts, Amount
  <2>3. g \in Balances
    BY <2>1, <2>2 DEF Accounts, Balances
  <2>4. Coins(g) = Coins(f)
    BY <1>2, <2>1, <2>2 DEF Coins, Accounts, Amount
  <2> HIDE DEF g
  <2>5. Solid([balance |-> g, supply |-> l.supply], lost)
    BY <2>1, <2>3, <2>4 DEF Solid, Ledgers, Total
  <2> QED BY <1>2, <2>5 DEF CreateAccount, Keeps, Ok, Outcomes, g
<1> QED BY <1>1, <1>2

LEMMA MintKeeps ==
  ASSUME NEW l, NEW lost \in Nat, Solid(l, lost), NEW a \in Account, NEW n \in Amount
  PROVE  Keeps(l, lost, Mint(l, a, n))
<1>1. CASE MintRefused(l, a, n)
  BY <1>1 DEF Mint, Keeps, Err, Outcomes
<1>2. CASE ~MintRefused(l, a, n)
  <2>1. /\ a \in Accounts(l) /\ n \in Nat
        /\ l.supply + n <= MaxSupply /\ l.balance[a] + n <= MaxAmount
    <3>1. l.supply \in Nat /\ n \in Nat /\ MaxSupply \in Nat
      BY LedgerAssumption, SolidTotal DEF Amount
    <3>2. a \in Accounts(l) => l.balance[a] \in Nat
      BY LedgerAssumption DEF Solid, Ledgers, Balances, Accounts, Amount
    <3> QED BY <1>2, <3>1, <3>2, LedgerAssumption DEF MintRefused
  <2> DEFINE m == Put(l, a, l.balance[a] + n, l.supply + n)
  <2>2. l.supply + n <= MaxAmount
    BY <2>1, SolidTotal, LedgerAssumption
  <2>3. Solid(m, lost) /\ m.supply <= MaxSupply
    BY <2>1, <2>2, CreditSound, PutSupply
  <2>4. Mint(l, a, n) = Ok(m)
    BY <1>2 DEF Mint
  <2> HIDE DEF m
  <2> QED BY <2>3, <2>4 DEF Keeps, Ok, Outcomes
<1> QED BY <1>1, <1>2

LEMMA BurnKeeps ==
  ASSUME NEW l, NEW lost \in Nat, Solid(l, lost), NEW a \in Account, NEW n \in Amount
  PROVE  Keeps(l, lost, Burn(l, a, n))
<1>1. CASE a \notin Accounts(l) \/ l.balance[a] < n
  BY <1>1 DEF Burn, Keeps, Err, Outcomes
<1>2. CASE ~(a \notin Accounts(l) \/ l.balance[a] < n)
  <2>1. a \in Accounts(l) /\ n \in Nat /\ n <= l.balance[a]
    BY <1>2, LedgerAssumption
       DEF Solid, Ledgers, Balances, Accounts, Amount
  <2>2. l.supply >= n /\ Solid(Put(l, a, l.balance[a] - n, l.supply - n), lost)
    BY <2>1, DebitSound
  <2> DEFINE m == Put(l, a, l.balance[a] - n, l.supply - n)
  <2>3. m.supply <= l.supply /\ l.supply \in Nat /\ m.supply \in Nat /\ MaxSupply \in Nat
    BY <2>1, <2>2, SolidTotal, PutSupply, LedgerAssumption
  <2>4. Burn(l, a, n) = Ok(m)
    BY <1>2, <2>2 DEF Burn
  <2> HIDE DEF m
  <2> QED BY <2>2, <2>3, <2>4 DEF Keeps, Ok, Outcomes, m
<1> QED BY <1>1, <1>2

\* The credit of a transfer cannot overflow: nobody holds more than the
\* supply, and the amount has just been taken out of it.
LEMMA TransferKeeps ==
  ASSUME NEW l, NEW lost \in Nat, Solid(l, lost), NEW from \in Account, NEW to \in Account,
         NEW n \in Amount
  PROVE  Keeps(l, lost, Transfer(l, from, to, n))
<1>1. CASE \/ from = to \/ n = 0 \/ SelfDeadlock(l, from, to)
           \/ from \notin Accounts(l) \/ to \notin Accounts(l)
           \/ l.balance[from] < n
  BY <1>1 DEF Transfer, Keeps, Err, Hung, Outcomes
<1>2. CASE ~(\/ from = to \/ n = 0 \/ SelfDeadlock(l, from, to)
             \/ from \notin Accounts(l) \/ to \notin Accounts(l)
             \/ l.balance[from] < n)
  <2> DEFINE debited == Put(l, from, l.balance[from] - n, l.supply)
             less == Put(l, from, l.balance[from] - n, l.supply - n)
             paid == Put(less, to, less.balance[to] + n, less.supply + n)
  <2>1. from \in Accounts(l) /\ to \in Accounts(l) /\ from # to
        /\ n \in Nat /\ n <= l.balance[from] /\ l.supply \in Nat
    BY <1>2, LedgerAssumption
       DEF Solid, Ledgers, Balances, Accounts, Amount
  <2>2. l.supply >= n /\ Solid(less, lost)
    BY <2>1, DebitSound
  <2>3. less.supply = l.supply - n /\ less.balance = debited.balance
        /\ debited.supply = l.supply /\ to \in Accounts(less)
    BY <2>1 DEF Put, Accounts
  <2>4. less.balance[to] <= l.supply - n /\ less.balance[to] \in Nat
    <3> HIDE DEF less, debited
    <3>1. less.balance \in Balances /\ IsFiniteSet(Coins(less.balance))
          /\ Total(less.balance) + lost = l.supply - n /\ Total(less.balance) \in Nat /\ to \in DOMAIN less.balance
      BY <2>2, <2>3, SolidTotal DEF Accounts
    <3>2. less.balance[to] \in Nat
      BY <3>1, LedgerAssumption DEF Balances, Amount
    <3> QED BY <3>1, <3>2, HoldingBelowTotal
  <2>5. /\ less.supply + n = l.supply /\ l.supply <= MaxAmount
        /\ less.balance[to] + n <= MaxAmount
    <3>1. l.supply <= MaxAmount
      BY SolidTotal
    <3> HIDE DEF less, debited
    <3> QED BY <2>1, <2>2, <2>3, <2>4, <3>1, LedgerAssumption
  <2>6. Solid(paid, lost) /\ paid.supply = l.supply
    <3> HIDE DEF less, debited
    <3>1. less.supply + n <= MaxAmount
      BY <2>5
    <3> QED BY <2>1, <2>2, <2>3, <2>5, <3>1, CreditSound, PutSupply
  <2>7. paid = Put(debited, to, debited.balance[to] + n, l.supply)
    <3> HIDE DEF less, debited
    <3> QED BY <2>3, <2>5 DEF Put
  <2>8. ~(debited.balance[to] + n > MaxAmount)
    <3> HIDE DEF less, debited
    <3> QED BY <2>1, <2>3, <2>4, <2>5, LedgerAssumption
  <2>9. Transfer(l, from, to, n) = Ok(paid)
    <3> HIDE DEF less, paid
    <3> QED BY <1>2, <2>7, <2>8 DEF Transfer
  <2> HIDE DEF paid
  <2> QED BY <2>6, <2>9 DEF Keeps, Ok, Outcomes
<1> QED BY <1>1, <1>2

\* A transfer that succeeds takes exactly the amount from the sender.
LEMMA TransferPays ==
  ASSUME NEW l, NEW lost \in Nat, Solid(l, lost), NEW from \in Account, NEW to \in Account,
         NEW n \in Amount, Transfer(l, from, to, n).result = "ok"
  PROVE  LET m == Transfer(l, from, to, n).ledger
         IN  /\ from \in Accounts(l) /\ from \in Accounts(m)
             /\ m.balance[from] = l.balance[from] - n
<1> DEFINE debited == Put(l, from, l.balance[from] - n, l.supply)
           m == Put(debited, to, debited.balance[to] + n, l.supply)
<1>1. from # to /\ from \in Accounts(l) /\ Transfer(l, from, to, n) = Ok(m)
  BY DEF Transfer, Err, Hung, Ok
<1>2. from \in Accounts(m) /\ m.balance[from] = l.balance[from] - n
  BY <1>1 DEF Put, Accounts
<1> HIDE DEF m
<1> QED BY <1>1, <1>2 DEF Ok

\* The affordability check covers the fee, so a fee is burned whenever the
\* amount has moved.
LEMMA TransferWithFeeKeeps ==
  ASSUME NEW l, NEW lost \in Nat, Solid(l, lost), NEW from \in Account, NEW to \in Account,
         NEW n \in Amount, NEW fee \in Amount
  PROVE  Keeps(l, lost, TransferWithFee(l, from, to, n, fee))
<1> DEFINE moved == Transfer(l, from, to, n)
<1>0. Keeps(l, lost, moved)
  BY TransferKeeps
<1>1. CASE from = to \/ n = 0 \/ Unaffordable(l, from, n, fee)
  BY <1>1 DEF TransferWithFee, Keeps, Err, Outcomes
<1>2. CASE /\ ~(from = to \/ n = 0 \/ Unaffordable(l, from, n, fee))
           /\ moved.result # "ok" \/ fee = 0
  <2>1. TransferWithFee(l, from, to, n, fee) = moved
    BY <1>2 DEF TransferWithFee
  <2> HIDE DEF moved
  <2> QED BY <1>0, <2>1
<1>3. CASE /\ ~(from = to \/ n = 0 \/ Unaffordable(l, from, n, fee))
           /\ ~(moved.result # "ok" \/ fee = 0)
  <2> DEFINE m == moved.ledger
  <2>1. TransferWithFee(l, from, to, n, fee) = Burn(m, from, fee)
    BY <1>3 DEF TransferWithFee
  <2>2. Solid(m, lost) /\ from \in Accounts(m) /\ from \in Accounts(l)
        /\ m.balance[from] = l.balance[from] - n
    BY <1>0, <1>3, TransferPays DEF Keeps
  <2>3. l.balance[from] \in Nat /\ n \in Nat /\ fee \in Nat
    BY <2>2, LedgerAssumption
       DEF Solid, Ledgers, Balances, Accounts, Amount
  <2>4. ~(l.balance[from] < n + fee)
    BY <1>3 DEF Unaffordable
  <2> HIDE DEF m, moved
  <2>5. m.balance[from] \in Nat /\ ~(m.balance[from] < fee)
    BY <2>2, <2>3, <2>4
  <2>6. Keeps(m, lost, Burn(m, from, fee)) /\ (l.supply <= MaxSupply => m.supply <= MaxSupply)
    BY <1>0, <2>2, BurnKeeps DEF Keeps, m
  <2>7. Burn(m, from, fee).result = "ok"
    BY <2>2, <2>5 DEF Burn, Ok
  <2> QED BY <2>1, <2>6, <2>7 DEF Keeps
<1> QED BY <1>1, <1>2, <1>3

-----------------------------------------------------------------------------
(* The machine                                                             *)

\* A ledger without accounts is a ledger, and holds nothing.
LEMMA EmptyHoldsNothing ==
  /\ EmptyLedger \in Ledgers /\ EmptyLedger.balance \in Balances
  /\ EmptyLedger.supply = 0
  /\ IsFiniteSet(Coins(EmptyLedger.balance)) /\ Total(EmptyLedger.balance) = 0
<1>1. EmptyLedger.balance \in Balances
  <2>1. {} \in SUBSET Account /\ [a \in {} |-> 0] \in [{} -> Amount]
    OBVIOUS
  <2>2. [a \in {} |-> 0] \in Balances
    BY <2>1, Zenon DEF Balances
  <2> QED BY <2>2 DEF EmptyLedger
<1>2. EmptyLedger \in Ledgers /\ EmptyLedger.supply = 0
  <2>1. EmptyLedger.supply = 0 /\ 0 \in Amount
    BY LedgerAssumption DEF EmptyLedger, Amount
  <2>2. EmptyLedger = [balance |-> EmptyLedger.balance, supply |-> EmptyLedger.supply]
    BY DEF EmptyLedger
  <2> QED BY <1>1, <2>1, <2>2 DEF Ledgers
<1>3. Coins(EmptyLedger.balance) = {}
  BY DEF EmptyLedger, Coins
<1>4. IsFiniteSet({}) /\ Cardinality({}) = 0
  BY FS_EmptySet
<1>5. IsFiniteSet(Coins(EmptyLedger.balance)) /\ Total(EmptyLedger.balance) = 0
  BY <1>3, <1>4 DEF Total
<1> QED BY <1>1, <1>2, <1>5

LEMMA InitSolid == LedgerInit => LedgerInv
<1> SUFFICES ASSUME LedgerInit PROVE LedgerInv
  OBVIOUS
<1>1. Solid(EmptyLedger, 0)
  BY EmptyHoldsNothing DEF Solid
<1>2. EmptyLedger.supply <= MaxSupply
  BY EmptyHoldsNothing, LedgerAssumption
<1> QED BY <1>1, <1>2 DEF LedgerInit, LedgerInv, Outcomes

\* A step is a call of one operation, which keeps what it owes.
LEMMA StepKeeps ==
  ASSUME Solid(books, 0), books.supply <= MaxSupply, LedgerNext
  PROVE  Keeps(books, 0, [result |-> answer', ledger |-> books'])
<1>0. Input \subseteq Amount
  BY InputAssumption
<1>1. ASSUME NEW o, Keeps(books, 0, o), Take(o)
      PROVE  Keeps(books, 0, [result |-> answer', ledger |-> books'])
  BY <1>1 DEF Keeps, Take
<1>2. CASE \E a \in Account : Take(CreateAccount(books, a))
  BY <1>1, <1>2, CreateAccountKeeps
<1>3. CASE \E a \in Account, n \in Input : Take(Mint(books, a, n))
  BY <1>0, <1>1, <1>3, MintKeeps
<1>4. CASE \E a \in Account, n \in Input : Take(Burn(books, a, n))
  BY <1>0, <1>1, <1>4, BurnKeeps
<1>5. CASE \E f, t \in Account, n \in Input : Take(Transfer(books, f, t, n))
  BY <1>0, <1>1, <1>5, TransferKeeps
<1>6. CASE \E f, t \in Account, n, fee \in Input :
              Take(TransferWithFee(books, f, t, n, fee))
  BY <1>0, <1>1, <1>6, TransferWithFeeKeeps
<1> QED BY <1>2, <1>3, <1>4, <1>5, <1>6 DEF LedgerNext

\* LedgerInv is inductive.
THEOREM LedgerInductive == LedgerSpec => []LedgerInv
<1>1. LedgerInv /\ [LedgerNext]_calls => LedgerInv'
  <2> SUFFICES ASSUME LedgerInv, [LedgerNext]_calls PROVE LedgerInv'
    OBVIOUS
  <2>1. CASE LedgerNext
    BY <2>1, StepKeeps DEF LedgerInv, Keeps
  <2>2. CASE UNCHANGED calls
    BY <2>2 DEF calls, LedgerInv, Solid
  <2> QED BY <2>1, <2>2
<1> QED BY InitSolid, <1>1, PTL DEF LedgerSpec

\* Every reachable ledger is a map of u64 balances and a u64 supply.
THEOREM LedgerTypeCorrect == LedgerSpec => []LedgerTypeOK
<1>1. LedgerInv => LedgerTypeOK
  BY DEF LedgerInv, Solid, LedgerTypeOK
<1> QED BY LedgerInductive, <1>1, PTL

\* check_invariants (ledger.rs 450-481) holds after any calls.
THEOREM ConservationAlways == LedgerSpec => []SupplyIsBalances
<1>1. LedgerInv => SupplyIsBalances
  <2> SUFFICES ASSUME LedgerInv PROVE SupplyIsBalances
    OBVIOUS
  <2>1. Total(books.balance) \in Nat /\ Total(books.balance) + 0 = books.supply
    BY SolidTotal DEF LedgerInv
  <2> QED BY <2>1 DEF SupplyIsBalances
<1> QED BY LedgerInductive, <1>1, PTL

\* The supply never passes max_supply.
THEOREM CapAlways == LedgerSpec => []SupplyCapped
<1>1. LedgerInv => SupplyCapped
  BY DEF LedgerInv, Solid, SupplyCapped
<1> QED BY LedgerInductive, <1>1, PTL

\* All three: the books balance after any calls.
THEOREM BooksBalanceAlways == LedgerSpec => []BooksBalance
<1>1. LedgerTypeOK /\ SupplyIsBalances /\ SupplyCapped => BooksBalance
  BY DEF BooksBalance
<1> QED BY <1>1, LedgerTypeCorrect, ConservationAlways, CapAlways, PTL

\* A call that fails has changed nothing: the second halves of transfer and
\* transfer_with_fee cannot fail, because no balance exceeds the supply.
THEOREM AllOrNothing == LedgerSpec => FailureChangesNothing
<1>1. LedgerInv /\ [LedgerNext]_calls => [answer' = "err" => books' = books]_calls
  <2> SUFFICES ASSUME LedgerInv, LedgerNext
               PROVE  answer' = "err" => books' = books
    OBVIOUS
  <2> QED BY StepKeeps DEF LedgerInv, Keeps
<1> QED BY LedgerInductive, <1>1, PTL DEF LedgerSpec, FailureChangesNothing

-----------------------------------------------------------------------------
(***************************************************************************)
(* The execution of a transaction on a solid ledger.                       *)
(***************************************************************************)
\* Nobody but the payer is poorer in m than in l.
Spares(l, payer, m) ==
  /\ Accounts(l) \subseteq Accounts(m)
  /\ \A a \in Accounts(l) \ {payer} : m.balance[a] >= l.balance[a]

\* The accounts of l hold what they held; those that m has besides are empty.
Leaves(l, m) ==
  /\ Accounts(l) \subseteq Accounts(m)
  /\ \A a \in Accounts(l) : m.balance[a] = l.balance[a]
  /\ \A a \in Accounts(m) \ Accounts(l) : m.balance[a] = 0

LEMMA SolidBalance ==
  ASSUME NEW l, NEW lost, Solid(l, lost), NEW a \in Accounts(l)
  PROVE  l.balance[a] \in Nat
BY LedgerAssumption DEF Solid, Ledgers, Balances, Accounts, Amount

LEMMA UnchangedSpares ==
  ASSUME NEW l, NEW lost, Solid(l, lost), NEW payer
  PROVE  Spares(l, payer, l) /\ Leaves(l, l)
BY SolidBalance DEF Spares, Leaves

LEMMA SparesTwice ==
  ASSUME NEW l, NEW m, NEW k, NEW lost, NEW payer,
         Solid(l, lost), Solid(m, lost), Solid(k, lost),
         Spares(l, payer, m), Spares(m, payer, k)
  PROVE  Spares(l, payer, k)
<1>1. Accounts(l) \subseteq Accounts(k)
  BY DEF Spares
<1>2. ASSUME NEW a \in Accounts(l) \ {payer} PROVE k.balance[a] >= l.balance[a]
  <2>1. l.balance[a] \in Nat /\ m.balance[a] \in Nat /\ k.balance[a] \in Nat
    BY <1>1, <1>2, SolidBalance DEF Spares
  <2>2. m.balance[a] >= l.balance[a] /\ k.balance[a] >= m.balance[a]
    BY <1>2 DEF Spares
  <2> QED BY <2>1, <2>2
<1> QED BY <1>1, <1>2 DEF Spares

\* What an operation on behalf of payer does: no other account loses, and when
\* it fails no account does.
Does(l, lost, payer, o) ==
  /\ o.result \in Outcomes
  /\ Solid(o.ledger, lost)
  /\ Spares(l, payer, o.ledger)
  /\ o.result = "err" => Leaves(l, o.ledger)

LEMMA BurnDoes ==
  ASSUME NEW l, NEW lost \in Nat, Solid(l, lost), NEW a \in Account, NEW n \in Amount
  PROVE  /\ Does(l, lost, a, Burn(l, a, n))
         /\ Burn(l, a, n).result \in {"ok", "err"}
         /\ Burn(l, a, n).result = "ok" =>
              /\ Accounts(Burn(l, a, n).ledger) = Accounts(l)
              /\ \A b \in Accounts(l) \ {a} : Burn(l, a, n).ledger.balance[b] = l.balance[b]
              /\ a \in Accounts(l) /\ Burn(l, a, n).ledger.balance[a] = l.balance[a] - n
<1>1. Keeps(l, lost, Burn(l, a, n))
  BY BurnKeeps
<1>2. CASE a \notin Accounts(l) \/ l.balance[a] < n
  <2>1. Burn(l, a, n) = Err(l)
    BY <1>2 DEF Burn
  <2> QED BY <2>1, UnchangedSpares DEF Does, Err, Outcomes
<1>3. CASE ~(a \notin Accounts(l) \/ l.balance[a] < n)
  <2> DEFINE g == [l.balance EXCEPT ![a] = l.balance[a] - n]
             m == Burn(l, a, n).ledger
  <2>1. m.balance = g /\ Burn(l, a, n).result = "ok" /\ a \in Accounts(l)
    BY <1>3 DEF Burn, Ok, Put
  <2>2. /\ Accounts(m) = Accounts(l) /\ m.balance[a] = l.balance[a] - n
        /\ \A b \in Accounts(l) \ {a} : m.balance[b] = l.balance[b]
    BY <2>1 DEF Accounts
  <2> HIDE DEF m
  <2>3. Spares(l, a, m)
    BY <2>2, SolidBalance DEF Spares
  <2> QED BY <1>1, <2>1, <2>2, <2>3 DEF Does, Keeps, m
<1> QED BY <1>2, <1>3

LEMMA MintDoes ==
  ASSUME NEW l, NEW lost \in Nat, Solid(l, lost), NEW a \in Account, NEW n \in Amount, NEW payer
  PROVE  Does(l, lost, payer, Mint(l, a, n)) /\ Mint(l, a, n).result \in {"ok", "err"}
<1>1. Keeps(l, lost, Mint(l, a, n))
  BY MintKeeps
<1>2. CASE MintRefused(l, a, n)
  <2>1. Mint(l, a, n) = Err(l)
    BY <1>2 DEF Mint
  <2> QED BY <2>1, UnchangedSpares DEF Does, Err, Outcomes
<1>3. CASE ~MintRefused(l, a, n)
  <2> DEFINE g == [l.balance EXCEPT ![a] = l.balance[a] + n]
             m == Mint(l, a, n).ledger
  <2>1. m.balance = g /\ Mint(l, a, n).result = "ok" /\ a \in Accounts(l)
    BY <1>3 DEF Mint, Ok, Put, MintRefused
  <2>2. /\ Accounts(m) = Accounts(l) /\ m.balance[a] = l.balance[a] + n
        /\ \A b \in Accounts(l) \ {a} : m.balance[b] = l.balance[b]
    BY <2>1 DEF Accounts
  <2>3. n \in Nat /\ \A b \in Accounts(l) : l.balance[b] \in Nat
    BY SolidBalance, LedgerAssumption DEF Amount
  <2> HIDE DEF m
  <2>4. Spares(l, payer, m)
    BY <2>1, <2>2, <2>3 DEF Spares
  <2> QED BY <1>1, <2>1, <2>4 DEF Does, Keeps, m
<1> QED BY <1>2, <1>3

LEMMA CreateAccountDoes ==
  ASSUME NEW l, NEW lost \in Nat, Solid(l, lost), NEW a \in Account, NEW payer
  PROVE  LET o == CreateAccount(l, a)
         IN  /\ Does(l, lost, payer, o) /\ o.result \in {"ok", "err"}
             /\ Leaves(l, o.ledger)
<1>1. Keeps(l, lost, CreateAccount(l, a))
  BY CreateAccountKeeps
<1>2. CASE a \in Accounts(l)
  <2>1. CreateAccount(l, a) = Err(l)
    BY <1>2 DEF CreateAccount
  <2> QED BY <2>1, UnchangedSpares DEF Does, Err, Outcomes
<1>3. CASE a \notin Accounts(l)
  <2> DEFINE g == [b \in Accounts(l) \cup {a} |-> IF b = a THEN 0 ELSE l.balance[b]]
             m == CreateAccount(l, a).ledger
  <2>1. m.balance = g /\ CreateAccount(l, a).result = "ok"
    BY <1>3 DEF CreateAccount, Ok
  <2>2. Leaves(l, m)
    BY <1>3, <2>1 DEF Accounts, Leaves
  <2> HIDE DEF m
  <2>3. Spares(l, payer, m)
    BY <2>2, SolidBalance DEF Leaves, Spares
  <2> QED BY <1>1, <2>1, <2>2, <2>3 DEF Does, Keeps, m
<1> QED BY <1>2, <1>3

LEMMA TransferDoes ==
  ASSUME NEW l, NEW lost \in Nat, Solid(l, lost), NEW from \in Account, NEW to \in Account,
         NEW n \in Amount
  PROVE  Does(l, lost, from, Transfer(l, from, to, n))
<1> DEFINE o == Transfer(l, from, to, n)
           m == o.ledger
<1>1. Keeps(l, lost, o)
  BY TransferKeeps
<1>2. ASSUME o.result = "ok" PROVE Does(l, lost, from, o)
  <2> DEFINE debited == Put(l, from, l.balance[from] - n, l.supply)
             paid == Put(debited, to, debited.balance[to] + n, l.supply)
  <2>1. from # to /\ from \in Accounts(l) /\ to \in Accounts(l) /\ o = Ok(paid)
    BY <1>2 DEF Transfer, Err, Hung, Ok
  <2>2. /\ Accounts(paid) = Accounts(l) /\ paid.balance[to] = l.balance[to] + n
        /\ \A b \in Accounts(l) \ {from, to} : paid.balance[b] = l.balance[b]
    BY <2>1 DEF Put, Accounts
  <2>3. n \in Nat /\ \A b \in Accounts(l) : l.balance[b] \in Nat
    BY SolidBalance, LedgerAssumption DEF Amount
  <2> HIDE DEF paid, o
  <2>4. m = paid
    BY <2>1 DEF Ok
  <2>5. Spares(l, from, m)
    BY <2>2, <2>3, <2>4 DEF Spares
  <2> QED BY <1>1, <1>2, <2>5 DEF Does, Keeps
<1>3. ASSUME o.result = "err" PROVE Does(l, lost, from, o)
  <2>1. m = l
    BY <1>1, <1>3 DEF Keeps
  <2> HIDE DEF o
  <2> QED BY <1>1, <2>1, UnchangedSpares DEF Does, Keeps
<1>4. ASSUME o.result = "hung" PROVE Does(l, lost, from, o)
  <2>1. m = l
    BY <1>4 DEF Transfer, Err, Hung, Ok
  <2> HIDE DEF o
  <2> QED BY <1>1, <2>1, UnchangedSpares DEF Does, Keeps
<1>5. Does(l, lost, from, o)
  <2> HIDE DEF o
  <2> QED BY <1>1, <1>2, <1>3, <1>4 DEF Keeps, Outcomes
<1> QED BY <1>5

LEMMA LeavesTwice ==
  ASSUME NEW l, NEW m, NEW k, Leaves(l, m), Leaves(m, k)
  PROVE  Leaves(l, k)
BY DEF Leaves

\* execute_transaction after the fee: whatever the transaction is, an error
\* leaves every balance alone and at most a new, empty account behind.
LEMMA PerformDoes ==
  ASSUME NEW l, NEW lost \in Nat, Solid(l, lost), NEW p \in Payload
  PROVE  Does(l, lost, p.from, Perform(l, p))
<1> DEFINE o == Perform(l, p)
<1>1. /\ p.from \in Account /\ p.to \in Account /\ p.amount \in Amount
      /\ p.kind \in {"transfer", "mint", "burn", "update", "create"}
  BY DEF Payload, Charged
<1>2. ASSUME p.kind = "transfer" PROVE Does(l, lost, p.from, o)
  <2>1. o = Transfer(l, p.from, p.to, p.amount)
    BY <1>2 DEF Perform
  <2> HIDE DEF o
  <2> QED BY <1>1, <2>1, TransferDoes
<1>3. ASSUME p.kind = "mint" PROVE Does(l, lost, p.from, o)
  <2>1. o = Mint(l, p.to, p.amount)
    BY <1>3 DEF Perform
  <2> HIDE DEF o
  <2> QED BY <1>1, <2>1, MintDoes
<1>4. ASSUME p.kind = "burn" PROVE Does(l, lost, p.from, o)
  <2>1. o = Burn(l, p.from, p.amount)
    BY <1>4 DEF Perform
  <2> HIDE DEF o
  <2> QED BY <1>1, <2>1, BurnDoes
<1>5. ASSUME p.kind = "update" PROVE Does(l, lost, p.from, o)
  <2>1. o = Ok(l)
    BY <1>5 DEF Perform
  <2> HIDE DEF o
  <2> QED BY <2>1, UnchangedSpares DEF Does, Ok, Outcomes
<1>6. ASSUME p.kind = "create" PROVE Does(l, lost, p.from, o)
  <2> DEFINE made == CreateAccount(l, p.to)
             m == made.ledger
             filled == Mint(m, p.to, p.amount)
  <2>1. o = IF made.result # "ok" \/ p.amount = 0 THEN made ELSE filled
    BY <1>6 DEF Perform
  <2>2. Does(l, lost, p.from, made) /\ Leaves(l, m)
    BY <1>1, CreateAccountDoes
  <2> HIDE DEF o, made
  <2>3. CASE made.result # "ok" \/ p.amount = 0
    BY <2>1, <2>2, <2>3
  <2>4. CASE ~(made.result # "ok" \/ p.amount = 0)
    <3>1. o = filled
      BY <2>1, <2>4
    <3>2. Solid(m, lost) /\ Spares(l, p.from, m)
      BY <2>2 DEF Does
    <3> HIDE DEF m
    <3>3. Does(m, lost, p.from, filled)
      BY <1>1, <3>2, MintDoes
    <3> HIDE DEF filled
    <3>4. Solid(o.ledger, lost) /\ o.result \in Outcomes /\ Spares(m, p.from, o.ledger)
      BY <3>1, <3>3 DEF Does
    <3>5. Spares(l, p.from, o.ledger)
      BY <3>2, <3>4, SparesTwice
    <3>6. o.result = "err" => Leaves(l, o.ledger)
      BY <2>2, <3>1, <3>3, LeavesTwice DEF Does, m
    <3> QED BY <3>4, <3>5, <3>6 DEF Does
  <2> QED BY <2>3, <2>4
<1> HIDE DEF o
<1>7. Does(l, lost, p.from, o)
  BY <1>1, <1>2, <1>3, <1>4, <1>5, <1>6
<1> QED BY <1>7 DEF o

\* What executing p may do to the money: nobody but the payer loses, and a
\* failure costs the payer the fee or nothing and makes no rUv.
Fee(p) == IF p.kind \in Charged THEN p.cost ELSE 0

CostsFee(l, p, m) ==
  /\ \A a \in Accounts(l) :
       \/ m.balance[a] = l.balance[a]
       \/ a = p.from /\ m.balance[a] = l.balance[a] - Fee(p)
  /\ \A a \in Accounts(m) \ Accounts(l) : m.balance[a] = 0

LEMMA ExecuteDoes ==
  ASSUME NEW l, NEW lost \in Nat, Solid(l, lost), NEW p \in Payload
  PROVE  /\ Execute(l, p).result \in Outcomes
         /\ Solid(Execute(l, p).ledger, lost)
         /\ Spares(l, p.from, Execute(l, p).ledger)
         /\ Execute(l, p).result = "err" => CostsFee(l, p, Execute(l, p).ledger)
<1> DEFINE paid == IF p.kind \in Charged THEN Burn(l, p.from, p.cost) ELSE Ok(l)
           m == paid.ledger
           done == Perform(m, p)
           o == Execute(l, p)
<1>1. p.from \in Account /\ p.cost \in Amount
  BY DEF Payload
<1>2. o = IF paid.result = "ok" THEN done ELSE paid
  BY DEF Execute
<1>3. /\ Does(l, lost, p.from, paid) /\ paid.result \in {"ok", "err"}
      /\ paid.result = "ok" =>
           /\ Accounts(m) = Accounts(l)
           /\ \A a \in Accounts(l) : \/ m.balance[a] = l.balance[a]
                                     \/ a = p.from /\ m.balance[a] = l.balance[a] - Fee(p)
  <2>1. CASE p.kind \in Charged
    <3>1. paid = Burn(l, p.from, p.cost) /\ Fee(p) = p.cost
      BY <2>1 DEF Fee
    <3> HIDE DEF paid
    <3> QED BY <1>1, <3>1, BurnDoes
  <2>2. CASE p.kind \notin Charged
    <3>1. paid = Ok(l)
      BY <2>2
    <3> HIDE DEF paid
    <3>2. m = l /\ paid.result = "ok"
      BY <3>1 DEF Ok
    <3>3. Does(l, lost, p.from, paid)
      BY <3>2, UnchangedSpares DEF Does, Outcomes
    <3> QED BY <3>2, <3>3
  <2> QED BY <2>1, <2>2
<1> HIDE DEF paid, o
<1>4. ASSUME paid.result # "ok"
      PROVE  /\ o.result \in Outcomes /\ Solid(o.ledger, lost) /\ Spares(l, p.from, o.ledger)
             /\ o.result = "err" => CostsFee(l, p, o.ledger)
  <2>1. o = paid /\ Leaves(l, o.ledger)
    BY <1>2, <1>3, <1>4 DEF Does
  <2> QED BY <1>3, <2>1 DEF Does, Leaves, CostsFee
<1>5. ASSUME paid.result = "ok"
      PROVE  /\ o.result \in Outcomes /\ Solid(o.ledger, lost) /\ Spares(l, p.from, o.ledger)
             /\ o.result = "err" => CostsFee(l, p, o.ledger)
  <2>1. o = done /\ Solid(m, lost) /\ Spares(l, p.from, m)
    BY <1>2, <1>3, <1>5 DEF Does
  <2>2. /\ Accounts(m) = Accounts(l)
        /\ \A a \in Accounts(l) : \/ m.balance[a] = l.balance[a]
                                  \/ a = p.from /\ m.balance[a] = l.balance[a] - Fee(p)
    BY <1>3, <1>5
  <2> HIDE DEF m
  <2>3. Does(m, lost, p.from, done)
    BY <2>1, PerformDoes
  <2> HIDE DEF done
  <2>4. o.result \in Outcomes /\ Solid(o.ledger, lost) /\ Spares(m, p.from, o.ledger)
    BY <2>1, <2>3 DEF Does
  <2>5. Spares(l, p.from, o.ledger)
    BY <2>1, <2>4, SparesTwice
  <2>6. o.result = "err" => Leaves(m, o.ledger)
    BY <2>1, <2>3 DEF Does
  <2>7. o.result = "err" => CostsFee(l, p, o.ledger)
    BY <2>2, <2>6 DEF Leaves, CostsFee
  <2> QED BY <2>4, <2>5, <2>7
<1>6. /\ o.result \in Outcomes /\ Solid(o.ledger, lost) /\ Spares(l, p.from, o.ledger)
      /\ o.result = "err" => CostsFee(l, p, o.ledger)
  BY <1>4, <1>5
<1> QED BY <1>6 DEF o

-----------------------------------------------------------------------------
(***************************************************************************)
(* Batches.                                                                *)
(***************************************************************************)

\* Induction up to n, for a set.
LEMMA UpTo ==
  ASSUME NEW n \in Nat, NEW T, 0 \in T, \A k \in 1..n : k - 1 \in T => k \in T
  PROVE  0..n \subseteq T
<1> DEFINE Less == {x \in Nat \X Nat : x[1] < x[2]}
           Bad == (0..n) \ T
<1>1. IsWellFoundedOn(Less, Nat)
  BY NatLessThanWellFounded DEF OpToRel
<1>2. ASSUME Bad # {} PROVE FALSE
  <2>1. PICK k \in Bad : \A j \in Bad : ~ (<<j, k>> \in Less)
    <3>1. Bad \in SUBSET Nat
      OBVIOUS
    <3> HIDE DEF Less, Bad
    <3> QED BY <1>1, <1>2, <3>1, WFMin
  <2>2. k \in 1..n
    OBVIOUS
  <2>3. k - 1 \in 0..n /\ <<k - 1, k>> \in Less
    BY <2>2
  <2>4. k - 1 \in T
    <3> HIDE DEF Less
    <3> QED BY <2>1, <2>3
  <2> QED BY <2>2, <2>4
<1> QED BY <1>2

LEMMA OrderOfBatch ==
  ASSUME NEW S, IsFiniteSet(S), NEW order \in SetToSeqs(S)
  PROVE  /\ Len(order) \in Nat
         /\ order \in [1..Len(order) -> S]
         /\ \A i, j \in 1..Len(order) : i # j => order[i] # order[j]
<1>1. Cardinality(S) \in Nat
  BY FS_CardinalityType
<1>2. /\ order \in [1..Cardinality(S) -> S]
      /\ \A i, j \in 1..Cardinality(S) : i # j => order[i] # order[j]
  BY DEF SetToSeqs
<1>3. order \in Seq(S)
  BY <1>1, <1>2, SeqDef
<1>4. Len(order) \in Nat /\ DOMAIN order = 1..Len(order)
  BY <1>3, LenProperties
<1> QED BY <1>2, <1>4

\* The state a batch starts from.
Before == [ledger |-> ledger, hung |-> FALSE, height |-> height,
           history |-> history, applied |-> applied]

IsRun(g, order, n) ==
  /\ g = [k \in 0..n |-> g[k]]
  /\ g[0] = Before
  /\ \A k \in 1..n : g[k] = Apply(g[k - 1], order[k])

\* Batch(order) is what its recursive definition says.
LEMMA BatchUnfolds ==
  ASSUME NEW order, Len(order) \in Nat
  PROVE  /\ Batch(order)[0] = Before
         /\ \A k \in 1..Len(order) : Batch(order)[k] = Apply(Batch(order)[k - 1], order[k])
<1> DEFINE T == {n \in Nat : \E g : IsRun(g, order, n)}
<1>1. 0 \in T
  <2>1. IsRun([k \in 0..0 |-> Before], order, 0)
    BY DEF IsRun
  <2> QED BY <2>1
<1>2. ASSUME NEW n \in 1..Len(order), n - 1 \in T PROVE n \in T
  <2>1. PICK g : IsRun(g, order, n - 1)
    BY <1>2
  <2> DEFINE h == [k \in 0..n |-> IF k = n THEN Apply(g[n - 1], order[n]) ELSE g[k]]
  <2>2. h[0] = Before
    BY <2>1 DEF IsRun
  <2>3. ASSUME NEW k \in 1..n PROVE h[k] = Apply(h[k - 1], order[k])
    <3>1. k - 1 \in 0..n /\ k \in 0..n /\ k - 1 # n
      OBVIOUS
    <3>2. h[k - 1] = g[k - 1]
      BY <3>1
    <3>3. CASE k = n
      BY <3>1, <3>2, <3>3, Zenon
    <3>4. CASE k # n
      <4>1. k \in 1..(n - 1) /\ h[k] = g[k]
        BY <3>1, <3>4
      <4>2. g[k] = Apply(g[k - 1], order[k])
        BY <2>1, <4>1 DEF IsRun
      <4> QED BY <4>1, <4>2, <3>2, Zenon
    <3> QED BY <3>3, <3>4
  <2>4. h = [k \in 0..n |-> h[k]]
    OBVIOUS
  <2>5. IsRun(h, order, n)
    <3> HIDE DEF h
    <3> QED BY <2>2, <2>3, <2>4 DEF IsRun
  <2> QED BY <2>5
<1>3. PICK g : IsRun(g, order, Len(order))
  <2>1. 0..Len(order) \subseteq T
    <3> HIDE DEF T
    <3> QED BY <1>1, <1>2, UpTo
  <2>2. Len(order) \in T
    <3> HIDE DEF T
    <3> QED BY <2>1
  <2> QED BY <2>2
<1> DEFINE Body(after) ==
     [k \in 0..Len(order) |->
        IF k = 0 THEN [ledger |-> ledger, hung |-> FALSE, height |-> height,
                       history |-> history, applied |-> applied]
        ELSE Apply(after[k - 1], order[k])]
<1>4. g = Body(g)
  <2>1. ASSUME NEW k \in 0..Len(order)
        PROVE  g[k] = IF k = 0 THEN Before ELSE Apply(g[k - 1], order[k])
    BY <1>3 DEF IsRun
  <2>2. g = [k \in 0..Len(order) |-> g[k]]
    BY <1>3 DEF IsRun
  <2> QED BY <2>1, <2>2, Zenon DEF Before
<1>5. Batch(order) = CHOOSE after : after = Body(after)
  BY Zenon DEF Batch
<1>6. Batch(order) = Body(Batch(order))
  <2> HIDE DEF Body
  <2> QED BY <1>4, <1>5, Zenon
<1> DEFINE b == Batch(order)
<1> HIDE DEF b
<1>7. b = [k \in 0..Len(order) |-> IF k = 0 THEN Before ELSE Apply(b[k - 1], order[k])]
  BY <1>6, Zenon DEF b, Before
<1>8. b[0] = Before
  BY <1>7
<1>9. \A k \in 1..Len(order) : b[k] = Apply(b[k - 1], order[k])
  <2> SUFFICES ASSUME NEW k \in 1..Len(order) PROVE b[k] = Apply(b[k - 1], order[k])
    OBVIOUS
  <2>1. k \in 0..Len(order) /\ k # 0
    OBVIOUS
  <2> QED BY <1>7, <2>1, Zenon
<1> QED BY <1>8, <1>9 DEF b

LEMMA LastFewShort ==
  ASSUME NEW S, NEW s \in Seq(S), NEW n \in Nat
  PROVE  LastFew(s, n) \in Seq(S) /\ Len(LastFew(s, n)) <= n
<1>0. Len(s) \in Nat /\ \A i \in 1..Len(s) : s[i] \in S
  BY LenProperties, ElementOfSeq
<1>1. CASE Len(s) > n
  <2> DEFINE r == SubSeq(s, Len(s) - n + 1, Len(s))
  <2>1. Len(s) - n + 1 \in Int /\ Len(s) \in Int
        /\ \A i \in (Len(s) - n + 1)..Len(s) : s[i] \in S
    BY <1>0, <1>1
  <2>2. /\ r \in Seq(S)
        /\ Len(r) = IF Len(s) - n + 1 <= Len(s) THEN Len(s) - (Len(s) - n + 1) + 1 ELSE 0
    BY <2>1, SubSeqProperties
  <2> HIDE DEF r
  <2>3. Len(r) <= n
    BY <1>0, <2>2
  <2> QED BY <1>1, <2>2, <2>3 DEF LastFew, r
<1>2. CASE ~(Len(s) > n)
  BY <1>0, <1>2 DEF LastFew
<1> QED BY <1>1, <1>2

\* The states a batch goes through.
Midway(s, lost) ==
  /\ s \in [ledger : Ledgers, hung : BOOLEAN, height : Nat,
            history : Seq(Record), applied : [Tx -> Nat]]
  /\ Solid(s.ledger, lost)
  /\ Len(s.history) <= MaxHistory

LEMMA ApplyMidway ==
  ASSUME NEW s, NEW lost \in Nat, Midway(s, lost), NEW t \in Tx
  PROVE  /\ Midway(Apply(s, t), lost)
         /\ \/ Apply(s, t).applied = s.applied
            \/ Apply(s, t).applied = [s.applied EXCEPT ![t] = s.applied[t] + 1]
<1> DEFINE done == Execute(s.ledger, What[t])
           r == Apply(s, t)
           last == [tx |-> t, result |-> done.result]
           log == LastFew(Append(s.history, last), MaxHistory)
           more == [s.applied EXCEPT ![t] = s.applied[t] + 1]
<1>0. What[t] \in Payload /\ MaxHistory \in Nat
  BY ExchangeAssumption
<1>1. done.result \in Outcomes /\ Solid(done.ledger, lost)
  BY <1>0, ExecuteDoes DEF Midway
<1>2. CASE s.hung \/ t \in Unpriced
  <2>1. r = s
    BY <1>2 DEF Apply
  <2> HIDE DEF r
  <2> QED BY <2>1 DEF r
<1>3. CASE ~(s.hung \/ t \in Unpriced) /\ done.result = "hung"
  <2>1. r = [s EXCEPT !.hung = TRUE, !.ledger = done.ledger]
    BY <1>3 DEF Apply
  <2> HIDE DEF done, r
  <2>2. done.ledger \in Ledgers
    BY <1>1 DEF Solid
  <2>3. /\ r \in [ledger : Ledgers, hung : BOOLEAN, height : Nat,
                  history : Seq(Record), applied : [Tx -> Nat]]
        /\ r.ledger = done.ledger /\ r.history = s.history /\ r.applied = s.applied
    BY <2>1, <2>2 DEF Midway
  <2> QED BY <1>1, <2>3 DEF Midway, r
<1>4. CASE ~(s.hung \/ t \in Unpriced) /\ done.result # "hung"
  <2>1. r = [ledger |-> done.ledger, hung |-> FALSE, height |-> s.height + 1,
             history |-> log, applied |-> more]
    BY <1>4 DEF Apply
  <2>2. log \in Seq(Record) /\ Len(log) <= MaxHistory
    <3>1. last \in Record
      <4> HIDE DEF done
      <4> QED BY <1>1, <1>4 DEF Outcomes, Record
    <3> HIDE DEF last, done
    <3>2. Append(s.history, last) \in Seq(Record)
      BY <3>1, AppendProperties DEF Midway
    <3> QED BY <1>0, <3>2, LastFewShort
  <2>3. more \in [Tx -> Nat] /\ s.height + 1 \in Nat
    BY DEF Midway
  <2> HIDE DEF done, r, log, more
  <2>4. done.ledger \in Ledgers
    BY <1>1 DEF Solid
  <2>5. Midway(r, lost) /\ r.applied = more
    BY <1>1, <2>1, <2>2, <2>3, <2>4 DEF Midway
  <2> QED BY <2>5 DEF r, more
<1> QED BY <1>2, <1>3, <1>4

\* What has been executed after the first k transactions of a batch: each of
\* them at most once more, and nothing else.
Progress(s, order, k) ==
  \A t \in Tx : \/ s.applied[t] = applied[t]
                \/ s.applied[t] = applied[t] + 1 /\ t \in {order[j] : j \in 1..k}

LEMMA BatchMidway ==
  ASSUME NEW lost \in Nat, Midway(Before, lost), NEW S \in SUBSET Tx,
         IsFiniteSet(S), NEW order \in SetToSeqs(S)
  PROVE  LET s == Batch(order)[Len(order)]
         IN  Midway(s, lost) /\ Progress(s, order, Len(order))
<1> DEFINE b == Batch(order)
           n == Len(order)
           T == {k \in 0..n : Midway(b[k], lost) /\ Progress(b[k], order, k)}
<1>1. /\ n \in Nat /\ order \in [1..n -> Tx]
      /\ \A i, j \in 1..n : i # j => order[i] # order[j]
  BY OrderOfBatch
<1>2. b[0] = Before /\ \A k \in 1..n : b[k] = Apply(b[k - 1], order[k])
  BY <1>1, BatchUnfolds
<1> HIDE DEF b, n
<1>3. 0 \in T
  <2>1. Progress(Before, order, 0)
    BY DEF Progress, Before
  <2> QED BY <1>1, <1>2, <2>1
<1>4. ASSUME NEW k \in 1..n, k - 1 \in T PROVE k \in T
  <2>1. Midway(b[k - 1], lost) /\ Progress(b[k - 1], order, k - 1)
    BY <1>4
  <2>2. order[k] \in Tx /\ b[k] = Apply(b[k - 1], order[k])
    BY <1>1, <1>2
  <2> DEFINE p == b[k - 1]
             q == b[k]
             u == order[k]
  <2> HIDE DEF p, q, u
  <2>3. /\ Midway(q, lost)
        /\ q.applied = p.applied \/ q.applied = [p.applied EXCEPT ![u] = p.applied[u] + 1]
    BY <2>1, <2>2, ApplyMidway DEF p, q, u
  <2>4. p.applied \in [Tx -> Nat]
    BY <2>1 DEF Midway, p
  <2>5. u \notin {order[j] : j \in 1..(k - 1)}
    BY <1>1 DEF u
  <2>6. \A j \in 1..(k - 1) : j \in 1..k
    BY <1>1
  <2>7. k \in 1..k
    BY <1>1
  <2>8. ASSUME NEW t \in Tx
        PROVE  \/ q.applied[t] = applied[t]
               \/ q.applied[t] = applied[t] + 1 /\ t \in {order[j] : j \in 1..k}
    <3>1. \/ p.applied[t] = applied[t]
          \/ p.applied[t] = applied[t] + 1 /\ t \in {order[j] : j \in 1..(k - 1)}
      BY <2>1 DEF Progress, p
    <3>2. CASE t = u
      <4>1. p.applied[t] = applied[t]
        BY <2>5, <3>1, <3>2
      <4>2. t \in {order[j] : j \in 1..k}
        BY <2>7, <3>2 DEF u
      <4> QED BY <2>3, <2>4, <3>2, <4>1, <4>2
    <3>3. CASE t # u
      <4>1. q.applied[t] = p.applied[t]
        BY <2>3, <2>4, <3>3
      <4> QED BY <2>6, <3>1, <4>1
    <3> QED BY <3>2, <3>3
  <2>9. Progress(q, order, k)
    BY <2>8 DEF Progress
  <2> QED BY <1>1, <2>3, <2>9 DEF q
<1>5. 0..n \subseteq T
  <2> HIDE DEF T
  <2> QED BY <1>1, <1>3, <1>4, UpTo
<1>6. n \in T
  <2> HIDE DEF T
  <2> QED BY <1>1, <1>5
<1> QED BY <1>6 DEF b, n

-----------------------------------------------------------------------------
(***************************************************************************)
(* The money of the state manager.  What TypeOK and Conserved need to be   *)
(* inductive: the ledger is solid but for what a restart has cost, since   *)
(* the file keeps the supply and not the accounts; and the file holds a    *)
(* state of the right shape.                                               *)
(***************************************************************************)
ImageOK(image) ==
  /\ image.supply \in Amount
  /\ image.height \in Nat
  /\ image.history \in Seq(Record) /\ Len(image.history) <= MaxHistory
  /\ image.checkpoints \in Seq(Nat) /\ Len(image.checkpoints) <= MaxCheckpoints
  /\ image.root \in {"none", "sound", "stale"}

Funded == \E lost \in Nat : Solid(ledger, lost) /\ (restarts = 0 => lost = 0)

MoneyInv ==
  /\ TypeOK
  /\ saved \in {NoFile, <<Torn>>} \/ ImageOK(saved[1])
  /\ Funded

\* The part of TypeOK that is about the adapter.
EntryOK(e) ==
  /\ e.status \in CA!Status
  /\ e.for \in Nat /\ e.against \in Nat
  /\ e.for + e.against = e.rounds

LEMMA PollEntryOK ==
  ASSUME NEW t, NEW e, EntryOK(e)
  PROVE  EntryOK(CA!Poll(t, e))
<1> DEFINE v == CA!Voted(t, e)
           w == [v EXCEPT !.status = CA!Verdict(v)]
<1>1. /\ v.for \in Nat /\ v.against \in Nat /\ v.for + v.against = v.rounds
  BY DEF CA!Voted, EntryOK
<1>2. w.for = v.for /\ w.against = v.against /\ w.rounds = v.rounds /\ w.status = CA!Verdict(v)
  BY DEF CA!Voted
<1>3. CA!Verdict(v) \in CA!Status
  BY DEF CA!Verdict, CA!Status, CA!Undecided
<1>4. EntryOK(w)
  <2> HIDE DEF v, w
  <2> QED BY <1>1, <1>2, <1>3 DEF EntryOK
<1> HIDE DEF v
<1> QED BY <1>4 DEF CA!Poll, v

LEMMA InitMoney == Init => MoneyInv
<1> SUFFICES ASSUME Init PROVE MoneyInv
  OBVIOUS
<1> USE DEF Init, CA!Init
<1>1. CA!TypeOK
  BY ExchangeAssumption DEF CA!TypeOK, CA!Known
<1>2. ledger \in Ledgers /\ Solid(ledger, 0)
  <2>1. Total(Genesis.balance) + 0 = Genesis.supply
    <3>1. Total(Genesis.balance) \in Nat
      BY ExchangeAssumption, FS_CardinalityType DEF Total
    <3> QED BY <3>1, ExchangeAssumption
  <2> QED BY <2>1, ExchangeAssumption DEF Solid
<1>3. /\ history \in Seq(Record) /\ Len(history) <= MaxHistory
      /\ checkpoints \in Seq(Nat) /\ Len(checkpoints) <= MaxCheckpoints
  BY ExchangeAssumption, EmptySeq
<1>4. TypeOK
  BY <1>1, <1>2, <1>3, ExchangeAssumption DEF TypeOK, NoFile, Torn
<1>5. Funded
  BY <1>2 DEF Funded
<1> QED BY <1>4, <1>5 DEF MoneyInv

LEMMA SubmitMoney ==
  ASSUME MoneyInv, NEW t \in Tx, Submit(t)
  PROVE  MoneyInv'
<1> USE DEF Submit, Others, state
<1>1. CA!TypeOK'
  <2>1. CA!TypeOK /\ MaxSubmits \in Nat
    BY ExchangeAssumption DEF MoneyInv, TypeOK
  <2>2. /\ pending' = [u \in CA!Known \cup {t} |-> IF u = t THEN CA!New ELSE pending[u]]
        /\ submits' = submits + 1 /\ submits < MaxSubmits /\ expired' = expired
    BY DEF CA!Submit
  <2>3. ASSUME NEW u \in CA!Known' PROVE EntryOK(pending'[u])
    <3>1. CASE u = t
      <4>1. pending'[u] = CA!New
        BY <2>2, <3>1 DEF CA!Known
      <4> QED BY <4>1 DEF CA!New, EntryOK, CA!Status, CA!Undecided
    <3>2. CASE u # t
      <4>1. u \in CA!Known /\ pending'[u] = pending[u]
        BY <2>2, <3>2 DEF CA!Known
      <4> QED BY <2>1, <4>1 DEF EntryOK, CA!TypeOK
    <3> QED BY <3>1, <3>2
  <2>4. CA!Known' \subseteq Tx /\ submits' \in 0..MaxSubmits
    BY <2>1, <2>2 DEF CA!TypeOK, CA!Known
  <2> QED BY <2>1, <2>2, <2>3, <2>4 DEF CA!TypeOK, EntryOK
<1>2. TypeOK'
  BY <1>1 DEF MoneyInv, TypeOK, NoFile, Torn
<1> QED BY <1>2 DEF MoneyInv, Funded, NoFile, Torn

LEMMA RoundMoney ==
  ASSUME MoneyInv, RunRound
  PROVE  MoneyInv'
<1> USE DEF RunRound, Others, state
<1>1. CA!TypeOK'
  <2>1. CA!TypeOK
    BY DEF MoneyInv, TypeOK
  <2>2. /\ pending' = [t \in CA!Known |-> CA!Poll(t, pending[t])]
        /\ submits' = submits /\ expired' = expired
    BY DEF CA!Round
  <2>3. CA!Known' = CA!Known
    BY <2>2 DEF CA!Known
  <2>4. ASSUME NEW t \in CA!Known PROVE EntryOK(pending'[t])
    <3>1. EntryOK(pending[t])
      BY <2>1 DEF EntryOK, CA!TypeOK
    <3> QED BY <2>2, <3>1, PollEntryOK
  <2> QED BY <2>1, <2>2, <2>3, <2>4 DEF CA!TypeOK, EntryOK
<1>2. TypeOK'
  BY <1>1 DEF MoneyInv, TypeOK, NoFile, Torn
<1> QED BY <1>2 DEF MoneyInv, Funded, NoFile, Torn

LEMMA ExpireMoney ==
  ASSUME MoneyInv, NEW t \in Tx, Expire(t)
  PROVE  MoneyInv'
<1> USE DEF Expire, Others, state
<1>1. CA!TypeOK'
  BY DEF MoneyInv, TypeOK, CA!TypeOK, CA!Expire, CA!Known
<1>2. TypeOK'
  BY <1>1 DEF MoneyInv, TypeOK, NoFile, Torn
<1> QED BY <1>2 DEF MoneyInv, Funded, NoFile, Torn

\* clear_finalized drops entries and changes none.
LEMMA ForgetKeeps ==
  ASSUME CA!TypeOK, Forget, UNCHANGED <<expired, submits>>
  PROVE  CA!TypeOK' /\ CA!Known' = {t \in CA!Known : pending[t].status \in CA!Undecided}
<1>1. /\ CA!Known' = {t \in CA!Known : pending[t].status \in CA!Undecided}
      /\ \A t \in CA!Known' : pending'[t] = pending[t]
  BY DEF Forget, CA!Clear, CA!Known
<1> QED BY <1>1 DEF CA!TypeOK

\* What Process makes of the batch, without the checkpoints and the root.
Outcome(order) ==
  LET s == Batch(order)[Len(order)]
  IN  /\ ledger' = s.ledger /\ height' = s.height /\ history' = s.history
      /\ applied' = s.applied
      /\ phase' = IF s.hung THEN "hung" ELSE "up"
      /\ IF s.hung THEN UNCHANGED pending ELSE Forget

LEMMA ProcessOutcome ==
  ASSUME Process
  PROVE  /\ \E order \in SetToSeqs(CA!With("Confirmed")) : Outcome(order)
         /\ \/ checkpoints' = checkpoints
            \/ checkpoints' = LastFew(Append(checkpoints, height'), MaxCheckpoints)
         /\ root' \in {root, "stale"}
         /\ idle' \in {idle, idle + 1} /\ idle' <= MaxIdle
         /\ phase = "up" /\ UNCHANGED <<expired, submits, saved, restarts>>
<1> DEFINE batch == CA!With("Confirmed")
<1> HIDE DEF batch
<1>1. /\ phase = "up"
      /\ idle' = IF batch = {} THEN idle + 1 ELSE idle
      /\ idle' <= MaxIdle
      /\ UNCHANGED <<expired, submits, saved, restarts>>
  BY DEF Process, batch
<1>2. PICK order \in SetToSeqs(batch) :
        \E s \in {Batch(order)[Len(order)]} :
          LET point == TakesCheckpoint(s.height) /\ ~s.hung IN
          /\ ledger' = s.ledger
          /\ height' = s.height
          /\ history' = s.history
          /\ applied' = s.applied
          /\ phase' = IF s.hung THEN "hung" ELSE "up"
          /\ checkpoints' = IF point
                            THEN LastFew(Append(checkpoints, s.height), MaxCheckpoints)
                            ELSE checkpoints
          /\ root' = IF point \/ (root = "sound" /\ s.height # height)
                     THEN "stale" ELSE root
          /\ IF s.hung THEN UNCHANGED pending ELSE Forget
  BY Zenon DEF Process, batch
<1> DEFINE s == Batch(order)[Len(order)]
           point == TakesCheckpoint(s.height) /\ ~s.hung
<1>3. /\ ledger' = s.ledger /\ height' = s.height /\ history' = s.history
      /\ applied' = s.applied
      /\ phase' = IF s.hung THEN "hung" ELSE "up"
      /\ checkpoints' = IF point
                        THEN LastFew(Append(checkpoints, s.height), MaxCheckpoints)
                        ELSE checkpoints
      /\ root' = IF point \/ (root = "sound" /\ s.height # height) THEN "stale" ELSE root
      /\ IF s.hung THEN UNCHANGED pending ELSE Forget
  BY <1>2, Zenon
<1> HIDE DEF s, point
<1>4. Outcome(order)
  BY <1>3, Zenon DEF Outcome, s
<1>5. \/ checkpoints' = checkpoints
      \/ checkpoints' = LastFew(Append(checkpoints, height'), MaxCheckpoints)
  BY <1>3
<1>6. root' \in {root, "stale"}
  BY <1>3
<1>7. idle' \in {idle, idle + 1}
  BY <1>1
<1>8. \E ord \in SetToSeqs(batch) : Outcome(ord)
  BY <1>4
<1> QED BY <1>1, <1>5, <1>6, <1>7, <1>8 DEF batch

\* A hung call has changed no entry, one that returns has cleared some.
LEMMA OutcomeAdapter ==
  ASSUME CA!TypeOK, NEW order, Outcome(order), UNCHANGED <<expired, submits>>
  PROVE  CA!TypeOK'
<1>1. CASE Forget
  BY <1>1, ForgetKeeps
<1>2. CASE UNCHANGED pending
  BY <1>2 DEF CA!TypeOK, CA!Known
<1> QED BY <1>1, <1>2 DEF Outcome

LEMMA ProcessMoney ==
  ASSUME MoneyInv, IsFiniteSet(CA!With("Confirmed")), Process
  PROVE  MoneyInv'
<1>1. PICK order \in SetToSeqs(CA!With("Confirmed")) : Outcome(order)
  BY ProcessOutcome
<1>2. PICK lost \in Nat : Solid(ledger, lost) /\ (restarts = 0 => lost = 0)
  BY DEF MoneyInv, Funded
<1> DEFINE s == Batch(order)[Len(order)]
<1>3. Midway(s, lost)
  <2>1. Midway(Before, lost)
    BY <1>2 DEF Midway, Before, MoneyInv, TypeOK
  <2>2. CA!With("Confirmed") \in SUBSET Tx
    BY DEF CA!With, CA!TypeOK, MoneyInv, TypeOK
  <2> HIDE DEF s
  <2>3. Midway(s, lost) /\ Progress(s, order, Len(order))
    BY <2>1, <2>2, BatchMidway DEF s
  <2> QED BY <2>3
<1>4. /\ ledger' = s.ledger /\ height' = s.height /\ history' = s.history
      /\ applied' = s.applied /\ phase' \in {"up", "hung"}
  BY <1>1 DEF Outcome
<1> HIDE DEF s
<1>5. CA!TypeOK'
  BY <1>1, ProcessOutcome, OutcomeAdapter DEF MoneyInv, TypeOK
<1>6. checkpoints' \in Seq(Nat) /\ Len(checkpoints') <= MaxCheckpoints
  <2>1. checkpoints \in Seq(Nat) /\ Len(checkpoints) <= MaxCheckpoints
    BY DEF MoneyInv, TypeOK
  <2>2. height' \in Nat /\ MaxCheckpoints \in Nat
    BY <1>3, <1>4, ExchangeAssumption DEF Midway
  <2>3. Append(checkpoints, height') \in Seq(Nat)
    BY <2>1, <2>2, AppendProperties
  <2> QED BY <2>1, <2>2, <2>3, LastFewShort, ProcessOutcome
<1>7. idle' \in 0..MaxIdle /\ root' \in {"none", "sound", "stale"}
  <2>1. idle \in Nat /\ root \in {"none", "sound", "stale"} /\ MaxIdle \in Nat
    BY ExchangeAssumption DEF MoneyInv, TypeOK
  <2> QED BY <2>1, ProcessOutcome
<1>8. /\ ledger' \in Ledgers /\ height' \in Nat /\ applied' \in [Tx -> Nat]
      /\ history' \in Seq(Record) /\ Len(history') <= MaxHistory
  BY <1>3, <1>4 DEF Midway
<1>9. saved' = saved /\ restarts' = restarts
  BY ProcessOutcome
<1>10. TypeOK'
  BY <1>4, <1>5, <1>6, <1>7, <1>8, <1>9 DEF MoneyInv, TypeOK, NoFile, Torn
<1>11. Funded'
  <2>1. Solid(ledger', lost) /\ (restarts' = 0 => lost = 0)
    BY <1>2, <1>3, <1>4, <1>9 DEF Midway
  <2> QED BY <2>1 DEF Funded
<1> QED BY <1>9, <1>10, <1>11 DEF MoneyInv, NoFile, Torn

LEMMA SaveMoney ==
  ASSUME MoneyInv, Save
  PROVE  MoneyInv'
<1> USE DEF Save, adapter, state
<1>1. saved' = <<Torn>> \/ saved'[1] = Image
  OBVIOUS
<1>2. ImageOK(Image)
  BY DEF MoneyInv, TypeOK, ImageOK, Image, Ledgers
<1>3. CA!TypeOK'
  BY DEF MoneyInv, TypeOK, CA!TypeOK, CA!Known
<1>4. TypeOK'
  BY <1>1, <1>2, <1>3 DEF MoneyInv, TypeOK, ImageOK
<1> QED BY <1>1, <1>2, <1>4 DEF MoneyInv, Funded

\* After a restart there are no accounts, and all of the supply is lost.
LEMMA RestartMoney ==
  ASSUME MoneyInv, Restart
  PROVE  MoneyInv'
<1>1. /\ restarts' = restarts + 1 /\ restarts < MaxRestarts /\ saved # NoFile
      /\ pending' = [t \in {} |-> 0]
      /\ UNCHANGED <<expired, submits, saved, applied, idle>>
  BY DEF Restart
<1>2. restarts' \in 0..MaxRestarts /\ restarts' # 0
  BY <1>1, ExchangeAssumption DEF MoneyInv, TypeOK
<1>3. CA!TypeOK'
  BY <1>1 DEF MoneyInv, TypeOK, CA!TypeOK, CA!Known
<1>4. CASE Readable(saved[1])
  <2>1. /\ ledger' = [balance |-> EmptyLedger.balance, supply |-> saved[1].supply]
        /\ height' = saved[1].height /\ history' = saved[1].history
        /\ checkpoints' = saved[1].checkpoints /\ root' = saved[1].root
        /\ phase' = "up"
    BY <1>4 DEF Restart
  <2>2. ImageOK(saved[1])
    <3>1. saved # <<Torn>>
      BY <1>4 DEF Readable, Torn
    <3> QED BY <1>1, <3>1 DEF MoneyInv
  <2>3. Solid(ledger', saved[1].supply) /\ saved[1].supply \in Nat
    <3>1. saved[1].supply \in Amount /\ saved[1].supply \in Nat
      BY <2>2, LedgerAssumption DEF ImageOK, Amount
    <3>2. ledger' \in Ledgers
      BY <2>1, <3>1, EmptyHoldsNothing DEF Ledgers
    <3>3. ledger'.balance = EmptyLedger.balance /\ ledger'.supply = saved[1].supply
      BY <2>1
    <3>4. Total(ledger'.balance) + saved[1].supply = ledger'.supply
      BY <3>1, <3>3, EmptyHoldsNothing
    <3> QED BY <3>1, <3>2, <3>3, <3>4, EmptyHoldsNothing DEF Solid
  <2>4. Funded'
    BY <1>2, <2>3 DEF Funded
  <2>5. ledger' \in Ledgers
    BY <2>3 DEF Solid
  <2>6. TypeOK'
    BY <1>1, <1>2, <1>3, <2>1, <2>2, <2>5 DEF MoneyInv, TypeOK, ImageOK, NoFile, Torn
  <2> QED BY <1>1, <2>2, <2>4, <2>6 DEF MoneyInv
<1>5. CASE ~Readable(saved[1])
  <2>1. phase' = "dead" /\ UNCHANGED state
    BY <1>5 DEF Restart
  <2>2. TypeOK'
    BY <1>1, <1>2, <1>3, <2>1 DEF MoneyInv, TypeOK, NoFile, Torn, state
  <2>3. Funded'
    BY <1>2, <2>1 DEF MoneyInv, Funded, state
  <2> QED BY <1>1, <2>2, <2>3 DEF MoneyInv, NoFile, Torn
<1> QED BY <1>4, <1>5

-----------------------------------------------------------------------------
(***************************************************************************)
(* What was submitted.  An execution uses up an entry of the adapter, and  *)
(* an entry a submission: what has been executed and what may still be is  *)
(* no more than what was submitted.  A call that hangs clears nothing, but *)
(* no call comes after it, and a process that is started again knows       *)
(* nothing of what was pending.                                            *)
(***************************************************************************)
Budget ==
  /\ IsFiniteSet(CA!Known) /\ IsFiniteSet(Executions)
  /\ Cardinality(Executions) <= submits
  /\ phase = "up" => Cardinality(Executions) + Cardinality(CA!Known) <= submits

LEMMA InitBudget == Init => Budget
<1> SUFFICES ASSUME Init PROVE Budget
  OBVIOUS
<1>1. CA!Known = {} /\ submits = 0
  BY DEF Init, CA!Init, CA!Known
<1>2. Executions = {}
  <2>1. ASSUME NEW x \in Executions PROVE FALSE
    <3>1. PICK t \in Tx : x \in {t} \X (1..applied[t])
      BY <2>1 DEF Executions
    <3>2. applied[t] = 0
      BY DEF Init
    <3> QED BY <3>1, <3>2
  <2> QED BY <2>1
<1>3. IsFiniteSet({}) /\ Cardinality({}) = 0
  BY FS_EmptySet
<1> QED BY <1>1, <1>2, <1>3 DEF Budget

\* Steps that execute nothing and know no more than what they add to submits.
LEMMA QuietBudget ==
  ASSUME TypeOK, Budget, applied' = applied, phase = "up",
         submits' = submits, CA!Known' \subseteq CA!Known
  PROVE  Budget'
<1>1. Executions' = Executions
  BY DEF Executions
<1>2. IsFiniteSet(CA!Known') /\ Cardinality(CA!Known') <= Cardinality(CA!Known)
  BY FS_Subset DEF Budget
<1>3. /\ Cardinality(CA!Known') \in Nat /\ Cardinality(CA!Known) \in Nat
      /\ Cardinality(Executions) \in Nat /\ submits \in Nat
  BY <1>2, FS_CardinalityType, ExchangeAssumption DEF Budget, TypeOK, CA!TypeOK
<1> QED BY <1>1, <1>2, <1>3 DEF Budget

LEMMA SubmitBudget ==
  ASSUME TypeOK, Budget, NEW t \in Tx, Submit(t)
  PROVE  Budget'
<1>1. /\ CA!Known' = CA!Known \cup {t} /\ submits' = submits + 1
      /\ phase = "up" /\ applied' = applied
  BY DEF Submit, CA!Submit, CA!Known, Others
<1>2. Executions' = Executions
  BY <1>1 DEF Executions
<1>3. IsFiniteSet(CA!Known') /\ Cardinality(CA!Known') <= Cardinality(CA!Known) + 1
  <2>1. /\ IsFiniteSet(CA!Known \cup {t}) /\ Cardinality(CA!Known) \in Nat
        /\ Cardinality(CA!Known \cup {t})
             = IF t \in CA!Known THEN Cardinality(CA!Known) ELSE Cardinality(CA!Known) + 1
    BY FS_AddElement, FS_CardinalityType DEF Budget
  <2> QED BY <1>1, <2>1
<1>4. /\ Cardinality(CA!Known') \in Nat /\ Cardinality(CA!Known) \in Nat
      /\ Cardinality(Executions) \in Nat /\ submits \in Nat
  BY <1>3, FS_CardinalityType, ExchangeAssumption DEF Budget, TypeOK, CA!TypeOK
<1> QED BY <1>1, <1>2, <1>3, <1>4 DEF Budget

\* A batch adds at most one execution for each of its transactions.
LEMMA BatchExecutions ==
  ASSUME TypeOK, Budget, applied' \in [Tx -> Nat], NEW S, IsFiniteSet(S),
         \A t \in Tx : \/ applied'[t] = applied[t]
                       \/ applied'[t] = applied[t] + 1 /\ t \in S
  PROVE  /\ IsFiniteSet(Executions')
         /\ Cardinality(Executions') <= Cardinality(Executions) + Cardinality(S)
<1> DEFINE Fresh == Executions' \ Executions
           f == [x \in Fresh |-> x[1]]
<1>1. ASSUME NEW x \in Fresh
      PROVE  x[1] \in S /\ x = <<x[1], applied[x[1]] + 1>>
  <2>1. PICK t \in Tx : x \in {t} \X (1..applied'[t])
    BY DEF Executions
  <2>2. x = <<t, x[2]>> /\ x[1] = t /\ x[2] \in 1..applied'[t]
    BY <2>1
  <2>3. x \notin {t} \X (1..applied[t])
    BY <1>1 DEF Executions
  <2>4. x[2] \notin 1..applied[t]
    BY <2>2, <2>3
  <2>5. applied[t] \in Nat /\ applied'[t] \in Nat
    BY DEF TypeOK
  <2>6. t \in S /\ x[2] = applied[t] + 1
    BY <2>2, <2>4, <2>5
  <2> QED BY <2>2, <2>6
<1>2. f \in Injection(Fresh, S)
  <2>1. f \in [Fresh -> S]
    <3> HIDE DEF Fresh
    <3> QED BY <1>1
  <2>2. ASSUME NEW x \in Fresh, NEW y \in Fresh, f[x] = f[y] PROVE x = y
    <3>1. x[1] = y[1]
      BY <2>2
    <3>2. x = <<x[1], applied[x[1]] + 1>> /\ y = <<y[1], applied[y[1]] + 1>>
      BY <1>1
    <3> HIDE DEF Fresh, f
    <3> QED BY <3>1, <3>2, Zenon
  <2> HIDE DEF Fresh
  <2> QED BY <2>1, <2>2 DEF Injection, IsInjective
<1>3. IsFiniteSet(Fresh) /\ Cardinality(Fresh) <= Cardinality(S)
  <2> HIDE DEF f, Fresh
  <2> QED BY <1>2, FS_Injection
<1>4. /\ IsFiniteSet(Executions \cup Fresh)
      /\ Cardinality(Executions \cup Fresh)
           = Cardinality(Executions) + Cardinality(Fresh) - Cardinality(Executions \cap Fresh)
  <2> HIDE DEF Fresh
  <2> QED BY <1>3, FS_Union DEF Budget
<1>5. Executions' \in SUBSET (Executions \cup Fresh)
  OBVIOUS
<1>6. /\ IsFiniteSet(Executions')
      /\ Cardinality(Executions') <= Cardinality(Executions \cup Fresh)
  <2> HIDE DEF Fresh
  <2> QED BY <1>4, <1>5, FS_Subset
<1>7. Executions \cap Fresh = {}
  OBVIOUS
<1>8. Cardinality(Executions \cap Fresh) = 0
  BY <1>7, FS_EmptySet, Zenon
<1>9. /\ Cardinality(Executions') \in Nat /\ Cardinality(Executions) \in Nat
      /\ Cardinality(Fresh) \in Nat /\ Cardinality(S) \in Nat
  <2> HIDE DEF Fresh
  <2> QED BY <1>3, <1>6, FS_CardinalityType DEF Budget
<1> HIDE DEF Fresh
<1> QED BY <1>3, <1>4, <1>6, <1>8, <1>9

LEMMA ProcessBudget ==
  ASSUME MoneyInv, MoneyInv', Budget, Process
  PROVE  Budget'
<1> DEFINE S == CA!With("Confirmed")
           E == Cardinality(Executions)
           K == Cardinality(CA!Known)
<1>1. PICK order \in SetToSeqs(S) : Outcome(order)
  BY ProcessOutcome
<1>2. /\ IsFiniteSet(S) /\ S \in SUBSET CA!Known
      /\ Cardinality(S) \in Nat /\ Cardinality(S) <= K /\ K \in Nat
  <2>1. S \in SUBSET CA!Known
    BY DEF CA!With
  <2> HIDE DEF S
  <2> QED BY <2>1, FS_Subset, FS_CardinalityType DEF Budget
<1>3. PICK lost \in Nat : Solid(ledger, lost)
  BY DEF MoneyInv, Funded
<1>4. \A t \in Tx : \/ applied'[t] = applied[t]
                    \/ applied'[t] = applied[t] + 1 /\ t \in S
  <2>1. Midway(Before, lost)
    BY <1>3 DEF Midway, Before, MoneyInv, TypeOK
  <2>2. S \in SUBSET Tx
    BY <1>2 DEF CA!TypeOK, MoneyInv, TypeOK
  <2> HIDE DEF S
  <2> DEFINE s == Batch(order)[Len(order)]
  <2>3. Progress(s, order, Len(order)) /\ applied' = s.applied
    BY <1>1, <1>2, <2>1, <2>2, BatchMidway DEF Outcome
  <2>4. \A j \in 1..Len(order) : order[j] \in S
    BY <1>1, <1>2, OrderOfBatch
  <2> HIDE DEF s
  <2> QED BY <2>3, <2>4 DEF Progress
<1>5. /\ IsFiniteSet(Executions') /\ Cardinality(Executions') \in Nat
      /\ Cardinality(Executions') <= E + Cardinality(S)
  <2>1. /\ IsFiniteSet(Executions')
        /\ Cardinality(Executions') <= E + Cardinality(S)
    <3>1. applied' \in [Tx -> Nat] /\ TypeOK
      BY DEF MoneyInv, TypeOK
    <3> HIDE DEF S
    <3> QED BY <1>2, <1>4, <3>1, BatchExecutions
  <2> QED BY <2>1, FS_CardinalityType
<1>6. phase = "up" /\ submits' = submits
  BY ProcessOutcome
<1>7. E \in Nat /\ submits \in Nat /\ E + K <= submits
  BY <1>6, FS_CardinalityType DEF Budget, MoneyInv, TypeOK, CA!TypeOK
<1>8. Cardinality(Executions') <= submits'
  <2> HIDE DEF S, E, K
  <2> QED BY <1>2, <1>5, <1>6, <1>7
<1>9. IsFiniteSet(CA!Known') /\ (phase' = "up" => Cardinality(CA!Known') + Cardinality(S) <= K)
  <2>1. CASE Forget
    <3>1. CA!Known' = {t \in CA!Known : pending[t].status \in CA!Undecided}
      BY <2>1, ProcessOutcome, ForgetKeeps DEF MoneyInv, TypeOK
    <3>2. CA!Known' \in SUBSET CA!Known /\ CA!Known' \cap S = {}
      BY <3>1 DEF CA!With, CA!Undecided
    <3> DEFINE R == CA!Known'
    <3> HIDE DEF R, S
    <3>3. IsFiniteSet(R) /\ Cardinality(R) \in Nat
      BY <3>2, FS_Subset, FS_CardinalityType DEF Budget, R
    <3>4. IsFiniteSet(R \cup S) /\ Cardinality(R \cup S) = Cardinality(R) + Cardinality(S)
      <4>1. Cardinality(R \cap S) = 0
        BY <3>2, FS_EmptySet, Zenon DEF R
      <4>2. /\ IsFiniteSet(R \cup S)
            /\ Cardinality(R \cup S) = Cardinality(R) + Cardinality(S) - Cardinality(R \cap S)
        BY <1>2, <3>3, FS_Union
      <4> HIDE DEF K
      <4> QED BY <1>2, <3>3, <4>1, <4>2
    <3>5. R \cup S \in SUBSET CA!Known
      BY <1>2, <3>2 DEF R
    <3>6. Cardinality(R \cup S) <= K
      BY <3>5, FS_Subset DEF Budget
    <3> QED BY <3>3, <3>4, <3>6 DEF R
  <2>2. CASE UNCHANGED pending /\ phase' = "hung"
    BY <2>2 DEF Budget, CA!Known
  <2> QED BY <1>1, <2>1, <2>2 DEF Outcome
<1>10. phase' = "up" => Cardinality(Executions') + Cardinality(CA!Known') <= submits'
  <2>1. Cardinality(CA!Known') \in Nat
    BY <1>9, FS_CardinalityType
  <2> HIDE DEF S, E, K
  <2> QED BY <1>2, <1>5, <1>6, <1>7, <1>9, <2>1
<1> QED BY <1>5, <1>8, <1>9, <1>10 DEF Budget

LEMMA StepBudget ==
  ASSUME MoneyInv, MoneyInv', Budget, Next
  PROVE  Budget'
<1>0. TypeOK
  BY DEF MoneyInv
<1>1. CASE \E t \in Tx : Submit(t)
  BY <1>0, <1>1, SubmitBudget
<1>2. CASE \E t \in Tx : Expire(t)
  <2>1. /\ applied' = applied /\ phase = "up" /\ submits' = submits
        /\ CA!Known' \subseteq CA!Known
    BY <1>2 DEF Expire, CA!Expire, CA!Known, Others
  <2> QED BY <1>0, <2>1, QuietBudget
<1>3. CASE RunRound
  <2>1. /\ applied' = applied /\ phase = "up" /\ submits' = submits
        /\ CA!Known' \subseteq CA!Known
    BY <1>3 DEF RunRound, CA!Round, CA!Known, Others
  <2> QED BY <1>0, <2>1, QuietBudget
<1>4. CASE Process
  BY <1>4, ProcessBudget
<1>5. CASE Save
  <2>1. /\ applied' = applied /\ phase = "up" /\ submits' = submits
        /\ CA!Known' \subseteq CA!Known
    BY <1>5 DEF Save, adapter, CA!Known
  <2> QED BY <1>0, <2>1, QuietBudget
<1>6. CASE Restart
  <2>1. /\ applied' = applied /\ submits' = submits /\ CA!Known' = {}
    BY <1>6 DEF Restart, CA!Known
  <2>2. Executions' = Executions
    BY <2>1 DEF Executions
  <2>3. Cardinality(Executions) \in Nat /\ Cardinality(CA!Known') = 0 /\ IsFiniteSet(CA!Known')
    BY <2>1, FS_EmptySet, FS_CardinalityType DEF Budget
  <2> QED BY <2>1, <2>2, <2>3 DEF Budget
<1> QED BY <1>1, <1>2, <1>3, <1>4, <1>5, <1>6 DEF Next

-----------------------------------------------------------------------------
(***************************************************************************)
(* Votes.  Validity only ever gets worse (a fee stays what it is, an       *)
(* expiry does not come back), so all the votes on a transaction that is   *)
(* still valid were in favour, and all on one whose fee is too low against.*)
(***************************************************************************)
Honest(t, e) ==
  /\ t \in LowFee =>
       /\ e.for = 0 /\ e.status # "Confirmed"
       /\ e.rounds >= SampleSize => e.status = "Rejected"
  /\ t \notin LowFee \cup expired =>
       /\ e.against = 0 /\ e.status # "Rejected"
       /\ e.rounds >= SampleSize => e.status = "Confirmed"

Verdicts == \A t \in CA!Known : Honest(t, pending[t])

LEMMA Product ==
  ASSUME NEW i \in Nat \ {0}, NEW j \in Nat \ {0}
  PROVE  i * j \in Nat \ {0}
<1>1. i * j \in Nat /\ (i - 1) * j \in Nat
  OBVIOUS
<1>2. i * j = (i - 1) * j + j
  OBVIOUS
<1> QED BY <1>1, <1>2

LEMMA Unanimous ==
  ASSUME NEW n \in Nat
  PROVE  n * Den >= Num * n
<1>1. Num \in Nat /\ Den \in Nat /\ Den - Num \in Nat
  BY ExchangeAssumption
<1>2. n * (Den - Num) \in Nat
  BY <1>1
<1>3. n * Den = Num * n + n * (Den - Num)
  BY <1>1
<1>4. Num * n \in Nat
  BY <1>1
<1> DEFINE x == Num * n
           y == n * (Den - Num)
           z == n * Den
<1> HIDE DEF x, y, z
<1>5. z >= x
  BY <1>2, <1>3, <1>4 DEF x, y, z
<1> QED BY <1>5 DEF x, z

LEMMA AgainstNobody ==
  ASSUME NEW n \in Nat \ {0}
  PROVE  ~(0 * Den >= Num * n)
<1>1. Num \in Nat \ {0} /\ Den \in Nat
  BY ExchangeAssumption
<1>2. Num * n \in Nat \ {0} /\ 0 * Den = 0
  BY <1>1, Product
<1> DEFINE need == Num * n
           have == 0 * Den
<1> HIDE DEF need, have
<1>3. ~(have >= need)
  BY <1>2 DEF need, have
<1> QED BY <1>3 DEF need, have

\* Votes that are all against never confirm, and reject as soon as there are
\* enough of them: the threshold is above a half, and at most 1.
LEMMA AllAgainst ==
  ASSUME NEW e, e.for = 0, e.against \in Nat
  PROVE  /\ CA!Verdict(e) # "Confirmed"
         /\ e.against >= SampleSize => CA!Verdict(e) = "Rejected"
<1>1. SampleSize \in Nat \ {0} /\ e.for + e.against = e.against
  BY ExchangeAssumption
<1>2. CA!Sampled(e) <=> e.against >= SampleSize
  BY <1>1, Zenon DEF CA!Sampled
<1>3. e.against >= SampleSize => ~CA!Accepted(e)
  <2>1. e.against >= SampleSize => ~(0 * Den >= Num * e.against)
    BY <1>1, AgainstNobody
  <2> QED BY <1>1, <2>1, Zenon DEF CA!Accepted
<1>4. CA!Refused(e)
  BY <1>1, Unanimous, Zenon DEF CA!Refused
<1> QED BY <1>2, <1>3, <1>4, Zenon DEF CA!Verdict

LEMMA AllInFavour ==
  ASSUME NEW e, e.against = 0, e.for \in Nat
  PROVE  /\ CA!Verdict(e) # "Rejected"
         /\ e.for >= SampleSize => CA!Verdict(e) = "Confirmed"
<1>1. SampleSize \in Nat \ {0} /\ e.for + e.against = e.for
  BY ExchangeAssumption
<1>2. CA!Sampled(e) <=> e.for >= SampleSize
  BY <1>1, Zenon DEF CA!Sampled
<1>3. CA!Accepted(e)
  BY <1>1, Unanimous, Zenon DEF CA!Accepted
<1> QED BY <1>2, <1>3, Zenon DEF CA!Verdict

LEMMA PollHonest ==
  ASSUME NEW t, NEW e, EntryOK(e), Honest(t, e)
  PROVE  Honest(t, CA!Poll(t, e))
<1> DEFINE v == CA!Voted(t, e)
           w == [v EXCEPT !.status = CA!Verdict(v)]
<1>1. /\ v.for = e.for + (IF CA!VotesFor(t) THEN 1 ELSE 0)
      /\ v.against = e.against + (IF CA!VotesFor(t) THEN 0 ELSE 1)
      /\ v.rounds = e.rounds + 1
      /\ w.for = v.for /\ w.against = v.against /\ w.rounds = v.rounds
      /\ w.status = CA!Verdict(v)
  BY DEF CA!Voted
<1> HIDE DEF v, w
<1>2. v.for \in Nat /\ v.against \in Nat /\ v.for + v.against = v.rounds
  BY <1>1 DEF EntryOK
<1>3. ASSUME t \in LowFee
      PROVE  /\ w.for = 0 /\ w.status # "Confirmed"
             /\ w.rounds >= SampleSize => w.status = "Rejected"
  <2>1. v.for = 0
    BY <1>1, <1>3 DEF Honest, CA!VotesFor
  <2>2. v.rounds = v.against
    BY <1>2, <2>1
  <2> QED BY <1>1, <1>2, <2>1, <2>2, AllAgainst
<1>4. ASSUME t \notin LowFee \cup expired
      PROVE  /\ w.against = 0 /\ w.status # "Rejected"
             /\ w.rounds >= SampleSize => w.status = "Confirmed"
  <2>1. v.against = 0
    BY <1>1, <1>4 DEF Honest, CA!VotesFor
  <2>2. v.rounds = v.for
    BY <1>2, <2>1
  <2> QED BY <1>1, <1>2, <2>1, <2>2, AllInFavour
<1>5. Honest(t, w)
  BY <1>3, <1>4 DEF Honest
<1> QED BY <1>5 DEF CA!Poll, v, w

LEMMA StepVerdicts ==
  ASSUME TypeOK, Verdicts, Next
  PROVE  Verdicts'
<1>1. CASE \E t \in Tx : Submit(t)
  <2>1. PICK t \in Tx : /\ pending' = [u \in CA!Known \cup {t} |->
                                         IF u = t THEN CA!New ELSE pending[u]]
                        /\ expired' = expired
    BY <1>1 DEF Submit, CA!Submit
  <2>2. ASSUME NEW u \in CA!Known' PROVE Honest(u, pending'[u])
    <3>1. CASE u = t
      <4>1. pending'[u] = CA!New
        BY <2>1, <2>2, <3>1 DEF CA!Known
      <4> QED BY <4>1, ExchangeAssumption DEF CA!New, Honest
    <3>2. CASE u # t
      <4>1. u \in CA!Known /\ pending'[u] = pending[u]
        BY <2>1, <2>2, <3>2 DEF CA!Known
      <4> QED BY <2>1, <4>1 DEF Verdicts, Honest
    <3> QED BY <3>1, <3>2
  <2> QED BY <2>1, <2>2 DEF Verdicts, Honest
<1>2. CASE \E t \in Tx : Expire(t)
  <2>1. pending' = pending /\ expired \subseteq expired'
    BY <1>2 DEF Expire, CA!Expire
  <2> QED BY <2>1 DEF Verdicts, Honest, CA!Known
<1>3. CASE RunRound
  <2>1. pending' = [t \in CA!Known |-> CA!Poll(t, pending[t])] /\ expired' = expired
    BY <1>3 DEF RunRound, CA!Round
  <2>2. CA!Known' = CA!Known
    BY <2>1 DEF CA!Known
  <2>3. ASSUME NEW t \in CA!Known PROVE Honest(t, pending'[t])
    <3>1. EntryOK(pending[t]) /\ Honest(t, pending[t])
      BY DEF TypeOK, CA!TypeOK, EntryOK, Verdicts
    <3> QED BY <2>1, <3>1, PollHonest
  <2> QED BY <2>1, <2>2, <2>3 DEF Verdicts, Honest
<1>4. CASE Process
  <2>1. expired' = expired /\ (Forget \/ UNCHANGED pending)
    BY <1>4, ProcessOutcome DEF Outcome
  <2>2. /\ CA!Known' \subseteq CA!Known
        /\ \A t \in CA!Known' : pending'[t] = pending[t]
    BY <2>1 DEF Forget, CA!Clear, CA!Known
  <2> QED BY <2>1, <2>2 DEF Verdicts, Honest
<1>5. CASE Save
  BY <1>5 DEF Save, adapter, Verdicts, Honest, CA!Known
<1>6. CASE Restart
  <2>1. CA!Known' = {}
    BY <1>6 DEF Restart, CA!Known
  <2> QED BY <2>1 DEF Verdicts
<1> QED BY <1>1, <1>2, <1>3, <1>4, <1>5, <1>6 DEF Next

-----------------------------------------------------------------------------
(* The state manager                                                       *)

LEMMA StepMoney ==
  ASSUME MoneyInv, Budget, Next
  PROVE  MoneyInv'
<1>1. IsFiniteSet(CA!With("Confirmed"))
  <2>1. CA!With("Confirmed") \in SUBSET CA!Known
    BY DEF CA!With
  <2> QED BY <2>1, FS_Subset DEF Budget
<1> QED BY <1>1, SubmitMoney, RoundMoney, ExpireMoney, ProcessMoney, SaveMoney,
           RestartMoney DEF Next

ExchangeInv == MoneyInv /\ Budget /\ Verdicts

\* ExchangeInv is inductive.
THEOREM ExchangeInductive == Spec => []ExchangeInv
<1>1. Init => ExchangeInv
  <2> SUFFICES ASSUME Init PROVE ExchangeInv
    OBVIOUS
  <2>1. Verdicts
    BY DEF Init, CA!Init, CA!Known, Verdicts
  <2> QED BY <2>1, InitMoney, InitBudget DEF ExchangeInv
<1>2. ExchangeInv /\ [Next]_vars => ExchangeInv'
  <2> SUFFICES ASSUME ExchangeInv, [Next]_vars PROVE ExchangeInv'
    OBVIOUS
  <2>1. CASE Next
    <3>1. MoneyInv'
      BY <2>1, StepMoney DEF ExchangeInv
    <3>2. Budget'
      BY <2>1, <3>1, StepBudget DEF ExchangeInv
    <3>3. Verdicts'
      BY <2>1, StepVerdicts DEF ExchangeInv, MoneyInv
    <3> QED BY <3>1, <3>2, <3>3 DEF ExchangeInv
  <2>2. CASE UNCHANGED vars
    <3> USE <2>2 DEF vars, adapter, state
    <3>1. MoneyInv'
      BY DEF ExchangeInv, MoneyInv, TypeOK, CA!TypeOK, CA!Known, Funded
    <3>2. Budget'
      BY DEF ExchangeInv, Budget, Executions, CA!Known
    <3>3. Verdicts'
      BY DEF ExchangeInv, Verdicts, Honest, CA!Known
    <3> QED BY <3>1, <3>2, <3>3 DEF ExchangeInv
  <2> QED BY <2>1, <2>2
<1> QED BY <1>1, <1>2, PTL DEF Spec

\* Whatever is executed next, on whatever ledger the calls before left: nobody
\* but the payer loses, and a failed transaction costs the fee or nothing
\* (execute_transaction, state.rs 214-346).
LEMMA FundedCostsFee ==
  ASSUME Funded
  PROVE  FailureCostsFee
<1>1. PICK lost \in Nat : Solid(ledger, lost)
  BY DEF Funded
<1>2. ASSUME NEW t \in Tx
      PROVE  LET p == What[t]
                 done == Execute(ledger, p)
                 after == done.ledger.balance
                 fee == IF p.kind \in Charged THEN p.cost ELSE 0
             IN /\ \A a \in Accounts(ledger) \ {p.from} : after[a] >= ledger.balance[a]
                /\ done.result = "err" =>
                     /\ \A a \in Accounts(ledger) :
                          \/ after[a] = ledger.balance[a]
                          \/ a = p.from /\ after[a] = ledger.balance[a] - fee
                     /\ \A a \in DOMAIN after \ Accounts(ledger) : after[a] = 0
  <2>1. What[t] \in Payload
    BY ExchangeAssumption
  <2>2. /\ Spares(ledger, What[t].from, Execute(ledger, What[t]).ledger)
        /\ Execute(ledger, What[t]).result = "err"
             => CostsFee(ledger, What[t], Execute(ledger, What[t]).ledger)
    BY <1>1, <2>1, ExecuteDoes
  <2> QED BY <2>2 DEF Spares, CostsFee, Fee, Accounts
<1> QED BY <1>2 DEF FailureCostsFee

\* The money is right through fees, failures, batches and restarts.
THEOREM MoneyAlways == Spec => []Money
<1>1. ExchangeInv => Money
  <2> SUFFICES ASSUME ExchangeInv PROVE Money
    OBVIOUS
  <2>1. TypeOK /\ Funded
    BY DEF ExchangeInv, MoneyInv
  <2>2. FailureCostsFee
    BY <2>1, FundedCostsFee
  <2>3. Conserved
    <3> SUFFICES ASSUME restarts = 0 PROVE Total(ledger.balance) = ledger.supply
      BY DEF Conserved
    <3>1. Solid(ledger, 0)
      BY <2>1 DEF Funded
    <3>2. Total(ledger.balance) \in Nat /\ Total(ledger.balance) + 0 = ledger.supply
      BY <3>1, SolidTotal
    <3> QED BY <3>2
  <2> QED BY <2>1, <2>2, <2>3 DEF Money
<1> QED BY ExchangeInductive, <1>1, PTL

\* A batch is applied once: no transaction is executed more often than it was
\* submitted, with any number of transactions and accounts.
THEOREM ExecutedPerSubmissionAlways == Spec => []ExecutedPerSubmission
<1>1. ExchangeInv => ExecutedPerSubmission
  BY DEF ExchangeInv, Budget, ExecutedPerSubmission
<1> QED BY ExchangeInductive, <1>1, PTL

\* Validity decides, for every threshold above a half and every sample size.
THEOREM ValidityDecidesAlways == Spec => []ValidityDecides
<1>1. ExchangeInv => ValidityDecides
  BY DEF ExchangeInv, Verdicts, Honest, ValidityDecides, CA!ValidityDecides
<1> QED BY ExchangeInductive, <1>1, PTL
=============================================================================
