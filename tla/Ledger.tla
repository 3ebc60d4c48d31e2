------------------------------- MODULE Ledger -------------------------------
(***************************************************************************)
(* A Ledger and the calls made on it.  Every method that writes takes      *)
(* &mut self, so the calls come one after another; a call that hangs keeps *)
(* the ledger borrowed for good.                                           *)
(***************************************************************************)
EXTENDS LedgerOps

CONSTANT Input   \* the amounts and fees callers pass: u64 values

ASSUME InputAssumption == Input \subseteq Amount

VARIABLES books, answer   \* the Ledger, and the outcome of the last call

calls == <<books, answer>>

LedgerTypeOK == books \in Ledgers /\ answer \in Outcomes

LedgerInit == books = EmptyLedger /\ answer = "ok"

Take(outcome) ==
  /\ answer # "hung"
  /\ books' = outcome.ledger
  /\ answer' = outcome.result

LedgerNext ==
  \/ \E a \in Account : Take(CreateAccount(books, a))
  \/ \E a \in Account, n \in Input : Take(Mint(books, a, n))
  \/ \E a \in Account, n \in Input : Take(Burn(books, a, n))
  \/ \E f, t \in Account, n \in Input : Take(Transfer(books, f, t, n))
  \/ \E f, t \in Account, n, fee \in Input :
        Take(TransferWithFee(books, f, t, n, fee))

LedgerSpec == LedgerInit /\ [][LedgerNext]_calls

-----------------------------------------------------------------------------
(* Properties                                                              *)

\* check_invariants holds after any sequence of calls: the balances add up to
\* the supply, whichever calls failed in between (ledger.rs 450-481).
SupplyIsBalances == Total(books.balance) = books.supply

\* mint never takes the supply past max_supply, and no other call makes rUv.
SupplyCapped == books.supply <= MaxSupply

\* The books: a map to u64 balances that add up to a supply within the cap.
BooksBalance == LedgerTypeOK /\ SupplyIsBalances /\ SupplyCapped

\* A call that returns an error leaves the whole ledger as it was: transfer
\* debits before it credits, and transfer_with_fee moves the amount before it
\* burns the fee, but neither second step can fail.
FailureChangesNothing == [][answer' = "err" => books' = books]_calls
=============================================================================
