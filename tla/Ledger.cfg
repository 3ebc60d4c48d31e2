\* Amounts around the cap and around u64::MAX; a1 and a2 share a shard, so that
\* a transfer between them hangs, after which the ledger accepts no call.
SPECIFICATION LedgerSpec
CONSTANTS
  a1 = a1  a2 = a2  a3 = a3
  Account = {a1, a2, a3}
  Shard <- Sharded
  MaxSupply = 5
  MaxAmount = 6
  Input = {0, 1, 2, 3, 6}
INVARIANTS
  BooksBalance
PROPERTIES
  FailureChangesNothing
CHECK_DEADLOCK FALSE
