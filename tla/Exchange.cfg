\* One restart; batches of two with an order; a history and a list of
\* checkpoints that overflow.  The bounds stop the model.
SPECIFICATION LiveSpec
CONSTANTS
  a = a  b = b  c = c
  pay1 = pay1  pay2 = pay2  burn = burn  make = make  grant = grant  free = free  stick = stick
  Account = {a, b, c}
  Shard <- Shards
  MaxSupply = 6
  MaxAmount = 9
  Tx = {pay1, pay2, burn, make, grant, free, stick}
  LowFee = {free}
  Expiring = {pay2}
  Unpriced = {grant}
  What <- Offer
  Genesis <- Start
  Num = 3
  Den = 4
  SampleSize = 2
  MaxRounds = 1
  MaxSubmits = 3
  Interval = 2
  MaxHistory = 2
  MaxCheckpoints = 2
  MaxRestarts = 1
  MaxIdle = 1
CHECK_DEADLOCK FALSE
INVARIANTS
  Money
  ExecutedPerSubmission
  ValidityDecides
PROPERTIES
  Settles
