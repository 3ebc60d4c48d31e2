\* Three tasks that want the two connections a peer may have, in a pool that
\* is to be kept at two connections.  The pool may lock up for good (Stuck).
CONSTANTS
  t1 = t1  t2 = t2  t3 = t3
  Tasks = {t1, t2, t3}
  NumPeers = 1
  Shard <- Apart
  Conns = {1, 2, 3}
  MaxSize = 2
  MinSize = 2
SPECIFICATION FairSpec
INVARIANTS PermitsConserved NeverOverMax OneHolder
PROPERTIES CallsReturn
CHECK_DEADLOCK FALSE
