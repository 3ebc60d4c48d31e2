SPECIFICATION FairSpec
CONSTANTS
  a = a  b = b  c = c
  t1 = t1  t2 = t2
  Nobody = Nobody
  Node = {a, b, c}
  Thread = {t1, t2}
  Parents <- Diamond
  Shard <- TwoShards
  Given = {"Pending", "Final"}
  Goal = {"Verified", "Final", "Rejected"}
  MaxVertices = 2
  Threshold = 0
  CacheDepth = 2
  MaxOps = 4
INVARIANTS
  LinksTrue
  IndexesAgree
PROPERTIES
  AnswersNeverRegress
  CallsReturn
CHECK_DEADLOCK FALSE
