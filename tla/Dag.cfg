\* Three calls on two replicas that start empty; two permits per replica, so
\* that two submissions race for the lock and a third queues for a permit.
CONSTANTS
  r1 = r1  r2 = r2 
  t1 = t1  t2 = t2  t3 = t3
  a = a  b = b  c = c
  x = x  y = y
  Nobody = Nobody
  Replicas = {r1, r2}
  Tasks = {t1, t2, t3}
  Ids = {a, b, c}
  Bodies = {x, y}
  Messages <- Equivocation
  MaxConcurrent = 2
  Foreign = {}
SPECIFICATION FairSpec
INVARIANTS GraphSound AnswersTrue EndsClean
PROPERTIES CallsReturn RefinesAppendOnlyDag
CHECK_DEADLOCK FALSE
