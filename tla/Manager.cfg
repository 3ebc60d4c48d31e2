\* Two tasks, three peers, a limit of one: the race for it takes all three.
CONSTANTS
  Tasks = {t1, t2}
  Peers = {p1, p2, p3}
  MaxConnections = 1
  MaxRetries = 2
  FailureThreshold = 2
  SuccessThreshold = 2
  MaxCalls = 4
SYMMETRY Alike
SPECIFICATION Spec
INVARIANTS BreakerCounts LimitRace ConnectingInFlight HungForGood
CHECK_DEADLOCK FALSE
