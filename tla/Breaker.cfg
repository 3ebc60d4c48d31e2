\* Two clients and a reset; one success closes a half-open circuit.
SPECIFICATION BreakerFairSpec
CONSTANTS
  c1 = c1  c2 = c2
  Nobody = Nobody
  Client = {c1, c2}
  FailureThreshold = 2
  SuccessThreshold = 1
  MinRequests = 2
  FailurePercent = 70
  HalfOpenMax = 1
  UsizeMax = 7
  WindowMax = 3
  MaxResets = 1
INVARIANTS
  NoFailureMissed
PROPERTIES
  HalfOpensOnce
  CallsReturn
  HalfOpenResolves
