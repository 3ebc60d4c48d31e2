SPECIFICATION BusySpec
CONSTANTS
  c1 = c1  c2 = c2 
  Nobody = Nobody
  Client = {c1}
  FailureThreshold = 2
  SuccessThreshold = 2
  MinRequests = 2
  FailurePercent = 50
  HalfOpenMax = 1
  UsizeMax = 7
  WindowMax = 3
  MaxResets = 0
PROPERTIES
  HalfOpenResolves
