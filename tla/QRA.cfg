\* A chain of three vertices, the last without votes; two voters, of whom one is
\* between the verdicts and both are not; rounds past the tenth, where fast runs
\* begin to sleep.  The other bounds stop the model.
CONSTANTS
  v1 = v1  v2 = v2  v3 = v3
  p1 = p1  p2 = p2
  Vertices = {v1, v2, v3}
  Voters = {p1, p2}
  Ballot <- Answers
  Similar <- Chain
  Beta = 60
  Alpha = 60
  MaxRounds = 12
  PatternVotes = 1
  MaxFinalized = 2
  MaxVotes = 2
  MaxRuns = 1
  Polled = {v1, v2}
SPECIFICATION Spec
INVARIANTS TypeOK TipsArePending
PROPERTIES RecordsStand SupportAtFinality ForkHasSurvivor
CHECK_DEADLOCK FALSE
