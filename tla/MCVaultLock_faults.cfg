SPECIFICATION FairSpec
CONSTANTS
  Proc = {p1, p2}
  Heartbeat = 1
  Stale = 4
  Acquire = 5
  Lag = 1
  Faults = {"crash", "suspend", "mark", "beat", "release"}
  None = None
INVARIANTS LiveHolderNeverStale RunningExclusion
PROPERTIES TimeOutMeansContention WaitEnds
