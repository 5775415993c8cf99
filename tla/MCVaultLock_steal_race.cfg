SPECIFICATION Spec
CONSTANTS
  Proc = {p1, p2, p3}
  Heartbeat = 1
  Stale = 4
  Acquire = 5
  Lag = 1
  Faults = {"crash"}
  None = None
SYMMETRY Symmetry
INVARIANT MutualExclusion
