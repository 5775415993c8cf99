SPECIFICATION Spec
CONSTANTS
  Doc = {d1, d2}
  Proc = {p1}
  MaxVersion = 3
  MaxWrites = 4
  MaxAttempts = 2
  Ops = {"commit", "defer", "delete", "rebuild"}
  Faults = {}
  None = None
SYMMETRY Symmetry
INVARIANTS CrossChainVerifies SealsRecorded RebuildHeals
PROPERTY SealsItsPublish
