SPECIFICATION Spec
CONSTANTS
  Doc = {d1, d2}
  Proc = {p1, p2}
  MaxVersion = 2
  MaxWrites = 3
  MaxAttempts = 2
  Ops = {"commit"}
  Faults = {"crash", "tear", "exit", "edit", "unreadable"}
  None = None
SYMMETRY Symmetry
PROPERTY ChainRefinesLog
INVARIANT ChainInv
