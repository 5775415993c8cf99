SPECIFICATION Spec
CONSTANTS
  Path = {a}
  Body = {x, y}
  MaxStamp = 3
  MaxHold = 2
  Ops = {"create", "hold", "approve", "publish", "reject", "archive", "restore", "forget", "embed"}
  Faults = {"crash", "tear"}
  None = None
SYMMETRY Symmetry
CHECK_DEADLOCK FALSE
INVARIANTS HoldAppliedOnce NoErasedVector ErasureOnRecord
