SPECIFICATION Spec
CONSTANTS
  Path = {a, b}
  Body = {x, y}
  MaxStamp = 2
  MaxHold = 0
  Ops = {"create", "update", "move", "delete", "forget", "import"}
  Faults = {"crash", "tear", "edit"}
  None = None
SYMMETRY Symmetry
CHECK_DEADLOCK FALSE
INVARIANTS NodeInv NoSilentGap ForgottenIsErased
PROPERTIES NoResurrection DeletionAccounted MoveKeepsHistory
