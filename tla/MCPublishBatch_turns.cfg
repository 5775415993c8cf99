SPECIFICATION FairSpec
CONSTANTS
  Doc = {d1, d2, d3}
  Length = 3
  Concurrency = 2
  MaxWork = 2
  Budget = 2
  Faults = {"write", "progress"}
CHECK_DEADLOCK FALSE
INVARIANTS TurnInv OneWriterPerDocument
PROPERTIES JudgedInOrder BatchReturns EverySettles
