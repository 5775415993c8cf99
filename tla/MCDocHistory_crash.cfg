SPECIFICATION Spec
CONSTANTS
  Body = {short, long}
  Big = {long}
  MaxVersion = 5
  Interval = 3
  Faults = {"crash", "tear"}
  NoText = NoText
  NoDiff = NoDiff
INVARIANTS LedgerInv VersionsIncrease HistoryVerifies ReadBack
PROPERTY NumberNeverReused
