SPECIFICATION Spec
CONSTANTS
  Body = {short, long}
  Big = {long}
  MaxVersion = 3
  Interval = 2
  Faults = {"crash", "tear"}
  NoText = NoText
  NoDiff = NoDiff
INVARIANT NeverRefused
