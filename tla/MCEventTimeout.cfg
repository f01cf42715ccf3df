SPECIFICATION FairSpec
CONSTANTS
  N = 2
  One = {c}
  All = {d}
  Thread = {t}
  NoOne = NoOne
  MaxCount = 1
  MaxResets = 0
PROPERTIES TimeoutReturns
CHECK_DEADLOCK FALSE
