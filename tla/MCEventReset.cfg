SPECIFICATION Spec
CONSTANTS
  N = 1
  One = {c}
  All = {}
  Thread = {t}
  NoOne = NoOne
  MaxCount = 1
  MaxResets = 2
INVARIANTS NobodyWaitsBesideASignal
CHECK_DEADLOCK FALSE
