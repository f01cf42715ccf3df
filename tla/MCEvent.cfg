SPECIFICATION Spec
CONSTANTS
  N = 2
  One = {c}
  All = {d}
  Thread = {t1, t2}
  NoOne = NoOne
  MaxCount = 1
  MaxResets = 1
SYMMETRY Symmetry
INVARIANTS TypeOK AsleepIffLive ProxiesCounted NobodyWaitsBesideASignal
PROPERTIES ImplementsSignals
CHECK_DEADLOCK FALSE
