SPECIFICATION StopSpec
CONSTANTS
  Thread = {t1, t2}
  Callback = {c1}
  NoThread = NoThread
  NoCallback = NoCallback
  kSourceRefIncrement = 64
  MaxSources = 2
  MaxTokens = 2
INVARIANT LivesWhileReferenced
CHECK_DEADLOCK FALSE
