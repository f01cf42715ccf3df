SPECIFICATION TasksSpec
CONSTANTS
  k1 = k1
  k2 = k2
  k3 = k3
  a1 = a1
  a2 = a2
  a3 = a3
  Thread = {t1, t2}
  Callback = {c1, c2}
  NoThread = NoThread
  NoCallback = NoCallback
  kSourceRefIncrement = 64
  MaxSources = 3
  MaxTokens = 4
  Timer = {k1, k2, k3, a1, a2, a3}
  Sleeper = {k1, k2, k3}
  tp <- MCtp
  NoTimer = NoTimer
  MaxClock = 1
  Child = {k1, k2, k3}
  Nobody = Nobody
  Asserts = FALSE
  Locker = {k1, k2, n1}
  n1 = n1
  NativeThread = {n1}
  MaxLockers = 2
  NoLocker = NoLocker
  M = 3
  Orders <- MCOrders
  Gen = {g1, g2, g3}
  g1 = g1
  g2 = g2
  g3 = g3
  Yields <- MCYields
INVARIANTS
  TasksTypeOK NoTimerLost AllOrNothing
PROPERTIES
  TouchesOnlyLive ImplementsStop CallbacksRun ImplementsAlarms EveryTimerCalled
  ImplementsJoin ParentGoesOn RangeLocked
  ImplementsTurns
CHECK_DEADLOCK FALSE
