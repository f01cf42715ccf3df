SPECIFICATION PartsSpec
CONSTANTS
  Reader = {r1, r2}
  Writer = {w1, w2}
  Value = {a, b}
  NoVal = NoVal
  Capacities = {0, 1, 2}
  Sz = 3
  Word = 5
  Item = {a, b}
  NoItem = NoItem
  Optional = TRUE
  Node = {n1, n2, n3, n4}
  Null = Null
INVARIANTS
  TypeOK NobodyWaitsInVain QueuesHoldTheSuspended RingTypeOK ObserversAgree
PROPERTIES
  ImplementsMatch EveryoneIsServed ImplementsFifo ImplementsDeque
