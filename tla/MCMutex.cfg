SPECIFICATION FairSpec
CONSTANTS
  Coro = {c1, c2}
  Thread = {t1}
  State = {s1, s2, s3}
  NoUser = NoUser
  NoState = NoState
  MaxDepth = 2
INVARIANTS TypeOK OwnerIsHolder NoneForgotten
PROPERTIES ImplementsLock WaiterRuns
