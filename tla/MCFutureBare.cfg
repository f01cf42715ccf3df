SPECIFICATION FairSpec
CONSTANTS
  Sched = {s}
  Coro = {p, q}
  Awaitable = {a}
  Void = {q}
  Bare = {a}
  None = None
PROPERTIES EndsWhenAllDone
