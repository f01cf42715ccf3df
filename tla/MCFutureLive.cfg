SPECIFICATION FairSpec
CONSTANTS
  Sched = {s}
  Coro = {p, q}
  Awaitable = {a}
  Void = {q}
  Bare = {}
  None = None
PROPERTIES DueRuns EndsWhenAllDone
