SPECIFICATION FairSpec
CONSTANTS
  Sched = {s}
  Coro = {p, q}
  Awaitable = {a}
  Void = {a, q}
  Bare = {}
  None = None
PROPERTIES DueRuns
