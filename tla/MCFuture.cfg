SPECIFICATION Spec
CONSTANTS
  Sched = {s1, s2}
  Coro = {p, q}
  Awaitable = {a}
  Void = {q}
  Bare = {a}
  None = None
SYMMETRY Symmetry
INVARIANTS TypeOK OneHandle NothingForgotten OwnThread TaskKept
PROPERTIES ReturnsWhenDone ImplementsCompletion
