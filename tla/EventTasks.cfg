SPECIFICATION Spec
CONSTANTS
  Coro = {c1, c2, c3}
  Key = {k1, k2}
  Null = Null
  Timeout = 1
INVARIANTS KeptOnce OwnAnswer
PROPERTY WaitEnds
CHECK_DEADLOCK FALSE
