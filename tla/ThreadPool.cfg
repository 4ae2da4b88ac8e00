SPECIFICATION PoolSpec
CONSTANTS
  Worker = {w1, w2, w3}
  Client = {c1, c2}
  MaxJob = 4
INVARIANTS PoolTypeOK NoWakeLost JobsKept
PROPERTY Served
CHECK_DEADLOCK FALSE
