SPECIFICATION Spec
CONSTANTS
  Thread = {t1, t2}
  MaxFunc = 3
  MaxRound = 4
INVARIANTS TypeOK NoRace RunsOnce
PROPERTY CallsReturn
CHECK_DEADLOCK FALSE
