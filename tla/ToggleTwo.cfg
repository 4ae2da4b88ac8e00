SPECIFICATION Spec
CONSTANTS
  Thread = {t1, t2}
  MaxFunc = 2
  MaxRound = 4
PROPERTIES GoExecutes
CHECK_DEADLOCK FALSE
