SPECIFICATION Spec
CONSTANTS
  Obj = {o1, o2}
  SRoot = {s1, s2}
  WRoot = {w1}
  Null = Null
  Temp = Temp
SYMMETRY Symmetry
INVARIANT Counted
PROPERTY DeadStaysDead
CHECK_DEADLOCK FALSE
