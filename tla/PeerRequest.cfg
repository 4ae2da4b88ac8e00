SPECIFICATION Spec
CONSTANTS
  Co = {c1, c2}
  Modulus = 8
  MaxCount = 4
  MaxGen = 2
INVARIANTS TypeOK AnswerIsMine NoLeak
PROPERTIES CallsReturn
CHECK_DEADLOCK FALSE
