SPECIFICATION Spec
CONSTANTS
  Item = {a, b}
  Raw = Raw
  Calls = {}
  MinCap = 3
  MaxCap = 7
INVARIANTS TypeOK Lifetimes
PROPERTIES IsFifo
CHECK_DEADLOCK FALSE
