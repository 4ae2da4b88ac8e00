SPECIFICATION DictSpec
CONSTANTS
  k0 = k0
  k1 = k1
  k2 = k2
  l0 = l0
  l1 = l1
  l2 = l2
  Key <- Keys
  Key1 <- SecondKeys
  Value = {a, b}
  Hash <- Hashes
  MaxReserve = 3
SYMMETRY Symmetry
INVARIANT SameIndices
PROPERTY IsMap
CHECK_DEADLOCK FALSE
