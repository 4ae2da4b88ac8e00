SPECIFICATION Spec
CONSTANTS
  Caller = {c1, c2}
  Sizes = {1, 2}
  FileCounts = {1, 2}
  MaxItem = 6
INVARIANTS TypeOK WrittenInOrder FilesInOrder
PROPERTY Served
CHECK_DEADLOCK FALSE
