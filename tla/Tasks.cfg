SPECIFICATION TasksSpec
CONSTANTS
  Deleter = {d1, d2}
  Cap = 2
  MaxCap = 3
  MaxTask = 5
  VersionMod = 8
INVARIANTS TasksTypeOK HandlesFind ResumedOnce FramesKept
CHECK_DEADLOCK FALSE
