SPECIFICATION Spec
CONSTANTS
  Msg = {a, b}
  WriteQueueSizeLimit = 2
  MaxGen = 2
  MaxSend = 3
INVARIANTS TypeOK Apart NoLostWakeup
PROPERTIES Drained ImplementsChannel
CHECK_DEADLOCK FALSE
