SPECIFICATION Spec
CONSTANTS
  QueueCapacity = 1
  Threads = {t1, t2}
  MainThread = t1
  None = None
  Calls = {"start", "stop", "wait", "read", "drain", "close"}
  MaxStarts = 2
  MaxCallbacks = 1
  MaxInterrupts = 1
INVARIANTS
  TypeOK
  CallsAreSerialized
  HandleIsOfACapture
PROPERTIES
  ReadsAreInOrder
  NoneLeavesNothingSeen
CHECK_DEADLOCK FALSE
