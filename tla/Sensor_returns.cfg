SPECIFICATION FairSpec
CONSTANTS
  QueueCapacity = 1
  Threads = {t1, t2}
  MainThread = t1
  None = None
  Calls = {"start", "stop", "wait", "read", "close"}
  MaxStarts = 1
  MaxCallbacks = 1
  MaxInterrupts = 0
PROPERTIES
  CallsReturn
