SPECIFICATION FairSpec
CONSTANTS
  QueueCapacity = 2
  Modes = {"unguided", "guided"}
  Stages = 1
  IOFails = TRUE
  MaxInside = 2
  MaxCallbacks = 2
  MaxInterrupts = 1
PROPERTIES
  ShutdownEnds
CHECK_DEADLOCK FALSE
