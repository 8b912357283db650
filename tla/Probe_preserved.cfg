SPECIFICATION Spec
CONSTANTS
  QueueCapacity = 1
  Modes = {"unguided"}
  Stages = 1
  IOFails = FALSE
  MaxInside = 2
  MaxCallbacks = 2
  MaxInterrupts = 0
INVARIANTS
  EvidenceIsPreserved
CHECK_DEADLOCK FALSE
