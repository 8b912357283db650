SPECIFICATION Spec
CONSTANTS
  QueueCapacity = 1
  Modes = {"unguided", "confirmed"}
  Stages = 2
  IOFails = TRUE
  MaxInside = 2
  MaxCallbacks = 3
  MaxInterrupts = 2
INVARIANTS
  TypeOK
  FramesAreOfTheirStage
  EvidenceAddsUp
  EvidenceIsOfAClosedCapture
  ReportMatchesExit
CHECK_DEADLOCK FALSE
