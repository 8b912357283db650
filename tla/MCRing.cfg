SPECIFICATION Spec
CONSTANTS
  QueueCapacity = 3
  Frames = {f1, f2, f3}
  NoFrame = NoFrame
INVARIANTS
  TypeOK
  IndicesAgree
PROPERTIES
  ImplementsStream
