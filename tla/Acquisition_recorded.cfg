SPECIFICATION Spec
CONSTANTS
  RegisterMax = 2
INVARIANTS
  FailureIsRecorded
CHECK_DEADLOCK FALSE
