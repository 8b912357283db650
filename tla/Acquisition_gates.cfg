SPECIFICATION Spec
CONSTANTS
  RegisterMax = 2
INVARIANTS
  TypeOK
  NothingUnverifiedRuns
  NothingLeaks
CHECK_DEADLOCK FALSE
