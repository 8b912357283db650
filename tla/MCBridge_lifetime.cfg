SPECIFICATION Spec
CONSTANTS
  Captures = {c1, c2}
  Threads = {t1, t2}
  None = None
  QueueCapacity = 1
  ContextCapacity = 2
  QuiescencePolls = 1
  MaxCallbacks = 2
  Calls = {"start", "stop", "destroy"}
SYMMETRY Symmetry
INVARIANTS
  TypeOK
  NoStaleAccess
  InFlightIsExact
  GateIsVacantForAttach
  OnlyActiveIsReachable
  RefconsAreNotShared
  StatusIsTruthful
  QueueIsOfSession
  CallbacksAddUp
PROPERTIES
  InactiveIsUntouched
  ImplementsRundown
  ImplementsView
