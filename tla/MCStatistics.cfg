SPECIFICATION StatsSpec
CONSTANTS
  c1 = c1
  c2 = c2
  Captures <- MCCaptures
  Readers <- MCReaders
  Threads = {t1}
  None = None
  QueueCapacity = 1
  ContextCapacity = 2
  QuiescencePolls = 1
  MaxCallbacks = 2
  Calls = {"start", "stop", "destroy", "poll"}
CONSTRAINT MCBystander
INVARIANTS
  NoCallbackUnreported
  NothingOlderIsCharged
  SettledStatisticsAddUp
