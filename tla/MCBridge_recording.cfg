SPECIFICATION Spec
CONSTANTS
  Captures = {c1}
  Threads = {t1}
  None = None
  QueueCapacity = 2
  ContextCapacity = 2
  QuiescencePolls = 2
  MaxCallbacks = 4
  Calls = {"start", "stop", "destroy", "poll"}
PROPERTIES
  ImplementsView
  PollsAreInOrder
  CallbackReturns
  CallsReturn
