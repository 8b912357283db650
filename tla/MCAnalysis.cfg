SPECIFICATION Spec
CONSTANTS
  FrameIds <- MCFrameIds
  Numbers <- MCNumbers
  Times <- MCTimes
  NaN = NaN
  Infinity = Infinity
  MinusInfinity = MinusInfinity
  MaxSamples = 3
INVARIANTS
  SkippedAreLost
  TimesAreOrdered
  FrameIdsAddUp
CHECK_DEADLOCK FALSE
