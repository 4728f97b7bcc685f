\* Exhaustive merge: all small series against all small set specs.
SPECIFICATION FairSpec
CONSTANTS
  UINT32_MAX = 15
  NotFound = 9
  Metrics = {0, 1}
  AllSeries <- MCAllSeries
  SetSpecs <- MCSetSpecs
INVARIANTS
  NoSeriesLost
  SoundWhenLabelled
  AnswerInOrder
PROPERTIES
  ImplementsScan
  Termination
CHECK_DEADLOCK FALSE
