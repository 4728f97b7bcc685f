\* The exposition parser on rendered and on damaged texts.
SPECIFICATION FairSpec
CONSTANTS
  SAFETY_COUNT = 45
  Texts <- MCTexts
INVARIANTS
  MetricFirst
  WholeTextRead
  SpansExact
  SafetyIsEnough
PROPERTY AcceptsRendered
CHECK_DEADLOCK FALSE
