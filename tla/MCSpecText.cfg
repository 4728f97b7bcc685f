\* The set spec parser on rendered and on damaged texts.
SPECIFICATION FairSpec
CONSTANTS
  SAFETY_COUNT = 16
  Texts <- MCTexts
INVARIANTS
  InBuffer
  SpansExact
  SafetyIsEnough
PROPERTY AcceptsRendered
CHECK_DEADLOCK FALSE
