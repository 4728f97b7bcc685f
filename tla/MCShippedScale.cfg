\* The shipped catalogue with the "By Scale" groups of its pages.
SPECIFICATION FairSpec
CONSTANTS
  UINT32_MAX = 255
  AllSeries <- MCShippedSeries
  SetSpecs <- ScaleGroups
INVARIANT OnlyMatching
CHECK_DEADLOCK FALSE
