\* The shipped catalogue with the queries of its own pages.
SPECIFICATION Spec
CONSTANTS
  UINT32_MAX = 255
  AllSeries <- MCShippedSeries
  SetSpecs <- MCPageSpecs
INVARIANT PagesAnswered
CHECK_DEADLOCK FALSE
