\* A worker with its cache, asked one question after the other.
SPECIFICATION FairWorkerSpec
CONSTANTS
  UINT32_MAX = 9
  UINT16_MAX = 2
  ARBITRARY_OFFSET = 3
  Capacity = 6
  Names <- MCNames
  Lower <- MCLower
  SameBucket <- MCSameBucket
  MetricName = "metric"
  NoExposition = NoExposition
  Expositions <- MCExpositions
  Questions <- MCQuestions
INVARIANTS
  CountsExact
  LookupRoundTrip
  SeriesDecode
  FinishedIsSorted
  SpecCorrect
  UnknownMetricIsNotAny
  LinkFindsSeries
  SummaryCountsAnswer
PROPERTIES
  ImplementsService
  BackForTheNext
CHECK_DEADLOCK FALSE
