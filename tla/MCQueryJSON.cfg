\* The content type of every answer, on the same requests.
SPECIFICATION FairSpec
CONSTANTS
  WORD64 = 32
  INT32 = 8
  MAX_N_VALUES = 3
  Uris = {"series", "summary", "other"}
  ArgLists <- MCArgLists
  Rejected <- MCRejected
  Undefined <- MCUndefined
  Answer <- MCAnswer
  NoText = NoText
  Curves = {"s1", "s2", "no_label", "no_period"}
  Incomplete = {"no_label"}
  ZeroPeriod = {"no_period"}
  Wide = {"s2"}
INVARIANT AlwaysJSON
CHECK_DEADLOCK FALSE
