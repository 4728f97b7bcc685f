\* Building and searching small tables.
SPECIFICATION Spec
CONSTANTS
  Names <- MCNames
  Lower <- MCLower
  Length <- MCLength
  NoKey = NoKey
  Hashes <- MCHashes
  KeyLists <- MCKeyLists
  BucketSizes = {16, 128, 192, 256}
  MaxSizes = {3, 6}
  PTR = 8
  CACHELINE = 64
  WORD16 = 256
  MANY = 4
  DENSE = 3
  LAST = 2
  UINT32_MAX = 20
  ARBITRARY_OFFSET = 5
  Capacity = 10
INVARIANTS
  NothingClobbered
  FindExact
CHECK_DEADLOCK FALSE
