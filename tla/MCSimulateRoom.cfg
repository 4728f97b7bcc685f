\* "oodles of room" on the same requests.
SPECIFICATION FairCurveSpec
CONSTANTS
  WORD64 = 128
  INT32 = 16
  MAX_N_VALUES = 6
  ROOM = 16
  Widths = {8, 11}
  Times <- MCTimes
  Steps <- MCSteps
  Series <- MCSeries
  Belts = {2, 3, 4, 5}
  TEN_MINUTES = 8
  RAMP = 3
  WORD32 = 32
  FINE = 2
  LastBlock = 9
  Noise <- MCNoise
INVARIANT BufferFits
CHECK_DEADLOCK FALSE
