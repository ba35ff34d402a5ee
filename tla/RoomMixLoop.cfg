SPECIFICATION MixSpec
CONSTANTS
  seq_max_NUM = 7
  audioCaNum = 3
  Speakers = {1}
  TimeStamps = {0, 1, 2}
  OtherTimes = {0}
  MaxClock = 12
  MaxInput = 4
INVARIANTS
  LoopEnds
CHECK_DEADLOCK FALSE
