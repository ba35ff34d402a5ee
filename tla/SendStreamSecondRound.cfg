SPECIFICATION Spec
CONSTANTS
  seq_max_NUM = 9
  sess_cache_LEN = 4
  MaxCopy = 2
  Shapes <- MCShapes
  MaxFrames = 8
INVARIANTS
  ResendsLiveData
CHECK_DEADLOCK FALSE
