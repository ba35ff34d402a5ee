SPECIFICATION Spec
CONSTANTS
  seq_max_NUM = 13
  sess_cache_LEN = 4
  MaxCopy = 2
  Shapes <- MCShapes
  MaxFrames = 8
INVARIANTS
  TypeOK
  HeldOnce
  FramesDelimited
  WindowFollows
  AnswersRecent
  ResendsFirstRound
  SubUndoesAdd
  OneIsAhead
CHECK_DEADLOCK FALSE
