SPECIFICATION RoomsSpec
CONSTANTS
  w1 = w1
  w2 = w2
  r1 = r1
  r2 = r2
  s1 = s1
  s2 = s2
  Workers = {w1, w2}
  Rooms = {r1, r2}
  Sess = {s1, s2}
  OwnerR <- MCOwnerR
  OwnerS <- MCOwnerS
  NoRoom = NoRoom
  sess_cache_LEN = 2
  MaxPlay = 2
  MaxInputs = 5
  seq_max_NUM = 31
  audioCaNum = 3
  Speakers = {s1, s2}
  TimeStamps = {0, 1, 2, 3}
  OtherTimes = {0, 4}
  MaxClock = 5
  MaxInput = 4
INVARIANTS
  TypeOK
  FrameInOnePlace
  CacheIntact
  MixTypeOK
  SlotsTimely
  NothingLostOrDoubled
  PlayedInOrder
  OwnPiecesApart
PROPERTIES
  SentAsMixed
CHECK_DEADLOCK FALSE
