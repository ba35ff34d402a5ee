SPECIFICATION Spec
CONSTANTS
  w1 = w1
  w2 = w2
  r1 = r1
  r2 = r2
  s1 = s1
  s2 = s2
  Workers = {w1, w2}
  Rooms = {r1, r2}
  Sess = {s1, s2}
  OwnerR <- MCOwnerR
  OwnerS <- MCOwnerS
  NoRoom = NoRoom
  sess_cache_LEN = 2
  MaxPlay = 1
  MaxInputs = 3
INVARIANTS
  AudioFindsRoom
CHECK_DEADLOCK FALSE
