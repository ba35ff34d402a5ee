SPECIFICATION FairSpec
CONSTANTS
  Writers = {w1, w2}
  Worker = wk
  HeadLen = 2
  BodyLens = {1, 2}
  BlockCap = 3
  RingCap = 5
  MaxMsgs = 4
INVARIANTS
  TypeOK
  IInv
  NoCorruption
  NoLostWakeup
PROPERTIES
  ImplementsFifo
  ImplementsFairFifo
CHECK_DEADLOCK FALSE
